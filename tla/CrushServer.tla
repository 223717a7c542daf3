---------------------------- MODULE CrushServer ----------------------------
(***************************************************************************)
(* The server's connections and the crush slots they share                 *)
(* (src/src/server.rs and the handle loops of src/src/proto).  A           *)
(* connection is a task that reads one command at a time, answers its      *)
(* statements in order and writes to a socket whose send buffer may be     *)
(* full.  An unsafe statement takes a permit of the semaphore crush_slots  *)
(* without waiting, streams max_rows rows in chunks and gives the permit   *)
(* back when the stream, or the task, ends.                                *)
(***************************************************************************)
EXTENDS CrushPolicy, Sequences, FiniteSets

CONSTANTS
    Conns,          \* connections; a closed one may be accepted again
    Proto,          \* Proto[c]: the listener c comes in by: "pg", "mysql", "redis"
    Stmts,          \* names of the statements that clients send
    ShapeOf,        \* ShapeOf[s]: what shape::extract sees in s
    Budget,         \* Budget[s]: the max_rows of an Execute, 0 for no limit
    Extended,       \* the statements that are pg extended-protocol messages
    Chores,         \* the commands that ghosts never haunt (Sync, COM_PING, QUIT)
    Commands,       \* Commands[c]: the commands c may send
    CrushEnabled, WarnOnly, Threshold, MaxRows, Concurrency,  \* CrushConfig
    Chunk,          \* CRUSH_CHUNK
    Ghosts,         \* which of "latency", "error" and "drop" have a probability > 0
    Seeded,         \* Config.seed is set
    SeedDraw,       \* SeedDraw[s]: the row count that the seed and the text of s draw
    SockCap,        \* writes that fit in the send buffer of a client that does not read
    Attentive       \* the clients that never stop reading while they are connected

ASSUME PolicyAssumption ==
    /\ ShapeOf \in [Stmts -> Shapes]
    /\ Budget \in [Stmts -> Nat]
    /\ SeedDraw \in [Stmts -> Band]
    /\ Threshold \in Thresholds
    /\ CrushEnabled \in BOOLEAN /\ WarnOnly \in BOOLEAN /\ Seeded \in BOOLEAN
    /\ Ghosts \subseteq {"latency", "error", "drop"}

ASSUME SizeAssumption ==
    /\ MaxRows \in Nat /\ Concurrency \in Nat
    /\ Chunk \in Nat \ {0} /\ SockCap \in Nat \ {0}

\* Only a pg simple query carries several statements (or none).
ASSUME CommandsAssumption ==
    /\ Proto \in [Conns -> {"pg", "mysql", "redis"}]
    /\ DOMAIN Commands = Conns
    /\ \A c \in Conns : \A cmd \in Commands[c] :
          /\ cmd \in Seq(Stmts)
          /\ Len(cmd) = 1 \/ Proto[c] = "pg"

\* concurrency.max(1): a crush slot always exists.
Permits == IF Concurrency = 0 THEN 1 ELSE Concurrency

\* The statements that the configuration wants crushed.
MustCrush ==
    {s \in Stmts : /\ CrushEnabled /\ ~WarnOnly
                   /\ CrushClass(ShapeOf[s], Threshold) = "crush"}

Draws(s) == IF Seeded THEN {SeedDraw[s]} ELSE Band

RowCounts ==
    [s \in Stmts |-> {OrdinaryRows(ShapeOf[s], d, Budget[s]) : d \in Draws(s)}]

\* What a ghost answers in place of a command.
GhostAnswer == [stmt |-> "any", kind |-> "error", rows |-> 0]

Haunted(cmd) == cmd = <<>> \/ Head(cmd) \notin Chores
----------------------------------------------------------------------------
VARIABLES
    client,     \* client[c]: "absent", "reading", "stalled" or "gone"
    pc,         \* pc[c]: where the task of c is suspended
    todo,       \* todo[c]: the statements of the current command not yet answered
    answers,    \* answers[c]: the answers to the current or last command, in order
    sent,       \* sent[c]: rows streamed so far by the crush stream of c
    buf,        \* buf[c]: writes in the send buffer of c that its client has not read
    out,        \* out[c]: answers wait in the task's own buffer to be written
    slots,      \* permits available in crush_slots
    holders     \* the connections whose task owns a permit

vars == <<client, pc, todo, answers, sent, buf, out, slots, holders>>

Streaming == {"flush", "header", "stream"}
Places == {"closed", "handshake", "idle", "haunt", "stmt"} \cup Streaming

Init ==
    /\ client = [c \in Conns |-> "absent"]
    /\ pc = [c \in Conns |-> "closed"]
    /\ todo = [c \in Conns |-> <<>>]
    /\ answers = [c \in Conns |-> <<>>]
    /\ sent = [c \in Conns |-> 0]
    /\ buf = [c \in Conns |-> 0]
    /\ out = [c \in Conns |-> FALSE]
    /\ slots = Permits
    /\ holders = {}
----------------------------------------------------------------------------
(* Parts of actions.                                                       *)

GoTo(c, place) == pc' = [pc EXCEPT ![c] = place]

\* write_all returns once the bytes fit in the send buffer.
Write(c) ==
    /\ buf[c] < SockCap
    /\ buf' = [buf EXCEPT ![c] = @ + 1]

\* Mutant: the permit is forgotten, not returned.
MutReleaseForgets(c) ==
    /\ slots' = slots
    /\ holders' = holders \ {c}

\* The permit is dropped with the scope, or the task, that owns it.
Release(c) ==
    /\ slots' = IF c \in holders THEN slots + 1 ELSE slots
    /\ holders' = holders \ {c}

\* Mutant: a task that ends early keeps its permit from the others.
MutCloseLeaks(c) ==
    /\ GoTo(c, "closed")
    /\ client' = [client EXCEPT ![c] = "absent"]
    /\ todo' = [todo EXCEPT ![c] = <<>>]
    /\ answers' = [answers EXCEPT ![c] = <<>>]
    /\ sent' = [sent EXCEPT ![c] = 0]
    /\ buf' = [buf EXCEPT ![c] = 0]
    /\ out' = [out EXCEPT ![c] = FALSE]
    /\ slots' = slots
    /\ holders' = holders \ {c}

\* The task of c returns: its socket, buffers and permit are dropped.
Close(c) ==
    /\ GoTo(c, "closed")
    /\ client' = [client EXCEPT ![c] = "absent"]
    /\ todo' = [todo EXCEPT ![c] = <<>>]
    /\ answers' = [answers EXCEPT ![c] = <<>>]
    /\ sent' = [sent EXCEPT ![c] = 0]
    /\ buf' = [buf EXCEPT ![c] = 0]
    /\ out' = [out EXCEPT ![c] = FALSE]
    /\ Release(c)

\* The head of todo[c] has been answered with rows rows.
Answered(c, kind, rows) ==
    /\ answers' = [answers EXCEPT ![c] =
                      Append(@, [stmt |-> Head(todo[c]), kind |-> kind, rows |-> rows])]
    /\ todo' = [todo EXCEPT ![c] = Tail(@)]
----------------------------------------------------------------------------
(* Opening and closing a connection.                                       *)

\* redis has no greeting.
Accept(c) ==
    /\ pc[c] = "closed"
    /\ GoTo(c, IF Proto[c] = "redis" THEN "idle" ELSE "handshake")
    /\ client' = [client EXCEPT ![c] = "reading"]
    /\ UNCHANGED <<todo, answers, sent, buf, out, slots, holders>>

\* The startup exchange: whoever asks is let in.
Handshake(c) ==
    /\ pc[c] = "handshake"
    /\ Write(c)
    /\ GoTo(c, "idle")
    /\ UNCHANGED <<client, todo, answers, sent, out, slots, holders>>

\* A bad startup packet, a cancel request, a bad length, or Terminate.
Refuse(c) ==
    /\ pc[c] \in {"handshake", "idle"}
    /\ Close(c)

\* The task reads end of file.
HangUp(c) ==
    /\ pc[c] \in {"handshake", "idle"}
    /\ client[c] = "gone"
    /\ Close(c)
----------------------------------------------------------------------------
(* One command.                                                            *)

\* A client may leave or stop reading with commands still on their way.
Receive(c) ==
    /\ pc[c] = "idle"
    /\ \E cmd \in Commands[c] :
          /\ todo' = [todo EXCEPT ![c] = cmd]
          /\ GoTo(c, IF Ghosts # {} /\ Haunted(cmd) THEN "haunt" ELSE "stmt")
    /\ answers' = [answers EXCEPT ![c] = <<>>]
    /\ UNCHANGED <<client, sent, buf, out, slots, holders>>

\* The delay, if any, is over and neither of the other ghosts shows up.
GhostPass(c) ==
    /\ pc[c] = "haunt"
    /\ GoTo(c, "stmt")
    /\ UNCHANGED <<client, todo, answers, sent, buf, out, slots, holders>>

GhostDrop(c) ==
    /\ pc[c] = "haunt" /\ "drop" \in Ghosts
    /\ Close(c)

\* One error answers the whole command; its statements are never looked at.
GhostError(c) ==
    /\ pc[c] = "haunt" /\ "error" \in Ghosts
    /\ GoTo(c, "stmt")
    /\ todo' = [todo EXCEPT ![c] = <<>>]
    /\ answers' = [answers EXCEPT ![c] = <<GhostAnswer>>]
    /\ out' = [out EXCEPT ![c] = TRUE]
    /\ UNCHANGED <<client, sent, buf, slots, holders>>

AtStatement(c) == pc[c] = "stmt" /\ todo[c] # <<>>

\* Mutant: what waits in out is not flushed before the stream.
MutStartCrushOvertakes(c) ==
    /\ AtStatement(c)
    /\ Head(todo[c]) \in MustCrush
    /\ slots > 0
    /\ slots' = slots - 1
    /\ holders' = holders \cup {c}
    /\ GoTo(c, "header")
    /\ UNCHANGED <<client, todo, answers, sent, buf, out>>

\* Mutant: the permits are looked at, but not taken.
MutStartCrushPeeks(c) ==
    /\ AtStatement(c)
    /\ Head(todo[c]) \in MustCrush
    /\ slots > 0
    /\ slots' = slots
    /\ holders' = holders \cup {c}
    /\ GoTo(c, IF out[c] THEN "flush" ELSE "header")
    /\ UNCHANGED <<client, todo, answers, sent, buf, out>>

\* try_acquire succeeds.  Only pg can have earlier answers waiting in out.
StartCrush(c) ==
    /\ AtStatement(c)
    /\ Head(todo[c]) \in MustCrush
    /\ slots > 0
    /\ slots' = slots - 1
    /\ holders' = holders \cup {c}
    /\ GoTo(c, IF out[c] THEN "flush" ELSE "header")
    /\ UNCHANGED <<client, todo, answers, sent, buf, out>>

\* Mutant: the last permit is kept in reserve.
MutAnswerReserves(c) ==
    /\ AtStatement(c)
    /\ \E rows \in RowCounts[Head(todo[c])] :
          \/ /\ Head(todo[c]) \notin MustCrush
             /\ Answered(c, "ordinary", rows)
          \/ /\ Head(todo[c]) \in MustCrush /\ slots <= 1
             /\ Answered(c, "capacity", rows)
    /\ out' = [out EXCEPT ![c] = TRUE]
    /\ UNCHANGED <<client, pc, sent, buf, slots, holders>>

\* Mutant: acquire().await in the place of try_acquire.
MutAnswerWaits(c) ==
    /\ AtStatement(c)
    /\ Head(todo[c]) \notin MustCrush
    /\ \E rows \in RowCounts[Head(todo[c])] : Answered(c, "ordinary", rows)
    /\ out' = [out EXCEPT ![c] = TRUE]
    /\ UNCHANGED <<client, pc, sent, buf, slots, holders>>

\* An ordinary answer; to an unsafe statement too, when try_acquire fails.
AnswerNormally(c) ==
    /\ AtStatement(c)
    /\ \E rows \in RowCounts[Head(todo[c])] :
          \/ /\ Head(todo[c]) \notin MustCrush
             /\ Answered(c, "ordinary", rows)
          \/ /\ Head(todo[c]) \in MustCrush /\ slots = 0
             /\ Answered(c, "capacity", rows)
    /\ out' = [out EXCEPT ![c] = TRUE]
    /\ UNCHANGED <<client, pc, sent, buf, slots, holders>>

\* A pg simple query ends with ReadyForQuery, whatever out holds.
OwesReady(c) ==
    /\ Proto[c] = "pg"
    /\ \A i \in DOMAIN answers[c] : answers[c][i].stmt \notin Extended

AtReply(c) == pc[c] = "stmt" /\ todo[c] = <<>>

Reply(c) ==
    /\ AtReply(c)
    /\ out[c] \/ OwesReady(c)
    /\ Write(c)
    /\ out' = [out EXCEPT ![c] = FALSE]
    /\ GoTo(c, "idle")
    /\ UNCHANGED <<client, todo, answers, sent, slots, holders>>

\* After a crush stream nothing may be left to write.
ReplyNothing(c) ==
    /\ AtReply(c)
    /\ ~out[c] /\ ~OwesReady(c)
    /\ GoTo(c, "idle")
    /\ UNCHANGED <<client, todo, answers, sent, buf, out, slots, holders>>
----------------------------------------------------------------------------
(* The crush stream.                                                       *)

\* What was answered before goes out before the stream.
FlushOut(c) ==
    /\ pc[c] = "flush"
    /\ Write(c)
    /\ out' = [out EXCEPT ![c] = FALSE]
    /\ GoTo(c, "header")
    /\ UNCHANGED <<client, todo, answers, sent, slots, holders>>

StreamHeader(c) ==
    /\ pc[c] = "header"
    /\ Write(c)
    /\ sent' = [sent EXCEPT ![c] = 0]
    /\ GoTo(c, "stream")
    /\ UNCHANGED <<client, todo, answers, out, slots, holders>>

\* Mutant: the last chunk is a whole one.
MutChunkOvershoots(c) ==
    /\ pc[c] = "stream" /\ sent[c] < MaxRows
    /\ Write(c)
    /\ sent' = [sent EXCEPT ![c] = @ + Chunk]
    /\ UNCHANGED <<client, pc, todo, answers, out, slots, holders>>

StreamChunk(c) ==
    /\ pc[c] = "stream" /\ sent[c] < MaxRows
    /\ Write(c)
    /\ sent' = [sent EXCEPT ![c] = @ + Least(Chunk, MaxRows - @)]
    /\ UNCHANGED <<client, pc, todo, answers, out, slots, holders>>

\* Mutant: a stream stops when no whole chunk is left.
MutDoneEarly(c) ==
    /\ pc[c] = "stream" /\ sent[c] + Chunk > MaxRows
    /\ \/ Proto[c] # "redis" /\ Write(c)
       \/ Proto[c] = "redis" /\ UNCHANGED buf
    /\ Answered(c, "crush", sent[c])
    /\ Release(c)
    /\ GoTo(c, "stmt")
    /\ UNCHANGED <<client, sent, out>>

\* Mutant: the permit lives as long as the connection.
MutDoneKeepsPermit(c) ==
    /\ pc[c] = "stream" /\ sent[c] >= MaxRows
    /\ \/ Proto[c] # "redis" /\ Write(c)
       \/ Proto[c] = "redis" /\ UNCHANGED buf
    /\ Answered(c, "crush", sent[c])
    /\ GoTo(c, "stmt")
    /\ UNCHANGED <<client, sent, out, slots, holders>>

\* pg and mysql close the result set; a redis array has announced its length.
StreamDone(c) ==
    /\ pc[c] = "stream" /\ sent[c] >= MaxRows
    /\ \/ Proto[c] # "redis" /\ Write(c)
       \/ Proto[c] = "redis" /\ UNCHANGED buf
    /\ Answered(c, "crush", sent[c])
    /\ Release(c)
    /\ GoTo(c, "stmt")
    /\ UNCHANGED <<client, sent, out>>
----------------------------------------------------------------------------
(* Failed writes, and the clients.                                         *)

\* A write is under way or about to be.
Writing(c) ==
    \/ pc[c] \in Streaming \cup {"handshake"}
    \/ AtReply(c) /\ (out[c] \/ OwesReady(c))

\* Mutant: a failed write inside a stream is ignored.
MutWriteErrorIgnored(c) ==
    /\ Writing(c) /\ client[c] = "gone" /\ pc[c] \notin Streaming
    /\ Close(c)

\* The peer has reset the connection: the error ends the task.
WriteFails(c) ==
    /\ Writing(c) /\ client[c] = "gone"
    /\ Close(c)

SetClient(c, mood) ==
    /\ client' = [client EXCEPT ![c] = mood]
    /\ UNCHANGED <<pc, todo, answers, sent, out, slots, holders>>

Read(c) ==
    /\ client[c] = "reading" /\ buf[c] > 0
    /\ buf' = [buf EXCEPT ![c] = @ - 1]
    /\ UNCHANGED <<client, pc, todo, answers, sent, out, slots, holders>>

Stall(c) == /\ client[c] = "reading" /\ c \notin Attentive
            /\ SetClient(c, "stalled") /\ UNCHANGED buf

Resume(c) == client[c] = "stalled" /\ SetClient(c, "reading") /\ UNCHANGED buf

Leave(c) == client[c] \in {"reading", "stalled"} /\ SetClient(c, "gone") /\ UNCHANGED buf
----------------------------------------------------------------------------
\* The steps that the runtime takes once it polls the task of c.
Run(c) ==
    \/ HangUp(c)
    \/ GhostPass(c) \/ GhostDrop(c) \/ GhostError(c)
    \/ StartCrush(c) \/ AnswerNormally(c) \/ Reply(c) \/ ReplyNothing(c)
    \/ FlushOut(c) \/ StreamHeader(c) \/ StreamChunk(c) \/ StreamDone(c)
    \/ WriteFails(c)

\* The steps that depend on what a client sends or does.
Peer(c) ==
    \/ Accept(c) \/ Handshake(c) \/ Refuse(c) \/ Receive(c)
    \/ Read(c) \/ Stall(c) \/ Resume(c) \/ Leave(c)

Next == \E c \in Conns : Run(c) \/ Peer(c)

Spec == Init /\ [][Next]_vars

\* tokio polls every task that can make progress; nothing else is assumed of
\* the server, and of the clients only that the attentive ones keep reading.
FairSpec ==
    /\ Spec
    /\ \A c \in Conns : WF_vars(Run(c))
    /\ \A c \in Attentive : WF_vars(Read(c))
----------------------------------------------------------------------------
(* What the server promises: CrushService, with sockets, buffers, chunks   *)
(* and the semaphore hidden.                                               *)

SessionAt(place) ==
    IF place \in {"closed", "handshake"} THEN "closed"
    ELSE IF place = "idle" THEN "ready" ELSE "busy"

Service == INSTANCE CrushService WITH
    session <- [c \in Conns |-> SessionAt(pc[c])],
    crushing <- holders,
    Injected <- IF "error" \in Ghosts THEN {GhostAnswer} ELSE {}

\* The server implements the service: a statement that must be crushed is
\* crushed in full when a slot is free and answered normally exactly when
\* Permits others are streaming; answers come in order, none skipped
\* (respond_statement, execute_portal, select_response, resp::handle).
ImplementsService == Service!Spec
----------------------------------------------------------------------------
AnswersOver(rows) ==
    [stmt : Stmts \cup {"any"}, kind : {"crush", "ordinary", "capacity", "error"},
     rows : rows]

\* Every variable keeps its type; a stream never sends more than max_rows and
\* the semaphore never gains permits (CrushConfig, Shared::new).
TypeOK ==
    /\ client \in [Conns -> {"absent", "reading", "stalled", "gone"}]
    /\ pc \in [Conns -> Places]
    /\ todo \in [Conns -> Seq(Stmts)]
    /\ answers \in [Conns -> Seq(AnswersOver(Nat))]
    /\ sent \in [Conns -> 0..MaxRows]
    /\ buf \in [Conns -> 0..SockCap]
    /\ out \in [Conns -> BOOLEAN]
    /\ slots \in 0..Permits
    /\ holders \subseteq Conns

\* No permit is lost or invented however a stream ends: completed, its client
\* gone in the middle, the connection closed (the scope of _permit in
\* respond_statement, execute_portal, select_response and resp::handle).
SlotsConserved == slots + Cardinality(holders) = Permits

\* A permit is owned exactly while a crush stream is under way: never while a
\* connection waits for a command, is haunted, or answers normally.
HoldersAreStreaming == holders = {c \in Conns : pc[c] \in Streaming}

\* A crush stream bypasses out, so nothing answered earlier may still be in it
\* once the stream's own bytes are being written (pg.rs respond_statement).
StreamsInOrder == \A c \in Conns : pc[c] \in {"header", "stream"} => ~out[c]

\* In this step c is told that crush mode is at capacity.
LetOff(c) ==
    /\ Len(answers'[c]) = Len(answers[c]) + 1
    /\ answers'[c][Len(answers'[c])].kind = "capacity"

OthersFillTheSlots(c) ==
    /\ pc[c] \notin Streaming
    /\ Cardinality({d \in Conns : pc[d] \in Streaming}) = Permits

\* An unsafe statement is let off only if Permits other connections are being
\* crushed at that moment (server.rs: those "that can't acquire a permit").
LetOffOnlyWhenFull == [][\A c \in Conns : LetOff(c) => OthersFillTheSlots(c)]_vars

\* An attentive client that has sent a command is answered or disconnected,
\* whatever the other clients do: nobody waits for a slot that a stalled
\* client holds (crush_slots.try_acquire, never acquire().await).
AttentiveServed ==
    \A c \in Attentive :
        pc[c] \notin {"closed", "handshake", "idle"} ~> pc[c] \in {"closed", "idle"}

\* A client that hangs up in the middle of its stream gives its slot back: the
\* failed write ends the task (stream_rows, mysql and redis crush streams).
GoneFreesSlot ==
    \A c \in Conns : client[c] = "gone" ~> c \notin holders
----------------------------------------------------------------------------
(* What the documents say and the code does not do.                        *)

\* config.rs: with a seed "the same query always returns the same garbage".
SameQuerySameAnswer ==
    Seeded =>
        \A c, d \in Conns :
            \A i \in DOMAIN answers[c], j \in DOMAIN answers[d] :
                /\ Proto[c] = Proto[d]
                /\ answers[c][i].stmt = answers[d][j].stmt
                /\ answers[c][i].stmt # "any"
                   => answers[c][i].rows = answers[d][j].rows

\* README: "LIMIT is honored".
LimitHonored ==
    \A c \in Conns : \A i \in DOMAIN answers[c] :
        answers[c][i].stmt \in Stmts =>
            LET limit == ShapeOf[answers[c][i].stmt].limit
            IN  limit = NoLimit \/ answers[c][i].rows <= limit

\* mysql.rs crush_stream: it "aborts (returns Err) if the client stops reading".
StalledStreamAborts ==
    \A c \in Conns :
        <>[](client[c] = "stalled") => <>[](c \notin holders)
=============================================================================
