---------------------------- MODULE RedisReplies ----------------------------
(***************************************************************************)
(* What a pipelining Redis client makes of the frames of a RedisSession.   *)
(* It cuts them into replies by their headers alone, and gives the first   *)
(* reply to the first command that its lines amount to and that deserves   *)
(* one.                                                                    *)
(***************************************************************************)
EXTENDS RedisSession, SequencesExt

\* Reading frames: done are the whole replies; owed is how many values the
\* current one still lacks, 0 between two replies.
Cut0 == [done |-> <<>>, current |-> <<>>, owed |-> 0]

CutFrame(cut, frame) ==
    LET before == IF cut.owed = 0 THEN 1 ELSE cut.owed
        owed == before - 1 + (IF frame.tag = "*" THEN frame.n ELSE 0)
        reply == Append(cut.current, frame)
    IN  IF owed = 0
        THEN [done |-> Append(cut.done, reply), current |-> <<>>, owed |-> 0]
        ELSE [done |-> cut.done, current |-> reply, owed |-> owed]

CutOf(frames) ==
    LET upTo[n \in 0 .. Len(frames)] ==
            IF n = 0 THEN Cut0 ELSE CutFrame(upTo[n - 1], frames[n])
    IN  upTo[Len(frames)]

Cut == CutOf(wire)

Unit(form, words) == [form |-> form, words |-> words]

Strings(c) == IF c.form \in {"array", "short", "cut"} THEN c.words ELSE <<>>

\* A word on a line of its own: an empty line and a header are no commands.
Loose(w) == IF w \in {"", "*"} THEN <<>> ELSE <<w>>

\* What is left of a command whose first line has ended an array before it:
\* each of its strings is then two commands, its length line and its word.
Leftovers(c) ==
    [i \in 1 .. 2 * Len(Strings(c)) |->
        IF i % 2 = 1 THEN Unit("length", <<"$">>) ELSE Unit("word", Loose(Strings(c)[i \div 2]))]
    \o (IF c.form = "cut" THEN <<Unit("inline", <<"?">>)>> ELSE <<>>)

\* The next command: it ends a short array and loses its first line to it.
Understand(units, c) ==
    IF units # <<>> /\ Last(units).form = "short"
    THEN Append(Front(units), Unit("cut", Last(units).words)) \o Leftovers(c)
    ELSE Append(units, Unit(c.form, c.words))

\* What the commands that were sent amount to, by the rules of the protocol.
Understood(commands) ==
    LET upTo[n \in 0 .. Len(commands)] ==
            IF n = 0 THEN <<>> ELSE Understand(upTo[n - 1], commands[n])
    IN  upTo[Len(commands)]

Heard == Understood(asked)

\* An empty array, a blank line and an array cut before its first string are
\* no commands: how many of the first i of commands deserve a reply.
Deserving(commands, i) == Cardinality({j \in 1 .. i : commands[j].words # <<>>})

\* The commands that are not refused.
Known ==
    {"MGET", "EXISTS", "HGETALL", "HKEYS", "KEYS", "SCAN", "SMEMBERS", "CONFIG",
     "COMMAND", "QUIT", "PING"}

\* Whether reply can be the answer to command c; a ghost may have eaten it.
Answers(reply, c) ==
    LET name == c.words[1]
        first == reply[1]
    IN  \/ /\ first.tag = "-" /\ Len(reply) = 1
           /\ name # "QUIT" /\ (name \notin Known \/ "error" \in Ghosts)
        \/ CASE name \in {"MGET", "EXISTS"} ->
                    first.n = Keys(c.words) /\ first.tag \in {"*", ":"}
             [] name \in {"HGETALL", "HKEYS", "KEYS", "SMEMBERS"} -> first.tag = "*"
             [] name \in {"SCAN", "CONFIG"} -> first.tag = "*" /\ first.n = 2
             [] name = "COMMAND" -> first.tag = "*" /\ first.n = 0
             [] name = "QUIT" -> reply = <<Ok>>
             [] name = "PING" -> reply = <<Value>>
             [] OTHER -> FALSE

\* The k-th reply that a client can cut out of the stream answers the k-th
\* command its lines amount to: replies are never reordered, doubled, dropped or
\* run together, over pipelines that contain malformed arrays, arrays that take
\* a line of the next command, blank lines and a crush stream (read_command,
\* dispatch, crush_keys).
RepliesMatchCommands ==
    /\ Len(Cut.done) <= Deserving(Heard, Len(Heard))
    /\ \A i \in DOMAIN Heard :
           Heard[i].words # <<>> /\ Deserving(Heard, i) <= Len(Cut.done) =>
               Answers(Cut.done[Deserving(Heard, i)], Heard[i])

\* A server with nothing left to read owes nothing: every reply is complete and
\* every command has one, so that nobody waits for the rest of an array; a short
\* array is never taken for a whole one (read_command, handle, crush_keys).
NothingOwed ==
    pc = "ready" /\ input = <<>> =>
        Cut.owed = 0 /\ Len(Cut.done) = Deserving(Heard, Len(Heard))

\* resp.rs: "QUIT still gets through cleanly".  A connection that is closed
\* while it serves a QUIT has said OK last, and no ghost has met it (handle).
QuitIsClean ==
    args # <<>> /\ args[1] = "QUIT" =>
        /\ pc # "haunt"
        /\ pc = "closed" => wire # <<>> /\ Last(wire) = Ok

\* Whatever a client sends, complete lines of it are read and answered in the
\* end, or the connection is closed (handle, read_command).
EverythingRead == input # <<>> ~> input = <<>> \/ pc = "closed"
=============================================================================
