------------------------- MODULE CrushServerProofs -------------------------
(***************************************************************************)
(* Theorems about CrushServer, for every number of connections, every set  *)
(* of statements and every configuration, and, in the last section, from   *)
(* the first listener to the end of the process: for any list of listeners *)
(* and wherever a drop of the runtime finds the connections.               *)
(***************************************************************************)
EXTENDS Startup, FiniteSetTheorems, TLAPS

(***************************************************************************)
(* The inductive invariant.  TypeOK bounds slots by Permits, which holds   *)
(* only because permits are conserved, so the types are split: Types says  *)
(* slots is a number, and PermitInv gives the bound.                       *)
(***************************************************************************)
Types ==
    /\ client \in [Conns -> {"absent", "reading", "stalled", "gone"}]
    /\ pc \in [Conns -> Places]
    /\ todo \in [Conns -> Seq(Stmts)]
    /\ answers \in [Conns -> Seq(AnswersOver(Nat))]
    /\ sent \in [Conns -> 0..MaxRows]
    /\ buf \in [Conns -> 0..SockCap]
    /\ out \in [Conns -> BOOLEAN]
    /\ slots \in Nat
    /\ holders \subseteq Conns

PermitInv == IsFiniteSet(holders) /\ SlotsConserved /\ HoldersAreStreaming

\* What the history of a command leaves behind at each place of a task.
Bookkeeping ==
    \A c \in Conns :
        /\ pc[c] \in {"closed", "handshake"} => todo[c] = <<>> /\ answers[c] = <<>>
        /\ pc[c] = "haunt" => answers[c] = <<>>
        /\ pc[c] \in Streaming => todo[c] # <<>>

IInv == Types /\ PermitInv /\ StreamsInOrder /\ Bookkeeping
----------------------------------------------------------------------------
(* Facts about the operators.                                              *)

LEMMA PermitsType == Permits \in Nat /\ Permits > 0
BY SizeAssumption DEF Permits

\* The statements' ordinary answers have a natural number of rows.
LEMMA RowCountsType ==
    ASSUME NEW s \in Stmts, NEW rows \in RowCounts[s]
    PROVE  rows \in Nat
<1>1. Band \subseteq Nat
    BY BandAssumption DEF Band
<1>2. Draws(s) \subseteq Nat
    BY <1>1, PolicyAssumption DEF Draws
<1>3. ShapeOf[s] \in Shapes /\ Budget[s] \in Nat
    BY PolicyAssumption
<1>4. PICK d \in Draws(s) : rows = OrdinaryRows(ShapeOf[s], d, Budget[s])
    BY DEF RowCounts
<1>5. ~Unlimited(ShapeOf[s]) => ShapeOf[s].limit \in Nat
    BY <1>3 DEF Shapes, ShapesOver, Unlimited
<1>6. d \in Nat
    BY <1>2
<1> QED
    BY <1>3, <1>4, <1>5, <1>6 DEF OrdinaryRows, Least

\* The last chunk is cut so that a stream never overshoots.
LEMMA ChunkFits ==
    ASSUME NEW n \in 0..MaxRows, n < MaxRows
    PROVE  n + Least(Chunk, MaxRows - n) \in 0..MaxRows
BY SizeAssumption DEF Least

\* An answer extends a well-typed list of answers and consumes a statement.
LEMMA AnsweredType ==
    ASSUME Types, NEW c \in Conns, todo[c] # <<>>,
           NEW kind \in {"crush", "ordinary", "capacity"}, NEW rows \in Nat,
           Answered(c, kind, rows)
    PROVE  /\ todo' \in [Conns -> Seq(Stmts)]
           /\ answers' \in [Conns -> Seq(AnswersOver(Nat))]
<1>1. todo[c] \in Seq(Stmts) /\ answers[c] \in Seq(AnswersOver(Nat))
    BY DEF Types
<1>2. Head(todo[c]) \in Stmts /\ Tail(todo[c]) \in Seq(Stmts)
    BY <1>1
<1>3. [stmt |-> Head(todo[c]), kind |-> kind, rows |-> rows] \in AnswersOver(Nat)
    BY <1>2 DEF AnswersOver
<1>4. Append(answers[c], [stmt |-> Head(todo[c]), kind |-> kind, rows |-> rows])
          \in Seq(AnswersOver(Nat))
    BY <1>1, <1>3
<1> QED
    BY <1>2, <1>4 DEF Types, Answered

\* Closing a connection resets everything it owns.
LEMMA CloseTypes ==
    ASSUME Types, NEW c \in Conns, Close(c)
    PROVE  Types'
BY SizeAssumption DEF Types, Close, GoTo, Release, Places
----------------------------------------------------------------------------
(* Type correctness, action by action.                                     *)

LEMMA TypesStep ==
    ASSUME IInv, [Next]_vars
    PROVE  Types'
<1> USE SizeAssumption
<1>0. Types
    BY DEF IInv
<1>1. CASE UNCHANGED vars
    BY <1>0, <1>1 DEF Types, vars
<1>2. ASSUME NEW c \in Conns, Run(c)
      PROVE  Types'
    <2>1. CASE HangUp(c)
        BY <1>0, <2>1, CloseTypes DEF HangUp
    <2>2. CASE GhostPass(c)
        BY <1>0, <2>2 DEF GhostPass, GoTo, Types, Places
    <2>3. CASE GhostDrop(c)
        BY <1>0, <2>3, CloseTypes DEF GhostDrop
    <2>4. CASE GhostError(c)
        <3>1. GhostAnswer \in AnswersOver(Nat)
            BY DEF GhostAnswer, AnswersOver
        <3>2. <<GhostAnswer>> \in Seq(AnswersOver(Nat)) /\ <<>> \in Seq(Stmts)
            BY <3>1
        <3> QED
            BY <1>0, <2>4, <3>2 DEF GhostError, GoTo, Types, Places
    <2>5. CASE StartCrush(c)
        BY <1>0, <2>5 DEF StartCrush, GoTo, Types, Places, Streaming
    <2>6. CASE AnswerNormally(c)
        <3>1. todo[c] # <<>> /\ Head(todo[c]) \in Stmts
            BY <1>0, <2>6 DEF AnswerNormally, AtStatement, Types
        <3>2. PICK rows \in RowCounts[Head(todo[c])], kind \in {"ordinary", "capacity"} :
                  Answered(c, kind, rows)
            BY <2>6 DEF AnswerNormally
        <3>3. rows \in Nat
            BY <3>1, <3>2, RowCountsType
        <3>4. /\ todo' \in [Conns -> Seq(Stmts)]
              /\ answers' \in [Conns -> Seq(AnswersOver(Nat))]
            BY <1>0, <3>1, <3>2, <3>3, AnsweredType
        <3> QED
            BY <1>0, <2>6, <3>4 DEF AnswerNormally, Types
    <2>7. CASE Reply(c)
        BY <1>0, <2>7 DEF Reply, Write, GoTo, Types, Places
    <2>8. CASE ReplyNothing(c)
        BY <1>0, <2>8 DEF ReplyNothing, GoTo, Types, Places
    <2>9. CASE FlushOut(c)
        BY <1>0, <2>9 DEF FlushOut, Write, GoTo, Types, Places, Streaming
    <2>10. CASE StreamHeader(c)
        BY <1>0, <2>10 DEF StreamHeader, Write, GoTo, Types, Places, Streaming
    <2>11. CASE StreamChunk(c)
        BY <1>0, <2>11, ChunkFits DEF StreamChunk, Write, Types
    <2>12. CASE StreamDone(c)
        <3>1. todo[c] # <<>> /\ sent[c] \in Nat
            BY <1>0, <2>12 DEF StreamDone, IInv, Bookkeeping, Streaming, Types
        <3>2. Answered(c, "crush", sent[c])
            BY <2>12 DEF StreamDone
        <3>3. /\ todo' \in [Conns -> Seq(Stmts)]
              /\ answers' \in [Conns -> Seq(AnswersOver(Nat))]
            BY <1>0, <3>1, <3>2, AnsweredType
        <3>4. Write(c) \/ UNCHANGED buf
            BY <2>12 DEF StreamDone
        <3>5. buf' \in [Conns -> 0..SockCap]
            <4>1. CASE Write(c)
                BY <1>0, <4>1 DEF Write, Types
            <4>2. CASE UNCHANGED buf
                BY <1>0, <4>2 DEF Types
            <4> QED
                BY <3>4, <4>1, <4>2
        <3>6. GoTo(c, "stmt") /\ Release(c) /\ UNCHANGED <<client, sent, out>>
            BY <2>12 DEF StreamDone
        <3> QED
            BY <1>0, <3>3, <3>5, <3>6 DEF Release, GoTo, Types, Places
    <2>13. CASE WriteFails(c)
        BY <1>0, <2>13, CloseTypes DEF WriteFails
    <2> QED
        BY <1>2, <2>1, <2>2, <2>3, <2>4, <2>5, <2>6, <2>7, <2>8, <2>9, <2>10,
           <2>11, <2>12, <2>13 DEF Run
<1>3. ASSUME NEW c \in Conns, Peer(c)
      PROVE  Types'
    <2>1. CASE Accept(c)
        BY <1>0, <2>1 DEF Accept, GoTo, Types, Places
    <2>2. CASE Handshake(c)
        BY <1>0, <2>2 DEF Handshake, Write, GoTo, Types, Places
    <2>3. CASE Refuse(c)
        BY <1>0, <2>3, CloseTypes DEF Refuse
    <2>4. CASE Receive(c)
        <3>1. PICK cmd \in Commands[c] : todo' = [todo EXCEPT ![c] = cmd]
            BY <2>4 DEF Receive
        <3>2. cmd \in Seq(Stmts)
            BY <3>1, CommandsAssumption
        <3>3. todo' \in [Conns -> Seq(Stmts)]
            BY <1>0, <3>1, <3>2 DEF Types
        <3>4. pc' \in [Conns -> Places]
            BY <1>0, <2>4 DEF Receive, GoTo, Types, Places
        <3>5. answers' \in [Conns -> Seq(AnswersOver(Nat))]
            BY <1>0, <2>4 DEF Receive, Types
        <3> QED
            BY <1>0, <2>4, <3>3, <3>4, <3>5 DEF Receive, Types
    <2>5. CASE Read(c)
        BY <1>0, <2>5 DEF Read, Types
    <2>6. CASE Stall(c)
        BY <1>0, <2>6 DEF Stall, SetClient, Types
    <2>7. CASE Resume(c)
        BY <1>0, <2>7 DEF Resume, SetClient, Types
    <2>8. CASE Leave(c)
        BY <1>0, <2>8 DEF Leave, SetClient, Types
    <2> QED
        BY <1>3, <2>1, <2>2, <2>3, <2>4, <2>5, <2>6, <2>7, <2>8 DEF Peer
<1> QED
    BY <1>1, <1>2, <1>3 DEF Next
----------------------------------------------------------------------------
(* Permits.  A step either leaves them alone and keeps its task on the same *)
(* side of Streaming, or takes one on the way in, or gives it back on the   *)
(* way out.                                                                 *)

LEMMA KeepPermits ==
    ASSUME Types, PermitInv, NEW c \in Conns, NEW place, GoTo(c, place),
           place \in Streaming <=> pc[c] \in Streaming,
           UNCHANGED <<slots, holders>>
    PROVE  PermitInv'
<1>1. \A d \in Conns : pc'[d] \in Streaming <=> pc[d] \in Streaming
    BY DEF GoTo, Types
<1>2. HoldersAreStreaming'
    BY <1>1 DEF HoldersAreStreaming, PermitInv
<1> QED
    BY <1>2 DEF PermitInv, SlotsConserved

LEMMA TakePermit ==
    ASSUME Types, PermitInv, NEW c \in Conns, NEW place \in Streaming, GoTo(c, place),
           pc[c] \notin Streaming, slots > 0,
           slots' = slots - 1, holders' = holders \cup {c}
    PROVE  PermitInv'
<1>1. c \notin holders
    BY DEF PermitInv, HoldersAreStreaming
<1>2. /\ IsFiniteSet(holders')
      /\ Cardinality(holders') = Cardinality(holders) + 1
    BY <1>1, FS_AddElement DEF PermitInv
<1>3. Cardinality(holders) \in Nat
    BY FS_CardinalityType DEF PermitInv
<1>4. SlotsConserved'
    BY <1>2, <1>3, PermitsType DEF PermitInv, SlotsConserved, Types
<1>5. HoldersAreStreaming'
    BY DEF PermitInv, HoldersAreStreaming, GoTo, Types
<1> QED
    BY <1>2, <1>4, <1>5 DEF PermitInv

\* Release does nothing to a task that owns no permit.
LEMMA GiveBackPermit ==
    ASSUME Types, PermitInv, NEW c \in Conns, NEW place, GoTo(c, place),
           place \notin Streaming, Release(c)
    PROVE  PermitInv'
<1>1. /\ IsFiniteSet(holders')
      /\ Cardinality(holders') =
            IF c \in holders THEN Cardinality(holders) - 1 ELSE Cardinality(holders)
    BY FS_RemoveElement DEF PermitInv, Release
<1>2. Cardinality(holders) \in Nat
    BY FS_CardinalityType DEF PermitInv
<1>3. SlotsConserved'
    BY <1>1, <1>2, PermitsType DEF PermitInv, SlotsConserved, Release, Types
<1>4. HoldersAreStreaming'
    BY DEF PermitInv, HoldersAreStreaming, GoTo, Release, Types
<1> QED
    BY <1>1, <1>3, <1>4 DEF PermitInv

LEMMA ClosePermits ==
    ASSUME Types, PermitInv, NEW c \in Conns, Close(c)
    PROVE  PermitInv'
BY GiveBackPermit DEF Close, Streaming

LEMMA PermitsStep ==
    ASSUME IInv, [Next]_vars
    PROVE  PermitInv'
<1>0. Types /\ PermitInv
    BY DEF IInv
<1>1. ASSUME UNCHANGED <<pc, slots, holders>>
      PROVE  PermitInv'
    BY <1>0, <1>1 DEF PermitInv, SlotsConserved, HoldersAreStreaming
<1>2. CASE UNCHANGED vars
    BY <1>1, <1>2 DEF vars
<1>3. ASSUME NEW c \in Conns, Run(c)
      PROVE  PermitInv'
    <2>1. CASE HangUp(c) \/ GhostDrop(c) \/ WriteFails(c)
        BY <1>0, <2>1, ClosePermits DEF HangUp, GhostDrop, WriteFails
    <2>2. CASE GhostPass(c) \/ GhostError(c)
        BY <1>0, <2>2, KeepPermits DEF GhostPass, GhostError, Streaming
    <2>3. CASE StartCrush(c)
        <3>1. pc[c] \notin Streaming
            BY <2>3 DEF StartCrush, AtStatement, Streaming
        <3>2. PICK place \in Streaming : GoTo(c, place)
            BY <2>3 DEF StartCrush, Streaming
        <3> QED
            BY <1>0, <2>3, <3>1, <3>2, TakePermit DEF StartCrush
    <2>4. CASE AnswerNormally(c)
        BY <1>1, <2>4 DEF AnswerNormally
    <2>5. CASE Reply(c) \/ ReplyNothing(c)
        BY <1>0, <2>5, KeepPermits DEF Reply, ReplyNothing, AtReply, Streaming
    <2>6. CASE FlushOut(c) \/ StreamHeader(c)
        BY <1>0, <2>6, KeepPermits DEF FlushOut, StreamHeader, Streaming
    <2>7. CASE StreamChunk(c)
        BY <1>1, <2>7 DEF StreamChunk
    <2>8. CASE StreamDone(c)
        <3>1. GoTo(c, "stmt") /\ Release(c)
            BY <2>8 DEF StreamDone
        <3> QED
            BY <1>0, <3>1, GiveBackPermit DEF Streaming
    <2> QED
        BY <1>3, <2>1, <2>2, <2>3, <2>4, <2>5, <2>6, <2>7, <2>8 DEF Run
<1>4. ASSUME NEW c \in Conns, Peer(c)
      PROVE  PermitInv'
    <2>1. CASE Accept(c)
        <3>1. PICK place : GoTo(c, place) /\ place \notin Streaming
            BY <2>1 DEF Accept, Streaming
        <3> QED
            BY <1>0, <2>1, <3>1, KeepPermits DEF Accept, Streaming
    <2>2. CASE Handshake(c)
        BY <1>0, <2>2, KeepPermits DEF Handshake, Streaming
    <2>3. CASE Refuse(c)
        BY <1>0, <2>3, ClosePermits DEF Refuse
    <2>4. CASE Receive(c)
        <3>1. PICK place : GoTo(c, place) /\ place \notin Streaming
            BY <2>4 DEF Receive, Streaming
        <3> QED
            BY <1>0, <2>4, <3>1, KeepPermits DEF Receive, Streaming
    <2>5. CASE Read(c) \/ Stall(c) \/ Resume(c) \/ Leave(c)
        BY <1>1, <2>5 DEF Read, Stall, Resume, Leave, SetClient
    <2> QED
        BY <1>4, <2>1, <2>2, <2>3, <2>4, <2>5 DEF Peer
<1> QED
    BY <1>2, <1>3, <1>4 DEF Next
----------------------------------------------------------------------------
(* Order: what is left in out, todo and answers at each place.             *)

LEMMA CloseOrder ==
    ASSUME Types, StreamsInOrder, Bookkeeping, NEW c \in Conns, Close(c)
    PROVE  StreamsInOrder' /\ Bookkeeping'
BY DEF Types, StreamsInOrder, Bookkeeping, Close, GoTo, Streaming

LEMMA OrderStep ==
    ASSUME IInv, [Next]_vars
    PROVE  StreamsInOrder' /\ Bookkeeping'
<1>0. Types /\ StreamsInOrder /\ Bookkeeping
    BY DEF IInv
<1>1. CASE UNCHANGED vars
    BY <1>0, <1>1 DEF StreamsInOrder, Bookkeeping, vars
<1>2. ASSUME NEW c \in Conns, Run(c)
      PROVE  StreamsInOrder' /\ Bookkeeping'
    <2> USE <1>0 DEF Types, StreamsInOrder, Bookkeeping, GoTo, Streaming
    <2>1. CASE HangUp(c) \/ GhostDrop(c) \/ WriteFails(c)
        BY <2>1, CloseOrder DEF HangUp, GhostDrop, WriteFails
    <2>2. CASE GhostPass(c)
        BY <2>2 DEF GhostPass
    <2>3. CASE StartCrush(c)
        BY <2>3 DEF StartCrush, AtStatement
    <2>4. CASE AnswerNormally(c)
        <3>1. \A d \in Conns \ {c} : todo'[d] = todo[d] /\ answers'[d] = answers[d]
            BY <2>4 DEF AnswerNormally, Answered
        <3>2. pc[c] = "stmt" /\ UNCHANGED pc /\ out' = [out EXCEPT ![c] = TRUE]
            BY <2>4 DEF AnswerNormally, AtStatement
        <3>3. StreamsInOrder'
            BY <3>2
        <3>4. Bookkeeping'
            BY <3>1, <3>2
        <3> QED
            BY <3>3, <3>4
    <2>5. CASE Reply(c)
        BY <2>5 DEF Reply
    <2>6. CASE ReplyNothing(c)
        BY <2>6 DEF ReplyNothing
    <2>7. CASE FlushOut(c)
        BY <2>7 DEF FlushOut
    <2>8. CASE StreamHeader(c) \/ StreamChunk(c)
        BY <2>8 DEF StreamHeader, StreamChunk
    <2>9. CASE StreamDone(c)
        BY <2>9 DEF StreamDone, Answered
    <2>10. CASE GhostError(c)
        BY <2>10 DEF GhostError
    <2> QED
        BY <1>2, <2>1, <2>2, <2>3, <2>4, <2>5, <2>6, <2>7, <2>8, <2>9, <2>10 DEF Run
<1>3. ASSUME NEW c \in Conns, Peer(c)
      PROVE  StreamsInOrder' /\ Bookkeeping'
    <2> USE <1>0 DEF Types, StreamsInOrder, Bookkeeping, GoTo, Streaming
    <2>1. CASE Accept(c) \/ Handshake(c)
        BY <2>1 DEF Accept, Handshake
    <2>2. CASE Refuse(c)
        BY <2>2, CloseOrder DEF Refuse
    <2>3. CASE Receive(c)
        BY <2>3 DEF Receive
    <2>4. CASE Read(c) \/ Stall(c) \/ Resume(c) \/ Leave(c)
        BY <2>4 DEF Read, Stall, Resume, Leave, SetClient
    <2> QED
        BY <1>3, <2>1, <2>2, <2>3, <2>4 DEF Peer
<1> QED
    BY <1>1, <1>2, <1>3 DEF Next
----------------------------------------------------------------------------
(* The invariants.                                                         *)

LEMMA InitIInv == Init => IInv
<1> SUFFICES ASSUME Init PROVE IInv
    OBVIOUS
<1>1. Types
    <2>1. <<>> \in Seq(Stmts) /\ <<>> \in Seq(AnswersOver(Nat))
        OBVIOUS
    <2> QED
        BY <2>1, PermitsType, SizeAssumption DEF Init, Types, Places
<1>2. PermitInv
    BY FS_EmptySet, PermitsType
    DEF Init, PermitInv, SlotsConserved, HoldersAreStreaming, Streaming
<1>3. StreamsInOrder /\ Bookkeeping
    BY DEF Init, StreamsInOrder, Bookkeeping, Streaming
<1> QED
    BY <1>1, <1>2, <1>3 DEF IInv

\* IInv is inductive: every reachable state satisfies it.
THEOREM Inductive == Spec => []IInv
<1>1. IInv /\ [Next]_vars => IInv'
    BY TypesStep, PermitsStep, OrderStep DEF IInv
<1> QED
    BY <1>1, InitIInv, PTL DEF Spec

\* TypeOK, with the bound on slots that conservation gives: whatever the
\* configuration, crush_slots never holds more permits than it was built with.
THEOREM TypeCorrect == Spec => []TypeOK
<1>1. IInv => TypeOK
    <2> SUFFICES ASSUME IInv PROVE TypeOK
        OBVIOUS
    <2>1. Cardinality(holders) \in Nat
        BY FS_CardinalityType DEF IInv, PermitInv
    <2>2. slots \in 0..Permits
        BY <2>1, PermitsType DEF IInv, Types, PermitInv, SlotsConserved
    <2> QED
        BY <2>2 DEF IInv, Types, TypeOK
<1> QED
    BY <1>1, Inductive, PTL

\* No interleaving of completed, aborted and refused streams loses or invents
\* a permit (SlotsConserved).
THEOREM PermitsConserved == Spec => []SlotsConserved
<1>1. IInv => SlotsConserved
    BY DEF IInv, PermitInv
<1> QED
    BY <1>1, Inductive, PTL

\* A permit is owned by the connections that are streaming and by no other
\* (HoldersAreStreaming).
THEOREM PermitsHeldByStreams == Spec => []HoldersAreStreaming
<1>1. IInv => HoldersAreStreaming
    BY DEF IInv, PermitInv
<1> QED
    BY <1>1, Inductive, PTL

\* No answer is overtaken by the crush stream that follows it (StreamsInOrder).
THEOREM StreamsNeverOvertake == Spec => []StreamsInOrder
<1>1. IInv => StreamsInOrder
    BY DEF IInv
<1> QED
    BY <1>1, Inductive, PTL
----------------------------------------------------------------------------
(* The server implements the service.                                      *)

Session == [c \in Conns |-> SessionAt(pc[c])]

\* A task that moves changes the session of its own connection only.
LEMMA SessionMoves ==
    ASSUME Types, NEW c \in Conns, NEW place, GoTo(c, place)
    PROVE  Session' = [Session EXCEPT ![c] = SessionAt(place)]
BY DEF Types, GoTo, Session

LEMMA SessionStays ==
    ASSUME Types, NEW c \in Conns, NEW place, GoTo(c, place),
           SessionAt(place) = SessionAt(pc[c])
    PROVE  Session' = Session
BY DEF Types, GoTo, Session

\* A connection that was open is dropped; one that was not stays closed.
LEMMA CloseRefines ==
    ASSUME IInv, NEW c \in Conns, pc[c] # "closed", Close(c)
    PROVE  Service!Drop(c) \/ UNCHANGED Service!vars
<1>0. Types /\ PermitInv /\ Bookkeeping
    BY DEF IInv
<1>1. Session' = [Session EXCEPT ![c] = "closed"]
    BY <1>0, SessionMoves DEF Close, SessionAt
<1>2. /\ todo' = [todo EXCEPT ![c] = <<>>]
      /\ answers' = [answers EXCEPT ![c] = <<>>]
      /\ holders' = holders \ {c}
    BY DEF Close, Release
<1>3. CASE pc[c] = "handshake"
    <2>1. todo[c] = <<>> /\ answers[c] = <<>> /\ c \notin holders /\ Session[c] = "closed"
        BY <1>0, <1>3 DEF Bookkeeping, PermitInv, HoldersAreStreaming, Streaming,
                          Session, SessionAt
    <2>2. todo' = todo /\ answers' = answers /\ holders' = holders /\ Session' = Session
        BY <1>0, <1>1, <1>2, <2>1 DEF Types, Session
    <2> QED
        BY <2>2 DEF Service!vars, Session
<1>4. CASE pc[c] # "handshake"
    <2>1. Session[c] # "closed"
        BY <1>4 DEF Session, SessionAt
    <2> QED
        BY <1>1, <1>2, <2>1 DEF Service!Drop, Session
<1> QED
    BY <1>3, <1>4

\* CrushService has its own copy of FiniteSets.
LEMMA SameCardinality ==
    ASSUME NEW S
    PROVE  Service!Cardinality(S) = Cardinality(S)
BY DEF Service!Cardinality, Cardinality

LEMMA RunRefines ==
    ASSUME IInv, NEW c \in Conns, Run(c)
    PROVE  Service!Next \/ UNCHANGED Service!vars
<1>0. Types /\ PermitInv /\ Bookkeeping
    BY DEF IInv
<1>1. Cardinality(holders) \in Nat /\ slots + Cardinality(holders) = Permits /\ slots \in Nat
    BY <1>0, FS_CardinalityType DEF PermitInv, SlotsConserved, Types
<1>2. c \in holders <=> pc[c] \in Streaming
    BY <1>0 DEF PermitInv, HoldersAreStreaming
<1>3. CASE HangUp(c) \/ GhostDrop(c) \/ WriteFails(c)
    <2>1. Close(c) /\ pc[c] # "closed"
        BY <1>3 DEF HangUp, GhostDrop, WriteFails, Writing, AtReply, Streaming
    <2> QED
        BY <2>1, CloseRefines DEF Service!Next
<1>4. CASE GhostPass(c)
    <2>1. Session' = Session
        BY <1>0, <1>4, SessionStays DEF GhostPass, SessionAt
    <2> QED
        BY <1>4, <2>1 DEF GhostPass, Service!vars, Session
<1>5. CASE GhostError(c)
    <2>1. Session' = Session
        BY <1>0, <1>5, SessionStays DEF GhostError, SessionAt
    <2>2. Session[c] = "busy" /\ answers[c] = <<>> /\ c \notin holders
        BY <1>0, <1>2, <1>5 DEF GhostError, Session, SessionAt, Bookkeeping, Streaming
    <2>3. Service!Fault(c)
        BY <1>5, <2>1, <2>2 DEF GhostError, Service!Fault, Session
    <2> QED
        BY <2>3 DEF Service!Next
<1>6. CASE StartCrush(c)
    <2>1. pc[c] = "stmt" /\ todo[c] # <<>> /\ c \notin holders
        BY <1>2, <1>6 DEF StartCrush, AtStatement, Streaming
    <2>2. Session' = Session
        BY <1>0, <1>6, <2>1, SessionStays DEF StartCrush, SessionAt
    <2>3. Session[c] = "busy" /\ Cardinality(holders) < Permits
        BY <1>1, <1>6, <2>1 DEF StartCrush, Session, SessionAt
    <2>4. Service!BeginCrush(c)
        BY <1>6, <2>1, <2>2, <2>3, SameCardinality DEF StartCrush, Service!BeginCrush, Session
    <2> QED
        BY <2>4 DEF Service!Next
<1>7. CASE AnswerNormally(c)
    <2>1. pc[c] = "stmt" /\ todo[c] # <<>> /\ c \notin holders /\ Session[c] = "busy"
        BY <1>2, <1>7 DEF AnswerNormally, AtStatement, Streaming, Session, SessionAt
    <2>2. Session' = Session
        BY <1>7 DEF AnswerNormally, Session
    <2>3. slots = 0 => Cardinality(holders) = Permits
        BY <1>1
    <2>4. PICK rows \in RowCounts[Head(todo[c])] :
              \/ Head(todo[c]) \notin MustCrush /\ Answered(c, "ordinary", rows)
              \/ Head(todo[c]) \in MustCrush /\ slots = 0 /\ Answered(c, "capacity", rows)
        BY <1>7 DEF AnswerNormally
    <2>5. \A kind : Answered(c, kind, rows) => Service!Answered(c, kind, rows)
        BY <2>2 DEF Answered, Service!Answered, Session
    <2>6. Service!AnswerPlainly(c)
        BY <1>7, <2>1, <2>3, <2>4, <2>5, SameCardinality DEF AnswerNormally, Service!AnswerPlainly, Session
    <2> QED
        BY <2>6 DEF Service!Next
<1>8. CASE Reply(c) \/ ReplyNothing(c)
    <2>1. Session' = [Session EXCEPT ![c] = "ready"]
        BY <1>0, <1>8, SessionMoves DEF Reply, ReplyNothing, SessionAt
    <2>2. Session[c] = "busy" /\ todo[c] = <<>>
        BY <1>8 DEF Reply, ReplyNothing, AtReply, Session, SessionAt
    <2>3. Service!Deliver(c)
        BY <1>8, <2>1, <2>2 DEF Reply, ReplyNothing, Service!Deliver, Session
    <2> QED
        BY <2>3 DEF Service!Next
<1>9. CASE FlushOut(c) \/ StreamHeader(c)
    <2>1. Session' = Session
        BY <1>0, <1>9, SessionStays DEF FlushOut, StreamHeader, SessionAt
    <2> QED
        BY <1>9, <2>1 DEF FlushOut, StreamHeader, Service!vars, Session
<1>10. CASE StreamChunk(c)
    BY <1>10 DEF StreamChunk, Service!vars
<1>11. CASE StreamDone(c)
    <2>1. pc[c] = "stream" /\ c \in holders /\ sent[c] = MaxRows
        BY <1>0, <1>2, <1>11, SizeAssumption DEF StreamDone, Streaming, Types
    <2>2. GoTo(c, "stmt")
        BY <1>11 DEF StreamDone
    <2>3. Session' = Session
        BY <1>0, <2>1, <2>2, SessionStays DEF SessionAt
    <2>4. Service!Answered(c, "crush", MaxRows)
        BY <1>11, <2>1, <2>3 DEF StreamDone, Answered, Service!Answered, Session
    <2>5. Service!EndCrush(c)
        BY <1>11, <2>1, <2>4 DEF StreamDone, Release, Service!EndCrush
    <2> QED
        BY <2>5 DEF Service!Next
<1> QED
    BY <1>3, <1>4, <1>5, <1>6, <1>7, <1>8, <1>9, <1>10, <1>11 DEF Run

LEMMA PeerRefines ==
    ASSUME IInv, NEW c \in Conns, Peer(c)
    PROVE  Service!Next \/ UNCHANGED Service!vars
<1>0. Types /\ Bookkeeping
    BY DEF IInv
<1>1. CASE Accept(c)
    <2>1. CASE Proto[c] = "redis"
        <3>1. Session' = [Session EXCEPT ![c] = "ready"] /\ Session[c] = "closed"
            BY <1>0, <1>1, <2>1, SessionMoves DEF Accept, Session, SessionAt
        <3>2. Service!Open(c)
            BY <1>1, <3>1 DEF Accept, Service!Open, Session
        <3> QED
            BY <3>2 DEF Service!Next
    <2>2. CASE Proto[c] # "redis"
        <3>1. Session' = Session
            BY <1>0, <1>1, <2>2, SessionStays DEF Accept, SessionAt
        <3> QED
            BY <1>1, <3>1 DEF Accept, Service!vars, Session
    <2> QED
        BY <2>1, <2>2
<1>2. CASE Handshake(c)
    <2>1. Session' = [Session EXCEPT ![c] = "ready"] /\ Session[c] = "closed"
        BY <1>0, <1>2, SessionMoves DEF Handshake, Session, SessionAt
    <2>2. Service!Open(c)
        BY <1>2, <2>1 DEF Handshake, Service!Open, Session
    <2> QED
        BY <2>2 DEF Service!Next
<1>3. CASE Refuse(c)
    BY <1>3, CloseRefines DEF Refuse, Service!Next
<1>4. CASE Receive(c)
    <2>1. PICK cmd \in Commands[c] : todo' = [todo EXCEPT ![c] = cmd]
        BY <1>4 DEF Receive
    <2>2. PICK place \in {"haunt", "stmt"} : GoTo(c, place)
        BY <1>4 DEF Receive
    <2>3. Session' = [Session EXCEPT ![c] = "busy"] /\ Session[c] = "ready"
        BY <1>0, <1>4, <2>2, SessionMoves DEF Receive, Session, SessionAt
    <2>4. Service!Take(c)
        BY <1>4, <2>1, <2>3 DEF Receive, Service!Take, Session
    <2> QED
        BY <2>4 DEF Service!Next
<1>5. CASE Read(c) \/ Stall(c) \/ Resume(c) \/ Leave(c)
    BY <1>5 DEF Read, Stall, Resume, Leave, SetClient, Service!vars
<1> QED
    BY <1>1, <1>2, <1>3, <1>4, <1>5 DEF Peer

\* Every behaviour of the server, its sockets and semaphore hidden, is one of
\* the service (ImplementsService).
THEOREM Implements == Spec => ImplementsService
<1>1. Init => Service!Init
    BY DEF Init, Service!Init, SessionAt
<1>2. IInv /\ [Next]_vars => [Service!Next]_(Service!vars)
    <2> SUFFICES ASSUME IInv, [Next]_vars
                 PROVE  Service!Next \/ UNCHANGED Service!vars
        OBVIOUS
    <2>1. CASE UNCHANGED vars
        BY <2>1 DEF vars, Service!vars
    <2> QED
        BY <2>1, RunRefines, PeerRefines DEF Next
<1> QED
    BY <1>1, <1>2, Inductive, PTL DEF Spec, ImplementsService, Service!Spec
----------------------------------------------------------------------------
(* A statement is let off only when every permit is in use.                *)

\* Of all steps only an ordinary answer, given when no permit is left, does it.
LEMMA LetOffStep ==
    ASSUME Types, NEW c \in Conns, Run(c) \/ Peer(c), NEW d \in Conns, LetOff(d)
    PROVE  AnswerNormally(d) /\ slots = 0
<1>1. answers[d] \in Seq(AnswersOver(Nat)) /\ Len(answers[d]) \in Nat
    BY DEF Types
<1>2. answers'[d] # answers[d] /\ answers'[d] # <<>>
    BY <1>1 DEF LetOff
<1>3. ~Close(c)
    BY <1>2 DEF Close, Types
<1>4. ~UNCHANGED answers
    BY <1>2
<1>5. CASE GhostError(c)
    <2>1. d = c /\ answers'[d] = <<GhostAnswer>>
        BY <1>2, <1>5 DEF GhostError, Types
    <2> QED
        BY <2>1 DEF LetOff, GhostAnswer
<1>6. CASE StreamDone(c)
    <2>1. d = c
        BY <1>2, <1>6 DEF StreamDone, Answered, Types
    <2>2. answers'[d] = Append(answers[d],
              [stmt |-> Head(todo[d]), kind |-> "crush", rows |-> sent[d]])
        BY <1>6, <2>1 DEF StreamDone, Answered, Types
    <2>3. answers'[d][Len(answers'[d])].kind = "crush"
        BY <1>1, <2>2
    <2> QED
        BY <2>3 DEF LetOff
<1>7. CASE Receive(c)
    BY <1>2, <1>7 DEF Receive, Types
<1>8. CASE AnswerNormally(c)
    <2>1. d = c
        BY <1>2, <1>8 DEF AnswerNormally, Answered, Types
    <2>2. ASSUME NEW rows, Answered(c, "ordinary", rows)
          PROVE  FALSE
        <3>1. answers'[d] = Append(answers[d],
                  [stmt |-> Head(todo[d]), kind |-> "ordinary", rows |-> rows])
            BY <2>1, <2>2 DEF Answered, Types
        <3>2. answers'[d][Len(answers'[d])].kind = "ordinary"
            BY <1>1, <3>1
        <3> QED
            BY <3>2 DEF LetOff
    <2>3. slots = 0
        BY <1>8, <2>2 DEF AnswerNormally
    <2> QED
        BY <1>8, <2>1, <2>3
<1> QED
    BY <1>3, <1>4, <1>5, <1>6, <1>7, <1>8
    DEF Run, Peer, HangUp, GhostPass, GhostDrop, StartCrush, Reply, ReplyNothing,
        FlushOut, StreamHeader, StreamChunk, WriteFails, Accept, Handshake, Refuse,
        Read, Stall, Resume, Leave, SetClient

\* No unsafe statement escapes while a slot is free: one is answered normally
\* only if Permits other connections are streaming (LetOffOnlyWhenFull).
THEOREM NoneEscapes == Spec => LetOffOnlyWhenFull
<1>1. ASSUME IInv, Next, NEW c \in Conns, LetOff(c)
      PROVE  OthersFillTheSlots(c)
    <2>1. AnswerNormally(c) /\ slots = 0
        BY <1>1, LetOffStep DEF Next, IInv
    <2>2. Cardinality(holders) \in Nat
        BY <1>1, FS_CardinalityType DEF IInv, PermitInv
    <2>3. Cardinality(holders) = Permits
        BY <1>1, <2>1, <2>2 DEF IInv, PermitInv, SlotsConserved
    <2>4. pc[c] \notin Streaming
        BY <2>1 DEF AnswerNormally, AtStatement, Streaming
    <2> QED
        BY <1>1, <2>3, <2>4 DEF OthersFillTheSlots, IInv, PermitInv, HoldersAreStreaming
<1>2. IInv /\ [Next]_vars => [\A c \in Conns : LetOff(c) => OthersFillTheSlots(c)]_vars
    BY <1>1
<1> QED
    BY <1>2, Inductive, PTL DEF Spec, LetOffOnlyWhenFull
----------------------------------------------------------------------------
(* The process around the server.                                          *)

\* main is at one place of the list, and every listener before it is open
\* until the runtime is dropped.
Progress ==
    /\ main \in {"binding", "serving", "ended"}
    /\ next \in 1 .. Len(Listeners) + 1
    /\ main = "binding" => next <= Len(Listeners)
    /\ main = "serving" => next = Len(Listeners) + 1
    /\ open \subseteq {Listeners[i] : i \in 1 .. next - 1}
    /\ main # "ended" => open = {Listeners[i] : i \in 1 .. next - 1}

StartupInv == IInv /\ Progress

LEMMA CloseKeeps ==
    ASSUME IInv, NEW c \in Conns, Close(c)
    PROVE  IInv'
BY CloseTypes, ClosePermits, CloseOrder DEF IInv

\* A step of the clients and tasks of CrushServer, or a dropped task.
LEMMA ServerStep ==
    ASSUME IInv, [Next]_vars \/ \E c \in Conns : Close(c)
    PROVE  IInv'
BY CloseKeeps, TypesStep, PermitsStep, OrderStep DEF IInv

LEMMA StepKinds ==
    ASSUME [StartupNext]_allVars
    PROVE  [Next]_vars \/ \E c \in Conns : pc[c] # "closed" /\ Close(c)
BY DEF StartupNext, Bind, Gone, DropLoop, DropTask, Serve, Next, allVars

LEMMA BindProgress ==
    ASSUME Progress, Bind
    PROVE  Progress'
<1>1. Len(Listeners) \in Nat /\ Len(Listeners) > 0
    BY ListenersAssumption
<1>2. next \in 1 .. Len(Listeners) /\ main = "binding"
    BY <1>1 DEF Progress, Bind
<1>3. CASE main' = "ended" /\ UNCHANGED <<next, open>>
    BY <1>1, <1>3 DEF Progress
<1>4. CASE /\ open' = open \cup {Listeners[next]}
           /\ next' = next + 1
           /\ main' = IF next = Len(Listeners) THEN "serving" ELSE "binding"
    <2>1. open = {Listeners[i] : i \in 1 .. next - 1}
        BY <1>2 DEF Progress
    <2>2. 1 .. next' - 1 = (1 .. next - 1) \cup {next}
        BY <1>1, <1>2, <1>4
    <2>3. open' = {Listeners[i] : i \in 1 .. next' - 1}
        BY <1>4, <2>1, <2>2
    <2> QED
        BY <1>1, <1>2, <1>4, <2>3 DEF Progress
<1> QED
    BY <1>3, <1>4 DEF Bind

LEMMA ProgressStep ==
    ASSUME Progress, [StartupNext]_allVars
    PROVE  Progress'
<1>1. CASE Bind
    BY <1>1, BindProgress
<1>2. CASE \E p \in open : DropLoop(p)
    BY <1>2 DEF DropLoop, Progress
<1>3. CASE UNCHANGED startupVars
    BY <1>3 DEF startupVars, Progress
<1> QED
    BY <1>1, <1>2, <1>3 DEF StartupNext, Gone, DropTask, Serve, allVars

THEOREM StartupInductive == StartupSpec => []StartupInv
<1>1. StartupInit => StartupInv
    <2>1. StartupInit => Progress
        BY ListenersAssumption DEF StartupInit, Progress
    <2> QED
        BY <2>1, InitIInv DEF StartupInit, StartupInv
<1>2. StartupInv /\ [StartupNext]_allVars => StartupInv'
    BY StepKinds, ServerStep, ProgressStep DEF StartupInv
<1> QED
    BY <1>1, <1>2, PTL DEF StartupSpec

\* No permit is lost when a listener fails to bind and the runtime drops
\* connections in the middle of their streams (SlotsConserved).
THEOREM StartupConserves == StartupSpec => []SlotsConserved
<1>1. StartupInv => SlotsConserved
    BY DEF StartupInv, IInv, PermitInv
<1> QED
    BY <1>1, StartupInductive, PTL

\* Every variable keeps its type; main never binds past its list.
THEOREM StartupTypeCorrect == StartupSpec => []StartupTypeOK
<1>1. StartupInv => StartupTypeOK
    <2> SUFFICES ASSUME StartupInv PROVE StartupTypeOK
        OBVIOUS
    <2>1. Cardinality(holders) \in Nat
        BY FS_CardinalityType DEF StartupInv, IInv, PermitInv
    <2>2. slots \in 0..Permits
        BY <2>1, PermitsType DEF StartupInv, IInv, PermitInv, SlotsConserved, Types
    <2>3. TypeOK
        BY <2>2 DEF StartupInv, IInv, Types, TypeOK
    <2>4. Len(Listeners) \in Nat /\ DOMAIN Listeners = 1 .. Len(Listeners)
        BY ListenersAssumption
    <2>5. open \subseteq {Listeners[i] : i \in DOMAIN Listeners}
        BY <2>4 DEF StartupInv, Progress
    <2> QED
        BY <2>3, <2>5 DEF StartupInv, Progress, StartupTypeOK
<1> QED
    BY <1>1, StartupInductive, PTL

\* A server that is dropped while it serves still implements the service: its
\* clients see connections close, nothing else (ImplementsService).
THEOREM StartupImplements == StartupSpec => ImplementsService
<1>1. StartupInit => Service!Init
    BY DEF StartupInit, Init, Service!Init, SessionAt
<1>2. StartupInv /\ [StartupNext]_allVars => [Service!Next]_(Service!vars)
    <2> SUFFICES ASSUME StartupInv, [StartupNext]_allVars
                 PROVE  Service!Next \/ UNCHANGED Service!vars
        OBVIOUS
    <2>0. IInv
        BY DEF StartupInv
    <2>1. CASE UNCHANGED vars
        BY <2>1 DEF vars, Service!vars
    <2>2. CASE Next
        BY <2>0, <2>2, RunRefines, PeerRefines DEF Next
    <2>3. CASE \E c \in Conns : pc[c] # "closed" /\ Close(c)
        BY <2>0, <2>3, CloseRefines DEF Service!Next
    <2> QED
        BY <2>1, <2>2, <2>3, StepKinds
<1> QED
    BY <1>1, <1>2, StartupInductive, PTL DEF StartupSpec, ImplementsService, Service!Spec
=============================================================================
