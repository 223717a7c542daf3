------------------------ MODULE MysqlSessionProofs ------------------------
(***************************************************************************)
(* Theorems about MysqlSession, for every width of the sequence id, every  *)
(* set of statements and every length of an answer.                        *)
(***************************************************************************)
EXTENDS MysqlSession, TLAPS

\* What extract does not guarantee: a SELECT has a column.
HasColumns ==
    \A q \in Sqls : ShapeOf[q].kind = "select" => Columns[q] > 0

(***************************************************************************)
(* NoMutualWait is not inductive: it says nothing of where in a reply the  *)
(* two are.  Agree says, for each place the server can be at, what the     *)
(* client waits for, that both count the same sequence id, and that both   *)
(* know how much of a result set is still to come.                         *)
(***************************************************************************)
InStep(awaited) == reader.awaits = awaited /\ reader.next = seq

Agree ==
    /\ pc = "greet" => InStep("greeting")
    /\ pc = "login" => reader.awaits = "auth"
    /\ pc = "ready" => reader.awaits = "idle"
    /\ pc = "ack" => command.name \in Acked /\ InStep(Awaited(command.name))
    /\ pc \in {"haunt", "query"} => InStep("first")
    /\ pc = "defs" => /\ InStep("defs")
                      /\ reader.left = answer.defs /\ reader.width = answer.width
                      /\ reader.rows + answer.rows \in WholeAnswers
    /\ pc = "rows" => /\ InStep("rows")
                      /\ reader.width = answer.width
                      /\ reader.rows + answer.rows \in WholeAnswers
    /\ reader.awaits # "lost"

IInv == TypeOK /\ Agree
----------------------------------------------------------------------------
(* Facts about the operators.                                              *)

\* The sequence id stays in its byte.
LEMMA FollowingType ==
    ASSUME NEW n \in Nat
    PROVE  Following(n) \in Sequence
BY SeqModAssumption DEF Following, Sequence

\* A client stays well-typed, whatever packet it is shown.
LEMMA ReadsType ==
    ASSUME NEW r \in Readers, NEW kind, NEW n \in Nat, NEW id
    PROVE  Reads(r, [kind |-> kind, n |-> n, seq |-> id]) \in Readers
<1> DEFINE p == [kind |-> kind, n |-> n, seq |-> id]
<1>1. r.next \in Nat /\ r.left \in Nat /\ r.rows \in Nat /\ r.width \in Nat
    BY DEF Readers, Sequence
<1>2. Following(r.next) \in Sequence
    BY <1>1, FollowingType
<1>3. Outcome(r, p) \in {"auth", "idle", "defs", "rows", "lost"}
    BY DEF Outcome
<1> QED
    BY <1>1, <1>2, <1>3 DEF Reads, Readers

\* The statement that a command stands for is one of the known texts.
LEMMA SqlType ==
    ASSUME TypeOK
    PROVE  Sql \in Sqls /\ Shape \in Shapes /\ Columns[Sql] \in Nat
<1>1. command.stmts = <<>> \/ command.stmts \in Seq(Sqls)
    BY SqlAssumption DEF TypeOK, Commands
<1>2. Sql \in Sqls
    BY <1>1, SqlAssumption DEF Sql
<1> QED
    BY <1>2, SqlAssumption DEF Shape

\* An ordinary answer has a natural number of rows.
LEMMA OrdinaryType ==
    ASSUME NEW s \in Shapes, NEW draw \in Band
    PROVE  OrdinaryRows(s, draw, 0) \in Nat
<1>1. draw \in Nat
    BY BandAssumption DEF Band
<1>2. ~Unlimited(s) => s.limit \in Nat
    BY DEF Shapes, ShapesOver, Unlimited
<1> QED
    BY <1>1, <1>2 DEF OrdinaryRows, Least

\* Only a SELECT can be crushed.
LEMMA CrushedIsSelect ==
    ASSUME MustCrush
    PROVE  Shape.kind = "select"
BY DEF MustCrush, CrushClass, Exempt
----------------------------------------------------------------------------
(* Type correctness.                                                       *)

\* Writing a packet preserves the types of both ends.
LEMMA SendTypes ==
    ASSUME TypeOK, NEW kind, NEW n \in Nat, Send(kind, n)
    PROVE  seq' \in Sequence /\ reader' \in Readers
<1>1. seq \in Nat /\ reader \in Readers
    BY DEF TypeOK, Sequence
<1> QED
    BY <1>1, FollowingType, ReadsType DEF Send

LEMMA OpenTypes ==
    ASSUME TypeOK, NEW width \in Nat, NEW rows \in Nat, Open(width, rows)
    PROVE  TypeOK'
<1>1. seq' \in Sequence /\ reader' \in Readers
    BY SendTypes DEF Open
<1> QED
    BY <1>1 DEF Open, TypeOK

LEMMA TypeStep ==
    ASSUME TypeOK, [Next]_vars
    PROVE  TypeOK'
<1>1. CASE UNCHANGED vars
    BY <1>1 DEF TypeOK, vars
<1>2. CASE Greet
    BY <1>2, SendTypes DEF Greet, TypeOK
<1>3. CASE Login
    <2>1. reader \in Readers /\ reader.next \in Nat
        BY DEF TypeOK, Readers, Sequence
    <2>2. Following(reader.next) \in Sequence
        BY <2>1, FollowingType
    <2>3. Responds(reader) \in Readers
        BY <2>1, <2>2 DEF Responds, Readers
    <2>4. seq' \in Sequence
        BY <1>3, <2>2, FollowingType DEF Login, Sequence
    <2>5. reader' \in Readers
        BY <1>3, <2>3, ReadsType DEF Login
    <2> QED
        BY <1>3, <2>4, <2>5 DEF Login, TypeOK
<1>4. CASE HangUp
    BY <1>4 DEF HangUp, TypeOK
<1>5. CASE Receive
    <2>1. PICK c \in Commands :
              /\ command' = c
              /\ reader' = Asks(reader, Awaited(c.name))
              /\ pc' = Served(c.name)
        BY <1>5 DEF Receive
    <2>2. Following(0) \in Sequence
        BY FollowingType
    <2>3. Awaited(c.name) \in {"idle", "fields", "first"}
        BY DEF Awaited
    <2>4. reader' \in Readers
        BY <2>1, <2>2, <2>3 DEF Asks, TypeOK, Readers
    <2>5. Served(c.name) \in {"closed", "ready", "haunt", "query", "ack"}
        BY DEF Served
    <2> QED
        BY <1>5, <2>1, <2>2, <2>4, <2>5 DEF Receive, TypeOK
<1>6. CASE Ack
    BY <1>6, SendTypes DEF Ack, TypeOK
<1>7. CASE GhostPass
    BY <1>7 DEF GhostPass, TypeOK
<1>8. CASE GhostDrop
    BY <1>8 DEF GhostDrop, TypeOK
<1>9. CASE GhostError
    BY <1>9, SendTypes DEF GhostError, TypeOK
<1>10. CASE AnswerOk
    BY <1>10, SendTypes DEF AnswerOk, TypeOK
<1>11. CASE StartCrush
    <2>1. CrushColumns \in Nat /\ MaxRows \in Nat
        BY SqlType, CrushAssumption DEF CrushColumns
    <2> QED
        BY <1>11, <2>1, OpenTypes DEF StartCrush
<1>12. CASE StartOrdinary
    <2>1. PICK draw \in Band : Open(Columns[Sql], OrdinaryRows(Shape, draw, 0))
        BY <1>12 DEF StartOrdinary
    <2>2. Columns[Sql] \in Nat /\ OrdinaryRows(Shape, draw, 0) \in Nat
        BY SqlType, OrdinaryType
    <2> QED
        BY <2>1, <2>2, OpenTypes
<1>13. CASE SendDef
    <2>1. seq' \in Sequence /\ reader' \in Readers
        BY <1>13, SendTypes DEF SendDef
    <2> QED
        BY <1>13, <2>1 DEF SendDef, TypeOK
<1>14. CASE EndDefs
    BY <1>14, SendTypes DEF EndDefs, TypeOK
<1>15. CASE SendRow
    <2>1. answer.width \in Nat
        BY DEF TypeOK
    <2>2. seq' \in Sequence /\ reader' \in Readers
        BY <1>15, <2>1, SendTypes DEF SendRow
    <2> QED
        BY <1>15, <2>2 DEF SendRow, TypeOK
<1>16. CASE EndRows
    <2>1. seq' \in Sequence /\ reader' \in Readers
        BY <1>16, SendTypes DEF EndRows
    <2> QED
        BY <1>16, <2>1 DEF EndRows, TypeOK, NoAnswer
<1> QED
    BY <1>1, <1>2, <1>3, <1>4, <1>5, <1>6, <1>7, <1>8, <1>9, <1>10, <1>11,
       <1>12, <1>13, <1>14, <1>15, <1>16 DEF Next, Reply

\* The types of the session, the sequence id within its byte, in every
\* behaviour (Conn, handle).
THEOREM TypeCorrect == Spec => []TypeOK
<1>1. Init => TypeOK
    BY SeqModAssumption
       DEF Init, TypeOK, Fresh, Readers, NoAnswer, Commands, Sequence
<1>2. TypeOK /\ [Next]_vars => TypeOK'
    BY TypeStep
<1> QED
    BY <1>1, <1>2, PTL DEF Spec
----------------------------------------------------------------------------
(* Server and client stay in step.                                         *)

\* A packet of the kind the client waits for is read as such, and both ends
\* count on to the same sequence id.
LEMMA SendInStep ==
    ASSUME reader.next = seq, NEW kind, NEW n, Send(kind, n)
    PROVE  /\ reader'.next = seq'
           /\ reader'.awaits = Outcome(reader, [kind |-> kind, n |-> n, seq |-> seq])
BY DEF Send, Reads

\* The count of a result set opens one, unless it is the count of no columns.
LEMMA OpenAgrees ==
    ASSUME TypeOK, InStep("first"), NEW width \in Nat, width > 0,
           NEW rows \in WholeAnswers, rows \in Nat, Open(width, rows)
    PROVE  Agree'
<1> DEFINE p == [kind |-> "count", n |-> width, seq |-> seq]
<1>1. reader'.next = seq' /\ reader'.awaits = Outcome(reader, p)
    BY SendInStep DEF Open, InStep
<1>2. Outcome(reader, p) = "defs"
    BY DEF InStep, Outcome, IsOk
<1>3. reader'.left = width /\ reader'.width = width /\ reader'.rows = 0
    BY DEF Open, Send, Reads, Opens, InStep
<1>4. answer' = [width |-> width, defs |-> width, rows |-> rows] /\ pc' = "defs"
    BY DEF Open
<1>5. WholeAnswers' = WholeAnswers
    BY DEF Open, WholeAnswers, MustCrush, Shape, Sql
<1>6. reader'.rows + answer'.rows = rows
    BY <1>3, <1>4
<1> QED
    BY <1>1, <1>2, <1>3, <1>4, <1>5, <1>6 DEF Agree, InStep

LEMMA AgreeStep ==
    ASSUME HasColumns, IInv, [Next]_vars
    PROVE  Agree'
<1> USE DEF IInv
<1> DEFINE Packet(kind, n) == [kind |-> kind, n |-> n, seq |-> seq]
<1>1. CASE UNCHANGED vars
    BY <1>1 DEF Agree, InStep, vars, WholeAnswers, MustCrush, Shape, Sql
<1>2. CASE Greet
    <2>1. InStep("greeting")
        BY <1>2 DEF Greet, Agree
    <2>2. reader'.awaits = Outcome(reader, Packet("greeting", 0))
        BY <1>2, <2>1, SendInStep DEF Greet, InStep
    <2>3. reader'.awaits = "auth"
        BY <2>1, <2>2 DEF InStep, Outcome
    <2> QED
        BY <1>2, <2>3 DEF Greet, Agree
<1>3. CASE Login
    <2>1. reader.awaits = "auth"
        BY <1>3 DEF Login, Agree
    <2>2. Responds(reader).awaits = "auth"
          /\ Responds(reader).next = Following(reader.next)
        BY <2>1 DEF Responds, TypeOK, Readers
    <2>3. reader'.awaits = "idle"
        BY <1>3, <2>2 DEF Login, Reads, Outcome, IsOk
    <2> QED
        BY <1>3, <2>3 DEF Login, Agree
<1>4. CASE HangUp
    BY <1>4 DEF HangUp, Agree
<1>5. CASE Receive
    <2>1. PICK c \in Commands :
              /\ command' = c
              /\ reader' = Asks(reader, Awaited(c.name))
              /\ pc' = Served(c.name)
        BY <1>5 DEF Receive
    <2>2. reader'.awaits = Awaited(c.name) /\ reader'.next = Following(0)
        BY <2>1 DEF Asks, TypeOK, Readers
    <2>3. seq' = Following(0)
        BY <1>5 DEF Receive
    <2>4. c.name \in Acked \cup {"quit", "empty", "query"}
        BY DEF Commands
    <2>5. Awaited(c.name) # "lost"
        BY DEF Awaited
    <2>6. CASE c.name \in Acked
        <3>1. Served(c.name) = "ack"
            BY <2>6 DEF Served, Acked
        <3> QED
            BY <2>1, <2>2, <2>3, <2>5, <2>6, <3>1 DEF Agree, InStep
    <2>7. CASE c.name = "quit"
        <3>1. Served(c.name) = "closed"
            BY <2>7 DEF Served
        <3> QED
            BY <2>1, <2>2, <2>5, <3>1 DEF Agree
    <2>8. CASE c.name = "empty"
        <3>1. Served(c.name) = "ready" /\ Awaited(c.name) = "idle"
            BY <2>8 DEF Served, Awaited
        <3> QED
            BY <2>1, <2>2, <3>1 DEF Agree
    <2>9. CASE c.name = "query"
        <3>1. Served(c.name) \in {"haunt", "query"}
            BY <2>9 DEF Served
        <3>2. Awaited(c.name) = "first"
            BY <2>9 DEF Awaited
        <3> QED
            BY <2>1, <2>2, <2>3, <3>1, <3>2 DEF Agree, InStep
    <2> QED
        BY <2>4, <2>6, <2>7, <2>8, <2>9
<1>6. CASE Ack
    <2>1. command.name \in Acked /\ InStep(Awaited(command.name))
        BY <1>6 DEF Ack, Agree
    <2>2. reader'.awaits = Outcome(reader, Packet(Acknowledgement(command.name), 0))
        BY <1>6, <2>1, SendInStep DEF Ack, InStep
    <2>3. Outcome(reader, Packet(Acknowledgement(command.name), 0)) = "idle"
        BY <2>1 DEF InStep, Acked, Awaited, Acknowledgement, Outcome, IsOk
    <2> QED
        BY <1>6, <2>2, <2>3 DEF Ack, Agree
<1>7. CASE GhostPass
    BY <1>7 DEF GhostPass, Agree, InStep
<1>8. CASE GhostDrop
    BY <1>8 DEF GhostDrop, Agree
<1>9. CASE GhostError
    <2>1. InStep("first")
        BY <1>9 DEF GhostError, Agree
    <2>2. reader'.awaits = Outcome(reader, Packet("err", 0))
        BY <1>9, <2>1, SendInStep DEF GhostError, InStep
    <2>3. Outcome(reader, Packet("err", 0)) = "idle"
        BY <2>1 DEF InStep, Outcome, IsOk
    <2> QED
        BY <1>9, <2>2, <2>3 DEF GhostError, Agree
<1>10. CASE AnswerOk
    <2>1. InStep("first")
        BY <1>10 DEF AnswerOk, Agree
    <2>2. reader'.awaits = Outcome(reader, Packet("ok", 0))
        BY <1>10, <2>1, SendInStep DEF AnswerOk, InStep
    <2>3. Outcome(reader, Packet("ok", 0)) = "idle"
        BY <2>1 DEF InStep, Outcome, IsOk
    <2> QED
        BY <1>10, <2>2, <2>3 DEF AnswerOk, Agree
<1>11. CASE StartCrush
    <2>1. InStep("first") /\ MustCrush
        BY <1>11 DEF StartCrush, Agree
    <2>2. CrushColumns \in Nat /\ CrushColumns > 0
        BY <2>1, SqlType, CrushedIsSelect, CrushAssumption DEF CrushColumns, HasColumns, Shape
    <2>3. MaxRows \in WholeAnswers /\ MaxRows \in Nat
        BY <2>1, CrushAssumption DEF WholeAnswers
    <2> QED
        BY <1>11, <2>1, <2>2, <2>3, OpenAgrees DEF StartCrush
<1>12. CASE StartOrdinary
    <2>1. PICK draw \in Band : Open(Columns[Sql], OrdinaryRows(Shape, draw, 0))
        BY <1>12 DEF StartOrdinary
    <2>2. InStep("first") /\ Shape.kind = "select"
        BY <1>12 DEF StartOrdinary, Agree
    <2>3. Columns[Sql] \in Nat /\ Columns[Sql] > 0
        BY <2>2, SqlType DEF HasColumns, Shape
    <2>4. OrdinaryRows(Shape, draw, 0) \in WholeAnswers
        BY DEF WholeAnswers
    <2>5. OrdinaryRows(Shape, draw, 0) \in Nat
        BY SqlType, OrdinaryType
    <2> QED
        BY <2>1, <2>2, <2>3, <2>4, <2>5, OpenAgrees
<1>13. CASE SendDef
    <2>1. /\ InStep("defs") /\ reader.left = answer.defs /\ reader.left > 0
          /\ reader.width = answer.width
          /\ reader.rows + answer.rows \in WholeAnswers
        BY <1>13 DEF SendDef, Agree
    <2>2. reader'.next = seq' /\ reader'.awaits = Outcome(reader, Packet("def", 0))
        BY <1>13, <2>1, SendInStep DEF SendDef, InStep
    <2>3. Outcome(reader, Packet("def", 0)) = "defs"
        BY <2>1 DEF InStep, Outcome
    <2>4. /\ reader'.left = reader.left - 1
          /\ reader'.width = reader.width /\ reader'.rows = reader.rows
        BY <1>13, <2>1 DEF SendDef, Send, Reads, Opens, InStep
    <2>5. answer \in [width : Nat, defs : Nat, rows : Nat]
        BY DEF TypeOK
    <2>6. /\ answer'.defs = answer.defs - 1
          /\ answer'.width = answer.width /\ answer'.rows = answer.rows
        BY <1>13, <2>5 DEF SendDef
    <2>7. WholeAnswers' = WholeAnswers
        BY <1>13 DEF SendDef, WholeAnswers, MustCrush, Shape, Sql
    <2> QED
        BY <1>13, <2>1, <2>2, <2>3, <2>4, <2>6, <2>7 DEF SendDef, Agree, InStep
<1>14. CASE EndDefs
    <2>1. /\ InStep("defs") /\ reader.left = 0 /\ reader.width = answer.width
          /\ reader.rows + answer.rows \in WholeAnswers
        BY <1>14 DEF EndDefs, Agree
    <2>2. reader'.next = seq' /\ reader'.awaits = Outcome(reader, Packet("eof", 0))
        BY <1>14, <2>1, SendInStep DEF EndDefs, InStep
    <2>3. Outcome(reader, Packet("eof", 0)) = "rows"
        BY <2>1 DEF InStep, Outcome, IsOk
    <2>4. reader'.width = reader.width /\ reader'.rows = reader.rows
        BY <1>14, <2>1 DEF EndDefs, Send, Reads, Opens, InStep
    <2>5. WholeAnswers' = WholeAnswers
        BY <1>14 DEF EndDefs, WholeAnswers, MustCrush, Shape, Sql
    <2> QED
        BY <1>14, <2>1, <2>2, <2>3, <2>4, <2>5 DEF EndDefs, Agree, InStep
<1>15. CASE SendRow
    <2>1. /\ InStep("rows") /\ reader.width = answer.width
          /\ reader.rows + answer.rows \in WholeAnswers
        BY <1>15 DEF SendRow, Agree
    <2>2. /\ reader'.next = seq'
          /\ reader'.awaits = Outcome(reader, Packet("row", answer.width))
        BY <1>15, <2>1, SendInStep DEF SendRow, InStep
    <2>3. Outcome(reader, Packet("row", answer.width)) = "rows"
        BY <2>1 DEF InStep, Outcome, IsOk
    <2>4. reader'.width = reader.width /\ reader'.rows = reader.rows + 1
        BY <1>15, <2>1 DEF SendRow, Send, Reads, Opens, InStep
    <2>5. answer \in [width : Nat, defs : Nat, rows : Nat] /\ reader.rows \in Nat
        BY DEF TypeOK, Readers
    <2>6. answer'.width = answer.width /\ answer'.rows = answer.rows - 1
        BY <1>15, <2>5 DEF SendRow
    <2>7. reader'.rows + answer'.rows = reader.rows + answer.rows
        BY <2>4, <2>5, <2>6
    <2>8. WholeAnswers' = WholeAnswers
        BY <1>15 DEF SendRow, WholeAnswers, MustCrush, Shape, Sql
    <2> QED
        BY <1>15, <2>1, <2>2, <2>3, <2>4, <2>6, <2>7, <2>8 DEF SendRow, Agree, InStep
<1>16. CASE EndRows
    <2>1. InStep("rows")
        BY <1>16 DEF EndRows, Agree
    <2>2. reader'.awaits = Outcome(reader, Packet("eof", 0))
        BY <1>16, <2>1, SendInStep DEF EndRows, InStep
    <2>3. Outcome(reader, Packet("eof", 0)) = "idle"
        BY <2>1 DEF InStep, Outcome, IsOk
    <2> QED
        BY <1>16, <2>2, <2>3 DEF EndRows, Agree
<1> QED
    BY <1>1, <1>2, <1>3, <1>4, <1>5, <1>6, <1>7, <1>8, <1>9, <1>10, <1>11,
       <1>12, <1>13, <1>14, <1>15, <1>16 DEF Next, Reply

\* IInv holds initially and is kept by every step.
LEMMA Inductive ==
    ASSUME HasColumns
    PROVE  Spec => []IInv
<1>1. Init => IInv
    <2> SUFFICES ASSUME Init PROVE IInv
        OBVIOUS
    <2>1. TypeOK
        BY SeqModAssumption
           DEF Init, TypeOK, Fresh, Readers, NoAnswer, Commands, Sequence
    <2>2. Agree
        BY DEF Init, Agree, InStep, Fresh
    <2> QED
        BY <2>1, <2>2 DEF IInv
<1>2. IInv /\ [Next]_vars => IInv'
    BY TypeStep, AgreeStep DEF IInv
<1> QED
    BY <1>1, <1>2, PTL DEF Spec

\* If every SELECT has a column, no client ever gets a packet that it does not
\* wait for or that is out of sequence, however often the id wraps.
THEOREM ClientFollows ==
    ASSUME HasColumns
    PROVE  Spec => []NeverLost
<1>1. IInv => NeverLost
    BY DEF IInv, Agree, NeverLost
<1> QED
    BY <1>1, Inductive, PTL

\* If every SELECT has a column, server and client never wait for each other.
THEOREM NeverStuck ==
    ASSUME HasColumns
    PROVE  Spec => []NoMutualWait
<1>1. IInv => NoMutualWait
    <2> SUFFICES ASSUME IInv PROVE NoMutualWait
        OBVIOUS
    <2>1. pc = "ack" => reader.awaits # "idle"
        BY DEF IInv, Agree, InStep, Acked, Awaited
    <2> QED
        BY <2>1 DEF IInv, Agree, InStep, NoMutualWait
<1> QED
    BY <1>1, Inductive, PTL

\* If every SELECT has a column, a result set that ends has all its rows.
THEOREM AnswersAreWhole ==
    ASSUME HasColumns
    PROVE  Spec => ResultSetsWhole
<1> DEFINE Whole == reader.awaits = "rows" /\ reader'.awaits = "idle"
                      => reader.rows \in WholeAnswers
<1>1. IInv /\ [Next]_vars => [Whole]_vars
    <2> SUFFICES ASSUME IInv, Next, reader.awaits = "rows", reader'.awaits = "idle"
                 PROVE  reader.rows \in WholeAnswers
        BY DEF vars
    <2>1. pc \in {"rows", "closed"}
        <3>1. pc # "ack"
            BY DEF IInv, Agree, InStep, Acked, Awaited
        <3> QED
            BY <3>1 DEF IInv, TypeOK, Agree, InStep
    <2>2. ~UNCHANGED reader
        OBVIOUS
    <2>3. SendRow \/ EndRows
        BY <2>1, <2>2
           DEF Next, Reply, Greet, Login, HangUp, Receive, Ack, GhostPass, GhostDrop,
               GhostError, AnswerOk, StartCrush, StartOrdinary, SendDef, EndDefs
    <2>4. ~SendRow
        <3> SUFFICES ASSUME SendRow PROVE FALSE
            OBVIOUS
        <3>1. InStep("rows") /\ reader.width = answer.width
            BY DEF SendRow, IInv, Agree
        <3>2. reader'.awaits = Outcome(reader, [kind |-> "row", n |-> answer.width, seq |-> seq])
            BY <3>1, SendInStep DEF SendRow, InStep
        <3> QED
            BY <3>1, <3>2 DEF InStep, Outcome, IsOk
    <2>5. answer.rows = 0 /\ reader.rows + answer.rows \in WholeAnswers
        BY <2>3, <2>4 DEF EndRows, IInv, Agree
    <2>6. reader.rows \in Nat
        BY DEF IInv, TypeOK, Readers
    <2> QED
        BY <2>5, <2>6
<1> QED
    BY <1>1, Inductive, PTL DEF Spec, ResultSetsWhole
=============================================================================
