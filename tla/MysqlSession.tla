---------------------------- MODULE MysqlSession ----------------------------
(***************************************************************************)
(* One MySQL connection (src/src/proto/mysql.rs), from the greeting to the *)
(* end, packet by packet, against the client of MysqlReader.  A MySQL      *)
(* client does not pipeline: it sends a command when it has read all it    *)
(* waited for.  Reader and server each decide alone where a reply ends,    *)
(* and if they disagree both wait for the other for ever.                  *)
(*                                                                         *)
(* The reader is shown each packet as it is written: the socket is a FIFO, *)
(* and what a client makes of a packet does not depend on when it reads.   *)
(***************************************************************************)
EXTENDS CrushPolicy, MysqlReader, Sequences

CONSTANTS
    Sqls,           \* statement texts, the empty one included
    EmptySql,       \* the text "" that a command with no statement stands for
    ShapeOf,        \* ShapeOf[q]: what shape::extract sees in q
    Columns,        \* Columns[q]: how many columns it finds in q
    WideCols,       \* the length of WIDE_CRUSH_COLUMNS
    Queries,        \* texts of COM_QUERY, as sequences of statements
    Armed,          \* crush.enabled and not crush.warn_only
    Threshold, MaxRows,
    Ghosts          \* which of "latency", "error" and "drop" have a probability > 0

ASSUME SqlAssumption ==
    /\ EmptySql \in Sqls
    /\ ShapeOf \in [Sqls -> Shapes] /\ ShapeOf[EmptySql].kind = "empty"
    /\ Columns \in [Sqls -> Nat]
    /\ Queries \subseteq Seq(Sqls)

ASSUME CrushAssumption ==
    /\ WideCols \in Nat \ {0}
    /\ Armed \in BOOLEAN /\ MaxRows \in Nat

\* Commands that are not queries.  "other" is acknowledged, whatever it is;
\* "empty" is a packet without a command byte.
Acked == {"ping", "init_db", "field_list", "prepare", "other"}

Commands ==
    [name : Acked \cup {"quit", "empty"}, stmts : {<<>>}]
        \cup [name : {"query"}, stmts : Queries]

VARIABLES
    pc,         \* where the task is suspended
    seq,        \* conn.seq
    command,    \* the command being answered
    answer,     \* the result set being written: columns, definitions and rows to go
    reader      \* the client, having read every packet written

vars == <<pc, seq, command, answer, reader>>

NoAnswer == [width |-> 0, defs |-> 0, rows |-> 0]

Init ==
    /\ pc = "greet" /\ seq = 0
    /\ command = [name |-> "empty", stmts |-> <<>>]
    /\ answer = NoAnswer /\ reader = Fresh

\* Mutant: the sequence id stops at its maximum.
MutSendSaturates(kind, n) ==
    /\ reader' = Reads(reader, [kind |-> kind, n |-> n, seq |-> seq])
    /\ seq' = IF seq + 1 < SeqMod THEN seq + 1 ELSE seq

\* Mutant: the sequence id is wider than its byte.
MutSendWide(kind, n) ==
    /\ reader' = Reads(reader, [kind |-> kind, n |-> n, seq |-> seq])
    /\ seq' = seq + 1

\* Conn::write_packet
Send(kind, n) ==
    /\ reader' = Reads(reader, [kind |-> kind, n |-> n, seq |-> seq])
    /\ seq' = Following(seq)
----------------------------------------------------------------------------
(* The handshake, and the end of a connection.                             *)

Greet ==
    /\ pc = "greet"
    /\ Send("greeting", 0)
    /\ pc' = "login"
    /\ UNCHANGED <<command, answer>>

\* read_packet takes the sequence over from the client's response, and any
\* response is accepted.
Login ==
    /\ pc = "login"
    /\ LET id == Following(reader.next)
       IN  /\ reader' = Reads(Responds(reader), [kind |-> "ok", n |-> 0, seq |-> id])
           /\ seq' = Following(id)
    /\ pc' = "ready"
    /\ UNCHANGED <<command, answer>>

\* A read that fails between commands, or a write that fails: handle returns.
HangUp ==
    /\ pc \notin {"closed", "haunt"}
    /\ pc' = "closed"
    /\ UNCHANGED <<seq, command, answer, reader>>
----------------------------------------------------------------------------
(* Reading a command.                                                      *)

\* What a client waits for once it has sent a command.
Awaited(name) ==
    CASE name \in {"quit", "empty"} -> "idle"
      [] name = "field_list" -> "fields"
      [] OTHER -> "first"

Served(name) ==
    CASE name = "quit" -> "closed"
      [] name = "empty" -> "ready"
      [] name = "query" -> IF Ghosts # {} THEN "haunt" ELSE "query"
      [] OTHER -> "ack"

\* conn.seq is reset, and then set by read_packet from the command's id, 0.
Receive ==
    /\ pc = "ready" /\ reader.awaits = "idle"
    /\ \E c \in Commands :
          /\ command' = c
          /\ reader' = Asks(reader, Awaited(c.name))
          /\ pc' = Served(c.name)
    /\ seq' = Following(0)
    /\ UNCHANGED answer

Acknowledgement(name) ==
    CASE name = "field_list" -> "eof"
      [] name = "prepare" -> "err"
      [] OTHER -> "ok"

\* Mutant: prepared statements are declined without a word.
MutAckSilent ==
    /\ pc = "ack"
    /\ IF command.name = "prepare" THEN UNCHANGED <<seq, reader>>
       ELSE Send(Acknowledgement(command.name), 0)
    /\ pc' = "ready"
    /\ UNCHANGED <<command, answer>>

Ack ==
    /\ pc = "ack"
    /\ Send(Acknowledgement(command.name), 0)
    /\ pc' = "ready"
    /\ UNCHANGED <<command, answer>>

GhostPass ==
    /\ pc = "haunt"
    /\ pc' = "query"
    /\ UNCHANGED <<seq, command, answer, reader>>

GhostDrop ==
    /\ pc = "haunt" /\ "drop" \in Ghosts
    /\ pc' = "closed"
    /\ UNCHANGED <<seq, command, answer, reader>>

\* Mutant: the ghost's error is followed by the answer.
MutGhostErrorAndAnswer ==
    /\ pc = "haunt" /\ "error" \in Ghosts
    /\ Send("err", 0)
    /\ pc' = "query"
    /\ UNCHANGED <<command, answer>>

GhostError ==
    /\ pc = "haunt" /\ "error" \in Ghosts
    /\ Send("err", 0)
    /\ pc' = "ready"
    /\ UNCHANGED <<command, answer>>
----------------------------------------------------------------------------
(* Answering a query.                                                      *)

\* run_query takes the first statement and drops the others.
Sql == IF command.stmts = <<>> THEN EmptySql ELSE Head(command.stmts)

Shape == ShapeOf[Sql]

MustCrush == Armed /\ CrushClass(Shape, Threshold) = "crush"

CrushColumns == IF Shape.star THEN WideCols ELSE Columns[Sql]

\* Any statement but a SELECT gets an OK.
AnswerOk ==
    /\ pc = "query" /\ Shape.kind # "select"
    /\ Send("ok", 0)
    /\ pc' = "ready"
    /\ UNCHANGED <<command, answer>>

\* The first packet of a result set: send_result_header.
Open(width, rows) ==
    /\ Send("count", width)
    /\ answer' = [width |-> width, defs |-> width, rows |-> rows]
    /\ pc' = "defs"
    /\ UNCHANGED command

\* A free crush slot was found.
StartCrush ==
    /\ pc = "query" /\ MustCrush
    /\ Open(CrushColumns, MaxRows)

\* An ordinary answer: the query is safe, or no slot is free.
StartOrdinary ==
    /\ pc = "query" /\ Shape.kind = "select"
    /\ \E draw \in Band : Open(Columns[Sql], OrdinaryRows(Shape, draw, 0))

SendDef ==
    /\ pc = "defs" /\ answer.defs > 0
    /\ Send("def", 0)
    /\ answer' = [answer EXCEPT !.defs = @ - 1]
    /\ UNCHANGED <<pc, command>>

EndDefs ==
    /\ pc = "defs" /\ answer.defs = 0
    /\ Send("eof", 0)
    /\ pc' = "rows"
    /\ UNCHANGED <<command, answer>>

\* The chunks of crush_stream bound its memory only: each row is a packet.
SendRow ==
    /\ pc = "rows" /\ answer.rows > 0
    /\ Send("row", answer.width)
    /\ answer' = [answer EXCEPT !.rows = @ - 1]
    /\ UNCHANGED <<pc, command>>

\* Mutant: the last row is forgotten.
MutEndRowsEarly ==
    /\ pc = "rows" /\ answer.rows <= 1
    /\ Send("eof", 0)
    /\ pc' = "ready" /\ answer' = NoAnswer
    /\ UNCHANGED command

EndRows ==
    /\ pc = "rows" /\ answer.rows = 0
    /\ Send("eof", 0)
    /\ pc' = "ready" /\ answer' = NoAnswer
    /\ UNCHANGED command
----------------------------------------------------------------------------
Reply ==
    \/ Ack \/ GhostPass \/ GhostDrop \/ GhostError
    \/ AnswerOk \/ StartCrush \/ StartOrdinary
    \/ SendDef \/ EndDefs \/ SendRow \/ EndRows

Next == Greet \/ Login \/ HangUp \/ Receive \/ Reply

Spec == Init /\ [][Next]_vars

\* The task is polled while it has something to write; the ghost's delay ends.
FairSpec == Spec /\ WF_vars(Reply)
----------------------------------------------------------------------------
(* Properties.                                                             *)

\* Types; the sequence id never leaves its byte.
TypeOK ==
    /\ pc \in {"greet", "login", "ready", "ack", "haunt", "query", "defs", "rows", "closed"}
    /\ seq \in Sequence
    /\ command \in Commands
    /\ answer \in [width : Nat, defs : Nat, rows : Nat]
    /\ reader \in Readers

\* Every packet is one the client waits for and has the id it expects, over
\* replies of any length, in which the id wraps around many times; a crushed
\* answer, whose columns are not the query's, included (write_packet,
\* read_packet, crush_stream).
NeverLost == reader.awaits # "lost"

\* Server and client agree on where a reply ends: the server waits for a
\* command only when the client may send one, and the client never waits for
\* a reply that the server believes it has sent (handle).
NoMutualWait ==
    /\ pc = "ready" => reader.awaits = "idle"
    /\ pc \in {"ack", "haunt", "query", "defs", "rows"} => reader.awaits # "idle"

\* A result set that is ended is whole: all of max_rows for a crushed query, or
\* a number of rows that an ordinary answer may have (select_response,
\* crush_stream).
WholeAnswers ==
    (IF MustCrush THEN {MaxRows} ELSE {})
        \cup {OrdinaryRows(Shape, draw, 0) : draw \in Band}

ResultSetsWhole ==
    [][reader.awaits = "rows" /\ reader'.awaits = "idle"
         => reader.rows \in WholeAnswers]_vars

\* Every command is answered in the end, or the connection is closed: no
\* command leaves its client waiting (handle).
EveryCommandAnswered ==
    reader.awaits \in {"first", "fields", "defs", "rows"}
        ~> reader.awaits = "idle" \/ pc = "closed"

\* mysql.rs: a result set is a "Column-count packet, the column definitions, and
\* the terminating EOF".  While the server writes one, the client reads one.
ResultSetsAreRead == pc \in {"defs", "rows"} => reader.awaits \in {"defs", "rows"}
=============================================================================
