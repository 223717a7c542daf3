---------------------------- MODULE MysqlReader ----------------------------
(***************************************************************************)
(* The other end of a MySQL connection: a client of the text protocol, as  *)
(* MyClient of src/tests/mysql_e2e.rs is one.  It reads packets one by one *)
(* and knows only what they say; a packet that does not fit what it waits  *)
(* for leaves it lost.  It is stricter than MyClient, which skips the      *)
(* sequence id of what it reads: here a packet out of sequence is lost,    *)
(* too.  And it knows two things that MyClient never asks for: an ERR as   *)
(* an answer, and the reply to a field list, an EOF.                       *)
(***************************************************************************)
EXTENDS Naturals

CONSTANT SeqMod     \* sequence ids are counted modulo this: 256 for a u8

ASSUME SeqModAssumption == SeqMod \in Nat \ {0}

Sequence == 0 .. SeqMod - 1

Following(seq) == (seq + 1) % SeqMod

\* awaits: what the client waits for, "idle" when it may send a command.
\* next: the sequence id of the next packet.  width, left, rows: the columns
\* of the result set, the definitions to come and the rows read.
Readers ==
    [awaits : {"greeting", "auth", "idle", "first", "fields", "defs", "rows", "lost"},
     next : Sequence, width : Nat, left : Nat, rows : Nat]

Fresh == [awaits |-> "greeting", next |-> 0, width |-> 0, left |-> 0, rows |-> 0]

\* A count of no columns is the same payload as an OK without its fields: the
\* byte 0, by which a client recognises OK.
IsOk(p) == p.kind = "ok" \/ (p.kind = "count" /\ p.n = 0)

\* What the client waits for once it has read p, if p is what it waited for.
Outcome(r, p) ==
    CASE r.awaits = "greeting" /\ p.kind = "greeting" -> "auth"
      [] r.awaits = "auth" /\ IsOk(p) -> "idle"
      [] r.awaits = "first" /\ (IsOk(p) \/ p.kind = "err") -> "idle"
      [] r.awaits = "first" /\ p.kind = "count" /\ p.n > 0 -> "defs"
      [] r.awaits = "fields" /\ p.kind = "eof" -> "idle"
      [] r.awaits = "defs" /\ r.left > 0 /\ p.kind = "def" -> "defs"
      [] r.awaits = "defs" /\ r.left = 0 /\ p.kind = "eof" -> "rows"
      [] r.awaits = "rows" /\ p.kind = "row" /\ p.n = r.width -> "rows"
      [] r.awaits = "rows" /\ p.kind = "eof" -> "idle"
      [] OTHER -> "lost"

Opens(r, p) == r.awaits = "first" /\ p.kind = "count"

Reads(r, p) ==
    [awaits |-> IF p.seq = r.next THEN Outcome(r, p) ELSE "lost",
     next   |-> Following(r.next),
     width  |-> IF Opens(r, p) THEN p.n ELSE r.width,
     left   |-> IF Opens(r, p) THEN p.n
                ELSE IF p.kind = "def" /\ r.left > 0 THEN r.left - 1 ELSE r.left,
     rows   |-> IF Opens(r, p) THEN 0
                ELSE IF p.kind = "row" THEN r.rows + 1 ELSE r.rows]

\* A command starts its own sequence: it has id 0, the first reply id 1.
Asks(r, awaited) == [r EXCEPT !.awaits = awaited, !.next = Following(0)]

\* The handshake response continues the sequence of the greeting.
Responds(r) == [r EXCEPT !.next = Following(r.next)]
=============================================================================
