----------------------------- MODULE PgReplies -----------------------------
(***************************************************************************)
(* What a Postgres client may conclude from the replies of a PgSession     *)
(* knowing only the requests it has sent.  The replies are cut into the    *)
(* segments that answer each request; what each must look like is computed *)
(* from the log of requests, never from the server's own maps.             *)
(***************************************************************************)
EXTENDS PgSession

\* The replies to log[i].
Begin(i) == IF i = 1 THEN 0 ELSE ends[i - 1]
Segment(i) == SubSeq(wire, Begin(i) + 1, ends[i])

Served == DOMAIN ends

\* The latest of some requests, 0 if there is none.
Latest(found) ==
    IF found = {} THEN 0 ELSE CHOOSE j \in found : \A k \in found : k <= j

OfStatement(r, name) ==
    \/ r.tag = "P" /\ r.name = name
    \/ r.tag = "C" /\ r.kind = "S" /\ r.name = name

OfPortal(r, name) ==
    \/ r.tag = "B" /\ r.portal = name
    \/ r.tag = "C" /\ r.kind = "P" /\ r.name = name

\* What the client knows the name of a statement or portal to stand for.
SqlOfStatement(name, i) ==
    LET j == Latest({k \in 1 .. i - 1 : OfStatement(log[k], name)})
    IN  IF j = 0 \/ log[j].tag = "C" THEN EmptySql ELSE log[j].sql

\* The request that the portal of this name stems from, 0 if there is none.
BindOfPortal(name, i) ==
    LET j == Latest({k \in 1 .. i - 1 : OfPortal(log[k], name)})
    IN  IF j = 0 \/ log[j].tag = "C" THEN 0 ELSE j

SqlOfPortal(name, i) ==
    LET j == BindOfPortal(name, i)
    IN  IF j = 0 THEN EmptySql ELSE SqlOfStatement(log[j].name, j)

FormatsOfPortal(name, i) ==
    LET j == BindOfPortal(name, i)
    IN  IF j = 0 THEN <<>> ELSE log[j].formats
----------------------------------------------------------------------------
(* Listening to replies: their tags, DataRows aside; the rows since the    *)
(* last other reply; the columns described last; and how many completions  *)
(* named another count, how many DataRows had other columns.               *)

Unheard ==
    [tags |-> <<>>, rows |-> 0, cols |-> [of |-> EmptySql, numeric |-> "none"],
     miscounts |-> 0, misfits |-> 0]

Hear(heard, reply) ==
    IF reply.tag = "D"
    THEN [tags |-> heard.tags, rows |-> heard.rows + reply.n, cols |-> heard.cols,
          miscounts |-> heard.miscounts,
          misfits |-> heard.misfits + Bit(reply.cols # heard.cols)]
    ELSE [tags |-> Append(heard.tags, reply.tag), rows |-> 0,
          cols |-> IF reply.tag = "T" THEN reply.cols ELSE heard.cols,
          miscounts |-> heard.miscounts + Bit(reply.tag = "C" /\ reply.n # heard.rows),
          misfits |-> heard.misfits]

Heard(replies) ==
    LET upTo[n \in 0 .. Len(replies)] ==
            IF n = 0 THEN Unheard ELSE Hear(upTo[n - 1], replies[n])
    IN  upTo[Len(replies)]

\* The tags of an Execute, of a statement and of several.
DoneTags(sql) == IF ShapeOf[sql].kind = "empty" THEN <<"I">> ELSE <<"C">>

ResultTags(sql) == IF IsSelect(sql) THEN <<"T">> \o DoneTags(sql) ELSE DoneTags(sql)

AnswerTags(stmts) ==
    LET upTo[n \in 0 .. Len(stmts)] ==
            IF n = 0 THEN <<>> ELSE upTo[n - 1] \o ResultTags(stmts[n])
    IN  upTo[Len(stmts)]

DescribedSql(i) ==
    IF log[i].kind = "S" THEN SqlOfStatement(log[i].name, i) ELSE SqlOfPortal(log[i].name, i)

ExpectedTags(i) ==
    LET r == log[i]
    IN  CASE r.tag = "Q" ->
                (IF r.stmts = <<>> THEN <<"I">> ELSE AnswerTags(r.stmts)) \o <<"Z">>
          [] r.tag = "P" -> <<"1">>
          [] r.tag = "B" -> <<"2">>
          [] r.tag = "D" ->
                (IF r.kind = "S" THEN <<"t">> ELSE <<>>)
                \o (IF IsSelect(DescribedSql(i)) THEN <<"T">> ELSE <<"n">>)
          [] r.tag = "E" -> DoneTags(SqlOfPortal(r.portal, i))
          [] r.tag = "C" -> <<"3">>
          [] r.tag = "S" -> <<"Z">>
          [] r.tag = "H" -> <<>>

HauntedReplies(i) ==
    IF log[i].tag = "Q" THEN <<Plain("E"), Plain("Z")>> ELSE <<Plain("E")>>

\* Every request gets the replies it is owed, in order, before the next one is
\* looked at: a crush stream never overtakes earlier answers, a ghost answers
\* for a whole query, and ReadyForQuery comes once per query or Sync (handle,
\* respond_statement, execute_portal).
RepliesMatchRequests ==
    \A i \in Served :
        \/ Heard(Segment(i)).tags = ExpectedTags(i)
        \/ /\ log[i].tag \in {"Q", "E"} /\ "error" \in Ghosts
           /\ Segment(i) = HauntedReplies(i)

\* The row count that a CommandComplete names is the number of DataRows since
\* the reply before them, for ordinary answers and for streams whose last
\* chunk is a short one (normal_response, execute_portal, stream_rows).
TagCountsRows == \A i \in Served : Heard(Segment(i)).miscounts = 0

\* The rows of an Execute have the columns of the RowDescription that the
\* client asked for: a Describe of the portal since its Bind, or of its
\* statement while both stood for the same text.  Rows of a simple query have
\* those of the RowDescription before them.  Crushed or not (execute_portal).
DescribedBy(j, i) ==
    /\ log[j].tag = "D"
    /\ LET portal == log[i].portal
           bound == BindOfPortal(portal, i)
       IN  /\ bound > 0
           /\ \/ log[j].kind = "P" /\ log[j].name = portal /\ bound < j
              \/ /\ log[j].kind = "S" /\ log[j].name = log[bound].name
                 /\ SqlOfStatement(log[j].name, j) = SqlOfPortal(portal, i)

RowsFitDescription ==
    \A i \in Served :
        /\ log[i].tag = "Q" => Heard(Segment(i)).misfits = 0
        /\ log[i].tag = "E" =>
              \A j \in 1 .. i - 1 : DescribedBy(j, i) =>
                  \A k \in DOMAIN Segment(j), l \in DOMAIN Segment(i) :
                      Segment(j)[k].tag = "T" /\ Segment(i)[l].tag = "D" =>
                          Segment(j)[k].cols = Segment(i)[l].cols

\* What a list of formats means to the client that sends it: no format is text
\* for every column, one is for them all, and as many as there are columns are
\* theirs.  It never sends another number.
AsAsked(row, asked) ==
    CASE asked = <<>> -> \A i \in DOMAIN row : row[i] = "text"
      [] Len(asked) = 1 -> \A i \in DOMAIN row : row[i] = asked[1]
      [] Len(asked) > 1 -> Len(asked) = Len(row) => row = asked

\* The rows of an Execute are encoded, column by column, as its portal's Bind
\* asked, in a crush stream too, and those of a simple query as text
\* (format_for, put_data_row_fmt).
RowsInAskedFormat ==
    \A i \in Served :
        \A k \in DOMAIN Segment(i) :
            Segment(i)[k].tag = "D" =>
                AsAsked(Segment(i)[k].formats,
                    IF log[i].tag = "Q" THEN <<>> ELSE FormatsOfPortal(log[i].portal, i))

\* No request leaves the session hanging: it waits for the next one again, or
\* the connection is closed.
EveryRequestServed == pc # "ready" ~> pc \in {"ready", "closed"}
----------------------------------------------------------------------------
(* What the sources say of the session and it does not do.                 *)

\* The RowDescription of a portal announces "text format" for every column.
RowsAsAnnounced ==
    \A i \in Served :
        \A k \in DOMAIN Segment(i) :
            (Segment(i)[k].tag = "D"
             /\ \E j \in 1 .. i - 1 : log[j].tag = "D" /\ log[j].kind = "P"
                                      /\ log[i].tag = "E" /\ DescribedBy(j, i))
              => \A c \in DOMAIN Segment(i)[k].formats : Segment(i)[k].formats[c] = "text"
=============================================================================
