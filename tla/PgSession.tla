----------------------------- MODULE PgSession -----------------------------
(***************************************************************************)
(* The command phase of one Postgres connection (handle, respond_statement *)
(* and execute_portal in src/src/proto/pg.rs): prepared statements,        *)
(* portals, the reply buffer out and the crush stream that bypasses it.    *)
(*                                                                         *)
(* A client pipelines: it may send a request before it has read the        *)
(* replies to the previous ones, so any request may come next.  The socket *)
(* and the other connections are those of CrushServer; here a write always *)
(* succeeds, and a crush slot is free or not as the other connections      *)
(* please.                                                                 *)
(***************************************************************************)
EXTENDS CrushPolicy, Sequences

CONSTANTS
    Names,          \* names of prepared statements and of portals
    Sqls,           \* statement texts, the empty one included
    EmptySql,       \* the text "" that an unknown name stands for
    ShapeOf,        \* ShapeOf[q]: what shape::extract sees in q
    Queries,        \* Queries: the simple queries, as sequences of statements
    WidthOf,        \* WidthOf[q]: how many columns a row of q has, or of "wide"
    Formats,        \* result formats a Bind may ask for, as lists of "text", "binary"
    Budgets,        \* max_rows values of an Execute
    Armed,          \* crush.enabled and not crush.warn_only
    Threshold, MaxRows, Chunk,
    Ghosts,         \* which of "latency", "error" and "drop" have a probability > 0
    MaxRequests     \* bound on the requests of a session

ASSUME SessionAssumption ==
    /\ \A q \in Sqls \cup {EmptySql} : ShapeOf[q] \in Shapes
    /\ \A stmts \in Queries : stmts \in Seq(Sqls \cup {EmptySql})
    /\ \A of \in Sqls \cup {EmptySql, "wide"} : WidthOf[of] \in Nat
    /\ Formats \subseteq Seq({"text", "binary"})
    /\ Budgets \subseteq Nat
    /\ MaxRows \in Nat /\ Chunk \in Nat /\ Chunk > 0

Requests ==
    [tag : {"Q"}, stmts : Queries]
        \cup [tag : {"P"}, name : Names, sql : Sqls]
        \cup [tag : {"B"}, portal : Names, name : Names, formats : Formats]
        \cup [tag : {"D", "C"}, kind : {"S", "P"}, name : Names]
        \cup [tag : {"E"}, portal : Names, budget : Budgets]
        \cup [tag : {"S", "H"}]

NoPortal == [sql |-> EmptySql, formats |-> <<>>]

VARIABLES
    pc,             \* where the task is suspended
    request,        \* the request being served
    todo,           \* statements of a simple query not yet answered
    statements,     \* prepared statements: a function from some names to texts
    portals,        \* bound portals: a function from some names to portals
    out,            \* replies not yet written
    stream,         \* the crush stream under way: columns, formats, rows sent
    wire,           \* every reply written to the socket
    log,            \* every request served or being served
    ends            \* ends[i]: how many replies were written once log[i] was served

vars == <<pc, request, todo, statements, portals, out, stream, wire, log, ends>>

NoStream == [cols |-> "none", formats |-> <<>>, sent |-> 0]

Init ==
    /\ pc = "ready" /\ request = [tag |-> "S"] /\ todo = <<>>
    /\ statements = <<>> /\ portals = <<>>
    /\ out = <<>> /\ stream = NoStream
    /\ wire = <<>> /\ log = <<>> /\ ends = <<>>
----------------------------------------------------------------------------
(* Replies.  DataRows of one write and one statement are a single reply    *)
(* that counts them; notices are left out.                                 *)

Plain(tag) == [tag |-> tag]
RowDescription(cols) == [tag |-> "T", cols |-> cols]

\* Mutant: a list of formats is that of the columns behind the first.
MutFormatFor(formats, i) ==
    IF Len(formats) = 1 THEN formats[1]
    ELSE IF i < Len(formats) THEN formats[i + 1] ELSE "text"

\* The format of column i: no list is text for all, a list of one is for all.
FormatFor(formats, i) ==
    IF Len(formats) = 1 THEN formats[1]
    ELSE IF i <= Len(formats) THEN formats[i] ELSE "text"

RowFormats(cols, formats) == [i \in 1 .. WidthOf[cols.of] |-> FormatFor(formats, i)]

DataRows(cols, formats, n) ==
    IF n = 0 THEN <<>>
    ELSE <<[tag |-> "D", cols |-> cols, formats |-> RowFormats(cols, formats), n |-> n]>>

CommandComplete(n) == [tag |-> "C", n |-> n]

\* The columns of a result: which text they are resolved from, and whether
\* numeric was remapped to float8.  A crushed SELECT * gets the wide schema.
ResolveCols(sql) == [of |-> sql, numeric |-> "numeric"]
Binarize(cols) == [cols EXCEPT !.numeric = "float8"]
WideColumns == [of |-> "wide", numeric |-> "numeric"]

CrushColumns(sql) == IF ShapeOf[sql].star THEN WideColumns ELSE ResolveCols(sql)

IsSelect(sql) == ShapeOf[sql].kind = "select"
MustCrush(sql) == Armed /\ CrushClass(ShapeOf[sql], Threshold) = "crush"

Get(f, name, default) == IF name \in DOMAIN f THEN f[name] ELSE default
Put(f, name, value) ==
    [n \in DOMAIN f \cup {name} |-> IF n = name THEN value ELSE f[n]]
Without(f, name) == [n \in DOMAIN f \ {name} |-> f[n]]

\* Every request that is answered ends here: out goes to the socket.
Finish(replies) ==
    /\ wire' = wire \o out \o replies
    /\ ends' = Append(ends, Len(wire'))
    /\ out' = <<>> /\ pc' = "ready"

\* A request answered in one step, with no crush stream.
Serving(tag) == pc = "act" /\ request.tag = tag
----------------------------------------------------------------------------
(* Reading a request, and the ghosts that haunt queries and executes.      *)

Receive ==
    /\ pc = "ready" /\ Len(log) < MaxRequests
    /\ \E r \in Requests :
          /\ request' = r
          /\ log' = Append(log, r)
          /\ todo' = IF r.tag = "Q" THEN r.stmts ELSE <<>>
          /\ pc' = IF Ghosts # {} /\ r.tag \in {"Q", "E"} THEN "haunt" ELSE "act"
    /\ UNCHANGED <<statements, portals, out, stream, wire, ends>>

GhostPass ==
    /\ pc = "haunt"
    /\ pc' = "act"
    /\ UNCHANGED <<request, todo, statements, portals, out, stream, wire, log, ends>>

GhostDrop ==
    /\ pc = "haunt" /\ "drop" \in Ghosts
    /\ pc' = "closed"
    /\ UNCHANGED <<request, todo, statements, portals, out, stream, wire, log, ends>>

\* After an error, a simple query still gets its ReadyForQuery from the server.
GhostError ==
    /\ pc = "haunt" /\ "error" \in Ghosts
    /\ todo' = <<>>
    /\ Finish(IF request.tag = "Q" THEN <<Plain("E"), Plain("Z")>> ELSE <<Plain("E")>>)
    /\ UNCHANGED <<request, statements, portals, stream, log>>

Terminate ==
    /\ pc = "ready"
    /\ pc' = "closed"
    /\ UNCHANGED <<request, todo, statements, portals, out, stream, wire, log, ends>>
----------------------------------------------------------------------------
(* Requests that only touch the session's own state.                       *)

Parse ==
    /\ Serving("P")
    /\ statements' = Put(statements, request.name, request.sql)
    /\ Finish(<<Plain("1")>>)
    /\ UNCHANGED <<request, todo, portals, stream, log>>

\* A portal keeps the text its statement has now.
Bind ==
    /\ Serving("B")
    /\ portals' = Put(portals, request.portal,
          [sql |-> Get(statements, request.name, EmptySql), formats |-> request.formats])
    /\ Finish(<<Plain("2")>>)
    /\ UNCHANGED <<request, todo, statements, stream, log>>

Described ==
    IF request.kind = "S" THEN Get(statements, request.name, EmptySql)
    ELSE Get(portals, request.name, NoPortal).sql

Describe ==
    /\ Serving("D")
    /\ LET parameters == IF request.kind = "S" THEN <<Plain("t")>> ELSE <<>>
           rows == IF IsSelect(Described)
                   THEN RowDescription(Binarize(ResolveCols(Described))) ELSE Plain("n")
       IN  Finish(Append(parameters, rows))
    /\ UNCHANGED <<request, todo, statements, portals, stream, log>>

CloseName ==
    /\ Serving("C")
    /\ IF request.kind = "S"
       THEN statements' = Without(statements, request.name) /\ UNCHANGED portals
       ELSE portals' = Without(portals, request.name) /\ UNCHANGED statements
    /\ Finish(<<Plain("3")>>)
    /\ UNCHANGED <<request, todo, stream, log>>

Sync ==
    /\ Serving("S")
    /\ Finish(<<Plain("Z")>>)
    /\ UNCHANGED <<request, todo, statements, portals, stream, log>>

\* Nothing to do: out is written after every request anyway.
Flush ==
    /\ Serving("H")
    /\ Finish(<<>>)
    /\ UNCHANGED <<request, todo, statements, portals, stream, log>>
----------------------------------------------------------------------------
(* Answers without a crush stream.                                         *)

\* normal_response
NormalReplies(sql, draw) ==
    LET n == OrdinaryRows(ShapeOf[sql], draw, 0)
        cols == ResolveCols(sql)
    IN  IF IsSelect(sql)
        THEN <<RowDescription(cols)>> \o DataRows(cols, <<>>, n) \o <<CommandComplete(n)>>
        ELSE IF ShapeOf[sql].kind = "empty" THEN <<Plain("I")>> ELSE <<CommandComplete(0)>>

\* execute_portal: no RowDescription, the portal's formats, at most budget rows.
ExecuteReplies(portal, budget, draw) ==
    LET n == OrdinaryRows(ShapeOf[portal.sql], draw, budget)
        cols == Binarize(ResolveCols(portal.sql))
    IN  IF IsSelect(portal.sql)
        THEN DataRows(cols, portal.formats, n) \o <<CommandComplete(n)>>
        ELSE IF ShapeOf[portal.sql].kind = "empty" THEN <<Plain("I")>>
        ELSE <<CommandComplete(0)>>

\* One statement of a simple query; an unsafe one when no slot is free.
AnswerStatement ==
    /\ Serving("Q") /\ todo # <<>>
    /\ \E draw \in Band : out' = out \o NormalReplies(Head(todo), draw)
    /\ todo' = Tail(todo)
    /\ UNCHANGED <<pc, request, statements, portals, stream, wire, log, ends>>

FinishQuery ==
    /\ Serving("Q") /\ todo = <<>>
    /\ Finish(IF request.stmts = <<>> THEN <<Plain("I"), Plain("Z")>> ELSE <<Plain("Z")>>)
    /\ UNCHANGED <<request, todo, statements, portals, stream, log>>

Portal == Get(portals, request.portal, NoPortal)

Execute ==
    /\ Serving("E")
    /\ \E draw \in Band : Finish(ExecuteReplies(Portal, request.budget, draw))
    /\ UNCHANGED <<request, todo, statements, portals, stream, log>>
----------------------------------------------------------------------------
(* The crush stream writes to the socket itself, after flushing out.       *)

StartStream(cols, formats) ==
    /\ stream' = [cols |-> cols, formats |-> formats, sent |-> 0]
    /\ out' = <<>>
    /\ pc' = "stream"

\* Mutant: earlier answers are still in out when the stream starts.
MutCrushOvertakes ==
    /\ Serving("Q") /\ todo # <<>> /\ MustCrush(Head(todo))
    /\ wire' = Append(wire, RowDescription(CrushColumns(Head(todo))))
    /\ stream' = [cols |-> CrushColumns(Head(todo)), formats |-> <<>>, sent |-> 0]
    /\ pc' = "stream"
    /\ todo' = Tail(todo)
    /\ UNCHANGED <<request, statements, portals, out, log, ends>>

CrushStatement ==
    /\ Serving("Q") /\ todo # <<>> /\ MustCrush(Head(todo))
    /\ wire' = wire \o out \o <<RowDescription(CrushColumns(Head(todo)))>>
    /\ StartStream(CrushColumns(Head(todo)), <<>>)
    /\ todo' = Tail(todo)
    /\ UNCHANGED <<request, statements, portals, log, ends>>

\* Mutant: a crushed portal gets the wide schema of a simple query.
MutCrushPortalWide ==
    /\ Serving("E") /\ MustCrush(Portal.sql)
    /\ wire' = wire \o out
    /\ StartStream(CrushColumns(Portal.sql), Portal.formats)
    /\ UNCHANGED <<request, todo, statements, portals, log, ends>>

CrushPortal ==
    /\ Serving("E") /\ MustCrush(Portal.sql)
    /\ wire' = wire \o out
    /\ StartStream(Binarize(ResolveCols(Portal.sql)), Portal.formats)
    /\ UNCHANGED <<request, todo, statements, portals, log, ends>>

\* Mutant: the counter advances by a whole chunk for the last, short one.
MutChunkMiscounts ==
    /\ pc = "stream" /\ stream.sent < MaxRows
    /\ LET this == Least(Chunk, MaxRows - stream.sent)
       IN  /\ wire' = wire \o DataRows(stream.cols, stream.formats, this)
           /\ stream' = [stream EXCEPT !.sent = @ + Chunk]
    /\ UNCHANGED <<pc, request, todo, statements, portals, out, log, ends>>

\* Mutant: only whole chunks are sent, so the loop never ends.
MutChunkWholeOnly ==
    /\ pc = "stream" /\ stream.sent < MaxRows
    /\ LET this == IF MaxRows - stream.sent < Chunk THEN 0 ELSE Chunk
       IN  /\ wire' = wire \o DataRows(stream.cols, stream.formats, this)
           /\ stream' = [stream EXCEPT !.sent = @ + this]
    /\ UNCHANGED <<pc, request, todo, statements, portals, out, log, ends>>

StreamChunk ==
    /\ pc = "stream" /\ stream.sent < MaxRows
    /\ LET this == Least(Chunk, MaxRows - stream.sent)
       IN  /\ wire' = wire \o DataRows(stream.cols, stream.formats, this)
           /\ stream' = [stream EXCEPT !.sent = @ + this]
    /\ UNCHANGED <<pc, request, todo, statements, portals, out, log, ends>>

\* The tail; a simple query goes on with its next statement.
StreamTail ==
    /\ pc = "stream" /\ stream.sent >= MaxRows
    /\ stream' = NoStream
    /\ \/ /\ request.tag = "Q"
          /\ wire' = Append(wire, CommandComplete(stream.sent))
          /\ pc' = "act" /\ UNCHANGED <<out, ends>>
       \/ /\ request.tag = "E"
          /\ Finish(<<CommandComplete(stream.sent)>>)
    /\ UNCHANGED <<request, todo, statements, portals, log>>
----------------------------------------------------------------------------
Serve ==
    \/ GhostPass \/ GhostDrop \/ GhostError
    \/ Parse \/ Bind \/ Describe \/ CloseName \/ Sync \/ Flush
    \/ AnswerStatement \/ FinishQuery \/ Execute
    \/ CrushStatement \/ CrushPortal \/ StreamChunk \/ StreamTail

Next == Receive \/ Terminate \/ Serve

Spec == Init /\ [][Next]_vars

FairSpec == Spec /\ WF_vars(Serve)
=============================================================================
