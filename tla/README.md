# A TLA+ model of EtherealDB

EtherealDB is a server that pretends to be a database: it answers every query
of the Postgres, MySQL and Redis protocols with invented rows of the right
shape. In *crush mode* a query that asks for too much is answered with a huge
stream of rows. This directory models the parts of it that have behaviour
worth checking: the server from its first listener to its end, connections that
share a pool of crush slots, the reading of a query and the decision to crush,
the Postgres session with its two query protocols, the MySQL session packet by
packet, the Redis session line by line and frame by frame, and the way from the
name of a column to the bytes of its cells.

## The system

| Part | State it keeps | Operations | What makes it correct |
|---|---|---|---|
| Accept loops (`server.rs`) | one task per connection, `Shared` with the config and the semaphore `crush_slots` | accept, spawn, end of a task | a task that ends, however it ends, leaves nothing behind |
| Handle loops (`proto/pg.rs`, `mysql.rs`, `resp.rs`) | the socket, the reply buffer `out` (pg), the packet sequence number (mysql) | startup, read a command, haunt it, answer it, write | answers in order, one per statement; nobody waits for anybody else |
| Crush streams (`stream_rows`, `crush_stream`, `crush_keys`) | a permit, the number of rows sent | acquire, header, chunks, tail | at most `concurrency.max(1)` at a time, exactly `max_rows` rows, permit returned |
| Crush policy (`shape.rs`, `crush_class`) | none | classify a shape against a threshold | restraint is never punished; the default is the mildest threshold |
| Postgres session (`pg.rs`) | `statements`, `portals`, `out` | Query, Parse, Bind, Describe, Execute, Close, Sync, Flush, Terminate | replies match the requests of a pipelining client; rows match their description |
| Ghosts (`config.rs`) | none, a thread RNG | delay, drop, error | an error stands for a whole command and keeps the protocol in step |
| MySQL and Redis framing | sequence number; RESP reader | packets, result sets; arrays and bulk strings | declared and delivered lengths agree |
| SQL shapes (`shape.rs`) | none | split, scan words, extract, parameter types | the same verdict and the same columns for a query however it is written |
| Inference (`infer.rs`) | the user's rules, read once | read a line of the rules file; name to semantic type to wire type | one name, one type, in every naming convention; a rule takes the names it matches and no others |
| Values (`generate.rs`) and codecs (`pg.rs`) | none | semantic type to text, text to binary, day number to date and back | a generated value is one of its announced type, and parses back exactly |
| Themes (`theme.rs`) | none | word lists | nothing to go wrong |
| Startup (`main.rs`) | the listeners | parse options, bind, supervise | all of the listeners serve or none |

The parts interact by calls, except for two things. All connections share the
semaphore, so one client's answer depends on what others are receiving. And a
connection's task is suspended in `write_all` for as long as its client does
not read, with whatever it owns.

What is hard here: streams that end in the middle (their permit), clients that
stall for ever (their permit, and everyone else), the stream that bypasses the
reply buffer (order), the short last chunk (counts), portals that outlive the
statement they came from, pipelined requests answered by ghosts, a listener that
cannot be bound while others already serve, keywords and separators inside
strings, names and subqueries, a cast that contradicts the type a name suggests,
rules that overlap, and dates at the ends of months, years and eras.

## The modules

    CrushPolicy ---- CrushRestraint
        |  |               \
        |  +-- SqlText --- QueryText ---- MCQueryText
        |  |      |            \---- CrushRestraintProofs ---- QueryTextProofs
        |  |  WireTypes
        |  |      |
        |  |  Inference --- Cells ---- MCCells
        |  |   Calendar ----/    \---- CellsProofs
        |  |
        |  +-- PgSession ---- PgReplies ---- MCPgSession
        |  |                       \---- PgSessionProofs
        |  +-- RedisSession ---- RedisReplies ---- MCRedisSession
        |                             \---- RedisSessionProofs
        |
        +-- CrushServer ---- MCCrushServer
            |          \---- Startup ---- MCStartup
            | implements          \---- CrushServerProofs
        CrushService

    MysqlReader ---- MysqlSession ---- MCMysqlSession
                            \---- MysqlSessionProofs

    Induction ---- CellsProofs, CrushRestraintProofs, PgSessionProofs, RedisSessionProofs

**CrushPolicy** holds the pure operators of `crush_class` and of the row count
of an ordinary answer. A shape is `ResultShape` reduced to what the frontends
branch on; Insert, Update, Delete and Command are one kind, "dml".

**CrushRestraint** runs CrushPolicy over every shape that `extract` can return
and every threshold. Its steps are a client that rewrites its query.

**SqlText** is the scanner: `split_top_level`, `scan_words`, `extract` with its
branches for each kind of statement, `parse_item` with casts, aliases, literals
and introspection functions, and `param_types`. A text is a sequence of tokens: a
word, or a mark that some branch of the code looks for. What the code keeps in a
loop over characters (depth of parentheses, inside a string, inside a quoted name)
is `Contexts(text)`.

**QueryText** is a client that writes down a query of CrushRestraint. Each part of
the query has many ways of being written, each with its meaning beside it. The
server sees the text alone, and must find the meaning again. Every step rewrites
one part, so `WriteSpec` implements the specification of CrushRestraint.
`ClausesAssumption` says what a clause is: it begins with its keyword, holds the
keyword of no other clause outside parentheses and quotes, and parameters stand
in the WHERE. `ClausesAreRead` says that each clause, read on its own, means what is
written beside it.

**WireTypes** and **Inference** hold the type tables of `infer.rs`, entry by
entry, `normalize` over chunks with their capitals, and the precedence of the
user's rules over the built-in tables and among each other. A rule's pattern is
written in some style, and may begin or end with an empty word (`_id`, `is_`);
`RuleOf` normalises it.

**Calendar** is the arithmetic of `civil_from_days` and `days_from_civil` with
the division of `i64`, and beside it the calendar itself: leap years, lengths of
months, the day after a day.

**Cells** puts these together: a rules file is read line by line (a line that is
no rule ends the process), then columns are asked for by name and cast, or as
literals, and each cell is the text of a generated value or of a ghost (`--fuzz`)
and its encodings. The form of a text is what the encoders tell apart; with it
go the bits of a number and the fields of a date.

**CrushService** is the abstract specification. A connection answers one
command at a time, statement by statement; a statement that must be crushed is
crushed in full unless `Permits` others are being crushed, and only then it is
answered normally; a fault replaces a command's answer; a connection may drop.
There are no sockets, chunks, buffers or semaphore in it.

**CrushServer** is the detailed specification. `pc[c]` is the await point at
which the task of `c` is suspended:

| `pc` | code |
|---|---|
| `handshake` | startup exchange of pg and mysql, up to its last write |
| `idle` | reading the next command |
| `haunt` | `maybe_latency().await` and the draws after it |
| `stmt` | between two statements, or at the write that ends a command |
| `flush`, `header`, `stream` | the writes of a crush stream, permit owned |

`slots` is the semaphore's counter and `holders` the tasks that own a permit,
kept apart so that losing one is possible. `buf[c]` counts the writes that sit
in the send buffer of a client; a write waits until it is below `SockCap`.
Closing drops socket, buffers and permit in one step, as returning from
`handle` does. `out[c]` says whether answers wait in pg's reply buffer; mysql
and redis have at most one statement per command, and their ordinary answer is
one write here (a chunk is one write too, though mysql writes its rows one by
one). Clients, and the kernel's buffer, are outside `src/src`: `Read`, `Stall`, `Resume`,
`Leave` and the variables `client` and `buf` are modelled from how the code
uses `TcpStream`. A command that a gone client sent before leaving may still
be received. A redis `KEYS *` is a select with every signal missing, which
`crush_class` calls unsafe under every threshold, as the redis loop does.

**Startup** is CrushServer with `main` around it. `Bind` binds and spawns one
listener after the other; clients of the bound ones are served meanwhile. A
listener that cannot be bound returns from `main`, and dropping the runtime drops
the accept loops and the connections one at a time, wherever they wait. An accept
that fails is retried in a loop and changes no state, so it is a stutter here;
an accept loop never returns, and `main` then waits for ever.

**PgSession** is one Postgres connection in the command phase with the content
of its replies: `statements`, `portals`, `out`, and `wire`, everything written.
DataRows of one write count as one reply, notices are left out, a column list
is represented by the text it is resolved from and by whether `binarize` has
been applied. A Bind's list of formats stays a list, and `FormatFor` reads it as
`format_for` does: none, one for all columns, or one for each. A list of another
length leaves the columns beyond it in text; the protocol forbids it and the client
never sends one. The client may pipeline, so any request may come next. Writes
always succeed and the crush slot is free or not, as other connections please:
both are CrushServer's subject.

**PgReplies** states what a client may conclude from the replies. It computes
what each request is owed from the log of requests alone, never from the
server's maps, so the two can disagree. `Heard` is what a client makes of a
stretch of replies, one reply after the other: their tags, the rows since the
last of them, the columns it was told of, and how often a count or a row did not
agree with these.

**MysqlReader** is the client of a MySQL connection, from the client in
`tests/mysql_e2e.rs`: what it waits for, which sequence id it expects, how it
tells an OK from a column count, and when it is lost. It is stricter than the one of
the test, which skips sequence ids: it also compares them, and it knows the two replies
that the test never asks for, an ERR and the list of a table's fields.

**MysqlSession** is the server's side of that connection from the greeting on,
one action per packet. `pc` is the place in `handle` (`ack` for the commands
answered by one packet, `query`, then `defs` and `rows` of a result set), `seq`
is `conn.seq`, `answer` what is left to write. `reader` is the client after all
packets written so far: the socket is a FIFO and the client reads alone, so when
it reads does not matter to what it makes of the packets. A MySQL client does not
pipeline, so `Receive` needs it to be idle. Row values, the text of errors and
the length field of a packet are left out. `other` stands for every command byte
that the loop acknowledges without knowing it; those that expect no reply
(COM_STMT_CLOSE) need a prepared statement, which the server never grants.

**RedisSession** is one Redis connection. `input` holds the lines the client has
sent and the server has not read, because RESP has no messages: `read_command`
takes lines until an array is complete (`pc = "args"`, `missing` strings to go),
answers a malformed array with what it read of it and skips what holds no
command. The line that ends an array is dropped, be it the header of the next
command: what that command leaves behind is then read line by line, and each
length line (`$4`) is an inline command with a name of its own. A bulk string is one
element of `input`, its length line and its word's line, until such a read splits it.
Lengths in `$` lines are right or negative (an empty word); a word has no space, and
`*` is the only one that begins with a star. `Dispatch`
gives, for each command, the frames its reply may consist of; commands whose
replies have the same frames share one name. The crush stream announces all of
its keys, then writes them chunk by chunk. As in PgSession, writes succeed and
the slot is free or not.

**RedisReplies** is the client: it cuts the frames into replies by their array
headers alone and gives the k-th reply to the k-th command that deserves one. Which
commands those are, it works out from what it sent, not from what the server
read: `Understood` goes through the commands and, behind a short array, takes the
next one apart into `Leftovers`.

Operators named `Mut...` are deliberate mistakes, written next to the definition they
would replace. `PROJECT.json` pairs each property with one that breaks it.

## The runs

| Run | Configuration | Shows |
|---|---|---|
| `crush_pair` | two pg clients, one of which may stall for ever, one slot (`--crush-concurrency 0`), all ghosts, 3 rows in chunks of 2, fair scheduling | types, permits conserved and owned by streams only, streams never overtake answers, a statement is let off only when all permits stream elsewhere, refinement of CrushService, the attentive client is served, a client that leaves gives its slot back |
| `startup` | the server from its start with a pg, a mysql and a redis client, two slots, any listener failing to bind | all listeners serve or none is left behind; permits conserved and the service implemented also when the runtime drops tasks wherever they wait; some but not all permits taken, by all three frontends |
| `query_text` | ten select lists, seven FROM targets, three WHERE clauses and nine endings (a `LIMIT ALL`, a `LIMIT NULL` before other words and a LIMIT behind a UNION among them) under three heads, other statements, every threshold, LIMIT up to 2, budget up to 3 | verdicts are monotone in restraint and ordinary answers fit LIMIT and budget; each clause alone, and in every query every restraint, column, statement of a batch and parameter type, is read as it was meant |
| `cells` | rules files of up to two lines that count, their patterns written in any style, 101 names in five styles, casts, literals, six instants, `--fuzz` | names mean the same in every style, rules layer, generated cells have the announced type, parse back exactly and are real dates |
| `pg_pipeline` | every sequence of up to four requests, one statement and portal name, three texts, Binds with one format for all columns or one for each, fair scheduling | replies match requests, counts match rows, rows match description and format, no request hangs the session |
| `redis_pipeline` | every sequence of up to three commands, malformed arrays, arrays that swallow a line of the next command and blank lines among them, ghosts, fair scheduling | one whole reply per command, in order, nothing owed at rest, QUIT never haunted, all input read in the end |
| `mysql_dialogue` | every MySQL command, ghosts, sequence ids modulo 256, a crush of 300 rows, fair scheduling | the client follows every packet, gets whole result sets, and neither side waits for the other |

Five runs are expected to find a violation, each of something the sources say
and the code does not do:

- `seeded_answers`: "the same query always returns the same garbage"
  (`config.rs`) fails when one client is crushed and the other finds the slot
  taken.
- `limit_ignored`: "`LIMIT` is honored" (README) fails under
  `--crush-threshold star`: the stream looks at neither LIMIT nor max_rows.
- `stalled_stream`: the mysql stream "aborts if the client stops reading": it
  waits in `write_all`, which has no timeout, and keeps its slot.
- `pg_announced`: RowDescription announces text format for a portal whose rows
  are binary.
- `mysql_bare`: a SELECT that names no column is framed with a column count of 0,
  the byte by which a client (also the one of the e2e test) recognises an OK. It
  is idle while the server still writes the rest of the result set.

### Bounds

Three rows in chunks of two give a whole chunk and a short one, and a moment
between them at which a client can stall or leave. `SockCap = 1` makes every second
write wait, and a larger buffer only delays that. Two clients and one slot make
capacity refusals happen; three clients and two slots (`startup`) make the state
"some permits left" differ from "all". Commands have at most two statements (three in
`pg_pipeline`): answers before and after a stream. 300 rows wrap the MySQL
sequence id, which keeps its width of a byte. Three Redis commands are one that
is malformed or streamed, with one before and one after it: an array that is one string
short takes the header of the command behind it, and what that one leaves stands before
a third. In `pg_pipeline` four requests suffice for
Bind, Describe, Parse, Execute: the shortest history in which a portal that
does not keep its text is seen; the name bound is one because maps are keyed by
name and names do not interact. `CHECK_DEADLOCK FALSE` is set where a model
stops by design: a query with no restraint left to add, a session that has
reached `MaxRequests` or is closed, a process that exits at a bad rules line.

The texts of `query_text` combine freely, and each part has the cases its branch
of the scanner distinguishes: a keyword in a string, in a quoted name, in a
subquery, in the parentheses of a call; doubled quotes; joins, aliases,
catalogs; parameters out of order and repeated. Two rules in a file are enough for
every pair to overlap in either order. The six instants of `cells` are the ends of
the range of `random_epoch`, of a leap year and of a February; every other instant is
covered by the proofs.

### Fairness

`FairSpec` of CrushServer asks weak fairness of each task's own steps: tokio polls
every task that is ready, and a step is enabled exactly when its await can complete
(a ghost's delay is finite). Of the clients it asks only that those in `Attentive`
keep reading. Nothing is assumed of accepting, of sending commands or of the other
clients. The fairness is per connection, so progress of one never hides starvation
of another. `FairStartup` asks that `main` is polled (a bind completes, with or
without an error) and that the drop of the runtime goes on until nothing is left;
connections need none. `FairSpec` of PgSession is weak fairness of the session's one
task, that of RedisSession of `Serve`, the server's steps; a client that hangs up or
sends nothing is never assumed to act. `FairSpec` of MysqlSession is weak fairness
of `Reply`, the steps after a command was read; nothing is asked of the client.

## The proofs

`CrushServerProofs` proves, for any set of connections, statements, commands
and any configuration that satisfies the named assumptions of CrushServer and
CrushPolicy:

- `TypeCorrect`, `PermitsConserved`, `PermitsHeldByStreams`,
  `StreamsNeverOvertake`: the invariants of `crush_pair`;
- `NoneEscapes`: the action property `LetOffOnlyWhenFull`;
- `Implements`: `Spec => Service!Spec`, the refinement.

The argument is one inductive invariant, `IInv`. `TypeOK` alone is not inductive: that
`slots` stays within `Permits` when a stream returns its permit needs
`slots + Cardinality(holders) = Permits`, which in turn needs `holders` finite
and equal to the streaming connections, so that nobody releases a permit it
does not own or takes a second one. The refinement needs `Bookkeeping` as well: a
connection that is not open has no statements and no answers left (so that
closing it during the handshake is a stutter), a haunted command has no answer
yet, and a stream has a statement to answer. Each kind of step has a lemma for
permits (`KeepPermits`, `TakePermit`, `GiveBackPermit`), from which every
action follows. No finiteness of `Conns` is assumed.

The same module carries `TypeOK`, `SlotsConserved` and the refinement from
CrushServer to the whole life of the process, for any list of listeners
(`StartupTypeCorrect`, `StartupConserves`, `StartupImplements`). Its invariant is
`IInv` and how far `main` is in the list; a dropped task is a `Close`, whose
lemmas serve again, and maps to a connection that drops.

`CrushRestraintProofs` proves `AllThreeIsMildest`, `SignalsAreNoticed`,
`RestraintNeverEscalates` and `AnswerFits` for every bound on LIMIT and budget
and every row band. It also proves that `WriteSpec` implements `Spec` of
CrushRestraint, for any ways of writing: the four properties hold of texts because
they hold of shapes.

The same module proves `BatchIsSplit` (`BatchesAreSplit`): a batch is split into its
statements whatever strings, quoted names and parentheses stand in them.
`TextsAssumption` says what the texts must be for that: each part of a query closes
what it opens and ends no statement, only a tail or a statement of another kind may
have its semicolon, and a neighbour has no blank at either end. TLC evaluates it on
the texts of `query_text`. The argument: `Contexts` is a fold over the tokens, so
what stands behind a closed text stands in the contexts it has when it stands alone
(`ContextsJoin`); `Without`, which drops the positions that are no separators and the
pieces that are empty, is a fold too, so one more separator is one more piece
(`SplitMore`); and what is trimmed is the blanks around the piece and the
semicolon behind it (`EndIsCut`). That each query is such a text is the invariant
`WellWritten`, which every rewriting keeps. `SplitMore` holds for every closed text,
not for those of the client alone.

`QueryTextProofs` proves that reading a query is compositional. Wherever
`ClausesAreRead` holds, the whole query is read as it was meant: its restraints
(`RestraintsRead`), its columns (`ColumnsRead`) and the types of its parameters
(`ParamsTyped`). This is so for any heads, lists, FROM targets, WHERE clauses and
endings of any length that satisfy `TextsAssumption` and `ClausesAssumption`. The
inductive invariant, `MadeAndMeant`, says that a query is still made of such parts
and that `shape` is their meaning; the work is in the operators:

- the positions of a composed text at top level are those of its parts, moved
  (from `ContextsJoin`), and what trimming takes off its end holds no word, so
  `scan_words` finds the words of the parts and no others;
- the first keyword of a kind is the one its clause begins with: the list ends
  where the first clause behind it begins, whichever that is, and a text
  behind a FROM target cannot prolong the name of the table, since it begins with
  a blank;
- the word after LIMIT and the column left of a parameter are found within the
  clause, so that neither what stands before nor what stands behind changes them.

Each of the three theorems has the form `WriteSpec => [](ClausesAreRead => P)`.
`ClausesAreRead` is no assumption on the constants, because it is about the code:
`parse_item`, `word_after` and the rest, applied to the clauses at hand one by
one. TLC checks it in `query_text`, and a mutant of the code breaks it. What the
theorems add is that right clauses make right queries, in every combination. Of a
statement that has no clauses they say nothing that `ClausesAreRead` does not say;
those statements are checked by TLC alone. `ClausesAssumption` is what they need
of the client: without it they are false, since the code takes an unquoted `limit`
for the keyword wherever it stands, and counts a `$1` in a string as a parameter.

`Induction` has what the next proofs share. Induction over the natural numbers is
stated of a set of numbers, and `Fold` of a function from a value and an element to
the next value, so that no lemma takes an operator as a parameter. A recursive
definition of the models is then shown to be such a fold, once, and its two
equations (nothing read, one element more) are all that the rest of a proof uses.

`PgSessionProofs` proves the four properties of `pg_pipeline` for pipelines of any
length, any names, texts, row counts, chunks and ghosts (`RepliesMatch`,
`RowsAreCounted`, `RowsInFormat`, `RowsFit`). `SessionAssumption` asks that texts
have a shape and that budgets and chunks are numbers. The properties compare the
whole wire with the whole log, and the invariant, `PgInv`, is what relates them
to a session that remembers neither:

- `Written`: the wire is cut at `ends`, one for each request that is served;
- `Known`: `statements` and `portals` are what the client computes from its log;
- `Answered`: each finished segment is a whole answer to its request, or a ghost's;
- `Doing`: at each `pc`, the replies that wait in `out` or were written since the
  last end are those of the statements done so far, and `todo` those to come.

`Known` is what makes the rest inductive: a Parse, a Bind or a Close changes both
sides alike, and everything said of an earlier request stays as it was, because
what a client knows at request `i` depends on the requests before it. TLC checked
`PgInv` on a small instance before it was proved.

`RedisSessionProofs` proves the three invariants of `redis_pipeline` for every
pipeline, whatever arrays break off in it, every set of ghosts and every length of a
crush. They speak of what the lines sent amount to. For `QuitGetsThrough` the
invariant follows the words of a command from the lines of the client to the reply:
a command that is acted on has a first word, and what happens to a QUIT is decided
when its last line is read. For `RepliesMatch` and `NothingIsOwed` it is `ReplyInv`.
The lines not yet read are the rest of one unit and whole units behind it, where a
unit is a command as sent, or a line that a swallowed header has left over; the
replies cut from the wire are those of the units before it that have a word, in
order; and the reply at hand, when it is a crush, owes exactly the keys that the
stream has still to send. A reply to a command whose array breaks off is given for
what was read of it, which is why the invariant speaks of the line at which the
array broke. A unit is settled only when the next command is known, since a short
array at the end of the log may yet take a line; `Understand` therefore changes the
last unit and no earlier one. `CommandsAssumption` says which commands have no
words, those whose lines are blank or an empty array.

`CellsProofs` proves the date arithmetic for every integer. From each date of
the calendar to the next `days_from_civil` grows by one (`CountsTheDays`), by the
length of a month and of a year. `civil_from_days` returns a date of the calendar
(`DatesAreDates`) which `days_from_civil` maps back (`DatesRoundTrip`), so that an
instant survives its text (`TimestampsRoundTrip`). The argument is about
one era of 146,097 days: `YearOfEra` is the one year whose first day is not after
the day and whose last day is not before it.

The same module proves `TypesAgree`, `BinaryIsExact` and `DatesAreReal` for any rules
file, names, casts and instants of `random_epoch`. The invariant says of the
column and the cell at hand that one is resolved by the rules, of a type among
`SemanticTypes`, and the other generated or invented for it; the rest is the
tables, read entry by entry. `NamesAgree` proves `ConventionsAgree` for names of
any number of words: in each style every word begins where `normalize` sees
a boundary, and nothing else does. `RulesAreLayered` proves the action property
`RulesLayer` for rules files of any length: the first rule of the strongest kind that
matches decides, and a new rule stands behind all others of its kind. Both take the
patterns of rules as a user writes them, in any style, and `RuleOf` normalises them
as the code does when it reads the file.

`MysqlSessionProofs` proves `TypeCorrect` and, under the assumption
`HasColumns` that every SELECT has a column, `ClientFollows`, `NeverStuck` and
`AnswersAreWhole`: `NeverLost`, `NoMutualWait` and `ResultSetsWhole` for every
modulus of the sequence id, every length of an answer and every ghost. The
inductive invariant, `Agree`, says for each place of the server what the client
waits for, that both count the same sequence id, and that rows read and rows
to go add up to a whole answer. Without `HasColumns` the theorems are false, as
`mysql_bare` shows.

Only model-checked: the liveness properties (`AttentiveServed`, `GoneFreesSlot`,
`AllOrNothing`, `EveryRequestServed`, `EveryCommandAnswered`, `EverythingRead`), since
fairness and ENABLED are outside the prover's reach; and `ClausesAreRead`, which
compares clauses with the meaning that a configuration writes beside them: it is
false of a configuration that writes a wrong one.

## What the models leave out of the code they cover

Things met while reading, of which no property speaks, because the sources
promise nothing about them or because they are beyond the abstraction:

- Reading SQL is best effort, and the texts of `query_text` stay within it. A
  keyword after a dot or as an unquoted alias (`o.order`, `AS limit`) acts as a
  keyword. Comments and dollar quotes are not skipped. `LIMIT ALL` and `LIMIT NULL`
  count as no limit, and `LIMIT $2` as a limit of 2, since the scanner skips the `$`
  and keeps the number of the parameter. `select distinct on (...)` makes a column of what follows. The
  WHERE of any arm of a UNION counts. A quoted `"pg_catalog"."pg_class"` is
  no catalog. A subquery in FROM gives no table. `$n` inside a string counts as a
  parameter. `nearby_column` says "otherwise right" and looks left only. Numerals
  of the texts have one digit.
- Names: words of one letter and names with digits in front are left out, and an
  acronym followed by a word (`URLPath`) merges with it. A token rule whose
  pattern has an underscore never fires, and an exact rule is compared with the
  name and with its squashed form, but its own pattern is not squashed.
- Literals reach the fallbacks of the binary encoders (`SELECT 3000000000` is
  announced as int4, `'abc'::int`), which the comment above `text_to_binary` keeps
  for ghosts. Ghost dates such as 0000-00-00 parse to tame dates, and one is
  beyond the integers of TLC and is a value of its own ("far").
- The `.await.ok()` at the end of `main` does not surface a panic of an accept loop,
  as its comment says; an accept loop has no panic to surface.
- `hi - lo + 1` of the latency band overflows for 0 to u64::MAX; counts of columns
  are cut to i16; a MySQL packet of 2^24 bytes has a truncated length. Each needs
  sizes no model has.

## Not modelled, and the plan

In this order:

1. Composition of PgSession with CrushServer's slots.
2. `SqlText` with comments and dollar quotes, as the code treats them, and
   numerals of several digits.
3. The cursor `Reader` of `pg.rs` over short and malformed messages.

Left out for good: random text and the text of notices, themes (word lists), option
parsing and logging (I/O with no state), TLS (declined).
