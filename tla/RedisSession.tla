---------------------------- MODULE RedisSession ----------------------------
(***************************************************************************)
(* One Redis connection (src/src/proto/resp.rs): read_command, line by     *)
(* line, with its early returns; the replies of dispatch, frame by frame;  *)
(* the KEYS * stream.  RESP has no message boundaries: an array is as long *)
(* as its header says, and a pipelining client matches replies to commands *)
(* by counting them, so one frame too many or too few spoils every later   *)
(* reply.                                                                  *)
(*                                                                         *)
(* Writes always succeed here, and a crush slot is free or not; both are   *)
(* the subject of CrushServer.                                             *)
(***************************************************************************)
EXTENDS CrushPolicy, Sequences

CONSTANTS
    Commands,       \* what a client may send: see CommandForms
    MaxCommands,    \* bound on the commands of a session
    Armed,          \* crush.enabled and not crush.warn_only
    MaxRows, Chunk,
    Ghosts          \* which of "latency", "error" and "drop" have a probability > 0

\* A command as its client means it.  "array": an array of bulk strings.
\* "inline": a plain line.  "short": an array whose header promises one more
\* string than there is; the next thing sent stands in its place.  "cut": the
\* same with a line of its own there.  "none": an array of no strings.
\* "blank": an empty line.
CommandForms == {"array", "inline", "short", "cut", "none", "blank"}

ASSUME CommandsAssumption ==
    /\ \A c \in Commands :
           /\ c.form \in CommandForms /\ c.words \in Seq(STRING)
           /\ c.form \in {"none", "blank"} => c.words = <<>>
    /\ MaxRows \in Nat
    /\ Chunk \in Nat \ {0}

VARIABLES
    input,          \* lines sent and not yet read
    pc,             \* where the task is suspended
    args,           \* the arguments of the command being read or answered
    missing,        \* strings still to be read
    sent,           \* keys streamed so far
    wire,           \* every frame written
    asked           \* every command sent by the client

vars == <<input, pc, args, missing, sent, wire, asked>>

Init ==
    /\ input = <<>> /\ pc = "ready" /\ args = <<>> /\ missing = 0
    /\ sent = 0 /\ wire = <<>> /\ asked = <<>>
----------------------------------------------------------------------------
(* Lines and frames.                                                       *)

Line(tag, n, words) == [tag |-> tag, n |-> n, words |-> words]

\* A bulk string is its length line and the line of its word, one element of
\* input as long as they are read together.
Bulks(words) == [i \in DOMAIN words |-> Line("$", 0, <<words[i]>>)]

\* The line of a word on its own.  A word is a name that stands for itself:
\* it has no space, and "*" is the only one that begins with a star, with no
\* number behind it.
Bare(word) ==
    CASE word = "" -> Line("blank", 0, <<>>)
      [] word = "*" -> Line("*", 0, <<>>)
      [] OTHER -> Line("text", 0, <<word>>)

\* The lines of a command.
Encoded(c) ==
    CASE c.form = "array" -> <<Line("*", Len(c.words), <<>>)>> \o Bulks(c.words)
      [] c.form = "short" -> <<Line("*", Len(c.words) + 1, <<>>)>> \o Bulks(c.words)
      [] c.form = "cut" -> <<Line("*", Len(c.words) + 1, <<>>)>> \o Bulks(c.words)
                           \o <<Line("text", 0, <<"?">>)>>
      [] c.form = "none" -> <<Line("*", 0, <<>>)>>
      [] c.form = "inline" -> <<Line("text", 0, c.words)>>
      [] c.form = "blank" -> <<Line("blank", 0, <<>>)>>

\* A frame is an array header or a value that is not an array.
Header(n) == [tag |-> "*", n |-> n]
Value == [tag |-> "value", n |-> 0]
Number(n) == [tag |-> ":", n |-> n]
Ok == [tag |-> "+", n |-> 0]
Error == [tag |-> "-", n |-> 0]

Values(n) == [i \in 1..n |-> Value]
Array(n) == <<Header(n)>> \o Values(n)
----------------------------------------------------------------------------
(* The client, and read_command.                                           *)

Send(c) ==
    /\ Len(asked) < MaxCommands
    /\ asked' = Append(asked, c)
    /\ input' = input \o Encoded(c)
    /\ UNCHANGED <<pc, args, missing, sent, wire>>

\* Mutant: ghosts haunt QUIT, too.
MutGiven(words) ==
    /\ args' = words
    /\ pc' = IF words = <<>> THEN "ready"
             ELSE IF Ghosts # {} THEN "haunt" ELSE "act"

\* What handle does with the words it is given: no word, no command.
Given(words) ==
    /\ args' = words
    /\ pc' = IF words = <<>> THEN "ready"
             ELSE IF Ghosts # {} /\ words[1] # "QUIT" THEN "haunt" ELSE "act"

\* A string of the array; the last one completes the command.  One of negative
\* length has no line of its own and is an empty word: nothing that this, or
\* the next action, can tell from an empty line.
ReadString ==
    /\ pc = "args" /\ input # <<>> /\ Head(input).tag = "$"
    /\ input' = Tail(input) /\ missing' = missing - 1
    /\ IF missing = 1 THEN Given(args \o Head(input).words)
       ELSE args' = args \o Head(input).words /\ UNCHANGED pc
    /\ UNCHANGED <<sent, wire, asked>>

\* Any other line, the header of the next command too, is dropped and ends the
\* array: what was read of it is answered.
ReadMalformed ==
    /\ pc = "args" /\ input # <<>> /\ Head(input).tag # "$"
    /\ input' = Tail(input) /\ missing' = 0
    /\ Given(args)
    /\ UNCHANGED <<sent, wire, asked>>

ReadHeader ==
    /\ pc = "ready" /\ input # <<>> /\ Head(input).tag = "*"
    /\ input' = Tail(input)
    /\ IF Head(input).n = 0 THEN Given(<<>>) /\ missing' = 0
       ELSE args' = <<>> /\ missing' = Head(input).n /\ pc' = "args"
    /\ UNCHANGED <<sent, wire, asked>>

\* Any line that is neither empty nor a header is a command.  The length line
\* of a string that no array claims is one, of a name that begins with a "$",
\* and leaves the line of the string's word for the next read.
ReadInline ==
    /\ pc = "ready" /\ input # <<>> /\ Head(input).tag \notin {"*", "blank"}
    /\ LET line == Head(input)
       IN  IF line.tag = "$"
           THEN Given(<<"$">>) /\ input' = <<Bare(line.words[1])>> \o Tail(input)
           ELSE Given(line.words) /\ input' = Tail(input)
    /\ UNCHANGED <<missing, sent, wire, asked>>

SkipBlank ==
    /\ pc = "ready" /\ input # <<>> /\ Head(input).tag = "blank"
    /\ input' = Tail(input)
    /\ UNCHANGED <<pc, args, missing, sent, wire, asked>>

\* The client closes, also in the middle of an array.
HangUp ==
    /\ pc \in {"ready", "args"} /\ input = <<>>
    /\ pc' = "closed" /\ args' = <<>>
    /\ UNCHANGED <<input, missing, sent, wire, asked>>
----------------------------------------------------------------------------
(* Ghosts.                                                                 *)

GhostPass ==
    /\ pc = "haunt"
    /\ pc' = "act"
    /\ UNCHANGED <<input, args, missing, sent, wire, asked>>

GhostDrop ==
    /\ pc = "haunt" /\ "drop" \in Ghosts
    /\ pc' = "closed"
    /\ UNCHANGED <<input, args, missing, sent, wire, asked>>

GhostError ==
    /\ pc = "haunt" /\ "error" \in Ghosts
    /\ wire' = Append(wire, Error)
    /\ pc' = "ready"
    /\ UNCHANGED <<input, args, missing, sent, asked>>
----------------------------------------------------------------------------
(* Replies.                                                                *)

Keys(words) == Len(words) - 1

\* Mutant: a hash is announced by its fields, without their values.
MutDispatch(words) ==
    CASE words[1] = "MGET" -> {Array(Keys(words))}
      [] words[1] = "EXISTS" -> {<<Number(Keys(words))>>}
      [] words[1] = "HGETALL" -> {<<Header(n)>> \o Values(2 * n) : n \in 2..5}
      [] words[1] = "HKEYS" -> {Array(n) : n \in 2..5}
      [] words[1] = "KEYS" -> {Array(n) : n \in Band}
      [] words[1] = "SCAN" -> {<<Header(2), Value>> \o Array(n) : n \in Band}
      [] words[1] = "SMEMBERS" -> {Array(n) : n \in 0..RowsMax}
      [] words[1] = "CONFIG" -> {Array(2)}
      [] words[1] = "COMMAND" -> {Array(0)}
      [] words[1] = "QUIT" -> {<<Ok>>}
      [] words[1] = "PING" -> {<<Value>>}
      [] OTHER -> {<<Error>>}

\* dispatch: "PING" stands for every command answered by one simple value,
\* "MGET" and "EXISTS" for those that look at all their keys, "SMEMBERS" for
\* "LRANGE" too; "HELLO" and every unknown name are refused with an error.
Dispatch(words) ==
    CASE words[1] = "MGET" -> {Array(Keys(words))}
      [] words[1] = "EXISTS" -> {<<Number(Keys(words))>>}
      [] words[1] = "HGETALL" -> {Array(2 * n) : n \in 2..5}
      [] words[1] = "HKEYS" -> {Array(n) : n \in 2..5}
      [] words[1] = "KEYS" -> {Array(n) : n \in Band}
      [] words[1] = "SCAN" -> {<<Header(2), Value>> \o Array(n) : n \in Band}
      [] words[1] = "SMEMBERS" -> {Array(n) : n \in 0..RowsMax}
      [] words[1] = "CONFIG" -> {Array(2)}
      [] words[1] = "COMMAND" -> {Array(0)}
      [] words[1] = "QUIT" -> {<<Ok>>}
      [] words[1] = "PING" -> {<<Value>>}
      [] OTHER -> {<<Error>>}

\* KEYS * without a free slot is answered like any other command.
Answer ==
    /\ pc = "act"
    /\ \E reply \in Dispatch(args) : wire' = wire \o reply
    /\ pc' = IF args[1] = "QUIT" THEN "closed" ELSE "ready"
    /\ UNCHANGED <<input, args, missing, sent, asked>>

MustCrush == Armed /\ args[1] = "KEYS" /\ Len(args) > 1 /\ args[2] = "*"

\* crush_keys announces all of its keys before it has sent one.
StartCrush ==
    /\ pc = "act" /\ MustCrush
    /\ wire' = Append(wire, Header(MaxRows))
    /\ sent' = 0 /\ pc' = "stream"
    /\ UNCHANGED <<input, args, missing, asked>>

StreamChunk ==
    /\ pc = "stream" /\ sent < MaxRows
    /\ LET this == Least(Chunk, MaxRows - sent)
       IN  wire' = wire \o Values(this) /\ sent' = sent + this
    /\ UNCHANGED <<input, pc, args, missing, asked>>

\* Mutant: a chunk that is not whole is not awaited.
MutStreamDone ==
    /\ pc = "stream" /\ MaxRows - sent < Chunk
    /\ pc' = "ready"
    /\ UNCHANGED <<input, args, missing, sent, wire, asked>>

\* Mutant: the loop goes on while sent <= max, with chunks of no keys.
MutEndless ==
    /\ pc = "stream" /\ sent > MaxRows
    /\ pc' = "ready"
    /\ UNCHANGED <<input, args, missing, sent, wire, asked>>

StreamDone ==
    /\ pc = "stream" /\ sent >= MaxRows
    /\ pc' = "ready"
    /\ UNCHANGED <<input, args, missing, sent, wire, asked>>
----------------------------------------------------------------------------
Serve ==
    \/ ReadHeader \/ ReadString \/ ReadMalformed \/ ReadInline \/ SkipBlank
    \/ GhostPass \/ GhostDrop \/ GhostError
    \/ Answer \/ StartCrush \/ StreamChunk \/ StreamDone

Next == (\E c \in Commands : Send(c)) \/ HangUp \/ Serve

Spec == Init /\ [][Next]_vars

FairSpec == Spec /\ WF_vars(Serve)
=============================================================================
