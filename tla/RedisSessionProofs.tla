------------------------ MODULE RedisSessionProofs ------------------------
(***************************************************************************)
(* Whatever is pipelined, each command is answered in its place: for every *)
(* pipeline, every combination of ghosts, every length of a crush and      *)
(* wherever arrays break off.  First QUIT, then all the replies, as the    *)
(* reader in RedisReplies cuts them from the stream.                       *)
(***************************************************************************)
EXTENDS RedisReplies, Induction, FiniteSetTheorems, SequenceTheorems

\* The words of the commands, what a client sends in place of a string, and
\* the name that a length line has as a command.
WordsOf(c) == {c.words[i] : i \in 1 .. Len(c.words)}
Word == {"?", "$"} \cup (UNION {WordsOf(c) : c \in Commands})

LineTypes == [tag : {"*", "$", "text", "blank"}, n : Int, words : Seq(Word)]
Lines == {line \in LineTypes : line.tag = "$" => line.words # <<>>}

Frames == [tag : {"*", "value", ":", "+", "-"}, n : Int]

\* Lines carry words, and a command that is acted on has one.
WellFormed ==
    /\ input \in Seq(Lines)
    /\ args \in Seq(Word)
    /\ wire \in Seq(Frames)
    /\ sent \in Nat
    /\ pc \in {"ready", "args", "haunt", "act", "stream", "closed"}
    /\ pc \in {"haunt", "act", "stream"} => args # <<>>

\* A QUIT is never haunted; a session that has served one has said OK last.
QuitServed ==
    args # <<>> /\ args[1] = "QUIT" =>
        /\ pc # "haunt"
        /\ pc = "closed" => wire # <<>> /\ wire[Len(wire)] = Ok

QuitInv == WellFormed /\ QuitServed
----------------------------------------------------------------------------
(* Lines and frames.                                                       *)

\* A string is a line.
LEMMA StringIsLine ==
    ASSUME NEW w \in Word
    PROVE  Line("$", 0, <<w>>) \in Lines
<1>1. <<w>> \in Seq(Word) /\ <<w>> # <<>>
    OBVIOUS
<1>2. \A words \in Seq(Word) : words # <<>> => Line("$", 0, words) \in Lines
    BY DEF Line, Lines, LineTypes
<1> QED
    BY <1>1, <1>2, Zenon

\* What a client sends for a command is lines.
LEMMA EncodedIsLines ==
    ASSUME NEW c \in Commands
    PROVE  Encoded(c) \in Seq(Lines)
<1>1. c.words \in Seq(Word) /\ c.form \in CommandForms
    <2>1. c.words \in Seq(STRING) /\ c.form \in CommandForms
        BY CommandsAssumption
    <2>2. WordsOf(c) \subseteq Word
        BY DEF Word
    <2>3. \A i \in 1 .. Len(c.words) : c.words[i] \in Word
        BY <2>2 DEF WordsOf
    <2> QED
        BY <2>1, <2>3
<1>2. Bulks(c.words) \in Seq(Lines)
    <2>2. \A i \in 1 .. Len(c.words) : Line("$", 0, <<c.words[i]>>) \in Lines
        BY <1>1, StringIsLine
    <2> DEFINE bulk(i) == Line("$", 0, <<c.words[i]>>)
    <2> HIDE DEF bulk
    <2>3. [i \in 1 .. Len(c.words) |-> bulk(i)] \in Seq(Lines)
        BY <1>1, <2>2 DEF bulk
    <2>4. Bulks(c.words) = [i \in 1 .. Len(c.words) |-> bulk(i)]
        BY <1>1 DEF Bulks, bulk
    <2> QED
        BY <2>3, <2>4
<1>3. /\ Line("*", Len(c.words), <<>>) \in Lines
      /\ Line("*", Len(c.words) + 1, <<>>) \in Lines
      /\ Line("text", 0, <<"?">>) \in Lines
      /\ Line("*", 0, <<>>) \in Lines
      /\ Line("text", 0, c.words) \in Lines
      /\ Line("blank", 0, <<>>) \in Lines
    <2>1. "?" \in Word
        BY DEF Word
    <2>2. /\ <<>> \in Seq(Word) /\ <<"?">> \in Seq(Word)
          /\ 0 \in Int /\ Len(c.words) \in Int /\ Len(c.words) + 1 \in Int
        BY <1>1, <2>1
    <2>3. \A n \in Int, words \in Seq(Word) :
              /\ Line("*", n, words) \in Lines
              /\ Line("text", n, words) \in Lines
              /\ Line("blank", n, words) \in Lines
        BY DEF Line, Lines, LineTypes
    <2> HIDE DEF Line, Lines
    <2>4. /\ Line("*", Len(c.words), <<>>) \in Lines
          /\ Line("*", Len(c.words) + 1, <<>>) \in Lines
        BY <2>2, <2>3
    <2>5. Line("*", 0, <<>>) \in Lines /\ Line("blank", 0, <<>>) \in Lines
        BY <2>2, <2>3
    <2>6. Line("text", 0, <<"?">>) \in Lines /\ Line("text", 0, c.words) \in Lines
        BY <1>1, <2>2, <2>3
    <2> QED
        BY <2>4, <2>5, <2>6, Zenon
<1> QED
    BY <1>1, <1>2, <1>3 DEF Encoded, CommandForms

\* The line of a word on its own is a line.
LEMMA BareIsLine ==
    ASSUME NEW line \in Lines, line.tag = "$"
    PROVE  Bare(line.words[1]) \in Lines
<1>1. line.words[1] \in Word
    BY DEF Lines, LineTypes
<1>2. PICK w \in Word : w = line.words[1]
    BY <1>1
<1>3. <<w>> \in Seq(Word) /\ <<>> \in Seq(Word)
    OBVIOUS
<1>4. Line("text", 0, <<w>>) \in Lines /\ Line("blank", 0, <<>>) \in Lines
      /\ Line("*", 0, <<>>) \in Lines
    BY <1>3 DEF Line, Lines, LineTypes
<1> QED
    BY <1>2, <1>4 DEF Bare

\* Values and arrays are frames.
LEMMA ValuesAreFrames ==
    ASSUME NEW n \in Nat
    PROVE  Values(n) \in Seq(Frames) /\ Array(n) \in Seq(Frames)
<1>1. Value \in Frames /\ Header(n) \in Frames
    BY DEF Value, Header, Frames
<1>2. Values(n) \in Seq(Frames)
    BY <1>1 DEF Values
<1> QED
    BY <1>1, <1>2 DEF Array

\* What is written last is the last on the wire.
LEMMA LastOfExtended ==
    ASSUME NEW S, NEW s \in Seq(S), NEW x \in S
    PROVE  (s \o <<x>>)[Len(s \o <<x>>)] = x /\ s \o <<x>> # <<>>
OBVIOUS

\* What dispatch writes is frames, and OK alone for a QUIT.
LEMMA RepliesAreFrames ==
    ASSUME NEW words \in Seq(Word), words # <<>>, NEW reply \in Dispatch(words)
    PROVE  reply \in Seq(Frames) /\ (words[1] = "QUIT" => reply = <<Ok>>)
<1>1. Keys(words) \in Nat
    BY DEF Keys
<1>2. /\ Ok \in Frames /\ Error \in Frames /\ Value \in Frames /\ Header(2) \in Frames
      /\ Number(Keys(words)) \in Frames
    BY <1>1 DEF Ok, Error, Value, Header, Number, Frames
<1>3. Band \subseteq Nat /\ RowsMax \in Nat
    BY BandAssumption DEF Band
<1>4. \A n \in Nat : Array(n) \in Seq(Frames)
    BY ValuesAreFrames
<1> HIDE DEF Ok, Error, Value, Header, Number, Frames, Array, Keys
<1>5. \A n \in Band : <<Header(2), Value>> \o Array(n) \in Seq(Frames)
    BY <1>2, <1>3, <1>4
<1>6. /\ \A r \in {Array(n) : n \in 0 .. RowsMax} : r \in Seq(Frames)
      /\ \A r \in {Array(2 * n) : n \in 2 .. 5} : r \in Seq(Frames)
      /\ \A r \in {Array(n) : n \in 2 .. 5} : r \in Seq(Frames)
      /\ \A r \in {Array(n) : n \in Band} : r \in Seq(Frames)
      /\ \A r \in {<<Header(2), Value>> \o Array(n) : n \in Band} : r \in Seq(Frames)
    <2>1. \A n \in 2 .. 5 : n \in Nat /\ 2 * n \in Nat
        OBVIOUS
    <2>2. \A n \in 0 .. RowsMax : n \in Nat
        OBVIOUS
    <2> QED
        BY <1>3, <1>4, <1>5, <2>1, <2>2
<1>7. Array(2) \in Seq(Frames) /\ Array(0) \in Seq(Frames) /\ Array(Keys(words)) \in Seq(Frames)
    BY <1>1, <1>4
<1>8. words[1] = "QUIT" => reply = <<Ok>>
    BY DEF Dispatch
<1>9. CASE words[1] \in {"HGETALL", "HKEYS", "KEYS", "SCAN", "SMEMBERS"}
    BY <1>6, <1>9 DEF Dispatch
<1>10. CASE words[1] \in {"MGET", "EXISTS", "CONFIG", "COMMAND"}
    <2>1. reply \in {Array(2), Array(0), Array(Keys(words)), <<Number(Keys(words))>>}
        BY <1>10 DEF Dispatch
    <2>2. <<Number(Keys(words))>> \in Seq(Frames)
        BY <1>2
    <2> QED
        BY <1>7, <1>8, <2>1, <2>2
<1>11. CASE words[1] \notin {"HGETALL", "HKEYS", "KEYS", "SCAN", "SMEMBERS",
                             "MGET", "EXISTS", "CONFIG", "COMMAND"}
    <2>1. reply \in {<<Ok>>, <<Error>>, <<Value>>}
        BY <1>11 DEF Dispatch
    <2>2. <<Ok>> \in Seq(Frames) /\ <<Error>> \in Seq(Frames) /\ <<Value>> \in Seq(Frames)
        BY <1>2
    <2> QED
        BY <1>8, <2>1, <2>2
<1> QED
    BY <1>8, <1>9, <1>10, <1>11
----------------------------------------------------------------------------
(* Every step keeps the invariant.                                         *)

\* Words that are acted on are words; a QUIT among them is not haunted.
LEMMA GivenKeeps ==
    ASSUME NEW words \in Seq(Word), Given(words)
    PROVE  /\ args' = words
           /\ pc' \in {"ready", "haunt", "act"}
           /\ pc' # "ready" => words # <<>>
           /\ words # <<>> /\ words[1] = "QUIT" => pc' # "haunt"
BY DEF Given

\* Reading settles what becomes of a QUIT.
LEMMA ReadStep ==
    ASSUME QuitInv, ReadHeader \/ ReadString \/ ReadMalformed \/ ReadInline \/ SkipBlank
    PROVE  QuitInv'
<1> USE DEF QuitInv, WellFormed, QuitServed
<1>0. /\ input # <<>>
      /\ input' \in Seq(Lines)
      /\ wire' = wire /\ sent' = sent
    <2>1. /\ input # <<>> /\ wire' = wire /\ sent' = sent
          /\ \/ input' = Tail(input)
             \/ input' = <<Bare(Head(input).words[1])>> \o Tail(input) /\ Head(input).tag = "$"
        BY DEF ReadHeader, ReadString, ReadMalformed, ReadInline, SkipBlank
    <2>2. Tail(input) \in Seq(Lines) /\ Head(input) \in Lines
        BY <2>1
    <2>3. CASE Head(input).tag = "$"
        <3>1. PICK bare \in Lines : bare = Bare(Head(input).words[1])
            BY <2>2, <2>3, BareIsLine
        <3>2. <<bare>> \o Tail(input) \in Seq(Lines)
            BY <2>2
        <3> QED
            BY <2>1, <2>2, <3>1, <3>2
    <2> QED
        BY <2>1, <2>2, <2>3
<1>1. Head(input).words \in Seq(Word)
    <2>1. Head(input) \in Lines
        BY <1>0
    <2> QED
        BY <2>1 DEF Lines, LineTypes
<1>2. CASE ReadHeader
    <2>0. <<>> \in Seq(Word)
        OBVIOUS
    <2>1. CASE Given(<<>>)
        BY <1>0, <2>0, <2>1, GivenKeeps
    <2>2. CASE args' = <<>> /\ pc' = "args"
        BY <1>0, <2>2
    <2> QED
        BY <1>2, <2>1, <2>2 DEF ReadHeader
<1>3. CASE ReadString
    <2>1. args \o Head(input).words \in Seq(Word)
        BY <1>1
    <2>2. CASE Given(args \o Head(input).words)
        BY <1>0, <2>1, <2>2, GivenKeeps
    <2>3. CASE args' = args \o Head(input).words /\ pc' = pc
        BY <1>0, <1>3, <2>1, <2>3 DEF ReadString
    <2> QED
        BY <1>3, <2>2, <2>3 DEF ReadString
<1>4. CASE ReadMalformed
    BY <1>0, <1>4, GivenKeeps DEF ReadMalformed
<1>5. CASE ReadInline
    <2>1. <<"$">> \in Seq(Word)
        BY DEF Word
    <2> QED
        BY <1>0, <1>1, <1>5, <2>1, GivenKeeps DEF ReadInline
<1>6. CASE SkipBlank
    BY <1>0, <1>6 DEF SkipBlank
<1> QED
    BY <1>2, <1>3, <1>4, <1>5, <1>6

\* A ghost never meets one,
LEMMA GhostStep ==
    ASSUME QuitInv, GhostPass \/ GhostDrop \/ GhostError
    PROVE  QuitInv'
<1> USE DEF QuitInv, WellFormed, QuitServed
<1>1. CASE GhostPass
    BY <1>1 DEF GhostPass
<1>2. CASE GhostDrop
    BY <1>2 DEF GhostDrop
<1>3. CASE GhostError
    <2>1. Error \in Frames
        BY DEF Error, Frames
    <2> QED
        BY <1>3, <2>1 DEF GhostError
<1> QED
    BY <1>1, <1>2, <1>3

\* answering it ends the session on its OK,
LEMMA AnswerStep ==
    ASSUME QuitInv, Answer
    PROVE  QuitInv'
<1> USE DEF QuitInv, WellFormed, QuitServed
<1>1. PICK reply \in Dispatch(args) : wire' = wire \o reply
    BY DEF Answer
<1>2. reply \in Seq(Frames) /\ (args[1] = "QUIT" => reply = <<Ok>>)
    BY <1>1, RepliesAreFrames DEF Answer
<1>3. wire' \in Seq(Frames)
    BY <1>1, <1>2
<1>4. args[1] = "QUIT" => wire' # <<>> /\ wire'[Len(wire')] = Ok
    <2>1. Ok \in Frames
        BY DEF Ok, Frames
    <2> HIDE DEF Ok, Frames
    <2>2. (wire \o <<Ok>>)[Len(wire \o <<Ok>>)] = Ok /\ wire \o <<Ok>> # <<>>
        BY <2>1, LastOfExtended
    <2> QED
        BY <1>1, <1>2, <2>2
<1> QED
    BY <1>3, <1>4 DEF Answer

\* a crush is for KEYS,
LEMMA CrushStep ==
    ASSUME QuitInv, StartCrush \/ StreamChunk \/ StreamDone
    PROVE  QuitInv'
<1> USE DEF QuitInv, WellFormed, QuitServed
<1>1. CASE StartCrush
    <2>1. Header(MaxRows) \in Frames
        BY CommandsAssumption DEF Header, Frames
    <2> QED
        BY <1>1, <2>1 DEF StartCrush
<1>2. CASE StreamChunk
    <2> DEFINE this == Least(Chunk, MaxRows - sent)
    <2>1. this \in Nat
        BY <1>2, CommandsAssumption DEF StreamChunk, Least
    <2>2. wire' = wire \o Values(this) /\ sent' = sent + this
        BY <1>2 DEF StreamChunk
    <2>3. Values(this) \in Seq(Frames)
        BY <2>1, ValuesAreFrames
    <2>4. wire' \in Seq(Frames) /\ sent' \in Nat
        BY <2>1, <2>2, <2>3
    <2> QED
        BY <1>2, <2>4 DEF StreamChunk
<1>3. CASE StreamDone
    BY <1>3 DEF StreamDone
<1> QED
    BY <1>1, <1>2, <1>3

\* and what the client does decides nothing.
LEMMA ClientStep ==
    ASSUME QuitInv, HangUp \/ \E c \in Commands : Send(c)
    PROVE  QuitInv'
<1> USE DEF QuitInv, WellFormed, QuitServed
<1>1. CASE HangUp
    BY <1>1 DEF HangUp
<1>2. ASSUME NEW c \in Commands, Send(c)
      PROVE  QuitInv'
    <2>1. input' \in Seq(Lines)
        BY <1>2, EncodedIsLines DEF Send
    <2> QED
        BY <1>2, <2>1 DEF Send
<1> QED
    BY <1>1, <1>2

\* The invariant of the session: whatever is read, acted on or streamed, what
\* happens to a QUIT is decided when it is read.
THEOREM QuitInductive == Spec => []QuitInv
<1>1. Init => QuitInv
    BY DEF Init, QuitInv, WellFormed, QuitServed
<1>2. QuitInv /\ [Next]_vars => QuitInv'
    <2>1. ASSUME QuitInv, UNCHANGED vars
          PROVE  QuitInv'
        BY <2>1 DEF vars, QuitInv, WellFormed, QuitServed
    <2> QED
        BY <2>1, ReadStep, GhostStep, AnswerStep, CrushStep, ClientStep DEF Next, Serve
<1> QED
    BY <1>1, <1>2, PTL DEF Spec

\* "QUIT still gets through cleanly" (handle in resp.rs), for every pipeline,
\* every ghost and every crush: it is never haunted, and the connection closes
\* on it only after its OK.
THEOREM QuitGetsThrough == Spec => []QuitIsClean
<1>1. QuitInv => QuitIsClean
    BY DEF QuitInv, WellFormed, QuitServed, QuitIsClean, Last
<1> QED
    BY <1>1, QuitInductive, PTL
----------------------------------------------------------------------------
(* Cutting a stream into replies.                                          *)

Cuts == [done : Seq(Seq(Frames)), current : Seq(Frames), owed : Int]

CutStep == [x \in Cuts \X Frames |-> CutFrame(x[1], x[2])]

\* The reader stays a reader with one frame more.
LEMMA CutFrameIsCut ==
    ASSUME NEW cut \in Cuts, NEW frame \in Frames
    PROVE  CutFrame(cut, frame) \in Cuts
<1>1. /\ cut.done \in Seq(Seq(Frames)) /\ cut.current \in Seq(Frames)
      /\ cut.owed \in Int /\ frame.n \in Int
    BY DEF Cuts, Frames
<1>2. Append(cut.current, frame) \in Seq(Frames)
    BY <1>1
<1>3. Append(cut.done, Append(cut.current, frame)) \in Seq(Seq(Frames))
    BY <1>1, <1>2
<1>4. <<>> \in Seq(Frames)
    OBVIOUS
<1> HIDE DEF Frames
<1> QED
    BY <1>1, <1>2, <1>3, <1>4 DEF Cuts, CutFrame

\* Reading frames is a recursion on their number.
LEMMA CutFoldable ==
    ASSUME NEW frames \in Seq(Frames)
    PROVE  Foldable(frames, Cut0, CutStep, Cuts, Frames)
<1>1. Cut0 \in Cuts
    BY DEF Cut0, Cuts
<1>2. \A x \in Cuts \X Frames : CutFrame(x[1], x[2]) \in Cuts
    BY CutFrameIsCut
<1> QED
    BY <1>1, <1>2 DEF Foldable, CutStep

\* What the reader makes of frames, as the recursion says.
LEMMA CutIsFold ==
    ASSUME NEW frames \in Seq(Frames)
    PROVE  CutOf(frames) = Fold(frames, Cut0, CutStep) /\ CutOf(frames) \in Cuts
<1>0. Foldable(frames, Cut0, CutStep, Cuts, Frames)
    BY CutFoldable
<1>1. PICK f : Follows(f, frames, Cut0, CutStep, Cuts)
    BY <1>0, FoldExists, Zenon
<1>2. Len(frames) \in Nat /\ \A k \in 1 .. Len(frames) : frames[k] \in Frames
    OBVIOUS
<1>3. \A cut \in Cuts, frame \in Frames : CutStep[<<cut, frame>>] = CutFrame(cut, frame)
    BY DEF CutStep
<1> DEFINE body(h) == [n \in 0 .. Len(frames) |->
                          IF n = 0 THEN Cut0 ELSE CutFrame(h[n - 1], frames[n])]
           upTo == CHOOSE h : h = body(h)
<1> HIDE DEF Cuts, Frames, CutStep, CutFrame, Cut0
<1>4. f = body(f)
    <2>1. \A n \in 0 .. Len(frames) : f[n] = IF n = 0 THEN Cut0 ELSE CutFrame(f[n - 1], frames[n])
        BY <1>1, <1>2, <1>3 DEF Follows
    <2>2. f = [n \in 0 .. Len(frames) |-> f[n]]
        BY <1>1 DEF Follows
    <2>3. body(f) = [n \in 0 .. Len(frames) |-> f[n]]
        BY <2>1
    <2> QED
        BY <2>2, <2>3
<1>5. CutOf(frames) = upTo[Len(frames)]
    BY DEF CutOf
<1> HIDE DEF body
<1>6. upTo = body(upTo)
    BY <1>4
<1> HIDE DEF upTo
<1>7. \A n \in 0 .. Len(frames) : upTo[n] = IF n = 0 THEN Cut0 ELSE CutFrame(upTo[n - 1], frames[n])
    <2>1. \A n \in 0 .. Len(frames) : body(upTo)[n] =
              IF n = 0 THEN Cut0 ELSE CutFrame(upTo[n - 1], frames[n])
        BY DEF body
    <2> QED
        BY <1>6, <2>1, Zenon
<1>8. Heeds(upTo, frames, Cut0, CutStep, Cuts)
    BY <1>2, <1>3, <1>7 DEF Heeds
<1>9. Reads(upTo, frames, Cut0, CutStep, Cuts, Frames)
    BY <1>0, <1>8, Zenon DEF Reads
<1>10. upTo[Len(frames)] = Fold(frames, Cut0, CutStep) /\ Fold(frames, Cut0, CutStep) \in Cuts
    BY <1>9, FoldIs, Zenon
<1> QED
    BY <1>5, <1>10

\* Before the first frame nothing is read.
LEMMA CutEmpty == CutOf(<<>>) = Cut0
<1>1. <<>> \in Seq(Frames)
    OBVIOUS
<1>2. Foldable(<<>>, Cut0, CutStep, Cuts, Frames)
    BY <1>1, CutFoldable
<1>3. CutOf(<<>>) = Fold(<<>>, Cut0, CutStep)
    BY <1>1, CutIsFold
<1> QED
    BY <1>2, <1>3, FoldEmpty, Zenon

\* One frame more is one step of the reader.
LEMMA CutAppend ==
    ASSUME NEW frames \in Seq(Frames), NEW frame \in Frames
    PROVE  CutOf(Append(frames, frame)) = CutFrame(CutOf(frames), frame)
<1>1. Foldable(frames, Cut0, CutStep, Cuts, Frames)
    BY CutFoldable
<1>2. /\ CutOf(frames) = Fold(frames, Cut0, CutStep) /\ CutOf(frames) \in Cuts
      /\ CutOf(Append(frames, frame)) = Fold(Append(frames, frame), Cut0, CutStep)
    <2>1. Append(frames, frame) \in Seq(Frames)
        OBVIOUS
    <2> QED
        BY <2>1, CutIsFold
<1>3. \A e \in Frames :
          /\ Fold(frames, Cut0, CutStep) \in Cuts
          /\ Fold(Append(frames, e), Cut0, CutStep) = CutStep[<<Fold(frames, Cut0, CutStep), e>>]
    <2>1. Grows(frames, Cut0, CutStep, Cuts, Frames)
        BY <1>1, FoldAppend, Zenon
    <2> QED
        BY <2>1, Zenon DEF Grows
<1>4. CutStep[<<CutOf(frames), frame>>] = CutFrame(CutOf(frames), frame)
    BY <1>2 DEF CutStep
<1> QED
    BY <1>2, <1>3, <1>4
----------------------------------------------------------------------------
\* One value more at the end.
LEMMA ValuesGrow ==
    ASSUME NEW n \in Nat, NEW frames \in Seq(Frames)
    PROVE  /\ Values(n) \in Seq(Frames) /\ Values(n + 1) \in Seq(Frames)
           /\ frames \o Values(n + 1) = Append(frames \o Values(n), Value)
<1>1. Value \in Frames
    BY DEF Value, Frames
<1> HIDE DEF Value, Frames
<1>2. Values(n) \in Seq(Frames) /\ Values(n + 1) \in Seq(Frames)
    BY <1>1 DEF Values
<1>3. Values(n + 1) = Values(n) \o <<Value>>
    <2>1. Len(Values(n)) = n /\ Len(Values(n + 1)) = n + 1
        BY DEF Values
    <2>2. \A i \in 1 .. n + 1 : Values(n + 1)[i] = Value /\ (i <= n => Values(n)[i] = Value)
        BY DEF Values
    <2>3. /\ Values(n) \o <<Value>> \in Seq(Frames)
          /\ Len(Values(n) \o <<Value>>) = n + 1
          /\ \A i \in 1 .. n + 1 : (Values(n) \o <<Value>>)[i] = Value
        BY <1>1, <1>2, <2>1, <2>2
    <2> QED
        BY <1>2, <2>1, <2>2, <2>3, SeqEqual
<1>4. <<Value>> \in Seq(Frames)
    BY <1>1
<1>5. frames \o (Values(n) \o <<Value>>) = (frames \o Values(n)) \o <<Value>>
    BY <1>2, <1>4, ConcatAssociative
<1>6. Append(frames \o Values(n), Value) = (frames \o Values(n)) \o <<Value>>
    <2>1. frames \o Values(n) \in Seq(Frames)
        BY <1>2
    <2> QED
        BY <1>1, <2>1, AppendIsConcat
<1> QED
    BY <1>2, <1>3, <1>5, <1>6, Zenon

\* The provers compare applications of these better than they compare sequences.
Plus(s, x) == Append(s, x)
Joined(s, t) == s \o t

CutInto(done, current, owed) == [done |-> done, current |-> current, owed |-> owed]

\* One more frame, while m are lacking.
LEMMA CutFrameCases ==
    ASSUME NEW done, NEW current, NEW m \in Nat, NEW frame, frame.n \in Nat
    PROVE  LET whole == Plus(current, frame)
               owed == (IF m = 0 THEN 0 ELSE m - 1) + (IF frame.tag = "*" THEN frame.n ELSE 0)
           IN  CutFrame(CutInto(done, current, m), frame) =
                   IF owed = 0 THEN CutInto(Plus(done, whole), <<>>, 0)
                   ELSE CutInto(done, whole, owed)
<1> DEFINE whole == Plus(current, frame)
           more == IF frame.tag = "*" THEN frame.n ELSE 0
           owed == (IF m = 0 THEN 0 ELSE m - 1) + more
           before == IF m = 0 THEN 1 ELSE m
<1>1. /\ CutInto(done, current, m).owed = m
      /\ CutInto(done, current, m).done = done
      /\ CutInto(done, current, m).current = current
    BY DEF CutInto
<1>2. more \in Nat /\ before - 1 + more = owed
    OBVIOUS
<1> HIDE DEF more, owed, whole
<1> HIDE DEF CutInto
<1>3. CutFrame(CutInto(done, current, m), frame) =
          IF before - 1 + more = 0
          THEN [done |-> Plus(done, whole), current |-> <<>>, owed |-> 0]
          ELSE [done |-> done, current |-> whole, owed |-> before - 1 + more]
    BY <1>1, Zenon DEF CutFrame, more, whole, Plus
<1> QED
    BY <1>2, <1>3 DEF CutInto, more, owed, whole

\* One frame more.
LEMMA PlusOne ==
    ASSUME NEW s \in Seq(Frames), NEW x \in Frames
    PROVE  Plus(s, x) \in Seq(Frames) /\ Plus(<<>>, x) = <<x>> /\ Joined(s, <<x>>) = Plus(s, x)
BY DEF Plus, Joined

\* Nothing more.
LEMMA JoinNone ==
    ASSUME NEW s \in Seq(Frames)
    PROVE  Joined(s, <<>>) = s /\ Joined(<<>>, s) = s
BY DEF Joined

\* Frames after frames are frames.
LEMMA JoinTwo ==
    ASSUME NEW s \in Seq(Frames), NEW t \in Seq(Frames)
    PROVE  Joined(s, t) \in Seq(Frames)
BY DEF Joined

\* Writing does not depend on where it is broken.
LEMMA JoinThree ==
    ASSUME NEW s \in Seq(Frames), NEW t \in Seq(Frames), NEW u \in Seq(Frames)
    PROVE  Joined(s, Joined(t, u)) = Joined(Joined(s, t), u)
BY ConcatAssociative DEF Joined

\* The last frame of what is written is the last of all.
LEMMA JoinPlus ==
    ASSUME NEW s \in Seq(Frames), NEW t \in Seq(Frames), NEW x \in Frames
    PROVE  Joined(s, Plus(t, x)) = Plus(Joined(s, t), x)
<1>0. PICK u : u = <<x>>
    OBVIOUS
<1>1. u \in Seq(Frames) /\ Joined(s, t) \in Seq(Frames)
    BY <1>0, JoinTwo
<1>2. Joined(t, u) = Plus(t, x) /\ Joined(Joined(s, t), u) = Plus(Joined(s, t), x)
    BY <1>0, <1>1, PlusOne
<1> QED
    BY <1>1, <1>2, JoinThree

\* An array is its header and its values, one after the other.
LEMMA ValuesJoin ==
    ASSUME NEW n \in Nat
    PROVE  /\ Values(0) = <<>> /\ Values(n) \in Seq(Frames)
           /\ Values(n + 1) = Plus(Values(n), Value)
           /\ Array(n) = Joined(Plus(<<>>, Header(n)), Values(n))
<1>1. <<>> \in Seq(Frames)
    OBVIOUS
<1>2. /\ Values(n) \in Seq(Frames) /\ Values(n + 1) \in Seq(Frames)
      /\ <<>> \o Values(n + 1) = Append(<<>> \o Values(n), Value)
    BY <1>1, ValuesGrow
<1>3. <<>> \o Values(n) = Values(n) /\ <<>> \o Values(n + 1) = Values(n + 1)
    BY <1>2
<1>4. Values(0) = <<>>
    BY DEF Values
<1>5. Plus(<<>>, Header(n)) = <<Header(n)>>
    BY DEF Plus
<1> QED
    BY <1>2, <1>3, <1>4, <1>5 DEF Plus, Joined, Array

\* CutAppend again, in the form the proofs below use.
LEMMA CutPlus ==
    ASSUME NEW frames \in Seq(Frames), NEW frame \in Frames
    PROVE  CutOf(Plus(frames, frame)) = CutFrame(CutOf(frames), frame)
BY CutAppend DEF Plus

\* A reply that lacks m values, and n more of them.
AfterValues(done, current, m, n) ==
    IF n < m THEN CutInto(done, Joined(current, Values(n)), m - n)
    ELSE CutInto(Plus(done, Joined(current, Values(n))), <<>>, 0)

\* A reply that lacks m values takes n more, and is done with the last.
LEMMA CutValues ==
    ASSUME NEW frames \in Seq(Frames), NEW done \in Seq(Seq(Frames)), NEW current \in Seq(Frames),
           NEW m \in Nat \ {0}, CutOf(frames) = CutInto(done, current, m)
    PROVE  \A n \in 0 .. m :
               CutOf(Joined(frames, Values(n))) = AfterValues(done, current, m, n)
<1> DEFINE P == {n \in Nat : n <= m => CutOf(Joined(frames, Values(n))) =
                                       AfterValues(done, current, m, n)}
<1>0. Value \in Frames /\ Value.tag = "value" /\ Value.n = 0
    BY DEF Value, Frames
<1> HIDE DEF Value, Frames
<1>1. 0 \in P
    <2>1. /\ Values(0) = <<>>
          /\ Joined(frames, <<>>) = frames /\ Joined(current, <<>>) = current
        BY <1>0, ValuesJoin, PlusOne, JoinNone, JoinTwo, JoinThree, JoinPlus
    <2> QED
        BY <2>1 DEF AfterValues
<1>2. ASSUME NEW n \in Nat, n \in P
      PROVE  n + 1 \in P
    <2> SUFFICES ASSUME n + 1 <= m
                 PROVE  CutOf(Joined(frames, Values(n + 1))) = AfterValues(done, current, m, n + 1)
        OBVIOUS
    <2>1. CutOf(Joined(frames, Values(n))) = CutInto(done, Joined(current, Values(n)), m - n)
        BY <1>2 DEF AfterValues
    <2>2. /\ Joined(frames, Values(n)) \in Seq(Frames)
          /\ Joined(frames, Values(n + 1)) = Plus(Joined(frames, Values(n)), Value)
          /\ Joined(current, Values(n + 1)) = Plus(Joined(current, Values(n)), Value)
        <3>1. Values(n) \in Seq(Frames) /\ Values(n + 1) = Plus(Values(n), Value)
            BY ValuesJoin
        <3> QED
            BY <1>0, <3>1, JoinTwo, JoinPlus
    <2>3. CutOf(Joined(frames, Values(n + 1))) =
              CutFrame(CutInto(done, Joined(current, Values(n)), m - n), Value)
        BY <1>0, <2>1, <2>2, CutPlus
    <2>4. m - n \in Nat /\ m - n # 0 /\ (m - n) - 1 = m - (n + 1)
        OBVIOUS
    <2>5. CutFrame(CutInto(done, Joined(current, Values(n)), m - n), Value) =
              IF m - (n + 1) = 0
              THEN CutInto(Plus(done, Joined(current, Values(n + 1))), <<>>, 0)
              ELSE CutInto(done, Joined(current, Values(n + 1)), m - (n + 1))
        <3> DEFINE said == Joined(current, Values(n))
                   left == m - n
        <3>1. left \in Nat /\ left # 0 /\ left - 1 = m - (n + 1) /\ m - (n + 1) \in Nat
            BY <2>4
        <3>2. Plus(said, Value) = Joined(current, Values(n + 1))
            BY <2>2
        <3> HIDE DEF said, left
        <3> DEFINE owed == (IF left = 0 THEN 0 ELSE left - 1)
                               + (IF Value.tag = "*" THEN Value.n ELSE 0)
        <3>3. owed = m - (n + 1) /\ Value.n \in Nat
            BY <1>0, <3>1
        <3>4. CutFrame(CutInto(done, said, left), Value) =
                  IF owed = 0 THEN CutInto(Plus(done, Plus(said, Value)), <<>>, 0)
                  ELSE CutInto(done, Plus(said, Value), owed)
            BY <3>1, <3>3, CutFrameCases
        <3> HIDE DEF owed
        <3>5. CutFrame(CutInto(done, said, left), Value) =
                  IF m - (n + 1) = 0 THEN CutInto(Plus(done, Plus(said, Value)), <<>>, 0)
                  ELSE CutInto(done, Plus(said, Value), m - (n + 1))
            BY <3>3, <3>4, Zenon
        <3> QED
            BY <3>2, <3>5 DEF said, left
    <2> QED
        BY <2>3, <2>5 DEF AfterValues
<1> HIDE DEF P
<1>3. \A n \in Nat : n \in P
    BY <1>1, <1>2, Induct
<1> QED
    BY <1>3 DEF P

\* An array's header, and then its values: the reply that first began is whole.
LEMMA CutArrayAfter ==
    ASSUME NEW frames \in Seq(Frames), NEW done \in Seq(Seq(Frames)), NEW current \in Seq(Frames),
           NEW n \in Nat, NEW m \in {0, 1}, CutOf(frames) = CutInto(done, current, m)
    PROVE  CutOf(Joined(frames, Array(n))) = CutInto(Plus(done, Joined(current, Array(n))), <<>>, 0)
<1>0. Header(n) \in Frames /\ Header(n).tag = "*" /\ Header(n).n = n
    BY DEF Header, Frames
<1> HIDE DEF Header, Frames
<1> DEFINE begun == Plus(current, Header(n))
           read == Plus(frames, Header(n))
<1>1. begun \in Seq(Frames) /\ read \in Seq(Frames)
    BY <1>0, PlusOne, JoinNone, JoinTwo, JoinThree, JoinPlus
<1>2. /\ Joined(frames, Array(n)) = Joined(read, Values(n))
      /\ Joined(current, Array(n)) = Joined(begun, Values(n))
    <2>0. <<>> \in Seq(Frames)
        OBVIOUS
    <2>1. <<>> \in Seq(Frames) /\ Plus(<<>>, Header(n)) \in Seq(Frames)
        BY <1>0, <2>0, PlusOne
    <2>2. Array(n) = Joined(Plus(<<>>, Header(n)), Values(n)) /\ Values(n) \in Seq(Frames)
        BY ValuesJoin
    <2>3. ASSUME NEW s \in Seq(Frames)
          PROVE  Joined(s, Array(n)) = Joined(Plus(s, Header(n)), Values(n))
        <3>1. Joined(s, Plus(<<>>, Header(n))) = Plus(Joined(s, <<>>), Header(n))
            BY <1>0, <2>1, JoinPlus
        <3>2. Joined(s, <<>>) = s
            BY <1>0, PlusOne, JoinNone, JoinTwo, JoinThree, JoinPlus
        <3>3. Joined(s, Joined(Plus(<<>>, Header(n)), Values(n))) =
                  Joined(Joined(s, Plus(<<>>, Header(n))), Values(n))
            BY <2>1, <2>2, JoinThree
        <3> QED
            BY <2>2, <3>1, <3>2, <3>3
    <2> QED
        BY <2>3
<1>3. CutOf(read) = IF n = 0 THEN CutInto(Plus(done, begun), <<>>, 0)
                    ELSE CutInto(done, begun, n)
    <2>1. CutOf(read) = CutFrame(CutInto(done, current, m), Header(n))
        BY <1>0, CutPlus
    <2>2. n \in Nat /\ m \in Nat /\ (IF m = 0 THEN 0 ELSE m - 1) + n = n
        OBVIOUS
    <2> QED
        BY <1>0, <2>1, <2>2, CutFrameCases
<1> HIDE DEF begun, read
<1>4. CASE n = 0
    <2>1. Values(n) = <<>> /\ Joined(read, <<>>) = read /\ Joined(begun, <<>>) = begun
        BY <1>0, <1>1, <1>4, ValuesJoin, PlusOne, JoinNone, JoinTwo, JoinThree, JoinPlus
    <2> QED
        BY <1>2, <1>3, <1>4, <2>1
<1>5. CASE n # 0
    <2>1. CutOf(Joined(read, Values(n))) = AfterValues(done, begun, n, n)
        BY <1>1, <1>3, <1>5, CutValues
    <2> QED
        BY <1>2, <2>1 DEF AfterValues
<1> QED
    BY <1>4, <1>5

\* A frame that announces nothing is a reply of its own.
LEMMA CutSingle ==
    ASSUME NEW frames \in Seq(Frames), NEW done \in Seq(Seq(Frames)), NEW frame \in Frames,
           CutOf(frames) = CutInto(done, <<>>, 0), frame.tag # "*", frame.n \in Nat
    PROVE  CutOf(Joined(frames, <<frame>>)) = CutInto(Plus(done, <<frame>>), <<>>, 0)
<1>1. CutOf(Plus(frames, frame)) = CutFrame(CutInto(done, <<>>, 0), frame)
    BY CutPlus
<1>2. Plus(<<>>, frame) = <<frame>> /\ Joined(frames, <<frame>>) = Plus(frames, frame)
    BY PlusOne
<1> QED
    BY <1>1, <1>2, CutFrameCases

\* SCAN answers with a cursor and an array of keys.
LEMMA CutScan ==
    ASSUME NEW frames \in Seq(Frames), NEW done \in Seq(Seq(Frames)), NEW n \in Nat,
           CutOf(frames) = CutInto(done, <<>>, 0)
    PROVE  LET reply == Joined(<<Header(2), Value>>, Array(n))
           IN  CutOf(Joined(frames, reply)) = CutInto(Plus(done, reply), <<>>, 0)
<1>0. /\ Header(2) \in Frames /\ Header(2).tag = "*" /\ Header(2).n = 2
      /\ Value \in Frames /\ Value.tag = "value" /\ Value.n = 0
    BY DEF Header, Value, Frames
<1> HIDE DEF Header, Value, Frames
<1> DEFINE one == Plus(<<>>, Header(2))
           two == Plus(one, Value)
           read == Plus(frames, Header(2))
           more == Plus(read, Value)
<1>a. <<>> \in Seq(Frames)
    OBVIOUS
<1>1. /\ one \in Seq(Frames) /\ two \in Seq(Frames)
      /\ read \in Seq(Frames) /\ more \in Seq(Frames)
    BY <1>0, <1>a, PlusOne
<1>2. two = <<Header(2), Value>>
    <2>1. one = <<Header(2)>>
        BY DEF Plus
    <2>2. Append(<<Header(2)>>, Value) = <<Header(2), Value>>
        <3> DEFINE s == Append(<<Header(2)>>, Value)
                   t == <<Header(2), Value>>
        <3>1. <<Header(2)>> \in Seq(Frames)
            BY <1>0
        <3>2. s \in Seq(Frames) /\ t \in Seq(Frames)
            BY <1>0, <3>1
        <3>3. Len(s) = 2 /\ Len(t) = 2 /\ s[1] = t[1] /\ s[2] = t[2]
            BY <1>0, <3>1
        <3>4. \A i \in 1 .. 2 : i = 1 \/ i = 2
            OBVIOUS
        <3> HIDE DEF s, t
        <3>5. s = t
            BY <3>2, <3>3, <3>4, SeqEqual
        <3> QED
            BY <3>5 DEF s, t
    <2> QED
        BY <2>1, <2>2, Zenon DEF Plus
<1>3. more = Joined(frames, two)
    <2>1. Joined(frames, two) = Plus(Joined(frames, one), Value)
        BY <1>0, <1>1, JoinPlus
    <2>2. Joined(frames, one) = Plus(Joined(frames, <<>>), Header(2))
        BY <1>0, <1>a, JoinPlus
    <2> QED
        BY <2>1, <2>2, JoinNone
<1>4. CutOf(read) = CutInto(done, one, 2)
    <2>1. CutOf(read) = CutFrame(CutInto(done, <<>>, 0), Header(2))
        BY <1>0, CutPlus
    <2> QED
        BY <1>0, <2>1, CutFrameCases
<1>5. CutOf(more) = CutInto(done, two, 1)
    <2>1. CutOf(more) = CutFrame(CutInto(done, one, 2), Value)
        BY <1>0, <1>1, <1>4, CutPlus
    <2> QED
        BY <1>0, <2>1, CutFrameCases
<1>6. Array(n) \in Seq(Frames)
    BY ValuesAreFrames
<1> HIDE DEF more, two
<1>7. CutOf(Joined(more, Array(n))) = CutInto(Plus(done, Joined(two, Array(n))), <<>>, 0)
    BY <1>1, <1>5, CutArrayAfter
<1>8. Joined(frames, Joined(two, Array(n))) = Joined(more, Array(n))
    BY <1>0, <1>1, <1>3, <1>6, PlusOne, JoinNone, JoinTwo, JoinThree, JoinPlus
<1> QED
    BY <1>2, <1>7, <1>8
----------------------------------------------------------------------------
\* Between two replies n are done.
Between(n) == \E done \in Seq(Seq(Frames)) : Cut = CutInto(done, <<>>, 0) /\ Len(done) = n

\* Every reply of dispatch is one reply to a reader, and answers its command.
LEMMA DispatchIsReply ==
    ASSUME NEW words \in Seq(Word), words # <<>>, NEW reply \in Dispatch(words),
           NEW frames \in Seq(Frames), NEW done \in Seq(Seq(Frames)),
           CutOf(frames) = CutInto(done, <<>>, 0)
    PROVE  CutOf(Joined(frames, reply)) = CutInto(Plus(done, reply), <<>>, 0)
<1>0. Keys(words) \in Nat
    BY DEF Keys
<1>1. /\ Ok \in Frames /\ Ok.tag # "*" /\ Ok.n \in Nat
      /\ Error \in Frames /\ Error.tag # "*" /\ Error.n \in Nat
      /\ Value \in Frames /\ Value.tag # "*" /\ Value.n \in Nat
      /\ Number(Keys(words)) \in Frames /\ Number(Keys(words)).tag # "*"
      /\ Number(Keys(words)).n \in Nat
    BY <1>0 DEF Ok, Error, Value, Number, Frames
<1>2. Band \subseteq Nat /\ RowsMax \in Nat
    BY BandAssumption DEF Band
<1> DEFINE Whole(r) == CutOf(Joined(frames, r)) = CutInto(Plus(done, r), <<>>, 0)
<1> HIDE DEF Ok, Error, Value, Number, Frames, Keys, Array
<1>3. \A n \in Nat : Whole(Array(n))
    <2> TAKE n \in Nat
    <2>1. <<>> \in Seq(Frames) /\ Array(n) \in Seq(Frames)
        BY ValuesAreFrames
    <2>2. Joined(<<>>, Array(n)) = Array(n)
        BY <2>1, JoinNone
    <2>3. 0 \in {0, 1}
        OBVIOUS
    <2>4. CutOf(Joined(frames, Array(n))) = CutInto(Plus(done, Joined(<<>>, Array(n))), <<>>, 0)
        BY <2>1, <2>3, CutArrayAfter
    <2> QED
        BY <2>2, <2>4
<1>4. \A n \in Nat : Whole(<<Header(2), Value>> \o Array(n))
    <2> TAKE n \in Nat
    <2>1. Whole(Joined(<<Header(2), Value>>, Array(n)))
        BY CutScan
    <2> QED
        BY <2>1, Zenon DEF Joined
<1>5. Whole(<<Ok>>) /\ Whole(<<Error>>) /\ Whole(<<Value>>) /\ Whole(<<Number(Keys(words))>>)
    BY <1>1, CutSingle
<1> HIDE DEF Whole
<1>6. CASE words[1] \in {"HGETALL", "HKEYS", "KEYS", "SMEMBERS"}
    <2>1. \E n \in Nat : reply = Array(n)
        <3>1. \A n \in 2 .. 5 : n \in Nat /\ 2 * n \in Nat
            OBVIOUS
        <3>2. \A n \in 0 .. RowsMax : n \in Nat
            OBVIOUS
        <3> QED
            BY <1>2, <1>6, <3>1, <3>2 DEF Dispatch
    <2> QED
        BY <1>3, <2>1 DEF Whole
<1>7. CASE words[1] = "SCAN"
    <2>1. \E n \in Band : reply = <<Header(2), Value>> \o Array(n)
        BY <1>7 DEF Dispatch
    <2> QED
        BY <1>2, <1>4, <2>1 DEF Whole
<1>8. CASE words[1] \in {"MGET", "CONFIG", "COMMAND"}
    <2>1. reply \in {Array(2), Array(0), Array(Keys(words))}
        BY <1>8 DEF Dispatch
    <2> QED
        BY <1>0, <1>3, <2>1 DEF Whole
<1>9. CASE words[1] \notin {"HGETALL", "HKEYS", "KEYS", "SMEMBERS", "SCAN",
                            "MGET", "CONFIG", "COMMAND"}
    <2>1. reply \in {<<Ok>>, <<Error>>, <<Value>>, <<Number(Keys(words))>>}
        BY <1>9 DEF Dispatch
    <2> QED
        BY <1>5, <2>1 DEF Whole
<1> QED
    BY <1>6, <1>7, <1>8, <1>9

\* An array begins with its header.
LEMMA FirstOfArray ==
    ASSUME NEW n \in Nat
    PROVE  Array(n)[1].tag = "*" /\ Array(n)[1].n = n
<1>1. Header(n) \in Frames /\ Header(n).tag = "*" /\ Header(n).n = n
    BY DEF Header, Frames
<1> HIDE DEF Header, Frames
<1>2. Values(n) \in Seq(Frames)
    BY ValuesAreFrames
<1>3. (<<Header(n)>> \o Values(n))[1] = Header(n)
    BY <1>1, <1>2
<1> QED
    BY <1>1, <1>3 DEF Array

\* Every reply of dispatch fits the command it is for.
LEMMA DispatchAnswers ==
    ASSUME NEW words \in Seq(Word), words # <<>>, NEW reply \in Dispatch(words),
           NEW c, c.words = words
    PROVE  Answers(reply, c)
<1>0. Keys(words) \in Nat
    BY DEF Keys
<1>1. Band \subseteq Nat /\ RowsMax \in Nat
    BY BandAssumption DEF Band
<1>2. \A n \in Nat : Array(n)[1].tag = "*" /\ Array(n)[1].n = n
    BY FirstOfArray
<1>3. \A n \in Nat : LET r == <<Header(2), Value>> \o Array(n) IN r[1].tag = "*" /\ r[1].n = 2
    <2> TAKE n \in Nat
    <2>1. Header(2) \in Frames /\ Value \in Frames /\ Header(2).tag = "*" /\ Header(2).n = 2
        BY DEF Header, Value, Frames
    <2> HIDE DEF Header, Value, Frames
    <2>2. Array(n) \in Seq(Frames)
        BY ValuesAreFrames
    <2>3. (<<Header(2), Value>> \o Array(n))[1] = Header(2)
        BY <2>1, <2>2
    <2> QED
        BY <2>1, <2>3
<1> HIDE DEF Array, Keys, Header
<1>4. CASE words[1] \in {"HGETALL", "HKEYS", "KEYS", "SMEMBERS"}
    <2>1. \E n \in Nat : reply = Array(n)
        <3>1. \A n \in 2 .. 5 : n \in Nat /\ 2 * n \in Nat
            OBVIOUS
        <3>2. \A n \in 0 .. RowsMax : n \in Nat
            OBVIOUS
        <3> QED
            BY <1>1, <1>4, <3>1, <3>2 DEF Dispatch
    <2>2. reply[1].tag = "*"
        BY <1>2, <2>1
    <2> QED
        BY <1>4, <2>2 DEF Answers
<1>5. CASE words[1] = "SCAN"
    <2>1. \E n \in Band : reply = <<Header(2), Value>> \o Array(n)
        BY <1>5 DEF Dispatch
    <2>2. reply[1].tag = "*" /\ reply[1].n = 2
        BY <1>1, <1>3, <2>1
    <2> QED
        BY <1>5, <2>2 DEF Answers
<1>6. CASE words[1] = "CONFIG"
    <2>1. reply[1].tag = "*" /\ reply[1].n = 2
        BY <1>2, <1>6 DEF Dispatch
    <2> QED
        BY <1>6, <2>1 DEF Answers
<1>7. CASE words[1] = "COMMAND"
    <2>1. reply[1].tag = "*" /\ reply[1].n = 0
        BY <1>2, <1>7 DEF Dispatch
    <2> QED
        BY <1>7, <2>1 DEF Answers
<1>8. CASE words[1] = "MGET"
    <2>1. reply[1].tag = "*" /\ reply[1].n = Keys(words)
        BY <1>0, <1>2, <1>8 DEF Dispatch
    <2> QED
        BY <1>8, <2>1 DEF Answers
<1>9. CASE words[1] = "EXISTS"
    <2>1. reply[1].tag = ":" /\ reply[1].n = Keys(words)
        BY <1>9 DEF Dispatch, Number
    <2> QED
        BY <1>9, <2>1 DEF Answers
<1>10. CASE words[1] \notin Known
    <2>1. reply = <<Error>>
        BY <1>10 DEF Dispatch, Known
    <2>2. reply[1].tag = "-" /\ Len(reply) = 1 /\ words[1] # "QUIT"
        BY <1>10, <2>1 DEF Error, Known
    <2> QED
        BY <1>10, <2>2 DEF Answers
<1>11. CASE words[1] \in {"QUIT", "PING"}
    BY <1>11 DEF Dispatch, Answers
<1> QED
    BY <1>4, <1>5, <1>6, <1>7, <1>8, <1>9, <1>10, <1>11 DEF Known
----------------------------------------------------------------------------
(* Which reply is whose.                                                   *)

\* The number of the commands that deserve a reply, up to one of them.
LEMMA DeservingIsNat ==
    ASSUME NEW commands, NEW i \in Nat, NEW j \in Nat, i <= j
    PROVE  /\ Deserving(commands, 0) = 0 /\ Deserving(commands, i) \in Nat
           /\ Deserving(commands, i) <= Deserving(commands, j)
<1> DEFINE Upto(n) == {k \in 1 .. n : commands[k].words # <<>>}
<1>1. \A n \in Nat : IsFiniteSet(Upto(n))
    <2> TAKE n \in Nat
    <2>1. IsFiniteSet(1 .. n)
        BY FS_Interval
    <2> QED
        BY <2>1, FS_Subset
<1>2. Upto(0) = {} /\ Upto(i) \subseteq Upto(j)
    OBVIOUS
<1>3. Cardinality(Upto(0)) = 0
    BY <1>2, FS_EmptySet
<1>4. Cardinality(Upto(i)) \in Nat
    BY <1>1, FS_CardinalityType
<1>5. Cardinality(Upto(i)) <= Cardinality(Upto(j))
    BY <1>1, <1>2, FS_Subset
<1> QED
    BY <1>3, <1>4, <1>5 DEF Deserving

\* Only a command that has a word adds to it.
LEMMA DeservingGrows ==
    ASSUME NEW commands, NEW i \in Nat
    PROVE  Deserving(commands, i + 1) =
               Deserving(commands, i) + (IF commands[i + 1].words # <<>> THEN 1 ELSE 0)
<1> DEFINE Upto(n) == {k \in 1 .. n : commands[k].words # <<>>}
<1>1. IsFiniteSet(Upto(i))
    <2>1. IsFiniteSet(1 .. i)
        BY FS_Interval
    <2> QED
        BY <2>1, FS_Subset
<1>2. CASE commands[i + 1].words # <<>>
    <2>1. Upto(i + 1) = Upto(i) \cup {i + 1} /\ i + 1 \notin Upto(i)
        BY <1>2
    <2>2. Cardinality(Upto(i + 1)) = Cardinality(Upto(i)) + 1
        BY <1>1, <2>1, FS_AddElement
    <2> QED
        BY <1>2, <2>2 DEF Deserving
<1>3. CASE commands[i + 1].words = <<>>
    <2>1. Upto(i + 1) = Upto(i)
        BY <1>3
    <2>2. Cardinality(Upto(i)) \in Nat
        BY <1>1, FS_CardinalityType
    <2>3. Deserving(commands, i + 1) = Deserving(commands, i) /\ Deserving(commands, i) \in Nat
        BY <2>1, <2>2 DEF Deserving
    <2> QED
        BY <1>3, <2>3
<1> QED
    BY <1>2, <1>3

\* A command that deserves a reply has a place of its own.
LEMMA DeservingStrict ==
    ASSUME NEW commands, NEW i \in Nat, NEW j \in Nat, i < j, commands[j].words # <<>>
    PROVE  Deserving(commands, i) < Deserving(commands, j)
<1>1. j - 1 \in Nat /\ (j - 1) + 1 = j /\ i <= j - 1
    OBVIOUS
<1>2. Deserving(commands, j) = Deserving(commands, j - 1) + 1
    BY <1>1, DeservingGrows
<1>3. Deserving(commands, i) <= Deserving(commands, j - 1)
    BY <1>1, DeservingIsNat
<1> QED
    BY <1>1, <1>2, <1>3, DeservingIsNat

\* Only their words count.
LEMMA DeservingSame ==
    ASSUME NEW units, NEW more, NEW i \in Nat,
           \A j \in 1 .. i : more[j].words = units[j].words
    PROVE  Deserving(more, i) = Deserving(units, i)
<1>1. {j \in 1 .. i : more[j].words # <<>>} = {j \in 1 .. i : units[j].words # <<>>}
    OBVIOUS
<1> QED
    BY <1>1 DEF Deserving

\* A unit is what lines amount to: a command as it was meant, or one that is
\* read from a string that no array claims.
Units == [form : CommandForms \cup {"length", "word"}, words : Seq(Word)]

\* The replies in done are those of the commands, in their order.
Matched(done, commands) ==
    /\ Len(done) <= Deserving(commands, Len(commands))
    /\ \A i \in DOMAIN commands :
           commands[i].words # <<>> /\ Deserving(commands, i) <= Len(done) =>
               Answers(done[Deserving(commands, i)], commands[i])

\* The next reply, if it answers the next command that deserves one.
LEMMA MatchedMore ==
    ASSUME NEW commands \in Seq(Units), NEW done \in Seq(Seq(Frames)), Matched(done, commands),
           NEW r \in 1 .. Len(commands), commands[r].words # <<>>,
           Len(done) = Deserving(commands, r) - 1,
           NEW reply \in Seq(Frames), Answers(reply, commands[r])
    PROVE  Matched(Plus(done, reply), commands)
<1> DEFINE more == Plus(done, reply)
<1>1. /\ Len(more) = Len(done) + 1 /\ more[Len(done) + 1] = reply
      /\ \A k \in 1 .. Len(done) : more[k] = done[k]
    BY DEF Plus
<1>2. /\ Len(commands) \in Nat /\ r \in Nat /\ Len(done) \in Nat
      /\ DOMAIN commands = 1 .. Len(commands)
    OBVIOUS
<1>3. \A i, j \in Nat : i <= j =>
          Deserving(commands, i) \in Nat /\ Deserving(commands, i) <= Deserving(commands, j)
    BY DeservingIsNat
<1> HIDE DEF more
<1>4. Len(more) <= Deserving(commands, Len(commands))
    BY <1>1, <1>2, <1>3
<1>5. ASSUME NEW i \in DOMAIN commands, commands[i].words # <<>>,
             Deserving(commands, i) <= Len(more)
      PROVE  Answers(more[Deserving(commands, i)], commands[i])
    <2>0. i \in Nat /\ i >= 1
        BY <1>2
    <2>1. CASE i < r
        <3>1. Deserving(commands, i) < Deserving(commands, r)
            BY <1>2, <2>0, <2>1, DeservingStrict
        <3>2. 0 < Deserving(commands, i)
            <4>1. 0 \in Nat /\ 0 < i
                BY <2>0
            <4>2. Deserving(commands, 0) < Deserving(commands, i)
                BY <1>5, <2>0, <4>1, DeservingStrict
            <4>3. Deserving(commands, 0) = 0
                <5>1. 0 \in Nat /\ 0 <= 0
                    OBVIOUS
                <5> QED
                    BY <5>1, DeservingIsNat, Zenon
            <4>4. Deserving(commands, i) \in Nat
                BY <1>3, <2>0
            <4> QED
                BY <4>2, <4>3, <4>4
        <3>3. Deserving(commands, i) \in 1 .. Len(done)
            <4>1. Deserving(commands, i) \in Nat /\ Deserving(commands, r) \in Nat
                BY <1>2, <1>3, <2>0
            <4> QED
                BY <1>2, <3>1, <3>2, <4>1
        <3>4. Answers(done[Deserving(commands, i)], commands[i])
            BY <1>5, <3>3 DEF Matched
        <3> QED
            BY <1>1, <3>3, <3>4
    <2>2. CASE i = r
        <3>1. Deserving(commands, i) = Len(done) + 1
            <4>1. Deserving(commands, r) \in Nat
                BY <1>2, <1>3
            <4> QED
                BY <1>2, <2>2, <4>1
        <3> QED
            BY <1>1, <2>2, <3>1
    <2>3. CASE i > r
        <3>1. Deserving(commands, r) < Deserving(commands, i)
            BY <1>2, <1>5, <2>0, <2>3, DeservingStrict
        <3> QED
            BY <1>1, <1>2, <1>3, <1>5, <2>0, <3>1
    <2> QED
        BY <1>2, <2>0, <2>1, <2>2, <2>3
<1> QED
    BY <1>4, <1>5 DEF Matched, more

\* What is only sent takes no reply away from another.
LEMMA MatchedSent ==
    ASSUME NEW units \in Seq(Units), NEW more \in Seq(Units), NEW done \in Seq(Seq(Frames)),
           Matched(done, units), Len(units) <= Len(more),
           \A j \in 1 .. Len(units) : more[j].words = units[j].words
    PROVE  Matched(done, more)
<1> DEFINE n == Len(units)
           m == Len(more)
<1>1. /\ n \in Nat /\ m \in Nat /\ n <= m /\ Len(done) \in Nat
      /\ DOMAIN units = 1 .. n /\ DOMAIN more = 1 .. m
    OBVIOUS
<1>2. \A i \in 0 .. n : Deserving(more, i) = Deserving(units, i)
    <2> TAKE i \in 0 .. n
    <2>1. i \in Nat /\ \A j \in 1 .. i : more[j].words = units[j].words
        BY <1>1
    <2> QED
        BY <2>1, DeservingSame
<1>3. \A i, j \in Nat : i <= j =>
          Deserving(more, i) \in Nat /\ Deserving(more, i) <= Deserving(more, j)
    BY DeservingIsNat
<1>4. \A x, c, d : c.words = d.words /\ Answers(x, c) => Answers(x, d)
    BY DEF Answers
<1>5. \A j \in 1 .. n : more[j].words = units[j].words
    OBVIOUS
<1>m. Len(done) <= Deserving(units, n) /\ \A i \in 1 .. n :
          units[i].words # <<>> /\ Deserving(units, i) <= Len(done) =>
              Answers(done[Deserving(units, i)], units[i])
    BY <1>1 DEF Matched
<1> HIDE DEF n, m
<1>6. Len(done) <= Deserving(more, n)
    BY <1>1, <1>2, <1>m
<1>7. ASSUME NEW i \in 1 .. m, more[i].words # <<>>, Deserving(more, i) <= Len(done)
      PROVE  Answers(done[Deserving(more, i)], more[i])
    <2>1. CASE i <= n
        <3>1. i \in 1 .. n /\ i \in 0 .. n
            BY <1>1, <2>1
        <3>2. Answers(done[Deserving(more, i)], units[i])
            BY <1>2, <1>5, <1>7, <1>m, <3>1
        <3> QED
            BY <1>4, <1>5, <3>1, <3>2
    <2>2. CASE n < i
        <3>1. n \in Nat /\ i \in Nat
            BY <1>1
        <3>2. Deserving(more, n) < Deserving(more, i)
            BY <1>7, <2>2, <3>1, DeservingStrict
        <3>3. Deserving(more, n) \in Nat /\ Deserving(more, i) \in Nat
            <4>1. n <= n /\ i <= i
                BY <3>1
            <4> QED
                BY <1>3, <3>1, <4>1
        <3> QED
            BY <1>1, <1>6, <1>7, <3>2, <3>3
    <2> QED
        BY <1>1, <2>1, <2>2
<1>8. Len(done) <= Deserving(more, m)
    <2>1. Deserving(more, n) <= Deserving(more, m) /\ Deserving(more, n) \in Nat
          /\ Deserving(more, m) \in Nat
        <3>1. m <= m
            BY <1>1
        <3> QED
            BY <1>1, <1>3, <3>1
    <2> QED
        BY <1>1, <1>6, <2>1
<1> QED
    BY <1>1, <1>7, <1>8 DEF Matched, m
----------------------------------------------------------------------------
(* What the commands amount to.                                            *)

UnderstandStep == [x \in Seq(Units) \X Commands |-> Understand(x[1], x[2])]

\* The words of a command are words, its form is one of the forms.
LEMMA CommandWords ==
    ASSUME NEW c \in Commands
    PROVE  /\ c.form \in CommandForms /\ c.words \in Seq(Word)
           /\ c.form \in {"none", "blank"} => c.words = <<>>
           /\ Strings(c) \in Seq(Word)
           /\ Unit(c.form, c.words) \in Units
<1>1. /\ c.words \in Seq(STRING) /\ c.form \in CommandForms
      /\ c.form \in {"none", "blank"} => c.words = <<>>
    BY CommandsAssumption
<1>2. WordsOf(c) \subseteq Word
    BY DEF Word
<1>3. \A i \in 1 .. Len(c.words) : c.words[i] \in Word
    BY <1>2 DEF WordsOf
<1>4. c.words \in Seq(Word)
    BY <1>1, <1>3
<1>5. <<>> \in Seq(Word)
    OBVIOUS
<1> QED
    BY <1>1, <1>4, <1>5 DEF Strings, Unit, Units

\* n strings of a command as units, and the line that broke it off.
LeftoversAs(units, own, n, extra) ==
    /\ units \in Seq(Units) /\ own \in Seq(Word) /\ n = Len(own) /\ n \in Nat
    /\ extra \in {0, 1} /\ Len(units) = 2 * n + extra
    /\ \A i \in 1 .. n :
           /\ units[2 * i - 1] = Unit("length", <<"$">>)
           /\ units[2 * i] = Unit("word", Loose(own[i]))
    /\ extra = 1 => units[2 * n + 1] = Unit("inline", <<"?">>)

LEMMA LeftoversAreUnits ==
    ASSUME NEW c \in Commands
    PROVE  LeftoversAs(Leftovers(c), Strings(c), Len(Strings(c)), IF c.form = "cut" THEN 1 ELSE 0)
<1> DEFINE own == Strings(c)
           n == Len(own)
           pair(i) == IF i % 2 = 1 THEN Unit("length", <<"$">>)
                      ELSE Unit("word", Loose(own[i \div 2]))
           pairs == [i \in 1 .. 2 * n |-> pair(i)]
           stop == IF c.form = "cut" THEN <<Unit("inline", <<"?">>)>> ELSE <<>>
           extra == IF c.form = "cut" THEN 1 ELSE 0
<1>1. own \in Seq(Word) /\ n \in Nat
    BY CommandWords
<1>2. /\ Unit("length", <<"$">>) \in Units /\ Unit("inline", <<"?">>) \in Units
      /\ \A w \in Word : Unit("word", Loose(w)) \in Units
    <2>1. <<"$">> \in Seq(Word) /\ <<"?">> \in Seq(Word) /\ <<>> \in Seq(Word)
        BY DEF Word
    <2>2. \A w \in Word : Loose(w) \in Seq(Word)
        <3> TAKE w \in Word
        <3>1. <<w>> \in Seq(Word)
            OBVIOUS
        <3> QED
            BY <2>1, <3>1, Zenon DEF Loose
    <2>3. \A words \in Seq(Word) : Unit("length", words) \in Units
              /\ Unit("inline", words) \in Units /\ Unit("word", words) \in Units
        BY DEF Unit, Units, CommandForms
    <2> QED
        BY <2>1, <2>2, <2>3, Zenon
<1> HIDE DEF own, n
<1>3. \A i \in 1 .. 2 * n : pair(i) \in Units
    <2> TAKE i \in 1 .. 2 * n
    <2>1. CASE i % 2 = 1
        BY <1>2, <2>1
    <2>2. CASE i % 2 # 1
        <3>1. i \div 2 \in 1 .. n
            BY <1>1, <2>2
        <3>2. own[i \div 2] \in Word
            BY <1>1, <3>1 DEF n
        <3> QED
            BY <1>2, <2>2, <3>2
    <2> QED
        BY <2>1, <2>2
<1>4. \A i \in 1 .. n : /\ 2 * i - 1 \in 1 .. 2 * n /\ (2 * i - 1) % 2 = 1
                         /\ 2 * i \in 1 .. 2 * n /\ (2 * i) % 2 # 1 /\ (2 * i) \div 2 = i
    BY <1>1
<1>5. \A i \in 1 .. n : /\ pair(2 * i - 1) = Unit("length", <<"$">>)
                         /\ pair(2 * i) = Unit("word", Loose(own[i]))
    BY <1>4
<1> HIDE DEF pair
<1>6. /\ pairs \in Seq(Units) /\ Len(pairs) = 2 * n
      /\ \A i \in 1 .. 2 * n : pairs[i] = pair(i)
    BY <1>1, <1>3
<1>7. Leftovers(c) = pairs \o stop
    BY DEF Leftovers, pairs, pair, stop, own, n
<1>8. /\ stop \in Seq(Units) /\ Len(stop) = extra /\ extra \in {0, 1}
      /\ extra = 1 => stop[1] = Unit("inline", <<"?">>)
    BY <1>2
<1> HIDE DEF pairs, stop, extra
<1>9. /\ pairs \o stop \in Seq(Units) /\ Len(pairs \o stop) = 2 * n + extra
      /\ \A i \in 1 .. 2 * n : (pairs \o stop)[i] = pairs[i]
      /\ extra = 1 => (pairs \o stop)[2 * n + 1] = stop[1]
    BY <1>1, <1>6, <1>8
<1>10. LeftoversAs(pairs \o stop, own, n, extra)
    BY <1>1, <1>4, <1>5, <1>6, <1>8, <1>9 DEF LeftoversAs, n
<1> QED
    BY <1>7, <1>10 DEF own, n, extra

\* The next command is one unit more,
Grown(units, more, c) ==
    /\ units # <<>> => units[Len(units)].form # "short"
    /\ more = Append(units, Unit(c.form, c.words))

\* or ends the short array of unit n, and only its leftovers are units.
Closed(units, more, n, left) ==
    /\ n = Len(units) /\ n \in Nat \ {0} /\ units[n].form = "short"
    /\ left \in Seq(Units) /\ Len(more) = n + Len(left)
    /\ \A j \in 1 .. n - 1 : more[j] = units[j]
    /\ more[n] = Unit("cut", units[n].words)
    /\ \A j \in 1 .. Len(left) : more[n + j] = left[j]

LEMMA UnderstandCases ==
    ASSUME NEW units \in Seq(Units), NEW c \in Commands
    PROVE  /\ Understand(units, c) \in Seq(Units)
           /\ \/ Grown(units, Understand(units, c), c)
              \/ Closed(units, Understand(units, c), Len(units), Leftovers(c))
<1> DEFINE more == Understand(units, c)
           n == Len(units)
           left == Leftovers(c)
<1>1. left \in Seq(Units)
    BY LeftoversAreUnits DEF LeftoversAs
<1>2. Unit(c.form, c.words) \in Units
    BY CommandWords
<1> HIDE DEF left
<1>3. CASE units # <<>> /\ Last(units).form = "short"
    <2> DEFINE front == Front(units)
               closed == Unit("cut", Last(units).words)
               both == Append(front, closed)
    <2>1. n \in Nat \ {0} /\ Last(units) = units[n] /\ units[n] \in Units
        BY <1>3 DEF Last
    <2>2. closed \in Units
        BY <2>1 DEF Unit, Units, CommandForms
    <2>3. front \in Seq(Units) /\ Len(front) = n - 1 /\ \A j \in 1 .. n - 1 : front[j] = units[j]
        <3>1. front = SubSeq(units, 1, n - 1)
            BY DEF Front
        <3> HIDE DEF front
        <3>2. 1 \in 1 .. Len(units) + 1 /\ n - 1 \in 1 - 1 .. Len(units) /\ (n - 1) - 1 + 1 = n - 1
            BY <2>1
        <3>3. /\ SubSeq(units, 1, n - 1) \in Seq(Units)
              /\ Len(SubSeq(units, 1, n - 1)) = n - 1
              /\ \A i \in 1 .. n - 1 : SubSeq(units, 1, n - 1)[i] = units[1 + i - 1]
            BY <2>1, <3>2, SubSeqProperties
        <3>4. \A i \in 1 .. n - 1 : 1 + i - 1 = i
            BY <2>1
        <3> QED
            BY <3>1, <3>3, <3>4
    <2> HIDE DEF front, closed
    <2>4. /\ both \in Seq(Units) /\ Len(both) = n /\ both[n] = closed
          /\ \A j \in 1 .. n - 1 : both[j] = units[j]
        BY <2>1, <2>2, <2>3
    <2>5. more = both \o left
        BY <1>3 DEF Understand, both, front, closed, left
    <2> HIDE DEF both, more, n
    <2>6. /\ more \in Seq(Units) /\ Len(more) = n + Len(left)
          /\ \A j \in 1 .. n : more[j] = both[j]
          /\ \A j \in 1 .. Len(left) : more[n + j] = left[j]
        <3>1. /\ both \o left \in Seq(Units) /\ Len(both \o left) = n + Len(left)
              /\ \A j \in 1 .. n + Len(left) :
                     (both \o left)[j] = IF j <= n THEN both[j] ELSE left[j - n]
            BY <1>1, <2>4, ConcatProperties
        <3>2. \A j \in 1 .. n : j \in 1 .. n + Len(left) /\ j <= n
            BY <1>1, <2>1
        <3>3. \A j \in 1 .. Len(left) :
                  n + j \in 1 .. n + Len(left) /\ ~ (n + j <= n) /\ (n + j) - n = j
            BY <1>1, <2>1
        <3> QED
            BY <2>5, <3>1, <3>2, <3>3
    <2>7. \A j \in 1 .. n - 1 : j \in 1 .. n
        BY <2>1
    <2>8. n \in 1 .. n
        BY <2>1
    <2>9. closed = Unit("cut", units[n].words) /\ units[n].form = "short"
        BY <1>3, <2>1 DEF closed
    <2>10. Closed(units, more, n, left)
        BY <1>1, <2>1, <2>4, <2>6, <2>7, <2>8, <2>9 DEF Closed, n
    <2> QED
        BY <2>6, <2>10 DEF more, n, left
<1>4. CASE ~ (units # <<>> /\ Last(units).form = "short")
    <2>1. more = Append(units, Unit(c.form, c.words))
        BY <1>4 DEF Understand
    <2>2. units # <<>> => units[n].form # "short"
        BY <1>4 DEF Last
    <2>3. more \in Seq(Units)
        BY <1>2, <2>1
    <2> HIDE DEF more
    <2> QED
        BY <2>1, <2>2, <2>3 DEF Grown, more
<1> QED
    BY <1>3, <1>4

\* Understanding commands is a recursion on their number.
LEMMA UnderstoodFoldable ==
    ASSUME NEW commands \in Seq(Commands)
    PROVE  Foldable(commands, <<>>, UnderstandStep, Seq(Units), Commands)
<1>1. <<>> \in Seq(Units)
    OBVIOUS
<1>2. \A x \in Seq(Units) \X Commands : Understand(x[1], x[2]) \in Seq(Units)
    BY UnderstandCases
<1> QED
    BY <1>1, <1>2 DEF Foldable, UnderstandStep

LEMMA UnderstoodIsFold ==
    ASSUME NEW commands \in Seq(Commands)
    PROVE  /\ Understood(commands) = Fold(commands, <<>>, UnderstandStep)
           /\ Understood(commands) \in Seq(Units)
<1>0. Foldable(commands, <<>>, UnderstandStep, Seq(Units), Commands)
    BY UnderstoodFoldable
<1>1. PICK f : Follows(f, commands, <<>>, UnderstandStep, Seq(Units))
    BY <1>0, FoldExists, Zenon
<1>2. Len(commands) \in Nat /\ \A k \in 1 .. Len(commands) : commands[k] \in Commands
    OBVIOUS
<1>3. \A units \in Seq(Units), c \in Commands :
          UnderstandStep[<<units, c>>] = Understand(units, c)
    BY DEF UnderstandStep
<1> DEFINE AllUnits == Seq(Units)
           body(h) == [n \in 0 .. Len(commands) |->
                          IF n = 0 THEN <<>> ELSE Understand(h[n - 1], commands[n])]
           upTo == CHOOSE h : h = body(h)
<1> HIDE DEF UnderstandStep, Understand, AllUnits
<1>a. /\ Follows(f, commands, <<>>, UnderstandStep, AllUnits)
      /\ Foldable(commands, <<>>, UnderstandStep, AllUnits, Commands)
      /\ \A units \in AllUnits, c \in Commands :
             UnderstandStep[<<units, c>>] = Understand(units, c)
    BY <1>0, <1>1, <1>3 DEF AllUnits
<1>4. f = body(f)
    <2>1. \A n \in 0 .. Len(commands) :
              f[n] = IF n = 0 THEN <<>> ELSE Understand(f[n - 1], commands[n])
        BY <1>a, <1>2 DEF Follows
    <2>2. f = [n \in 0 .. Len(commands) |-> f[n]]
        BY <1>a DEF Follows
    <2>3. body(f) = [n \in 0 .. Len(commands) |-> f[n]]
        BY <2>1
    <2> QED
        BY <2>2, <2>3
<1>5. Understood(commands) = upTo[Len(commands)]
    BY DEF Understood
<1> HIDE DEF body
<1>6. upTo = body(upTo)
    BY <1>4
<1> HIDE DEF upTo
<1>7. \A n \in 0 .. Len(commands) :
          upTo[n] = IF n = 0 THEN <<>> ELSE Understand(upTo[n - 1], commands[n])
    <2>1. \A n \in 0 .. Len(commands) : body(upTo)[n] =
              IF n = 0 THEN <<>> ELSE Understand(upTo[n - 1], commands[n])
        BY DEF body
    <2> QED
        BY <1>6, <2>1, Zenon
<1>8. Heeds(upTo, commands, <<>>, UnderstandStep, AllUnits)
    BY <1>2, <1>a, <1>7 DEF Heeds
<1>9. Reads(upTo, commands, <<>>, UnderstandStep, AllUnits, Commands)
    BY <1>a, <1>8, Zenon DEF Reads
<1>10. /\ upTo[Len(commands)] = Fold(commands, <<>>, UnderstandStep)
       /\ Fold(commands, <<>>, UnderstandStep) \in AllUnits
    BY <1>9, FoldIs, Zenon
<1> QED
    BY <1>5, <1>10 DEF AllUnits

LEMMA UnderstoodEmpty == Understood(<<>>) = <<>>
<1>1. <<>> \in Seq(Commands)
    OBVIOUS
<1>2. Foldable(<<>>, <<>>, UnderstandStep, Seq(Units), Commands)
    BY <1>1, UnderstoodFoldable
<1>3. Understood(<<>>) = Fold(<<>>, <<>>, UnderstandStep)
    BY <1>1, UnderstoodIsFold
<1> QED
    BY <1>2, <1>3, FoldEmpty, Zenon

LEMMA UnderstoodAppend ==
    ASSUME NEW commands \in Seq(Commands), NEW c \in Commands
    PROVE  Understood(Append(commands, c)) = Understand(Understood(commands), c)
<1> DEFINE AllUnits == Seq(Units)
<1>1. Foldable(commands, <<>>, UnderstandStep, AllUnits, Commands)
    BY UnderstoodFoldable
<1>2. /\ Understood(commands) = Fold(commands, <<>>, UnderstandStep)
      /\ Understood(commands) \in AllUnits
      /\ Understood(Append(commands, c)) = Fold(Append(commands, c), <<>>, UnderstandStep)
    <2>1. Append(commands, c) \in Seq(Commands)
        OBVIOUS
    <2> QED
        BY <2>1, UnderstoodIsFold
<1>3. UnderstandStep[<<Understood(commands), c>>] = Understand(Understood(commands), c)
    BY <1>2 DEF UnderstandStep
<1> HIDE DEF AllUnits
<1>4. \A e \in Commands :
          /\ Fold(commands, <<>>, UnderstandStep) \in AllUnits
          /\ Fold(Append(commands, e), <<>>, UnderstandStep) =
                 UnderstandStep[<<Fold(commands, <<>>, UnderstandStep), e>>]
    <2>1. Grows(commands, <<>>, UnderstandStep, AllUnits, Commands)
        BY <1>1, FoldAppend, Zenon
    <2> QED
        BY <2>1, Zenon DEF Grows
<1> QED
    BY <1>2, <1>3, <1>4

\* Only the last array can still be short.
OneOpen(units) == \A q \in 1 .. Len(units) : units[q].form = "short" => q = Len(units)

LEMMA OneOpenKept ==
    ASSUME NEW units \in Seq(Units), OneOpen(units), NEW c \in Commands
    PROVE  OneOpen(Understand(units, c))
<1> DEFINE more == Understand(units, c)
           n == Len(units)
           left == Leftovers(c)
<1>1. more \in Seq(Units) /\ (Grown(units, more, c) \/ Closed(units, more, n, left))
    BY UnderstandCases
<1>2. CASE Grown(units, more, c)
    <2>1. /\ Len(more) = n + 1 /\ \A q \in 1 .. n : more[q] = units[q]
          /\ n # 0 => units[n].form # "short"
        BY <1>2 DEF Grown
    <2> HIDE DEF more
    <2> QED
        BY <2>1 DEF OneOpen, more
<1>3. CASE Closed(units, more, n, left)
    <2> DEFINE k == Len(Strings(c))
    <2>1. LeftoversAs(left, Strings(c), k, IF c.form = "cut" THEN 1 ELSE 0)
        BY LeftoversAreUnits
    <2>2. \A j \in 1 .. Len(left) : left[j].form # "short"
        <3> TAKE j \in 1 .. Len(left)
        <3>0. k \in Nat
            BY <2>1 DEF LeftoversAs
        <3> HIDE DEF k, left
        <3>1. \/ \E i \in 1 .. k : j = 2 * i - 1
              \/ \E i \in 1 .. k : j = 2 * i
              \/ j = 2 * k + 1
            <4>1. j \in 1 .. 2 * k + 1
                BY <2>1, <3>0 DEF LeftoversAs
            <4>2. CASE j % 2 = 1
                <5>1. (j + 1) \div 2 \in 1 .. k + 1 /\ j = 2 * ((j + 1) \div 2) - 1
                    BY <3>0, <4>1, <4>2
                <5> QED
                    BY <3>0, <5>1
            <4>3. CASE j % 2 = 0
                <5>1. j \div 2 \in 1 .. k /\ j = 2 * (j \div 2)
                    BY <3>0, <4>1, <4>3
                <5> QED
                    BY <5>1
            <4> QED
                BY <4>1, <4>2, <4>3
        <3>2. j = 2 * k + 1 => left[j] = Unit("inline", <<"?">>)
            BY <2>1, <3>0 DEF LeftoversAs
        <3>3. ASSUME NEW i \in 1 .. k
              PROVE  left[2 * i - 1].form # "short" /\ left[2 * i].form # "short"
            <4>1. /\ left[2 * i - 1] = Unit("length", <<"$">>)
                  /\ left[2 * i] = Unit("word", Loose(Strings(c)[i]))
                BY <2>1, Zenon DEF LeftoversAs
            <4> QED
                BY <4>1 DEF Unit
        <3> QED
            BY <3>1, <3>2, <3>3 DEF Unit
    <2> HIDE DEF more, left
    <2>3. /\ n \in Nat \ {0} /\ Len(left) \in Nat /\ Len(more) = n + Len(left)
          /\ more[n].form # "short"
        BY <1>3 DEF Closed, Unit
    <2>4. ASSUME NEW q \in 1 .. Len(more), more[q].form = "short"
          PROVE  FALSE
        <3>1. CASE q < n
            <4>1. q \in 1 .. n - 1 /\ q \in 1 .. Len(units) /\ q # Len(units)
                BY <2>3, <3>1
            <4>2. more[q] = units[q]
                BY <1>3, <4>1 DEF Closed
            <4> QED
                BY <2>4, <4>1, <4>2 DEF OneOpen
        <3>2. CASE q > n
            <4> DEFINE j == q - n
            <4>1. j \in 1 .. Len(left) /\ q = n + j
                BY <2>3, <3>2
            <4> HIDE DEF j
            <4>2. more[q] = left[j]
                BY <1>3, <4>1 DEF Closed
            <4> QED
                BY <2>2, <2>4, <4>1, <4>2
        <3> QED
            BY <2>3, <2>4, <3>1, <3>2
    <2> QED
        BY <2>4 DEF OneOpen, more
<1> QED
    BY <1>1, <1>2, <1>3
----------------------------------------------------------------------------
(* Where the lines of each unit are.                                       *)

\* r of the units, whose lines are es, have been begun; at[r] lines are left of
\* the last one, and the lines of each later unit q end at at[q].
Unread(lines, es, r, at) ==
    /\ at \in [r .. Len(es) -> 0 .. Len(lines)]
    /\ at[Len(es)] = Len(lines)
    /\ \A p, q \in r .. Len(es) : p <= q => at[p] <= at[q]
    /\ \A q \in r + 1 .. Len(es) :
           /\ at[q] = at[q - 1] + Len(es[q])
           /\ \A i \in 1 .. Len(es[q]) : lines[at[q - 1] + i] = es[q][i]

\* More lines behind the others, of units that more knows.
Extended(lines, r, at, e, es, left) ==
    \E more : /\ Unread(lines \o e, es, r, more)
              /\ more[r] = left
              /\ \A i \in 1 .. at[r] : (lines \o e)[i] = lines[i]

\* Send puts the lines of a unit at the end.
LEMMA UnreadSent ==
    ASSUME NEW lines \in Seq(Lines), NEW es \in Seq(Seq(Lines)), NEW r \in 0 .. Len(es),
           NEW at, Unread(lines, es, r, at), NEW e \in Seq(Lines)
    PROVE  Extended(lines, r, at, e, Append(es, e), at[r])
<1> DEFINE n == Len(es)
           m == Len(e)
           both == lines \o e
           all == Append(es, e)
           more == [q \in r .. n + 1 |-> IF q <= n THEN at[q] ELSE Len(lines) + m]
<1>0. m \in Nat /\ \A q \in 1 .. n : es[q] \in Seq(Lines)
    OBVIOUS
<1>1. /\ n \in Nat /\ r \in Nat /\ r <= n /\ Len(lines) \in Nat
      /\ Len(all) = n + 1 /\ all[n + 1] = e /\ \A q \in 1 .. n : all[q] = es[q]
    OBVIOUS
<1>2. /\ Len(both) = Len(lines) + m
      /\ \A i \in 1 .. Len(lines) : both[i] = lines[i]
      /\ \A i \in 1 .. m : both[Len(lines) + i] = e[i]
    BY <1>0, <1>1
<1> HIDE DEF both, all, n, m
<1>3. /\ at \in [r .. n -> 0 .. Len(lines)] /\ at[n] = Len(lines)
      /\ \A p, q \in r .. n : p <= q => at[p] <= at[q]
      /\ \A q \in r + 1 .. n :
             /\ at[q] = at[q - 1] + Len(es[q])
             /\ \A i \in 1 .. Len(es[q]) : lines[at[q - 1] + i] = es[q][i]
    BY DEF Unread, n
<1>4. more \in [r .. n + 1 -> 0 .. Len(both)] /\ more[n + 1] = Len(both) /\ more[r] = at[r]
    BY <1>0, <1>1, <1>2, <1>3 DEF m
<1>5. \A p, q \in r .. n + 1 : p <= q => more[p] <= more[q]
    BY <1>0, <1>1, <1>2, <1>3 DEF m
<1>6. ASSUME NEW q \in r + 1 .. n + 1
      PROVE  /\ more[q] = more[q - 1] + Len(all[q])
             /\ \A i \in 1 .. Len(all[q]) : both[more[q - 1] + i] = all[q][i]
    <2>1. CASE q <= n
        <3>1. q \in r + 1 .. n /\ q \in 1 .. n /\ q - 1 \in r .. n
            BY <1>1, <2>1
        <3>2. more[q] = at[q] /\ more[q - 1] = at[q - 1] /\ all[q] = es[q]
            BY <1>1, <2>1, <3>1
        <3>3. \A i \in 1 .. Len(es[q]) : at[q - 1] + i \in 1 .. Len(lines)
            <4>2. Len(es[q]) \in Nat
                BY <1>0, <3>1
            <4>3. at[q] \in 0 .. Len(lines) /\ at[q - 1] \in 0 .. Len(lines)
                  /\ at[q] = at[q - 1] + Len(es[q])
                <5>1. q \in r .. n
                    BY <1>1, <3>1
                <5> QED
                    BY <1>3, <3>1, <5>1
            <4> DEFINE x == at[q - 1]
                       y == at[q]
                       w == Len(es[q])
                       z == Len(lines)
            <4>4. z \in Nat /\ w \in Nat /\ y \in 0 .. z /\ x \in 0 .. z /\ y = x + w
                BY <1>1, <4>2, <4>3
            <4> HIDE DEF x, y, w, z
            <4>5. \A i \in 1 .. w : x + i \in 1 .. z
                BY <4>4
            <4> QED
                BY <4>5 DEF x, w, z
        <3> HIDE DEF more
        <3> QED
            BY <1>2, <1>3, <3>1, <3>2, <3>3
    <2>2. CASE q = n + 1
        <3>1. more[q] = Len(lines) + m /\ more[q - 1] = Len(lines) /\ all[q] = e
            BY <1>1, <1>3, <2>2
        <3> HIDE DEF more
        <3>2. \A i \in 1 .. m : both[more[q - 1] + i] = e[i]
            BY <1>2, <3>1
        <3>3. Len(all[q]) = m
            BY <3>1 DEF m
        <3> QED
            BY <1>0, <1>1, <3>1, <3>2, <3>3
    <2>3. q <= n \/ q = n + 1
        BY <1>1
    <2> QED
        BY <2>1, <2>2, <2>3, Zenon
<1> HIDE DEF more
<1>7. Unread(both, all, r, more)
    BY <1>1, <1>4, <1>5, <1>6 DEF Unread
<1>8. \A i \in 1 .. at[r] : i \in 1 .. Len(lines)
    BY <1>1, <1>3
<1> QED
    BY <1>2, <1>4, <1>7, <1>8 DEF both, all, Extended

\* One line less.
Shifted(lines, es, r, at) ==
    \E less : /\ Unread(Tail(lines), es, r, less)
              /\ less[r] = at[r] - 1
              /\ \A i \in 1 .. less[r] : Tail(lines)[i] = lines[i + 1]

\* Reading takes a line of the unit that has been begun,
LEMMA UnreadTail ==
    ASSUME NEW lines \in Seq(Lines), NEW es \in Seq(Seq(Lines)), NEW r \in 0 .. Len(es),
           NEW at, Unread(lines, es, r, at), at[r] > 0
    PROVE  lines # <<>> /\ Shifted(lines, es, r, at)
<1> DEFINE n == Len(es)
           less == [q \in r .. n |-> at[q] - 1]
<1>1. n \in Nat /\ r \in Nat /\ r <= n /\ Len(lines) \in Nat
    OBVIOUS
<1>2. /\ at \in [r .. n -> 0 .. Len(lines)] /\ at[n] = Len(lines)
      /\ \A p, q \in r .. n : p <= q => at[p] <= at[q]
      /\ \A q \in r + 1 .. n :
             /\ at[q] = at[q - 1] + Len(es[q])
             /\ \A i \in 1 .. Len(es[q]) : lines[at[q - 1] + i] = es[q][i]
    BY DEF Unread
<1>3. \A q \in r .. n : at[q] \in 1 .. Len(lines) /\ less[q] = at[q] - 1
    BY <1>1, <1>2
<1>4. lines # <<>>
    BY <1>1, <1>2, <1>3
<1>5. /\ Len(Tail(lines)) = Len(lines) - 1
      /\ \A i \in 1 .. Len(lines) - 1 : Tail(lines)[i] = lines[i + 1]
    BY <1>4
<1>6. less \in [r .. n -> 0 .. Len(Tail(lines))] /\ less[n] = Len(Tail(lines))
    <2>1. \A q \in r .. n : less[q] \in 0 .. Len(lines) - 1
        BY <1>1, <1>3
    <2>2. n \in r .. n
        BY <1>1
    <2>3. less[n] = Len(lines) - 1
        BY <1>2, <1>3, <2>2
    <2> QED
        BY <1>5, <2>1, <2>3
<1>7. \A p, q \in r .. n : p <= q => less[p] <= less[q]
    BY <1>1, <1>2, <1>3
<1>8. ASSUME NEW q \in r + 1 .. n
      PROVE  /\ less[q] = less[q - 1] + Len(es[q])
             /\ \A i \in 1 .. Len(es[q]) : Tail(lines)[less[q - 1] + i] = es[q][i]
    <2>1. q \in r .. n /\ q - 1 \in r .. n /\ q \in 1 .. n
        BY <1>1
    <2>3. Len(es[q]) \in Nat
        BY <2>1
    <2>4. /\ at[q] \in 1 .. Len(lines) /\ at[q - 1] \in 1 .. Len(lines)
          /\ less[q] = at[q] - 1 /\ less[q - 1] = at[q - 1] - 1
          /\ at[q] = at[q - 1] + Len(es[q])
        BY <1>2, <1>3, <2>1
    <2> HIDE DEF less
    <2>5. less[q] = less[q - 1] + Len(es[q])
        BY <1>1, <2>3, <2>4
    <2>6. ASSUME NEW i \in 1 .. Len(es[q])
          PROVE  Tail(lines)[less[q - 1] + i] = es[q][i]
        <3>1. less[q - 1] + i \in 1 .. Len(lines) - 1 /\ (less[q - 1] + i) + 1 = at[q - 1] + i
            <4> DEFINE m == Len(es[q])
                   x == at[q - 1]
                   y == at[q]
            <4>1. /\ m \in Nat /\ i \in 1 .. m /\ y = x + m /\ Len(lines) \in Nat
                  /\ x \in 1 .. Len(lines) /\ y \in 1 .. Len(lines)
                BY <1>1, <2>3, <2>4
            <4> HIDE DEF m, x, y
            <4>2. (x - 1) + i \in 1 .. Len(lines) - 1 /\ ((x - 1) + i) + 1 = x + i
                BY <4>1
            <4> QED
                BY <2>4, <4>2 DEF x
        <3> QED
            BY <1>2, <1>5, <2>1, <3>1
    <2> QED
        BY <2>5, <2>6
<1>9. \A i \in 1 .. less[r] : i \in 1 .. Len(lines) - 1
    BY <1>1, <1>3
<1> HIDE DEF less
<1>10. Unread(Tail(lines), es, r, less)
    BY <1>1, <1>6, <1>7, <1>8 DEF Unread
<1>11. less[r] = at[r] - 1
    BY <1>1, <1>3
<1> QED
    BY <1>4, <1>5, <1>9, <1>10, <1>11 DEF Shifted

\* and when that has none left, the next line begins the next unit.
LEMMA UnreadNext ==
    ASSUME NEW lines \in Seq(Lines), NEW es \in Seq(Seq(Lines)), NEW r \in 0 .. Len(es),
           NEW at, Unread(lines, es, r, at), at[r] = 0, r < Len(es)
    PROVE  \E rest : /\ Unread(lines, es, r + 1, rest)
                     /\ rest[r + 1] = Len(es[r + 1])
                     /\ \A i \in 1 .. rest[r + 1] : lines[i] = es[r + 1][i]
<1> DEFINE n == Len(es)
           rest == [q \in r + 1 .. n |-> at[q]]
<1>1. n \in Nat /\ r \in Nat /\ r < n /\ Len(lines) \in Nat
    OBVIOUS
<1>2. /\ at \in [r .. n -> 0 .. Len(lines)] /\ at[n] = Len(lines)
      /\ \A p, q \in r .. n : p <= q => at[p] <= at[q]
      /\ \A q \in r + 1 .. n :
             /\ at[q] = at[q - 1] + Len(es[q])
             /\ \A i \in 1 .. Len(es[q]) : lines[at[q - 1] + i] = es[q][i]
    BY DEF Unread
<1>4. /\ rest \in [r + 1 .. n -> 0 .. Len(lines)] /\ rest[n] = Len(lines)
      /\ \A p, q \in r + 1 .. n : p <= q => rest[p] <= rest[q]
    BY <1>1, <1>2
<1>5. ASSUME NEW q \in (r + 1) + 1 .. n
      PROVE  /\ rest[q] = rest[q - 1] + Len(es[q])
             /\ \A i \in 1 .. Len(es[q]) : lines[rest[q - 1] + i] = es[q][i]
    <2>1. q \in r + 1 .. n /\ q - 1 \in r + 1 .. n
        BY <1>1
    <2>2. rest[q] = at[q] /\ rest[q - 1] = at[q - 1]
        BY <2>1
    <2> HIDE DEF rest
    <2> QED
        BY <1>2, <2>1, <2>2
<1>6. r + 1 \in r + 1 .. n /\ r + 1 \in 1 .. n /\ (r + 1) - 1 = r
    BY <1>1
<1>7. Len(es[r + 1]) \in Nat
    BY <1>6
<1>8. /\ at[r + 1] = Len(es[r + 1])
      /\ \A i \in 1 .. Len(es[r + 1]) : lines[i] = es[r + 1][i]
    <2>1. /\ at[r + 1] = at[r] + Len(es[r + 1])
          /\ \A i \in 1 .. Len(es[r + 1]) : lines[at[r] + i] = es[r + 1][i]
        BY <1>2, <1>6
    <2> QED
        BY <1>7, <2>1
<1>9. rest[r + 1] = at[r + 1]
    BY <1>6
<1> HIDE DEF rest
<1>10. Unread(lines, es, r + 1, rest)
    BY <1>4, <1>5 DEF Unread
<1> QED
    BY <1>8, <1>9, <1>10

\* A line put in front belongs to the next unit, which had none.
LEMMA UnreadPut ==
    ASSUME NEW lines \in Seq(Lines), NEW es \in Seq(Seq(Lines)), NEW r \in 0 .. Len(es),
           NEW at, Unread(lines, es, r, at), at[r] = 0, r < Len(es),
           NEW b \in Lines, es[r + 1] = <<>>
    PROVE  \E more : /\ Unread(<<b>> \o lines, [es EXCEPT ![r + 1] = <<b>>], r, more)
                     /\ more[r] = 0
<1> DEFINE n == Len(es)
           both == <<b>> \o lines
           all == [es EXCEPT ![r + 1] = <<b>>]
           more == [q \in r .. n |-> IF q = r THEN 0 ELSE at[q] + 1]
<1>1. n \in Nat /\ r \in Nat /\ r < n /\ Len(lines) \in Nat /\ r + 1 \in 1 .. n
    OBVIOUS
<1>2. /\ at \in [r .. n -> 0 .. Len(lines)] /\ at[n] = Len(lines)
      /\ \A p, q \in r .. n : p <= q => at[p] <= at[q]
      /\ \A q \in r + 1 .. n :
             /\ at[q] = at[q - 1] + Len(es[q])
             /\ \A i \in 1 .. Len(es[q]) : lines[at[q - 1] + i] = es[q][i]
    BY DEF Unread
<1>3. /\ Len(both) = Len(lines) + 1 /\ both[1] = b
      /\ \A i \in 1 .. Len(lines) : both[i + 1] = lines[i]
    <2>1. /\ <<b>> \in Seq(Lines) /\ Len(<<b>>) = 1 /\ <<b>>[1] = b
        OBVIOUS
    <2>2. /\ Len(both) = 1 + Len(lines)
          /\ \A i \in 1 .. 1 + Len(lines) : both[i] = IF i <= 1 THEN <<b>>[i] ELSE lines[i - 1]
        BY <2>1, ConcatProperties
    <2> QED
        BY <1>1, <2>1, <2>2
<1>4. /\ Len(all) = n /\ all[r + 1] = <<b>> /\ Len(<<b>>) = 1 /\ <<b>>[1] = b
      /\ \A q \in 1 .. n : q # r + 1 => all[q] = es[q]
    <2>1. DOMAIN es = 1 .. n
        OBVIOUS
    <2> QED
        BY <1>1, <2>1
<1>5. \A q \in 1 .. n : Len(es[q]) \in Nat
    OBVIOUS
<1>6. at[r + 1] = 0
    <2>1. r + 1 \in r + 1 .. n /\ (r + 1) - 1 = r
        BY <1>1
    <2> QED
        BY <1>2, <2>1
<1> HIDE DEF both, all, n
<1>a. more[r] = 0 /\ \A q \in r + 1 .. n : more[q] = at[q] + 1 /\ at[q] \in 0 .. Len(lines)
    <2>1. \A q \in r + 1 .. n : q \in r .. n /\ q # r
        BY <1>1
    <2>2. r \in r .. n
        BY <1>1
    <2> QED
        BY <1>2, <2>1, <2>2
<1>b. more = [q \in r .. n |-> more[q]]
    BY DEF more
<1> HIDE DEF more
<1>7. more \in [r .. n -> 0 .. Len(both)] /\ more[n] = Len(both) /\ more[r] = 0
    <2>1. \A q \in r .. n : q = r \/ q \in r + 1 .. n
        BY <1>1
    <2>2. \A q \in r .. n : more[q] \in 0 .. Len(both)
        <3>1. \A x \in 0 .. Len(lines) : x + 1 \in 0 .. Len(lines) + 1 /\ 0 \in 0 .. Len(lines) + 1
            BY <1>1
        <3>2. 0 \in 0 .. Len(lines)
            BY <1>1
        <3> QED
            BY <1>3, <1>a, <2>1, <3>1, <3>2
    <2>3. n \in r + 1 .. n
        BY <1>1
    <2> QED
        BY <1>2, <1>3, <1>a, <1>b, <2>2, <2>3
<1>8. \A p, q \in r .. n : p <= q => more[p] <= more[q]
    <2> SUFFICES ASSUME NEW p \in r .. n, NEW q \in r .. n, p <= q
                 PROVE  more[p] <= more[q]
        OBVIOUS
    <2>0. p <= q
        OBVIOUS
    <2>1. CASE q = r
        <3>1. p = r
            BY <1>1, <2>1
        <3> QED
            BY <1>a, <2>1, <3>1
    <2>2. CASE p = r /\ q # r
        <3>1. q \in r + 1 .. n
            BY <1>1, <2>2
        <3>2. more[p] = 0 /\ more[q] = at[q] + 1 /\ at[q] \in 0 .. Len(lines)
            BY <1>a, <2>2, <3>1
        <3>3. \A x \in 0 .. Len(lines) : 0 <= x + 1
            OBVIOUS
        <3> QED
            BY <3>2, <3>3
    <2>3. CASE p # r
        <3>1. p \in r + 1 .. n /\ q \in r + 1 .. n
            BY <1>1, <2>3
        <3>2. more[p] = at[p] + 1 /\ more[q] = at[q] + 1 /\ at[p] <= at[q]
              /\ at[p] \in Nat /\ at[q] \in Nat
            <4>1. at[p] <= at[q]
                BY <1>2, <2>0
            <4>2. \A x \in 0 .. Len(lines) : x \in Nat
                OBVIOUS
            <4> QED
                BY <1>a, <3>1, <4>1, <4>2
        <3> QED
            BY <3>2
    <2> QED
        BY <2>1, <2>2, <2>3
<1>9. ASSUME NEW q \in r + 1 .. n
      PROVE  /\ more[q] = more[q - 1] + Len(all[q])
             /\ \A i \in 1 .. Len(all[q]) : both[more[q - 1] + i] = all[q][i]
    <2>1. CASE q = r + 1
        <3>1. q - 1 = r
            BY <1>1, <2>1
        <3>2. more[q] = 1 /\ more[q - 1] = 0
            BY <1>6, <1>a, <2>1, <3>1
        <3>3. Len(all[q]) = 1 /\ all[q][1] = b
            BY <1>4, <2>1
        <3> QED
            BY <1>3, <3>2, <3>3
    <2>2. CASE q # r + 1
        <3>1. q \in 1 .. n /\ q - 1 \in r + 1 .. n
            BY <1>1, <2>2
        <3>2. more[q] = at[q] + 1 /\ more[q - 1] = at[q - 1] + 1 /\ all[q] = es[q]
            BY <1>4, <1>a, <2>2, <3>1
        <3>3. /\ at[q] \in 0 .. Len(lines) /\ at[q - 1] \in 0 .. Len(lines) /\ Len(es[q]) \in Nat
              /\ at[q] = at[q - 1] + Len(es[q])
            BY <1>2, <1>5, <1>a, <3>1
        <3> DEFINE x == at[q - 1]
                   y == at[q]
                   w == Len(es[q])
                   z == Len(lines)
        <3>4. z \in Nat /\ w \in Nat /\ y \in 0 .. z /\ x \in 0 .. z /\ y = x + w
            BY <1>1, <3>3
        <3>5. more[q] = y + 1 /\ more[q - 1] = x + 1
            BY <3>2
        <3>6. \A i \in 1 .. w : lines[x + i] = es[q][i]
            BY <1>2
        <3>7. \A i \in 1 .. z : both[i + 1] = lines[i]
            BY <1>3
        <3>8. Len(all[q]) = w /\ all[q] = es[q]
            BY <3>2
        <3> HIDE DEF x, y, w, z
        <3>9. more[q] = more[q - 1] + w
            BY <3>4, <3>5
        <3>10. ASSUME NEW i \in 1 .. w
               PROVE  both[more[q - 1] + i] = es[q][i]
            <4>0. z \in Nat /\ x \in Nat /\ i \in Nat /\ i >= 1 /\ x + i <= z
                <5>1. i \in Nat /\ 1 <= i /\ i <= w
                    BY <3>4
                <5> QED
                    BY <3>4, <5>1
            <4>1. x + i \in 1 .. z /\ (x + 1) + i = (x + i) + 1
                BY <4>0
            <4>2. both[(x + i) + 1] = lines[x + i] /\ lines[x + i] = es[q][i]
                BY <3>6, <3>7, <4>1
            <4>3. more[q - 1] + i = (x + i) + 1
                BY <3>5, <4>1
            <4> QED
                BY <4>2, <4>3
        <3> QED
            BY <3>8, <3>9, <3>10
    <2> QED
        BY <2>1, <2>2
<1>10. Unread(both, all, r, more)
    BY <1>1, <1>4, <1>7, <1>8, <1>9 DEF Unread
<1> QED
    BY <1>7, <1>10 DEF both, all

\* Behind them, a line for the last unit, and the lines fs of units of their own.
Behind(es, e, fs, all) ==
    /\ all \in Seq(Seq(Lines)) /\ Len(all) = Len(es) + Len(fs) /\ Len(es) > 0
    /\ \A q \in 1 .. Len(es) - 1 : all[q] = es[q]
    /\ all[Len(es)] = Append(es[Len(es)], e[1])
    /\ \A j \in 1 .. Len(fs) : all[Len(es) + j] = fs[j]

\* Send ends a short array: its first line goes to the last unit.
LEMMA UnreadJoined ==
    ASSUME NEW lines \in Seq(Lines), NEW es \in Seq(Seq(Lines)), NEW r \in 0 .. Len(es),
           NEW at, Unread(lines, es, r, at), NEW e \in Seq(Lines),
           NEW fs \in Seq(Seq(Lines)), NEW ft, Unread(e, fs, 0, ft), ft[0] = 1,
           NEW all, Behind(es, e, fs, all)
    PROVE  Extended(lines, r, at, e, all, IF r = Len(es) THEN at[r] + 1 ELSE at[r])
<1> DEFINE n == Len(es)
           w == Len(fs)
           z == Len(lines)
           m == Len(e)
           both == lines \o e
           more == [q \in r .. n + w |-> IF q < n THEN at[q] ELSE z + ft[q - n]]
<1>0. \A q \in 1 .. n : es[q] \in Seq(Lines)
    OBVIOUS
<1>1. /\ n \in Nat /\ n > 0 /\ r \in Nat /\ r <= n /\ z \in Nat /\ m \in Nat /\ w \in Nat
      /\ Len(all) = n + w /\ all[n] = Append(es[n], e[1])
      /\ \A q \in 1 .. n - 1 : all[q] = es[q]
      /\ \A j \in 1 .. w : all[n + j] = fs[j]
    <2>1. n \in Nat /\ z \in Nat /\ m \in Nat /\ w \in Nat
        OBVIOUS
    <2>2. /\ n > 0 /\ Len(all) = n + w /\ all[n] = Append(es[n], e[1])
          /\ \A q \in 1 .. n - 1 : all[q] = es[q]
          /\ \A j \in 1 .. w : all[n + j] = fs[j]
        BY Zenon DEF Behind
    <2>3. r \in Nat /\ r <= n
        BY <2>1
    <2> QED
        BY <2>1, <2>2, <2>3
<1>2. /\ Len(both) = z + m
      /\ \A i \in 1 .. z : both[i] = lines[i]
      /\ \A i \in 1 .. m : both[z + i] = e[i]
    <2>1. /\ Len(both) = z + m
          /\ \A i \in 1 .. z + m : both[i] = IF i <= z THEN lines[i] ELSE e[i - z]
        BY ConcatProperties
    <2> HIDE DEF both, z, m
    <2>2. \A i \in 1 .. z : i \in 1 .. z + m /\ i <= z
        BY <1>1
    <2>3. \A i \in 1 .. m : z + i \in 1 .. z + m /\ ~ (z + i <= z) /\ (z + i) - z = i
        BY <1>1
    <2> QED
        BY <2>1, <2>2, <2>3
<1>3. /\ at \in [r .. n -> 0 .. z] /\ at[n] = z
      /\ \A p, q \in r .. n : p <= q => at[p] <= at[q]
      /\ \A q \in r + 1 .. n :
             /\ at[q] = at[q - 1] + Len(es[q])
             /\ \A i \in 1 .. Len(es[q]) : lines[at[q - 1] + i] = es[q][i]
    BY DEF Unread
<1>4. /\ ft \in [0 .. w -> 0 .. m] /\ ft[w] = m /\ ft[0] = 1
      /\ \A p, q \in 0 .. w : p <= q => ft[p] <= ft[q]
      /\ \A q \in 0 + 1 .. w :
             /\ ft[q] = ft[q - 1] + Len(fs[q])
             /\ \A i \in 1 .. Len(fs[q]) : e[ft[q - 1] + i] = fs[q][i]
    BY DEF Unread
<1>5. \A q \in 1 .. n : Len(es[q]) \in Nat
    BY <1>0
<1>6. \A q \in 1 .. w : Len(fs[q]) \in Nat
    OBVIOUS
<1>7. /\ Len(Append(es[n], e[1])) = Len(es[n]) + 1
      /\ Append(es[n], e[1])[Len(es[n]) + 1] = e[1]
      /\ \A i \in 1 .. Len(es[n]) : Append(es[n], e[1])[i] = es[n][i]
    <2>1. n \in 1 .. n
        BY <1>1
    <2>2. es[n] \in Seq(Lines)
        BY <1>0, <2>1
    <2>3. e[1] \in Lines
        <3>1. m >= 1
            <4>1. 0 \in 0 .. w
                BY <1>1
            <4>2. 1 \in 0 .. m
                BY <1>4, <4>1
            <4> QED
                BY <1>1, <4>2
        <3> QED
            BY <1>1, <3>1
    <2> QED
        BY <2>2, <2>3
<1>s. /\ n \in Nat /\ n > 0 /\ r \in Nat /\ r <= n
      /\ z \in Nat /\ m \in Nat /\ w \in Nat
    BY <1>1
<1> HIDE DEF both, n, w, z, m
<1>8. /\ more = [q \in r .. n + w |-> more[q]]
      /\ \A q \in r .. n - 1 : more[q] = at[q]
      /\ \A j \in 0 .. w : more[n + j] = z + ft[j]
    <2>1. \A q \in r .. n - 1 : q \in r .. n + w /\ q < n
        BY <1>s
    <2>2. \A j \in 0 .. w : n + j \in r .. n + w /\ ~ (n + j < n) /\ (n + j) - n = j
        BY <1>s
    <2> QED
        BY <2>1, <2>2
<1> HIDE DEF more
<1>9. \A q \in r .. n + w : q \in r .. n - 1 \/ \E j \in 0 .. w : q = n + j
    <2> TAKE q \in r .. n + w
    <2>1. CASE q < n
        BY <1>s, <2>1
    <2>2. CASE ~ (q < n)
        <3>1. q - n \in 0 .. w /\ q = n + (q - n)
            BY <1>s, <2>2
        <3> QED
            BY <3>1
    <2> QED
        BY <2>1, <2>2
<1>10. /\ \A q \in r .. n - 1 : more[q] \in 0 .. z
       /\ \A j \in 0 .. w : more[n + j] \in z + 1 .. z + m
    <2>1. \A q \in r .. n - 1 : q \in r .. n
        BY <1>s
    <2>2. ASSUME NEW j \in 0 .. w
          PROVE  more[n + j] \in z + 1 .. z + m
        <3>1. 0 \in 0 .. w /\ 0 <= j
            BY <1>s
        <3>2. ft[j] \in 0 .. m /\ 1 <= ft[j]
            BY <1>4, <3>1
        <3>3. \A x \in 0 .. m : 1 <= x => z + x \in z + 1 .. z + m
            BY <1>s
        <3> QED
            BY <1>8, <3>2, <3>3
    <2> QED
        BY <1>3, <1>8, <2>1, <2>2
<1>11. more \in [r .. n + w -> 0 .. Len(both)] /\ more[n + w] = Len(both)
    <2>1. \A q \in r .. n + w : more[q] \in 0 .. z + m
        <3>1. \A x \in 0 .. z : x \in 0 .. z + m
            BY <1>s
        <3>2. \A x \in z + 1 .. z + m : x \in 0 .. z + m
            BY <1>s
        <3> QED
            BY <1>9, <1>10, <3>1, <3>2
    <2>2. w \in 0 .. w
        BY <1>s
    <2> QED
        BY <1>2, <1>4, <1>8, <2>1, <2>2
<1>12. \A p, q \in r .. n + w : p <= q => more[p] <= more[q]
    <2> SUFFICES ASSUME NEW p \in r .. n + w, NEW q \in r .. n + w, p <= q
                 PROVE  more[p] <= more[q]
        OBVIOUS
    <2>0. p <= q
        OBVIOUS
    <2>1. CASE q \in r .. n - 1
        <3>1. p \in r .. n - 1 /\ p \in r .. n /\ q \in r .. n
            BY <1>s, <2>0, <2>1
        <3>2. at[p] <= at[q]
            BY <1>3, <2>0, <3>1
        <3> QED
            BY <1>8, <2>1, <3>1, <3>2
    <2>2. CASE p \in r .. n - 1 /\ \E j \in 0 .. w : q = n + j
        <3>1. more[p] \in 0 .. z /\ more[q] \in z + 1 .. z + m
            BY <1>10, <2>2
        <3>2. \A x \in 0 .. z, y \in z + 1 .. z + m : x <= y
            BY <1>s
        <3> QED
            BY <3>1, <3>2
    <2>3. ASSUME NEW i \in 0 .. w, NEW j \in 0 .. w, p = n + i, q = n + j
          PROVE  more[p] <= more[q]
        <3>1. i <= j
            BY <1>s, <2>0, <2>3
        <3>2. ft[i] <= ft[j] /\ ft[i] \in 0 .. m /\ ft[j] \in 0 .. m
            BY <1>4, <3>1
        <3>3. \A x, y \in 0 .. m : x <= y => z + x <= z + y
            BY <1>s
        <3>4. more[p] = z + ft[i] /\ more[q] = z + ft[j]
            BY <1>8, <2>3
        <3> QED
            BY <3>2, <3>3, <3>4
    <2>4. \A j \in 0 .. w : n + j \notin r .. n - 1
        BY <1>s
    <2>5. CASE p \notin r .. n - 1 /\ q \notin r .. n - 1
        BY <1>9, <2>3, <2>5
    <2>6. CASE p \notin r .. n - 1 /\ q \in r .. n - 1
        BY <2>1, <2>6
    <2> QED
        BY <1>9, <2>1, <2>2, <2>5, <2>6
<1>13. ASSUME NEW q \in r + 1 .. n + w
       PROVE  /\ more[q] = more[q - 1] + Len(all[q])
              /\ \A i \in 1 .. Len(all[q]) : both[more[q - 1] + i] = all[q][i]
    <2>1. CASE q < n
        <3>1. /\ q \in 1 .. n - 1 /\ q \in 1 .. n /\ q - 1 \in r .. n - 1 /\ q - 1 \in r .. n
              /\ q \in r .. n - 1 /\ q \in r + 1 .. n /\ q \in r .. n
            BY <1>s, <2>1
        <3>2. more[q] = at[q] /\ more[q - 1] = at[q - 1] /\ all[q] = es[q]
            BY <1>1, <1>8, <3>1
        <3>3. at[q] \in 0 .. z /\ at[q - 1] \in 0 .. z /\ at[q] = at[q - 1] + Len(es[q])
            BY <1>3, <3>1
        <3> DEFINE x == at[q - 1]
                   u == Len(es[q])
        <3>4. u \in Nat /\ x \in 0 .. z /\ x + u \in 0 .. z
            BY <1>5, <3>1, <3>3
        <3> HIDE DEF x, u
        <3>5. \A i \in 1 .. u : x + i \in 1 .. z
            BY <1>s, <3>4
        <3>6. \A i \in 1 .. u : lines[x + i] = es[q][i]
            BY <1>3, <3>1 DEF x, u
        <3>7. \A i \in 1 .. u : both[x + i] = es[q][i]
            BY <1>2, <3>5, <3>6
        <3> QED
            BY <3>2, <3>3, <3>7 DEF x, u
    <2>2. CASE q = n
        <3>1. q \in 1 .. n /\ q - 1 \in r .. n - 1 /\ q - 1 \in r .. n /\ q \in r + 1 .. n /\ 0 \in 0 .. w
              /\ n + 0 = q
            BY <1>s, <2>2
        <3>2. more[q] = z + 1 /\ more[q - 1] = at[q - 1] /\ all[q] = Append(es[n], e[1])
            BY <1>1, <1>4, <1>8, <2>2, <3>1
        <3>3. at[q - 1] \in 0 .. z /\ z = at[q - 1] + Len(es[n])
            BY <1>3, <2>2, <3>1
        <3> DEFINE x == at[q - 1]
                   u == Len(es[n])
        <3>4. u \in Nat /\ x \in 0 .. z /\ x + u = z
            BY <1>5, <2>2, <3>1, <3>3
        <3> HIDE DEF x, u
        <3>5. \A i \in 1 .. u : x + i \in 1 .. z
            BY <1>s, <3>4
        <3>6. \A i \in 1 .. u : lines[x + i] = es[n][i]
            BY <1>3, <2>2, <3>1 DEF x, u
        <3>7. \A i \in 1 .. u : both[x + i] = es[n][i]
            BY <1>2, <3>5, <3>6
        <3>8. x + (u + 1) = z + 1 /\ both[z + 1] = e[1]
            <4>1. 0 \in 0 .. w
                BY <1>s
            <4>2. 1 \in 0 .. m
                BY <1>4, <4>1
            <4>3. 1 \in 1 .. m
                BY <1>s, <4>2
            <4> QED
                BY <1>s, <1>2, <3>4, <4>3
        <3>9. Len(all[q]) = u + 1 /\ all[q][u + 1] = e[1] /\ \A i \in 1 .. u : all[q][i] = es[n][i]
            BY <1>7, <3>2 DEF u
        <3>10. \A i \in 1 .. u + 1 : i \in 1 .. u \/ i = u + 1
            BY <3>4
        <3>11. \A i \in 1 .. u + 1 : both[x + i] = all[q][i]
            BY <3>7, <3>8, <3>9, <3>10
        <3> QED
            BY <3>2, <3>8, <3>9, <3>11 DEF x
    <2>3. CASE n < q
        <3> DEFINE j == q - n
        <3>1. j \in 1 .. w /\ j \in 0 + 1 .. w /\ j \in 0 .. w /\ j - 1 \in 0 .. w
              /\ q = n + j /\ q - 1 = n + (j - 1)
            BY <1>s, <2>3
        <3> HIDE DEF j
        <3>2. more[q] = z + ft[j] /\ more[q - 1] = z + ft[j - 1] /\ all[q] = fs[j]
            BY <1>1, <1>8, <3>1
        <3>3. ft[j] \in 0 .. m /\ ft[j - 1] \in 0 .. m /\ ft[j] = ft[j - 1] + Len(fs[j])
            BY <1>4, <3>1
        <3> DEFINE x == ft[j - 1]
                   u == Len(fs[j])
        <3>4. u \in Nat /\ x \in 0 .. m /\ x + u \in 0 .. m /\ z + (x + u) = (z + x) + u
            <4>1. u \in Nat /\ x \in 0 .. m /\ x + u \in 0 .. m
                BY <1>6, <3>1, <3>3
            <4> HIDE DEF x, u
            <4> QED
                BY <1>s, <4>1
        <3> HIDE DEF x, u
        <3>5. \A i \in 1 .. u : x + i \in 1 .. m /\ z + (x + i) = (z + x) + i
            BY <1>s, <3>4
        <3>6. \A i \in 1 .. u : e[x + i] = fs[j][i]
            BY <1>4, <3>1 DEF x, u
        <3>7. \A i \in 1 .. u : both[(z + x) + i] = fs[j][i]
            BY <1>2, <3>5, <3>6
        <3> QED
            BY <3>2, <3>3, <3>4, <3>7 DEF x, u
    <2> QED
        BY <1>s, <2>1, <2>2, <2>3
<1>14. Unread(both, all, r, more)
    BY <1>1, <1>11, <1>12, <1>13 DEF Unread
<1>15. more[r] = IF r = n THEN at[r] + 1 ELSE at[r]
    <2>1. CASE r = n
        <3>1. 0 \in 0 .. w /\ n + 0 = r
            BY <1>s, <2>1
        <3> QED
            BY <1>3, <1>4, <1>8, <2>1, <3>1
    <2>2. CASE r # n
        <3>1. r \in r .. n - 1
            BY <1>s, <2>2
        <3> QED
            BY <1>8, <2>2, <3>1
    <2> QED
        BY <2>1, <2>2
<1>16. \A i \in 1 .. at[r] : both[i] = lines[i]
    <2>1. r \in r .. n
        BY <1>s
    <2>2. at[r] \in 0 .. z
        BY <1>3, <2>1
    <2>3. \A i \in 1 .. at[r] : i \in 1 .. z
        BY <1>s, <2>2
    <2> QED
        BY <1>2, <2>3
<1> QED
    BY <1>14, <1>15, <1>16 DEF Extended, both, n
----------------------------------------------------------------------------
(* Which lines a unit has.                                                 *)

\* The lines e of a unit u of n words that is a command.
EncodedAs(u, e, n) ==
    /\ n \in Nat /\ u.words \in Seq(Word) /\ Len(u.words) = n /\ u.form \in CommandForms
    /\ u.form = "array" => Len(e) = n + 1 /\ e[1] = Line("*", n, <<>>)
    /\ u.form = "short" => Len(e) = n + 1 /\ e[1] = Line("*", n + 1, <<>>)
    /\ u.form = "cut" => Len(e) = n + 2 /\ e[1] = Line("*", n + 1, <<>>) /\ e[n + 2].tag # "$"
    /\ u.form \in {"array", "short", "cut"} =>
           \A i \in 1 .. n : e[i + 1] = Line("$", 0, <<u.words[i]>>)
    /\ u.form = "none" => Len(e) = 1 /\ e[1] = Line("*", 0, <<>>) /\ u.words = <<>>
    /\ u.form = "inline" => Len(e) = 1 /\ e[1] = Line("text", 0, u.words)
    /\ u.form = "blank" => Len(e) = 1 /\ e[1] = Line("blank", 0, <<>>) /\ u.words = <<>>

\* A header and the strings behind it.
LEMMA HeadedLines ==
    ASSUME NEW c \in Commands, NEW m \in Int
    PROVE  LET lines == <<Line("*", m, <<>>)>> \o Bulks(c.words)
           IN  /\ lines \in Seq(Lines) /\ Len(lines) = Len(c.words) + 1
               /\ lines[1] = Line("*", m, <<>>)
               /\ \A i \in 1 .. Len(c.words) : lines[i + 1] = Line("$", 0, <<c.words[i]>>)
<1> DEFINE n == Len(c.words)
           bulk(i) == Line("$", 0, <<c.words[i]>>)
           bulks == Bulks(c.words)
           head == Line("*", m, <<>>)
           lines == <<head>> \o bulks
<1>1. c.words \in Seq(Word) /\ n \in Nat /\ DOMAIN c.words = 1 .. n
    BY CommandWords
<1>2. \A i \in 1 .. n : bulk(i) \in Lines
    BY <1>1, StringIsLine
<1> HIDE DEF bulk
<1>3. bulks = [i \in 1 .. n |-> bulk(i)]
    BY <1>1 DEF Bulks, bulk
<1>4. bulks \in Seq(Lines) /\ Len(bulks) = n /\ \A i \in 1 .. n : bulks[i] = bulk(i)
    BY <1>1, <1>2, <1>3
<1>5. head \in Lines
    <2>1. <<>> \in Seq(Word)
        OBVIOUS
    <2> QED
        BY <2>1 DEF Line, Lines, LineTypes
<1> HIDE DEF head, bulks, n
<1>6. <<head>> \in Seq(Lines) /\ Len(<<head>>) = 1 /\ <<head>>[1] = head
    BY <1>5
<1>7. /\ lines \in Seq(Lines) /\ Len(lines) = 1 + n
      /\ \A i \in 1 .. 1 + n : lines[i] = IF i <= 1 THEN <<head>>[i] ELSE bulks[i - 1]
    BY <1>4, <1>6, ConcatProperties
<1> HIDE DEF lines
<1>8. lines[1] = head /\ \A i \in 1 .. n : lines[i + 1] = bulks[i]
    <2>1. \A i \in 1 .. n : i + 1 \in 1 .. 1 + n /\ ~ (i + 1 <= 1) /\ (i + 1) - 1 = i
        BY <1>1
    <2>2. 1 \in 1 .. 1 + n
        BY <1>1
    <2> QED
        BY <1>6, <1>7, <2>1, <2>2
<1>9. /\ lines \in Seq(Lines) /\ Len(lines) = n + 1 /\ lines[1] = head
      /\ \A i \in 1 .. n : lines[i + 1] = bulk(i)
    BY <1>1, <1>4, <1>7, <1>8
<1> QED
    BY <1>9 DEF lines, head, bulks, bulk, n

\* The lines of a command of each form.
LEMMA EncodedLines ==
    ASSUME NEW c \in Commands
    PROVE  EncodedAs(Unit(c.form, c.words), Encoded(c), Len(c.words))
<1> DEFINE n == Len(c.words)
           u == Unit(c.form, c.words)
           e == Encoded(c)
           headed(m) == <<Line("*", m, <<>>)>> \o Bulks(c.words)
<1>1. /\ c.words \in Seq(Word) /\ n \in Nat /\ c.form \in CommandForms
      /\ c.form \in {"none", "blank"} => c.words = <<>>
    BY CommandWords
<1>2. u.form = c.form /\ u.words = c.words
    BY DEF Unit
<1>3. \A m \in Int :
          /\ headed(m) \in Seq(Lines) /\ Len(headed(m)) = n + 1
          /\ headed(m)[1] = Line("*", m, <<>>)
          /\ \A i \in 1 .. n : headed(m)[i + 1] = Line("$", 0, <<c.words[i]>>)
    BY HeadedLines
<1>h. u.words \in Seq(Word) /\ Len(u.words) = n /\ u.form \in CommandForms
    BY <1>1, <1>2
<1> HIDE DEF headed, n, u, e
<1>4. ASSUME c.form \in {"array", "short"}
      PROVE  EncodedAs(u, e, n)
    <2> DEFINE m == IF c.form = "array" THEN n ELSE n + 1
    <2>1. e = headed(m)
        BY <1>4 DEF Encoded, headed, n, e
    <2>2. m \in Int
        BY <1>1
    <2>3. /\ Len(e) = n + 1 /\ e[1] = Line("*", m, <<>>)
          /\ \A i \in 1 .. n : e[i + 1] = Line("$", 0, <<u.words[i]>>)
        <3> HIDE DEF m
        <3> QED
            BY <1>2, <1>3, <2>1, <2>2
    <2> QED
        BY <1>1, <1>2, <1>4, <1>h, <2>3 DEF EncodedAs
<1>5. ASSUME c.form = "cut"
      PROVE  EncodedAs(u, e, n)
    <2> DEFINE stop == Line("text", 0, <<"?">>)
    <2>1. e = headed(n + 1) \o <<stop>>
        BY <1>5 DEF Encoded, headed, n, e
    <2>2. stop \in Lines /\ stop.tag # "$"
        <3>1. <<"?">> \in Seq(Word)
            BY DEF Word
        <3> QED
            BY <3>1 DEF Line, Lines, LineTypes
    <2> HIDE DEF stop
    <2>3. /\ headed(n + 1) \in Seq(Lines) /\ Len(headed(n + 1)) = n + 1
          /\ headed(n + 1)[1] = Line("*", n + 1, <<>>)
          /\ \A i \in 1 .. n : headed(n + 1)[i + 1] = Line("$", 0, <<c.words[i]>>)
        BY <1>1, <1>3
    <2>4. /\ Len(e) = n + 2 /\ e[n + 2] = stop
          /\ \A i \in 1 .. n + 1 : e[i] = headed(n + 1)[i]
        <3> DEFINE first == headed(n + 1)
        <3>1. first \in Seq(Lines) /\ Len(first) = n + 1
            BY <2>3
        <3> HIDE DEF first
        <3>2. <<stop>> \in Seq(Lines) /\ Len(<<stop>>) = 1 /\ <<stop>>[1] = stop
            BY <2>2
        <3>3. /\ Len(first \o <<stop>>) = (n + 1) + 1
              /\ \A i \in 1 .. (n + 1) + 1 :
                     (first \o <<stop>>)[i] = IF i <= n + 1 THEN first[i] ELSE <<stop>>[i - (n + 1)]
            BY <3>1, <3>2, ConcatProperties
        <3>4. /\ (n + 1) + 1 = n + 2 /\ n + 2 \in 1 .. n + 2 /\ ~ (n + 2 <= n + 1)
              /\ (n + 2) - (n + 1) = 1 /\ \A i \in 1 .. n + 1 : i \in 1 .. n + 2 /\ i <= n + 1
            BY <1>1
        <3> QED
            BY <2>1, <3>2, <3>3, <3>4 DEF first
    <2>5. /\ e[1] = Line("*", n + 1, <<>>)
          /\ \A i \in 1 .. n : e[i + 1] = Line("$", 0, <<c.words[i]>>)
        <3>1. 1 \in 1 .. n + 1 /\ \A i \in 1 .. n : i + 1 \in 1 .. n + 1
            BY <1>1
        <3> QED
            BY <2>3, <2>4, <3>1
    <2>6. e[1] = Line("*", n + 1, <<>>) /\ \A i \in 1 .. n : e[i + 1] = Line("$", 0, <<u.words[i]>>)
        BY <1>2, <2>5
    <2> QED
        BY <1>1, <1>2, <1>5, <1>h, <2>2, <2>4, <2>6 DEF EncodedAs
<1>6. ASSUME c.form \in {"none", "inline", "blank"}
      PROVE  EncodedAs(u, e, n)
    <2>1. /\ c.form = "none" => e = <<Line("*", 0, <<>>)>>
          /\ c.form = "inline" => e = <<Line("text", 0, c.words)>>
          /\ c.form = "blank" => e = <<Line("blank", 0, <<>>)>>
        BY DEF Encoded, e
    <2>2. /\ c.form = "none" => Len(e) = 1 /\ e[1] = Line("*", 0, <<>>)
          /\ c.form = "inline" => Len(e) = 1 /\ e[1] = Line("text", 0, c.words)
          /\ c.form = "blank" => Len(e) = 1 /\ e[1] = Line("blank", 0, <<>>)
        BY <2>1
    <2> QED
        BY <1>1, <1>2, <1>6, <1>h, <2>2 DEF EncodedAs
<1>7. EncodedAs(u, e, n)
    BY <1>1, <1>4, <1>5, <1>6 DEF CommandForms
<1> QED
    BY <1>1, <1>7 DEF CommandForms, n, u, e

\* A length line waits with its word, which no one reads before it.
LengthAt(es, units, q) ==
    /\ units[q].form = "length" /\ units[q].words = <<"$">>
    /\ q < Len(units) /\ units[q + 1].form = "word" /\ es[q + 1] = <<>>
    /\ \E w \in Word : es[q] = <<Line("$", 0, <<w>>)>> /\ units[q + 1].words = Loose(w)

WordAt(units, q) == q > 1 /\ units[q].form = "word" /\ units[q - 1].form = "length"

\* Once its length line is read, the word is a line.
LooseAt(es, units, q) ==
    /\ units[q].form = "word"
    /\ \E w \in Word : es[q] = <<Bare(w)>> /\ units[q].words = Loose(w)

CommandAt(es, units, q) == EncodedAs(units[q], es[q], Len(units[q].words))

\* es are the lines of the units; r of these have been begun.
Laid(es, units, r) ==
    /\ es \in Seq(Seq(Lines)) /\ Len(es) = Len(units)
    /\ \A q \in r + 1 .. Len(units) :
           \/ LengthAt(es, units, q)
           \/ IF q = r + 1 THEN LooseAt(es, units, q) ELSE WordAt(units, q)
           \/ CommandAt(es, units, q)

\* What is left of a command whose first line is gone.
LEMMA LeftoversLaid ==
    ASSUME NEW c \in Commands
    PROVE  \E fs, ft : /\ Unread(Encoded(c), fs, 0, ft) /\ ft[0] = 1
                       /\ Laid(fs, Leftovers(c), 0)
                       /\ \A j \in 1 .. Len(fs) : j = 1 => Leftovers(c)[j].form # "word"
<1> DEFINE own == Strings(c)
           k == Len(own)
           extra == IF c.form = "cut" THEN 1 ELSE 0
           left == Leftovers(c)
           e == Encoded(c)
           w == 2 * k + extra
           ft == [j \in 0 .. w |-> 1 + (j + 1) \div 2]
           part(j) == IF j % 2 = 1 THEN <<e[1 + (j + 1) \div 2]>> ELSE <<>>
           fs == [j \in 1 .. w |-> part(j)]
<1>1. /\ left \in Seq(Units) /\ own \in Seq(Word) /\ k \in Nat /\ extra \in {0, 1}
      /\ Len(left) = w
      /\ \A i \in 1 .. k : /\ left[2 * i - 1] = Unit("length", <<"$">>)
                           /\ left[2 * i] = Unit("word", Loose(own[i]))
      /\ extra = 1 => left[2 * k + 1] = Unit("inline", <<"?">>)
    BY LeftoversAreUnits, Zenon DEF LeftoversAs
<1>2. e \in Seq(Lines)
    BY EncodedIsLines
<1>3. /\ Len(e) = 1 + k + extra
      /\ \A i \in 1 .. k : e[i + 1] = Line("$", 0, <<own[i]>>)
      /\ extra = 1 => e[k + 2] = Line("text", 0, <<"?">>)
    <2>1. EncodedAs(Unit(c.form, c.words), e, Len(c.words))
        BY EncodedLines
    <2>2. c.form \in CommandForms /\ c.words \in Seq(Word)
        BY CommandWords
    <2>3. Unit(c.form, c.words).form = c.form /\ Unit(c.form, c.words).words = c.words
        BY DEF Unit
    <2>4. CASE c.form \in {"array", "short"}
        <3>1. own = c.words
            BY <2>4 DEF Strings
        <3>2. extra = 0
            BY <2>4
        <3> HIDE DEF e, own, extra
        <3>3. Len(e) = Len(c.words) + 1 /\ \A i \in 1 .. Len(c.words) : e[i + 1] = Line("$", 0, <<c.words[i]>>)
            BY <2>1, <2>3, <2>4 DEF EncodedAs
        <3> QED
            BY <1>1, <3>1, <3>2, <3>3
    <2>5. CASE c.form = "cut"
        <3>1. own = c.words
            BY <2>5 DEF Strings
        <3>2. e[Len(c.words) + 2] = Line("text", 0, <<"?">>)
            <4> DEFINE first == <<Line("*", Len(c.words) + 1, <<>>)>> \o Bulks(c.words)
                       stop == Line("text", 0, <<"?">>)
            <4>1. first \in Seq(Lines) /\ Len(first) = Len(c.words) + 1
                <5>1. Len(c.words) + 1 \in Int
                    BY <2>2
                <5> QED
                    BY <5>1, HeadedLines
            <4>2. e = first \o <<stop>>
                BY <2>5 DEF Encoded
            <4> HIDE DEF first, stop, e
            <4>3. (first \o <<stop>>)[Len(first) + 1] = stop
                OBVIOUS
            <4>4. Len(first) + 1 = Len(c.words) + 2
                BY <2>2, <4>1
            <4> QED
                BY <4>2, <4>3, <4>4 DEF stop
        <3>3. extra = 1 /\ k = Len(c.words)
            BY <2>5, <3>1
        <3> HIDE DEF e, own, extra, k
        <3>4. /\ Len(e) = Len(c.words) + 2
              /\ \A i \in 1 .. Len(c.words) : e[i + 1] = Line("$", 0, <<c.words[i]>>)
            BY <2>1, <2>3, <2>5 DEF EncodedAs
        <3>5. Len(e) = 1 + k + extra /\ e[k + 2] = Line("text", 0, <<"?">>)
            BY <2>2, <3>2, <3>3, <3>4
        <3>6. \A i \in 1 .. k : e[i + 1] = Line("$", 0, <<own[i]>>)
            BY <3>1, <3>3, <3>4
        <3> QED
            BY <3>5, <3>6
    <2>6. CASE c.form \in {"none", "inline", "blank"}
        <3>1. own = <<>> /\ k = 0 /\ extra = 0
            BY <2>6 DEF Strings
        <3>2. Len(e) = 1
            BY <2>1, <2>3, <2>6 DEF EncodedAs
        <3> HIDE DEF e, own, k, extra
        <3> QED
            BY <3>1, <3>2
    <2> QED
        BY <2>2, <2>4, <2>5, <2>6 DEF CommandForms
<1>n. w \in Nat
    BY <1>1
<1>h. \A i \in 1 .. k : own[i] \in Word
    BY <1>1
<1> HIDE DEF left, e, own, k, extra
<1>4. \A j \in 1 .. w : j % 2 = 1 => 1 + (j + 1) \div 2 \in 2 .. Len(e)
    BY <1>1, <1>3
<1>5. \A j \in 1 .. w : part(j) \in Seq(Lines)
    <2> TAKE j \in 1 .. w
    <2>1. CASE j % 2 = 1
        <3> DEFINE x == 1 + (j + 1) \div 2
        <3>1. x \in 2 .. Len(e)
            BY <1>4, <2>1
        <3> HIDE DEF x
        <3>2. e[x] \in Lines
            <4>1. Len(e) \in Nat /\ x \in 1 .. Len(e)
                BY <1>2, <3>1
            <4> QED
                BY <1>2, <4>1
        <3>3. <<e[x]>> \in Seq(Lines)
            BY <3>2
        <3> QED
            BY <2>1, <3>3 DEF x
    <2>2. CASE j % 2 # 1
        BY <2>2
    <2> QED
        BY <2>1, <2>2
<1>6. \A j \in 1 .. w :
          /\ j % 2 = 1 => 1 + ((j - 1) + 1) \div 2 = (j + 1) \div 2
          /\ j % 2 # 1 => 1 + ((j - 1) + 1) \div 2 = 1 + (j + 1) \div 2
    BY <1>1
<1>7. \A j \in 1 .. w : Len(part(j)) = IF j % 2 = 1 THEN 1 ELSE 0
    OBVIOUS
<1>8. \A j \in 1 .. w : j % 2 = 1 => part(j)[1] = e[1 + (j + 1) \div 2]
    OBVIOUS
<1> HIDE DEF part
<1>9. fs \in Seq(Seq(Lines)) /\ Len(fs) = w /\ \A j \in 1 .. w : fs[j] = part(j)
    BY <1>5, <1>n
<1>10. /\ \A j \in 0 .. w : ft[j] = 1 + (j + 1) \div 2
       /\ ft = [j \in 0 .. w |-> ft[j]]
    OBVIOUS
<1> HIDE DEF fs, ft
<1>11. Unread(e, fs, 0, ft)
    <2>1. ft \in [0 .. w -> 0 .. Len(e)]
        <3>1. \A j \in 0 .. w : 1 + (j + 1) \div 2 \in 0 .. Len(e)
            BY <1>1, <1>3
        <3> QED
            BY <1>10, <3>1
    <2>2. ft[w] = Len(e)
        <3>1. 1 + (w + 1) \div 2 = 1 + k + extra
            BY <1>1
        <3>2. w \in 0 .. w
            BY <1>n
        <3> QED
            BY <1>3, <1>10, <3>1, <3>2
    <2>3. \A p, q \in 0 .. w : p <= q => ft[p] <= ft[q]
        <3>1. \A p, q \in 0 .. w : p <= q => 1 + (p + 1) \div 2 <= 1 + (q + 1) \div 2
            BY <1>n
        <3> QED
            BY <1>10, <3>1
    <2>4. ASSUME NEW q \in 0 + 1 .. w
          PROVE  /\ ft[q] = ft[q - 1] + Len(fs[q])
                 /\ \A i \in 1 .. Len(fs[q]) : e[ft[q - 1] + i] = fs[q][i]
        <3>1. q \in 1 .. w /\ q \in 0 .. w /\ q - 1 \in 0 .. w
            BY <1>n
        <3>2. ft[q] = 1 + (q + 1) \div 2 /\ ft[q - 1] = 1 + ((q - 1) + 1) \div 2 /\ fs[q] = part(q)
            BY <1>9, <1>10, <3>1
        <3> DEFINE x == (q + 1) \div 2
        <3>3. x \in Nat
            BY <3>1
        <3>4. CASE q % 2 = 1
            <4>1. ft[q] = 1 + x /\ ft[q - 1] = x /\ Len(fs[q]) = 1 /\ fs[q][1] = e[1 + x]
                BY <1>6, <1>7, <1>8, <3>1, <3>2, <3>4
            <4> HIDE DEF x
            <4> QED
                BY <3>3, <4>1
        <3>5. CASE q % 2 # 1
            <4>1. ft[q] = 1 + x /\ ft[q - 1] = 1 + x /\ Len(fs[q]) = 0
                BY <1>6, <1>7, <3>1, <3>2, <3>5
            <4> HIDE DEF x
            <4> QED
                BY <3>3, <4>1
        <3> QED
            BY <3>4, <3>5
    <2> HIDE DEF w
    <2> QED
        BY <1>9, <2>1, <2>2, <2>3, <2>4 DEF Unread
<1>12. ft[0] = 1
    <2>1. 0 \in 0 .. w /\ 1 + (0 + 1) \div 2 = 1
        BY <1>n
    <2> QED
        BY <1>10, <2>1
<1>13. ASSUME NEW q \in 1 .. w
       PROVE  \/ LengthAt(fs, left, q)
              \/ WordAt(left, q)
              \/ CommandAt(fs, left, q) /\ left[q].form = "inline"
    <2>1. CASE q % 2 = 1 /\ q < 2 * k
        <3> DEFINE i == (q + 1) \div 2
        <3>1. i \in 1 .. k /\ q = 2 * i - 1 /\ q + 1 = 2 * i /\ q + 1 \in 1 .. w /\ (q + 1) % 2 # 1
            <4>1. q = 2 * i - 1 /\ i \in Int
                BY <2>1
            <4> HIDE DEF i
            <4>2. i \in 1 .. k /\ q + 1 = 2 * i
                BY <1>1, <2>1, <4>1
            <4>3. q + 1 \in 1 .. w
                BY <1>1, <4>2
            <4> QED
                BY <4>1, <4>2, <4>3
        <3>2. fs[q] = part(q) /\ part(q) = <<e[1 + i]>>
            BY <1>9, <2>1 DEF part
        <3>3. fs[q + 1] = <<>>
            BY <1>9, <3>1 DEF part
        <3> HIDE DEF i, w
        <3>4. left[q] = Unit("length", <<"$">>) /\ left[q + 1] = Unit("word", Loose(own[i]))
            BY <1>1, <3>1
        <3>5. e[1 + i] = Line("$", 0, <<own[i]>>) /\ own[i] \in Word
            <4>1. 1 + i = i + 1
                BY <3>1
            <4> QED
                BY <1>3, <1>h, <3>1, <4>1
        <3>6. q < Len(left)
            BY <1>1, <1>n, <3>1
        <3>7. fs[q] = <<Line("$", 0, <<own[i]>>)>>
            BY <3>2, <3>5
        <3>8. LengthAt(fs, left, q)
            <4>1. /\ left[q].form = "length" /\ left[q].words = <<"$">>
                  /\ left[q + 1].form = "word" /\ left[q + 1].words = Loose(own[i])
                BY <3>4 DEF Unit
            <4> QED
                BY <3>3, <3>5, <3>6, <3>7, <4>1, Zenon DEF LengthAt
        <3> QED
            BY <3>8
    <2>2. CASE q % 2 # 1
        <3> DEFINE i == q \div 2
        <3>1. i \in 1 .. k /\ q = 2 * i /\ q - 1 = 2 * i - 1 /\ q > 1
            BY <1>1, <2>2
        <3> HIDE DEF i
        <3>2. left[q] = Unit("word", Loose(own[i])) /\ left[q - 1] = Unit("length", <<"$">>)
            BY <1>1, <3>1
        <3> QED
            BY <3>1, <3>2 DEF WordAt, Unit
    <2>3. CASE q % 2 = 1 /\ ~ (q < 2 * k)
        <3>1. extra = 1 /\ q = 2 * k + 1 /\ 1 + (q + 1) \div 2 = k + 2
            <4>1. q = 2 * k + 1
                <5>1. q = 2 * k \/ q = 2 * k + 1
                    BY <1>1, <2>3
                <5>2. (2 * k) % 2 = 0
                    BY <1>1
                <5> QED
                    BY <2>3, <5>1, <5>2
            <4>2. extra = 1
                BY <1>1, <4>1
            <4>3. (2 * k + 2) \div 2 = k + 1
                BY <1>1
            <4> QED
                BY <1>1, <4>1, <4>2, <4>3
        <3>2. left[q] = Unit("inline", <<"?">>)
            BY <1>1, <3>1
        <3>3. fs[q] = <<Line("text", 0, <<"?">>)>>
            BY <1>3, <1>9, <2>3, <3>1 DEF part
        <3>4. <<"?">> \in Seq(Word) /\ Len(<<"?">>) = 1
            BY DEF Word
        <3>5. CommandAt(fs, left, q)
            BY <3>2, <3>3, <3>4 DEF CommandAt, EncodedAs, Unit, CommandForms
        <3> QED
            BY <3>2, <3>5 DEF Unit
    <2> QED
        BY <2>1, <2>2, <2>3
<1>14. Laid(fs, left, 0)
    <2>1. \A q \in 1 .. w : ~ (q > 1) <=> q = 0 + 1
        BY <1>n
    <2>2. \A q \in 0 + 1 .. w : q \in 1 .. w
        OBVIOUS
    <2> HIDE DEF w
    <2>3. Len(fs) = Len(left) /\ fs \in Seq(Seq(Lines)) /\ Len(left) = w
        BY <1>1, <1>9
    <2>4. \A q \in 1 .. w : WordAt(left, q) => q # 0 + 1
        BY <2>1 DEF WordAt
    <2> QED
        BY <1>13, <2>2, <2>3, <2>4, Zenon DEF Laid
<1>15. \A j \in 1 .. Len(fs) : j = 1 => left[j].form # "word"
    <2> SUFFICES ASSUME NEW j \in 1 .. Len(fs), j = 1
                 PROVE  left[j].form # "word"
        OBVIOUS
    <2>1. j \in 1 .. w
        BY <1>9
    <2>2. ~ WordAt(left, j)
        BY DEF WordAt
    <2> QED
        BY <1>13, <2>1, <2>2 DEF LengthAt
<1> QED
    BY <1>11, <1>12, <1>14, <1>15 DEF e, left

\* The next unit is begun.
LEMMA LaidNext ==
    ASSUME NEW units, NEW es, NEW r \in Nat, Laid(es, units, r), Len(units) \in Nat,
           units[r + 1].form # "length"
    PROVE  Laid(es, units, r + 1)
<1>1. ASSUME NEW q \in (r + 1) + 1 .. Len(units)
      PROVE  \/ LengthAt(es, units, q)
             \/ WordAt(units, q) /\ q # (r + 1) + 1
             \/ CommandAt(es, units, q)
    <2>1. q \in r + 1 .. Len(units) /\ q # r + 1
        OBVIOUS
    <2>2. LengthAt(es, units, q) \/ WordAt(units, q) \/ CommandAt(es, units, q)
        BY <2>1 DEF Laid
    <2>3. q = (r + 1) + 1 => q - 1 = r + 1
        OBVIOUS
    <2>4. WordAt(units, q) => units[q - 1].form = "length"
        BY DEF WordAt
    <2>5. WordAt(units, q) => q # (r + 1) + 1
        BY <2>3, <2>4
    <2> QED
        BY <2>2, <2>5, Zenon
<1> QED
    BY <1>1 DEF Laid

\* A length line is read, and its word becomes a line.
LEMMA LaidWord ==
    ASSUME NEW units, NEW es, NEW r \in Nat, Laid(es, units, r), Len(units) \in Nat,
           LengthAt(es, units, r + 1), NEW w \in Word, units[(r + 1) + 1].words = Loose(w),
           Bare(w) \in Lines
    PROVE  Laid([es EXCEPT ![(r + 1) + 1] = <<Bare(w)>>], units, r + 1)
<1> DEFINE p == (r + 1) + 1
           line == Bare(w)
           fs == [es EXCEPT ![p] = <<line>>]
<1>0. line \in Lines
    OBVIOUS
<1> HIDE DEF line
<1>1. es \in Seq(Seq(Lines)) /\ Len(es) = Len(units) /\ DOMAIN es = 1 .. Len(units)
    BY DEF Laid
<1>2. p \in 1 .. Len(units) /\ units[p].form = "word"
    <2>1. r + 1 < Len(units) /\ units[(r + 1) + 1].form = "word"
        BY Zenon DEF LengthAt
    <2> QED
        BY <2>1
<1>3. <<line>> \in Seq(Lines)
    BY <1>0
<1>4. fs \in Seq(Seq(Lines)) /\ Len(fs) = Len(units)
    <2>1. \A one \in Seq(Lines) : [es EXCEPT ![p] = one] \in Seq(Seq(Lines))
        BY <1>1, <1>2
    <2>2. fs \in Seq(Seq(Lines)) /\ DOMAIN fs = 1 .. Len(units)
        BY <1>1, <1>3, <2>1
    <2> HIDE DEF fs
    <2>3. Len(fs) \in Nat /\ DOMAIN fs = 1 .. Len(fs)
        BY <2>2
    <2> QED
        BY <2>2, <2>3
<1>5. fs[p] = <<line>> /\ \A q \in 1 .. Len(units) : q # p => fs[q] = es[q]
    BY <1>1, <1>2
<1> HIDE DEF fs
<1>6. ASSUME NEW q \in p .. Len(units)
      PROVE  \/ LengthAt(fs, units, q)
             \/ IF q = p THEN LooseAt(fs, units, q) ELSE WordAt(units, q)
             \/ CommandAt(fs, units, q)
    <2>1. CASE q = p
        BY <1>2, <1>5, <2>1 DEF LooseAt, line
    <2>2. CASE q # p
        <3>1. q \in r + 1 .. Len(units) /\ q # r + 1 /\ q \in 1 .. Len(units) /\ q > p
            BY <1>2, <2>2
        <3>2. LengthAt(es, units, q) \/ WordAt(units, q) \/ CommandAt(es, units, q)
            BY <3>1 DEF Laid
        <3>3. fs[q] = es[q]
            BY <1>5, <2>2, <3>1
        <3>4. LengthAt(es, units, q) => LengthAt(fs, units, q)
            <4>1. SUFFICES ASSUME LengthAt(es, units, q)
                           PROVE  LengthAt(fs, units, q)
                OBVIOUS
            <4>2. q + 1 \in 1 .. Len(units) /\ q + 1 # p
                BY <1>2, <3>1, <4>1 DEF LengthAt
            <4>3. fs[q + 1] = es[q + 1]
                BY <1>5, <4>2
            <4> QED
                BY <3>3, <4>1, <4>3 DEF LengthAt
        <3>5. CommandAt(es, units, q) => CommandAt(fs, units, q)
            BY <3>3 DEF CommandAt
        <3> QED
            BY <2>2, <3>2, <3>4, <3>5
    <2> QED
        BY <2>1, <2>2
<1>7. Laid(fs, units, r + 1)
    BY <1>4, <1>6 DEF Laid
<1> QED
    BY <1>7 DEF fs, line

\* Every unit that is next has a line.
LEMMA FirstNotEmpty ==
    ASSUME NEW units, NEW es, NEW r \in Nat, Laid(es, units, r), Len(units) \in Nat, r < Len(units)
    PROVE  es[r + 1] \in Seq(Lines) /\ Len(es[r + 1]) \in Nat \ {0}
<1>1. r + 1 \in r + 1 .. Len(units) /\ r + 1 \in 1 .. Len(units)
    OBVIOUS
<1>2. es[r + 1] \in Seq(Lines)
    BY <1>1 DEF Laid
<1>3. LengthAt(es, units, r + 1) \/ LooseAt(es, units, r + 1) \/ CommandAt(es, units, r + 1)
    BY <1>1 DEF Laid
<1>4. CASE LengthAt(es, units, r + 1) \/ LooseAt(es, units, r + 1)
    <2>1. \E line : es[r + 1] = <<line>>
        BY <1>4 DEF LengthAt, LooseAt
    <2>2. es[r + 1] # <<>>
        BY <2>1
    <2> QED
        BY <1>2, <2>2
<1>5. CASE CommandAt(es, units, r + 1)
    <2> DEFINE u == units[r + 1]
               n == Len(u.words)
    <2>1. EncodedAs(u, es[r + 1], n)
        BY <1>5 DEF CommandAt
    <2> HIDE DEF u, n
    <2>2. n \in Nat /\ (Len(es[r + 1]) = n + 1 \/ Len(es[r + 1]) = n + 2 \/ Len(es[r + 1]) = 1)
        BY <2>1 DEF EncodedAs, CommandForms
    <2> QED
        BY <1>2, <2>2
<1> QED
    BY <1>3, <1>4, <1>5
----------------------------------------------------------------------------
\* A command of n words that is being read: k of them have been taken, and the
\* lines that are left hold the others, and one more if it breaks off.
ReadingAs(u, taken, lacking, lines, n, k, extra) ==
    /\ u.form \in {"array", "short", "cut"} /\ k <= n
    /\ \A i \in 1 .. k : taken[i] = u.words[i]
    /\ lacking = n - k + extra /\ lacking > 0
    /\ \A i \in 1 .. n - k : lines[i] = Line("$", 0, <<u.words[k + i]>>)
    /\ u.form = "cut" => lines[n - k + 1].tag # "$"

Extra(u) == IF u.form = "array" THEN 0 ELSE 1

Reading(u, n) ==
    /\ ReadingAs(u, args, missing, input, Len(u.words), Len(args), Extra(u))
    /\ n = missing - (IF u.form = "short" THEN 1 ELSE 0)

Serving(r, n) == r > 0 /\ n = 0 /\ args = Heard[r].words

\* A crush stream owes the keys that it has announced and not sent.
Streaming(n) ==
    /\ sent <= MaxRows
    /\ sent = MaxRows => Between(n)
    /\ sent < MaxRows =>
           \E done \in Seq(Seq(Frames)), current \in Seq(Frames) :
               /\ Cut = CutInto(done, current, MaxRows - sent)
               /\ Len(done) = n - 1
               /\ current # <<>> /\ current[1].tag = "*"

\* r units have been begun, and n lines are left of the last one.
Phase(r, n) ==
    /\ r > 0 /\ pc # "args" => Heard[r].form # "short"
    /\ pc = "ready" => n = 0 /\ Between(Deserving(Heard, r))
    /\ pc = "args" => /\ r > 0 /\ Reading(Heard[r], n)
                      /\ Between(Deserving(Heard, r - 1))
    /\ pc \in {"haunt", "act"} => Serving(r, n) /\ Between(Deserving(Heard, r) - 1)
    /\ pc = "stream" => /\ Serving(r, n) /\ args[1] = "KEYS"
                        /\ Streaming(Deserving(Heard, r))

Placed(r, es, at) ==
    /\ r \in 0 .. Len(Heard)
    /\ Laid(es, Heard, r)
    /\ Unread(input, es, r, at)
    /\ Phase(r, at[r])

ReplyInv ==
    /\ QuitInv
    /\ asked \in Seq(Commands)
    /\ OneOpen(Heard)
    /\ Matched(Cut.done, Heard)
    /\ pc # "closed" => \E r, es, at : Placed(r, es, at)

LEMMA HeardIsUnits ==
    ASSUME asked \in Seq(Commands)
    PROVE  Heard \in Seq(Units) /\ Len(Heard) \in Nat /\ DOMAIN Heard = 1 .. Len(Heard)
<1>1. Heard \in Seq(Units)
    BY UnderstoodIsFold DEF Heard
<1> QED
    BY <1>1

\* The next unit, its first line taken.
Begun(r, es, less) ==
    /\ Laid(es, Heard, r - 1)
    /\ Head(input) = es[r][1]
    /\ Unread(Tail(input), es, r, less)
    /\ less[r] = Len(es[r]) - 1
    /\ \A i \in 1 .. less[r] : Tail(input)[i] = es[r][i + 1]
    /\ Between(Deserving(Heard, r - 1))

\* When the session is ready, the next line is the first of a unit.
LEMMA NextUnit ==
    ASSUME ReplyInv, pc = "ready", input # <<>>
    PROVE  \E r \in 1 .. Len(Heard) : \E es, less : Begun(r, es, less)
<1>1. input \in Seq(Lines) /\ Len(input) \in Nat \ {0} /\ Len(Heard) \in Nat
    BY HeardIsUnits DEF ReplyInv, QuitInv, WellFormed
<1>2. PICK q, es, at : Placed(q, es, at)
    BY DEF ReplyInv
<1>3. /\ q \in 0 .. Len(Heard) /\ Laid(es, Heard, q) /\ Unread(input, es, q, at)
      /\ at[q] = 0 /\ Between(Deserving(Heard, q))
      /\ es \in Seq(Seq(Lines)) /\ Len(es) = Len(Heard)
    BY <1>2 DEF Placed, Phase, Laid
<1>4. q < Len(Heard) /\ q \in Nat
    <2>1. at[Len(Heard)] = Len(input)
        BY <1>3 DEF Unread
    <2>2. q # Len(Heard)
        BY <1>1, <1>3, <2>1
    <2> QED
        BY <1>1, <1>3, <2>2
<1> DEFINE r == q + 1
<1>5. r \in 1 .. Len(Heard) /\ r \in 0 .. Len(es) /\ r - 1 = q
    BY <1>1, <1>3, <1>4
<1>6. PICK rest : /\ Unread(input, es, r, rest)
                  /\ rest[r] = Len(es[r])
                  /\ \A i \in 1 .. rest[r] : input[i] = es[r][i]
    <2>1. q \in 0 .. Len(es) /\ q < Len(es)
        BY <1>3, <1>4
    <2> QED
        BY <1>1, <1>3, <2>1, UnreadNext
<1>7. Len(es[r]) \in Nat \ {0}
    BY <1>1, <1>3, <1>4, FirstNotEmpty
<1> HIDE DEF r
<1>8. PICK less : /\ Unread(Tail(input), es, r, less)
                  /\ less[r] = rest[r] - 1
                  /\ \A i \in 1 .. less[r] : Tail(input)[i] = input[i + 1]
    <2>1. rest[r] > 0
        BY <1>6, <1>7
    <2>2. Shifted(input, es, r, rest)
        BY <1>1, <1>3, <1>5, <1>6, <2>1, UnreadTail
    <2> QED
        BY <2>2, Zenon DEF Shifted
<1>9. Head(input) = es[r][1]
    <2>1. Head(input) = input[1] /\ 1 \in 1 .. rest[r]
        BY <1>1, <1>6, <1>7
    <2> QED
        BY <1>6, <2>1
<1>10. \A i \in 1 .. less[r] : Tail(input)[i] = es[r][i + 1]
    <2> TAKE i \in 1 .. less[r]
    <2>1. i + 1 \in 1 .. rest[r]
        BY <1>6, <1>7, <1>8
    <2> QED
        BY <1>6, <1>8, <2>1
<1>11. Begun(r, es, less)
    BY <1>3, <1>5, <1>6, <1>8, <1>9, <1>10 DEF Begun
<1> QED
    BY <1>5, <1>11

\* A whole command is served if it has a word, and passed over if it has none.
LEMMA GivenPhase ==
    ASSUME asked \in Seq(Commands), NEW r \in 1 .. Len(Heard), Heard[r].form # "short",
           Given(Heard[r].words) \/ (pc' = "ready" /\ Heard[r].words = <<>>),
           Between(Deserving(Heard, r - 1)), asked' = asked, wire' = wire
    PROVE  Phase(r, 0)'
<1>0. Heard' = Heard
    BY DEF Heard
<1>1. \A n : Between(n)' <=> Between(n)
    BY DEF Between, Cut
<1>2. r \in Nat /\ r > 0 /\ r - 1 \in Nat /\ (r - 1) + 1 = r
    OBVIOUS
<1>3. /\ Deserving(Heard, r) = Deserving(Heard, r - 1) + (IF Heard[r].words # <<>> THEN 1 ELSE 0)
      /\ Deserving(Heard, r - 1) \in Nat
    <2> DEFINE q == r - 1
    <2>1. q \in Nat /\ q + 1 = r /\ q <= q
        BY <1>2
    <2> HIDE DEF q
    <2>2. Deserving(Heard, q) \in Nat
        BY <2>1, DeservingIsNat
    <2>3. Deserving(Heard, q + 1) =
              Deserving(Heard, q) + (IF Heard[q + 1].words # <<>> THEN 1 ELSE 0)
        BY <2>1, DeservingGrows
    <2> QED
        BY <2>1, <2>2, <2>3 DEF q
<1>4. CASE Heard[r].words = <<>>
    <2>1. pc' = "ready" /\ Deserving(Heard, r) = Deserving(Heard, r - 1)
        BY <1>3, <1>4 DEF Given
    <2> QED
        BY <1>0, <1>1, <2>1 DEF Phase
<1>5. CASE Heard[r].words # <<>>
    <2>1. pc' \in {"haunt", "act"} /\ args' = Heard[r].words
        BY <1>5 DEF Given
    <2>2. Deserving(Heard, r) - 1 = Deserving(Heard, r - 1)
        BY <1>3, <1>5
    <2> QED
        BY <1>0, <1>1, <1>2, <2>1, <2>2 DEF Phase, Serving
<1> QED
    BY <1>4, <1>5

\* What the read steps, which write nothing, have to show.
LEMMA PhaseSuffices ==
    ASSUME ReplyInv, QuitInv', asked' = asked, wire' = wire,
           NEW r \in 0 .. Len(Heard), NEW es, Laid(es, Heard, r),
           NEW at, Unread(input', es, r, at), Phase(r, at[r])'
    PROVE  ReplyInv'
<1>1. Cut' = Cut /\ Heard' = Heard
    BY DEF Cut, Heard
<1>2. Matched(Cut.done, Heard)' /\ asked' \in Seq(Commands) /\ OneOpen(Heard)'
    BY <1>1 DEF ReplyInv
<1>3. Placed(r, es, at)'
    BY <1>1 DEF Placed
<1> QED
    BY <1>2, <1>3 DEF ReplyInv
----------------------------------------------------------------------------
\* What a unit can be that is next.
LEMMA FirstUnit ==
    ASSUME asked \in Seq(Commands), NEW r \in 1 .. Len(Heard), NEW es, Laid(es, Heard, r - 1)
    PROVE  /\ LengthAt(es, Heard, r) \/ LooseAt(es, Heard, r) \/ CommandAt(es, Heard, r)
           /\ Heard[r].form # "length" => Laid(es, Heard, r)
<1>1. Len(Heard) \in Nat
    BY HeardIsUnits
<1> DEFINE q == r - 1
<1>2. q \in Nat /\ r \in q + 1 .. Len(Heard) /\ r = q + 1
    BY <1>1
<1>3. LengthAt(es, Heard, r) \/ LooseAt(es, Heard, r) \/ CommandAt(es, Heard, r)
    BY <1>2 DEF Laid
<1> HIDE DEF q
<1>4. Laid(es, Heard, q)
    BY DEF q
<1> QED
    BY <1>1, <1>2, <1>3, <1>4, LaidNext

\* The line of a word on its own, and what it is as a command.
LEMMA BareForms ==
    ASSUME NEW w \in Word
    PROVE  /\ Bare(w).tag \in {"*", "text", "blank"} /\ Bare(w).n = 0
           /\ Bare(w).tag \in {"*", "blank"} => Loose(w) = <<>>
           /\ Bare(w).tag = "text" => Bare(w).words = Loose(w)
           /\ Bare(w) \in Lines
<1>0. Bare(w) \in Lines
    <2> DEFINE line == Line("$", 0, <<w>>)
    <2>1. line \in Lines
        BY StringIsLine
    <2>2. line.tag = "$" /\ line.words[1] = w
        BY DEF Line
    <2> HIDE DEF line
    <2> QED
        BY <2>1, <2>2, BareIsLine
<1>1. CASE w \in {"", "*"}
    <2>1. Bare(w) = Line("blank", 0, <<>>) \/ Bare(w) = Line("*", 0, <<>>)
        BY <1>1 DEF Bare
    <2>2. Loose(w) = <<>>
        BY <1>1 DEF Loose
    <2>3. Bare(w).tag \in {"*", "blank"} /\ Bare(w).n = 0
        BY <2>1 DEF Line
    <2>4. "text" \notin {"*", "blank"}
        OBVIOUS
    <2> QED
        BY <1>0, <2>2, <2>3, <2>4
<1>2. CASE w \notin {"", "*"}
    <2>1. Bare(w) = Line("text", 0, <<w>>)
        BY <1>2 DEF Bare
    <2>2. Loose(w) = <<w>>
        BY <1>2 DEF Loose
    <2> QED
        BY <1>0, <2>1, <2>2 DEF Line
<1> QED
    BY <1>1, <1>2

\* An array's header: of no words, or of words that are still to come.
LEMMA HeaderStep ==
    ASSUME ReplyInv, QuitInv', ReadHeader
    PROVE  ReplyInv'
<1>0. /\ pc = "ready" /\ input # <<>> /\ Head(input).tag = "*" /\ input' = Tail(input)
      /\ wire' = wire /\ asked' = asked /\ asked \in Seq(Commands) /\ Heard' = Heard
    BY DEF ReadHeader, ReplyInv, Heard
<1>r. PICK r \in 1 .. Len(Heard) : \E es, less : Begun(r, es, less)
    BY <1>0, NextUnit
<1>1. PICK es, less : Begun(r, es, less)
    BY <1>r
<1> DEFINE u == Heard[r]
           e == es[r]
           n == Len(u.words)
<1>2. r \in 0 .. Len(Heard) /\ r > 0
    BY <1>0, HeardIsUnits
<1>3. /\ Laid(es, Heard, r - 1) /\ Unread(input', es, r, less) /\ less[r] = Len(e) - 1
      /\ Head(input) = e[1]
      /\ \A i \in 1 .. less[r] : input'[i] = e[i + 1]
      /\ Between(Deserving(Heard, r - 1))
    BY <1>0, <1>1 DEF Begun
<1>4. LengthAt(es, Heard, r) \/ LooseAt(es, Heard, r) \/ CommandAt(es, Heard, r)
    BY <1>0, <1>3, FirstUnit
<1>5. ~ LengthAt(es, Heard, r)
    <2> SUFFICES ASSUME LengthAt(es, Heard, r) PROVE FALSE
        OBVIOUS
    <2>1. PICK w : e = <<Line("$", 0, <<w>>)>>
        BY DEF LengthAt
    <2>2. Head(input).tag = "$"
        BY <1>3, <2>1 DEF Line
    <2> QED
        BY <1>0, <2>2
<1>6. Phase(r, less[r])' /\ u.form # "length"
    <2>1. CASE LooseAt(es, Heard, r)
        <3>1. PICK w \in Word : e = <<Bare(w)>> /\ u.words = Loose(w)
            BY <2>1 DEF LooseAt
        <3>2. Head(input) = Bare(w) /\ less[r] = 0
            BY <1>3, <3>1
        <3>3. u.words = <<>> /\ Head(input).n = 0
            BY <1>0, <3>1, <3>2, BareForms
        <3>4. Given(u.words)
            BY <3>3 DEF ReadHeader
        <3>5. u.form = "word"
            BY <2>1 DEF LooseAt
        <3> QED
            BY <1>0, <1>3, <3>2, <3>4, <3>5, GivenPhase
    <2>2. CASE CommandAt(es, Heard, r)
        <3>1. EncodedAs(u, e, n)
            BY <2>2 DEF CommandAt
        <3>n. n \in Nat /\ n = Len(u.words) /\ u.words \in Seq(Word)
            BY <3>1 DEF EncodedAs
        <3> HIDE DEF e, n, u
        <3>2. u.form \in {"array", "short", "cut", "none"}
            BY <1>0, <1>3, <3>1 DEF EncodedAs, CommandForms, Line
        <3>3. CASE u.words = <<>> /\ u.form \in {"array", "none"}
            <4>0. n = 0
                BY <3>n, <3>3
            <4>1. Head(input) = Line("*", 0, <<>>) /\ Len(e) = 1
                BY <1>3, <3>1, <3>3, <4>0 DEF EncodedAs
            <4>2. Head(input).n = 0 /\ less[r] = 0
                BY <1>3, <4>1 DEF Line
            <4>3. Given(u.words)
                BY <3>3, <4>2 DEF ReadHeader
            <4>4. Given(Heard[r].words) /\ Heard[r].form # "short"
                BY <3>3, <4>3 DEF u
            <4> QED
                BY <1>0, <1>3, <3>3, <4>2, <4>4, GivenPhase
        <3>4. CASE u.form \in {"array", "short", "cut"} /\ (u.form = "array" => u.words # <<>>)
            <4> DEFINE extra == Extra(u)
                       k == n + extra
            <4>1. extra \in {0, 1} /\ k \in Nat /\ k # 0
                <5>1. extra \in {0, 1} /\ (u.form # "array" => extra = 1)
                    BY DEF Extra
                <5>2. u.form = "array" => n # 0
                    BY <3>n, <3>4
                <5> HIDE DEF extra
                <5> QED
                    BY <3>n, <5>1, <5>2
            <4>2. Head(input) = Line("*", k, <<>>)
                BY <1>3, <3>1, <3>4, <3>n DEF EncodedAs, Extra
            <4>3. Head(input).n = k
                BY <4>2 DEF Line
            <4>4. less[r] = k - (IF u.form = "short" THEN 1 ELSE 0)
                BY <1>3, <3>1, <3>4, <3>n DEF EncodedAs, Extra
            <4>5. args' = <<>> /\ missing' = k /\ pc' = "args"
                BY <4>1, <4>3 DEF ReadHeader
            <4>6. \A i \in 1 .. n : input'[i] = Line("$", 0, <<u.words[i]>>)
                <5> TAKE i \in 1 .. n
                <5>1. i \in 1 .. less[r]
                    <6>0. less[r] = (n + extra) - (IF u.form = "short" THEN 1 ELSE 0)
                        BY <4>4
                    <6>1. less[r] = n \/ less[r] = n + 1
                        <7>1. (u.form = "array" => extra = 0) /\ (u.form # "array" => extra = 1)
                            BY DEF Extra
                        <7> HIDE DEF extra, k
                        <7> QED
                            BY <3>n, <6>0, <7>1
                    <6> QED
                        BY <3>n, <6>1
                <5>2. e[i + 1] = Line("$", 0, <<u.words[i]>>)
                    BY <3>1, <3>4 DEF EncodedAs
                <5> QED
                    BY <1>3, <5>1, <5>2
            <4>7. u.form = "cut" => input'[n + 1].tag # "$"
                <5> SUFFICES ASSUME u.form = "cut" PROVE input'[n + 1].tag # "$"
                    OBVIOUS
                <5>1. n + 1 \in 1 .. less[r] /\ (n + 1) + 1 = n + 2
                    BY <3>n, <4>4 DEF Extra
                <5>2. e[n + 2].tag # "$"
                    BY <3>1 DEF EncodedAs
                <5> QED
                    BY <1>3, <5>1, <5>2
            <4> HIDE DEF extra, k
            <4>8. ReadingAs(u, args', missing', input', n, 0, extra)
                <5>1. /\ 0 <= n /\ n - 0 = n /\ missing' = n - 0 + extra /\ missing' > 0
                      /\ \A i \in 1 .. n : 0 + i = i
                    BY <3>n, <4>1, <4>5 DEF k
                <5> QED
                    BY <3>4, <4>5, <4>6, <4>7, <5>1 DEF ReadingAs
            <4>9. Reading(Heard[r], less[r])'
                <5>1. Len(args') = 0
                    BY <4>5
                <5>2. ReadingAs(u, args', missing', input', Len(u.words), Len(args'), Extra(u))
                    BY <3>n, <4>8, <5>1 DEF extra
                <5>3. less[r] = missing' - (IF u.form = "short" THEN 1 ELSE 0)
                    BY <4>4, <4>5
                <5> QED
                    BY <1>0, <5>2, <5>3 DEF Reading, u
            <4>10. Between(Deserving(Heard, r - 1))'
                BY <1>0, <1>3 DEF Between, Cut
            <4>11. Phase(r, less[r])'
                BY <1>0, <1>2, <4>5, <4>9, <4>10 DEF Phase
            <4> QED
                BY <3>4, <4>11
        <3>5. u.form = "none" => u.words = <<>>
            BY <3>1 DEF EncodedAs
        <3> QED
            BY <3>2, <3>3, <3>4, <3>5
    <2> QED
        BY <1>4, <1>5, <2>1, <2>2
<1>7. Laid(es, Heard, r)
    BY <1>0, <1>3, <1>6, FirstUnit
<1> QED
    BY <1>0, <1>2, <1>3, <1>6, <1>7, PhaseSuffices

\* A line is a command, a word alone too; a blank line is passed over.
LEMMA LineStep ==
    ASSUME ReplyInv, QuitInv', ReadInline \/ SkipBlank, Head(input).tag # "$"
    PROVE  ReplyInv'
<1>0. /\ pc = "ready" /\ input # <<>> /\ input' = Tail(input)
      /\ wire' = wire /\ asked' = asked /\ asked \in Seq(Commands) /\ Heard' = Heard
      /\ Head(input).tag = "blank" => pc' = "ready"
      /\ Head(input).tag # "blank" => Given(Head(input).words) /\ Head(input).tag # "*"
    BY DEF ReadInline, SkipBlank, ReplyInv, Heard
<1>t. Head(input).tag # "*"
    BY DEF ReadInline, SkipBlank
<1>r. PICK r \in 1 .. Len(Heard) : \E es, less : Begun(r, es, less)
    BY <1>0, NextUnit
<1>1. PICK es, less : Begun(r, es, less)
    BY <1>r
<1> DEFINE u == Heard[r]
           e == es[r]
           n == Len(u.words)
<1>2. r \in 0 .. Len(Heard) /\ r > 0
    BY <1>0, HeardIsUnits
<1>3. /\ Laid(es, Heard, r - 1) /\ Unread(input', es, r, less) /\ less[r] = Len(e) - 1
      /\ Head(input) = e[1]
      /\ Between(Deserving(Heard, r - 1))
    BY <1>0, <1>1 DEF Begun
<1>4. LengthAt(es, Heard, r) \/ LooseAt(es, Heard, r) \/ CommandAt(es, Heard, r)
    BY <1>0, <1>3, FirstUnit
<1>5. ~ LengthAt(es, Heard, r)
    <2> SUFFICES ASSUME LengthAt(es, Heard, r) PROVE FALSE
        OBVIOUS
    <2>1. PICK w : e = <<Line("$", 0, <<w>>)>>
        BY DEF LengthAt
    <2>2. Head(input).tag = "$"
        BY <1>3, <2>1 DEF Line
    <2> QED
        BY <1>0, <2>2
<1>6. /\ less[r] = 0 /\ u.form \notin {"length", "short"}
      /\ Head(input).tag = "blank" => u.words = <<>>
      /\ Head(input).tag # "blank" => Head(input).words = u.words
    <2>1. CASE LooseAt(es, Heard, r)
        <3>1. PICK w \in Word : e = <<Bare(w)>> /\ u.words = Loose(w)
            BY <2>1 DEF LooseAt
        <3>2. Head(input) = Bare(w) /\ less[r] = 0
            BY <1>3, <3>1
        <3>3. u.form = "word"
            BY <2>1 DEF LooseAt
        <3> QED
            BY <1>t, <3>1, <3>2, <3>3, BareForms
    <2>2. CASE CommandAt(es, Heard, r)
        <3>1. EncodedAs(u, e, n)
            BY <2>2 DEF CommandAt
        <3> HIDE DEF e, n, u
        <3>2. u.form \in {"inline", "blank"}
            BY <1>3, <1>t, <3>1 DEF EncodedAs, CommandForms, Line
        <3>3. CASE u.form = "inline"
            <4>1. Head(input) = Line("text", 0, u.words) /\ Len(e) = 1
                BY <1>3, <3>1, <3>3 DEF EncodedAs
            <4> QED
                BY <1>3, <3>3, <4>1 DEF Line
        <3>4. CASE u.form = "blank"
            <4>1. Head(input) = Line("blank", 0, <<>>) /\ Len(e) = 1 /\ u.words = <<>>
                BY <1>3, <3>1, <3>4 DEF EncodedAs
            <4> QED
                BY <1>3, <3>4, <4>1 DEF Line
        <3> QED
            BY <3>2, <3>3, <3>4
    <2> QED
        BY <1>4, <1>5, <2>1, <2>2
<1>7. Phase(r, less[r])'
    <2>1. Given(Heard[r].words) \/ (pc' = "ready" /\ Heard[r].words = <<>>)
        BY <1>0, <1>6
    <2> QED
        BY <1>0, <1>3, <1>6, <2>1, GivenPhase
<1>8. Laid(es, Heard, r)
    BY <1>0, <1>3, <1>6, FirstUnit
<1> QED
    BY <1>0, <1>2, <1>3, <1>7, <1>8, PhaseSuffices

\* The length line of a string that no array claims is one, too.
LEMMA LengthStep ==
    ASSUME ReplyInv, QuitInv', ReadInline, Head(input).tag = "$"
    PROVE  ReplyInv'
<1>0. /\ pc = "ready" /\ input # <<>> /\ input' = <<Bare(Head(input).words[1])>> \o Tail(input)
      /\ wire' = wire /\ asked' = asked /\ asked \in Seq(Commands) /\ Heard' = Heard
      /\ Given(<<"$">>) /\ input \in Seq(Lines)
    BY DEF ReadInline, ReplyInv, QuitInv, WellFormed, Heard
<1>r. PICK r \in 1 .. Len(Heard) : \E es, less : Begun(r, es, less)
    BY <1>0, NextUnit
<1>1. PICK es, less : Begun(r, es, less)
    BY <1>r
<1> DEFINE u == Heard[r]
           e == es[r]
<1>2. r \in 0 .. Len(Heard) /\ r > 0 /\ r \in Nat /\ r - 1 \in Nat /\ (r - 1) + 1 = r
      /\ Len(Heard) \in Nat
    BY <1>0, HeardIsUnits
<1>3. /\ Laid(es, Heard, r - 1) /\ Unread(Tail(input), es, r, less) /\ less[r] = Len(e) - 1
      /\ Head(input) = e[1]
      /\ Between(Deserving(Heard, r - 1))
    BY <1>1 DEF Begun
<1>4. LengthAt(es, Heard, r) \/ LooseAt(es, Heard, r) \/ CommandAt(es, Heard, r)
    BY <1>0, <1>3, FirstUnit
<1>5. ~ LooseAt(es, Heard, r)
    <2> SUFFICES ASSUME LooseAt(es, Heard, r) PROVE FALSE
        OBVIOUS
    <2>1. PICK w \in Word : e = <<Bare(w)>>
        BY DEF LooseAt
    <2>2. Head(input) = Bare(w)
        BY <1>3, <2>1
    <2> QED
        BY <2>2, BareForms
<1>6. ~ CommandAt(es, Heard, r)
    <2> SUFFICES ASSUME CommandAt(es, Heard, r) PROVE FALSE
        OBVIOUS
    <2>1. EncodedAs(u, e, Len(u.words))
        BY DEF CommandAt
    <2> HIDE DEF u, e
    <2> QED
        BY <1>3, <2>1 DEF EncodedAs, CommandForms, Line
<1>7. LengthAt(es, Heard, r)
    BY <1>4, <1>5, <1>6
<1>8. PICK w \in Word : e = <<Line("$", 0, <<w>>)>> /\ Heard[r + 1].words = Loose(w)
    BY <1>7 DEF LengthAt
<1>9. less[r] = 0 /\ Head(input).words[1] = w
    <2>1. Head(input) = Line("$", 0, <<w>>) /\ Len(e) = 1
        BY <1>3, <1>8
    <2> QED
        BY <1>3, <2>1 DEF Line
<1>10. Bare(w) \in Lines
    BY BareForms
<1> DEFINE fs == [es EXCEPT ![r + 1] = <<Bare(w)>>]
<1>11. Laid(fs, Heard, r)
    <2> DEFINE q == r - 1
    <2>1. q \in Nat /\ q + 1 = r /\ (q + 1) + 1 = r + 1
        BY <1>2
    <2>2. Laid(es, Heard, q)
        BY <1>3
    <2> HIDE DEF q, fs
    <2>3. LengthAt(es, Heard, q + 1) /\ Heard[(q + 1) + 1].words = Loose(w)
        BY <1>7, <1>8, <2>1
    <2>4. Laid([es EXCEPT ![(q + 1) + 1] = <<Bare(w)>>], Heard, q + 1)
        BY <1>2, <1>10, <2>1, <2>2, <2>3, LaidWord
    <2> QED
        BY <2>1, <2>4 DEF fs
<1>12. PICK more : Unread(<<Bare(w)>> \o Tail(input), fs, r, more) /\ more[r] = 0
    <2>1. /\ es \in Seq(Seq(Lines)) /\ Len(es) = Len(Heard) /\ r \in 0 .. Len(es) /\ r < Len(es)
          /\ es[r + 1] = <<>>
        BY <1>2, <1>3, <1>7 DEF Laid, LengthAt
    <2>2. Tail(input) \in Seq(Lines)
        BY <1>0
    <2> DEFINE lines == Tail(input)
               b == Bare(w)
    <2> HIDE DEF lines, b
    <2>3. b \in Lines /\ lines \in Seq(Lines) /\ Unread(lines, es, r, less) /\ less[r] = 0
        BY <1>3, <1>9, <1>10, <2>2 DEF lines, b
    <2>4. \E more : Unread(<<b>> \o lines, [es EXCEPT ![r + 1] = <<b>>], r, more) /\ more[r] = 0
        BY <2>1, <2>3, UnreadPut
    <2> QED
        BY <2>4 DEF lines, b
<1> HIDE DEF fs
<1>13. Unread(input', fs, r, more)
    BY <1>0, <1>9, <1>12
<1>14. Phase(r, more[r])'
    <2>1. Heard[r].words = <<"$">> /\ Heard[r].form = "length"
        BY <1>7 DEF LengthAt
    <2> QED
        BY <1>0, <1>3, <1>12, <2>1, GivenPhase
<1> QED
    BY <1>0, <1>2, <1>11, <1>13, <1>14, PhaseSuffices

\* While a command is read, the first of its lines that are left goes.
LEMMA ReadingNext ==
    ASSUME ReplyInv, pc = "args", input # <<>>, asked' = asked, input' = Tail(input)
    PROVE  \E r \in 1 .. Len(Heard) : \E es, at, less :
               /\ Reading(Heard[r], at[r]) /\ Between(Deserving(Heard, r - 1))
               /\ Laid(es, Heard, r) /\ Unread(input', es, r, less) /\ less[r] = at[r] - 1
               /\ \A i \in 1 .. at[r] - 1 : input'[i] = input[i + 1]
               /\ Head(input) = input[1] /\ at[r] > 0
<1>1. input \in Seq(Lines) /\ Len(Heard) \in Nat /\ Len(input) \in Nat \ {0} /\ Heard' = Heard
      /\ OneOpen(Heard)
    BY HeardIsUnits DEF ReplyInv, QuitInv, WellFormed, Heard
<1>2. PICK r, es, at : Placed(r, es, at)
    BY DEF ReplyInv
<1>3. /\ r \in 0 .. Len(Heard) /\ Laid(es, Heard, r) /\ Unread(input, es, r, at)
      /\ r > 0 /\ Reading(Heard[r], at[r]) /\ Between(Deserving(Heard, r - 1))
      /\ es \in Seq(Seq(Lines)) /\ Len(es) = Len(Heard)
    BY <1>2 DEF Placed, Phase, Laid
<1>4. r \in 1 .. Len(Heard)
    BY <1>1, <1>3
<1>5. at[r] \in Nat /\ (r = Len(Heard) => at[r] = Len(input))
    <2>1. r \in r .. Len(es)
        BY <1>1, <1>3
    <2> QED
        BY <1>1, <1>3, <2>1 DEF Unread
<1>6. at[r] > 0
    <2> DEFINE form == Heard[r].form
    <2>1. missing > 0 /\ at[r] = missing - (IF form = "short" THEN 1 ELSE 0)
        BY <1>3 DEF Reading, ReadingAs
    <2>2. form = "short" => at[r] = Len(input)
        BY <1>4, <1>5, <1>1 DEF OneOpen
    <2>3. CASE form = "short"
        BY <1>1, <2>2, <2>3
    <2>4. CASE form # "short"
        <3>1. at[r] = missing - 0
            BY <2>1, <2>4
        <3>2. missing \in Int
            <4> DEFINE n == Len(Heard[r].words)
                       k == Len(args)
                       extra == Extra(Heard[r])
            <4>1. n \in Nat /\ k \in Nat /\ extra \in {0, 1}
                <5>1. asked \in Seq(Commands)
                    BY DEF ReplyInv
                <5>2. Heard[r] \in Units
                    BY <1>4, <5>1, HeardIsUnits
                <5> QED
                    BY <5>2 DEF Units, Extra, ReplyInv, QuitInv, WellFormed
            <4>2. missing = n - k + extra
                BY <1>3 DEF Reading, ReadingAs
            <4> HIDE DEF n, k, extra
            <4> QED
                BY <4>1, <4>2
        <3> QED
            BY <2>1, <3>1, <3>2
    <2> QED
        BY <2>3, <2>4
<1>7. PICK less : /\ Unread(Tail(input), es, r, less)
                  /\ less[r] = at[r] - 1
                  /\ \A i \in 1 .. less[r] : Tail(input)[i] = input[i + 1]
    <2>1. Shifted(input, es, r, at)
        BY <1>1, <1>3, <1>6, UnreadTail
    <2> QED
        BY <2>1, Zenon DEF Shifted
<1>8. Head(input) = input[1]
    BY <1>1
<1>9. \A i \in 1 .. at[r] - 1 : Tail(input)[i] = input[i + 1]
    BY <1>7
<1> QED
    BY <1>3, <1>4, <1>6, <1>7, <1>8, <1>9

\* A word: the last of its command, or one that others follow.
LEMMA StringStep ==
    ASSUME ReplyInv, QuitInv', ReadString
    PROVE  ReplyInv'
<1>0. /\ pc = "args" /\ input # <<>> /\ Head(input).tag = "$" /\ input' = Tail(input)
      /\ missing' = missing - 1 /\ wire' = wire /\ asked' = asked
      /\ asked \in Seq(Commands) /\ args \in Seq(Word) /\ args' \in Seq(Word) /\ Heard' = Heard
    BY DEF ReadString, ReplyInv, QuitInv, WellFormed, Heard
<1>r. PICK r \in 1 .. Len(Heard) : \E es, at, less :
          /\ Reading(Heard[r], at[r]) /\ Between(Deserving(Heard, r - 1))
          /\ Laid(es, Heard, r) /\ Unread(input', es, r, less) /\ less[r] = at[r] - 1
          /\ \A i \in 1 .. at[r] - 1 : input'[i] = input[i + 1]
          /\ Head(input) = input[1] /\ at[r] > 0
    BY <1>0, ReadingNext
<1>1. PICK es, at, less :
          /\ Reading(Heard[r], at[r]) /\ Between(Deserving(Heard, r - 1))
          /\ Laid(es, Heard, r) /\ Unread(input', es, r, less) /\ less[r] = at[r] - 1
          /\ \A i \in 1 .. at[r] - 1 : input'[i] = input[i + 1]
          /\ Head(input) = input[1] /\ at[r] > 0
    BY <1>r
<1>2. r \in 0 .. Len(Heard) /\ Heard[r] \in Units /\ r > 0
    BY <1>0, HeardIsUnits
<1> DEFINE u == Heard[r]
           n == Len(u.words)
           k == Len(args)
           extra == Extra(u)
           next == k + 1
<1>3. /\ n \in Nat /\ u.words \in Seq(Word) /\ k \in Nat
      /\ Len(u.words) = n /\ Len(args) = k
    BY <1>0, <1>2 DEF Units
<1>4. /\ u.form \in {"array", "short", "cut"} /\ k <= n
      /\ missing = n - k + extra /\ missing > 0
      /\ \A i \in 1 .. k : args[i] = u.words[i]
      /\ \A i \in 1 .. n - k : input[i] = Line("$", 0, <<u.words[k + i]>>)
      /\ u.form = "cut" => input[n - k + 1].tag # "$"
      /\ at[r] = missing - (IF u.form = "short" THEN 1 ELSE 0)
    BY <1>1 DEF Reading, ReadingAs
<1>e. extra = IF u.form = "array" THEN 0 ELSE 1
    BY DEF Extra
<1> HIDE DEF n, k, extra
<1>5. k < n /\ Head(input) = Line("$", 0, <<u.words[k + 1]>>)
    <2>1. SUFFICES ASSUME k = n PROVE FALSE
        <3>1. k < n => 1 \in 1 .. n - k
            BY <1>3
        <3>2. k < n \/ k = n
            BY <1>3, <1>4
        <3> QED
            BY <1>1, <1>4, <3>1, <3>2
    <2>2. missing = extra /\ n - k + 1 = 1
        BY <1>3, <1>4, <1>e, <2>1
    <2>3. CASE u.form = "cut"
        BY <1>0, <1>1, <1>4, <2>2, <2>3
    <2>4. CASE u.form = "short"
        BY <1>1, <1>4, <1>e, <2>2, <2>4
    <2>5. CASE u.form = "array"
        BY <1>4, <1>e, <2>2, <2>5
    <2> QED
        BY <1>4, <2>3, <2>4, <2>5
<1> DEFINE longer == args \o Head(input).words
<1>6. /\ longer \in Seq(Word) /\ Len(longer) = next
      /\ \A i \in 1 .. next : longer[i] = u.words[i]
    <2>1. Head(input).words = <<u.words[k + 1]>> /\ k + 1 \in 1 .. n
        BY <1>3, <1>5 DEF Line
    <2>2. u.words[k + 1] \in Word
        BY <1>3, <2>1
    <2>3. /\ args \o <<u.words[k + 1]>> \in Seq(Word)
          /\ Len(args \o <<u.words[k + 1]>>) = next
          /\ \A i \in 1 .. k : (args \o <<u.words[k + 1]>>)[i] = args[i]
          /\ (args \o <<u.words[k + 1]>>)[k + 1] = u.words[k + 1]
        <3>0. PICK w \in Word : w = u.words[k + 1]
            BY <2>2
        <3>1. Len(<<w>>) = 1 /\ <<w>>[1] = w /\ <<w>> \in Seq(Word)
            OBVIOUS
        <3>2. PICK last : last = <<w>>
            OBVIOUS
        <3>3. /\ args \o last \in Seq(Word) /\ Len(args \o last) = next
              /\ \A i \in 1 .. k : (args \o last)[i] = args[i]
              /\ (args \o last)[k + 1] = last[1]
            <4>1. last \in Seq(Word) /\ Len(last) = 1
                BY <3>1, <3>2
            <4>2. /\ args \o last \in Seq(Word) /\ Len(args \o last) = Len(args) + Len(last)
                  /\ \A i \in 1 .. Len(args) + Len(last) : (args \o last)[i] =
                         IF i <= Len(args) THEN args[i] ELSE last[i - Len(args)]
                BY <1>0, <4>1, ConcatProperties, Zenon
            <4>3. /\ \A i \in 1 .. k : i \in 1 .. k + 1 /\ i <= k
                  /\ k + 1 \in 1 .. k + 1 /\ ~ (k + 1 <= k) /\ (k + 1) - k = 1
                BY <1>3
            <4> QED
                BY <1>3, <4>1, <4>2, <4>3
        <3> QED
            BY <3>0, <3>1, <3>2, <3>3
    <2>4. \A i \in 1 .. next : i \in 1 .. k \/ i = k + 1
        BY <1>3
    <2> QED
        BY <1>4, <2>1, <2>3, <2>4
<1>7. Phase(r, less[r])'
    <2>1. CASE missing = 1
        <3>1. n = k + 1 /\ extra = 0
            BY <1>3, <1>4, <1>5, <1>e, <2>1
        <3>2. u.form = "array" /\ less[r] = 0
            BY <1>1, <1>4, <1>e, <2>1, <3>1
        <3> HIDE DEF longer
        <3>3. longer = u.words
            BY <1>3, <1>6, <3>1, SeqEqual
        <3>4. Given(Heard[r].words)
            BY <2>1, <3>3 DEF ReadString, longer
        <3> QED
            BY <1>0, <1>1, <3>2, <3>4, GivenPhase
    <2>2. CASE missing # 1
        <3>1. args' = longer /\ pc' = "args"
            BY <1>0, <2>2 DEF ReadString
        <3> HIDE DEF longer
        <3>2. /\ Len(args') = next /\ next <= n /\ missing' = n - next + extra /\ missing' > 0
              /\ \A i \in 1 .. next : args'[i] = u.words[i]
            BY <1>0, <1>3, <1>4, <1>5, <1>6, <1>e, <2>2, <3>1
        <3>3. less[r] = missing' - (IF u.form = "short" THEN 1 ELSE 0)
            BY <1>0, <1>1, <1>3, <1>4, <1>e
        <3>4. at[r] - 1 >= n - next /\ (u.form = "cut" => at[r] - 1 = n - k) /\ at[r] \in Int
            BY <1>3, <1>4, <1>e
        <3>5. \A i \in 1 .. n - next : input'[i] = Line("$", 0, <<u.words[next + i]>>)
            <4> TAKE i \in 1 .. n - next
            <4>1. i \in 1 .. at[r] - 1 /\ i + 1 \in 1 .. n - k /\ k + (i + 1) = next + i
                BY <1>3, <3>4
            <4> QED
                BY <1>1, <1>4, <4>1
        <3>6. u.form = "cut" => input'[n - next + 1].tag # "$"
            <4> SUFFICES ASSUME u.form = "cut" PROVE input'[n - next + 1].tag # "$"
                OBVIOUS
            <4>1. n - next + 1 \in 1 .. at[r] - 1 /\ (n - next + 1) + 1 = n - k + 1
                BY <1>3, <1>5, <3>4
            <4> QED
                BY <1>1, <1>4, <4>1
        <3>7. Reading(Heard[r], less[r])'
            <4>1. ReadingAs(u, args', missing', input', n, next, extra)
                BY <1>4, <3>2, <3>5, <3>6 DEF ReadingAs
            <4>2. Len(u.words) = n /\ extra = Extra(u)
                BY <1>3 DEF extra
            <4> QED
                BY <1>0, <3>2, <3>3, <4>1, <4>2 DEF Reading
        <3>8. Between(Deserving(Heard, r - 1))'
            BY <1>0, <1>1 DEF Between, Cut
        <3> QED
            BY <1>0, <1>2, <3>1, <3>7, <3>8 DEF Phase
    <2> QED
        BY <2>1, <2>2
<1> QED
    BY <1>0, <1>1, <1>2, <1>7, PhaseSuffices

\* A line that is no word breaks off a cut command, and nothing else.
LEMMA MalformedStep ==
    ASSUME ReplyInv, QuitInv', ReadMalformed
    PROVE  ReplyInv'
<1>0. /\ pc = "args" /\ input # <<>> /\ Head(input).tag # "$" /\ input' = Tail(input)
      /\ wire' = wire /\ asked' = asked /\ Given(args)
      /\ asked \in Seq(Commands) /\ args \in Seq(Word) /\ Heard' = Heard
    BY DEF ReadMalformed, ReplyInv, QuitInv, WellFormed, Heard
<1>r. PICK r \in 1 .. Len(Heard) : \E es, at, less :
          /\ Reading(Heard[r], at[r]) /\ Between(Deserving(Heard, r - 1))
          /\ Laid(es, Heard, r) /\ Unread(input', es, r, less) /\ less[r] = at[r] - 1
          /\ \A i \in 1 .. at[r] - 1 : input'[i] = input[i + 1]
          /\ Head(input) = input[1] /\ at[r] > 0
    BY <1>0, ReadingNext
<1>1. PICK es, at, less :
          /\ Reading(Heard[r], at[r]) /\ Between(Deserving(Heard, r - 1))
          /\ Laid(es, Heard, r) /\ Unread(input', es, r, less) /\ less[r] = at[r] - 1
          /\ \A i \in 1 .. at[r] - 1 : input'[i] = input[i + 1]
          /\ Head(input) = input[1] /\ at[r] > 0
    BY <1>r
<1>2. r \in 0 .. Len(Heard) /\ Heard[r] \in Units /\ r > 0
    BY <1>0, HeardIsUnits
<1> DEFINE u == Heard[r]
           n == Len(u.words)
           k == Len(args)
           extra == Extra(u)
<1>3. /\ n \in Nat /\ u.words \in Seq(Word) /\ k \in Nat
      /\ Len(u.words) = n /\ Len(args) = k
    BY <1>0, <1>2 DEF Units
<1>4. /\ u.form \in {"array", "short", "cut"} /\ k <= n
      /\ missing = n - k + extra /\ missing > 0
      /\ \A i \in 1 .. k : args[i] = u.words[i]
      /\ \A i \in 1 .. n - k : input[i] = Line("$", 0, <<u.words[k + i]>>)
      /\ u.form = "cut" => input[n - k + 1].tag # "$"
      /\ at[r] = missing - (IF u.form = "short" THEN 1 ELSE 0)
    BY <1>1 DEF Reading, ReadingAs
<1>e. extra = IF u.form = "array" THEN 0 ELSE 1
    BY DEF Extra
<1> HIDE DEF n, k, extra
<1>5. k = n /\ missing = 1 /\ u.form = "cut"
    <2>1. k = n
        <3>1. k < n => 1 \in 1 .. n - k
            BY <1>3
        <3>2. k < n => Head(input) = Line("$", 0, <<u.words[k + 1]>>)
            BY <1>1, <1>4, <3>1
        <3>3. ~ (k < n)
            BY <1>0, <3>2 DEF Line
        <3> QED
            BY <1>3, <1>4, <3>3
    <2>2. missing = extra
        BY <1>3, <1>4, <1>e, <2>1
    <2> QED
        BY <1>1, <1>4, <1>e, <2>1, <2>2
<1>6. args = u.words
    BY <1>0, <1>3, <1>4, <1>5, SeqEqual
<1>7. less[r] = 0
    BY <1>1, <1>4, <1>5
<1>8. Phase(r, less[r])'
    BY <1>0, <1>1, <1>5, <1>6, <1>7, GivenPhase
<1> QED
    BY <1>0, <1>1, <1>2, <1>8, PhaseSuffices
----------------------------------------------------------------------------
\* A served command gets its reply.
LEMMA ReplyWritten ==
    ASSUME ReplyInv, asked' = asked, NEW r \in 1 .. Len(Heard), Heard[r].words # <<>>,
           NEW done \in Seq(Seq(Frames)), Cut.done = done, Len(done) = Deserving(Heard, r) - 1,
           NEW reply \in Seq(Frames), Cut' = CutInto(Plus(done, reply), <<>>, 0),
           Answers(reply, Heard[r])
    PROVE  Matched(Cut.done, Heard)' /\ Between(Deserving(Heard, r))'
<1>1. Heard \in Seq(Units) /\ Matched(done, Heard) /\ Heard' = Heard
    BY HeardIsUnits DEF ReplyInv, Heard
<1>2. Matched(Plus(done, reply), Heard)
    BY <1>1, MatchedMore
<1>3. Cut'.done = Plus(done, reply)
    BY DEF CutInto
<1>4. Plus(done, reply) \in Seq(Seq(Frames)) /\ Len(Plus(done, reply)) = Len(done) + 1
    BY DEF Plus
<1>5. Deserving(Heard, r) \in Nat
    <2>1. r \in Nat /\ r <= r
        OBVIOUS
    <2> QED
        BY <2>1, DeservingIsNat
<1>6. Len(Plus(done, reply)) = Deserving(Heard, r)
    BY <1>4, <1>5
<1>7. Matched(Cut.done, Heard)'
    BY <1>1, <1>2, <1>3
<1> QED
    BY <1>1, <1>4, <1>6, <1>7 DEF Between

\* Where a command is served.
Served(r, es, at) ==
    /\ Laid(es, Heard, r) /\ Unread(input, es, r, at) /\ at[r] = 0
    /\ Heard[r].form # "short"
    /\ args = Heard[r].words /\ Heard[r].words # <<>>
    /\ pc \in {"haunt", "act"} => Between(Deserving(Heard, r) - 1)
    /\ pc = "stream" => args[1] = "KEYS" /\ Streaming(Deserving(Heard, r))

LEMMA ServedCommand ==
    ASSUME ReplyInv, pc \in {"haunt", "act", "stream"}
    PROVE  \E r \in 1 .. Len(Heard) : \E es, at : Served(r, es, at)
<1>1. PICK r, es, at : Placed(r, es, at)
    BY DEF ReplyInv
<1>2. Serving(r, at[r]) /\ args # <<>> /\ r \in 0 .. Len(Heard)
    BY <1>1 DEF Placed, Phase, ReplyInv, QuitInv, WellFormed
<1>3. r \in 1 .. Len(Heard)
    BY <1>2, HeardIsUnits DEF ReplyInv, Serving
<1>4. Served(r, es, at)
    BY <1>1, <1>2 DEF Placed, Phase, Serving, Served
<1> QED
    BY <1>3, <1>4

\* A ghost answers with an error, hangs up or lets the command through.
LEMMA GhostReplies ==
    ASSUME ReplyInv, QuitInv', GhostPass \/ GhostDrop \/ GhostError
    PROVE  ReplyInv'
<1>0. pc = "haunt" /\ input' = input /\ asked' = asked /\ args' = args /\ asked \in Seq(Commands) /\ Heard' = Heard
    BY DEF GhostPass, GhostDrop, GhostError, ReplyInv, Heard
<1>r. PICK r \in 1 .. Len(Heard) : \E es, at : Served(r, es, at)
    BY <1>0, ServedCommand
<1>s. PICK es, at : Served(r, es, at)
    BY <1>r
<1>1. /\ Laid(es, Heard, r) /\ Unread(input, es, r, at) /\ at[r] = 0 /\ Heard[r].form # "short"
      /\ args = Heard[r].words /\ Heard[r].words # <<>>
      /\ Between(Deserving(Heard, r) - 1)
    BY <1>0, <1>s DEF Served
<1>2. r \in 0 .. Len(Heard) /\ r > 0
    BY <1>0
<1>3. CASE GhostPass
    <2>1. wire' = wire /\ pc' = "act"
        BY <1>3 DEF GhostPass
    <2>2. Between(Deserving(Heard, r) - 1)'
        BY <1>0, <1>1, <2>1 DEF Between, Cut
    <2>3. Phase(r, at[r])'
        BY <1>0, <1>1, <1>2, <2>1, <2>2 DEF Phase, Serving
    <2> QED
        BY <1>0, <1>1, <1>2, <2>1, <2>3, PhaseSuffices
<1>4. CASE GhostDrop
    <2>1. Cut' = Cut /\ pc' = "closed"
        BY <1>4 DEF GhostDrop, Cut
    <2> QED
        BY <1>0, <2>1 DEF ReplyInv, Placed
<1>5. CASE GhostError
    <2>1. wire' = Append(wire, Error) /\ pc' = "ready" /\ "error" \in Ghosts
        BY <1>5 DEF GhostError
    <2>2. PICK done \in Seq(Seq(Frames)) : /\ Cut = CutInto(done, <<>>, 0)
                                           /\ Len(done) = Deserving(Heard, r) - 1
        BY <1>1 DEF Between
    <2>3. Error \in Frames /\ Error.tag = "-" /\ Error.n \in Nat /\ wire \in Seq(Frames)
        BY DEF Error, Frames, ReplyInv, QuitInv, WellFormed
    <2> DEFINE reply == <<Error>>
    <2>4. wire' = Joined(wire, reply)
        BY <2>1, <2>3 DEF Joined
    <2>5. Cut' = CutInto(Plus(done, reply), <<>>, 0)
        <3>1. CutOf(Joined(wire, <<Error>>)) = CutInto(Plus(done, <<Error>>), <<>>, 0)
            BY <2>2, <2>3, CutSingle DEF Cut
        <3> QED
            BY <2>4, <3>1 DEF Cut
    <2>6. Heard[r].words[1] # "QUIT"
        BY <1>0, <1>1 DEF ReplyInv, QuitInv, QuitServed
    <2>7. Answers(reply, Heard[r])
        <3>1. reply[1].tag = "-" /\ Len(reply) = 1
            BY <2>3
        <3> QED
            BY <2>1, <2>6, <3>1 DEF Answers
    <2>8. reply \in Seq(Frames) /\ Cut.done = done
        BY <2>2, <2>3 DEF CutInto
    <2> HIDE DEF reply
    <2>9. Matched(Cut.done, Heard)' /\ Between(Deserving(Heard, r))'
        BY <1>0, <1>1, <2>2, <2>5, <2>7, <2>8, ReplyWritten
    <2>10. Phase(r, at[r])'
        BY <1>0, <1>1, <2>1, <2>9 DEF Phase
    <2> QED
        BY <1>0, <1>1, <1>2, <2>9, <2>10 DEF ReplyInv, Placed
<1> QED
    BY <1>3, <1>4, <1>5

\* Answer writes the one reply of dispatch, and QUIT closes after its OK.
LEMMA AnswerReplies ==
    ASSUME ReplyInv, QuitInv', Answer
    PROVE  ReplyInv'
<1>0. /\ pc = "act" /\ input' = input /\ asked' = asked /\ asked \in Seq(Commands) /\ Heard' = Heard
      /\ args \in Seq(Word) /\ wire \in Seq(Frames) /\ pc' \in {"ready", "closed"}
    BY DEF Heard, Answer, ReplyInv, QuitInv, WellFormed
<1>r. PICK r \in 1 .. Len(Heard) : \E es, at : Served(r, es, at)
    BY <1>0, ServedCommand
<1>s. PICK es, at : Served(r, es, at)
    BY <1>r
<1>1. /\ Laid(es, Heard, r) /\ Unread(input, es, r, at) /\ at[r] = 0 /\ Heard[r].form # "short"
      /\ args = Heard[r].words /\ Heard[r].words # <<>>
      /\ Between(Deserving(Heard, r) - 1)
    BY <1>0, <1>s DEF Served
<1>2. r \in 0 .. Len(Heard) /\ r > 0
    BY <1>0
<1>3. PICK reply \in Dispatch(args) : wire' = wire \o reply
    BY DEF Answer
<1>4. reply \in Seq(Frames) /\ Answers(reply, Heard[r])
    BY <1>0, <1>1, RepliesAreFrames, DispatchAnswers
<1>5. PICK done \in Seq(Seq(Frames)) : /\ Cut = CutInto(done, <<>>, 0)
                                       /\ Len(done) = Deserving(Heard, r) - 1
    BY <1>1 DEF Between
<1>6. Cut' = CutInto(Plus(done, reply), <<>>, 0)
    <2>1. CutOf(wire) = CutInto(done, <<>>, 0)
        BY <1>5 DEF Cut
    <2>2. CutOf(Joined(wire, reply)) = CutInto(Plus(done, reply), <<>>, 0)
        BY <1>0, <1>1, <2>1, DispatchIsReply
    <2> QED
        BY <1>3, <2>2 DEF Cut, Joined
<1>7. Cut.done = done
    BY <1>5 DEF CutInto
<1>8. Matched(Cut.done, Heard)' /\ Between(Deserving(Heard, r))'
    BY <1>0, <1>1, <1>4, <1>5, <1>6, <1>7, ReplyWritten
<1>9. Phase(r, at[r])'
    BY <1>0, <1>1, <1>8 DEF Phase
<1> QED
    BY <1>0, <1>1, <1>2, <1>8, <1>9 DEF ReplyInv, Placed

\* A crush announces its keys, and so owes them all.
LEMMA StartReplies ==
    ASSUME ReplyInv, QuitInv', StartCrush
    PROVE  ReplyInv'
<1>0. /\ pc = "act" /\ input' = input /\ asked' = asked /\ asked \in Seq(Commands) /\ Heard' = Heard
      /\ args' = args /\ args[1] = "KEYS" /\ wire \in Seq(Frames) /\ pc' = "stream" /\ sent' = 0
      /\ wire' = Append(wire, Header(MaxRows))
    BY DEF Heard, StartCrush, MustCrush, ReplyInv, QuitInv, WellFormed
<1>r. PICK r \in 1 .. Len(Heard) : \E es, at : Served(r, es, at)
    BY <1>0, ServedCommand
<1>s. PICK es, at : Served(r, es, at)
    BY <1>r
<1>1. /\ Laid(es, Heard, r) /\ Unread(input, es, r, at) /\ at[r] = 0 /\ Heard[r].form # "short"
      /\ args = Heard[r].words /\ Heard[r].words # <<>>
      /\ Between(Deserving(Heard, r) - 1)
    BY <1>0, <1>s DEF Served
<1>2. r \in 0 .. Len(Heard) /\ r > 0 /\ MaxRows \in Nat
    BY <1>0, CommandsAssumption
<1>3. PICK done \in Seq(Seq(Frames)) : /\ Cut = CutInto(done, <<>>, 0)
                                       /\ Len(done) = Deserving(Heard, r) - 1
    BY <1>1 DEF Between
<1>4. /\ Header(MaxRows) \in Frames /\ Header(MaxRows).tag = "*"
      /\ Header(MaxRows).n = MaxRows
    BY <1>2 DEF Header, Frames
<1> DEFINE first == Plus(<<>>, Header(MaxRows))
<1>5. first \in Seq(Frames) /\ first # <<>> /\ first[1].tag = "*"
    BY <1>4 DEF Plus
<1>6. Cut' = IF MaxRows = 0 THEN CutInto(Plus(done, first), <<>>, 0)
             ELSE CutInto(done, first, MaxRows)
    <2>1. CutOf(wire) = CutInto(done, <<>>, 0)
        BY <1>3 DEF Cut
    <2>2. CutOf(Append(wire, Header(MaxRows))) = CutFrame(CutInto(done, <<>>, 0), Header(MaxRows))
        BY <1>0, <1>4, <2>1, CutAppend
    <2>3. CutFrame(CutInto(done, <<>>, 0), Header(MaxRows)) =
              IF MaxRows = 0 THEN CutInto(Plus(done, first), <<>>, 0)
              ELSE CutInto(done, first, MaxRows)
        <3>1. PICK m \in Nat : m = 0
            OBVIOUS
        <3>2. (IF m = 0 THEN 0 ELSE m - 1) + MaxRows = MaxRows
            BY <1>2, <3>1
        <3>3. CutFrame(CutInto(done, <<>>, m), Header(MaxRows)) =
                  IF MaxRows = 0 THEN CutInto(Plus(done, first), <<>>, 0)
                  ELSE CutInto(done, first, MaxRows)
            BY <1>2, <1>4, <3>2, CutFrameCases
        <3> QED
            BY <3>1, <3>3
    <2> QED
        BY <1>0, <2>2, <2>3 DEF Cut
<1> HIDE DEF first
<1>7. Cut.done = done
    BY <1>3 DEF CutInto
<1>8. CASE MaxRows = 0
    <2>1. Cut' = CutInto(Plus(done, first), <<>>, 0)
        BY <1>6, <1>8
    <2>2. Answers(first, Heard[r])
        BY <1>0, <1>1, <1>5 DEF Answers
    <2>3. Matched(Cut.done, Heard)' /\ Between(Deserving(Heard, r))'
        BY <1>0, <1>1, <1>3, <1>5, <1>7, <2>1, <2>2, ReplyWritten
    <2>4. Streaming(Deserving(Heard, r))'
        BY <1>0, <1>8, <2>3 DEF Streaming
    <2>5. Phase(r, at[r])'
        BY <1>0, <1>1, <1>2, <2>4 DEF Phase, Serving
    <2> QED
        BY <1>0, <1>1, <1>2, <2>3, <2>5 DEF ReplyInv, Placed
<1>9. CASE MaxRows # 0
    <2>1. Cut' = CutInto(done, first, MaxRows - sent')
        BY <1>0, <1>2, <1>6, <1>9
    <2>2. Matched(Cut.done, Heard)'
        <3>1. Cut'.done = done
            BY <2>1 DEF CutInto
        <3> QED
            BY <1>0, <1>7, <3>1 DEF ReplyInv, Placed
    <2>3. Streaming(Deserving(Heard, r))'
        BY <1>0, <1>2, <1>3, <1>5, <1>9, <2>1 DEF Streaming
    <2>4. Phase(r, at[r])'
        BY <1>0, <1>1, <1>2, <2>3 DEF Phase, Serving
    <2> QED
        BY <1>0, <1>1, <1>2, <2>2, <2>4 DEF ReplyInv, Placed
<1> QED
    BY <1>8, <1>9

\* A chunk of keys is a part of what is owed.
LEMMA ChunkReplies ==
    ASSUME ReplyInv, QuitInv', StreamChunk
    PROVE  ReplyInv'
<1> DEFINE this == Least(Chunk, MaxRows - sent)
<1>0. /\ pc = "stream" /\ sent < MaxRows /\ sent \in Nat
      /\ input' = input /\ asked' = asked /\ asked \in Seq(Commands) /\ Heard' = Heard
      /\ args' = args /\ wire \in Seq(Frames) /\ pc' = pc
      /\ wire' = wire \o Values(this) /\ sent' = sent + this
    BY DEF Heard, StreamChunk, ReplyInv, QuitInv, WellFormed
<1>r. PICK r \in 1 .. Len(Heard) : \E es, at : Served(r, es, at)
    BY <1>0, ServedCommand
<1>s. PICK es, at : Served(r, es, at)
    BY <1>r
<1>1. /\ Laid(es, Heard, r) /\ Unread(input, es, r, at) /\ at[r] = 0 /\ Heard[r].form # "short"
      /\ args = Heard[r].words /\ Heard[r].words # <<>>
      /\ args[1] = "KEYS" /\ Streaming(Deserving(Heard, r))
    BY <1>0, <1>s DEF Served
<1>2. r \in 0 .. Len(Heard) /\ r > 0 /\ MaxRows \in Nat
    BY <1>0, CommandsAssumption
<1>3. PICK done \in Seq(Seq(Frames)), current \in Seq(Frames) :
          /\ Cut = CutInto(done, current, MaxRows - sent)
          /\ Len(done) = Deserving(Heard, r) - 1
          /\ current # <<>> /\ current[1].tag = "*"
    BY <1>0, <1>1 DEF Streaming
<1>4. /\ MaxRows - sent \in Nat \ {0} /\ this \in 0 .. MaxRows - sent
      /\ sent' \in Nat /\ sent' <= MaxRows /\ MaxRows - sent' = (MaxRows - sent) - this
      /\ (this < MaxRows - sent <=> sent' < MaxRows) /\ (sent' < MaxRows <=> sent' # MaxRows)
    BY <1>0, <1>2, CommandsAssumption DEF Least
<1> HIDE DEF this
<1>5. Values(this) \in Seq(Frames)
    BY <1>4, ValuesAreFrames
<1> DEFINE longer == Joined(current, Values(this))
<1>6. longer \in Seq(Frames) /\ longer # <<>> /\ longer[1].tag = "*"
    <2>1. longer \in Seq(Frames) /\ longer[1] = current[1] /\ Len(longer) # 0
        BY <1>3, <1>5 DEF Joined
    <2> QED
        BY <1>3, <2>1
<1> HIDE DEF longer
<1>7. Cut' = IF sent' < MaxRows THEN CutInto(done, longer, MaxRows - sent')
             ELSE CutInto(Plus(done, longer), <<>>, 0)
    <2>1. CutOf(wire) = CutInto(done, current, MaxRows - sent)
        BY <1>3 DEF Cut
    <2>2. CutOf(Joined(wire, Values(this))) = AfterValues(done, current, MaxRows - sent, this)
        BY <1>0, <1>4, <2>1, CutValues
    <2>3. AfterValues(done, current, MaxRows - sent, this) =
              IF this < MaxRows - sent THEN CutInto(done, longer, (MaxRows - sent) - this)
              ELSE CutInto(Plus(done, longer), <<>>, 0)
        BY Zenon DEF AfterValues, longer
    <2>4. Cut' = CutOf(Joined(wire, Values(this)))
        BY <1>0, Zenon DEF Cut, Joined
    <2> QED
        BY <1>4, <2>2, <2>3, <2>4
<1>8. Cut.done = done
    BY <1>3 DEF CutInto
<1>9. CASE sent' = MaxRows
    <2>1. Cut' = CutInto(Plus(done, longer), <<>>, 0)
        BY <1>4, <1>7, <1>9
    <2>2. Answers(longer, Heard[r])
        BY <1>1, <1>6 DEF Answers
    <2>3. Matched(Cut.done, Heard)' /\ Between(Deserving(Heard, r))'
        BY <1>0, <1>1, <1>3, <1>6, <1>8, <2>1, <2>2, ReplyWritten
    <2>4. Streaming(Deserving(Heard, r))'
        BY <1>0, <1>4, <1>9, <2>3 DEF Streaming
    <2>5. Phase(r, at[r])'
        BY <1>0, <1>1, <1>2, <2>4 DEF Phase, Serving
    <2> QED
        BY <1>0, <1>1, <1>2, <2>3, <2>5 DEF ReplyInv, Placed
<1>10. CASE sent' # MaxRows
    <2>1. Cut' = CutInto(done, longer, MaxRows - sent')
        BY <1>4, <1>7, <1>10
    <2>2. Matched(Cut.done, Heard)'
        <3>1. Cut'.done = done
            BY <2>1 DEF CutInto
        <3> QED
            BY <1>0, <1>8, <3>1 DEF ReplyInv, Placed
    <2>3. Streaming(Deserving(Heard, r))'
        BY <1>0, <1>3, <1>4, <1>6, <1>10, <2>1 DEF Streaming
    <2>4. Phase(r, at[r])'
        BY <1>0, <1>1, <1>2, <2>3 DEF Phase, Serving
    <2> QED
        BY <1>0, <1>1, <1>2, <2>2, <2>4 DEF ReplyInv, Placed
<1> QED
    BY <1>9, <1>10

\* A crush ends when it owes nothing.
LEMMA DoneReplies ==
    ASSUME ReplyInv, QuitInv', StreamDone
    PROVE  ReplyInv'
<1>0. /\ pc = "stream" /\ sent >= MaxRows /\ sent \in Nat /\ MaxRows \in Nat
      /\ input' = input /\ asked' = asked /\ asked \in Seq(Commands) /\ Heard' = Heard
      /\ wire' = wire /\ pc' = "ready"
    BY CommandsAssumption DEF Heard, StreamDone, ReplyInv, QuitInv, WellFormed
<1>r. PICK r \in 1 .. Len(Heard) : \E es, at : Served(r, es, at)
    BY <1>0, ServedCommand
<1>s. PICK es, at : Served(r, es, at)
    BY <1>r
<1>1. /\ Laid(es, Heard, r) /\ Unread(input, es, r, at) /\ at[r] = 0 /\ Heard[r].form # "short"
      /\ args = Heard[r].words /\ Heard[r].words # <<>>
      /\ Streaming(Deserving(Heard, r))
    BY <1>0, <1>s DEF Served
<1>2. r \in 0 .. Len(Heard)
    BY <1>0
<1>3. Between(Deserving(Heard, r))
    BY <1>0, <1>1 DEF Streaming
<1>4. Between(Deserving(Heard, r))'
    BY <1>0, <1>3 DEF Between, Cut
<1>5. Phase(r, at[r])'
    BY <1>0, <1>1, <1>4 DEF Phase
<1> QED
    BY <1>0, <1>1, <1>2, <1>5, PhaseSuffices

\* A client that hangs up leaves what was written.
LEMMA HangUpReplies ==
    ASSUME ReplyInv, QuitInv', HangUp
    PROVE  ReplyInv'
<1>1. Cut' = Cut /\ asked' = asked /\ pc' = "closed" /\ Heard' = Heard
    BY DEF HangUp, Cut, Heard
<1> QED
    BY <1>1 DEF ReplyInv, Placed

\* One unit more.
LEMMA LaidGrown ==
    ASSUME NEW units \in Seq(Units), NEW es, NEW r \in 0 .. Len(units), Laid(es, units, r),
           NEW u \in Units, NEW e \in Seq(Lines), EncodedAs(u, e, Len(u.words))
    PROVE  Laid(Append(es, e), Append(units, u), r)
<1> DEFINE n == Len(units)
           fs == Append(es, e)
           more == Append(units, u)
<1>1. /\ es \in Seq(Seq(Lines)) /\ Len(es) = n /\ n \in Nat
    BY DEF Laid
<1>2. /\ fs \in Seq(Seq(Lines)) /\ Len(fs) = n + 1 /\ fs[n + 1] = e
      /\ \A q \in 1 .. n : fs[q] = es[q]
    BY <1>1
<1>3. /\ Len(more) = n + 1 /\ more[n + 1] = u
      /\ \A q \in 1 .. n : more[q] = units[q]
    BY <1>1
<1> HIDE DEF fs, more, n
<1>4. ASSUME NEW q \in r + 1 .. n + 1
      PROVE  \/ LengthAt(fs, more, q)
             \/ IF q = r + 1 THEN LooseAt(fs, more, q) ELSE WordAt(more, q)
             \/ CommandAt(fs, more, q)
    <2>1. CASE q = n + 1
        BY <1>2, <1>3, <2>1 DEF CommandAt
    <2>2. CASE q # n + 1
        <3>1. q \in r + 1 .. n /\ q \in 1 .. n
            BY <1>1, <2>2 DEF n
        <3>2. \/ LengthAt(es, units, q)
              \/ IF q = r + 1 THEN LooseAt(es, units, q) ELSE WordAt(units, q)
              \/ CommandAt(es, units, q)
            BY <3>1 DEF Laid, n
        <3>3. fs[q] = es[q] /\ more[q] = units[q]
            BY <1>2, <1>3, <3>1
        <3>4. LengthAt(es, units, q) => LengthAt(fs, more, q)
            <4> SUFFICES ASSUME LengthAt(es, units, q) PROVE LengthAt(fs, more, q)
                OBVIOUS
            <4>1. q < n
                BY DEF LengthAt, n
            <4>2. q + 1 \in 1 .. n /\ q < n + 1
                BY <1>1, <3>1, <4>1
            <4>3. fs[q + 1] = es[q + 1] /\ more[q + 1] = units[q + 1]
                BY <1>2, <1>3, <4>2
            <4> QED
                BY <1>3, <3>3, <4>2, <4>3 DEF LengthAt
        <3>5. WordAt(units, q) => WordAt(more, q)
            <4> SUFFICES ASSUME WordAt(units, q) PROVE WordAt(more, q)
                OBVIOUS
            <4>1. q > 1
                BY DEF WordAt
            <4>2. q - 1 \in 1 .. n
                BY <1>1, <3>1, <4>1
            <4>3. more[q - 1] = units[q - 1]
                BY <1>3, <4>2
            <4> QED
                BY <3>3, <4>3 DEF WordAt
        <3>6. /\ LooseAt(es, units, q) => LooseAt(fs, more, q)
              /\ CommandAt(es, units, q) => CommandAt(fs, more, q)
            BY <3>3 DEF LooseAt, CommandAt
        <3> QED
            BY <3>2, <3>4, <3>5, <3>6
    <2> QED
        BY <2>1, <2>2
<1>5. Laid(fs, more, r)
    BY <1>2, <1>3, <1>4 DEF Laid
<1> QED
    BY <1>5 DEF fs, more

\* The lines of a short array with one that ends it.
LEMMA CutLines ==
    ASSUME NEW u \in Units, u.form = "short", NEW e \in Seq(Lines), EncodedAs(u, e, Len(u.words)),
           NEW stop \in Lines, stop.tag # "$"
    PROVE  EncodedAs(Unit("cut", u.words), Append(e, stop), Len(u.words))
<1> DEFINE n == Len(u.words)
           v == Unit("cut", u.words)
           f == Append(e, stop)
<1>1. /\ n \in Nat /\ Len(e) = n + 1 /\ e[1] = Line("*", n + 1, <<>>)
      /\ \A i \in 1 .. n : e[i + 1] = Line("$", 0, <<u.words[i]>>)
      /\ u.words \in Seq(Word)
    BY DEF EncodedAs
<1>2. v.form = "cut" /\ v.words = u.words /\ Len(u.words) = n
    BY DEF Unit
<1>3. Len(f) = Len(e) + 1 /\ f[Len(e) + 1] = stop /\ \A i \in 1 .. Len(e) : f[i] = e[i]
    OBVIOUS
<1> HIDE DEF n, v, f
<1>4. Len(e) + 1 = n + 2 /\ 1 \in 1 .. Len(e) /\ \A i \in 1 .. n : i + 1 \in 1 .. Len(e)
    BY <1>1
<1>5. /\ Len(f) = n + 2 /\ f[n + 2] = stop /\ f[1] = Line("*", n + 1, <<>>)
      /\ \A i \in 1 .. n : f[i + 1] = Line("$", 0, <<u.words[i]>>)
    BY <1>1, <1>3, <1>4
<1>6. EncodedAs(v, f, n)
    BY <1>1, <1>2, <1>5 DEF EncodedAs, CommandForms
<1> QED
    BY <1>6 DEF v, f, n

\* The last array ends, and what is left of the next command follows.
LEMMA LaidClosed ==
    ASSUME NEW units \in Seq(Units), NEW es, NEW r \in 0 .. Len(units), Laid(es, units, r),
           NEW more, NEW left, Closed(units, more, Len(units), left),
           NEW e \in Seq(Lines), Len(e) > 0, e[1].tag # "$",
           NEW fs, Laid(fs, left, 0), \A j \in 1 .. Len(fs) : j = 1 => left[j].form # "word",
           NEW all, Behind(es, e, fs, all)
    PROVE  Laid(all, more, r)
<1> DEFINE n == Len(units)
           w == Len(left)
<1>1. /\ es \in Seq(Seq(Lines)) /\ Len(es) = n /\ n \in Nat /\ n > 0
      /\ units[n].form = "short" /\ left \in Seq(Units) /\ w \in Nat /\ Len(more) = n + w
      /\ more[n] = Unit("cut", units[n].words)
      /\ \A q \in 1 .. n - 1 : more[q] = units[q]
      /\ \A j \in 1 .. w : more[n + j] = left[j]
      /\ Len(fs) = w
    BY DEF Laid, Closed
<1>2. /\ all \in Seq(Seq(Lines)) /\ Len(all) = n + w
      /\ all[n] = Append(es[n], e[1])
      /\ \A q \in 1 .. n - 1 : all[q] = es[q]
      /\ \A j \in 1 .. w : all[n + j] = fs[j]
    BY <1>1 DEF Behind
<1>3. \A q \in r + 1 .. n :
           \/ LengthAt(es, units, q)
           \/ IF q = r + 1 THEN LooseAt(es, units, q) ELSE WordAt(units, q)
           \/ CommandAt(es, units, q)
    BY DEF Laid
<1>4. \A j \in 1 .. w :
           \/ LengthAt(fs, left, j)
           \/ j # 1 /\ WordAt(left, j)
           \/ CommandAt(fs, left, j)
    <2> TAKE j \in 1 .. w
    <2>1. \/ LengthAt(fs, left, j)
          \/ IF j = 0 + 1 THEN LooseAt(fs, left, j) ELSE WordAt(left, j)
          \/ CommandAt(fs, left, j)
        BY DEF Laid
    <2>2. j = 0 + 1 => ~ LooseAt(fs, left, j)
        BY <1>1 DEF LooseAt
    <2> QED
        BY <2>1, <2>2
<1> HIDE DEF n, w
<1>r. r \in 0 .. n
    BY DEF n
<1>5. ASSUME NEW q \in r + 1 .. n + w
      PROVE  \/ LengthAt(all, more, q)
             \/ IF q = r + 1 THEN LooseAt(all, more, q) ELSE WordAt(more, q)
             \/ CommandAt(all, more, q)
    <2>1. CASE q < n
        <3>0. n \in Nat
            BY <1>1
        <3>1. q \in r + 1 .. n /\ q \in 1 .. n - 1
            BY <3>0, <1>r, <2>1
        <3>2. all[q] = es[q] /\ more[q] = units[q]
            BY <1>1, <1>2, <3>1
        <3>3. LengthAt(es, units, q) => LengthAt(all, more, q)
            <4> SUFFICES ASSUME LengthAt(es, units, q) PROVE LengthAt(all, more, q)
                OBVIOUS
            <4>1. units[q + 1].form = "word"
                BY DEF LengthAt
            <4>2. q + 1 \in 1 .. n - 1 /\ q < n + w
                <5>1. q + 1 # n
                    BY <1>1, <4>1
                <5> QED
                    BY <1>1, <3>1, <5>1
            <4>3. all[q + 1] = es[q + 1] /\ more[q + 1] = units[q + 1]
                BY <1>1, <1>2, <4>2
            <4> QED
                BY <1>1, <3>2, <4>2, <4>3 DEF LengthAt
        <3>4. WordAt(units, q) => WordAt(more, q)
            <4> SUFFICES ASSUME WordAt(units, q) PROVE WordAt(more, q)
                OBVIOUS
            <4>1. q > 1
                BY DEF WordAt
            <4>2. q - 1 \in 1 .. n - 1
                BY <3>0, <3>1, <4>1
            <4>3. more[q - 1] = units[q - 1]
                BY <1>1, <4>2
            <4> QED
                BY <3>2, <4>3 DEF WordAt
        <3>5. /\ LooseAt(es, units, q) => LooseAt(all, more, q)
              /\ CommandAt(es, units, q) => CommandAt(all, more, q)
            BY <3>2 DEF LooseAt, CommandAt
        <3> QED
            BY <1>3, <3>1, <3>3, <3>4, <3>5
    <2>2. CASE q = n
        <3>1. q \in r + 1 .. n /\ q \in 1 .. n
            BY <1>1, <1>r, <2>2
        <3>2. CommandAt(es, units, n)
            <4>1. ~ LengthAt(es, units, n) /\ ~ LooseAt(es, units, n) /\ ~ WordAt(units, n)
                BY <1>1 DEF LengthAt, LooseAt, WordAt
            <4> QED
                BY <1>3, <2>2, <3>1, <4>1
        <3>3. e[1] \in Lines
            <4>1. 1 \in 1 .. Len(e)
                OBVIOUS
            <4> QED
                BY <4>1
        <3>4. es[n] \in Seq(Lines) /\ units[n] \in Units
            BY <1>1, <2>2, <3>1 DEF n
        <3>5. EncodedAs(Unit("cut", units[n].words), Append(es[n], e[1]), Len(units[n].words))
            BY <1>1, <3>2, <3>3, <3>4, CutLines DEF CommandAt
        <3>6. CommandAt(all, more, n)
            BY <1>1, <1>2, <3>5 DEF CommandAt, Unit
        <3> QED
            BY <2>2, <3>6
    <2>3. CASE n < q
        <3> DEFINE j == q - n
        <3>1. j \in 1 .. w /\ q = n + j /\ (q = r + 1 => j = 1)
            BY <1>1, <1>r, <2>3
        <3> HIDE DEF j
        <3>2. all[q] = fs[j] /\ more[q] = left[j]
            BY <1>1, <1>2, <3>1
        <3>3. LengthAt(fs, left, j) => LengthAt(all, more, q)
            <4> SUFFICES ASSUME LengthAt(fs, left, j) PROVE LengthAt(all, more, q)
                OBVIOUS
            <4>1. j < w
                BY DEF LengthAt, w
            <4>2. j + 1 \in 1 .. w /\ q + 1 = n + (j + 1) /\ q < n + w
                BY <1>1, <3>1, <4>1
            <4>3. all[q + 1] = fs[j + 1] /\ more[q + 1] = left[j + 1]
                BY <1>1, <1>2, <4>2
            <4> QED
                BY <1>1, <3>2, <4>2, <4>3 DEF LengthAt
        <3>4. WordAt(left, j) => WordAt(more, q)
            <4> SUFFICES ASSUME WordAt(left, j) PROVE WordAt(more, q)
                OBVIOUS
            <4>1. j > 1
                BY DEF WordAt
            <4>n. n \in Nat /\ n > 0 /\ w \in Nat
                BY <1>1
            <4>2. j - 1 \in 1 .. w /\ q - 1 = n + (j - 1) /\ q > 1
                BY <4>n, <3>1, <4>1
            <4>3. more[q - 1] = left[j - 1]
                BY <1>1, <4>2
            <4> QED
                BY <3>2, <4>2, <4>3 DEF WordAt
        <3>5. CommandAt(fs, left, j) => CommandAt(all, more, q)
            BY <3>2 DEF CommandAt
        <3> QED
            BY <1>4, <3>1, <3>3, <3>4, <3>5
    <2> QED
        BY <1>1, <1>r, <2>1, <2>2, <2>3
<1> QED
    BY <1>1, <1>2, <1>5 DEF Laid

\* There are such lines.
LEMMA BehindExists ==
    ASSUME NEW es \in Seq(Seq(Lines)), Len(es) > 0, NEW fs \in Seq(Seq(Lines)),
           NEW e \in Seq(Lines), Len(e) > 0
    PROVE  \E all : Behind(es, e, fs, all)
<1> DEFINE n == Len(es)
           w == Len(fs)
           last == Append(es[n], e[1])
           part(q) == IF q < n THEN es[q] ELSE IF q = n THEN last ELSE fs[q - n]
           all == [q \in 1 .. n + w |-> part(q)]
<1>1. n \in Nat /\ n > 0 /\ w \in Nat /\ Len(e) \in Nat /\ 1 \in 1 .. Len(e) /\ n \in 1 .. n
    OBVIOUS
<1>2. last \in Seq(Lines)
    <2>1. es[n] \in Seq(Lines) /\ e[1] \in Lines
        BY <1>1
    <2> QED
        BY <2>1
<1>3. (\A q \in 1 .. n : es[q] \in Seq(Lines)) /\ (\A j \in 1 .. w : fs[j] \in Seq(Lines))
    OBVIOUS
<1> HIDE DEF last, n, w
<1>4. /\ \A q \in 1 .. n - 1 : part(q) = es[q] /\ q \in 1 .. n
      /\ part(n) = last
      /\ \A j \in 1 .. w : part(n + j) = fs[j]
    <2>1. \A q \in 1 .. n - 1 : q < n /\ q \in 1 .. n
        BY <1>1
    <2>2. \A j \in 1 .. w : ~ (n + j < n) /\ n + j # n /\ (n + j) - n = j
        BY <1>1
    <2> QED
        BY <1>1, <2>1, <2>2
<1> HIDE DEF part
<1>5. \A q \in 1 .. n + w : q \in 1 .. n - 1 \/ q = n \/ \E j \in 1 .. w : q = n + j
    <2> TAKE q \in 1 .. n + w
    <2>1. n < q => q - n \in 1 .. w /\ q = n + (q - n)
        BY <1>1
    <2> QED
        BY <1>1, <2>1
<1>6. \A q \in 1 .. n + w : part(q) \in Seq(Lines)
    BY <1>2, <1>3, <1>4, <1>5
<1>7. all \in Seq(Seq(Lines)) /\ Len(all) = n + w /\ \A q \in 1 .. n + w : all[q] = part(q)
    BY <1>1, <1>6
<1> HIDE DEF all
<1>8. /\ \A q \in 1 .. n - 1 : q \in 1 .. n + w
      /\ n \in 1 .. n + w
      /\ \A j \in 1 .. w : n + j \in 1 .. n + w
    BY <1>1
<1>9. Behind(es, e, fs, all)
    BY <1>1, <1>4, <1>7, <1>8 DEF Behind, n, w, last
<1> QED
    BY <1>9

\* Lines behind the others change nothing for what is being read or answered.
LEMMA PhaseKept ==
    ASSUME ReplyInv, pc # "closed", UNCHANGED <<pc, args, missing, sent, wire>>,
           NEW r \in 0 .. Len(Heard), NEW m \in Nat, Phase(r, m),
           r > 0 => Heard'[r] = Heard[r],
           Deserving(Heard', r) = Deserving(Heard, r),
           r > 0 => Deserving(Heard', r - 1) = Deserving(Heard, r - 1),
           \A i \in 1 .. m : input'[i] = input[i]
    PROVE  Phase(r, m)'
<1>1. Cut' = Cut
    BY DEF Cut
<1>2. \A n : Between(n)' <=> Between(n)
    BY <1>1 DEF Between
<1>3. \A n : Streaming(n)' <=> Streaming(n)
    BY <1>1, <1>2 DEF Streaming
<1>4. CASE pc = "ready"
    BY <1>2, <1>4 DEF Phase
<1>5. CASE pc = "args"
    <2> DEFINE u == Heard[r]
               n == Len(u.words)
               k == Len(args)
               extra == Extra(u)
    <2>1. r > 0 /\ Reading(u, m) /\ Between(Deserving(Heard, r - 1))
        BY <1>5 DEF Phase
    <2>2. n \in Nat /\ k \in Nat
        <3>1. Heard[r] \in Units
            BY <2>1, HeardIsUnits DEF ReplyInv
        <3> QED
            BY <3>1 DEF Units, ReplyInv, QuitInv, WellFormed
    <2>3. ReadingAs(u, args, missing, input, n, k, extra) /\ m = missing - (IF u.form = "short" THEN 1 ELSE 0)
        BY <2>1 DEF Reading
    <2>4. extra = IF u.form = "array" THEN 0 ELSE 1
        BY DEF Extra
    <2> HIDE DEF u, n, k, extra
    <2>5. /\ u.form \in {"array", "short", "cut"} /\ k <= n /\ missing = n - k + extra
        BY <2>3 DEF ReadingAs
    <2>6. m >= n - k /\ (u.form = "cut" => m = n - k + 1)
        BY <2>2, <2>3, <2>4, <2>5
    <2>7. \A i \in 1 .. n - k : input'[i] = input[i]
        <3>1. \A i \in 1 .. n - k : i \in 1 .. m
            BY <2>2, <2>6
        <3> QED
            BY <3>1
    <2>8. u.form = "cut" => input'[n - k + 1] = input[n - k + 1]
        <3>1. u.form = "cut" => n - k + 1 \in 1 .. m
            BY <2>2, <2>5, <2>6
        <3> QED
            BY <3>1
    <2>9. ReadingAs(u, args', missing', input', n, k, extra)
        BY <2>3, <2>7, <2>8 DEF ReadingAs
    <2>10. Reading(Heard[r], m)'
        <3>1. u' = u
            BY <2>1 DEF u
        <3>2. Reading(u, m)'
            BY <2>3, <2>9, <3>1 DEF Reading, n, k, extra
        <3> QED
            BY <3>2 DEF u
    <2>11. Between(Deserving(Heard, r - 1))'
        BY <1>2, <2>1
    <2> QED
        BY <1>5, <2>1, <2>10, <2>11 DEF Phase
<1>6. CASE pc \in {"haunt", "act"}
    BY <1>2, <1>6 DEF Phase, Serving
<1>7. CASE pc = "stream"
    BY <1>3, <1>7 DEF Phase, Serving
<1> QED
    BY <1>4, <1>5, <1>6, <1>7 DEF ReplyInv, QuitInv, WellFormed

\* What one more command does to the units: none is lost, none loses its words.
LEMMA SentUnits ==
    ASSUME ReplyInv, NEW c \in Commands, Send(c)
    PROVE  /\ asked \in Seq(Commands) /\ asked' \in Seq(Commands)
           /\ Heard \in Seq(Units) /\ Heard' \in Seq(Units) /\ OneOpen(Heard')
           /\ Grown(Heard, Heard', c) \/ Closed(Heard, Heard', Len(Heard), Leftovers(c))
           /\ Len(Heard) \in Nat /\ Len(Heard') \in Nat /\ Len(Heard) <= Len(Heard')
           /\ \A j \in 1 .. Len(Heard) : Heard'[j].words = Heard[j].words
<1>1. asked \in Seq(Commands) /\ asked' = Append(asked, c) /\ asked' \in Seq(Commands)
    BY DEF Send, ReplyInv
<1>2. Heard' = Understand(Heard, c)
    BY <1>1, UnderstoodAppend DEF Heard
<1>3. Heard \in Seq(Units) /\ OneOpen(Heard)
    BY <1>1, HeardIsUnits DEF ReplyInv
<1>4. /\ Heard' \in Seq(Units) /\ OneOpen(Heard')
      /\ Grown(Heard, Heard', c) \/ Closed(Heard, Heard', Len(Heard), Leftovers(c))
    BY <1>2, <1>3, UnderstandCases, OneOpenKept
<1> DEFINE n == Len(Heard)
<1>5. n \in Nat /\ Len(Heard') \in Nat
    BY <1>3, <1>4
<1>6. CASE Grown(Heard, Heard', c)
    <2>1. Len(Heard') = n + 1 /\ \A j \in 1 .. n : Heard'[j] = Heard[j]
        BY <1>3, <1>6 DEF Grown
    <2> QED
        BY <1>1, <1>3, <1>4, <1>5, <2>1
<1>7. CASE Closed(Heard, Heard', n, Leftovers(c))
    <2> DEFINE w == Len(Leftovers(c))
    <2>1. w \in Nat /\ Len(Heard') = n + w
        BY <1>7 DEF Closed
    <2>2. \A j \in 1 .. n : Heard'[j].words = Heard[j].words
        <3> TAKE j \in 1 .. n
        <3>1. CASE j = n
            BY <1>7, <3>1 DEF Closed, Unit
        <3>2. CASE j # n
            <4>1. j \in 1 .. n - 1
                BY <1>5, <3>2
            <4> QED
                BY <1>7, <4>1 DEF Closed
        <3> QED
            BY <3>1, <3>2
    <2> HIDE DEF w
    <2>3. n <= Len(Heard')
        BY <1>5, <2>1
    <2> QED
        BY <1>1, <1>3, <1>4, <1>5, <2>2, <2>3
<1> QED
    BY <1>4, <1>6, <1>7

\* The deserving among the units that were there.
LEMMA SentDeserving ==
    ASSUME ReplyInv, NEW c \in Commands, Send(c), NEW r \in 0 .. Len(Heard)
    PROVE  /\ Deserving(Heard', r) = Deserving(Heard, r)
           /\ r > 0 => Deserving(Heard', r - 1) = Deserving(Heard, r - 1)
<1>1. Len(Heard) \in Nat /\ \A j \in 1 .. Len(Heard) : Heard'[j].words = Heard[j].words
    BY SentUnits
<1>2. /\ r \in Nat /\ (r > 0 => r - 1 \in Nat)
      /\ \A j \in 1 .. r : j \in 1 .. Len(Heard)
      /\ \A j \in 1 .. r - 1 : j \in 1 .. Len(Heard)
    BY <1>1
<1>3. Deserving(Heard', r) = Deserving(Heard, r)
    BY <1>1, <1>2, DeservingSame
<1>4. ASSUME r > 0
      PROVE  Deserving(Heard', r - 1) = Deserving(Heard, r - 1)
    <2> DEFINE q == r - 1
    <2>1. q \in Nat /\ \A j \in 1 .. q : Heard'[j].words = Heard[j].words
        BY <1>1, <1>2, <1>4
    <2> HIDE DEF q
    <2>2. Deserving(Heard', q) = Deserving(Heard, q)
        BY <2>1, DeservingSame
    <2> QED
        BY <2>2 DEF q
<1> QED
    BY <1>3, <1>4

\* A command in the pipeline waits behind the others,
LEMMA GrownPlaced ==
    ASSUME ReplyInv, NEW c \in Commands, Send(c), pc # "closed", Grown(Heard, Heard', c)
    PROVE  \E r, es, at : Placed(r, es, at)'
<1> DEFINE e == Encoded(c)
           u == Unit(c.form, c.words)
<1>1. /\ input' = input \o e /\ input \in Seq(Lines) /\ e \in Seq(Lines)
      /\ UNCHANGED <<pc, args, missing, sent, wire>>
    BY EncodedIsLines DEF Send, ReplyInv, QuitInv, WellFormed
<1>2. u \in Units /\ u.words = c.words
    <2>1. c.words \in Seq(Word) /\ c.form \in CommandForms
        BY CommandWords
    <2> QED
        BY <2>1 DEF Unit, Units
<1>3. EncodedAs(u, e, Len(u.words))
    BY <1>2, EncodedLines
<1>4. Heard' = Append(Heard, u) /\ Heard \in Seq(Units) /\ Len(Heard) \in Nat
    BY SentUnits DEF Grown
<1> HIDE DEF e, u
<1>5. PICK r, es, at : Placed(r, es, at)
    BY DEF ReplyInv
<1>6. /\ r \in 0 .. Len(Heard) /\ Laid(es, Heard, r) /\ Unread(input, es, r, at)
      /\ Phase(r, at[r]) /\ es \in Seq(Seq(Lines)) /\ Len(es) = Len(Heard)
      /\ r \in 0 .. Len(es)
    BY <1>5 DEF Placed, Laid
<1>7. at[r] \in Nat
    <2>1. r \in r .. Len(es) /\ Len(input) \in Nat
        BY <1>1, <1>4, <1>6
    <2>2. at[r] \in 0 .. Len(input)
        BY <1>6, <2>1 DEF Unread
    <2> QED
        BY <2>1, <2>2
<1>8. PICK more : /\ Unread(input', Append(es, e), r, more)
                  /\ more[r] = at[r]
                  /\ \A i \in 1 .. at[r] : input'[i] = input[i]
    <2>1. Extended(input, r, at, e, Append(es, e), at[r])
        BY <1>1, <1>6, UnreadSent
    <2> QED
        BY <1>1, <2>1, Zenon DEF Extended
<1>9. Laid(Append(es, e), Heard', r)
    BY <1>1, <1>2, <1>3, <1>4, <1>6, LaidGrown
<1>10. r \in 0 .. Len(Heard') /\ (r > 0 => Heard'[r] = Heard[r])
    BY <1>4, <1>6
<1>11. /\ Deserving(Heard', r) = Deserving(Heard, r)
       /\ r > 0 => Deserving(Heard', r - 1) = Deserving(Heard, r - 1)
    BY <1>6, SentDeserving
<1>12. Phase(r, more[r])'
    <2> DEFINE m == at[r]
    <2>1. m \in Nat /\ Phase(r, m) /\ \A i \in 1 .. m : input'[i] = input[i]
        BY <1>6, <1>7, <1>8
    <2> HIDE DEF m
    <2>2. Phase(r, m)'
        BY <1>1, <1>6, <1>10, <1>11, <2>1, PhaseKept
    <2> QED
        BY <1>8, <2>2 DEF m
<1>13. Placed(r, Append(es, e), more)'
    BY <1>8, <1>9, <1>10, <1>12 DEF Placed
<1> QED
    BY <1>13

\* or gives its first line to a short array, also to one that is being read.
LEMMA ClosedPlaced ==
    ASSUME ReplyInv, NEW c \in Commands, Send(c), pc # "closed",
           Closed(Heard, Heard', Len(Heard), Leftovers(c))
    PROVE  \E r, es, at : Placed(r, es, at)'
<1> DEFINE e == Encoded(c)
           left == Leftovers(c)
           n == Len(Heard)
<1>1. /\ input' = input \o e /\ input \in Seq(Lines) /\ e \in Seq(Lines)
      /\ UNCHANGED <<pc, args, missing, sent, wire>>
    BY EncodedIsLines DEF Send, ReplyInv, QuitInv, WellFormed
<1>2. Len(e) \in Nat \ {0} /\ e[1].tag # "$" /\ 1 \in 1 .. Len(e)
    <2>1. EncodedAs(Unit(c.form, c.words), e, Len(c.words))
        BY EncodedLines
    <2> HIDE DEF e
    <2>2. c.words \in Seq(Word) /\ c.form \in CommandForms /\ Unit(c.form, c.words).form = c.form
        BY CommandWords DEF Unit
    <2>3. Len(e) > 0 /\ e[1].tag # "$"
        BY <2>1, <2>2 DEF EncodedAs, CommandForms, Line
    <2> QED
        BY <1>1, <2>3
<1>3. /\ Heard \in Seq(Units) /\ Heard' \in Seq(Units) /\ n \in Nat \ {0}
      /\ Len(Heard') \in Nat /\ n <= Len(Heard')
      /\ Heard[n].form = "short" /\ Heard'[n] = Unit("cut", Heard[n].words)
      /\ \A j \in 1 .. n - 1 : Heard'[j] = Heard[j]
    BY SentUnits DEF Closed
<1>l. PICK fs, ft : /\ Unread(e, fs, 0, ft) /\ ft[0] = 1 /\ Laid(fs, left, 0)
                    /\ \A j \in 1 .. Len(fs) : j = 1 => left[j].form # "word"
    BY LeftoversLaid
<1>4. fs \in Seq(Seq(Lines))
    BY <1>l DEF Laid
<1>5. PICK r, es, at : Placed(r, es, at)
    BY DEF ReplyInv
<1>6. /\ r \in 0 .. n /\ Laid(es, Heard, r) /\ Unread(input, es, r, at)
      /\ Phase(r, at[r]) /\ es \in Seq(Seq(Lines)) /\ Len(es) = n
      /\ r \in 0 .. Len(es) /\ Len(es) > 0
    BY <1>3, <1>5 DEF Placed, Laid
<1> HIDE DEF e, left
<1>k. /\ es \in Seq(Seq(Lines)) /\ Len(es) > 0 /\ e \in Seq(Lines) /\ Len(e) > 0
      /\ fs \in Seq(Seq(Lines))
    BY <1>1, <1>2, <1>4, <1>6
<1>7. PICK all : Behind(es, e, fs, all)
    BY <1>k, BehindExists
<1>m. PICK m : m = (IF r = n THEN at[r] + 1 ELSE at[r])
    OBVIOUS
<1>8. PICK more : /\ Unread(input', all, r, more)
                  /\ more[r] = m
                  /\ \A i \in 1 .. at[r] : input'[i] = input[i]
    <2>1. Extended(input, r, at, e, all, IF r = Len(es) THEN at[r] + 1 ELSE at[r])
        BY <1>1, <1>4, <1>6, <1>7, <1>l, UnreadJoined
    <2> QED
        BY <1>1, <1>6, <1>m, <2>1, Zenon DEF Extended
<1>9. Laid(all, Heard', r)
    <2>1. Closed(Heard, Heard', n, left) /\ Len(e) > 0
        BY <1>2 DEF left
    <2> QED
        BY <1>1, <1>2, <1>3, <1>6, <1>7, <1>l, <2>1, LaidClosed
<1>10. r \in 0 .. Len(Heard')
    BY <1>3, <1>6
<1>11. /\ Deserving(Heard', r) = Deserving(Heard, r)
       /\ r > 0 => Deserving(Heard', r - 1) = Deserving(Heard, r - 1)
    BY <1>6, SentDeserving
<1>12. /\ at[r] \in 0 .. Len(input) /\ Len(input) \in Nat /\ at[r] \in Nat
       /\ r = n => at[r] = Len(input)
    <2>1. r \in r .. Len(es) /\ Len(input) \in Nat
        BY <1>1, <1>3, <1>6
    <2>2. at[r] \in 0 .. Len(input) /\ at[Len(es)] = Len(input)
        BY <1>6, <2>1 DEF Unread
    <2> QED
        BY <1>6, <2>1, <2>2
<1>13. ASSUME r # n
       PROVE  Phase(r, more[r])'
    <2>0. m = at[r]
        BY <1>13, <1>m
    <2>1. r > 0 => Heard'[r] = Heard[r]
        <3>1. r > 0 => r \in 1 .. n - 1
            BY <1>3, <1>6, <1>13
        <3> QED
            BY <1>3, <3>1
    <2>2. m \in Nat /\ Phase(r, m) /\ \A i \in 1 .. m : input'[i] = input[i]
        BY <1>6, <1>8, <1>12, <2>0
    <2>3. Phase(r, m)'
        BY <1>1, <1>6, <1>11, <2>1, <2>2, PhaseKept
    <2> QED
        BY <1>8, <2>3
<1>14. ASSUME r = n
       PROVE  Phase(r, more[r])'
    <2> DEFINE u == Heard[n]
               v == Heard'[n]
               l == Len(u.words)
               k == Len(args)
               z == Len(input)
    <2>1. r > 0 /\ pc = "args" /\ Reading(u, at[r]) /\ Between(Deserving(Heard, r - 1))
        BY <1>3, <1>6, <1>14 DEF Phase
    <2>2. v.form = "cut" /\ v.words = u.words /\ u.form = "short"
        BY <1>3 DEF Unit
    <2>3. l \in Nat /\ k \in Nat
        <3>1. Heard[n] \in Units
            BY <1>3
        <3> QED
            BY <3>1 DEF Units, ReplyInv, QuitInv, WellFormed
    <2>4. at[r] = z /\ z \in Nat /\ m = z + 1
        BY <1>12, <1>14, <1>m
    <2>5. /\ k <= l /\ \A i \in 1 .. k : args[i] = u.words[i]
          /\ missing = l - k + 1 /\ missing > 0 /\ z = missing - 1
          /\ \A i \in 1 .. l - k : input[i] = Line("$", 0, <<u.words[k + i]>>)
        BY <2>1, <2>2, <2>4 DEF Reading, ReadingAs, Extra
    <2>6. input'[z + 1] = e[1] /\ \A i \in 1 .. z : input'[i] = input[i]
        <3>1. (input \o e)[z + 1] = e[1]
            BY <1>1, <1>2, <2>4
        <3> QED
            BY <1>1, <1>8, <2>4, <3>1
    <2> HIDE DEF u, v, l, k, z
    <2>7. z = l - k /\ l - k \in Nat
        BY <2>3, <2>5
    <2>8. ReadingAs(v, args', missing', input', l, k, 1)
        <3>1. \A i \in 1 .. l - k : input'[i] = Line("$", 0, <<v.words[k + i]>>)
            BY <2>2, <2>5, <2>6, <2>7
        <3>2. input'[l - k + 1].tag # "$"
            BY <1>2, <2>6, <2>7
        <3> QED
            BY <1>1, <2>2, <2>5, <3>1, <3>2 DEF ReadingAs
    <2>9. Reading(Heard[r], m)'
        <3>1. /\ v.form # "short" /\ Extra(v) = 1 /\ l = Len(v.words) /\ k = Len(args')
              /\ m = missing'
            <4>1. m = missing'
                BY <1>1, <2>4, <2>5, <2>3
            <4>2. l = Len(v.words) /\ k = Len(args')
                BY <1>1, <2>2 DEF l, k
            <4> QED
                BY <2>2, <4>1, <4>2 DEF Extra
        <3>2. missing' \in Int
            BY <1>1, <2>3, <2>5
        <3>3. Heard'[r] = v
            BY <1>14 DEF v
        <3>4. m = missing' - (IF v.form = "short" THEN 1 ELSE 0)
            <4>1. (IF v.form = "short" THEN 1 ELSE 0) = 0
                BY <3>1
            <4>2. \A x \in Int : x = x - 0
                OBVIOUS
            <4> QED
                BY <3>1, <3>2, <4>1, <4>2, Zenon
        <3> QED
            BY <2>8, <3>1, <3>3, <3>4 DEF Reading
    <2>10. Between(Deserving(Heard, r - 1))'
        <3>1. Cut' = Cut
            BY <1>1 DEF Cut
        <3> QED
            BY <1>11, <2>1, <3>1 DEF Between
    <2>11. Phase(r, m)'
        <3>1. v.form # "short" /\ Heard'[r] = v
            BY <1>14, <2>2 DEF v
        <3>2. pc' = "args"
            BY <1>1, <2>1
        <3> QED
            BY <2>1, <2>9, <2>10, <3>2 DEF Phase
    <2> QED
        BY <1>8, <2>11
<1>15. Phase(r, more[r])'
    BY <1>13, <1>14
<1>16. Placed(r, all, more)'
    BY <1>8, <1>9, <1>10, <1>15 DEF Placed
<1> QED
    BY <1>16

LEMMA SendReplies ==
    ASSUME ReplyInv, QuitInv', NEW c \in Commands, Send(c)
    PROVE  ReplyInv'
<1>1. Cut' = Cut /\ pc' = pc /\ wire \in Seq(Frames)
    BY DEF Send, Cut, ReplyInv, QuitInv, WellFormed
<1>2. Cut.done \in Seq(Seq(Frames))
    BY <1>1, CutIsFold DEF Cut, Cuts
<1>3. Matched(Cut.done, Heard)'
    <2>1. /\ Heard \in Seq(Units) /\ Heard' \in Seq(Units) /\ Len(Heard) <= Len(Heard')
          /\ \A j \in 1 .. Len(Heard) : Heard'[j].words = Heard[j].words
        BY SentUnits
    <2>2. Matched(Cut.done, Heard)
        BY DEF ReplyInv
    <2>3. Matched(Cut.done, Heard')
        BY <1>2, <2>1, <2>2, MatchedSent
    <2> QED
        BY <1>1, <2>3
<1>4. asked' \in Seq(Commands) /\ OneOpen(Heard')
    BY SentUnits
<1>5. ASSUME pc # "closed"
      PROVE  \E r, es, at : Placed(r, es, at)'
    <2>1. Grown(Heard, Heard', c) \/ Closed(Heard, Heard', Len(Heard), Leftovers(c))
        BY SentUnits
    <2> QED
        BY <1>5, <2>1, GrownPlaced, ClosedPlaced
<1> QED
    BY <1>1, <1>3, <1>4, <1>5 DEF ReplyInv

\* The inductive invariant: the lines that are not read split into the rest of
\* one unit and the lines of whole units behind it, the replies that are written
\* belong to the units before, in order, and the reply that is being written
\* owes what is left of it.
THEOREM RepliesInductive == Spec => []ReplyInv
<1>1. Init => ReplyInv
    <2> SUFFICES ASSUME Init PROVE ReplyInv
        OBVIOUS
    <2>1. QuitInv
        BY DEF Init, QuitInv, WellFormed, QuitServed
    <2>2. /\ input = <<>> /\ asked = <<>> /\ wire = <<>> /\ pc = "ready"
          /\ asked \in Seq(Commands) /\ Len(input) = 0
        BY DEF Init
    <2>h. Heard = <<>> /\ Len(Heard) = 0
        BY <2>2, UnderstoodEmpty DEF Heard
    <2>3. Cut = CutInto(<<>>, <<>>, 0)
        BY <2>2, CutEmpty DEF Cut, Cut0, CutInto
    <2>4. <<>> \in Seq(Seq(Frames)) /\ Len(<<>>) = 0 /\ Cut.done = <<>>
        BY <2>3 DEF CutInto
    <2>5. Deserving(Heard, 0) = 0
        <3>1. 0 \in Nat /\ 0 <= 0
            OBVIOUS
        <3> QED
            BY <3>1, DeservingIsNat
    <2>6. Matched(Cut.done, Heard)
        BY <2>h, <2>4, <2>5 DEF Matched
    <2> DEFINE at == [q \in 0 .. 0 |-> 0]
    <2>7. at[0] = 0 /\ Unread(input, <<>>, 0, at)
        <3>1. at \in [0 .. 0 -> 0 .. 0] /\ \A q \in 0 .. 0 : q = 0 /\ at[q] = 0
            OBVIOUS
        <3>2. Len(<<>>) = 0
            OBVIOUS
        <3> HIDE DEF at
        <3> QED
            BY <2>2, <3>1, <3>2 DEF Unread
    <2>8. Phase(0, 0)
        <3>1. Between(0)
            BY <2>3, <2>4 DEF Between
        <3>2. Between(Deserving(Heard, 0)) /\ ~ (0 > 0)
            BY <2>5, <3>1
        <3> QED
            BY <2>2, <3>2 DEF Phase
    <2>9. Laid(<<>>, Heard, 0)
        BY <2>h DEF Laid
    <2> HIDE DEF at
    <2>10. 0 \in 0 .. Len(Heard)
        BY <2>h
    <2>11. Placed(0, <<>>, at)
        BY <2>7, <2>8, <2>9, <2>10 DEF Placed
    <2>12. OneOpen(Heard)
        BY <2>h DEF OneOpen
    <2> QED
        BY <2>1, <2>2, <2>6, <2>11, <2>12 DEF ReplyInv
<1>2. QuitInv' /\ ReplyInv /\ [Next]_vars => ReplyInv'
    <2> SUFFICES ASSUME QuitInv', ReplyInv, [Next]_vars
                 PROVE  ReplyInv'
        OBVIOUS
    <2>1. CASE UNCHANGED vars
        <3>1. /\ Cut' = Cut /\ Heard' = Heard
              /\ UNCHANGED <<input, pc, args, missing, sent, asked>>
            BY <2>1 DEF vars, Cut, Heard
        <3>2. \A r, es, at : Placed(r, es, at) => Placed(r, es, at)'
            BY <3>1 DEF Placed, Phase, Between, Reading, Serving, Streaming
        <3> QED
            BY <3>1, <3>2 DEF ReplyInv
    <2>2. CASE HangUp
        BY <2>2, HangUpReplies
    <2>3. CASE \E c \in Commands : Send(c)
        BY <2>3, SendReplies
    <2>4. CASE Serve
        <3>1. CASE ReadHeader
            BY <3>1, HeaderStep
        <3>2. CASE ReadString
            BY <3>2, StringStep
        <3>3. CASE ReadMalformed
            BY <3>3, MalformedStep
        <3>4. CASE ReadInline /\ Head(input).tag = "$"
            BY <3>4, LengthStep
        <3>5. CASE (ReadInline /\ Head(input).tag # "$") \/ SkipBlank
            <4>1. Head(input).tag # "$"
                BY <3>5 DEF SkipBlank
            <4> QED
                BY <3>5, <4>1, LineStep
        <3>6. CASE GhostPass \/ GhostDrop \/ GhostError
            BY <3>6, GhostReplies
        <3>7. CASE Answer
            BY <3>7, AnswerReplies
        <3>8. CASE StartCrush
            BY <3>8, StartReplies
        <3>9. CASE StreamChunk
            BY <3>9, ChunkReplies
        <3>10. CASE StreamDone
            BY <3>10, DoneReplies
        <3> QED
            BY <2>4, <3>1, <3>2, <3>3, <3>4, <3>5, <3>6, <3>7, <3>8, <3>9, <3>10 DEF Serve
    <2> QED
        BY <2>1, <2>2, <2>3, <2>4 DEF Next
<1> QED
    BY <1>1, <1>2, QuitInductive, PTL DEF Spec

\* For every pipeline, every ghost and every crush: the nth reply on the wire
\* answers the nth command that the lines of the pipeline amount to, those
\* without a word deserving none (read_command and the loop of handle in
\* resp.rs).
THEOREM RepliesMatch == Spec => []RepliesMatchCommands
<1>1. ReplyInv => RepliesMatchCommands
    BY DEF ReplyInv, Matched, RepliesMatchCommands
<1> QED
    BY <1>1, RepliesInductive, PTL

\* For every pipeline: a session that has read all it was sent and waits for
\* more has answered every command, and no array on the wire lacks a value it
\* announced, the streamed KEYS of a crush with them (crush_stream in resp.rs).
THEOREM NothingIsOwed == Spec => []NothingOwed
<1>1. ReplyInv => NothingOwed
    <2> SUFFICES ASSUME ReplyInv, pc = "ready", input = <<>>
                 PROVE  Cut.owed = 0 /\ Len(Cut.done) = Deserving(Heard, Len(Heard))
        BY DEF NothingOwed
    <2>r. PICK r, es, at : Placed(r, es, at)
        BY DEF ReplyInv
    <2>1. /\ r \in 0 .. Len(Heard) /\ Laid(es, Heard, r) /\ Unread(input, es, r, at)
          /\ Phase(r, at[r])
        BY <2>r DEF Placed
    <2>2. r = Len(Heard)
        <3>1. Len(Heard) \in Nat /\ Len(input) = 0 /\ Len(es) = Len(Heard) /\ r \in Nat
            BY <2>1, HeardIsUnits DEF ReplyInv, Laid
        <3>2. SUFFICES ASSUME r < Len(Heard) PROVE FALSE
            BY <2>1, <3>1
        <3>3. /\ r + 1 \in r + 1 .. Len(es) /\ r + 1 \in r .. Len(es)
              /\ r \in r .. Len(es) /\ (r + 1) - 1 = r
            BY <3>1, <3>2
        <3>4. /\ at[r + 1] \in 0 .. 0 /\ at[r] \in 0 .. 0
              /\ at[r + 1] = at[r] + Len(es[r + 1])
            BY <2>1, <3>1, <3>3 DEF Unread
        <3>5. Len(es[r + 1]) \in Nat \ {0}
            BY <2>1, <3>1, <3>2, FirstNotEmpty
        <3> QED
            BY <3>4, <3>5
    <2>3. Between(Deserving(Heard, r))
        BY <2>1 DEF Phase
    <2> QED
        BY <2>2, <2>3 DEF Between, CutInto
<1> QED
    BY <1>1, RepliesInductive, PTL
=============================================================================
