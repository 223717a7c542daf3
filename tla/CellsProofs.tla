---------------------------- MODULE CellsProofs ----------------------------
(***************************************************************************)
(* The date arithmetic is right on every day: days_from_civil counts the   *)
(* days of the Gregorian calendar, civil_from_days gives a date of that    *)
(* calendar and is the inverse of the count, and a formatted timestamp     *)
(* reaches a binary client as the instant it was made of.                  *)
(*                                                                         *)
(* A name means the same in every style, and a rule takes the names it     *)
(* should.  Every generated cell, for every rules file, name, cast and     *)
(* instant: its text is a value of the type announced, its binary form is  *)
(* the value that the generator meant, and its date one of the calendar.   *)
(***************************************************************************)
EXTENDS Cells, Induction, SequenceTheorems, TLAPS

----------------------------------------------------------------------------
(* The calendar.                                                           *)

\* The days of an era, and those from the start of the first to 1970-01-01.
EraDays == 146097
Offset == 719468

\* The count without its eras: the leap days of the years before.
LEMMA DaysFlat ==
    ASSUME NEW year \in Int, NEW m \in 1..12, NEW d \in Int
    PROVE  DaysFromCivil(year, m, d)
             = LET y == IF m <= 2 THEN year - 1 ELSE year
                   mp == IF m <= 2 THEN m + 9 ELSE m - 3
               IN  y * 365 + y \div 4 - y \div 100 + y \div 400
                   + (153 * mp + 2) \div 5 + d - 1 - Offset
  BY SMTT(30) DEF DaysFromCivil, TruncDiv, Offset

LEMMA SameMonth ==
    ASSUME NEW y \in Int, NEW m \in 1..12, NEW d \in Int
    PROVE  DaysFromCivil(y, m, d + 1) = DaysFromCivil(y, m, d) + 1
  BY SMTT(30) DEF DaysFromCivil, TruncDiv

\* February ends one day later in a leap year.
LEMMA EndOfFebruary ==
    ASSUME NEW y \in Int, NEW d \in Int, d = MonthLength(y, 2)
    PROVE  DaysFromCivil(y, 3, 1) = DaysFromCivil(y, 2, d) + 1
<1>1. DaysFromCivil(y, 3, 1)
        = y * 365 + y \div 4 - y \div 100 + y \div 400 + 1 - 719469
  BY SMTT(30) DEF DaysFromCivil, TruncDiv
<1>2. DaysFromCivil(y, 2, d)
        = (y - 1) * 365 + (y - 1) \div 4 - (y - 1) \div 100 + (y - 1) \div 400
          + 337 + d - 719469
  BY DaysFlat, SMTT(30) DEF Offset
<1>3. d = IF y % 4 = 0 /\ (y % 100 # 0 \/ y % 400 = 0) THEN 29 ELSE 28
  BY SMT DEF MonthLength, IsLeap
<1>4. y \div 4 - (y - 1) \div 4 = IF y % 4 = 0 THEN 1 ELSE 0
  BY SMT
<1>5. y \div 100 - (y - 1) \div 100 = IF y % 100 = 0 THEN 1 ELSE 0
  BY SMT
<1>6. y \div 400 - (y - 1) \div 400 = IF y % 400 = 0 THEN 1 ELSE 0
  BY SMT
<1>7. (y % 400 = 0 => y % 100 = 0) /\ (y % 100 = 0 => y % 4 = 0)
  BY SMT
<1> QED
  BY <1>1, <1>2, <1>3, <1>4, <1>5, <1>6, <1>7, SMTT(30)

LEMMA EndOfMonth ==
    ASSUME NEW y \in Int, NEW m \in (1..11) \ {2}, NEW d \in Int, d = MonthLength(y, m)
    PROVE  DaysFromCivil(y, m + 1, 1) = DaysFromCivil(y, m, d) + 1
<1>1. d = IF m \in {4, 6, 9, 11} THEN 30 ELSE 31
  BY SMT DEF MonthLength
<1>2. CASE m = 1
  BY <1>1, <1>2, SMTT(30) DEF DaysFromCivil, TruncDiv
<1>3. CASE m > 2
  BY <1>1, <1>3, SMTT(30) DEF DaysFromCivil, TruncDiv
<1> QED
  BY <1>2, <1>3

LEMMA EndOfYear ==
    ASSUME NEW y \in Int
    PROVE  DaysFromCivil(y + 1, 1, 1) = DaysFromCivil(y, 12, 31) + 1
  BY DaysFlat, SMTT(30) DEF Offset

\* days_from_civil counts the days of the calendar: the day after any date has
\* the next number, across months, years, leap years and centuries.
THEOREM CountsTheDays ==
    ASSUME NEW y \in Int, NEW m \in 1..12, NEW d \in 1..MonthLength(y, m)
    PROVE  LET next == DayAfter(<<y, m, d>>)
           IN  DaysFromCivil(next[1], next[2], next[3]) = DaysFromCivil(y, m, d) + 1
<1> DEFINE last == MonthLength(y, m)
<1>1. last \in {28, 29, 30, 31}
  BY SMT DEF MonthLength
<1>2. CASE d < last
  <2>1. DayAfter(<<y, m, d>>) = <<y, m, d + 1>>
    BY <1>2 DEF DayAfter
  <2> QED
    BY <2>1, <1>1, SameMonth, SMT
<1>3. CASE d = last /\ m = 2
  <2>1. DayAfter(<<y, m, d>>) = <<y, 3, 1>>
    BY <1>1, <1>3, SMT DEF DayAfter
  <2> QED
    BY <2>1, <1>1, <1>3, EndOfFebruary, SMT
<1>4. CASE d = last /\ m < 12 /\ m # 2
  <2>1. DayAfter(<<y, m, d>>) = <<y, m + 1, 1>>
    BY <1>1, <1>4, SMT DEF DayAfter
  <2> QED
    BY <2>1, <1>1, <1>4, EndOfMonth, SMT
<1>5. CASE d = last /\ m = 12
  <2>1. DayAfter(<<y, m, d>>) = <<y + 1, 1, 1>>
    BY <1>1, <1>5, SMT DEF DayAfter
  <2>2. d = 31
    BY <1>5, SMT DEF MonthLength
  <2> QED
    BY <2>1, <2>2, <1>5, EndOfYear, SMT
<1> QED
  BY <1>1, <1>2, <1>3, <1>4, <1>5, SMT
----------------------------------------------------------------------------
(* The year, the month and the day of a number.                            *)

\* The corrections of year_of_era as inequalities: every year has 365 days, and
\* a 366th only before a leap year (the day is then 29 February).
LEMMA EraBounds ==
    ASSUME NEW doe \in Int, NEW a \in Int, NEW b \in Int, NEW c \in Int,
           NEW q \in Int, NEW r \in Int, NEW s \in Int,
           0 <= doe, doe <= 146096,
           1460 * a <= doe, doe < 1460 * a + 1460,
           36524 * b <= doe, doe < 36524 * b + 36524,
           146096 * c <= doe, doe < 146096 * c + 146096,
           365 * q <= doe - a + b - c, doe - a + b - c < 365 * q + 365,
           4 * r <= q, q < 4 * r + 4,
           100 * s <= q, q < 100 * s + 100
    PROVE  LET doy == doe - (365 * q + r - s)
           IN  /\ 0 <= q /\ q <= 399
               /\ 0 <= doy /\ doy <= 365
               /\ doy = 365 => q = 4 * r + 3 /\ (q # 100 * s + 99 \/ q = 399)
  BY SMTT(30)

LEMMA YearAndDay ==
    ASSUME NEW doe \in Int
    PROVE  0 <= doe /\ doe <= 146096 =>
           /\ YearOfEra(doe) \in Int
           /\ 0 <= YearOfEra(doe) /\ YearOfEra(doe) <= 399
           /\ 0 <= DayOfYear(doe) /\ DayOfYear(doe) <= 365
           /\ DayOfYear(doe) = 365 => IsLeap(YearOfEra(doe) + 1)
<1>1. PICK a \in Int : a = doe \div 1460 /\ 1460 * a <= doe /\ doe < 1460 * a + 1460
  BY SMT
<1>2. PICK b \in Int : b = doe \div 36524 /\ 36524 * b <= doe /\ doe < 36524 * b + 36524
  BY SMT
<1>3. PICK c \in Int : c = doe \div 146096 /\ 146096 * c <= doe /\ doe < 146096 * c + 146096
  BY SMT
<1>4. PICK n \in Int : n = doe - a + b - c
  BY SMT
<1>5. PICK q \in Int : q = n \div 365 /\ 365 * q <= n /\ n < 365 * q + 365
  BY SMT
<1>6. PICK r \in Int : r = q \div 4 /\ 4 * r <= q /\ q < 4 * r + 4
  BY SMT
<1>7. PICK s \in Int : s = q \div 100 /\ 100 * s <= q /\ q < 100 * s + 100
  BY SMT
<1>8. PICK doy \in Int : doy = doe - (365 * q + r - s)
  BY SMT
<1>9. YearOfEra(doe) = q /\ DayOfYear(doe) = doy
  <2>1. YearOfEra(doe) = q
    BY <1>1, <1>2, <1>3, <1>4, <1>5, SMT DEF YearOfEra
  <2> QED
    BY <2>1, <1>6, <1>7, <1>8, Zenon DEF DayOfYear
<1>10. ASSUME 0 <= doe, doe <= 146096
       PROVE  /\ 0 <= q /\ q <= 399
              /\ 0 <= doy /\ doy <= 365
              /\ doy = 365 => q = 4 * r + 3 /\ (q # 100 * s + 99 \/ q = 399)
  BY <1>1, <1>2, <1>3, <1>4, <1>5, <1>6, <1>7, <1>8, <1>10, EraBounds, SMT
<1>11. q = 4 * r + 3 /\ (q # 100 * s + 99 \/ q = 399) => IsLeap(q + 1)
  BY <1>7, SMT DEF IsLeap
<1> QED
  BY <1>9, <1>10, <1>11, SMT

\* The month and the day of a day of a year that starts in March.
LEMMA MonthAndDay ==
    ASSUME NEW doy \in Int, NEW mp \in Int, NEW d \in Int,
           0 <= doy, doy <= 365,
           mp = (5 * doy + 2) \div 153, d = doy - (153 * mp + 2) \div 5 + 1
    PROVE  /\ 0 <= mp /\ mp <= 11
           /\ 1 <= d /\ d <= 31
           /\ mp \in {1, 3, 6, 8} => d <= 30
           /\ mp = 11 => d <= 29 /\ (d = 29 => doy = 365)
  BY SMTT(30)

LEMMA Eras ==
    ASSUME NEW days \in Int
    PROVE  LET z == days + 719468
               era == TruncDiv(IF z >= 0 THEN z ELSE z - 146096, 146097)
           IN  /\ era \in Int
               /\ 0 <= z - era * 146097 /\ z - era * 146097 <= 146096
  BY SMTT(30) DEF TruncDiv

LEMMA CenturiesOfEras ==
    ASSUME NEW yoe \in Int, NEW era \in Int, 0 <= yoe, yoe <= 399
    PROVE  /\ (yoe + era * 400) \div 4 = yoe \div 4 + 100 * era
           /\ (yoe + era * 400) \div 100 = yoe \div 100 + 4 * era
           /\ (yoe + era * 400) \div 400 = era
  BY SMTT(30)

LEMMA LeapYearsOfEras ==
    ASSUME NEW y \in Int, NEW era \in Int
    PROVE  IsLeap(y + era * 400) <=> IsLeap(y)
  BY SMTT(30) DEF IsLeap

\* A date of the code is the month and the day of a day of a year of an era.
Decomposed(days, era, doe, yoe, doy, mp, m, d, y) ==
    /\ days + Offset = doe + era * EraDays
    /\ doy = doe - (365 * yoe + yoe \div 4 - yoe \div 100)
    /\ 0 <= yoe /\ yoe <= 399
    /\ doy = 365 => IsLeap(yoe + 1)
    /\ mp = (5 * doy + 2) \div 153
    /\ 0 <= mp /\ mp <= 11
    /\ m = IF mp < 10 THEN mp + 3 ELSE mp - 9
    /\ d = doy - (153 * mp + 2) \div 5 + 1
    /\ 1 <= d /\ d <= 31
    /\ mp \in {1, 3, 6, 8} => d <= 30
    /\ mp = 11 => d <= 29 /\ (d = 29 => doy = 365)
    /\ y = IF m <= 2 THEN yoe + era * 400 + 1 ELSE yoe + era * 400
    /\ CivilFromDays(days) = <<y, m, d>>

LEMMA Parts ==
    ASSUME NEW days \in Int
    PROVE  \E era, doe, yoe, doy, mp, m, d, y \in Int :
             Decomposed(days, era, doe, yoe, doy, mp, m, d, y)
<1> DEFINE z == days + 719468
<1>1. PICK era \in Int :
         /\ era = TruncDiv(IF z >= 0 THEN z ELSE z - 146096, 146097)
         /\ 0 <= z - era * 146097 /\ z - era * 146097 <= 146096
  BY Eras, SMT
<1>2. PICK doe \in Int : doe = z - era * 146097 /\ 0 <= doe /\ doe <= 146096
  BY <1>1, SMT
<1>3. PICK yoe \in Int : yoe = YearOfEra(doe) /\ 0 <= yoe /\ yoe <= 399
  BY <1>2, YearAndDay, SMT
<1>4. PICK doy \in Int :
         /\ doy = DayOfYear(doe)
         /\ doy = doe - (365 * yoe + yoe \div 4 - yoe \div 100)
  BY <1>3, SMT DEF DayOfYear
<1>5. 0 <= doy /\ doy <= 365 /\ (doy = 365 => IsLeap(yoe + 1))
  BY <1>2, <1>3, <1>4, YearAndDay, SMT
<1>6. PICK mp \in Int : mp = (5 * doy + 2) \div 153
  BY SMT
<1>7. PICK d \in Int : d = doy - (153 * mp + 2) \div 5 + 1
  BY SMT
<1>8. /\ 0 <= mp /\ mp <= 11
      /\ 1 <= d /\ d <= 31
      /\ mp \in {1, 3, 6, 8} => d <= 30
      /\ mp = 11 => d <= 29 /\ (d = 29 => doy = 365)
  BY <1>5, <1>6, <1>7, MonthAndDay, SMT
<1>9. PICK m \in Int : m = IF mp < 10 THEN mp + 3 ELSE mp - 9
  BY SMT
<1>10. PICK y \in Int : y = IF m <= 2 THEN yoe + era * 400 + 1 ELSE yoe + era * 400
  BY SMT
<1>11. CivilFromDays(days) = <<y, m, d>>
  BY <1>1, <1>2, <1>3, <1>4, <1>6, <1>7, <1>9, <1>10, SMTT(30) DEF CivilFromDays
<1>12. days + Offset = doe + era * EraDays
  BY <1>2, SMT DEF Offset, EraDays
<1>13. Decomposed(days, era, doe, yoe, doy, mp, m, d, y)
  BY <1>3, <1>4, <1>5, <1>6, <1>7, <1>8, <1>9, <1>10, <1>11, <1>12 DEF Decomposed
<1> QED
  BY <1>13
----------------------------------------------------------------------------
\* civil_from_days gives a date of the calendar: a month and a day it has,
\* 29 February only in a leap year.
THEOREM DatesAreDates ==
    ASSUME NEW days \in Int
    PROVE  IsDate(CivilFromDays(days))
<1>1. PICK era, doe, yoe, doy, mp, m, d, y \in Int :
         Decomposed(days, era, doe, yoe, doy, mp, m, d, y)
  BY Parts
<1>2. m \in 1..12
  BY <1>1, SMT DEF Decomposed
<1>3. m = 2 /\ d = 29 => IsLeap(y)
  <2>1. ASSUME m = 2, d = 29
        PROVE  IsLeap(y)
    <3>1. mp = 11 /\ y = (yoe + 1) + era * 400
      BY <1>1, <2>1, SMT DEF Decomposed
    <3>2. IsLeap(yoe + 1)
      BY <1>1, <2>1, <3>1, SMT DEF Decomposed
    <3>3. yoe + 1 \in Int
      BY SMT
    <3> QED
      BY <3>1, <3>2, <3>3, LeapYearsOfEras, Zenon
  <2> QED
    BY <2>1
<1>4. d \in 1..MonthLength(y, m)
  <2>1. CASE m = 2
    <3>1. mp = 11
      BY <1>1, <2>1, SMT DEF Decomposed
    <3>2. 1 <= d /\ d <= 29
      BY <1>1, <3>1, SMT DEF Decomposed
    <3>3. MonthLength(y, m) = IF IsLeap(y) THEN 29 ELSE 28
      BY <2>1 DEF MonthLength
    <3> QED
      BY <1>3, <2>1, <3>2, <3>3, SMT
  <2>2. CASE m \in {4, 6, 9, 11}
    <3>1. mp \in {1, 3, 6, 8}
      BY <1>1, <2>2, SMT DEF Decomposed
    <3>2. 1 <= d /\ d <= 30
      BY <1>1, <3>1, SMT DEF Decomposed
    <3>3. MonthLength(y, m) = 30
      BY <2>2, SMT DEF MonthLength
    <3> QED
      BY <3>2, <3>3, SMT
  <2>3. CASE m # 2 /\ m \notin {4, 6, 9, 11}
    <3>1. MonthLength(y, m) = 31
      BY <2>3 DEF MonthLength
    <3> QED
      BY <1>1, <3>1, SMT DEF Decomposed
  <2> QED
    BY <2>1, <2>2, <2>3
<1> QED
  BY <1>1, <1>2, <1>4, SMT DEF IsDate, Decomposed

\* days_from_civil is the inverse of civil_from_days.
THEOREM DatesRoundTrip ==
    ASSUME NEW days \in Int
    PROVE  LET date == CivilFromDays(days)
           IN  DaysFromCivil(date[1], date[2], date[3]) = days
<1>1. PICK era, doe, yoe, doy, mp, m, d, y \in Int :
         Decomposed(days, era, doe, yoe, doy, mp, m, d, y)
  BY Parts
<1>2. PICK Y \in Int : Y = yoe + era * 400
  BY SMT
<1>3. /\ m \in 1..12
      /\ mp = IF m <= 2 THEN m + 9 ELSE m - 3
      /\ Y = IF m <= 2 THEN y - 1 ELSE y
  BY <1>1, <1>2, SMT DEF Decomposed
<1>4. DaysFromCivil(y, m, d)
        = Y * 365 + Y \div 4 - Y \div 100 + Y \div 400
          + (153 * mp + 2) \div 5 + d - 1 - Offset
  BY <1>3, SMTT(30) DEF DaysFromCivil, TruncDiv, Offset
<1>5. /\ Y \div 4 = yoe \div 4 + 100 * era
      /\ Y \div 100 = yoe \div 100 + 4 * era
      /\ Y \div 400 = era
  BY <1>1, <1>2, CenturiesOfEras, SMT DEF Decomposed
<1>6. DaysFromCivil(y, m, d) = days
  <2>1. PICK q \in Int : q = (153 * mp + 2) \div 5
    BY SMT
  <2>2. PICK a \in Int : a = yoe \div 4
    BY SMT
  <2>3. PICK b \in Int : b = yoe \div 100
    BY SMT
  <2>4. DaysFromCivil(y, m, d)
          = (yoe + era * 400) * 365 + (a + 100 * era) - (b + 4 * era) + era
            + q + d - 1 - Offset
    BY <1>2, <1>4, <1>5, <2>1, <2>2, <2>3, SMT
  <2>5. d = doy - q + 1 /\ doy = doe - (365 * yoe + a - b)
    BY <1>1, <2>1, <2>2, <2>3, SMT DEF Decomposed
  <2> QED
    BY <1>1, <2>4, <2>5, SMT DEF Offset, EraDays, Decomposed
<1> QED
  BY <1>1, <1>6, SMT DEF Decomposed

\* A formatted timestamp reaches a binary client as the instant it was made of.
THEOREM TimestampsRoundTrip ==
    ASSUME NEW epoch \in Int
    PROVE  TimestampToBinary(FmtTimestamp(epoch)) = epoch - 946684800
<1>1. PICK days \in Int : days = epoch \div 86400
  BY SMT
<1>2. PICK sec \in Int : sec = epoch % 86400 /\ epoch = days * 86400 + sec
  BY <1>1, SMT
<1> DEFINE date == CivilFromDays(days)
           time == FmtTime(epoch)
<1>3. DaysFromCivil(date[1], date[2], date[3]) = days
  BY DatesRoundTrip
<1>4. TimeToBinary(time) = sec
  BY <1>2, SMTT(30) DEF TimeToBinary, FmtTime
<1>5. FmtTimestamp(epoch) = <<date, time>>
  BY <1>1, SMT DEF FmtTimestamp, FmtDate
<1> HIDE DEF date, time
<1>6. TimestampToBinary(<<date, time>>) = days * 86400 + sec - 946684800
  BY <1>3, <1>4, SMT DEF TimestampToBinary
<1> QED
  BY <1>2, <1>5, <1>6, SMT


----------------------------------------------------------------------------
(* The type of a name.                                                     *)

\* Min of a set of numbers is the least of them.
LEMMA LeastOf ==
    ASSUME NEW T, T \subseteq Nat, T # {}
    PROVE  Min(T) \in T /\ \A y \in T : Min(T) <= y
<1>1. PICK x \in T : \A y \in T : x <= y
    BY HasLeast
<1> QED
    BY <1>1 DEF Min

\* The built-in tables name semantic types only.
LEMMA TablesAreTyped ==
    /\ DOMAIN Exact \subseteq SemanticTypes
    /\ DOMAIN Suffix \subseteq SemanticTypes
    /\ DOMAIN Prefix \subseteq SemanticTypes
    /\ \A i \in 1 .. Len(Token) : Token[i][2] \in SemanticTypes
BY DEF Exact, Suffix, Prefix, Token, SemanticTypes, IntegerTypes, RealTypes, DecimalTypes,
       TextTypes

\* An entry of a table is one of its types.
LEMMA EntryIsListed ==
    ASSUME NEW table, NEW word, Listed(table, word)
    PROVE  Entry(table, word) \in DOMAIN table
BY Zenon DEF Listed, Entry

\* Whatever the rules and the name, the name has one of the semantic types.
LEMMA InferTyped ==
    ASSUME NEW words
    PROVE  Infer(words) \in SemanticTypes
<1> DEFINE whole == Joined(words, "")
           hits == {i \in 1 .. Len(Token) : Contains(words, Token[i][1])}
           token == SelectInSeq(Token, LAMBDA t : Contains(words, t[1]))
<1>1. Listed(Exact, whole) => Entry(Exact, whole) \in SemanticTypes
    BY TablesAreTyped, EntryIsListed, Zenon
<1>2. Listed(Suffix, Last(words)) => Entry(Suffix, Last(words)) \in SemanticTypes
    BY TablesAreTyped, EntryIsListed, Zenon
<1>3. Listed(Prefix, words[1]) => Entry(Prefix, words[1]) \in SemanticTypes
    BY TablesAreTyped, EntryIsListed, Zenon
<1>4. token # 0 => Token[token][2] \in SemanticTypes
    <2>1. token = IF hits # {} THEN Min(hits) ELSE 0
        BY DEF SelectInSeq
    <2>2. hits # {} => Min(hits) \in hits
        <3>1. hits \subseteq Nat
            OBVIOUS
        <3> QED
            BY <3>1, LeastOf
    <2> QED
        BY <2>1, <2>2, TablesAreTyped
<1>5. "LoremShort" \in SemanticTypes
    BY DEF SemanticTypes, TextTypes
<1>6. Infer(words) =
          CASE Listed(Exact, whole) -> Entry(Exact, whole)
            [] ~Listed(Exact, whole) /\ Len(words) > 1 /\ Listed(Suffix, Last(words)) ->
                  Entry(Suffix, Last(words))
            [] OTHER ->
                  IF Len(words) > 1 /\ Listed(Prefix, words[1]) THEN Entry(Prefix, words[1])
                  ELSE IF token # 0 THEN Token[token][2] ELSE "LoremShort"
    BY Zenon DEF Infer
<1> HIDE DEF whole, token
<1> QED
    BY <1>1, <1>2, <1>3, <1>4, <1>5, <1>6

\* The same under a file of rules.
LEMMA InferWithTyped ==
    ASSUME NEW file, \A i \in 1 .. Len(file) : file[i].st \in SemanticTypes, NEW words
    PROVE  InferWith(file, words) \in SemanticTypes
<1> DEFINE First(kind) ==
               SelectInSeq(file, LAMBDA r : r.kind = kind /\ Hits(r, words))
           k == SelectInSeq(Kinds, LAMBDA kind : First(kind) # 0)
<1>1. \A kind : First(kind) # 0 => First(kind) \in 1 .. Len(file)
    <2> SUFFICES ASSUME NEW kind, First(kind) # 0
                 PROVE  First(kind) \in 1 .. Len(file)
        OBVIOUS
    <2> DEFINE hits == {i \in 1 .. Len(file) : file[i].kind = kind /\ Hits(file[i], words)}
    <2>1. First(kind) = IF hits # {} THEN Min(hits) ELSE 0
        BY DEF SelectInSeq
    <2>2. hits \subseteq Nat
        OBVIOUS
    <2> QED
        BY <2>1, <2>2, LeastOf
<1>2. Deciding(file, words) # 0 => Deciding(file, words) \in 1 .. Len(file)
    <2>1. Deciding(file, words) = IF k = 0 THEN 0 ELSE First(Kinds[k])
        BY Zenon DEF Deciding
    <2> HIDE DEF k, First
    <2> QED
        BY <1>1, <2>1, Zenon
<1> QED
    BY <1>2, InferTyped DEF InferWith

\* What a cast makes of a column.
LEMMA GenericsFit ==
    ASSUME NEW wt \in WireTypes
    PROVE  GenericFor[wt] \in SemanticTypes /\ WireType(GenericFor[wt]) = wt
BY DEF WireTypes, GenericFor, SemanticTypes, WireType, IntegerTypes, RealTypes, DecimalTypes,
       TextTypes

\* A column is announced with the wire type of its values.
LEMMA ResolvedTyped ==
    ASSUME NEW chunks, NEW cast \in WireTypes \cup {"none"},
           NEW file, \A i \in 1 .. Len(file) : file[i].st \in SemanticTypes
    PROVE  LET col == Resolved(chunks, cast, file)
           IN  col.st \in SemanticTypes /\ col.wt = WireType(col.st)
<1>1. InferWith(file, Normalize(chunks)) \in SemanticTypes
    BY InferWithTyped
<1>2. CASE cast \in {"none", WireType(InferWith(file, Normalize(chunks)))}
    BY <1>1, <1>2 DEF Resolved
<1>3. CASE cast \notin {"none", WireType(InferWith(file, Normalize(chunks)))}
    BY <1>3, GenericsFit DEF Resolved
<1> QED
    BY <1>2, <1>3
----------------------------------------------------------------------------
(* The values of a type.                                                   *)

\* A value of the type of a column, its binary form and its date.
ValueFits(st, epoch, v) ==
    /\ Spelled(WireType(st), v)
    /\ WireType(st) = "bool" => v \in {Plain("t"), Plain("f")}
    /\ TextToBinary(Binarize(WireType(st)), v) = Value(Meant(st, v, epoch))
    /\ st \in {"Date", "Timestamp"} => IsDate(v.date)

\* A date is sent as the day it is, a time as its second.
LEMMA DateFits ==
    ASSUME NEW epoch \in Int
    PROVE  /\ IsDate(FmtDate(epoch))
           /\ DateToBinary(FmtDate(epoch)) = epoch \div 86400 - 10957
<1>1. PICK days \in Int : days = epoch \div 86400
    BY SMT
<1>2. IsDate(CivilFromDays(days))
    BY DatesAreDates
<1>3. LET date == CivilFromDays(days)
      IN  DaysFromCivil(date[1], date[2], date[3]) = days
    BY DatesRoundTrip
<1> QED
    BY <1>1, <1>2, <1>3 DEF FmtDate, DateToBinary

LEMMA TimeFits ==
    ASSUME NEW epoch \in Int
    PROVE  TimeToBinary(FmtTime(epoch)) = epoch % 86400
BY SMTT(30) DEF TimeToBinary, FmtTime

\* The wire type of each semantic type.
LEMMA WireTypeOf ==
    ASSUME NEW st \in SemanticTypes
    PROVE  /\ st \in IntegerTypes => WireType(st) = "int8"
           /\ st = "IntSmall" => WireType(st) = "int4"
           /\ st \in RealTypes \cup DecimalTypes => WireType(st) \in {"float8", "numeric"}
           /\ st \in TextTypes => WireType(st) = "text"
           /\ st = "Bool" => WireType(st) = "bool"
           /\ st = "Timestamp" => WireType(st) = "timestamp"
           /\ st = "Date" => WireType(st) = "date"
           /\ st = "Time" => WireType(st) = "time"
           /\ st = "IdUuid" => WireType(st) = "uuid"
           /\ st = "Json" => WireType(st) = "json"
<1>1. st \in IntegerTypes => WireType(st) = "int8"
    BY DEF SemanticTypes, WireType, IntegerTypes, RealTypes, DecimalTypes,
                TextTypes
<1>2. st = "IntSmall" => WireType(st) = "int4"
    BY DEF SemanticTypes, WireType, IntegerTypes, RealTypes, DecimalTypes,
                TextTypes
<1>3. st \in RealTypes \cup DecimalTypes => WireType(st) \in {"float8", "numeric"}
    BY DEF SemanticTypes, WireType, IntegerTypes, RealTypes, DecimalTypes,
                TextTypes
<1>4. st \in TextTypes => WireType(st) = "text"
    BY DEF SemanticTypes, WireType, IntegerTypes, RealTypes, DecimalTypes,
                TextTypes
<1>5. st = "Bool" => WireType(st) = "bool"
    BY DEF SemanticTypes, WireType, IntegerTypes, RealTypes, DecimalTypes,
                TextTypes
<1>6. st = "Timestamp" => WireType(st) = "timestamp"
    BY DEF SemanticTypes, WireType, IntegerTypes, RealTypes, DecimalTypes,
                TextTypes
<1>7. st = "Date" => WireType(st) = "date"
    BY DEF SemanticTypes, WireType, IntegerTypes, RealTypes, DecimalTypes,
                TextTypes
<1>8. st = "Time" => WireType(st) = "time"
    BY DEF SemanticTypes, WireType, IntegerTypes, RealTypes, DecimalTypes,
                TextTypes
<1>9. st = "IdUuid" => WireType(st) = "uuid"
    BY DEF SemanticTypes, WireType, IntegerTypes, RealTypes, DecimalTypes,
                TextTypes
<1>10. st = "Json" => WireType(st) = "json"
    BY DEF SemanticTypes, WireType, IntegerTypes, RealTypes, DecimalTypes,
                TextTypes
<1> QED
    BY <1>1, <1>2, <1>3, <1>4, <1>5, <1>6, <1>7, <1>8, <1>9, <1>10

\* The widths of integers, and what is generated for each type.
LEMMA BitsOf ==
    /\ DOMAIN Bits = IntegerTypes \cup {"IntSmall"}
    /\ \A st \in DOMAIN Bits : Bits[st] \in 0 .. 63
    /\ Bits["IntSmall"] <= 31
BY DEF Bits, IntegerTypes

LEMMA GenerateOf ==
    ASSUME NEW st \in SemanticTypes, NEW epoch
    PROVE  /\ st \in DOMAIN Bits => Generate(st, epoch) = {Number(Bits[st])}
           /\ st \in RealTypes \cup DecimalTypes => Generate(st, epoch) = {Plain("decimal")}
           /\ st \in TextTypes => Generate(st, epoch) = {Plain("words")}
BY BitsOf DEF SemanticTypes, Generate, IntegerTypes, RealTypes, DecimalTypes, TextTypes

LEMMA GenerateOther ==
    ASSUME NEW st \in SemanticTypes, NEW epoch
    PROVE  /\ st = "Bool" => Generate(st, epoch) = {Plain("t"), Plain("f")}
           /\ st = "IdUuid" => Generate(st, epoch) = {Plain("uuid")}
           /\ st = "Json" => Generate(st, epoch) = {Plain("json")}
           /\ st = "Date" => Generate(st, epoch) = {Day(FmtDate(epoch))}
           /\ st = "Time" => Generate(st, epoch) = {Clock(FmtTime(epoch))}
           /\ st = "Timestamp" =>
                 Generate(st, epoch) = {Instant(FmtDate(epoch), FmtTime(epoch))}
BY BitsOf DEF SemanticTypes, Generate, IntegerTypes, RealTypes, DecimalTypes, TextTypes

\* A text of a form is a value of the type that has the form.
LEMMA TextFits ==
    ASSUME NEW wt, NEW v,
           \/ wt = "int8" /\ v.form = "int" /\ v.bits <= 63
           \/ wt = "int4" /\ v.form = "int" /\ v.bits <= 31 /\ v.bits <= 63
           \/ wt \in {"float8", "numeric"} /\ v.form = "decimal"
           \/ wt = "text" /\ v.form = "words"
           \/ wt = "bool" /\ v.form \in {"t", "f"}
           \/ wt \in {"uuid", "json"} /\ v.form = wt
    PROVE  Spelled(wt, v) /\ TextToBinary(Binarize(wt), v) = Value(v)
BY DEF Spelled, TextToBinary, Binarize

LEMMA DateTextFits ==
    ASSUME NEW v, v.form = "date"
    PROVE  /\ Spelled("date", v)
           /\ TextToBinary(Binarize("date"), v) = Value(DateToBinary(v.date))
<1>1. Spelled("date", v)
    BY DEF Spelled
<1>2. TextToBinary(Binarize("date"), v) = Value(DateToBinary(v.date))
    BY DEF TextToBinary, Binarize
<1> QED
    BY <1>1, <1>2

LEMMA TimeTextFits ==
    ASSUME NEW v, v.form = "time"
    PROVE  /\ Spelled("time", v)
           /\ TextToBinary(Binarize("time"), v) = Value(TimeToBinary(v.time))
<1>1. Spelled("time", v)
    BY DEF Spelled
<1>2. TextToBinary(Binarize("time"), v) = Value(TimeToBinary(v.time))
    BY DEF TextToBinary, Binarize
<1> QED
    BY <1>1, <1>2

LEMMA TimestampTextFits ==
    ASSUME NEW v, v.form = "timestamp"
    PROVE  /\ Spelled("timestamp", v)
           /\ TextToBinary(Binarize("timestamp"), v)
                 = Value(TimestampToBinary(<<v.date, v.time>>))
<1>1. Spelled("timestamp", v)
    BY DEF Spelled
<1>2. TextToBinary(Binarize("timestamp"), v)
         = Value(TimestampToBinary(<<v.date, v.time>>))
    BY DEF TextToBinary, Binarize
<1> QED
    BY <1>1, <1>2

LEMMA MeantOf ==
    ASSUME NEW st, NEW v, NEW epoch
    PROVE  /\ st = "Date" => Meant(st, v, epoch) = epoch \div 86400 - 10957
           /\ st = "Time" => Meant(st, v, epoch) = epoch % 86400
           /\ st = "Timestamp" => Meant(st, v, epoch) = epoch - 946684800
           /\ st \notin {"Date", "Time", "Timestamp"} => Meant(st, v, epoch) = v
BY DEF Meant

LEMMA ValuesFit ==
    ASSUME NEW st \in SemanticTypes, NEW epoch \in Int, NEW v \in Generate(st, epoch)
    PROVE  ValueFits(st, epoch, v)
<1>1. CASE st \in DOMAIN Bits
    <2>1. v = Number(Bits[st]) /\ Bits[st] \in 0 .. 63 /\ (st = "IntSmall" => Bits[st] <= 31)
        BY <1>1, GenerateOf, BitsOf
    <2>2. WireType(st) = "int8" \/ (st = "IntSmall" /\ WireType(st) = "int4")
        BY <1>1, WireTypeOf, BitsOf
    <2>3. st \notin {"Date", "Time", "Timestamp"}
        BY <1>1, BitsOf DEF IntegerTypes
    <2>4. v.form = "int" /\ v.bits <= 63 /\ (WireType(st) = "int4" => v.bits <= 31)
        BY <2>1, <2>2 DEF Number
    <2> QED
        BY <2>2, <2>3, <2>4, TextFits, MeantOf DEF ValueFits
<1>2. CASE st \in RealTypes \cup DecimalTypes
    <2>1. v = Plain("decimal") /\ WireType(st) \in {"float8", "numeric"}
        BY <1>2, GenerateOf, WireTypeOf
    <2>2. st \notin {"Date", "Time", "Timestamp"}
        BY <1>2 DEF RealTypes, DecimalTypes
    <2>3. v.form = "decimal"
        BY <2>1 DEF Plain
    <2> QED
        BY <2>1, <2>2, <2>3, TextFits, MeantOf DEF ValueFits
<1>3. CASE st \in TextTypes
    <2>1. v = Plain("words") /\ WireType(st) = "text"
        BY <1>3, GenerateOf, WireTypeOf
    <2>2. st \notin {"Date", "Time", "Timestamp"}
        BY <1>3 DEF TextTypes
    <2>3. v.form = "words"
        BY <2>1 DEF Plain
    <2> QED
        BY <2>1, <2>2, <2>3, TextFits, MeantOf DEF ValueFits
<1>4. CASE st \in {"IdUuid", "Bool", "Json"}
    <2>1. \/ st = "IdUuid" /\ v = Plain("uuid") /\ WireType(st) = "uuid"
          \/ st = "Bool" /\ v \in {Plain("t"), Plain("f")} /\ WireType(st) = "bool"
          \/ st = "Json" /\ v = Plain("json") /\ WireType(st) = "json"
        BY <1>4, GenerateOther, WireTypeOf
    <2>2. \/ WireType(st) = "bool" /\ v.form \in {"t", "f"}
          \/ WireType(st) \in {"uuid", "json"} /\ v.form = WireType(st)
        BY <2>1 DEF Plain
    <2> QED
        BY <1>4, <2>1, <2>2, TextFits, MeantOf DEF ValueFits
<1>5. CASE st = "Date"
    <2>1. v = Day(FmtDate(epoch)) /\ WireType(st) = "date"
        BY <1>5, GenerateOther, WireTypeOf
    <2>2. v.form = "date" /\ v.date = FmtDate(epoch)
        BY <2>1 DEF Day
    <2>3. /\ Spelled(WireType(st), v)
          /\ TextToBinary(Binarize(WireType(st)), v)
                = Value(DateToBinary(FmtDate(epoch)))
        BY <2>1, <2>2, DateTextFits
    <2>4. DateToBinary(FmtDate(epoch)) = epoch \div 86400 - 10957
        BY DateFits
    <2>5. Meant(st, v, epoch) = epoch \div 86400 - 10957
        BY <1>5, MeantOf
    <2>6. st \in {"Date", "Timestamp"} => IsDate(v.date)
        BY <1>5, <2>2, DateFits
    <2> QED
        BY <2>1, <2>3, <2>4, <2>5, <2>6 DEF ValueFits
<1>6. CASE st = "Time"
    <2>1. v = Clock(FmtTime(epoch)) /\ WireType(st) = "time"
        BY <1>6, GenerateOther, WireTypeOf
    <2>2. v.form = "time" /\ v.time = FmtTime(epoch)
        BY <2>1 DEF Clock
    <2>3. /\ Spelled(WireType(st), v)
          /\ TextToBinary(Binarize(WireType(st)), v)
                = Value(TimeToBinary(FmtTime(epoch)))
        BY <2>1, <2>2, TimeTextFits
    <2>4. TimeToBinary(FmtTime(epoch)) = epoch % 86400
        BY TimeFits
    <2>5. Meant(st, v, epoch) = epoch % 86400
        BY <1>6, MeantOf
    <2>6. st \in {"Date", "Timestamp"} => IsDate(v.date)
        BY <1>6, <2>2, DateFits
    <2> QED
        BY <2>1, <2>3, <2>4, <2>5, <2>6 DEF ValueFits
<1>7. CASE st = "Timestamp"
    <2>1. v = Instant(FmtDate(epoch), FmtTime(epoch)) /\ WireType(st) = "timestamp"
        BY <1>7, GenerateOther, WireTypeOf
    <2>2. v.form = "timestamp" /\ v.date = FmtDate(epoch) /\ v.time = FmtTime(epoch)
        BY <2>1 DEF Instant
    <2>3. /\ Spelled(WireType(st), v)
          /\ TextToBinary(Binarize(WireType(st)), v)
                = Value(TimestampToBinary(<<FmtDate(epoch), FmtTime(epoch)>>))
        BY <2>1, <2>2, TimestampTextFits
    <2>4. TimestampToBinary(<<FmtDate(epoch), FmtTime(epoch)>>) = epoch - 946684800
        BY TimestampsRoundTrip DEF FmtTimestamp
    <2>5. Meant(st, v, epoch) = epoch - 946684800
        BY <1>7, MeantOf
    <2>6. st \in {"Date", "Timestamp"} => IsDate(v.date)
        BY <1>7, <2>2, DateFits
    <2> QED
        BY <2>1, <2>3, <2>4, <2>5, <2>6 DEF ValueFits
<1> QED
    BY <1>1, <1>2, <1>3, <1>4, <1>5, <1>6, <1>7, BitsOf DEF SemanticTypes
----------------------------------------------------------------------------
(* A name in any style.                                                    *)

\* In every style a word begins at a boundary.
LEMMA WordsBegin ==
    ASSUME NEW words \in Seq(STRING), NEW style \in Styles, NEW n \in 2 .. Len(words)
    PROVE  Boundary(Written(words, style)[n - 1], Written(words, style)[n])
<1> DEFINE before == Written(words, style)[n - 1]
           chunk == Written(words, style)[n]
           inner == IF n - 1 = 1 THEN "none" ELSE "first"
<1>1. n \in DOMAIN words /\ n - 1 \in DOMAIN words /\ n > 1 /\ n # 1 /\ n - 1 # Len(words)
    OBVIOUS
<1>2. style \in {"snake", "upper"} => chunk.sep = "_"
    BY <1>1 DEF Written
<1>3. style = "camel" => chunk.caps = "first" /\ before.caps \in {"none", "first"}
    BY <1>1 DEF Written
<1>4. style = "pascal" => chunk.caps = "first" /\ before.caps = "first"
    BY <1>1 DEF Written
<1>5. style = "acronym" => chunk.caps \in {"all", "first"} /\ before.caps \in {"none", "first"}
    BY <1>1 DEF Written
<1> HIDE DEF chunk, before
<1>6. chunk.sep = "_" \/ (chunk.caps # "none" /\ before.caps # "all")
    BY <1>2, <1>3, <1>4, <1>5 DEF Styles
<1> QED
    BY <1>6 DEF Boundary, chunk, before

\* normalize finds the words of a name in any style.
LEMMA NameIsRead ==
    ASSUME NEW words \in Seq(STRING), words # <<>>, NEW style \in Styles
    PROVE  Normalize(Written(words, style)) = words
<1> DEFINE N == Len(words)
           chunks == Written(words, style)
<1>1. /\ N \in Nat /\ N > 0 /\ DOMAIN words = 1 .. N
      /\ Len(chunks) = N
      /\ \A n \in 1 .. N : chunks[n].word = words[n]
    <2>1. N \in Nat /\ N > 0 /\ DOMAIN words = 1 .. N
        OBVIOUS
    <2>2. DOMAIN chunks = 1 .. N /\ chunks = [n \in 1 .. N |-> chunks[n]]
        BY <2>1 DEF Written
    <2>3. \A n \in 1 .. N : chunks[n].word = words[n]
        BY <2>1 DEF Written
    <2> HIDE DEF chunks
    <2>4. chunks \in Seq({chunks[n] : n \in 1 .. N})
        BY <2>1, <2>2
    <2>5. Len(chunks) = N
        BY <2>1, <2>2, <2>4, LenProperties
    <2> QED
        BY <2>1, <2>3, <2>5
<1>2. \A n \in 2 .. N : Boundary(chunks[n - 1], chunks[n])
    BY WordsBegin
<1> HIDE DEF chunks
<1> DEFINE Turn(f, n) ==
               IF Boundary(chunks[n - 1], chunks[n]) THEN Append(f[n - 1], chunks[n].word)
               ELSE Append(Front(f[n - 1]), Last(f[n - 1]) \o chunks[n].word)
           body(f) == [n \in 1 .. N |-> IF n = 1 THEN <<chunks[1].word>> ELSE Turn(f, n)]
           upTo == CHOOSE f : f = body(f)
           P == {n \in Nat : n + 1 <= N => upTo[n + 1] = SubSeq(words, 1, n + 1)}
<1>3. Normalize(chunks) = upTo[N]
    BY <1>1, Zenon DEF Normalize
<1>4. \A n \in 2 .. N : Append(SubSeq(words, 1, n - 1), words[n]) = SubSeq(words, 1, n)
    OBVIOUS
<1>5. <<words[1]>> = SubSeq(words, 1, 1)
    BY <1>1
<1>6. upTo = body(upTo)
    <2> DEFINE g == [n \in 1 .. N |-> SubSeq(words, 1, n)]
    <2>1. ASSUME NEW n \in 1 .. N
          PROVE  g[n] = IF n = 1 THEN <<chunks[1].word>> ELSE Turn(g, n)
        <3>1. CASE n = 1
            BY <1>1, <1>5, <3>1
        <3>2. CASE n # 1
            <4>1. n \in 2 .. N /\ n - 1 \in 1 .. N
                BY <1>1, <3>2
            <4>2. g[n] = SubSeq(words, 1, n) /\ g[n - 1] = SubSeq(words, 1, n - 1)
                BY <4>1
            <4> HIDE DEF g
            <4>3. Turn(g, n) = Append(g[n - 1], words[n])
                BY <1>1, <1>2, <4>1
            <4> QED
                BY <1>4, <3>2, <4>1, <4>2, <4>3
        <3> QED
            BY <3>1, <3>2
    <2>2. g = [n \in 1 .. N |-> g[n]]
        OBVIOUS
    <2> HIDE DEF g, Turn
    <2>3. g = body(g)
        BY <2>1, <2>2
    <2> HIDE DEF body
    <2> QED
        BY <2>3
<1>7. \A n \in 1 .. N : upTo[n] = IF n = 1 THEN <<chunks[1].word>> ELSE Turn(upTo, n)
    <2> HIDE DEF upTo, Turn
    <2> QED
        BY <1>6
<1> HIDE DEF upTo
<1>8. 0 \in P
    BY <1>1, <1>5, <1>7
<1>9. ASSUME NEW n \in Nat, n \in P
      PROVE  n + 1 \in P
    <2> SUFFICES ASSUME n + 2 <= N
                 PROVE  upTo[n + 2] = SubSeq(words, 1, n + 2)
        OBVIOUS
    <2>1. n + 2 \in 2 .. N /\ n + 2 \in 1 .. N /\ n + 2 # 1 /\ (n + 2) - 1 = n + 1
        BY <1>1
    <2>2. upTo[n + 1] = SubSeq(words, 1, n + 1)
        BY <1>9, <2>1
    <2>3. upTo[n + 2] = Append(upTo[n + 1], words[n + 2])
        BY <1>1, <1>2, <1>7, <2>1
    <2> QED
        BY <1>4, <2>1, <2>2, <2>3
<1> HIDE DEF P
<1>10. \A n \in Nat : n \in P
    BY <1>8, <1>9, Induct
<1>11. upTo[N] = SubSeq(words, 1, N)
    <2>1. N - 1 \in Nat /\ (N - 1) + 1 = N
        BY <1>1
    <2>2. N - 1 \in P
        BY <1>10, <2>1
    <2>3. upTo[(N - 1) + 1] = SubSeq(words, 1, (N - 1) + 1)
        BY <2>1, <2>2 DEF P
    <2> QED
        BY <2>1, <2>3
<1>12. SubSeq(words, 1, N) = words
    BY <1>1
<1> QED
    BY <1>3, <1>11, <1>12 DEF chunks
----------------------------------------------------------------------------
(* A file of rules and one more.                                           *)

\* The first rule of a kind that matches the words, and whether there is one.
FirstOf(file, words, kind) ==
    SelectInSeq(file, LAMBDA r : r.kind = kind /\ Hits(r, words))

Matches(file, words, kind) ==
    \E i \in 1 .. Len(file) : file[i].kind = kind /\ Hits(file[i], words)

LEMMA FirstIs ==
    ASSUME NEW file, NEW words, NEW kind
    PROVE  /\ FirstOf(file, words, kind) # 0 <=> Matches(file, words, kind)
           /\ Matches(file, words, kind) =>
                 LET i == FirstOf(file, words, kind)
                 IN  /\ i \in 1 .. Len(file) /\ file[i].kind = kind /\ Hits(file[i], words)
                     /\ \A j \in 1 .. Len(file) :
                           file[j].kind = kind /\ Hits(file[j], words) => i <= j
<1> DEFINE hits == {i \in 1 .. Len(file) : file[i].kind = kind /\ Hits(file[i], words)}
<1>1. FirstOf(file, words, kind) = IF hits # {} THEN Min(hits) ELSE 0
    BY DEF FirstOf, SelectInSeq
<1>2. Matches(file, words, kind) <=> hits # {}
    BY DEF Matches
<1>3. hits \subseteq Nat /\ 0 \notin hits
    OBVIOUS
<1>4. hits # {} => Min(hits) \in hits /\ \A j \in hits : Min(hits) <= j
    BY <1>3, LeastOf
<1> QED
    BY <1>1, <1>2, <1>3, <1>4

\* A rule that is added comes after the others of its kind.
LEMMA FirstAdded ==
    ASSUME NEW R, NEW file \in Seq(R), NEW rule \in R, NEW words, NEW kind
    PROVE  FirstOf(Append(file, rule), words, kind) =
               IF Matches(file, words, kind) THEN FirstOf(file, words, kind)
               ELSE IF rule.kind = kind /\ Hits(rule, words) THEN Len(file) + 1 ELSE 0
<1> DEFINE more == Append(file, rule)
           n == Len(file)
           i == FirstOf(file, words, kind)
           k == FirstOf(more, words, kind)
<1>1. /\ n \in Nat /\ Len(more) = n + 1 /\ more[n + 1] = rule
      /\ \A j \in 1 .. n : more[j] = file[j]
    OBVIOUS
<1>2. /\ k # 0 <=> Matches(more, words, kind)
      /\ Matches(more, words, kind) =>
            /\ k \in 1 .. Len(more) /\ more[k].kind = kind /\ Hits(more[k], words)
            /\ \A j \in 1 .. Len(more) :
                  more[j].kind = kind /\ Hits(more[j], words) => k <= j
    BY FirstIs
<1>3. /\ i # 0 <=> Matches(file, words, kind)
      /\ Matches(file, words, kind) =>
            /\ i \in 1 .. n /\ file[i].kind = kind /\ Hits(file[i], words)
            /\ \A j \in 1 .. n : file[j].kind = kind /\ Hits(file[j], words) => i <= j
    BY FirstIs
<1> HIDE DEF more, i, k
<1>4. CASE Matches(file, words, kind)
    <2>1. i \in 1 .. n + 1 /\ more[i] = file[i]
        BY <1>1, <1>3, <1>4
    <2>2. Matches(more, words, kind)
        BY <1>1, <1>3, <1>4, <2>1 DEF Matches
    <2>3. k <= i
        BY <1>1, <1>2, <1>3, <1>4, <2>1, <2>2
    <2>4. k \in 1 .. n
        BY <1>1, <1>2, <1>3, <1>4, <2>2, <2>3
    <2>5. i <= k
        BY <1>1, <1>2, <1>3, <1>4, <2>2, <2>4
    <2> QED
        BY <1>1, <1>3, <1>4, <2>3, <2>4, <2>5 DEF i, k, more
<1>5. CASE ~Matches(file, words, kind)
    <2>1. \A j \in 1 .. n : ~(more[j].kind = kind /\ Hits(more[j], words))
        BY <1>1, <1>5 DEF Matches
    <2>2. CASE rule.kind = kind /\ Hits(rule, words)
        <3>1. Matches(more, words, kind)
            BY <1>1, <2>2 DEF Matches
        <3>2. k \in 1 .. n + 1 /\ more[k].kind = kind /\ Hits(more[k], words)
            BY <1>1, <1>2, <3>1
        <3>3. k = n + 1
            BY <1>1, <2>1, <3>2
        <3> QED
            BY <1>5, <2>2, <3>3 DEF k, more
    <2>3. CASE ~(rule.kind = kind /\ Hits(rule, words))
        <3>1. \A j \in 1 .. n + 1 : ~(more[j].kind = kind /\ Hits(more[j], words))
            BY <1>1, <2>1, <2>3
        <3>2. k = 0
            BY <1>1, <1>2, <3>1 DEF Matches
        <3> QED
            BY <1>5, <2>3, <3>2 DEF k, more
    <2> QED
        BY <2>2, <2>3
<1> QED
    BY <1>4, <1>5

\* The strongest kind decides.
LEMMA DecidingIs ==
    ASSUME NEW file, NEW words
    PROVE  Deciding(file, words) =
               IF Matches(file, words, "exact") THEN FirstOf(file, words, "exact")
               ELSE IF Matches(file, words, "suffix") THEN FirstOf(file, words, "suffix")
               ELSE IF Matches(file, words, "prefix") THEN FirstOf(file, words, "prefix")
               ELSE IF Matches(file, words, "token") THEN FirstOf(file, words, "token")
               ELSE 0
<1> DEFINE First(kind) == FirstOf(file, words, kind)
           found == {k \in 1 .. 4 : First(Kinds[k]) # 0}
           least == IF found # {} THEN Min(found) ELSE 0
<1>1. Deciding(file, words) = IF least = 0 THEN 0 ELSE First(Kinds[least])
    <2>1. Len(Kinds) = 4
        BY DEF Kinds
    <2> QED
        BY <2>1 DEF Deciding, SelectInSeq, FirstOf
<1>2. \A kind : First(kind) # 0 <=> Matches(file, words, kind)
    BY FirstIs
<1>3. /\ Kinds[1] = "exact" /\ Kinds[2] = "suffix" /\ Kinds[3] = "prefix"
      /\ Kinds[4] = "token"
    BY DEF Kinds
<1> HIDE DEF First
<1>4. found \subseteq Nat /\ 0 \notin found
    OBVIOUS
<1>5. found # {} => least \in found /\ \A j \in found : least <= j
    BY <1>4, LeastOf
<1>6. found = {} => least = 0
    OBVIOUS
<1> HIDE DEF least
<1>7. CASE Matches(file, words, "exact")
    <2>1. 1 \in found
        BY <1>2, <1>3, <1>7
    <2>2. least = 1
        BY <1>5, <2>1
    <2> QED
        BY <1>1, <1>3, <1>7, <2>2 DEF First
<1>8. CASE ~Matches(file, words, "exact") /\ Matches(file, words, "suffix")
    <2>1. 2 \in found /\ 1 \notin found
        BY <1>2, <1>3, <1>8
    <2>2. least = 2
        BY <1>5, <2>1
    <2> QED
        BY <1>1, <1>3, <1>8, <2>2 DEF First
<1>9. CASE /\ ~Matches(file, words, "exact") /\ ~Matches(file, words, "suffix")
           /\ Matches(file, words, "prefix")
    <2>1. 3 \in found /\ 1 \notin found /\ 2 \notin found
        BY <1>2, <1>3, <1>9
    <2>2. least = 3
        BY <1>5, <2>1
    <2> QED
        BY <1>1, <1>3, <1>9, <2>2 DEF First
<1>10. CASE /\ ~Matches(file, words, "exact") /\ ~Matches(file, words, "suffix")
            /\ ~Matches(file, words, "prefix")
    <2>1. 1 \notin found /\ 2 \notin found /\ 3 \notin found
        BY <1>2, <1>3, <1>10
    <2>2. CASE Matches(file, words, "token")
        <3>1. 4 \in found
            BY <1>2, <1>3, <2>2
        <3>2. least = 4
            BY <1>5, <2>1, <3>1
        <3> QED
            BY <1>1, <1>3, <1>10, <2>2, <3>2 DEF First
    <2>3. CASE ~Matches(file, words, "token")
        <3>1. 4 \notin found
            BY <1>2, <1>3, <2>3
        <3>2. least = 0
            BY <1>6, <2>1, <3>1
        <3> QED
            BY <1>1, <1>10, <2>3, <3>2
    <2> QED
        BY <2>2, <2>3
<1> QED
    BY <1>7, <1>8, <1>9, <1>10

\* Whether an earlier rule, of the same kind or a stronger one, takes a name.
TakenBefore(file, rule, words) ==
    \E i \in 1 .. Len(file) :
        Hits(file[i], words) /\ Strength[file[i].kind] <= Strength[rule.kind]

RuleKinds == {"exact", "suffix", "prefix", "token"}

\* The kinds of rules that take a name before a rule of this kind.
LEMMA TakenIs ==
    ASSUME NEW file, \A i \in 1 .. Len(file) : file[i].kind \in RuleKinds, NEW words,
           NEW rule, rule.kind \in RuleKinds
    PROVE  TakenBefore(file, rule, words) <=>
               \/ Matches(file, words, "exact")
               \/ Matches(file, words, "suffix") /\ rule.kind # "exact"
               \/ Matches(file, words, "prefix") /\ rule.kind \in {"prefix", "token"}
               \/ Matches(file, words, "token") /\ rule.kind = "token"
<1>1. /\ Strength["exact"] = 1 /\ Strength["suffix"] = 2 /\ Strength["prefix"] = 3
      /\ Strength["token"] = 4
    BY DEF Strength
<1> DEFINE Before(kind) ==
               \/ kind = "exact"
               \/ kind = "suffix" /\ rule.kind # "exact"
               \/ kind = "prefix" /\ rule.kind \in {"prefix", "token"}
               \/ kind = "token" /\ rule.kind = "token"
<1>2. ASSUME NEW kind \in RuleKinds
      PROVE  (Strength[kind] <= Strength[rule.kind]) <=> Before(kind)
    <2>1. \/ rule.kind = "exact" \/ rule.kind = "suffix"
          \/ rule.kind = "prefix" \/ rule.kind = "token"
        BY DEF RuleKinds
    <2>2. CASE kind = "exact"
        BY <1>1, <2>1, <2>2
    <2>3. CASE kind = "suffix"
        BY <1>1, <2>1, <2>3
    <2>4. CASE kind = "prefix"
        BY <1>1, <2>1, <2>4
    <2>5. CASE kind = "token"
        BY <1>1, <2>1, <2>5
    <2> QED
        BY <2>2, <2>3, <2>4, <2>5 DEF RuleKinds
<1> HIDE DEF Before
<1>3. TakenBefore(file, rule, words) <=>
          \E i \in 1 .. Len(file) : Hits(file[i], words) /\ Before(file[i].kind)
    BY <1>2 DEF TakenBefore
<1>4. (\E i \in 1 .. Len(file) : Hits(file[i], words) /\ Before(file[i].kind)) <=>
          \E kind \in RuleKinds : Before(kind) /\ Matches(file, words, kind)
    BY Zenon DEF Matches
<1> QED
    BY <1>3, <1>4 DEF RuleKinds, Before

\* A rule that is added decides the names that it matches and no earlier rule takes.
LEMMA RuleAdded ==
    ASSUME NEW R, NEW file \in Seq(R), NEW rule \in R, NEW words,
           \A i \in 1 .. Len(file) : file[i].kind \in RuleKinds, rule.kind \in RuleKinds
    PROVE  InferWith(Append(file, rule), words) =
               IF Hits(rule, words) /\ ~TakenBefore(file, rule, words)
               THEN rule.st ELSE InferWith(file, words)
<1> DEFINE more == Append(file, rule)
           n == Len(file)
           M(kind) == Matches(file, words, kind)
           New(kind) == rule.kind = kind /\ Hits(rule, words)
           Old(kind) == FirstOf(file, words, kind)
<1>1. n \in Nat /\ more[n + 1] = rule /\ \A i \in 1 .. n : more[i] = file[i]
    OBVIOUS
<1>2. \A kind : FirstOf(more, words, kind) =
                    IF M(kind) THEN Old(kind) ELSE IF New(kind) THEN n + 1 ELSE 0
    BY FirstAdded, Zenon
<1>3. \A kind : Matches(more, words, kind) <=> M(kind) \/ New(kind)
    <2>1. \A kind : FirstOf(more, words, kind) # 0 <=> Matches(more, words, kind)
        BY FirstIs
    <2>2. \A kind : M(kind) <=> Old(kind) # 0
        BY FirstIs
    <2> HIDE DEF more, M, New, Old
    <2> QED
        BY <1>1, <1>2, <2>1, <2>2
<1>4. \A kind : M(kind) => Old(kind) \in 1 .. n
    BY FirstIs
<1>5. TakenBefore(file, rule, words) <=>
          \/ M("exact")
          \/ M("suffix") /\ rule.kind # "exact"
          \/ M("prefix") /\ rule.kind \in {"prefix", "token"}
          \/ M("token") /\ rule.kind = "token"
    BY TakenIs
<1> DEFINE before == Deciding(file, words)
           after == Deciding(more, words)
<1>6. before = IF M("exact") THEN Old("exact")
               ELSE IF M("suffix") THEN Old("suffix")
               ELSE IF M("prefix") THEN Old("prefix")
               ELSE IF M("token") THEN Old("token") ELSE 0
    BY DecidingIs
<1>7. after = IF Matches(more, words, "exact") THEN FirstOf(more, words, "exact")
              ELSE IF Matches(more, words, "suffix") THEN FirstOf(more, words, "suffix")
              ELSE IF Matches(more, words, "prefix") THEN FirstOf(more, words, "prefix")
              ELSE IF Matches(more, words, "token") THEN FirstOf(more, words, "token") ELSE 0
    BY DecidingIs
<1>8. /\ InferWith(more, words) = IF after # 0 THEN more[after].st ELSE Infer(words)
      /\ InferWith(file, words) = IF before # 0 THEN file[before].st ELSE Infer(words)
    BY DEF InferWith
<1>9. before # 0 => before \in 1 .. n
    BY <1>4, <1>6
<1> HIDE DEF more, M, Old, before, after
<1>10. CASE Hits(rule, words) /\ ~TakenBefore(file, rule, words)
    <2>1. after = n + 1
        <3>1. rule.kind = "exact" \/ rule.kind = "suffix" \/ rule.kind = "prefix"
                 \/ rule.kind = "token"
            BY DEF RuleKinds
        <3> QED
            BY <1>2, <1>3, <1>5, <1>7, <1>10, <3>1
    <2> QED
        BY <1>1, <1>8, <1>10, <2>1 DEF more
<1>11. CASE ~Hits(rule, words) \/ TakenBefore(file, rule, words)
    <2>1. after = before
        <3>1. CASE ~Hits(rule, words)
            BY <1>2, <1>3, <1>6, <1>7, <3>1
        <3>2. CASE TakenBefore(file, rule, words)
            BY <1>2, <1>3, <1>5, <1>6, <1>7, <3>2
        <3> QED
            BY <1>11, <3>1, <3>2
    <2> QED
        BY <1>1, <1>8, <1>9, <1>11, <2>1 DEF more
<1> QED
    BY <1>10, <1>11 DEF more
----------------------------------------------------------------------------
(* Every cell that is reached.                                             *)

\* What rules a line can become.
FileRules == {RuleOf(line) : line \in Lines}

\* A rule has the kind and type of its line, and is what its words say.
LEMMA RuleIsRead ==
    ASSUME NEW line \in Lines, line.kind \notin {"blank", "bad"}
    PROVE  /\ RuleOf(line) \in FileRules
           /\ RuleOf(line).st \in SemanticTypes /\ RuleOf(line).kind \in RuleKinds
           /\ RuleOf(line).st = line.st /\ RuleOf(line).kind = line.kind
           /\ AsMeant(RuleOf(line)) = RuleOf(line)
<1> DEFINE rule == RuleOf(line)
<1>1. Normalize(line.pat) = line.words
    <2>1. PICK style \in Styles : line.pat = Written(line.words, style)
        BY CellsAssumption
    <2>2. line.words \in Seq(STRING) /\ line.words # <<>>
        BY CellsAssumption
    <2> QED
        BY <2>1, <2>2, NameIsRead
<1>2. /\ rule.st = line.st /\ rule.kind = line.kind
      /\ AsMeant(rule) = rule
    BY <1>1 DEF RuleOf, AsMeant
<1>3. line.st \in SemanticTypes /\ line.kind \in RuleKinds
    BY CellsAssumption DEF RuleKinds
<1>4. rule \in FileRules
    BY DEF FileRules
<1> HIDE DEF rule
<1> QED
    BY <1>2, <1>3, <1>4 DEF rule

CellInv ==
    /\ rules \in Seq(FileRules)
    /\ \A i \in 1 .. Len(rules) :
          /\ rules[i].st \in SemanticTypes /\ rules[i].kind \in RuleKinds
          /\ AsMeant(rules[i]) = rules[i]
    /\ column.kind = "named" =>
          /\ stage = "serving"
          /\ column.cast = "none" => column.st = InferWith(rules, column.words)
    /\ Generated => /\ column.wt = WireType(column.st)
                    /\ ValueFits(column.st, column.epoch, cell.text)
                    /\ cell.binary = TextToBinary(Binarize(column.wt), cell.text)
                    /\ cell.mysql = MysqlText(column.wt, cell.text)

THEOREM CellsInductive == CellsSpec => []CellInv
<1>1. CellsInit => CellInv
    BY DEF CellsInit, CellInv, Generated, NoColumn
<1>2. CellInv /\ [CellsNext]_cellVars => CellInv'
    <2> SUFFICES ASSUME CellInv, [CellsNext]_cellVars
                 PROVE  CellInv'
        OBVIOUS
    <2>1. CASE ReadLine
        <3>1. PICK line \in Lines :
                 rules' = IF line.kind \in {"blank", "bad"} THEN rules
                          ELSE Append(rules, RuleOf(line))
            BY <2>1 DEF ReadLine
        <3> DEFINE Read(rule) ==
                       /\ rule.st \in SemanticTypes /\ rule.kind \in RuleKinds
                       /\ AsMeant(rule) = rule
        <3>2. rules' \in Seq(FileRules) /\ \A i \in 1 .. Len(rules') : Read(rules'[i])
            <4>1. rules \in Seq(FileRules) /\ \A i \in 1 .. Len(rules) : Read(rules[i])
                BY DEF CellInv
            <4>2. CASE line.kind \notin {"blank", "bad"}
                <5>1. RuleOf(line) \in FileRules /\ Read(RuleOf(line))
                    BY <4>2, RuleIsRead
                <5>2. rules' = Append(rules, RuleOf(line))
                    BY <3>1, <4>2
                <5> HIDE DEF Read
                <5> QED
                    BY <4>1, <5>1, <5>2
            <4> QED
                BY <3>1, <4>1, <4>2
        <3>3. column.kind # "named" /\ column' = column
            BY <2>1 DEF ReadLine, CellInv
        <3> QED
            BY <2>1, <3>2, <3>3 DEF ReadLine, CellInv, Generated
    <2>2. CASE Serve
        BY <2>2 DEF Serve, CellInv, Generated
    <2>3. CASE AskColumn
        <3>1. PICK words \in Names, style \in Styles, cast \in Casts, epoch \in Epochs :
                 LET col == Resolved(Written(words, style), cast, rules)
                 IN  /\ column' = [kind |-> "named", words |-> words, cast |-> cast,
                                   st |-> col.st, wt |-> col.wt, epoch |-> epoch]
                     /\ \E value \in GenValue(col.st, col.wt, epoch) :
                           cell' = CellOf(col, value)
            BY <2>3, Zenon DEF AskColumn
        <3> DEFINE col == Resolved(Written(words, style), cast, rules)
        <3>2. col.st \in SemanticTypes /\ col.wt = WireType(col.st)
            BY CellsAssumption, ResolvedTyped DEF CellInv
        <3>3. PICK value \in GenValue(col.st, col.wt, epoch) : cell' = CellOf(col, value)
            BY <3>1
        <3> HIDE DEF col
        <3>4. column'.st = col.st /\ column'.wt = col.wt /\ column'.epoch = epoch
            BY <3>1 DEF col
        <3>5. /\ cell'.text = value.text /\ cell'.ghost = value.ghost
              /\ cell'.binary = TextToBinary(Binarize(col.wt), value.text)
              /\ cell'.mysql = MysqlText(col.wt, value.text)
            BY <3>3 DEF CellOf
        <3>6. ~value.ghost => value.text \in Generate(col.st, epoch)
            BY DEF GenValue
        <3>7. epoch \in Int
            BY CellsAssumption DEF RandomEpoch
        <3>8. ~value.ghost => ValueFits(col.st, epoch, value.text)
            BY <3>2, <3>6, <3>7, ValuesFit
        <3>9. rules' = rules /\ stage' = stage /\ stage = "serving"
            BY <2>3 DEF AskColumn
        <3>10. cast = "none" => col.st = InferWith(rules, words)
            <4>1. Normalize(Written(words, style)) = words
                BY CellsAssumption, NameIsRead
            <4> QED
                BY <4>1 DEF Resolved, col
        <3>11. /\ column'.kind = "named" /\ column'.cast = cast /\ column'.words = words
            BY <3>1
        <3> QED
            BY <3>2, <3>4, <3>5, <3>8, <3>9, <3>10, <3>11 DEF CellInv, Generated
    <2>4. CASE AskLiteral
        BY <2>4 DEF AskLiteral, CellInv, Generated
    <2>5. CASE PutCell
        BY <2>5 DEF PutCell, CellInv, Generated, NoColumn
    <2>6. CASE UNCHANGED cellVars
        BY <2>6 DEF cellVars, CellInv, Generated
    <2> QED
        BY <2>1, <2>2, <2>3, <2>4, <2>5, <2>6 DEF CellsNext
<1> QED
    BY <1>1, <1>2, PTL DEF CellsSpec

\* A name means the same in every convention, under every rules file (normalize).
THEOREM NamesAgree == CellsSpec => []ConventionsAgree
<1>1. CellInv => ConventionsAgree
    <2> SUFFICES ASSUME CellInv
                 PROVE  ConventionsAgree
        OBVIOUS
    <2> DEFINE meant == [i \in DOMAIN rules |-> AsMeant(rules[i])]
    <2>1. rules \in Seq(FileRules) /\ \A i \in DOMAIN rules : AsMeant(rules[i]) = rules[i]
        BY DEF CellInv
    <2>2. meant = rules
        BY <2>1
    <2> QED
        BY <2>2, Zenon DEF CellInv, ConventionsAgree
<1> QED
    BY <1>1, CellsInductive, PTL

\* A rule that is read takes the names it matches and no earlier rule takes, and
\* leaves every other name alone (Rules::infer, infer_with).
THEOREM RulesAreLayered == CellsSpec => RulesLayer
<1> DEFINE Layers ==
               rules' # rules =>
                   \A words \in Names :
                      LET rule == Last(rules')
                          Taken(r) == Takes(r, words) /\ Strength[r.kind] <= Strength[rule.kind]
                      IN  InferWith(rules', words) =
                             IF Takes(rule, words) /\ ~\E i \in DOMAIN rules : Taken(rules[i])
                             THEN rule.st ELSE InferWith(rules, words)
<1>1. CellInv /\ [CellsNext]_cellVars => [Layers]_cellVars
    <2> SUFFICES ASSUME CellInv, [CellsNext]_cellVars, rules' # rules, NEW words \in Names
                 PROVE  LET rule == Last(rules')
                            Taken(r) == Takes(r, words) /\ Strength[r.kind] <= Strength[rule.kind]
                        IN  InferWith(rules', words) =
                               IF Takes(rule, words) /\ ~\E i \in DOMAIN rules : Taken(rules[i])
                               THEN rule.st ELSE InferWith(rules, words)
        OBVIOUS
    <2>1. ReadLine
        BY DEF CellsNext, cellVars, Serve, AskColumn, AskLiteral, PutCell
    <2>2. PICK line \in Lines :
              line.kind \notin {"blank", "bad"} /\ rules' = Append(rules, RuleOf(line))
        BY <2>1 DEF ReadLine
    <2> DEFINE new == RuleOf(line)
    <2>3. /\ rules \in Seq(FileRules) /\ DOMAIN rules = 1 .. Len(rules)
          /\ \A i \in 1 .. Len(rules) :
                 rules[i].kind \in RuleKinds /\ (Takes(rules[i], words) <=> Hits(rules[i], words))
        BY DEF CellInv, Takes
    <2>4. /\ new \in FileRules /\ new.kind \in RuleKinds
          /\ Takes(new, words) <=> Hits(new, words)
        BY <2>2, RuleIsRead DEF Takes
    <2> HIDE DEF new
    <2>5. Last(rules') = new
        <3>1. /\ Len(Append(rules, new)) = Len(rules) + 1
              /\ Append(rules, new)[Len(rules) + 1] = new
            BY <2>3
        <3>2. Last(rules') = rules'[Len(rules')]
            BY DEF Last
        <3> QED
            BY <2>2, <3>1, <3>2 DEF new
    <2>6. InferWith(rules', words) =
              IF Hits(new, words) /\ ~TakenBefore(rules, new, words)
              THEN new.st ELSE InferWith(rules, words)
        BY <2>2, <2>3, <2>4, RuleAdded DEF new
    <2> QED
        BY <2>3, <2>4, <2>5, <2>6 DEF TakenBefore
<1> QED
    BY <1>1, CellsInductive, PTL DEF CellsSpec, RulesLayer

\* A generated value is a value of the announced type, for both frontends.
THEOREM CellsAreTyped == CellsSpec => []TypesAgree
<1>1. CellInv => TypesAgree
    BY DEF CellInv, TypesAgree, ValueFits, MysqlText, Plain
<1> QED
    BY <1>1, CellsInductive, PTL

\* No generated value meets a fallback of the binary encoders.
THEOREM CellsAreExact == CellsSpec => []BinaryIsExact
<1>1. CellInv => BinaryIsExact
    BY DEF CellInv, BinaryIsExact, ValueFits
<1> QED
    BY <1>1, CellsInductive, PTL

\* Generated dates are dates of the calendar.
THEOREM CellsAreDates == CellsSpec => []DatesAreReal
<1>1. CellInv => DatesAreReal
    BY DEF CellInv, DatesAreReal, ValueFits
<1> QED
    BY <1>1, CellsInductive, PTL
=============================================================================
