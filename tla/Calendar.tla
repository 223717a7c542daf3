------------------------------ MODULE Calendar ------------------------------
(***************************************************************************)
(* The date arithmetic of src/src/generate.rs and the dates and times of   *)
(* the Postgres binary format in src/src/proto/pg.rs.  A date is its year, *)
(* month and day, a time its hour, minute and second: what the formatted   *)
(* texts say, and what parsing them gives back.                            *)
(***************************************************************************)
EXTENDS Integers

\* The division of i64: towards zero.
TruncDiv(a, b) == IF a >= 0 THEN a \div b ELSE -((-a) \div b)

\* Mutant: a year of an era is computed without its leap days.
MutYearLeapless(doe) == doe \div 365

\* An era has 146097 days and starts on a 1 March; so do its years.
YearOfEra(doe) ==
    (doe - doe \div 1460 + doe \div 36524 - doe \div 146096) \div 365

DayOfYear(doe) ==
    LET yoe == YearOfEra(doe) IN doe - (365 * yoe + yoe \div 4 - yoe \div 100)

\* The date that is so many days after 1970-01-01.
CivilFromDays(days) ==
    LET z == days + 719468
        era == TruncDiv(IF z >= 0 THEN z ELSE z - 146096, 146097)
        doe == z - era * 146097
        mp == (5 * DayOfYear(doe) + 2) \div 153
        m == IF mp < 10 THEN mp + 3 ELSE mp - 9
        y == YearOfEra(doe) + era * 400
    IN  <<IF m <= 2 THEN y + 1 ELSE y, m, DayOfYear(doe) - (153 * mp + 2) \div 5 + 1>>

\* Mutant: January and February belong to the year they are in.
MutDaysFromJanuary(year, m, d) ==
    LET y == year
        era == TruncDiv(IF y >= 0 THEN y ELSE y - 399, 400)
        yoe == y - era * 400
        doy == (153 * (IF m > 2 THEN m - 3 ELSE m + 9) + 2) \div 5 + d - 1
        doe == yoe * 365 + yoe \div 4 - yoe \div 100 + doy
    IN  era * 146097 + doe - 719468

\* The days from 1970-01-01 to a date; the year starts in March.
DaysFromCivil(year, m, d) ==
    LET y == IF m <= 2 THEN year - 1 ELSE year
        era == TruncDiv(IF y >= 0 THEN y ELSE y - 399, 400)
        yoe == y - era * 400
        doy == (153 * (IF m > 2 THEN m - 3 ELSE m + 9) + 2) \div 5 + d - 1
        doe == yoe * 365 + yoe \div 4 - yoe \div 100 + doy
    IN  era * 146097 + doe - 719468
----------------------------------------------------------------------------
(* Texts, from seconds since 1970, and the binary values made of them.     *)

FmtDate(epoch) == CivilFromDays(epoch \div 86400)

FmtTime(epoch) ==
    LET s == epoch % 86400 IN <<s \div 3600, (s % 3600) \div 60, s % 60>>

FmtTimestamp(epoch) == <<FmtDate(epoch), FmtTime(epoch)>>

\* Days since 2000-01-01.
DateToBinary(date) == DaysFromCivil(date[1], date[2], date[3]) - 10957

\* Seconds since midnight; the microseconds of the format are left out.
TimeToBinary(time) == time[1] * 3600 + time[2] * 60 + time[3]

\* Seconds since 2000-01-01.
TimestampToBinary(ts) ==
    DaysFromCivil(ts[1][1], ts[1][2], ts[1][3]) * 86400 + TimeToBinary(ts[2]) - 946684800
----------------------------------------------------------------------------
(* The calendar itself, to compare with.                                   *)

IsLeap(year) == year % 4 = 0 /\ (year % 100 # 0 \/ year % 400 = 0)

MonthLength(year, m) ==
    IF m = 2 THEN (IF IsLeap(year) THEN 29 ELSE 28)
    ELSE IF m \in {4, 6, 9, 11} THEN 30 ELSE 31

IsDate(date) ==
    /\ date \in Int \X Int \X Int
    /\ date[2] \in 1..12
    /\ date[3] \in 1..MonthLength(date[1], date[2])

DayAfter(date) ==
    LET y == date[1]  m == date[2]  d == date[3]
    IN  IF d < MonthLength(y, m) THEN <<y, m, d + 1>>
        ELSE IF m < 12 THEN <<y, m + 1, 1>> ELSE <<y + 1, 1, 1>>
=============================================================================
