------------------------------ MODULE DateTime ------------------------------
(***************************************************************************)
(* time/DateTime.cpp: instants in microseconds since the epoch, and the    *)
(* texts by which they go to and come from a database.                     *)
(*                                                                         *)
(* A calendar date is the number of its day and a time of day the number   *)
(* of its second; what is kept is the arithmetic of C (division truncates, *)
(* unsigned values wrap), the parts that a text has, and a time zone with  *)
(* one period of daylight saving.  A text is the sequence of its parts:    *)
(* <<date>>, <<date, time>> or <<date, time, fraction>>, the fraction as   *)
(* the number that "%06d" prints.  Seconds, hours and days are scaled.     *)
(*                                                                         *)
(* External: localtime_r and mktime.  For a local time that occurs twice,  *)
(* or never, mktime may answer with either offset, so that reading a text  *)
(* gives a set of instants.                                                *)
(***************************************************************************)
EXTENDS Integers, Sequences

CONSTANTS
  PerSecond,          \* MICRO_SECONDS_PRE_SEC, a power of ten
  HourLength, DayLength,
  StandardOffset,     \* of the time zone, in seconds
  DstBegin, DstEnd,   \* seconds since the epoch between which it is an hour more
  UnsignedRange,      \* the range of unsigned int
  ZeroDay             \* the day that mktime makes of year 0, month 0, day 0

ASSUME UnitsAssumption ==
  /\ PerSecond \in Nat \ {0} /\ DayLength \in Nat \ {0} /\ HourLength \in Nat
  /\ UnsignedRange \in Nat /\ PerSecond <= UnsignedRange

ASSUME ZoneAssumption ==
  StandardOffset \in Int /\ DstBegin \in Int /\ DstEnd \in Int /\ ZeroDay \in Int

\* The operators / and % of C.
Quotient(a, b) == IF a >= 0 THEN a \div b ELSE -((-a) \div b)
Remainder(a, b) == a - b * Quotient(a, b)

(***************************************************************************)
(* External: the time zone.                                                *)
(***************************************************************************)
Offset(isdst) == StandardOffset + isdst * HourLength

IsDst(s) == IF s \in DstBegin .. DstEnd - 1 THEN 1 ELSE 0

LocalTime(s) ==
  LET local == s + Offset(IsDst(s))
  IN [day |-> local \div DayLength, sec |-> local % DayLength, isdst |-> IsDst(s)]

\* mktime with tm_isdst given, and with tm_isdst = -1.
MkTime(day, sec, isdst) == day * DayLength + sec - Offset(isdst)

MkTimes(day, sec) ==
  LET both == {MkTime(day, sec, 0), MkTime(day, sec, 1)}
      real == {s \in both : LocalTime(s).day = day /\ LocalTime(s).sec = sec}
  IN IF real = {} THEN both ELSE real

(***************************************************************************)
(* The class.                                                              *)
(***************************************************************************)
\* after() computes in double, which is exact for whole microseconds below 2^53
\* (until the year 2255): instants are integers here.
After(m, seconds) == m + seconds * PerSecond

RoundSecond(m) == m - Remainder(m, PerSecond)

\* Midnight is asked for with the tm_isdst of the instant itself.
RoundDay(m) ==
  LET t == LocalTime(Quotient(m, PerSecond))
  IN MkTime(t.day, 0, t.isdst) * PerSecond

\* A mutant of ToDbStringLocal: the microseconds are always left out.
ToDbStringLocalWhole(m) ==
  LET t == LocalTime(Quotient(m, PerSecond))
  IN IF m = RoundDay(m) THEN <<t.day>> ELSE <<t.day, t.sec>>

ToDbStringLocal(m) ==
  LET t  == LocalTime(Quotient(m, PerSecond))
      us == Remainder(m, PerSecond)
  IN CASE us # 0            -> <<t.day, t.sec, us>>
       [] m = RoundDay(m)   -> <<t.day>>
       [] us = 0 /\ m # RoundDay(m) -> <<t.day, t.sec>>

\* The constructor from year, month, day, hour, minute, second, microsecond.
FromFields(day, sec, us) == {s * PerSecond + us : s \in MkTimes(day, sec)}

\* The fraction is cut to six characters, of which a minus sign is one, and
\* stored in an unsigned int.
ReadFraction(us) ==
  (IF us <= -(PerSecond \div 10) THEN Quotient(us, 10) ELSE us) % UnsignedRange

\* Without a blank the text has one part, and every field stays zero.
FromDbStringLocal(text) ==
  CASE Len(text) = 1 -> FromFields(ZeroDay, 0, 0)
    [] Len(text) = 2 -> FromFields(text[1], text[2], 0)
    [] Len(text) = 3 -> FromFields(text[1], text[2], ReadFraction(text[3]))

\* timezoneOffset(): from the local midnight that begins 1970-01-03.
TimezoneOffset ==
  LET m == CHOOSE m \in FromDbStringLocal(<<2, 0>>) : TRUE
  IN -(Quotient(m, PerSecond) - 2 * DayLength)

ToDbString(m) == ToDbStringLocal(After(m, -TimezoneOffset))

FromDbString(text) == {After(m, TimezoneOffset) : m \in FromDbStringLocal(text)}
=============================================================================
