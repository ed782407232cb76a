------------------------- MODULE ConversionsProofs -------------------------
(***************************************************************************)
(* Proofs about Conversions and ArrayParser: dates, for every time zone    *)
(* with one period of daylight saving and every instant; the cells of a    *)
(* result, for all widths of the integer types; statements with            *)
(* parameters and connection strings, for every text; and the text of      *)
(* arrays, for every depth and all strings.                                *)
(*                                                                         *)
(* What is defined by recursion over a text is reasoned about through the  *)
(* equation of its function: a predicate states the equation, a lemma that *)
(* a function satisfies it (RecursionExists), and induction is the choice  *)
(* of a least counterexample (Induction, DownInduction).                   *)
(***************************************************************************)
EXTENDS Conversions, ArrayParser, TLAPS, WellFoundedInduction, SequenceTheorems,
        FiniteSetTheorems

(***************************************************************************)
(* Division.                                                               *)
(***************************************************************************)
\* The quotient and the remainder are those of the division.
LEMMA Division ==
  ASSUME NEW a \in Int, NEW n \in Nat \ {0}
  PROVE  a % n \in 0 .. n - 1 /\ a \div n \in Int /\ a = n * (a \div n) + (a % n)
OBVIOUS

\* A greater quotient makes a number greater by n at least.
LEMMA NotLessQuotient ==
  ASSUME NEW n \in Nat \ {0}, NEW p \in Int, NEW q \in Int, p < q
  PROVE  n * p + n <= n * q
<1>1. p + 1 <= q
  OBVIOUS
<1>2. n * (p + 1) <= n * q
  BY <1>1
<1>3. n * (p + 1) = n * p + n
  OBVIOUS
<1> QED BY <1>2, <1>3

\* Two numbers that are less than n apart and have the same remainder are equal.
LEMMA SameRemainder ==
  ASSUME NEW n \in Nat \ {0}, NEW a \in Int, NEW b \in Int,
         a - b < n, b - a < n, a % n = b % n
  PROVE  a = b
<1>1. PICK p \in Int, q \in Int, r \in Int : a = n * p + r /\ b = n * q + r
  <2>1. a % n \in Int /\ a \div n \in Int /\ a = n * (a \div n) + (a % n)
    BY Division
  <2>2. b \div n \in Int /\ b = n * (b \div n) + (a % n)
    BY Division
  <2> QED BY <2>1, <2>2, Zenon
<1>2. CASE p < q
  <2>1. n * p + n <= n * q
    BY <1>2, NotLessQuotient
  <2> QED BY <1>1, <2>1
<1>3. CASE q < p
  <2>1. n * q + n <= n * p
    BY <1>3, NotLessQuotient
  <2> QED BY <1>1, <2>1
<1>4. CASE p = q
  BY <1>1, <1>4
<1> QED BY <1>2, <1>3, <1>4

(***************************************************************************)
(* Dates.                                                                  *)
(***************************************************************************)
\* A local time is read back as the second it was made from, unless it occurs
\* twice.
LEMMA LocalTimeComesBack ==
  ASSUME NEW s \in Int, ~(DstEnd - HourLength <= s /\ s < DstEnd + HourLength)
  PROVE  MkTimes(LocalTime(s).day, LocalTime(s).sec) = {s}
<1> USE UnitsAssumption, ZoneAssumption
<1>1. PICK d, c : d = LocalTime(s).day /\ c = LocalTime(s).sec
  OBVIOUS
<1>2. \A y \in Int : IsDst(y) \in {0, 1} /\ Offset(IsDst(y)) = StandardOffset + (IF IsDst(y) = 1 THEN HourLength ELSE 0)
  BY DEF IsDst, Offset
<1>3. \A y \in Int : /\ LocalTime(y).day \in Int /\ LocalTime(y).sec \in Int
                     /\ DayLength * LocalTime(y).day + LocalTime(y).sec
                          = y + Offset(IsDst(y))
  <2> SUFFICES ASSUME NEW y \in Int
               PROVE  /\ LocalTime(y).day \in Int /\ LocalTime(y).sec \in Int
                      /\ DayLength * LocalTime(y).day + LocalTime(y).sec
                           = y + Offset(IsDst(y))
    OBVIOUS
  <2>1. PICK l \in Int : l = y + Offset(IsDst(y))
    BY <1>2
  <2>2. LocalTime(y).day = l \div DayLength /\ LocalTime(y).sec = l % DayLength
    BY <2>1 DEF LocalTime
  <2>3. l % DayLength \in Int /\ l \div DayLength \in Int
        /\ l = DayLength * (l \div DayLength) + (l % DayLength)
    <3>1. l % DayLength \in 0 .. DayLength - 1 /\ l \div DayLength \in Int
          /\ l = DayLength * (l \div DayLength) + (l % DayLength)
      BY <2>1, UnitsAssumption, Division, Zenon
    <3> QED BY <3>1
  <2> QED BY <2>1, <2>2, <2>3, Zenon
<1>4. d \in Int /\ c \in Int /\ DayLength * d + c = s + Offset(IsDst(s))
  BY <1>1, <1>3
<1>5. PICK x, y : x = MkTime(d, c, 0) /\ y = MkTime(d, c, 1)
  OBVIOUS
<1>6. /\ x \in Int /\ x = s + Offset(IsDst(s)) - StandardOffset
      /\ y \in Int /\ y = s + Offset(IsDst(s)) - StandardOffset - HourLength
  <2>1. Offset(0) = StandardOffset /\ Offset(1) = StandardOffset + HourLength
    BY DEF Offset
  <2>2. d * DayLength = DayLength * d
    BY <1>4
  <2> QED BY <1>2, <1>4, <1>5, <2>1, <2>2 DEF MkTime
<1>7. \A z \in Int : LocalTime(z).day = d /\ LocalTime(z).sec = c
                       => z + Offset(IsDst(z)) = s + Offset(IsDst(s))
  BY <1>3, <1>4
<1>8. PICK real : real = {z \in {x, y} : LocalTime(z).day = d /\ LocalTime(z).sec = c}
  OBVIOUS
<1>9. s \in real /\ \A z \in real : z = s
  <2>1. CASE IsDst(s) = 0
    <3>1. x = s /\ y = s - HourLength
      BY <1>2, <1>6, <2>1
    <3>2. ASSUME LocalTime(y).day = d, LocalTime(y).sec = c PROVE y = s
      <4>1. y + Offset(IsDst(y)) = s + Offset(IsDst(s))
        BY <1>6, <1>7, <3>2
      <4>2. HourLength = 0 \/ IsDst(y) = 1
        BY <1>2, <1>6, <2>1, <3>1, <4>1
      <4>3. CASE IsDst(y) = 1
        <5>1. DstBegin <= y /\ y < DstEnd /\ ~(DstBegin <= s /\ s < DstEnd)
          BY <1>6, <2>1, <4>3 DEF IsDst
        <5> QED BY <3>1, <5>1
      <4> QED BY <3>1, <4>2, <4>3
    <3> QED BY <1>1, <1>8, <3>1, <3>2
  <2>2. CASE IsDst(s) = 1
    <3>1. y = s /\ x = s + HourLength
      BY <1>2, <1>6, <2>2
    <3>2. ASSUME LocalTime(x).day = d, LocalTime(x).sec = c PROVE x = s
      <4>1. x + Offset(IsDst(x)) = s + Offset(IsDst(s))
        BY <1>6, <1>7, <3>2
      <4>2. HourLength = 0 \/ IsDst(x) = 0
        BY <1>2, <1>6, <2>2, <3>1, <4>1
      <4>3. CASE IsDst(x) = 0
        <5>1. DstBegin <= s /\ s < DstEnd /\ ~(DstBegin <= x /\ x < DstEnd)
          BY <1>6, <2>2, <4>3 DEF IsDst
        <5> QED BY <3>1, <5>1
      <4> QED BY <3>1, <4>2, <4>3
    <3> QED BY <1>1, <1>8, <3>1, <3>2
  <2> QED BY <1>2, <2>1, <2>2
<1>10. real = {s}
  BY <1>9, Zenon
<1>11. MkTimes(d, c) = IF real = {} THEN {x, y} ELSE real
  BY <1>5, <1>8 DEF MkTimes
<1> QED BY <1>1, <1>10, <1>11

\* The text of an instant is read as that instant.
LEMMA LocalTextComesBack ==
  ASSUME NEW m \in Int, m >= 0, m # RoundDay(m), ~Repeated(m)
  PROVE  FromDbStringLocal(ToDbStringLocal(m)) = {m}
<1> USE UnitsAssumption
<1>1. PICK s \in Int, us \in 0 .. PerSecond - 1 :
         s = m \div PerSecond /\ us = m % PerSecond /\ m = PerSecond * s + us
  BY Division
<1>2. Quotient(m, PerSecond) = s /\ Remainder(m, PerSecond) = us
  BY <1>1 DEF Quotient, Remainder
<1>3. PICK d, c : d = LocalTime(s).day /\ c = LocalTime(s).sec
  OBVIOUS
<1>4. MkTimes(d, c) = {s}
  BY <1>2, <1>3, LocalTimeComesBack DEF Repeated
<1>5. s * PerSecond + us = m
  BY <1>1
<1>6. FromFields(d, c, us) = {m}
  BY <1>4, <1>5, Zenon DEF FromFields
<1>7. CASE us # 0
  <2>1. ToDbStringLocal(m) = <<d, c, us>>
    BY <1>2, <1>3, <1>7 DEF ToDbStringLocal
  <2>2. ReadFraction(us) = us
    <3>1. us \in Nat /\ us < UnsignedRange /\ UnsignedRange \in Nat \ {0}
      BY <1>1
    <3>2. us % UnsignedRange = us
      BY <3>1
    <3>3. ~(us <= -(PerSecond \div 10))
      BY <1>7, <3>1
    <3> QED BY <3>2, <3>3 DEF ReadFraction
  <2>3. FromDbStringLocal(<<d, c, us>>) = FromFields(d, c, ReadFraction(us))
    BY DEF FromDbStringLocal
  <2> QED BY <1>6, <2>1, <2>2, <2>3
<1>8. CASE us = 0
  <2>1. ToDbStringLocal(m) = <<d, c>>
    BY <1>2, <1>3, <1>8 DEF ToDbStringLocal
  <2>2. FromDbStringLocal(<<d, c>>) = FromFields(d, c, 0)
    BY DEF FromDbStringLocal
  <2> QED BY <1>6, <1>8, <2>1, <2>2
<1> QED BY <1>7, <1>8

\* The offset of January 1970, whichever answer mktime gives.
LEMMA TimezoneOffsetIsANumber == TimezoneOffset \in Int
<1> USE UnitsAssumption, ZoneAssumption
<1>1. FromDbStringLocal(<<2, 0>>) = FromFields(2, 0, 0)
  BY DEF FromDbStringLocal
<1>2. MkTimes(2, 0) # {} /\ \A s \in MkTimes(2, 0) : s \in Int
  <2>1. PICK x, y : x = MkTime(2, 0, 0) /\ y = MkTime(2, 0, 1)
    OBVIOUS
  <2>2. x \in Int /\ y \in Int
    BY <2>1 DEF MkTime, Offset
  <2>3. PICK real : real = {s \in {x, y} : LocalTime(s).day = 2 /\ LocalTime(s).sec = 0}
    OBVIOUS
  <2>4. MkTimes(2, 0) = IF real = {} THEN {x, y} ELSE real
    BY <2>1, <2>3 DEF MkTimes
  <2> QED BY <2>2, <2>3, <2>4
<1>3. FromFields(2, 0, 0) # {} /\ \A m \in FromFields(2, 0, 0) : m \in Int
  <2>1. \A s \in Int : s * PerSecond + 0 \in Int
    OBVIOUS
  <2> QED BY <1>2, <2>1, Zenon DEF FromFields
<1>4. PICK m \in Int : m = CHOOSE x \in FromDbStringLocal(<<2, 0>>) : TRUE
  BY <1>1, <1>3
<1>5. Quotient(m, PerSecond) \in Int
  BY <1>4 DEF Quotient
<1> QED BY <1>4, <1>5 DEF TimezoneOffset

\* The same for the text that is shifted by timezoneOffset().
LEMMA ShiftedTextComesBack ==
  ASSUME NEW m \in Int, NEW shifted, shifted = After(m, -TimezoneOffset),
         shifted >= 0, shifted # RoundDay(shifted), ~Repeated(shifted)
  PROVE  FromDbString(ToDbString(m)) = {m}
<1>1. PICK t \in Int : t = TimezoneOffset
  BY TimezoneOffsetIsANumber
<1>2. shifted \in Int /\ After(shifted, t) = m
  BY <1>1, UnitsAssumption DEF After
<1>3. FromDbStringLocal(ToDbStringLocal(shifted)) = {shifted}
  BY <1>2, LocalTextComesBack
<1>4. FromDbString(ToDbString(m)) = {After(x, t) : x \in {shifted}}
  BY <1>1, <1>3 DEF FromDbString, ToDbString
<1>5. {After(x, t) : x \in {shifted}} = {m}
  BY <1>2, Zenon
<1> QED BY <1>4, <1>5

(***************************************************************************)
(* Cells.                                                                  *)
(***************************************************************************)
\* A cast leaves alone what the type can hold.
LEMMA CastKeeps ==
  ASSUME NEW type \in Types, NEW n \in RangeOf(type)
  PROVE  Cast(n, type) = n
<1>1. PICK h \in Nat \ {0} : h = 2^(Bits(type) - 1) /\ 2^Bits(type) = 2 * h
  BY WidthsAssumption DEF Bits, Types
<1>2. PICK M \in Nat \ {0} : M = 2^Bits(type) /\ M = 2 * h
  BY <1>1
<1>3. RangeOf(type) = 0 .. M - 1 \/ RangeOf(type) = -h .. h - 1
  BY <1>1, <1>2 DEF RangeOf, Signed, Unsigned
<1>4. \A v \in RangeOf(type) : v \in Int /\ v - n < M /\ n - v < M
  BY <1>1, <1>2, <1>3
<1>5. \A v \in RangeOf(type) : v % M = n % M => v = n
  BY <1>2, <1>4, SameRemainder
<1> QED BY <1>2, <1>5 DEF Cast

\* as<T> of a number that T can hold.
LEMMA AsKeeps ==
  ASSUME NEW type \in Types, NEW cell, cell.null = FALSE, cell.number = TRUE,
         cell.n \in Int, cell.n \in RangeOf(type)
  PROVE  As(type, cell) = Value(cell.n)
<1>1. PICK n \in Int : n = cell.n
  OBVIOUS
<1>2. PICK b \in Nat \ {0}, i \in Nat \ {0}, l \in Nat \ {0} :
         /\ b = 2^(ByteBits - 1) /\ i = 2^(IntBits - 1) /\ l = 2^(LongBits - 1)
         /\ 2^ByteBits = 2 * b /\ 2^IntBits = 2 * i /\ 2^LongBits = 2 * l
         /\ 2 * b <= i /\ 2 * i <= 2 * l
  BY WidthsAssumption
<1>3. /\ RangeOf("int") = -i .. i - 1
      /\ RangeOf("int8_t") = -b .. b - 1 /\ RangeOf("uint8_t") = 0 .. 2 * b - 1
      /\ RangeOf("short") = -i .. i - 1 /\ RangeOf("unsigned int") = 0 .. 2 * i - 1
      /\ RangeOf("long") = -l .. l - 1 /\ RangeOf("unsigned long") = 0 .. 2 * l - 1
      /\ RangeOf("long long") = -l .. l - 1
      /\ RangeOf("unsigned long long") = 0 .. 2 * l - 1
      /\ Signed(IntBits) = -i .. i - 1 /\ Signed(LongBits) = -l .. l - 1
      /\ Unsigned(LongBits) = 0 .. 2 * l - 1
  BY <1>2 DEF RangeOf, Signed, Unsigned, Bits
<1>4. CASE type \in {"int8_t", "uint8_t"}
  <2>1. n \in -i .. i - 1 /\ n \in -l .. l - 1
    <3>1. b <= i /\ 2 * b <= i /\ i <= l
      BY <1>2
    <3>2. n \in -b .. b - 1 \/ n \in 0 .. 2 * b - 1
      BY <1>1, <1>3, <1>4
    <3> QED BY <3>1, <3>2
  <2>2. Atoll(cell) = n
    BY <1>1, <1>3, <2>1 DEF Atoll, Clamp
  <2>3. Atoi(cell) = n
    BY <1>3, <2>1, <2>2, CastKeeps DEF Atoi, Types
  <2>4. Cast(n, type) = n
    BY <1>1, CastKeeps
  <2> QED BY <1>1, <1>4, <2>3, <2>4 DEF As
<1>5. CASE type = "short"
  BY <1>1, <1>5 DEF As, Streamed, Clamp
<1>6. CASE type \in {"int", "long"}
  BY <1>1, <1>3, <1>6 DEF As, Stoi
<1>7. CASE type = "long long"
  BY <1>1, <1>3, <1>7 DEF As, Atoll, Clamp
<1>8. ASSUME type \in {"unsigned int", "unsigned long", "unsigned long long"}
      PROVE  Stoul(cell) = Value(n)
  <2>1. n \in 0 .. 2 * l - 1
    <3>1. 2 * i <= 2 * l
      BY <1>2
    <3>2. n \in 0 .. 2 * i - 1 \/ n \in 0 .. 2 * l - 1
      BY <1>1, <1>3, <1>8
    <3> QED BY <3>1, <3>2
  <2>2. n % (2 * l) = n
    BY <1>2, <2>1
  <2>3. ~(n < 0)
    BY <1>2, <2>1
  <2> QED BY <1>1, <1>2, <1>3, <2>1, <2>2, <2>3 DEF Stoul
<1>9. CASE type \in {"unsigned long", "unsigned long long"}
  BY <1>1, <1>8, <1>9 DEF As
<1>10. CASE type = "unsigned int"
  <2>1. As(type, cell) = [Value(n) EXCEPT !.value = Cast(@, type)]
    BY <1>8, <1>10 DEF As
  <2>2. Cast(n, type) = n
    BY <1>1, CastKeeps
  <2> QED BY <1>1, <2>1, <2>2 DEF Value
<1> QED BY <1>4, <1>5, <1>6, <1>7, <1>9, <1>10 DEF Types

(***************************************************************************)
(* The calls.                                                              *)
(***************************************************************************)
\* A call that has returned has the outcome of its function.
DatesInv ==
  /\ returned \in BOOLEAN
  /\ call.name = "toDbString" => call.instant \in Int
  /\ Returned("toDbString") =>
       /\ outcome.backLocal = FromDbStringLocal(ToDbStringLocal(call.instant))
       /\ outcome.back = FromDbString(ToDbString(call.instant))

\* So has a call of as<T>().
CellsInv ==
  /\ returned \in BOOLEAN
  /\ call.name = "as" => call.type \in Types /\ call.cell \in Cells
  /\ Returned("as") => outcome = As(call.type, call.cell)

\* No call has returned.
LEMMA InitCalls == Init => DatesInv /\ CellsInv
<1> SUFFICES ASSUME Init PROVE DatesInv /\ CellsInv
  OBVIOUS
<1>1. returned = FALSE
  BY DEF Init
<1>2. call.name = "toDbString" => call.instant \in Int
  BY InstantsAssumption DEF Init
<1>3. call.name = "as" => call.type \in Types /\ call.cell \in Cells
  BY DEF Init
<1> QED BY <1>1, <1>2, <1>3 DEF DatesInv, CellsInv, Returned

\* A date is only the outcome of a call of toDbString.
LEMMA StepDates == DatesInv /\ [Next]_vars => DatesInv'
<1> SUFFICES ASSUME DatesInv, [Next]_vars PROVE DatesInv'
  OBVIOUS
<1>1. CASE Connect
  BY <1>1 DEF Connect, Returns, DatesInv, Returned
<1>2. CASE Prepare
  BY <1>2 DEF Prepare, Returns, DatesInv, Returned
<1>3. CASE ReadCell
  BY <1>3 DEF ReadCell, Returns, DatesInv, Returned
<1>4. CASE Date
  <2>1. /\ call.name = "toDbString" /\ returned' = TRUE /\ call' = call
        /\ outcome'.backLocal = FromDbStringLocal(ToDbStringLocal(call.instant))
        /\ outcome'.back = FromDbString(ToDbString(call.instant))
    BY <1>4 DEF Date, Returns
  <2> QED BY <2>1 DEF DatesInv, Returned
<1>5. CASE UNCHANGED vars
  BY <1>5 DEF vars, DatesInv, Returned
<1> QED BY <1>1, <1>2, <1>3, <1>4, <1>5 DEF Next

\* A number is only the outcome of a call of as<T>().
LEMMA StepCells == CellsInv /\ [Next]_vars => CellsInv'
<1> SUFFICES ASSUME CellsInv, [Next]_vars PROVE CellsInv'
  OBVIOUS
<1>1. CASE Connect
  BY <1>1 DEF Connect, Returns, CellsInv, Returned
<1>2. CASE Prepare
  BY <1>2 DEF Prepare, Returns, CellsInv, Returned
<1>3. CASE ReadCell
  BY <1>3 DEF ReadCell, Returns, CellsInv, Returned
<1>4. CASE Date
  BY <1>4 DEF Date, Returns, CellsInv, Returned
<1>5. CASE UNCHANGED vars
  BY <1>5 DEF vars, CellsInv, Returned
<1> QED BY <1>1, <1>2, <1>3, <1>4, <1>5 DEF Next

\* The text of an instant, local or shifted by timezoneOffset(), is read as that
\* instant, in every time zone and for every instant that the property speaks of:
\* outside of the repeated hour mktime has one answer, and it is the right one.
THEOREM DatesRoundTrip == Spec => []DatesComeBack
<1>1. DatesInv => DatesComeBack
  <2> SUFFICES ASSUME DatesInv, Returned("toDbString") PROVE DatesComeBack
    BY DEF DatesComeBack
  <2>1. PICK m \in Int :
          /\ m = call.instant
          /\ outcome.backLocal = FromDbStringLocal(ToDbStringLocal(m))
          /\ outcome.back = FromDbString(ToDbString(m))
    BY DEF DatesInv, Returned
  <2>2. m >= 0 /\ m # RoundDay(m) /\ ~Repeated(m) => outcome.backLocal = {m}
    BY <2>1, LocalTextComesBack
  <2>3. PICK shifted : shifted = After(m, -TimezoneOffset)
    OBVIOUS
  <2>4. shifted >= 0 /\ shifted # RoundDay(shifted) /\ ~Repeated(shifted)
          => outcome.back = {m}
    BY <2>1, <2>3, ShiftedTextComesBack
  <2> QED BY <2>1, <2>2, <2>3, <2>4, Zenon DEF DatesComeBack
<1> QED BY <1>1, InitCalls, StepDates, PTL DEF Spec

\* as<T>() of a number that T can hold is that number and of NULL zero, for every
\* type of Field.h and all widths: the detours over int, long and unsigned long
\* cut nothing off.
THEOREM NumbersRoundTrip == Spec => []NumbersComeThrough
<1>1. CellsInv => NumbersComeThrough
  <2> SUFFICES ASSUME CellsInv, Returned("as") PROVE NumbersComeThrough
    BY DEF NumbersComeThrough
  <2>1. PICK type \in Types, cell \in Cells :
          type = call.type /\ cell = call.cell /\ outcome = As(type, cell)
    BY DEF CellsInv, Returned
  <2>2. cell.null \in BOOLEAN /\ cell.number \in BOOLEAN /\ cell.n \in Int
    BY CellsAssumption
  <2>3. cell.null => outcome = Value(0)
    BY <2>1 DEF As
  <2>4. ~cell.null /\ cell.number /\ cell.n \in RangeOf(type) => outcome = Value(cell.n)
    <3> SUFFICES ASSUME ~cell.null, cell.number, cell.n \in RangeOf(type)
                 PROVE  outcome = Value(cell.n)
      OBVIOUS
    <3>1. cell.null = FALSE /\ cell.number = TRUE
      BY <2>2, Zenon
    <3> QED BY <2>1, <2>2, <3>1, AsKeeps
  <2> QED BY <2>1, <2>3, <2>4, Zenon DEF NumbersComeThrough
<1> QED BY <1>1, InitCalls, StepCells, PTL DEF Spec

(***************************************************************************)
(* Induction, and functions that are defined by recursion.                 *)
(***************************************************************************)
\* A nonempty set of natural numbers has a least element.
LEMMA Least ==
  ASSUME NEW S, S \subseteq Nat, S # {}
  PROVE  \E x \in S : \A y \in S : x <= y
<1> DEFINE R == OpToRel(<, Nat)
<1>1. IsWellFoundedOn(R, Nat)
  BY NatLessThanWellFounded
<1> HIDE DEF R
<1>2. PICK x \in S : \A y \in S : ~(<<y, x>> \in R)
  BY <1>1, WFMin
<1>3. ASSUME NEW y \in S PROVE x <= y
  <2>1. ~(y < x)
    BY <1>2 DEF R, OpToRel
  <2> QED BY <2>1
<1> QED BY <1>3

\* Induction, for a set of numbers.
LEMMA Induction ==
  ASSUME NEW S, 0 \in S, \A m \in Nat : m \in S => m + 1 \in S
  PROVE  Nat \subseteq S
<1> SUFFICES ASSUME ~(Nat \subseteq S) PROVE FALSE
  OBVIOUS
<1> DEFINE T == {m \in Nat : m \notin S}
<1>1. T \subseteq Nat /\ T # {}
  OBVIOUS
<1>2. PICK x \in T : \A y \in T : x <= y
  <2> HIDE DEF T
  <2> QED BY <1>1, Least
<1>3. x \in Nat /\ x # 0 /\ x \notin S
  OBVIOUS
<1>4. x - 1 \in Nat /\ ~(x <= x - 1) /\ (x - 1) + 1 = x
  BY <1>3
<1>5. x - 1 \in S
  BY <1>2, <1>4
<1> QED BY <1>3, <1>4, <1>5

\* Induction from the end of a text to its beginning.
LEMMA DownInduction ==
  ASSUME NEW n \in Nat, NEW S,
         \A h \in 1 .. n : (\A k \in h + 1 .. n : k \in S) => h \in S
  PROVE  1 .. n \subseteq S
<1> SUFFICES ASSUME NEW h0 \in 1 .. n, h0 \notin S PROVE FALSE
  OBVIOUS
<1> DEFINE T == {m \in Nat : m <= n /\ n - m \in 1 .. n /\ n - m \notin S}
<1>1. n - h0 \in T /\ T \subseteq Nat
  <2>1. n - h0 \in Nat /\ n - h0 <= n /\ n - (n - h0) = h0
    OBVIOUS
  <2> QED BY <2>1
<1>2. PICK x \in T : \A y \in T : x <= y
  <2> HIDE DEF T
  <2> QED BY <1>1, Least
<1>3. x \in Nat /\ x <= n /\ n - x \in 1 .. n /\ n - x \notin S
  OBVIOUS
<1>4. ASSUME NEW k \in n - x + 1 .. n PROVE k \in S
  <2> SUFFICES ASSUME k \notin S PROVE FALSE
    OBVIOUS
  <2>1. n - k \in Nat /\ n - k <= n /\ n - (n - k) = k /\ k \in 1 .. n /\ ~(x <= n - k)
    BY <1>3
  <2>2. n - k \in T
    BY <2>1
  <2> QED BY <1>2, <2>1, <2>2
<1> QED BY <1>3, <1>4

\* A function that is defined by recursion exists, if each call is for an argument
\* of lower rank: f[h] is val[h] where the recursion stops, and else what step[h]
\* makes of the answer for jump[h].
Recursive(D, stop, val, step, jump, f) ==
  f = [h \in D |-> IF h \in stop THEN val[h] ELSE step[h][f[jump[h]]]]

\* There is such a function.
LEMMA RecursionExists ==
  ASSUME NEW D, NEW V, NEW rank, NEW bound \in Nat,
         NEW stop, NEW val, NEW step, NEW jump,
         \A h \in D : rank[h] \in Nat /\ rank[h] < bound,
         \A h \in D : IF h \in stop THEN val[h] \in V
                      ELSE /\ jump[h] \in D /\ rank[jump[h]] < rank[h]
                           /\ step[h] \in [V -> V]
  PROVE  \E f \in [D -> V] : Recursive(D, stop, val, step, jump, f)
<1> DEFINE E(m) == {h \in D : rank[h] < m}
           B(f, h) == IF h \in stop THEN val[h] ELSE step[h][f[jump[h]]]
           Good(m, f) == f \in [E(m) -> V] /\ \A h \in E(m) : f[h] = B(f, h)
           S == {m \in Nat : \E f : Good(m, f)}
<1>1. 0 \in S
  <2> DEFINE f == [h \in {} |-> h]
  <2>1. E(0) = {}
    OBVIOUS
  <2>2. f \in [{} -> V]
    OBVIOUS
  <2>3. Good(0, f)
    <3> HIDE DEF f, E
    <3> QED BY <2>1, <2>2
  <2> HIDE DEF Good
  <2> QED BY <2>3
<1>2. ASSUME NEW m \in Nat, m \in S PROVE m + 1 \in S
  <2>1. PICK f : Good(m, f)
    <3> HIDE DEF Good
    <3> QED BY <1>2
  <2> DEFINE g == [h \in E(m + 1) |-> B(f, h)]
  <2>2. E(m) \subseteq E(m + 1)
    OBVIOUS
  <2>3. ASSUME NEW h \in E(m + 1) PROVE B(f, h) \in V /\ (h \notin stop => jump[h] \in E(m))
    <3>1. CASE h \in stop
      BY <3>1
    <3>2. CASE h \notin stop
      <4>1. /\ h \in D /\ jump[h] \in D /\ rank[jump[h]] < rank[h] /\ step[h] \in [V -> V]
            /\ rank[h] \in Nat /\ rank[jump[h]] \in Nat /\ rank[h] < m + 1
        BY <3>2
      <4>2. jump[h] \in E(m)
        BY <4>1
      <4>3. f[jump[h]] \in V
        <5> HIDE DEF E
        <5> QED BY <2>1, <4>2
      <4>4. step[h][f[jump[h]]] \in V
        BY <4>1, <4>3
      <4> HIDE DEF E
      <4> QED BY <3>2, <4>2, <4>4
    <3> QED BY <3>1, <3>2
  <2>4. \A h \in E(m) : g[h] = f[h]
    <3> HIDE DEF E, B
    <3> QED BY <2>1, <2>2
  <2>5. ASSUME NEW h \in E(m + 1) PROVE B(f, h) = B(g, h)
    <3>1. CASE h \in stop
      <4> HIDE DEF g
      <4> QED BY <3>1
    <3>2. CASE h \notin stop
      <4>1. g[jump[h]] = f[jump[h]]
        <5> HIDE DEF E, g, B
        <5> QED BY <2>3, <2>4, <3>2
      <4> HIDE DEF g, E
      <4> QED BY <3>2, <4>1
    <3> QED BY <3>1, <3>2
  <2>6. g \in [E(m + 1) -> V]
    <3> HIDE DEF E, B
    <3> QED BY <2>3
  <2>7. \A h \in E(m + 1) : g[h] = B(f, h)
    <3> HIDE DEF E, B
    <3> QED OBVIOUS
  <2> HIDE DEF g
  <2>8. Good(m + 1, g)
    <3> HIDE DEF E, B
    <3> QED BY <2>5, <2>6, <2>7
  <2> HIDE DEF Good
  <2> QED BY <2>8
<1>3. Nat \subseteq S
  <2> HIDE DEF S
  <2> QED BY <1>1, <1>2, Induction
<1>4. PICK f : Good(bound, f)
  <2>1. bound \in S
    BY <1>3
  <2> HIDE DEF Good
  <2> QED BY <2>1
<1>5. E(bound) = D
  OBVIOUS
<1>6. f \in [D -> V] /\ \A h \in D : f[h] = B(f, h)
  <2> HIDE DEF E, B
  <2> QED BY <1>4, <1>5
<1>7. f = [h \in D |-> B(f, h)]
  <2> HIDE DEF B
  <2> QED BY <1>6
<1> QED BY <1>6, <1>7 DEF Recursive

(***************************************************************************)
(* FlattenSeq.                                                             *)
(***************************************************************************)
\* A sequence is one of n elements, and one more element.
OneMore(C, n, s) == \E r \in Seq(C), e \in C : Len(r) = n /\ s = Append(r, e)

\* So is every sequence that is not empty.
LEMMA Shorten ==
  ASSUME NEW C, NEW n \in Nat, NEW s \in Seq(C), Len(s) = n + 1
  PROVE  OneMore(C, n, s)
<1> DEFINE r == SubSeq(s, 1, n)
           e == s[n + 1]
           t == Append(r, e)
<1>1. r \in Seq(C) /\ Len(r) = n /\ e \in C /\ \A i \in 1 .. n : r[i] = s[i]
  OBVIOUS
<1> HIDE DEF r
<1>2. t \in Seq(C) /\ Len(t) = n + 1 /\ t[n + 1] = e /\ \A i \in 1 .. n : t[i] = s[i]
  BY <1>1
<1> HIDE DEF t
<1>3. \A i \in 1 .. n + 1 : s[i] = t[i]
  <2>1. \A i \in 1 .. n + 1 : i = n + 1 \/ i \in 1 .. n
    OBVIOUS
  <2> QED BY <1>2, <2>1
<1>4. s = t
  BY <1>2, <1>3, SeqEqual
<1> QED BY <1>1, <1>4 DEF t, OneMore

\* f[i] is the first i of the sequences in one.
Flattening(seqs, n, f) ==
  f = [i \in 1 .. n |-> IF i = 1 THEN seqs[i] ELSE f[i - 1] \o seqs[i]]

\* There is such a function.
LEMMA FlatteningExists ==
  ASSUME NEW seqs, NEW n \in Nat
  PROVE  \E f : Flattening(seqs, n, f)
<1> DEFINE S == {m \in Nat : \E f : Flattening(seqs, m, f)}
<1>1. 0 \in S
  <2> DEFINE f == [i \in {} |-> i]
  <2>1. f = [i \in 1 .. 0 |-> IF i = 1 THEN seqs[i] ELSE f[i - 1] \o seqs[i]]
    <3>1. 1 .. 0 = {}
      OBVIOUS
    <3> QED BY <3>1
  <2> HIDE DEF f
  <2> QED BY <2>1 DEF Flattening
<1>2. ASSUME NEW m \in Nat, m \in S PROVE m + 1 \in S
  <2>1. PICK f : Flattening(seqs, m, f)
    BY <1>2
  <2>2. f = [i \in 1 .. m |-> IF i = 1 THEN seqs[i] ELSE f[i - 1] \o seqs[i]]
    BY <2>1 DEF Flattening
  <2> DEFINE g == [i \in 1 .. m + 1 |-> IF i = 1 THEN seqs[i] ELSE f[i - 1] \o seqs[i]]
  <2>3. \A i \in 1 .. m : g[i] = f[i]
    <3>1. \A i \in 1 .. m : i \in 1 .. m + 1
      OBVIOUS
    <3> QED BY <2>2, <3>1
  <2>4. \A i \in 1 .. m + 1 : i # 1 => i - 1 \in 1 .. m
    OBVIOUS
  <2>5. \A i \in 1 .. m + 1 : g[i] = IF i = 1 THEN seqs[i] ELSE f[i - 1] \o seqs[i]
    OBVIOUS
  <2>6. g = [i \in 1 .. m + 1 |-> g[i]]
    OBVIOUS
  <2> HIDE DEF g
  <2>7. \A i \in 1 .. m + 1 : g[i] = IF i = 1 THEN seqs[i] ELSE g[i - 1] \o seqs[i]
    BY <2>3, <2>4, <2>5
  <2>8. g = [i \in 1 .. m + 1 |-> IF i = 1 THEN seqs[i] ELSE g[i - 1] \o seqs[i]]
    BY <2>6, <2>7
  <2>9. Flattening(seqs, m + 1, g)
    BY <2>8 DEF Flattening
  <2>10. \E h : Flattening(seqs, m + 1, h)
    BY <2>9
  <2> QED BY <2>10
<1>3. Nat \subseteq S
  <2> HIDE DEF S
  <2> QED BY <1>1, <1>2, Induction
<1> QED BY <1>3

\* FlattenSeq is the last of the sequences that it makes.
LEMMA FlattenIsLast ==
  ASSUME NEW seqs, Len(seqs) \in Nat \ {0}
  PROVE  \E f : Flattening(seqs, Len(seqs), f) /\ FlattenSeq(seqs) = f[Len(seqs)]
<1> DEFINE g == CHOOSE f : Flattening(seqs, Len(seqs), f)
<1>1. Flattening(seqs, Len(seqs), g)
  BY FlatteningExists
<1>2. FlattenSeq(seqs) = g[Len(seqs)]
  BY DEF FlattenSeq, Flattening
<1> QED BY <1>1, <1>2

\* No sequences make the empty one.
LEMMA FlattenEmpty == FlattenSeq(<<>>) = <<>>
BY DEF FlattenSeq

\* A sequence more is put behind.
LEMMA FlattenAppend ==
  ASSUME NEW C, NEW seqs \in Seq(Seq(C)), NEW e \in Seq(C)
  PROVE  FlattenSeq(Append(seqs, e)) = FlattenSeq(seqs) \o e
<1> DEFINE n == Len(seqs)
           both == Append(seqs, e)
<1>1. /\ n \in Nat /\ Len(both) = n + 1 /\ both[n + 1] = e
      /\ \A i \in 1 .. n : both[i] = seqs[i]
  OBVIOUS
<1> HIDE DEF both
<1>2. PICK f : Flattening(both, n + 1, f) /\ FlattenSeq(both) = f[n + 1]
  BY <1>1, FlattenIsLast
<1>3. \A i \in 1 .. n + 1 : f[i] = IF i = 1 THEN both[i] ELSE f[i - 1] \o both[i]
  BY <1>2 DEF Flattening
<1>4. CASE n = 0
  <2>1. seqs = <<>>
    BY <1>4
  <2>2. FlattenSeq(seqs) = <<>>
    BY <2>1, FlattenEmpty
  <2>3. 1 \in 1 .. n + 1 /\ n + 1 = 1
    BY <1>4
  <2>4. FlattenSeq(both) = e
    BY <1>1, <1>2, <1>3, <2>3
  <2>5. <<>> \o e = e
    OBVIOUS
  <2> QED BY <2>2, <2>4, <2>5 DEF both
<1>5. CASE n # 0
  <2>1. PICK g : Flattening(seqs, n, g) /\ FlattenSeq(seqs) = g[n]
    BY <1>1, <1>5, FlattenIsLast
  <2>2. \A i \in 1 .. n : g[i] = IF i = 1 THEN seqs[i] ELSE g[i - 1] \o seqs[i]
    BY <2>1 DEF Flattening
  <2> DEFINE S == {i \in Nat : i \in 1 .. n => f[i] = g[i]}
  <2>3. 0 \in S
    OBVIOUS
  <2>4. ASSUME NEW i \in Nat, i \in S PROVE i + 1 \in S
    <3> SUFFICES ASSUME i + 1 \in 1 .. n PROVE f[i + 1] = g[i + 1]
      OBVIOUS
    <3>1. i + 1 \in 1 .. n + 1 /\ both[i + 1] = seqs[i + 1] /\ (i + 1) - 1 = i
      BY <1>1
    <3>2. CASE i = 0
      BY <1>3, <2>2, <3>1, <3>2, SMTT(30)
    <3>3. CASE i # 0
      <4>1. f[i] = g[i] /\ i + 1 # 1
        BY <1>1, <2>4, <3>3
      <4>2. f[i + 1] = f[i] \o both[i + 1]
        BY <1>3, <3>1, <4>1
      <4>3. g[i + 1] = g[i] \o seqs[i + 1]
        BY <2>2, <3>1, <4>1
      <4> QED BY <3>1, <4>1, <4>2, <4>3
    <3> QED BY <3>2, <3>3
  <2>5. Nat \subseteq S
    <3> HIDE DEF S
    <3> QED BY <2>3, <2>4, Induction
  <2>6. f[n] = g[n]
    BY <1>1, <1>5, <2>5
  <2>7. n + 1 \in 1 .. n + 1 /\ n + 1 # 1 /\ (n + 1) - 1 = n
    BY <1>1, <1>5
  <2>8. f[n + 1] = f[n] \o both[n + 1]
    BY <1>3, <2>7
  <2> QED BY <1>1, <1>2, <2>1, <2>6, <2>8 DEF both
<1> QED BY <1>4, <1>5

\* The parts' characters are those of the whole.
LEMMA FlattenType ==
  ASSUME NEW C, NEW seqs \in Seq(Seq(C))
  PROVE  FlattenSeq(seqs) \in Seq(C)
<1> DEFINE S == {n \in Nat : \A s \in Seq(Seq(C)) : Len(s) = n => FlattenSeq(s) \in Seq(C)}
<1>1. 0 \in S
  <2> SUFFICES ASSUME NEW s \in Seq(Seq(C)), Len(s) = 0 PROVE FlattenSeq(s) \in Seq(C)
    OBVIOUS
  <2>1. s = <<>> /\ <<>> \in Seq(C)
    OBVIOUS
  <2> QED BY <2>1, FlattenEmpty
<1>2. ASSUME NEW n \in Nat, n \in S PROVE n + 1 \in S
  <2> SUFFICES ASSUME NEW s \in Seq(Seq(C)), Len(s) = n + 1 PROVE FlattenSeq(s) \in Seq(C)
    OBVIOUS
  <2>1. PICK r \in Seq(Seq(C)), e \in Seq(C) : Len(r) = n /\ s = Append(r, e)
    <3>1. OneMore(Seq(C), n, s)
      BY Shorten
    <3> QED BY <3>1 DEF OneMore
  <2>2. FlattenSeq(s) = FlattenSeq(r) \o e
    BY <2>1, FlattenAppend
  <2> DEFINE x == FlattenSeq(r)
  <2>3. x \in Seq(C)
    BY <1>2, <2>1
  <2> HIDE DEF x
  <2>4. x \o e \in Seq(C)
    BY <2>3
  <2> QED BY <2>2, <2>4 DEF x
<1>3. Nat \subseteq S
  <2> HIDE DEF S
  <2> QED BY <1>1, <1>2, Induction
<1>4. Len(seqs) \in Nat
  OBVIOUS
<1> QED BY <1>3, <1>4

\* Where the parts are in the whole: part k behind L[k - 1].
FlatLayout(seqs, L) ==
  /\ L \in [0 .. Len(seqs) -> Nat] /\ L[0] = 0 /\ L[Len(seqs)] = Len(FlattenSeq(seqs))
  /\ \A k \in 1 .. Len(seqs) :
       /\ L[k] = L[k - 1] + Len(seqs[k]) /\ L[k] <= Len(FlattenSeq(seqs))
       /\ \A j \in 1 .. Len(seqs[k]) : FlattenSeq(seqs)[L[k - 1] + j] = seqs[k][j]

\* Every part has its place.
LEMMA FlatLayoutExists ==
  ASSUME NEW C, NEW seqs \in Seq(Seq(C))
  PROVE  \E L : FlatLayout(seqs, L)
<1> DEFINE S == {n \in Nat : \A s \in Seq(Seq(C)) : Len(s) = n => \E L : FlatLayout(s, L)}
<1>1. 0 \in S
  <2> SUFFICES ASSUME NEW s \in Seq(Seq(C)), Len(s) = 0 PROVE \E L : FlatLayout(s, L)
    OBVIOUS
  <2> DEFINE L == [k \in 0 .. 0 |-> 0]
  <2>1. FlattenSeq(s) = <<>>
    <3>1. s = <<>>
      OBVIOUS
    <3> QED BY <3>1, FlattenEmpty
  <2>2. Len(FlattenSeq(s)) = 0
    BY <2>1
  <2>3. L \in [0 .. 0 -> Nat] /\ L[0] = 0 /\ 1 .. 0 = {}
    OBVIOUS
  <2> HIDE DEF L
  <2>4. FlatLayout(s, L)
    BY <2>2, <2>3 DEF FlatLayout
  <2> QED BY <2>4
<1>2. ASSUME NEW n \in Nat, n \in S PROVE n + 1 \in S
  <2> SUFFICES ASSUME NEW s \in Seq(Seq(C)), Len(s) = n + 1 PROVE \E L : FlatLayout(s, L)
    OBVIOUS
  <2>1. PICK r \in Seq(Seq(C)), e \in Seq(C) : Len(r) = n /\ s = Append(r, e)
    <3>1. OneMore(Seq(C), n, s)
      BY Shorten
    <3> QED BY <3>1 DEF OneMore
  <2>2. FlattenSeq(s) = FlattenSeq(r) \o e
    BY <2>1, FlattenAppend
  <2>3. PICK K : FlatLayout(r, K)
    BY <1>2, <2>1
  <2> DEFINE x == FlattenSeq(r)
             w == FlattenSeq(s)
             L == [k \in 0 .. n + 1 |-> IF k = n + 1 THEN Len(w) ELSE K[k]]
  <2>4. x \in Seq(C)
    BY FlattenType
  <2>5. /\ K \in [0 .. n -> Nat] /\ K[0] = 0 /\ K[n] = Len(x)
        /\ \A k \in 1 .. n : /\ K[k] = K[k - 1] + Len(r[k]) /\ K[k] <= Len(x)
                             /\ \A j \in 1 .. Len(r[k]) : x[K[k - 1] + j] = r[k][j]
    BY <2>1, <2>3 DEF FlatLayout
  <2>6. s[n + 1] = e /\ \A k \in 1 .. n : s[k] = r[k] /\ Len(r[k]) \in Nat
    BY <2>1
  <2>7. w = x \o e
    BY <2>2
  <2> HIDE DEF x, w
  <2>8. /\ Len(w) = Len(x) + Len(e) /\ Len(x) \in Nat /\ Len(e) \in Nat /\ Len(w) \in Nat
        /\ \A j \in 1 .. Len(x) : w[j] = x[j]
        /\ \A j \in 1 .. Len(e) : w[Len(x) + j] = e[j]
    BY <2>4, <2>7
  <2>9. /\ L \in [0 .. n + 1 -> Nat] /\ L[0] = 0 /\ L[n + 1] = Len(w)
        /\ \A k \in 0 .. n : L[k] = K[k]
    BY <2>5, <2>8
  <2> HIDE DEF L
  <2>10. ASSUME NEW k \in 1 .. n + 1
         PROVE  /\ L[k] = L[k - 1] + Len(s[k]) /\ L[k] <= Len(w)
                /\ \A j \in 1 .. Len(s[k]) : w[L[k - 1] + j] = s[k][j]
    <3>1. CASE k = n + 1
      <4>1. L[k - 1] = Len(x)
        BY <2>5, <2>9, <3>1
      <4> QED BY <2>6, <2>8, <2>9, <3>1, <4>1
    <3>2. CASE k # n + 1
      <4>1. k \in 1 .. n /\ k \in 0 .. n /\ k - 1 \in 0 .. n
        BY <3>2
      <4>2. L[k] = K[k] /\ L[k - 1] = K[k - 1] /\ K[k] \in Nat /\ K[k - 1] \in Nat
        BY <2>5, <2>9, <4>1
      <4>3. s[k] = r[k] /\ Len(r[k]) \in Nat /\ K[k] = K[k - 1] + Len(r[k]) /\ K[k] <= Len(x)
        BY <2>5, <2>6, <4>1
      <4>4. ASSUME NEW j \in 1 .. Len(r[k]) PROVE w[K[k - 1] + j] = r[k][j]
        <5> DEFINE a == K[k - 1]
                   b == Len(r[k])
                   c == K[k]
                   d == Len(x)
        <5>3. a \in Nat /\ b \in Nat /\ c = a + b /\ c <= d /\ d \in Nat /\ j \in 1 .. b
          BY <2>8, <4>2, <4>3
        <5>1. K[k - 1] + j \in 1 .. Len(x)
          <6> HIDE DEF a, b, c, d
          <6>1. a + j \in 1 .. d
            BY <5>3
          <6> QED BY <6>1 DEF a, d
        <5>2. x[K[k - 1] + j] = r[k][j]
          BY <2>5, <4>1
        <5> QED BY <2>8, <5>1, <5>2
      <4>5. L[k] <= Len(w)
        BY <2>8, <4>2, <4>3
      <4> QED BY <4>2, <4>3, <4>4, <4>5
    <3> QED BY <3>1, <3>2
  <2>11. FlatLayout(s, L)
    BY <2>9, <2>10 DEF FlatLayout, w
  <2> QED BY <2>11
<1>3. Nat \subseteq S
  <2> HIDE DEF S
  <2> QED BY <1>1, <1>2, Induction
<1>4. Len(seqs) \in Nat
  OBVIOUS
<1> QED BY <1>3, <1>4

(***************************************************************************)
(* Statements with parameters.                                             *)
(***************************************************************************)
\* A parameter, of a format that the switch knows or of another.
Parameter == [format : Formats, value : Seq(SqlCharacters)]

\* mysql_real_escape_string makes a text of a text.
LEMMA EscapedType ==
  ASSUME NEW v \in Seq(SqlCharacters)
  PROVE  Escaped(v) \in Seq(SqlCharacters)
<1> DEFINE E == [i \in DOMAIN v |-> IF v[i] \in {SqlQuote, Escape} THEN <<Escape, v[i]>> ELSE <<v[i]>>]
<1>1. Escape \in SqlCharacters
  BY SqlCharactersAssumption
<1>2. E \in Seq(Seq(SqlCharacters))
  <2>1. \A i \in DOMAIN v : v[i] \in SqlCharacters
    OBVIOUS
  <2>2. \A i \in DOMAIN v : <<Escape, v[i]>> \in Seq(SqlCharacters) /\ <<v[i]>> \in Seq(SqlCharacters)
    BY <1>1, <2>1
  <2>3. E \in [1 .. Len(v) -> Seq(SqlCharacters)] /\ Len(v) \in Nat
    BY <2>2
  <2> HIDE DEF E
  <2> QED BY <2>3
<1>3. Escaped(v) = FlattenSeq(E)
  BY DEF Escaped
<1> HIDE DEF E
<1> QED BY <1>2, <1>3, FlattenType

\* And so does the switch over the formats that it knows.
LEMMA ParameterTextType ==
  ASSUME NEW p \in Parameter, p.format # "other"
  PROVE  ParameterText(p) \in Seq(SqlCharacters)
<1>1. p.value \in Seq(SqlCharacters) /\ Escaped(p.value) \in Seq(SqlCharacters) /\ p.format \in Formats
  BY EscapedType DEF Parameter
<1>2. <<SqlQuote>> \in Seq(SqlCharacters)
  BY SqlCharactersAssumption
<1>3. <<SqlQuote>> \o Escaped(p.value) \o <<SqlQuote>> \in Seq(SqlCharacters)
  BY <1>1, <1>2
<1>4. <<"NULL">> \in Seq(SqlCharacters) /\ <<"default">> \in Seq(SqlCharacters)
  BY SqlCharactersAssumption
<1> QED BY <1>1, <1>3, <1>4 DEF ParameterText, Formats

\* What PrepareSql makes of sql from each position on with the parameters from i
\* on, given what it makes with those from i + 1 on.
PreparedRow(sql, ps, i, next) ==
  [pos \in 1 .. Len(sql) + 1 |->
    IF i > Len(ps) \/ Marks(sql, pos) = {}
      THEN SubSeq(sql, pos, Len(sql))
      ELSE LET seekPos == Min(Marks(sql, pos))
           IN SubSeq(sql, pos, seekPos - 1) \o ParameterText(ps[i]) \o next[seekPos + 1]]

\* f is From of PrepareSql.
Prepared(sql, ps, f) == f = [i \in 1 .. Len(ps) + 1 |-> PreparedRow(sql, ps, i, f[i + 1])]

\* From is a function that satisfies its equation.
LEMMA PreparedExists ==
  ASSUME NEW sql, NEW C, NEW ps \in Seq(C)
  PROVE  \E f : Prepared(sql, ps, f) /\ PrepareSql(sql, ps) = f[1][1]
<1> DEFINE n == Len(ps)
           Good(m, f) == f = [i \in n + 1 - m .. n + 1 |-> PreparedRow(sql, ps, i, f[i + 1])]
           S == {m \in Nat : m <= n => \E f : Good(m, f)}
<1>1. n \in Nat
  OBVIOUS
<1>2. 0 \in S
  <2> DEFINE f == [i \in n + 1 .. n + 1 |-> PreparedRow(sql, ps, i, 0)]
  <2>1. PreparedRow(sql, ps, n + 1, 0) = PreparedRow(sql, ps, n + 1, f[n + 1 + 1])
    <3>1. n + 1 > n
      BY <1>1
    <3> QED BY <3>1 DEF PreparedRow
  <2>2. \A i \in n + 1 .. n + 1 : i = n + 1
    BY <1>1
  <2>3. n + 1 - 0 = n + 1
    BY <1>1
  <2>4. Good(0, f)
    <3>1. f = [i \in n + 1 .. n + 1 |-> PreparedRow(sql, ps, i, f[i + 1])]
      BY <2>1, <2>2
    <3> HIDE DEF f
    <3> QED BY <2>3, <3>1
  <2> HIDE DEF Good
  <2> QED BY <2>4
<1>3. ASSUME NEW m \in Nat, m \in S PROVE m + 1 \in S
  <2>1. SUFFICES ASSUME m + 1 <= n PROVE \E f : Good(m + 1, f)
    <3> HIDE DEF Good
    <3> QED OBVIOUS
  <2>2. PICK f : Good(m, f)
    <3>1. m <= n
      BY <1>1, <2>1
    <3> HIDE DEF Good
    <3> QED BY <1>3, <3>1
  <2> DEFINE l == n + 1 - (m + 1)
             g == [i \in l .. n + 1 |-> IF i = l THEN PreparedRow(sql, ps, i, f[i + 1]) ELSE f[i]]
  <2>3. l \in Nat /\ l + 1 = n + 1 - m /\ l + 1 <= n + 1
    BY <1>1, <2>1
  <2>4. f = [i \in l + 1 .. n + 1 |-> PreparedRow(sql, ps, i, f[i + 1])]
    BY <2>2, <2>3
  <2> HIDE DEF l
  <2>5. \A i \in l + 1 .. n + 1 : g[i] = f[i]
    BY <1>1, <2>3
  <2>6. ASSUME NEW i \in l .. n + 1 PROVE g[i] = PreparedRow(sql, ps, i, g[i + 1])
    <3>1. CASE i = l
      <4>1. l + 1 \in l + 1 .. n + 1 /\ l \in l .. n + 1
        BY <1>1, <2>3
      <4>2. g[l + 1] = f[l + 1]
        BY <2>5, <4>1
      <4>3. g[i] = PreparedRow(sql, ps, i, f[i + 1])
        BY <3>1, <4>1
      <4> HIDE DEF g
      <4> QED BY <3>1, <4>2, <4>3
    <3>2. CASE i = n + 1
      <4>1. i \in l + 1 .. n + 1 /\ i > n
        BY <1>1, <2>3, <3>2
      <4>2. g[i] = PreparedRow(sql, ps, i, f[i + 1])
        <5> HIDE DEF g
        <5> QED BY <2>4, <2>5, <4>1
      <4>3. PreparedRow(sql, ps, i, f[i + 1]) = PreparedRow(sql, ps, i, g[i + 1])
        BY <4>1 DEF PreparedRow
      <4> QED BY <4>2, <4>3
    <3>3. CASE i # l /\ i # n + 1
      <4>1. i \in l + 1 .. n + 1 /\ i + 1 \in l + 1 .. n + 1
        BY <1>1, <2>3, <3>3
      <4> HIDE DEF g
      <4>2. g[i] = f[i] /\ g[i + 1] = f[i + 1]
        BY <2>5, <4>1
      <4> QED BY <2>4, <4>1, <4>2
    <3> QED BY <3>1, <3>2, <3>3
  <2>7. g = [i \in l .. n + 1 |-> PreparedRow(sql, ps, i, g[i + 1])]
    <3>1. g = [i \in l .. n + 1 |-> g[i]]
      OBVIOUS
    <3> HIDE DEF g
    <3> QED BY <2>6, <3>1
  <2> HIDE DEF g
  <2>8. Good(m + 1, g)
    BY <2>7 DEF l
  <2> HIDE DEF Good
  <2> QED BY <2>8
<1>4. Nat \subseteq S
  <2> HIDE DEF S
  <2> QED BY <1>2, <1>3, Induction
<1>5. \E f : Prepared(sql, ps, f)
  <2>1. n \in S /\ n <= n /\ n + 1 - n = 1
    BY <1>1, <1>4
  <2>2. PICK f : Good(n, f)
    <3> HIDE DEF Good
    <3> QED BY <2>1
  <2>3. Prepared(sql, ps, f)
    BY <2>1, <2>2 DEF Prepared
  <2> QED BY <2>3
<1> DEFINE g == CHOOSE f : Prepared(sql, ps, f)
<1>6. Prepared(sql, ps, g)
  BY <1>5
<1>7. PrepareSql(sql, ps) = g[1][1]
  BY DEF PrepareSql, Prepared, PreparedRow
<1> QED BY <1>6, <1>7

\* What PrepareSql makes of the statement from pos on with the parameters from i on.
LEMMA PreparedIs ==
  ASSUME NEW sql, NEW ps, NEW f, Prepared(sql, ps, f),
         NEW i \in 1 .. Len(ps) + 1, NEW pos \in 1 .. Len(sql) + 1
  PROVE  f[i][pos] =
           IF i > Len(ps) \/ Marks(sql, pos) = {}
             THEN SubSeq(sql, pos, Len(sql))
             ELSE SubSeq(sql, pos, Min(Marks(sql, pos)) - 1) \o ParameterText(ps[i])
                    \o f[i + 1][Min(Marks(sql, pos)) + 1]
<1>1. f[i] = PreparedRow(sql, ps, i, f[i + 1])
  BY DEF Prepared
<1>2. f[i][pos] = PreparedRow(sql, ps, i, f[i + 1])[pos]
  BY <1>1
<1>3. PreparedRow(sql, ps, i, f[i + 1])[pos] =
           IF i > Len(ps) \/ Marks(sql, pos) = {}
             THEN SubSeq(sql, pos, Len(sql))
             ELSE SubSeq(sql, pos, Min(Marks(sql, pos)) - 1) \o ParameterText(ps[i])
                    \o f[i + 1][Min(Marks(sql, pos)) + 1]
  BY Zenon DEF PreparedRow
<1> QED BY <1>2, <1>3

\* The first mark.
LEMMA FirstMark ==
  ASSUME NEW C, NEW sql \in Seq(C), NEW pos \in 1 .. Len(sql) + 1
  PROVE  /\ Marks(sql, Len(sql) + 1) = {}
         /\ Marks(sql, pos) # {} =>
              /\ Min(Marks(sql, pos)) \in pos .. Len(sql)
              /\ sql[Min(Marks(sql, pos))] = Mark
              /\ \A j \in pos .. Min(Marks(sql, pos)) - 1 : sql[j] # Mark
         /\ pos <= Len(sql) /\ sql[pos] = Mark => Marks(sql, pos) # {} /\ Min(Marks(sql, pos)) = pos
         /\ pos <= Len(sql) /\ sql[pos] # Mark => Marks(sql, pos) = Marks(sql, pos + 1)
<1> DEFINE n == Len(sql)
           M == Marks(sql, pos)
<1>1. n \in Nat /\ pos \in Nat /\ M \subseteq pos .. n
  BY DEF Marks
<1>2. Marks(sql, n + 1) = {}
  BY <1>1 DEF Marks
<1>3. ASSUME M # {}
      PROVE  Min(M) \in M /\ \A j \in M : Min(M) <= j
  <2>1. M \subseteq Nat
    BY <1>1
  <2>2. \E x \in M : \A y \in M : x <= y
    BY <1>3, <2>1, Least
  <2> HIDE DEF M
  <2> QED BY <2>2 DEF Min
<1>4. ASSUME M # {}
      PROVE  /\ Min(M) \in pos .. n /\ sql[Min(M)] = Mark
             /\ \A j \in pos .. Min(M) - 1 : sql[j] # Mark
  <2> DEFINE x == Min(M)
  <2>1. x \in pos .. n /\ sql[x] = Mark
    BY <1>1, <1>3, <1>4 DEF Marks
  <2>2. ASSUME NEW j \in pos .. x - 1, sql[j] = Mark PROVE FALSE
    <3>1. j \in pos .. n /\ ~(x <= j)
      BY <1>1, <2>1
    <3>2. j \in M
      BY <2>2, <3>1 DEF Marks
    <3> QED BY <1>3, <1>4, <3>1, <3>2
  <2> QED BY <2>1, <2>2
<1>5. ASSUME pos <= n, sql[pos] = Mark PROVE M # {} /\ Min(M) = pos
  <2>1. pos \in M
    BY <1>1, <1>5 DEF Marks
  <2>2. Min(M) \in pos .. n /\ Min(M) <= pos
    BY <1>3, <1>4, <2>1
  <2> HIDE DEF M
  <2> QED BY <1>1, <2>1, <2>2
<1>6. ASSUME pos <= n, sql[pos] # Mark PROVE M = Marks(sql, pos + 1)
  BY <1>1, <1>6 DEF Marks
<1> QED BY <1>2, <1>4, <1>5, <1>6

\* A part of a text in two.
LEMMA SplitPart ==
  ASSUME NEW C, NEW s \in Seq(C), NEW p \in 1 .. Len(s) + 1, NEW q \in p .. Len(s) + 1,
         NEW m \in q - 1 .. Len(s)
  PROVE  SubSeq(s, p, m) = SubSeq(s, p, q - 1) \o SubSeq(s, q, m)
<1>1. PICK k \in p - 1 .. Len(s) : k = q - 1 /\ k + 1 = q /\ m \in k .. Len(s)
  OBVIOUS
<1>2. SubSeq(s, p, k) \o SubSeq(s, k + 1, m) = SubSeq(s, p, m)
  BY <1>1, ConcatAdjacentSubSeq
<1> QED BY <1>1, <1>2

\* A part of one character.
LEMMA PartOfOne ==
  ASSUME NEW C, NEW s \in Seq(C), NEW p \in 1 .. Len(s)
  PROVE  SubSeq(s, p, p) = <<s[p]>> /\ s[p] \in C
<1> DEFINE a == SubSeq(s, p, p)
           c == s[p]
<1>1. c \in C /\ a \in Seq(C) /\ Len(a) = 1 /\ a[1] = c
  OBVIOUS
<1> HIDE DEF a, c
<1>2. a = <<c>>
  BY <1>1
<1> QED BY <1>1, <1>2 DEF a, c

\* The rest of a text is its first character and what is behind it.
LEMMA RestOf ==
  ASSUME NEW C, NEW v \in Seq(C), NEW k \in 1 .. Len(v)
  PROVE  SubSeq(v, k, Len(v)) = <<v[k]>> \o SubSeq(v, k + 1, Len(v))
<1> DEFINE q == k + 1
           n == Len(v)
<1>1. k \in 1 .. n + 1 /\ q \in k .. n + 1 /\ n \in q - 1 .. n /\ q - 1 = k
  OBVIOUS
<1> HIDE DEF q
<1>2. SubSeq(v, k, n) = SubSeq(v, k, q - 1) \o SubSeq(v, q, n)
  BY <1>1, SplitPart
<1>3. SubSeq(v, k, k) = <<v[k]>>
  BY PartOfOne
<1>4. SubSeq(v, k, n) = <<v[k]>> \o SubSeq(v, q, n)
  BY <1>1, <1>2, <1>3
<1> QED BY <1>4 DEF q

\* Texts in a row can be grouped in any way.
LEMMA Associative ==
  \A a, b, c \in Seq(SqlCharacters) : (a \o b) \o c = a \o (b \o c)
OBVIOUS

\* How many marks there are.
LEMMA CountMarks ==
  ASSUME NEW C, NEW sql \in Seq(C), NEW pos \in 1 .. Len(sql) + 1
  PROVE  /\ IsFiniteSet(Marks(sql, pos)) /\ Cardinality(Marks(sql, pos)) \in Nat
         /\ pos <= Len(sql) /\ sql[pos] = Mark =>
              Cardinality(Marks(sql, pos)) = Cardinality(Marks(sql, pos + 1)) + 1
<1>1. Len(sql) \in Nat /\ pos \in Nat
  OBVIOUS
<1>2. ASSUME NEW p \in Nat
      PROVE  IsFiniteSet(Marks(sql, p)) /\ Cardinality(Marks(sql, p)) \in Nat
  <2>1. IsFiniteSet(p .. Len(sql))
    BY <1>1, FS_Interval
  <2>2. Marks(sql, p) \in SUBSET (p .. Len(sql))
    BY DEF Marks
  <2>3. IsFiniteSet(Marks(sql, p))
    BY <2>1, <2>2, FS_Subset
  <2> QED BY <2>3, FS_CardinalityType
<1>3. ASSUME pos <= Len(sql), sql[pos] = Mark
      PROVE  Cardinality(Marks(sql, pos)) = Cardinality(Marks(sql, pos + 1)) + 1
  <2>1. Marks(sql, pos) = Marks(sql, pos + 1) \cup {pos} /\ pos \notin Marks(sql, pos + 1)
    BY <1>1, <1>3 DEF Marks
  <2>2. IsFiniteSet(Marks(sql, pos + 1))
    BY <1>1, <1>2
  <2> QED BY <2>1, <2>2, FS_AddElement
<1> QED BY <1>1, <1>2, <1>3

\* Positions p and q with no mark from p to before q have the same marks ahead.
LEMMA SameMarks ==
  ASSUME NEW C, NEW sql \in Seq(C), NEW p \in 1 .. Len(sql) + 1, NEW q \in p .. Len(sql) + 1,
         \A j \in p .. q - 1 : sql[j] # Mark
  PROVE  Marks(sql, p) = Marks(sql, q)
<1>1. Len(sql) \in Nat /\ p \in Nat /\ q \in Nat /\ p <= q
  OBVIOUS
<1>2. ASSUME NEW j \in Marks(sql, p) PROVE j \in Marks(sql, q)
  <2>1. j \in p .. Len(sql) /\ sql[j] = Mark
    BY DEF Marks
  <2>2. j \notin p .. q - 1
    BY <2>1
  <2> QED BY <1>1, <2>1, <2>2 DEF Marks
<1>3. Marks(sql, q) \subseteq Marks(sql, p)
  BY <1>1 DEF Marks
<1> QED BY <1>2, <1>3

\* The parameters from i on that PrepareSql puts at marks from pos on have a
\* format that the switch knows.
Known(sql, ps, i, pos) ==
  \A j \in i .. Len(ps) : j < i + Cardinality(Marks(sql, pos)) => ps[j].format # "other"

\* What PrepareSql makes of a statement is a text.
LEMMA PreparedType ==
  ASSUME NEW sql \in Seq(SqlCharacters), NEW ps \in Seq(Parameter), NEW f, Prepared(sql, ps, f),
         NEW i \in 1 .. Len(ps) + 1, NEW pos \in 1 .. Len(sql) + 1, Known(sql, ps, i, pos)
  PROVE  f[i][pos] \in Seq(SqlCharacters)
<1> DEFINE np == Len(ps)
           n == Len(sql)
           S == {k \in 1 .. np + 1 : \A p \in 1 .. n + 1 :
                   Known(sql, ps, k, p) => f[k][p] \in Seq(SqlCharacters)}
<1>1. np \in Nat /\ n \in Nat /\ np + 1 \in Nat
  OBVIOUS
<1>2. ASSUME NEW k \in 1 .. np + 1, \A l \in k + 1 .. np + 1 : l \in S PROVE k \in S
  <2>1. SUFFICES ASSUME NEW p \in 1 .. n + 1, Known(sql, ps, k, p)
                 PROVE  f[k][p] \in Seq(SqlCharacters)
    OBVIOUS
  <2> DEFINE M == Marks(sql, p)
             m == Min(M)
  <2>2. f[k][p] = IF k > np \/ M = {} THEN SubSeq(sql, p, n)
                  ELSE SubSeq(sql, p, m - 1) \o ParameterText(ps[k]) \o f[k + 1][m + 1]
    BY PreparedIs
  <2>3. CASE k > np \/ M = {}
    <3>1. SubSeq(sql, p, n) \in Seq(SqlCharacters)
      BY <1>1
    <3> QED BY <2>2, <2>3, <3>1
  <2>4. CASE ~(k > np \/ M = {})
    <3>1. m \in p .. n /\ sql[m] = Mark /\ \A j \in p .. m - 1 : sql[j] # Mark
      BY <2>4, FirstMark
    <3>2. Marks(sql, p) = Marks(sql, m)
      <4>1. m \in p .. n + 1
        BY <1>1, <3>1
      <4> HIDE DEF m
      <4> QED BY <3>1, <4>1, SameMarks
    <3> HIDE DEF m, M
    <3>3. /\ Cardinality(Marks(sql, p)) = Cardinality(Marks(sql, m + 1)) + 1
          /\ Cardinality(Marks(sql, m + 1)) \in Nat
      <4>1. m \in 1 .. n + 1 /\ m + 1 \in 1 .. n + 1 /\ m <= Len(sql)
        BY <1>1, <3>1
      <4> QED BY <3>1, <3>2, <4>1, CountMarks
    <3>4. k \in 1 .. np /\ ps[k].format # "other"
      BY <1>1, <2>1, <2>4, <3>3 DEF Known
    <3>5. Known(sql, ps, k + 1, m + 1)
      BY <1>1, <2>1, <3>3, <3>4 DEF Known
    <3>6. k + 1 \in k + 1 .. np + 1 /\ m + 1 \in 1 .. n + 1
      BY <1>1, <3>1, <3>4
    <3>7. f[k + 1][m + 1] \in Seq(SqlCharacters)
      BY <1>2, <3>5, <3>6
    <3>8. ParameterText(ps[k]) \in Seq(SqlCharacters)
      <4>1. ps[k] \in Parameter
        BY <3>4
      <4> QED BY <3>4, <4>1, ParameterTextType
    <3>9. SubSeq(sql, p, m - 1) \in Seq(SqlCharacters)
      BY <1>1, <3>1
    <3> QED BY <2>2, <2>4, <3>7, <3>8, <3>9
  <2> QED BY <2>3, <2>4
<1>3. 1 .. np + 1 \subseteq S
  <2> HIDE DEF S
  <2> QED BY <1>1, <1>2, DownInduction
<1> QED BY <1>3

\* Where there is no mark PrepareSql copies.
LEMMA PreparedSkip ==
  ASSUME NEW sql \in Seq(SqlCharacters), NEW ps \in Seq(Parameter), NEW f, Prepared(sql, ps, f),
         NEW i \in 1 .. Len(ps) + 1, NEW p \in 1 .. Len(sql) + 1, NEW q \in p .. Len(sql) + 1,
         Known(sql, ps, i, p), i > Len(ps) \/ \A j \in p .. q - 1 : sql[j] # Mark
  PROVE  f[i][p] = SubSeq(sql, p, q - 1) \o f[i][q]
<1> DEFINE np == Len(ps)
           n == Len(sql)
           M == Marks(sql, q)
           m == Min(M)
<1>1. np \in Nat /\ n \in Nat /\ q \in 1 .. n + 1 /\ p \in Nat /\ i \in Nat
  OBVIOUS
<1>2. /\ f[i][p] = IF i > np \/ Marks(sql, p) = {} THEN SubSeq(sql, p, n)
                   ELSE SubSeq(sql, p, Min(Marks(sql, p)) - 1) \o ParameterText(ps[i])
                          \o f[i + 1][Min(Marks(sql, p)) + 1]
      /\ f[i][q] = IF i > np \/ M = {} THEN SubSeq(sql, q, n)
                   ELSE SubSeq(sql, q, m - 1) \o ParameterText(ps[i]) \o f[i + 1][m + 1]
  BY <1>1, PreparedIs
<1>3. i <= np => Marks(sql, p) = M
  BY <1>1, SameMarks
<1>4. CASE i > np \/ M = {}
  <2>1. f[i][p] = SubSeq(sql, p, n) /\ f[i][q] = SubSeq(sql, q, n)
    BY <1>1, <1>2, <1>3, <1>4
  <2>2. n \in q - 1 .. n
    BY <1>1
  <2> QED BY <2>1, <2>2, SplitPart
<1>5. CASE ~(i > np \/ M = {})
  <2>1. m \in q .. n /\ sql[m] = Mark /\ \A j \in q .. m - 1 : sql[j] # Mark
    BY <1>1, <1>5, FirstMark
  <2>2. /\ f[i][p] = SubSeq(sql, p, m - 1) \o ParameterText(ps[i]) \o f[i + 1][m + 1]
        /\ f[i][q] = SubSeq(sql, q, m - 1) \o ParameterText(ps[i]) \o f[i + 1][m + 1]
    <3>1. Marks(sql, p) = M
      BY <1>1, <1>3, <1>5
    <3> QED BY <1>2, <1>5, <3>1, Zenon
  <2>3. /\ Cardinality(Marks(sql, p)) = Cardinality(Marks(sql, m + 1)) + 1
        /\ Cardinality(Marks(sql, m + 1)) \in Nat
    <3> HIDE DEF m
    <3>1. m \in 1 .. n + 1 /\ m + 1 \in 1 .. n + 1 /\ m <= Len(sql) /\ m \in q .. n + 1
      BY <1>1, <2>1
    <3>2. M = Marks(sql, m)
      BY <1>1, <2>1, <3>1, SameMarks
    <3>3. Marks(sql, p) = M
      BY <1>1, <1>3, <1>5
    <3> QED BY <2>1, <3>1, <3>2, <3>3, CountMarks
  <2> HIDE DEF m, M
  <2>4. i \in 1 .. np /\ ps[i].format # "other"
    BY <1>1, <1>5, <2>3 DEF Known
  <2>5. Known(sql, ps, i + 1, m + 1)
    BY <1>1, <2>3, <2>4 DEF Known
  <2> DEFINE a == SubSeq(sql, p, q - 1)
             b == SubSeq(sql, q, m - 1)
             t == ParameterText(ps[i])
             x == f[i + 1][m + 1]
  <2>6. a \in Seq(SqlCharacters) /\ b \in Seq(SqlCharacters)
    BY <1>1, <2>1
  <2>7. t \in Seq(SqlCharacters)
    <3>1. ps[i] \in Parameter
      BY <2>4
    <3> QED BY <2>4, <3>1, ParameterTextType
  <2>8. x \in Seq(SqlCharacters)
    <3>1. i + 1 \in 1 .. np + 1 /\ m + 1 \in 1 .. n + 1
      BY <1>1, <2>1, <2>4
    <3> QED BY <2>5, <3>1, PreparedType
  <2>9. SubSeq(sql, p, m - 1) = a \o b
    <3>1. m - 1 \in q - 1 .. n
      BY <1>1, <2>1
    <3> QED BY <3>1, SplitPart
  <2> HIDE DEF a, b, t, x
  <2>10. ((a \o b) \o t) \o x = a \o ((b \o t) \o x)
    <3> DEFINE e == b \o t
    <3>1. (a \o b) \o t = a \o e
      BY <2>6, <2>7, Associative, Zenon
    <3>2. e \in Seq(SqlCharacters)
      BY <2>6, <2>7
    <3> HIDE DEF e
    <3>3. (a \o e) \o x = a \o (e \o x)
      BY <2>6, <2>8, <3>2, Associative, Zenon
    <3> QED BY <3>1, <3>3 DEF e
  <2> QED BY <2>2, <2>9, <2>10 DEF a, b, t, x
<1> QED BY <1>4, <1>5

\* At a mark PrepareSql puts in a parameter.
LEMMA PreparedMark ==
  ASSUME NEW sql \in Seq(SqlCharacters), NEW ps \in Seq(Parameter), NEW f, Prepared(sql, ps, f),
         NEW i \in 1 .. Len(ps), NEW p \in 1 .. Len(sql),
         Known(sql, ps, i, p), sql[p] = Mark
  PROVE  /\ ps[i].format # "other" /\ Known(sql, ps, i + 1, p + 1)
         /\ f[i][p] = ParameterText(ps[i]) \o f[i + 1][p + 1]
<1> DEFINE np == Len(ps)
           n == Len(sql)
<1>1. np \in Nat /\ n \in Nat /\ i \in Nat /\ p \in 1 .. n + 1
  OBVIOUS
<1>2. Marks(sql, p) # {} /\ Min(Marks(sql, p)) = p
  BY <1>1, FirstMark
<1>3. /\ Cardinality(Marks(sql, p)) = Cardinality(Marks(sql, p + 1)) + 1
      /\ Cardinality(Marks(sql, p + 1)) \in Nat
  <2>1. p + 1 \in 1 .. n + 1 /\ p <= n
    BY <1>1
  <2> QED BY <1>1, <2>1, CountMarks
<1>4. ps[i].format # "other" /\ Known(sql, ps, i + 1, p + 1)
  BY <1>1, <1>3 DEF Known
<1>5. f[i][p] = SubSeq(sql, p, p - 1) \o ParameterText(ps[i]) \o f[i + 1][p + 1]
  <2>1. i \in 1 .. np + 1 /\ ~(i > np)
    BY <1>1
  <2>2. f[i][p] = IF i > np \/ Marks(sql, p) = {} THEN SubSeq(sql, p, n)
                  ELSE SubSeq(sql, p, Min(Marks(sql, p)) - 1) \o ParameterText(ps[i])
                         \o f[i + 1][Min(Marks(sql, p)) + 1]
    BY <1>1, <2>1, PreparedIs
  <2> QED BY <1>2, <2>1, <2>2
<1>6. SubSeq(sql, p, p - 1) = <<>>
  BY <1>1
<1>7. ParameterText(ps[i]) \in Seq(SqlCharacters)
  <2>1. ps[i] \in Parameter
    OBVIOUS
  <2> QED BY <1>4, <2>1, ParameterTextType
<1>8. <<>> \o ParameterText(ps[i]) = ParameterText(ps[i])
  BY <1>7
<1> QED BY <1>4, <1>5, <1>6, <1>8

(***************************************************************************)
(* Strings, as the server reads them.                                      *)
(***************************************************************************)
\* The marks, quotes and escapes of a statement are different characters.
LEMMA SqlCharactersDiffer ==
  Mark # SqlQuote /\ Mark # Escape /\ SqlQuote # Escape /\ SqlQuote # "end"
BY DEF Mark, SqlQuote, Escape

\* What a string holds; "open" is the end of a string that nothing closes.
StringValue == Seq(SqlCharacters \cup {"open"})

\* The character behind position j.
NextOf(s, j) == IF j < Len(s) THEN s[j + 1] ELSE "end"

\* The string ends at j.
Closes(s, j) == s[j] = SqlQuote /\ NextOf(s, j) # SqlQuote

\* The character at j says that the next one is to be taken as it is.
Pair(s, j) == s[j] \in {SqlQuote, Escape} /\ j < Len(s)

\* What is read from j on, given what is read from behind the character at j on.
Prefixed(r, c) == [r EXCEPT !.value = <<c>> \o @]

\* f is From of ReadString.
Reading(s, f) ==
  f = [j \in 1 .. Len(s) + 2 |->
        IF j > Len(s) THEN [end |-> Len(s), value |-> <<"open">>]
        ELSE IF s[j] = SqlQuote /\ (IF j < Len(s) THEN s[j + 1] ELSE "end") # SqlQuote
          THEN [end |-> j, value |-> <<>>]
        ELSE IF s[j] \in {SqlQuote, Escape} /\ j < Len(s)
          THEN [f[j + 2] EXCEPT !.value = <<s[j + 1]>> \o @]
          ELSE [f[j + 1] EXCEPT !.value = <<s[j]>> \o @]]

\* Strings that are read.
StringsRead == [end : Nat, value : StringValue]

\* A character more is put before.
LEMMA PrefixedIs ==
  ASSUME NEW r \in StringsRead, NEW c \in SqlCharacters
  PROVE  /\ Prefixed(r, c) = [end |-> r.end, value |-> <<c>> \o r.value]
         /\ Prefixed(r, c) \in StringsRead /\ Prefixed(r, c).end = r.end
         /\ Prefixed(r, c).value = <<c>> \o r.value
<1> DEFINE v == r.value
<1>1. v \in StringValue /\ r.end \in Nat /\ r = [end |-> r.end, value |-> v]
  BY DEF StringsRead
<1>2. Prefixed(r, c) = [end |-> r.end, value |-> <<c>> \o v]
  BY <1>1 DEF Prefixed, StringsRead
<1> HIDE DEF v
<1>3. <<c>> \o v \in StringValue
  BY <1>1 DEF StringValue
<1>4. Prefixed(r, c) \in StringsRead
  BY <1>1, <1>2, <1>3 DEF StringsRead
<1> QED BY <1>2, <1>4 DEF v

\* From is a function that satisfies its equation.
LEMMA ReadingExists ==
  ASSUME NEW s \in Seq(SqlCharacters)
  PROVE  \E f : Reading(s, f) /\ \A k : ReadString(s, k) = f[k]
<1> DEFINE n == Len(s)
           D == 1 .. n + 2
           stop == {h \in D : h > n \/ Closes(s, h)}
           val == [h \in D |-> IF h > n THEN [end |-> n, value |-> <<"open">>]
                               ELSE [end |-> h, value |-> <<>>]]
           step == [h \in D |-> [x \in StringsRead |->
                      Prefixed(x, IF Pair(s, h) THEN s[h + 1] ELSE s[h])]]
           jump == [h \in D |-> IF Pair(s, h) THEN h + 2 ELSE h + 1]
           rank == [h \in D |-> n + 2 - h]
<1>1. n \in Nat /\ n + 2 \in Nat
  OBVIOUS
<1>2. \A h \in D : rank[h] \in Nat /\ rank[h] < n + 2
  BY <1>1
<1>3. ASSUME NEW h \in D
      PROVE  IF h \in stop THEN val[h] \in StringsRead
             ELSE /\ jump[h] \in D /\ rank[jump[h]] < rank[h]
                  /\ step[h] \in [StringsRead -> StringsRead]
  <2>1. CASE h \in stop
    <3>1. <<"open">> \in StringValue /\ <<>> \in StringValue
      BY DEF StringValue
    <3>2. val[h] \in StringsRead
      BY <1>1, <3>1 DEF StringsRead
    <3> QED BY <2>1, <3>2
  <2>2. CASE h \notin stop
    <3>1. h \in 1 .. n /\ h <= n
      BY <1>1, <2>2
    <3>2. jump[h] \in D /\ rank[jump[h]] < rank[h]
      <4>1. jump[h] = h + 2 \/ jump[h] = h + 1
        BY <3>1
      <4>2. h + 2 \in D /\ h + 1 \in D
        BY <1>1, <3>1
      <4> QED BY <1>1, <3>1, <4>1, <4>2
    <3>3. ASSUME NEW x \in StringsRead
          PROVE  Prefixed(x, IF Pair(s, h) THEN s[h + 1] ELSE s[h]) \in StringsRead
      <4>1. s[h] \in SqlCharacters /\ (Pair(s, h) => s[h + 1] \in SqlCharacters)
        BY <1>1, <3>1 DEF Pair
      <4>2. (IF Pair(s, h) THEN s[h + 1] ELSE s[h]) \in SqlCharacters
        BY <4>1
      <4> QED BY <4>2, PrefixedIs
    <3>4. step[h] \in [StringsRead -> StringsRead]
      BY <3>3
    <3> QED BY <2>2, <3>2, <3>4
  <2> QED BY <2>1, <2>2
<1>4. \E f \in [D -> StringsRead] : Recursive(D, stop, val, step, jump, f)
  <2> HIDE DEF D, stop, val, step, jump, rank
  <2>1. \A h \in D : IF h \in stop THEN val[h] \in StringsRead
             ELSE /\ jump[h] \in D /\ rank[jump[h]] < rank[h]
                  /\ step[h] \in [StringsRead -> StringsRead]
    BY <1>3
  <2> QED BY <1>1, <1>2, <2>1, RecursionExists
<1>5. PICK f \in [D -> StringsRead] : Recursive(D, stop, val, step, jump, f)
  BY <1>4
<1>6. ASSUME NEW j \in D
      PROVE  f[j] = IF j > n THEN [end |-> n, value |-> <<"open">>]
        ELSE IF Closes(s, j) THEN [end |-> j, value |-> <<>>]
        ELSE IF Pair(s, j) THEN Prefixed(f[j + 2], s[j + 1])
          ELSE Prefixed(f[j + 1], s[j])
  <2>1. f[j] = IF j \in stop THEN val[j] ELSE step[j][f[jump[j]]]
    <3> HIDE DEF D, stop, val, step, jump
    <3> QED BY <1>5 DEF Recursive
  <2>2. CASE j > n
    BY <2>1, <2>2
  <2>3. CASE ~(j > n) /\ Closes(s, j)
    BY <2>1, <2>3
  <2>4. CASE ~(j > n) /\ ~Closes(s, j)
    <3>1. j \notin stop /\ jump[j] \in D
      BY <1>3, <2>4
    <3>2. f[jump[j]] \in StringsRead
      <4> HIDE DEF D, jump
      <4> QED BY <1>5, <3>1
    <3>3. f[j] = step[j][f[jump[j]]]
      BY <2>1, <3>1
    <3>4. f[j] = Prefixed(f[jump[j]], IF Pair(s, j) THEN s[j + 1] ELSE s[j])
      <4> DEFINE x == f[jump[j]]
      <4>1. x \in StringsRead /\ f[j] = step[j][x]
        BY <3>2, <3>3
      <4> HIDE DEF x
      <4>2. step[j][x] = Prefixed(x, IF Pair(s, j) THEN s[j + 1] ELSE s[j])
        BY <4>1
      <4>3. f[j] = Prefixed(x, IF Pair(s, j) THEN s[j + 1] ELSE s[j])
        BY <4>1, <4>2
      <4> QED BY <4>3 DEF x
    <3>5. jump[j] = IF Pair(s, j) THEN j + 2 ELSE j + 1
      OBVIOUS
    <3> HIDE DEF D, jump, stop, val, step
    <3> QED BY <2>4, <3>4, <3>5
  <2> QED BY <2>2, <2>3, <2>4
<1>7. Reading(s, f)
  <2>1. f = [j \in D |-> f[j]]
    BY <1>5
  <2>2. f = [j \in D |-> IF j > n THEN [end |-> n, value |-> <<"open">>]
        ELSE IF Closes(s, j) THEN [end |-> j, value |-> <<>>]
        ELSE IF Pair(s, j) THEN Prefixed(f[j + 2], s[j + 1])
          ELSE Prefixed(f[j + 1], s[j])]
    <3> HIDE DEF D
    <3> QED BY <1>6, <2>1
  <2> QED BY <2>2, Zenon DEF Reading, Closes, Pair, Prefixed, NextOf
<1> DEFINE g == CHOOSE h : Reading(s, h)
<1>8. Reading(s, g)
  BY <1>7
<1>9. \A k : ReadString(s, k) = g[k]
  BY Zenon DEF ReadString, Reading
<1> QED BY <1>8, <1>9

\* What is read from each position on.
LEMMA ReadingIs ==
  ASSUME NEW s, NEW f, Reading(s, f), NEW j \in 1 .. Len(s) + 2
  PROVE  /\ j > Len(s) => f[j] = [end |-> Len(s), value |-> <<"open">>]
         /\ ~(j > Len(s)) /\ Closes(s, j) => f[j] = [end |-> j, value |-> <<>>]
         /\ ~(j > Len(s)) /\ ~Closes(s, j) /\ Pair(s, j) => f[j] = Prefixed(f[j + 2], s[j + 1])
         /\ ~(j > Len(s)) /\ ~Closes(s, j) /\ ~Pair(s, j) => f[j] = Prefixed(f[j + 1], s[j])
<1>1. f = [k \in 1 .. Len(s) + 2 |->
        IF k > Len(s) THEN [end |-> Len(s), value |-> <<"open">>]
        ELSE IF Closes(s, k) THEN [end |-> k, value |-> <<>>]
        ELSE IF Pair(s, k) THEN Prefixed(f[k + 2], s[k + 1])
          ELSE Prefixed(f[k + 1], s[k])]
  BY Zenon DEF Reading, Closes, Pair, Prefixed, NextOf
<1>2. f[j] = IF j > Len(s) THEN [end |-> Len(s), value |-> <<"open">>]
             ELSE IF Closes(s, j) THEN [end |-> j, value |-> <<>>]
             ELSE IF Pair(s, j) THEN Prefixed(f[j + 2], s[j + 1])
             ELSE Prefixed(f[j + 1], s[j])
  BY <1>1
<1> QED BY <1>2

\* A string ends in the text, at a quote unless the text ends.
LEMMA ReadingEnds ==
  ASSUME NEW s \in Seq(SqlCharacters), NEW f, Reading(s, f), NEW i \in 1 .. Len(s) + 2
  PROVE  /\ f[i] \in StringsRead /\ f[i].end \in Nat /\ f[i].end <= Len(s)
         /\ i <= Len(s) => i <= f[i].end
         /\ f[i].end < Len(s) => s[f[i].end] = SqlQuote
<1> DEFINE n == Len(s)
           Good(j) == /\ f[j] \in StringsRead /\ f[j].end \in Nat /\ f[j].end <= n
                      /\ j <= n => j <= f[j].end
                      /\ f[j].end < n => s[f[j].end] = SqlQuote
           S == {j \in 1 .. n + 2 : Good(j)}
<1>1. n \in Nat /\ n + 2 \in Nat
  OBVIOUS
<1>2. ASSUME NEW h \in 1 .. n + 2, \A k \in h + 1 .. n + 2 : k \in S PROVE h \in S
  <2> SUFFICES Good(h)
    OBVIOUS
  <2>1. /\ h > n => f[h] = [end |-> n, value |-> <<"open">>]
        /\ ~(h > n) /\ Closes(s, h) => f[h] = [end |-> h, value |-> <<>>]
        /\ ~(h > n) /\ ~Closes(s, h) /\ Pair(s, h) => f[h] = Prefixed(f[h + 2], s[h + 1])
        /\ ~(h > n) /\ ~Closes(s, h) /\ ~Pair(s, h) => f[h] = Prefixed(f[h + 1], s[h])
    BY ReadingIs
  <2>2. <<"open">> \in StringValue /\ <<>> \in StringValue
    BY DEF StringValue
  <2>3. CASE h > n
    <3>1. f[h] = [end |-> n, value |-> <<"open">>]
      BY <2>1, <2>3
    <3>2. f[h] \in StringsRead /\ f[h].end = n
      BY <1>1, <2>2, <3>1 DEF StringsRead
    <3> QED BY <1>1, <2>3, <3>2
  <2>4. CASE ~(h > n) /\ Closes(s, h)
    <3>1. f[h] = [end |-> h, value |-> <<>>]
      BY <2>1, <2>4
    <3>2. f[h] \in StringsRead /\ f[h].end = h
      BY <1>1, <2>2, <3>1 DEF StringsRead
    <3> QED BY <1>1, <2>4, <3>2 DEF Closes
  <2>5. CASE ~(h > n) /\ ~Closes(s, h)
    <3>1. PICK q \in h + 1 .. n + 2, c \in SqlCharacters : f[h] = Prefixed(f[q], c)
      <4>1. CASE Pair(s, h)
        <5>1. h + 2 \in h + 1 .. n + 2 /\ s[h + 1] \in SqlCharacters
          BY <1>1, <2>5, <4>1 DEF Pair
        <5>2. f[h] = Prefixed(f[h + 2], s[h + 1])
          BY <1>1, <2>1, <2>5, <4>1
        <5> QED BY <5>1, <5>2
      <4>2. CASE ~Pair(s, h)
        <5>1. h + 1 \in h + 1 .. n + 2 /\ s[h] \in SqlCharacters
          BY <1>1, <2>5
        <5>2. f[h] = Prefixed(f[h + 1], s[h])
          BY <1>1, <2>1, <2>5, <4>2
        <5> QED BY <5>1, <5>2
      <4> QED BY <4>1, <4>2
    <3>2. Good(q)
      <4> HIDE DEF Good
      <4> QED BY <1>2, <3>1
    <3>3. f[h] \in StringsRead /\ f[h].end = f[q].end
      BY <3>1, <3>2, PrefixedIs, ZenonT(30)
    <3>4. q > n => f[q].end = n
      <4>1. q \in 1 .. n + 2
        BY <1>1, <3>1
      <4>2. q > n => f[q] = [end |-> n, value |-> <<"open">>]
        BY <4>1, ReadingIs
      <4> QED BY <4>2
    <3> DEFINE e == f[h].end
               z == f[q].end
    <3>5. /\ e = z /\ z \in Nat /\ z <= n /\ (q <= n => q <= z) /\ (q > n => z = n)
          /\ (z < n => s[z] = SqlQuote) /\ f[h] \in StringsRead
      BY <3>2, <3>3, <3>4
    <3> HIDE DEF e, z
    <3>6. e \in Nat /\ e <= n /\ h <= e /\ (e < n => s[e] = SqlQuote)
      BY <1>1, <2>5, <3>1, <3>5
    <3> QED BY <3>5, <3>6 DEF e
  <2> QED BY <2>3, <2>4, <2>5
<1>3. 1 .. n + 2 \subseteq S
  <2> HIDE DEF S
  <2> QED BY <1>1, <1>2, DownInduction
<1> QED BY <1>3

\* From i to e the text s is the text o, d further, and the texts end together
\* or not at all.
SameWindow(s, i, e, o, d) ==
  /\ e = Len(s) => Len(o) = Len(s) + d
  /\ \A k \in i .. e : /\ k + d <= Len(o) /\ o[k + d] = s[k]
                       /\ k < Len(s) <=> k + d < Len(o)
                       /\ k < Len(s) => o[k + 1 + d] = s[k + 1]

\* A string is read alike in two texts that are the same around it.
LEMMA SameReading ==
  ASSUME NEW s \in Seq(SqlCharacters), NEW o \in Seq(SqlCharacters),
         NEW f, Reading(s, f), NEW g, Reading(o, g),
         NEW i \in 1 .. Len(s) + 1, NEW d \in Int, i + d >= 1,
         NEW e, e = f[i].end, SameWindow(s, i, e, o, d)
  PROVE  g[i + d] = [end |-> e + d, value |-> f[i].value]
<1> DEFINE n == Len(s)
           m == Len(o)
           Good(k) == i <= k /\ f[k].end = e => g[k + d] = [end |-> e + d, value |-> f[k].value]
           S == {k \in 1 .. n + 2 : Good(k)}
<1>1. n \in Nat /\ m \in Nat /\ n + 2 \in Nat /\ i \in Nat /\ 1 <= i
  OBVIOUS
<1>2. e \in Nat /\ e <= n
  BY <1>1, ReadingEnds
<1>w. /\ e = n => m = n + d
      /\ \A k \in i .. e : /\ k + d <= m /\ o[k + d] = s[k]
                           /\ k < n <=> k + d < m
                           /\ k < n => o[k + 1 + d] = s[k + 1]
  BY DEF SameWindow
<1>3. ASSUME NEW h \in 1 .. n + 2, \A k \in h + 1 .. n + 2 : k \in S PROVE h \in S
  <2> SUFFICES ASSUME i <= h, f[h].end = e PROVE g[h + d] = [end |-> e + d, value |-> f[h].value]
    OBVIOUS
  <2>1. /\ h > n => f[h] = [end |-> n, value |-> <<"open">>]
        /\ ~(h > n) /\ Closes(s, h) => f[h] = [end |-> h, value |-> <<>>]
        /\ ~(h > n) /\ ~Closes(s, h) /\ Pair(s, h) => f[h] = Prefixed(f[h + 2], s[h + 1])
        /\ ~(h > n) /\ ~Closes(s, h) /\ ~Pair(s, h) => f[h] = Prefixed(f[h + 1], s[h])
    BY ReadingIs
  <2>2. CASE h > n
    <3>1. f[h] = [end |-> n, value |-> <<"open">>]
      BY <2>1, <2>2
    <3>2. e = n /\ m = n + d /\ f[h].value = <<"open">>
      BY <1>w, <3>1
    <3>3. h + d \in 1 .. m + 2 /\ h + d > m
      BY <1>1, <2>2, <3>2
    <3>4. g[h + d] = [end |-> m, value |-> <<"open">>]
      BY <3>3, ReadingIs
    <3> QED BY <3>2, <3>4
  <2>3. CASE ~(h > n)
    <3>1. h \in i .. e
      <4>1. h <= e
        BY <1>1, <2>3, ReadingEnds
      <4> QED BY <1>1, <1>2, <4>1
    <3>2. /\ h + d <= m /\ o[h + d] = s[h] /\ (h < n <=> h + d < m)
          /\ h < n => o[h + 1 + d] = s[h + 1]
      BY <1>w, <3>1
    <3>3. h + d \in 1 .. m + 2 /\ ~(h + d > m) /\ h + d + 1 = h + 1 + d /\ h + d + 2 = h + 2 + d
      BY <1>1, <3>1, <3>2
    <3>4. Closes(s, h) <=> Closes(o, h + d)
      BY <3>2, <3>3 DEF Closes, NextOf
    <3>5. Pair(s, h) <=> Pair(o, h + d)
      BY <3>2, <3>3 DEF Pair
    <3>6. /\ ~(h + d > m) /\ Closes(o, h + d) => g[h + d] = [end |-> h + d, value |-> <<>>]
          /\ ~(h + d > m) /\ ~Closes(o, h + d) /\ Pair(o, h + d) => g[h + d] = Prefixed(g[h + d + 2], o[h + d + 1])
          /\ ~(h + d > m) /\ ~Closes(o, h + d) /\ ~Pair(o, h + d) => g[h + d] = Prefixed(g[h + d + 1], o[h + d])
      BY <3>3, ReadingIs
    <3>7. CASE Closes(s, h)
      <4>1. f[h] = [end |-> h, value |-> <<>>] /\ g[h + d] = [end |-> h + d, value |-> <<>>]
        BY <2>1, <2>3, <3>3, <3>4, <3>6, <3>7
      <4>2. e = h /\ f[h].value = <<>>
        BY <4>1
      <4> QED BY <4>1, <4>2
    <3>8. CASE ~Closes(s, h)
      <4>1. PICK q \in h + 1 .. n + 2, c \in SqlCharacters : f[h] = Prefixed(f[q], c) /\ g[h + d] = Prefixed(g[q + d], c)
        <5>1. CASE Pair(s, h)
          <6>1. h + 2 \in h + 1 .. n + 2 /\ s[h + 1] \in SqlCharacters /\ h < n
            BY <1>1, <2>3, <5>1 DEF Pair
          <6>2. f[h] = Prefixed(f[h + 2], s[h + 1]) /\ g[h + d] = Prefixed(g[h + 2 + d], s[h + 1])
            BY <2>1, <2>3, <3>2, <3>3, <3>4, <3>5, <3>6, <3>8, <5>1, <6>1
          <6> QED BY <6>1, <6>2
        <5>2. CASE ~Pair(s, h)
          <6>1. h + 1 \in h + 1 .. n + 2 /\ s[h] \in SqlCharacters
            BY <1>1, <2>3
          <6>2. f[h] = Prefixed(f[h + 1], s[h]) /\ g[h + d] = Prefixed(g[h + 1 + d], s[h])
            BY <2>1, <2>3, <3>2, <3>3, <3>4, <3>5, <3>6, <3>8, <5>2
          <6> QED BY <6>1, <6>2
        <5> QED BY <5>1, <5>2
      <4>2. f[q] \in StringsRead
        <5>1. q \in 1 .. n + 2
          BY <1>1, <4>1
        <5> QED BY <5>1, ReadingEnds
      <4>3. f[h].end = f[q].end /\ f[h].value = <<c>> \o f[q].value
        BY <4>1, <4>2, PrefixedIs
      <4>4. g[q + d] = [end |-> e + d, value |-> f[q].value]
        <5>1. Good(q) /\ i <= q
          <6>1. q \in S
            BY <1>3, <4>1
          <6> HIDE DEF Good
          <6> QED BY <1>1, <4>1, <6>1
        <5> QED BY <4>3, <5>1
      <4>5. e + d \in Nat
        BY <1>1, <1>2, <3>1
      <4>6. g[q + d] \in StringsRead /\ g[q + d].end = e + d /\ g[q + d].value = f[q].value
        <5> DEFINE v == f[q].value
        <5>1. v \in StringValue
          BY <4>2 DEF StringsRead
        <5> HIDE DEF v
        <5>2. g[q + d] = [end |-> e + d, value |-> v]
          BY <4>4 DEF v
        <5>3. g[q + d] \in StringsRead /\ g[q + d].end = e + d /\ g[q + d].value = v
          BY <4>5, <5>1, <5>2 DEF StringsRead
        <5> QED BY <5>3 DEF v
      <4>7. g[h + d] = [end |-> g[q + d].end, value |-> <<c>> \o g[q + d].value]
        BY <4>1, <4>6, PrefixedIs
      <4> QED BY <4>3, <4>6, <4>7
    <3> QED BY <3>7, <3>8
  <2> QED BY <2>2, <2>3
<1>4. 1 .. n + 2 \subseteq S
  <2> HIDE DEF S
  <2> QED BY <1>1, <1>3, DownInduction
<1>5. Good(i)
  <2>1. i \in 1 .. n + 2
    BY <1>1
  <2> HIDE DEF Good
  <2> QED BY <1>4, <2>1
<1> QED BY <1>1, <1>5

\* A string ends in the text, at a quote unless the text ends.
LEMMA StringRead ==
  ASSUME NEW s \in Seq(SqlCharacters), NEW i \in 1 .. Len(s) + 1
  PROVE  /\ ReadString(s, i) \in [end : Nat, value : StringValue]
         /\ ReadString(s, i).end \in i - 1 .. Len(s)
         /\ ReadString(s, i).end < Len(s) =>
              ReadString(s, i).end >= i /\ s[ReadString(s, i).end] = SqlQuote
<1>1. PICK f : Reading(s, f) /\ \A k : ReadString(s, k) = f[k]
  BY ReadingExists
<1>2. i \in 1 .. Len(s) + 2 /\ Len(s) \in Nat
  OBVIOUS
<1> DEFINE r == f[i]
<1>3. /\ r \in StringsRead /\ r.end \in Nat /\ r.end <= Len(s)
      /\ i <= Len(s) => i <= r.end
      /\ r.end < Len(s) => s[r.end] = SqlQuote
  BY <1>1, <1>2, ReadingEnds
<1>4. i = Len(s) + 1 => r.end = Len(s)
  <2>1. i > Len(s) => r = [end |-> Len(s), value |-> <<"open">>]
    BY <1>1, <1>2, ReadingIs
  <2>2. i = Len(s) + 1 => i > Len(s)
    BY <1>2
  <2> QED BY <2>1, <2>2
<1>5. ReadString(s, i) = r
  BY <1>1
<1> HIDE DEF r
<1>6. r.end \in i - 1 .. Len(s) /\ (r.end < Len(s) => r.end >= i)
  BY <1>2, <1>3, <1>4
<1> QED BY <1>3, <1>5, <1>6 DEF StringsRead

\* A string is read alike in two texts that are the same around it.
LEMMA SameString ==
  ASSUME NEW s \in Seq(SqlCharacters), NEW o \in Seq(SqlCharacters),
         NEW i \in 1 .. Len(s) + 1, NEW d \in Int, i + d >= 1,
         NEW e, e = ReadString(s, i).end, SameWindow(s, i, e, o, d)
  PROVE  ReadString(o, i + d) = [end |-> e + d, value |-> ReadString(s, i).value]
<1>1. PICK f : Reading(s, f) /\ \A k : ReadString(s, k) = f[k]
  BY ReadingExists
<1>2. PICK g : Reading(o, g) /\ \A k : ReadString(o, k) = g[k]
  BY ReadingExists
<1>3. e = f[i].end
  BY <1>1
<1>4. g[i + d] = [end |-> e + d, value |-> f[i].value]
  BY <1>1, <1>2, <1>3, SameReading
<1> QED BY <1>1, <1>2, <1>4

(***************************************************************************)
(* Tokens, as the server reads them.                                       *)
(***************************************************************************)
\* The tokens.
SqlTokens == {"string", "symbol"} \X StringValue

\* The token at position i,
TokenAt(s, i) ==
  IF s[i] = SqlQuote THEN <<"string", ReadString(s, i + 1).value>> ELSE <<"symbol", <<s[i]>> >>

\* and where it ends.
TokenEnd(s, i) == IF s[i] = SqlQuote THEN ReadString(s, i + 1).end ELSE i

\* Every token ends in the text.
LEMMA TokenAtType ==
  ASSUME NEW s \in Seq(SqlCharacters), NEW i \in 1 .. Len(s)
  PROVE  TokenAt(s, i) \in SqlTokens /\ TokenEnd(s, i) \in i .. Len(s)
<1>1. Len(s) \in Nat /\ i \in Nat /\ i + 1 \in 1 .. Len(s) + 1 /\ s[i] \in SqlCharacters
  OBVIOUS
<1>2. CASE s[i] = SqlQuote
  <2> DEFINE r == ReadString(s, i + 1)
  <2>1. r \in [end : Nat, value : StringValue] /\ r.end \in i + 1 - 1 .. Len(s)
    BY <1>1, StringRead
  <2>2. TokenAt(s, i) = <<"string", r.value>> /\ TokenEnd(s, i) = r.end
    BY <1>2, Zenon DEF TokenAt, TokenEnd
  <2> HIDE DEF r
  <2>3. r.value \in StringValue /\ i + 1 - 1 = i
    BY <1>1, <2>1
  <2> QED BY <2>1, <2>2, <2>3 DEF SqlTokens
<1>3. CASE s[i] # SqlQuote
  <2>1. TokenAt(s, i) = <<"symbol", <<s[i]>> >> /\ TokenEnd(s, i) = i
    BY <1>3, Zenon DEF TokenAt, TokenEnd
  <2>2. <<s[i]>> \in StringValue
    BY <1>1 DEF StringValue
  <2> QED BY <1>1, <2>1, <2>2 DEF SqlTokens
<1> QED BY <1>2, <1>3

\* f is From of Tokens.
Lexing(s, f) ==
  f = [i \in 1 .. Len(s) + 1 |->
        IF i > Len(s) THEN <<>>
        ELSE IF s[i] = SqlQuote
          THEN << <<"string", ReadString(s, i + 1).value>> >> \o f[ReadString(s, i + 1).end + 1]
          ELSE << <<"symbol", <<s[i]>> >> >> \o f[i + 1]]

\* The same with the token and its end.
LEMMA LexingStep ==
  ASSUME NEW s, NEW f, NEW i
  PROVE  (IF s[i] = SqlQuote
            THEN << <<"string", ReadString(s, i + 1).value>> >> \o f[ReadString(s, i + 1).end + 1]
            ELSE << <<"symbol", <<s[i]>> >> >> \o f[i + 1])
          = <<TokenAt(s, i)>> \o f[TokenEnd(s, i) + 1]
<1>1. CASE s[i] = SqlQuote
  BY <1>1, Zenon DEF TokenAt, TokenEnd
<1>2. CASE s[i] # SqlQuote
  BY <1>2, Zenon DEF TokenAt, TokenEnd
<1> QED BY <1>1, <1>2

\* From is a function that satisfies its equation.
LEMMA LexingExists ==
  ASSUME NEW s \in Seq(SqlCharacters)
  PROVE  \E f : Lexing(s, f) /\ Tokens(s) = f[1]
<1> DEFINE n == Len(s)
           D == 1 .. n + 1
           V == Seq(SqlTokens)
           stop == {h \in D : h > n}
           val == [h \in D |-> <<>>]
           step == [h \in D |-> [x \in V |-> <<TokenAt(s, h)>> \o x]]
           jump == [h \in D |-> TokenEnd(s, h) + 1]
           rank == [h \in D |-> n + 1 - h]
<1>1. n \in Nat /\ n + 1 \in Nat
  OBVIOUS
<1>2. \A h \in D : rank[h] \in Nat /\ rank[h] < n + 1
  BY <1>1
<1>3. ASSUME NEW h \in D
      PROVE  IF h \in stop THEN val[h] \in V
             ELSE jump[h] \in D /\ rank[jump[h]] < rank[h] /\ step[h] \in [V -> V]
  <2>1. CASE h \in stop
    <3>1. val[h] \in V
      OBVIOUS
    <3> QED BY <2>1, <3>1
  <2>2. CASE h \notin stop
    <3>1. h \in 1 .. n /\ h <= n
      BY <1>1, <2>2
    <3>2. TokenAt(s, h) \in SqlTokens /\ TokenEnd(s, h) \in h .. n
      BY <3>1, TokenAtType
    <3>3. jump[h] \in D /\ rank[jump[h]] < rank[h]
      <4> DEFINE e == TokenEnd(s, h)
      <4>1. e \in h .. n /\ jump[h] = e + 1
        BY <3>2
      <4> HIDE DEF e, jump
      <4>2. e + 1 \in D /\ n + 1 - (e + 1) < n + 1 - h
        BY <1>1, <3>1, <4>1
      <4> QED BY <4>1, <4>2
    <3>4. ASSUME NEW x \in V PROVE <<TokenAt(s, h)>> \o x \in V
      BY <3>2
    <3>5. step[h] \in [V -> V]
      <4> HIDE DEF V
      <4> QED BY <3>4
    <3> HIDE DEF stop, jump, rank, step, V, D
    <3> QED BY <2>2, <3>3, <3>5
  <2> QED BY <2>1, <2>2
<1>4. \E f \in [D -> V] : Recursive(D, stop, val, step, jump, f)
  <2> HIDE DEF D, V, stop, val, step, jump, rank
  <2>1. \A h \in D : IF h \in stop THEN val[h] \in V
             ELSE jump[h] \in D /\ rank[jump[h]] < rank[h] /\ step[h] \in [V -> V]
    BY <1>3
  <2> QED BY <1>1, <1>2, <2>1, RecursionExists
<1>5. PICK f \in [D -> V] : Recursive(D, stop, val, step, jump, f)
  BY <1>4
<1>6. ASSUME NEW j \in D
      PROVE  f[j] = IF j > n THEN <<>> ELSE <<TokenAt(s, j)>> \o f[TokenEnd(s, j) + 1]
  <2>1. f[j] = IF j \in stop THEN val[j] ELSE step[j][f[jump[j]]]
    <3> HIDE DEF D, stop, val, step, jump
    <3> QED BY <1>5 DEF Recursive
  <2>2. CASE j > n
    BY <2>1, <2>2
  <2>3. CASE ~(j > n)
    <3>1. j \notin stop /\ jump[j] \in D
      BY <1>3, <2>3
    <3> DEFINE x == f[jump[j]]
    <3>2. x \in V
      <4> HIDE DEF D, jump, V
      <4> QED BY <1>5, <3>1
    <3>3. f[j] = step[j][x] /\ x = f[TokenEnd(s, j) + 1]
      BY <2>1, <3>1
    <3> HIDE DEF x, V
    <3>4. step[j][x] = <<TokenAt(s, j)>> \o x
      BY <3>2
    <3> HIDE DEF step
    <3> QED BY <2>3, <3>3, <3>4
  <2> QED BY <2>2, <2>3
<1>7. Lexing(s, f)
  <2>1. f = [j \in D |-> f[j]]
    BY <1>5
  <2>2. ASSUME NEW j \in D
        PROVE  f[j] = IF j > n THEN <<>>
                      ELSE IF s[j] = SqlQuote
                        THEN << <<"string", ReadString(s, j + 1).value>> >> \o f[ReadString(s, j + 1).end + 1]
                        ELSE << <<"symbol", <<s[j]>> >> >> \o f[j + 1]
    <3> DEFINE a == IF s[j] = SqlQuote
                      THEN << <<"string", ReadString(s, j + 1).value>> >> \o f[ReadString(s, j + 1).end + 1]
                      ELSE << <<"symbol", <<s[j]>> >> >> \o f[j + 1]
    <3>1. a = <<TokenAt(s, j)>> \o f[TokenEnd(s, j) + 1]
      BY LexingStep, Zenon
    <3> HIDE DEF D, n, a
    <3>2. f[j] = IF j > n THEN <<>> ELSE a
      BY <1>6, <3>1
    <3> QED BY <3>2, Zenon DEF a
  <2>3. f = [i \in D |->
        IF i > n THEN <<>>
        ELSE IF s[i] = SqlQuote
          THEN << <<"string", ReadString(s, i + 1).value>> >> \o f[ReadString(s, i + 1).end + 1]
          ELSE << <<"symbol", <<s[i]>> >> >> \o f[i + 1]]
    <3> HIDE DEF D, n
    <3> QED BY <2>1, <2>2
  <2> QED BY <2>3, Zenon DEF Lexing
<1> DEFINE g == CHOOSE h : Lexing(s, h)
<1>8. Lexing(s, g)
  BY <1>7
<1>9. Tokens(s) = g[1]
  BY Zenon DEF Tokens, Lexing
<1> QED BY <1>8, <1>9

\* The tokens from each position on.
LEMMA LexingIs ==
  ASSUME NEW s \in Seq(SqlCharacters), NEW f, Lexing(s, f), NEW i \in 1 .. Len(s) + 1
  PROVE  /\ i = Len(s) + 1 => f[i] = <<>>
         /\ i <= Len(s) => f[i] = <<TokenAt(s, i)>> \o f[TokenEnd(s, i) + 1]
<1>1. f[i] = IF i > Len(s) THEN <<>>
        ELSE IF s[i] = SqlQuote
          THEN << <<"string", ReadString(s, i + 1).value>> >> \o f[ReadString(s, i + 1).end + 1]
          ELSE << <<"symbol", <<s[i]>> >> >> \o f[i + 1]
  BY Zenon DEF Lexing
<1>2. f[i] = IF i > Len(s) THEN <<>> ELSE <<TokenAt(s, i)>> \o f[TokenEnd(s, i) + 1]
  BY <1>1, LexingStep, Zenon
<1>3. /\ i = Len(s) + 1 => i > Len(s)
      /\ i <= Len(s) => ~(i > Len(s))
  OBVIOUS
<1> QED BY <1>2, <1>3

\* The text s ends with the text t, from d on.
EndsWith(s, t, d) == Len(s) = Len(t) + d /\ \A k \in 1 .. Len(t) : s[k + d] = t[k]

\* A text and the texts it ends with have the same tokens.
LEMMA LexingOfPart ==
  ASSUME NEW s \in Seq(SqlCharacters), NEW t \in Seq(SqlCharacters), NEW d \in Nat, EndsWith(s, t, d),
         NEW f, Lexing(s, f), NEW g, Lexing(t, g), NEW i \in 1 .. Len(t) + 1
  PROVE  g[i] = f[i + d]
<1> DEFINE n == Len(t)
           S == {k \in 1 .. n + 1 : g[k] = f[k + d]}
<1>1. n \in Nat /\ n + 1 \in Nat /\ Len(s) = n + d /\ \A k \in 1 .. n : s[k + d] = t[k]
  BY DEF EndsWith
<1>2. ASSUME NEW h \in 1 .. n + 1, \A k \in h + 1 .. n + 1 : k \in S PROVE h \in S
  <2> SUFFICES g[h] = f[h + d]
    OBVIOUS
  <2>1. h + d \in 1 .. Len(s) + 1
    BY <1>1
  <2>2. CASE h = n + 1
    <3>1. h + d = Len(s) + 1
      BY <1>1, <2>2
    <3>2. g[h] = <<>>
      BY <2>2, LexingIs
    <3>3. f[h + d] = <<>>
      BY <2>1, <3>1, LexingIs
    <3> QED BY <3>2, <3>3
  <2>3. CASE h # n + 1
    <3>1. h \in 1 .. n /\ h + d \in 1 .. Len(s) /\ h <= n /\ h + d <= Len(s) /\ h \in Nat
      BY <1>1, <2>3
    <3>2. TokenAt(t, h) = TokenAt(s, h + d) /\ TokenEnd(s, h + d) = TokenEnd(t, h) + d
      <4>1. s[h + d] = t[h]
        BY <1>1, <3>1
      <4>2. CASE t[h] = SqlQuote
        <5> DEFINE e == ReadString(t, h + 1).end
        <5>1. e \in h + 1 - 1 .. n /\ h + 1 \in 1 .. n + 1
          BY <3>1, StringRead
        <5>2. SameWindow(t, h + 1, e, s, d)
          <6>1. e \in Nat
            BY <5>1
          <6> HIDE DEF e
          <6>2. e = n => Len(s) = n + d
            BY <1>1
          <6>3. ASSUME NEW k \in h + 1 .. e
                PROVE  /\ k + d <= Len(s) /\ s[k + d] = t[k]
                       /\ k < n <=> k + d < Len(s)
                       /\ k < n => s[k + 1 + d] = t[k + 1]
            <7>1. k \in 1 .. n /\ (k < n => k + 1 \in 1 .. n)
              BY <1>1, <3>1, <5>1, <6>1
            <7> QED BY <1>1, <7>1
          <6> QED BY <6>2, <6>3 DEF SameWindow
        <5>3. ReadString(s, h + 1 + d) = [end |-> e + d, value |-> ReadString(t, h + 1).value]
          <6>1. d \in Int /\ h + 1 + d >= 1
            BY <3>1
          <6> QED BY <5>1, <5>2, <6>1, SameString, SMTT(30)
        <5>4. h + 1 + d = h + d + 1
          BY <3>1
        <5>5. ReadString(s, h + d + 1).end = e + d /\ ReadString(s, h + d + 1).value = ReadString(t, h + 1).value
          BY <5>3, <5>4
        <5> QED BY <4>1, <4>2, <5>5, Zenon DEF TokenAt, TokenEnd
      <4>3. CASE t[h] # SqlQuote
        BY <4>1, <4>3, Zenon DEF TokenAt, TokenEnd
      <4> QED BY <4>2, <4>3
    <3> DEFINE q == TokenEnd(t, h) + 1
    <3>3. q \in h + 1 .. n + 1 /\ TokenEnd(s, h + d) + 1 = q + d
      <4> DEFINE e == TokenEnd(t, h)
      <4>1. e \in h .. n
        BY <3>1, TokenAtType
      <4>2. TokenEnd(s, h + d) = e + d /\ q = e + 1
        BY <3>2
      <4> HIDE DEF e, q
      <4> QED BY <1>1, <3>1, <4>1, <4>2
    <3>4. g[q] = f[q + d]
      <4> HIDE DEF q
      <4> QED BY <1>2, <3>3
    <3>5. g[h] = <<TokenAt(t, h)>> \o g[q]
      BY <3>1, LexingIs
    <3>6. f[h + d] = <<TokenAt(s, h + d)>> \o f[TokenEnd(s, h + d) + 1]
      BY <2>1, <3>1, LexingIs
    <3> HIDE DEF q
    <3> QED BY <3>2, <3>3, <3>4, <3>5, <3>6
  <2> QED BY <2>2, <2>3
<1>3. 1 .. n + 1 \subseteq S
  <2> HIDE DEF S
  <2> QED BY <1>1, <1>2, DownInduction
<1> QED BY <1>3

\* The tokens of a text are its first one and those of the rest.
LEMMA TokensAre ==
  ASSUME NEW s \in Seq(SqlCharacters)
  PROVE  /\ s = <<>> => Tokens(s) = <<>>
         /\ s # <<>> => Tokens(s) = <<TokenAt(s, 1)>> \o Tokens(SubSeq(s, TokenEnd(s, 1) + 1, Len(s)))
<1>1. PICK f : Lexing(s, f) /\ Tokens(s) = f[1]
  BY LexingExists
<1>2. ASSUME s = <<>> PROVE Tokens(s) = <<>>
  <2>1. 1 \in 1 .. Len(s) + 1 /\ 1 = Len(s) + 1
    BY <1>2
  <2> QED BY <1>1, <2>1, LexingIs
<1>3. ASSUME s # <<>> PROVE Tokens(s) = <<TokenAt(s, 1)>> \o Tokens(SubSeq(s, TokenEnd(s, 1) + 1, Len(s)))
  <2> DEFINE d == TokenEnd(s, 1)
             t == SubSeq(s, d + 1, Len(s))
  <2>1. 1 \in 1 .. Len(s) /\ 1 \in 1 .. Len(s) + 1 /\ 1 <= Len(s) /\ Len(s) \in Nat
    BY <1>3
  <2>2. d \in 1 .. Len(s) /\ d \in Nat
    <3>1. d \in 1 .. Len(s)
      BY <2>1, TokenAtType
    <3> HIDE DEF d
    <3> QED BY <3>1
  <2>3. f[1] = <<TokenAt(s, 1)>> \o f[d + 1]
    BY <1>1, <2>1, LexingIs
  <2> HIDE DEF d
  <2>4. t \in Seq(SqlCharacters) /\ EndsWith(s, t, d)
    <3>1. t \in Seq(SqlCharacters) /\ Len(t) = Len(s) - d /\ \A k \in 1 .. Len(s) - d : t[k] = s[k + d]
      BY <2>1, <2>2
    <3> HIDE DEF t
    <3>2. Len(s) = Len(t) + d
      BY <2>1, <2>2, <3>1
    <3> QED BY <3>1, <3>2 DEF EndsWith
  <2> HIDE DEF t
  <2>5. PICK g : Lexing(t, g) /\ Tokens(t) = g[1]
    BY <2>4, LexingExists
  <2>6. g[1] = f[1 + d]
    <3>1. 1 \in 1 .. Len(t) + 1
      BY <2>4
    <3> QED BY <1>1, <2>2, <2>4, <2>5, <3>1, LexingOfPart
  <2>7. 1 + d = d + 1
    BY <2>2
  <2>8. Tokens(s) = <<TokenAt(s, 1)>> \o Tokens(t)
    BY <1>1, <2>3, <2>5, <2>6, <2>7
  <2> QED BY <2>8 DEF t, d
<1> QED BY <1>2, <1>3

(***************************************************************************)
(* The tokens of parameters.                                               *)
(***************************************************************************)
\* Where the characters of v are in its escaped text: character k behind L[k - 1].
EscapedLayout(v, L) ==
  /\ L \in [0 .. Len(v) -> Nat] /\ L[0] = 0 /\ L[Len(v)] = Len(Escaped(v))
  /\ \A k \in 1 .. Len(v) :
       /\ L[k] <= Len(Escaped(v))
       /\ v[k] \in {SqlQuote, Escape} =>
            /\ L[k] = L[k - 1] + 2
            /\ Escaped(v)[L[k - 1] + 1] = Escape /\ Escaped(v)[L[k - 1] + 2] = v[k]
       /\ v[k] \notin {SqlQuote, Escape} =>
            L[k] = L[k - 1] + 1 /\ Escaped(v)[L[k - 1] + 1] = v[k]

\* Every character has its place.
LEMMA EscapedLayoutExists ==
  ASSUME NEW v \in Seq(SqlCharacters)
  PROVE  \E L : EscapedLayout(v, L)
<1> DEFINE E == [i \in DOMAIN v |-> IF v[i] \in {SqlQuote, Escape} THEN <<Escape, v[i]>> ELSE <<v[i]>>]
<1>1. Escape \in SqlCharacters /\ DOMAIN v = 1 .. Len(v) /\ Len(v) \in Nat
  BY SqlCharactersAssumption
<1>2. E \in Seq(Seq(SqlCharacters)) /\ Len(E) = Len(v)
  <2>1. \A i \in DOMAIN v : v[i] \in SqlCharacters
    OBVIOUS
  <2>2. \A i \in DOMAIN v : <<Escape, v[i]>> \in Seq(SqlCharacters) /\ <<v[i]>> \in Seq(SqlCharacters)
    BY <1>1, <2>1
  <2>3. E \in [1 .. Len(v) -> Seq(SqlCharacters)] /\ Len(v) \in Nat
    BY <2>2
  <2> HIDE DEF E
  <2> QED BY <2>3
<1>3. Escaped(v) = FlattenSeq(E)
  BY DEF Escaped
<1>4. \A k \in 1 .. Len(v) : /\ v[k] \in {SqlQuote, Escape} => E[k] = <<Escape, v[k]>>
                             /\ v[k] \notin {SqlQuote, Escape} => E[k] = <<v[k]>>
  BY <1>1
<1> HIDE DEF E
<1>5. PICK L : FlatLayout(E, L)
  BY <1>2, FlatLayoutExists
<1> DEFINE x == Escaped(v)
<1>6. /\ L \in [0 .. Len(v) -> Nat] /\ L[0] = 0 /\ L[Len(v)] = Len(x)
      /\ \A k \in 1 .. Len(v) :
           /\ L[k] = L[k - 1] + Len(E[k]) /\ L[k] <= Len(x)
           /\ \A j \in 1 .. Len(E[k]) : x[L[k - 1] + j] = E[k][j]
  BY <1>2, <1>3, <1>5 DEF FlatLayout
<1> HIDE DEF x
<1>7. ASSUME NEW k \in 1 .. Len(v)
      PROVE  /\ L[k] <= Len(x)
             /\ v[k] \in {SqlQuote, Escape} =>
                  /\ L[k] = L[k - 1] + 2 /\ x[L[k - 1] + 1] = Escape /\ x[L[k - 1] + 2] = v[k]
             /\ v[k] \notin {SqlQuote, Escape} => L[k] = L[k - 1] + 1 /\ x[L[k - 1] + 1] = v[k]
  <2>1. CASE v[k] \in {SqlQuote, Escape}
    <3>1. E[k] = <<Escape, v[k]>>
      BY <1>4, <2>1
    <3>2. Len(E[k]) = 2 /\ E[k][1] = Escape /\ E[k][2] = v[k]
      BY <3>1
    <3>3. 1 \in 1 .. 2 /\ 2 \in 1 .. 2
      OBVIOUS
    <3> QED BY <1>6, <2>1, <3>2, <3>3
  <2>2. CASE v[k] \notin {SqlQuote, Escape}
    <3>1. E[k] = <<v[k]>>
      BY <1>4, <2>2
    <3>2. Len(E[k]) = 1 /\ E[k][1] = v[k]
      BY <3>1
    <3>3. 1 \in 1 .. 1
      OBVIOUS
    <3> QED BY <1>6, <2>2, <3>2, <3>3
  <2> QED BY <2>1, <2>2
<1>8. EscapedLayout(v, L)
  BY <1>6, <1>7 DEF EscapedLayout, x
<1> QED BY <1>8

\* The text o, of characters of C, is a with t behind it.
InARow(C, a, t, o) ==
  /\ o \in Seq(C) /\ Len(o) = Len(a) + Len(t)
  /\ \A k \in 1 .. Len(a) : o[k] = a[k]
  /\ \A k \in 1 .. Len(t) : o[Len(a) + k] = t[k]
  /\ t # <<>> => Len(t) >= 1 /\ o[Len(a) + 1] = t[1]
  /\ SubSeq(o, Len(a) + 1, Len(o)) = t

\* Two texts in a row are that.
LEMMA TwoTexts ==
  ASSUME NEW C, NEW a \in Seq(C), NEW t \in Seq(C)
  PROVE  InARow(C, a, t, a \o t)
<1> DEFINE o == a \o t
           r == SubSeq(o, Len(a) + 1, Len(o))
<1>1. /\ o \in Seq(C) /\ Len(o) = Len(a) + Len(t)
      /\ \A k \in 1 .. Len(a) : o[k] = a[k]
      /\ \A k \in 1 .. Len(t) : o[Len(a) + k] = t[k]
      /\ Len(a) \in Nat /\ Len(t) \in Nat
  OBVIOUS
<1> HIDE DEF o
<1>2. t # <<>> => Len(t) >= 1 /\ o[Len(a) + 1] = t[1]
  <2>1. t # <<>> => 1 \in 1 .. Len(t)
    OBVIOUS
  <2> QED BY <1>1, <2>1
<1>3. r \in Seq(C) /\ Len(r) = Len(t) /\ \A k \in 1 .. Len(t) : r[k] = o[Len(a) + k]
  BY <1>1
<1> HIDE DEF r
<1>4. r = t
  <2>1. \A k \in 1 .. Len(t) : r[k] = t[k]
    BY <1>1, <1>3
  <2> QED BY <1>3, <2>1, SeqEqual
<1> QED BY <1>1, <1>2, <1>4 DEF InARow, o, r

\* A text that is escaped and followed by a quote, and that by none, is read as
\* it was.
LEMMA EscapedRead ==
  ASSUME NEW v \in Seq(SqlCharacters), NEW o \in Seq(SqlCharacters),
         Len(Escaped(v)) + 2 <= Len(o),
         \A k \in 1 .. Len(Escaped(v)) : o[k + 1] = Escaped(v)[k],
         o[Len(Escaped(v)) + 2] = SqlQuote,
         Len(Escaped(v)) + 2 < Len(o) => o[Len(Escaped(v)) + 3] # SqlQuote
  PROVE  ReadString(o, 2) = [end |-> Len(Escaped(v)) + 2, value |-> v]
<1> DEFINE x == Escaped(v)
           m == Len(x)
           n == Len(v)
           w(k) == SubSeq(v, k, n)
<1>1. x \in Seq(SqlCharacters) /\ m \in Nat /\ n \in Nat /\ n + 1 \in Nat /\ Len(o) \in Nat
  <2>1. x \in Seq(SqlCharacters)
    BY EscapedType
  <2> HIDE DEF x
  <2> QED BY <2>1
<1>2. PICK L : EscapedLayout(v, L)
  BY EscapedLayoutExists
<1>3. /\ L \in [0 .. n -> Nat] /\ L[0] = 0 /\ L[n] = m
      /\ \A k \in 1 .. n :
           /\ L[k] <= m
           /\ v[k] \in {SqlQuote, Escape} =>
                L[k] = L[k - 1] + 2 /\ x[L[k - 1] + 1] = Escape /\ x[L[k - 1] + 2] = v[k]
           /\ v[k] \notin {SqlQuote, Escape} => L[k] = L[k - 1] + 1 /\ x[L[k - 1] + 1] = v[k]
  BY <1>2 DEF EscapedLayout
<1>4. PICK f : Reading(o, f) /\ \A k : ReadString(o, k) = f[k]
  BY ReadingExists
<1>5. /\ m + 2 <= Len(o) /\ \A k \in 1 .. m : o[k + 1] = x[k]
      /\ o[m + 2] = SqlQuote /\ (m + 2 < Len(o) => o[m + 3] # SqlQuote)
  OBVIOUS
<1> HIDE DEF x, m
<1> DEFINE S == {k \in 1 .. n + 1 : f[L[k - 1] + 2] = [end |-> m + 2, value |-> w(k)]}
<1>6. \A k \in 1 .. n + 1 : w(k) \in Seq(SqlCharacters) /\ w(k) \in StringValue
  <2>1. \A k \in 1 .. n + 1 : w(k) \in Seq(SqlCharacters)
    BY <1>1
  <2>2. Seq(SqlCharacters) \subseteq StringValue
    BY DEF StringValue
  <2> QED BY <2>1, <2>2
<1>7. ASSUME NEW h \in 1 .. n + 1, \A k \in h + 1 .. n + 1 : k \in S PROVE h \in S
  <2> DEFINE p == L[h - 1] + 2
  <2> HIDE DEF S, w
  <2>0. h - 1 \in 0 .. n
    BY <1>1
  <2>1. h - 1 \in 0 .. n /\ L[h - 1] \in Nat /\ p \in Nat
    <3> DEFINE l == L[h - 1]
    <3>1. l \in Nat
      <4>1. L \in [0 .. n -> Nat]
        BY <1>3
      <4> QED BY <2>0, <4>1
    <3> HIDE DEF l
    <3>2. l + 2 \in Nat
      BY <3>1
    <3> QED BY <2>0, <3>1, <3>2 DEF l
  <2>2. CASE h = n + 1
    <3>1. p = m + 2 /\ p \in 1 .. Len(o) + 2 /\ ~(p > Len(o))
      BY <1>1, <1>3, <1>5, <2>2
    <3>2. Closes(o, p)
      <4>1. CASE p < Len(o)
        <5>1. p + 1 = m + 3
          BY <1>1, <3>1
        <5> QED BY <1>5, <3>1, <4>1, <5>1 DEF Closes, NextOf
      <4>2. CASE ~(p < Len(o))
        BY <1>5, <3>1, <4>2, SqlCharactersDiffer DEF Closes, NextOf
      <4> QED BY <4>1, <4>2
    <3>3. f[p] = [end |-> p, value |-> <<>>]
      BY <1>4, <3>1, <3>2, ReadingIs, ZenonT(30)
    <3>4. w(h) = <<>>
      BY <1>1, <2>2 DEF w
    <3> QED BY <3>1, <3>3, <3>4 DEF S
  <2>3. CASE h # n + 1
    <3>1. h \in 1 .. n /\ h \in 0 .. n /\ L[h] \in Nat /\ L[h] <= m /\ h + 1 \in h + 1 .. n + 1 /\ h + 1 - 1 = h
      <4>1. h \in 1 .. n /\ h \in 0 .. n /\ h + 1 \in h + 1 .. n + 1 /\ h + 1 - 1 = h
        BY <1>1, <2>3
      <4> QED BY <1>3, <4>1
    <3>2. f[L[h] + 2] = [end |-> m + 2, value |-> w(h + 1)]
      <4>1. h + 1 \in S
        BY <1>7, <3>1
      <4> QED BY <3>1, <4>1 DEF S
    <3>3. v[h] \in SqlCharacters /\ w(h) = <<v[h]>> \o w(h + 1) /\ w(h + 1) \in StringValue
      <4>1. h + 1 \in 1 .. n + 1
        BY <1>1, <3>1
      <4>2. SubSeq(v, h, n) = <<v[h]>> \o SubSeq(v, h + 1, n)
        BY <3>1, RestOf
      <4>3. w(h) = <<v[h]>> \o w(h + 1)
        BY <4>2 DEF w
      <4>4. v[h] \in SqlCharacters
        BY <3>1
      <4> QED BY <1>6, <4>1, <4>3, <4>4
    <3>4. f[p] = Prefixed(f[L[h] + 2], v[h])
      <4>1. CASE v[h] \in {SqlQuote, Escape}
        <5>1. L[h] = L[h - 1] + 2 /\ x[L[h - 1] + 1] = Escape /\ x[L[h - 1] + 2] = v[h]
          BY <1>3, <3>1, <4>1
        <5>2. L[h - 1] + 1 \in 1 .. m /\ L[h - 1] + 2 \in 1 .. m
          BY <1>1, <2>1, <3>1, <5>1, SMTT(30)
        <5>3. /\ L[h - 1] + 1 + 1 = p /\ L[h - 1] + 2 + 1 = p + 1 /\ p + 2 = L[h] + 2
          BY <2>1, <5>1
        <5>4. o[p] = Escape /\ o[p + 1] = v[h]
          BY <1>5, <5>1, <5>2, <5>3
        <5>5. p \in 1 .. Len(o) + 2 /\ ~(p > Len(o)) /\ p < Len(o)
          <6> DEFINE l == L[h - 1]
                     z == Len(o)
          <6>1. l \in Nat /\ l + 2 \in 1 .. m /\ m + 2 <= z /\ z \in Nat /\ p = l + 2
            BY <1>1, <1>5, <2>1, <5>2
          <6> HIDE DEF l, z, p
          <6>2. p \in 1 .. z + 2 /\ ~(p > z) /\ p < z
            BY <1>1, <6>1
          <6> QED BY <6>2 DEF z
        <5>6. ~Closes(o, p) /\ Pair(o, p)
          BY <5>4, <5>5, SqlCharactersDiffer DEF Closes, Pair
        <5> HIDE DEF p
        <5>7. f[p] = Prefixed(f[p + 2], o[p + 1])
          <6>1. Reading(o, f) /\ p \in 1 .. Len(o) + 2
            BY <1>4, <5>5
          <6>2. ~(p > Len(o)) /\ ~Closes(o, p) /\ Pair(o, p) => f[p] = Prefixed(f[p + 2], o[p + 1])
            BY <6>1, ReadingIs
          <6> QED BY <5>5, <5>6, <6>2
        <5> QED BY <5>3, <5>4, <5>7
      <4>2. CASE v[h] \notin {SqlQuote, Escape}
        <5>1. L[h] = L[h - 1] + 1 /\ x[L[h - 1] + 1] = v[h]
          BY <1>3, <3>1, <4>2
        <5>2. L[h - 1] + 1 \in 1 .. m
          BY <1>1, <2>1, <3>1, <5>1
        <5>3. L[h - 1] + 1 + 1 = p /\ p + 1 = L[h] + 2
          BY <2>1, <5>1
        <5>4. o[p] = v[h]
          BY <1>5, <5>1, <5>2, <5>3
        <5>5. p \in 1 .. Len(o) + 2 /\ ~(p > Len(o))
          BY <1>1, <1>5, <2>1, <5>2, SMTT(30)
        <5>6. ~Closes(o, p) /\ ~Pair(o, p)
          BY <4>2, <5>4 DEF Closes, Pair
        <5> HIDE DEF p
        <5>7. f[p] = Prefixed(f[p + 1], o[p])
          <6>1. Reading(o, f) /\ p \in 1 .. Len(o) + 2
            BY <1>4, <5>5
          <6>2. ~(p > Len(o)) /\ ~Closes(o, p) /\ ~Pair(o, p) => f[p] = Prefixed(f[p + 1], o[p])
            BY <6>1, ReadingIs
          <6> QED BY <5>5, <5>6, <6>2
        <5> QED BY <5>3, <5>4, <5>7
      <4> QED BY <4>1, <4>2
    <3> DEFINE y == w(h + 1)
               r == f[L[h] + 2]
    <3>5. y \in StringValue /\ r = [end |-> m + 2, value |-> y] /\ w(h) = <<v[h]>> \o y
      BY <3>2, <3>3
    <3>6. f[p] = Prefixed(r, v[h])
      BY <3>4
    <3> HIDE DEF y, r, p
    <3>7. r \in StringsRead /\ r.end = m + 2 /\ r.value = y
      BY <1>1, <3>5 DEF StringsRead
    <3>8. f[p] = [end |-> m + 2, value |-> w(h)]
      <4>1. Prefixed(r, v[h]) = [end |-> r.end, value |-> <<v[h]>> \o r.value]
        BY <3>3, <3>7, PrefixedIs
      <4> QED BY <3>5, <3>6, <3>7, <4>1
    <3> QED BY <3>8 DEF p, S
  <2> QED BY <2>2, <2>3
<1>8. 1 .. n + 1 \subseteq S
  <2> HIDE DEF S
  <2> QED BY <1>1, <1>7, DownInduction
<1>9. f[2] = [end |-> m + 2, value |-> w(1)]
  <2>1. 1 \in 1 .. n + 1 /\ 1 - 1 = 0 /\ L[0] + 2 = 2
    BY <1>1, <1>3
  <2>2. f[L[1 - 1] + 2] = [end |-> m + 2, value |-> w(1)]
    <3> HIDE DEF w
    <3> QED BY <1>8, <2>1
  <2> HIDE DEF w
  <2> QED BY <2>1, <2>2
<1>10. w(1) = v
  OBVIOUS
<1> HIDE DEF w
<1> QED BY <1>4, <1>9, <1>10 DEF x, m

\* A character that is no quote is a token.
LEMMA OneSymbol ==
  ASSUME NEW c \in SqlCharacters, c # SqlQuote, NEW r \in Seq(SqlCharacters)
  PROVE  Tokens(<<c>> \o r) = << <<"symbol", <<c>> >> >> \o Tokens(r)
<1> DEFINE a == <<c>>
           o == a \o r
<1>1. a \in Seq(SqlCharacters) /\ Len(a) = 1 /\ a[1] = c
  OBVIOUS
<1> HIDE DEF a
<1>2. InARow(SqlCharacters, a, r, o)
  BY <1>1, TwoTexts
<1> HIDE DEF o
<1>3. o \in Seq(SqlCharacters) /\ o # <<>> /\ o[1] = c /\ SubSeq(o, 1 + 1, Len(o)) = r
  <2>1. o \in Seq(SqlCharacters) /\ Len(o) = 1 + Len(r) /\ o[1] = c /\ SubSeq(o, 1 + 1, Len(o)) = r
    <3>1. 1 \in 1 .. 1
      OBVIOUS
    <3> QED BY <1>1, <1>2, <3>1 DEF InARow
  <2> QED BY <2>1
<1>4. TokenAt(o, 1) = <<"symbol", <<c>> >> /\ TokenEnd(o, 1) = 1
  BY <1>3, Zenon DEF TokenAt, TokenEnd
<1>5. Tokens(o) = <<TokenAt(o, 1)>> \o Tokens(SubSeq(o, TokenEnd(o, 1) + 1, Len(o)))
  BY <1>3, TokensAre
<1>6. Tokens(o) = << <<"symbol", <<c>> >> >> \o Tokens(r)
  BY <1>3, <1>4, <1>5
<1> QED BY <1>6 DEF o, a

\* An escaped text between quotes is a token, if no quote follows.
LEMMA OneString ==
  ASSUME NEW v \in Seq(SqlCharacters), NEW r \in Seq(SqlCharacters), r # <<>> => r[1] # SqlQuote
  PROVE  Tokens((<<SqlQuote>> \o Escaped(v) \o <<SqlQuote>>) \o r) = << <<"string", v>> >> \o Tokens(r)
<1> DEFINE x == Escaped(v)
           q == <<SqlQuote>>
           b == q \o x
           a == b \o q
           o == a \o r
           m == Len(x)
<1>1. q \in Seq(SqlCharacters) /\ Len(q) = 1 /\ q[1] = SqlQuote
  BY SqlCharactersAssumption
<1>2. x \in Seq(SqlCharacters) /\ m \in Nat
  <2>1. x \in Seq(SqlCharacters)
    BY EscapedType
  <2> HIDE DEF x
  <2> QED BY <2>1
<1> HIDE DEF q, x
<1>3. InARow(SqlCharacters, q, x, b)
  BY <1>1, <1>2, TwoTexts
<1> HIDE DEF b
<1>4. /\ b \in Seq(SqlCharacters) /\ Len(b) = 1 + m /\ b[1] = SqlQuote
      /\ \A k \in 1 .. m : b[1 + k] = x[k]
  <2>1. 1 \in 1 .. 1
    OBVIOUS
  <2> QED BY <1>1, <1>3, <2>1 DEF InARow
<1>5. InARow(SqlCharacters, b, q, a)
  BY <1>1, <1>4, TwoTexts
<1> HIDE DEF a
<1>6. /\ a \in Seq(SqlCharacters) /\ Len(a) = m + 2 /\ a[1] = SqlQuote /\ a[m + 2] = SqlQuote
      /\ \A k \in 1 .. m : a[k + 1] = x[k]
  <2>1. a \in Seq(SqlCharacters) /\ Len(a) = 1 + m + 1 /\ \A k \in 1 .. 1 + m : a[k] = b[k]
    BY <1>1, <1>4, <1>5 DEF InARow
  <2>2. a[1 + m + 1] = SqlQuote
    <3>1. 1 \in 1 .. 1
      OBVIOUS
    <3> QED BY <1>1, <1>4, <1>5, <3>1 DEF InARow
  <2>3. 1 \in 1 .. 1 + m /\ 1 + m + 1 = m + 2 /\ \A k \in 1 .. m : k + 1 \in 1 .. 1 + m /\ k + 1 = 1 + k
    BY <1>2
  <2> QED BY <1>4, <2>1, <2>2, <2>3
<1>7. InARow(SqlCharacters, a, r, o)
  BY <1>6, TwoTexts
<1> HIDE DEF o
<1>8. /\ o \in Seq(SqlCharacters) /\ Len(o) = m + 2 + Len(r) /\ \A k \in 1 .. m + 2 : o[k] = a[k]
      /\ r # <<>> => o[m + 2 + 1] = r[1]
      /\ SubSeq(o, m + 2 + 1, Len(o)) = r
  BY <1>6, <1>7 DEF InARow
<1>9. /\ m + 2 <= Len(o) /\ o[1] = SqlQuote /\ o[m + 2] = SqlQuote
      /\ \A k \in 1 .. m : o[k + 1] = x[k]
      /\ m + 2 < Len(o) => o[m + 3] # SqlQuote
  <2>1. Len(r) \in Nat /\ (r = <<>> => Len(r) = 0)
    OBVIOUS
  <2>2. 1 \in 1 .. m + 2 /\ m + 2 \in 1 .. m + 2 /\ m + 2 + 1 = m + 3 /\ \A k \in 1 .. m : k + 1 \in 1 .. m + 2
    BY <1>2
  <2>3. m + 2 <= Len(o) /\ (m + 2 < Len(o) => r # <<>>)
    BY <1>2, <1>8, <2>1
  <2> QED BY <1>6, <1>8, <2>2, <2>3
<1>10. ReadString(o, 2) = [end |-> m + 2, value |-> v]
  BY <1>8, <1>9, EscapedRead DEF x
<1>11. TokenAt(o, 1) = <<"string", v>> /\ TokenEnd(o, 1) = m + 2
  <2>1. 1 + 1 = 2
    OBVIOUS
  <2>2. ReadString(o, 1 + 1).end = m + 2 /\ ReadString(o, 1 + 1).value = v
    BY <1>10, <2>1
  <2> QED BY <1>9, <2>2, Zenon DEF TokenAt, TokenEnd
<1>12. o # <<>>
  BY <1>2, <1>9
<1>13. Tokens(o) = <<TokenAt(o, 1)>> \o Tokens(SubSeq(o, TokenEnd(o, 1) + 1, Len(o)))
  BY <1>8, <1>12, TokensAre
<1>14. Tokens(o) = << <<"string", v>> >> \o Tokens(r)
  BY <1>8, <1>11, <1>13
<1> QED BY <1>14 DEF o, a, b, q, x

\* The server reads the text of a parameter as the one token that it means, if no
\* quote follows.
LEMMA ParameterIsToken ==
  ASSUME NEW p \in Parameter, p.format # "other",
         p.format = "MySqlLong" => Len(p.value) = 1 /\ p.value[1] # SqlQuote,
         NEW r \in Seq(SqlCharacters), r # <<>> => r[1] # SqlQuote
  PROVE  Tokens(ParameterText(p) \o r) = <<ParameterToken(p)>> \o Tokens(r)
<1>1. p.value \in Seq(SqlCharacters) /\ p.format \in Formats
  BY DEF Parameter
<1>2. CASE p.format = "MySqlLong"
  <2> DEFINE c == p.value[1]
  <2>1. p.value = <<c>> /\ c \in SqlCharacters /\ c # SqlQuote
    BY <1>1, <1>2
  <2>2. ParameterText(p) = <<c>> /\ ParameterToken(p) = <<"symbol", <<c>> >>
    BY <1>2, <2>1 DEF ParameterText, ParameterToken
  <2>3. Tokens(<<c>> \o r) = << <<"symbol", <<c>> >> >> \o Tokens(r)
    BY <2>1, OneSymbol
  <2> QED BY <2>2, <2>3
<1>3. CASE p.format = "MySqlString"
  <2> DEFINE v == p.value
  <2>1. v \in Seq(SqlCharacters)
    BY <1>1
  <2>2. ParameterText(p) = <<SqlQuote>> \o Escaped(v) \o <<SqlQuote>> /\ ParameterToken(p) = <<"string", v>>
    BY <1>3 DEF ParameterText, ParameterToken
  <2> HIDE DEF v
  <2>3. Tokens((<<SqlQuote>> \o Escaped(v) \o <<SqlQuote>>) \o r) = << <<"string", v>> >> \o Tokens(r)
    BY <2>1, OneString
  <2> QED BY <2>2, <2>3
<1>4. CASE p.format = "MySqlNull"
  <2>1. ParameterText(p) = <<"NULL">> /\ ParameterToken(p) = <<"symbol", <<"NULL">> >>
    BY <1>4 DEF ParameterText, ParameterToken
  <2>2. "NULL" \in SqlCharacters /\ "NULL" # SqlQuote
    BY SqlCharactersAssumption DEF SqlQuote
  <2>3. Tokens(<<"NULL">> \o r) = << <<"symbol", <<"NULL">> >> >> \o Tokens(r)
    BY <2>2, OneSymbol
  <2> QED BY <2>1, <2>3
<1>5. CASE p.format = "DrogonDefaultValue"
  <2>1. ParameterText(p) = <<"default">> /\ ParameterToken(p) = <<"symbol", <<"default">> >>
    BY <1>5 DEF ParameterText, ParameterToken
  <2>2. "default" \in SqlCharacters /\ "default" # SqlQuote
    BY SqlCharactersAssumption DEF SqlQuote
  <2>3. Tokens(<<"default">> \o r) = << <<"symbol", <<"default">> >> >> \o Tokens(r)
    BY <2>2, OneSymbol
  <2> QED BY <2>1, <2>3
<1> QED BY <1>1, <1>2, <1>3, <1>4, <1>5 DEF Formats

(***************************************************************************)
(* The tokens of a statement with its marks replaced.                      *)
(***************************************************************************)
\* The token of a mark, which of the tokens are marks, and which up to the k-th.
MarkToken == <<"symbol", <<Mark>> >>
MarkTokens(ts) == {k \in DOMAIN ts : ts[k] = MarkToken}
MarksUpTo(ts, k) == {j \in MarkTokens(ts) : j <= k}

\* The tokens ts, where the parameters from i on stand for the marks.
Replaced(ts, ps, i) ==
  [k \in DOMAIN ts |->
    IF k \in MarkTokens(ts) /\ i - 1 + Cardinality(MarksUpTo(ts, k)) <= Len(ps)
      THEN ParameterToken(ps[i - 1 + Cardinality(MarksUpTo(ts, k))]) ELSE ts[k]]

\* As many numbers, each greater by one.
LEMMA OneGreater ==
  ASSUME NEW n \in Nat, NEW S, S \subseteq 1 .. n
  PROVE  /\ IsFiniteSet(S) /\ Cardinality(S) \in Nat
         /\ IsFiniteSet({k + 1 : k \in S}) /\ Cardinality({k + 1 : k \in S}) = Cardinality(S)
         /\ IsFiniteSet({k + 1 : k \in S} \cup {1})
         /\ Cardinality({k + 1 : k \in S} \cup {1}) = Cardinality(S) + 1
<1> DEFINE T == {k + 1 : k \in S}
           m == [k \in S |-> k + 1]
<1>1. IsFiniteSet(S) /\ Cardinality(S) \in Nat
  <2>1. IsFiniteSet(1 .. n)
    BY FS_Interval
  <2>2. IsFiniteSet(S)
    BY <2>1, FS_Subset
  <2> QED BY <2>2, FS_CardinalityType
<1>2. S \subseteq Nat /\ \A k \in S : k >= 1
  OBVIOUS
<1>3. m \in [S -> T] /\ \A j, k \in S : m[j] = m[k] => j = k
  BY <1>2
<1>4. \A t \in T : \E k \in S : m[k] = t
  OBVIOUS
<1>5. m \in Bijection(S, T)
  <2> HIDE DEF T, m
  <2>1. DOMAIN m = S
    BY <1>3
  <2> QED BY <1>3, <1>4, <2>1 DEF Bijection, Injection, Surjection, IsInjective
<1>6. ExistsBijection(S, T)
  <2> HIDE DEF T, m
  <2> QED BY <1>5 DEF ExistsBijection
<1>7. IsFiniteSet(T) /\ Cardinality(T) = Cardinality(S)
  <2> HIDE DEF T
  <2> QED BY <1>1, <1>6, FS_Bijection
<1>8. 1 \notin T
  BY <1>2
<1>9. IsFiniteSet(T \cup {1}) /\ Cardinality(T \cup {1}) = Cardinality(S) + 1
  <2> HIDE DEF T
  <2> QED BY <1>7, <1>8, FS_AddElement
<1> QED BY <1>1, <1>7, <1>9

\* us is the token t, and behind it the tokens ts.
Before(t, ts, us) ==
  /\ ts \in Seq(SqlTokens) /\ us \in Seq(SqlTokens) /\ Len(us) = Len(ts) + 1 /\ us[1] = t
  /\ \A k \in 1 .. Len(ts) : us[k + 1] = ts[k]

\* Such a sequence.
LEMMA BeforeIs ==
  ASSUME NEW t \in SqlTokens, NEW ts \in Seq(SqlTokens)
  PROVE  Before(t, ts, <<t>> \o ts)
<1> DEFINE us == <<t>> \o ts
<1>1. /\ us \in Seq(SqlTokens) /\ Len(us) = Len(ts) + 1 /\ us[1] = t
      /\ \A k \in 1 .. Len(ts) : us[k + 1] = ts[k]
  OBVIOUS
<1> HIDE DEF us
<1>2. Before(t, ts, us)
  BY <1>1 DEF Before
<1> QED BY <1>2 DEF us

\* The marks up to a token, with one token more in front.
LEMMA MarksMore ==
  ASSUME NEW t, NEW ts, NEW us, Before(t, ts, us), NEW k \in 0 .. Len(ts)
  PROVE  /\ Cardinality(MarksUpTo(ts, k)) \in Nat
         /\ Cardinality(MarksUpTo(us, k + 1)) =
              Cardinality(MarksUpTo(ts, k)) + (IF t = MarkToken THEN 1 ELSE 0)
         /\ k >= 1 => (k + 1 \in MarkTokens(us) <=> k \in MarkTokens(ts))
         /\ 1 \in MarkTokens(us) <=> t = MarkToken
         /\ Cardinality(MarksUpTo(ts, 0)) = 0
<1> DEFINE n == Len(ts)
           S == MarksUpTo(ts, k)
           T == {j + 1 : j \in S}
           U == MarksUpTo(us, k + 1)
<1>1. /\ n \in Nat /\ DOMAIN ts = 1 .. n /\ DOMAIN us = 1 .. n + 1 /\ us[1] = t
      /\ \A j \in 1 .. n : us[j + 1] = ts[j]
  BY DEF Before
<1>2. S \subseteq 1 .. n
  BY <1>1 DEF MarksUpTo, MarkTokens
<1>3. \A j \in 1 .. n + 1 : j = 1 \/ (j - 1 \in 1 .. n /\ (j - 1) + 1 = j)
  BY <1>1
<1>4. \A j \in 1 .. n + 1 : j \in MarkTokens(us) <=> us[j] = MarkToken
  BY <1>1 DEF MarkTokens
<1>5. \A j \in 1 .. n : j \in MarkTokens(ts) <=> ts[j] = MarkToken
  BY <1>1 DEF MarkTokens
<1>6. 1 \in 1 .. n + 1 /\ \A j \in 1 .. n : j + 1 \in 1 .. n + 1
  BY <1>1
<1>7. 1 \in MarkTokens(us) <=> t = MarkToken
  BY <1>1, <1>4, <1>6
<1>8. ASSUME NEW j \in 1 .. n PROVE j + 1 \in MarkTokens(us) <=> j \in MarkTokens(ts)
  BY <1>1, <1>4, <1>5, <1>6
<1>9. U = IF t = MarkToken THEN T \cup {1} ELSE T
  <2>1. ASSUME NEW j \in U PROVE j \in IF t = MarkToken THEN T \cup {1} ELSE T
    <3>1. j \in 1 .. n + 1 /\ j \in MarkTokens(us) /\ j <= k + 1
      BY <1>1 DEF MarksUpTo, MarkTokens
    <3>2. CASE j = 1
      BY <1>7, <3>1, <3>2
    <3>3. CASE j # 1
      <4>1. j - 1 \in 1 .. n /\ (j - 1) + 1 = j
        BY <1>3, <3>1, <3>3
      <4>2. j - 1 \in MarkTokens(ts)
        BY <1>8, <3>1, <4>1
      <4>3. j - 1 <= k
        BY <3>1, <4>1
      <4>4. j - 1 \in S
        BY <4>2, <4>3 DEF MarksUpTo
      <4>5. j \in T
        BY <4>1, <4>4
      <4> QED BY <4>5
    <3> QED BY <3>2, <3>3
  <2>2. ASSUME NEW j \in S PROVE j + 1 \in U
    <3>1. j \in 1 .. n /\ j \in MarkTokens(ts) /\ j <= k
      BY <1>2 DEF MarksUpTo
    <3>2. j + 1 \in MarkTokens(us) /\ j + 1 <= k + 1
      BY <1>8, <3>1
    <3> QED BY <3>2 DEF MarksUpTo
  <2>3. t = MarkToken => 1 \in U
    BY <1>1, <1>7 DEF MarksUpTo
  <2> HIDE DEF S, U
  <2> QED BY <2>1, <2>2, <2>3
<1>10. /\ Cardinality(S) \in Nat /\ Cardinality(T) = Cardinality(S)
       /\ Cardinality(T \cup {1}) = Cardinality(S) + 1
  <2> HIDE DEF S
  <2> QED BY <1>1, <1>2, OneGreater
<1>11. Cardinality(U) = Cardinality(S) + (IF t = MarkToken THEN 1 ELSE 0)
  <2> HIDE DEF S, T, U
  <2> QED BY <1>9, <1>10
<1>12. Cardinality(MarksUpTo(ts, 0)) = 0
  <2>1. MarksUpTo(ts, 0) = {}
    BY <1>1 DEF MarksUpTo, MarkTokens
  <2> QED BY <2>1, FS_EmptySet
<1>13. k >= 1 => (k + 1 \in MarkTokens(us) <=> k \in MarkTokens(ts))
  <2>1. k >= 1 => k \in 1 .. n
    BY <1>1
  <2> QED BY <1>8, <2>1
<1> HIDE DEF S, T, U
<1>14. Cardinality(MarksUpTo(ts, k)) \in Nat
  BY <1>10 DEF S
<1>15. Cardinality(MarksUpTo(us, k + 1)) =
         Cardinality(MarksUpTo(ts, k)) + (IF t = MarkToken THEN 1 ELSE 0)
  BY <1>11 DEF S, U
<1> QED BY <1>7, <1>12, <1>13, <1>14, <1>15

\* How many marks there are, with one token more in front.
LEMMA CountMore ==
  ASSUME NEW t, NEW ts, NEW us, Before(t, ts, us)
  PROVE  /\ Cardinality(MarkTokens(ts)) \in Nat
         /\ Cardinality(MarkTokens(us)) =
              Cardinality(MarkTokens(ts)) + (IF t = MarkToken THEN 1 ELSE 0)
<1> DEFINE n == Len(ts)
<1>1. n \in Nat /\ n \in 0 .. n /\ DOMAIN ts = 1 .. n /\ DOMAIN us = 1 .. n + 1
  BY DEF Before
<1>2. MarkTokens(ts) = MarksUpTo(ts, n) /\ MarkTokens(us) = MarksUpTo(us, n + 1)
  BY <1>1 DEF MarksUpTo, MarkTokens
<1>3. /\ Cardinality(MarksUpTo(ts, n)) \in Nat
      /\ Cardinality(MarksUpTo(us, n + 1)) =
           Cardinality(MarksUpTo(ts, n)) + (IF t = MarkToken THEN 1 ELSE 0)
  BY <1>1, MarksMore
<1> QED BY <1>2, <1>3

\* f is x and behind it the n elements of g.
IsFront(n, x, g, f) ==
  /\ n \in Nat /\ g = [k \in 1 .. n |-> g[k]] /\ f = [k \in 1 .. n + 1 |-> f[k]]
  /\ f[1] = x /\ \A k \in 1 .. n : f[k + 1] = g[k]

\* Then f is this sequence.
LEMMA FrontIs ==
  ASSUME NEW n, NEW x, NEW g, NEW f, IsFront(n, x, g, f)
  PROVE  f = <<x>> \o g
<1>0. /\ n \in Nat /\ g = [k \in 1 .. n |-> g[k]] /\ f = [k \in 1 .. n + 1 |-> f[k]]
      /\ f[1] = x /\ \A k \in 1 .. n : f[k + 1] = g[k]
  BY DEF IsFront
<1> DEFINE C == {x} \cup {g[k] : k \in 1 .. n}
           h == <<x>> \o g
<1>1. x \in C /\ \A k \in 1 .. n : g[k] \in C
  OBVIOUS
<1> HIDE DEF C
<1>2. g \in Seq(C) /\ Len(g) = n
  <2>1. g \in [1 .. n -> C]
    BY <1>0, <1>1
  <2> QED BY <1>0, <2>1
<1>3. /\ h \in Seq(C) /\ Len(h) = n + 1 /\ h[1] = x
      /\ \A k \in 1 .. n : h[k + 1] = g[k]
  BY <1>0, <1>1, <1>2
<1> HIDE DEF h
<1>4. ASSUME NEW k \in 1 .. n + 1 PROVE f[k] \in C /\ f[k] = h[k]
  <2>1. CASE k = 1
    BY <1>0, <1>1, <1>3, <2>1
  <2>2. CASE k # 1
    <3>1. PICK j \in 1 .. n : k = j + 1
      <4>1. k - 1 \in 1 .. n /\ k = (k - 1) + 1
        BY <1>0, <2>2
      <4> QED BY <4>1
    <3> QED BY <1>0, <1>1, <1>3, <3>1
  <2> QED BY <1>0, <2>1, <2>2
<1>5. f \in Seq(C) /\ Len(f) = n + 1
  <2>1. f \in [1 .. n + 1 -> C]
    BY <1>0, <1>4
  <2> QED BY <1>0, <2>1
<1>6. f = h
  BY <1>0, <1>3, <1>4, <1>5, SeqEqual
<1> QED BY <1>6 DEF h

\* u is x and behind it the sequence r.
Led(u, x, r) == u = <<x>> \o r

\* The tokens with the marks replaced, with one token more in front.
LEMMA ReplacedMore ==
  ASSUME NEW t, NEW ts, NEW us, Before(t, ts, us), NEW ps \in Seq(Parameter),
         NEW i \in 1 .. Len(ps) + 1
  PROVE  /\ t # MarkToken \/ i = Len(ps) + 1 =>
              Led(Replaced(us, ps, i), t, Replaced(ts, ps, i))
         /\ t = MarkToken /\ i <= Len(ps) =>
              Led(Replaced(us, ps, i), ParameterToken(ps[i]), Replaced(ts, ps, i + 1))
<1> DEFINE n == Len(ts)
           np == Len(ps)
           R(l) == Replaced(ts, ps, l)
           U == Replaced(us, ps, i)
           c(k) == Cardinality(MarksUpTo(ts, k))
           d(k) == Cardinality(MarksUpTo(us, k))
           one == IF t = MarkToken THEN 1 ELSE 0
<1>1. /\ n \in Nat /\ np \in Nat /\ i \in Nat /\ DOMAIN ts = 1 .. n /\ DOMAIN us = 1 .. n + 1
      /\ us[1] = t /\ \A k \in 1 .. n : us[k + 1] = ts[k]
  BY DEF Before
<1>2. /\ U = [k \in 1 .. n + 1 |-> U[k]]
      /\ \A k \in 1 .. n + 1 :
           U[k] = IF k \in MarkTokens(us) /\ i - 1 + d(k) <= np
                    THEN ParameterToken(ps[i - 1 + d(k)]) ELSE us[k]
  BY <1>1 DEF Replaced
<1>3. ASSUME NEW l
      PROVE  /\ R(l) = [k \in 1 .. n |-> R(l)[k]]
             /\ \A k \in 1 .. n :
                  R(l)[k] = IF k \in MarkTokens(ts) /\ l - 1 + c(k) <= np
                              THEN ParameterToken(ps[l - 1 + c(k)]) ELSE ts[k]
  BY <1>1 DEF Replaced
<1>4. /\ 1 \in MarkTokens(us) <=> t = MarkToken
      /\ d(1) = one
  <2>1. 0 \in 0 .. n /\ 0 + 1 = 1
    BY <1>1
  <2>2. /\ 1 \in MarkTokens(us) <=> t = MarkToken
        /\ d(0 + 1) = c(0) + one /\ c(0) = 0
    BY <2>1, MarksMore
  <2> HIDE DEF c, d
  <2> QED BY <2>1, <2>2
<1>5. ASSUME NEW k \in 1 .. n
      PROVE  /\ c(k) \in Nat /\ d(k + 1) = c(k) + one
             /\ k + 1 \in MarkTokens(us) <=> k \in MarkTokens(ts)
  <2>1. k \in 0 .. n /\ k >= 1
    BY <1>1
  <2> QED BY <2>1, MarksMore
<1>6. ASSUME NEW k \in 1 .. n PROVE k \in MarkTokens(ts) => c(k) >= 1
  <2>1. SUFFICES ASSUME k \in MarkTokens(ts) PROVE c(k) >= 1
    OBVIOUS
  <2>2. k \in MarksUpTo(ts, k)
    BY <1>1, <2>1 DEF MarksUpTo
  <2>3. MarksUpTo(ts, k) \subseteq 1 .. n
    BY <1>1 DEF MarksUpTo, MarkTokens
  <2>4. IsFiniteSet(MarksUpTo(ts, k)) /\ c(k) \in Nat
    BY <1>1, <2>3, OneGreater
  <2>5. c(k) # 0
    BY <2>2, <2>4, FS_EmptySet
  <2> HIDE DEF c
  <2> QED BY <2>4, <2>5
<1> HIDE DEF R, U, c, d
<1>7. ASSUME t # MarkToken \/ i = np + 1 PROVE U = <<t>> \o R(i)
  <2>1. 1 \in 1 .. n + 1 /\ U[1] = t
    <3>1. 1 \in 1 .. n + 1
      BY <1>1
    <3>2. ~(1 \in MarkTokens(us) /\ i - 1 + d(1) <= np)
      BY <1>1, <1>4, <1>7
    <3> QED BY <1>1, <1>2, <3>1, <3>2
  <2>2. ASSUME NEW k \in 1 .. n PROVE U[k + 1] = R(i)[k]
    <3>1. k + 1 \in 1 .. n + 1
      BY <1>1
    <3>2. CASE t # MarkToken
      <4>1. d(k + 1) = c(k)
        BY <1>5, <3>2
      <4> QED BY <1>1, <1>2, <1>3, <1>5, <3>1, <4>1
    <3>3. CASE i = np + 1
      <4>1. k \in MarkTokens(ts) => ~(i - 1 + c(k) <= np)
        BY <1>1, <1>5, <1>6, <3>3
      <4>2. k + 1 \in MarkTokens(us) => ~(i - 1 + d(k + 1) <= np)
        BY <1>1, <1>5, <1>6, <3>3
      <4>3. U[k + 1] = us[k + 1]
        BY <1>2, <3>1, <4>2
      <4>4. R(i)[k] = ts[k]
        BY <1>3, <4>1
      <4> QED BY <1>1, <4>3, <4>4
    <3> QED BY <1>7, <3>2, <3>3
  <2>3. U = [k \in 1 .. n + 1 |-> U[k]] /\ R(i) = [k \in 1 .. n |-> R(i)[k]]
    BY <1>2, <1>3
  <2> DEFINE g == R(i)
  <2>4. g = [k \in 1 .. n |-> g[k]] /\ \A k \in 1 .. n : U[k + 1] = g[k]
    BY <2>2, <2>3
  <2> HIDE DEF g
  <2>5. U = <<t>> \o g
    <3>1. IsFront(n, t, g, U)
      BY <1>1, <2>1, <2>3, <2>4 DEF IsFront
    <3> QED BY <3>1, FrontIs
  <2> QED BY <2>5 DEF g
<1>8. ASSUME t = MarkToken, i <= np PROVE U = <<ParameterToken(ps[i])>> \o R(i + 1)
  <2>1. U[1] = ParameterToken(ps[i])
    <3>1. 1 \in 1 .. n + 1
      BY <1>1
    <3>2. 1 \in MarkTokens(us) /\ i - 1 + d(1) = i
      BY <1>1, <1>4, <1>8
    <3> QED BY <1>2, <1>8, <3>1, <3>2
  <2>2. ASSUME NEW k \in 1 .. n PROVE U[k + 1] = R(i + 1)[k]
    <3>1. k + 1 \in 1 .. n + 1
      BY <1>1
    <3>2. i - 1 + d(k + 1) = i + 1 - 1 + c(k)
      BY <1>1, <1>5, <1>8
    <3>3. U[k + 1] = IF k + 1 \in MarkTokens(us) /\ i - 1 + d(k + 1) <= np
                       THEN ParameterToken(ps[i - 1 + d(k + 1)]) ELSE us[k + 1]
      BY <1>2, <3>1
    <3>4. R(i + 1)[k] = IF k \in MarkTokens(ts) /\ i + 1 - 1 + c(k) <= np
                          THEN ParameterToken(ps[i + 1 - 1 + c(k)]) ELSE ts[k]
      BY <1>3
    <3>5. (k + 1 \in MarkTokens(us) <=> k \in MarkTokens(ts)) /\ us[k + 1] = ts[k]
      BY <1>1, <1>5
    <3> QED BY <3>2, <3>3, <3>4, <3>5
  <2>3. U = [k \in 1 .. n + 1 |-> U[k]] /\ R(i + 1) = [k \in 1 .. n |-> R(i + 1)[k]]
    BY <1>2, <1>3
  <2> DEFINE g == R(i + 1)
             x == ParameterToken(ps[i])
  <2>4. g = [k \in 1 .. n |-> g[k]] /\ (\A k \in 1 .. n : U[k + 1] = g[k]) /\ U[1] = x
    BY <2>1, <2>2, <2>3
  <2> HIDE DEF g, x
  <2>5. U = <<x>> \o g
    <3>1. IsFront(n, x, g, U)
      BY <1>1, <2>3, <2>4 DEF IsFront
    <3> QED BY <3>1, FrontIs
  <2> QED BY <2>5 DEF g, x
<1>9. /\ t # MarkToken \/ i = np + 1 => Led(U, t, R(i))
      /\ t = MarkToken /\ i <= np => Led(U, ParameterToken(ps[i]), R(i + 1))
  BY <1>7, <1>8 DEF Led
<1> QED BY <1>9 DEF R, U

\* The tokens from p on are one token and the tokens behind it.
LEMMA TokensFrom ==
  ASSUME NEW s \in Seq(SqlCharacters), NEW f, Lexing(s, f)
  PROVE  /\ \A p \in 1 .. Len(s) + 1 : f[p] \in Seq(SqlTokens)
         /\ \A p \in 1 .. Len(s) :
              /\ TokenEnd(s, p) \in p .. Len(s) /\ TokenEnd(s, p) + 1 \in p + 1 .. Len(s) + 1
              /\ Before(TokenAt(s, p), f[TokenEnd(s, p) + 1], f[p])
<1> DEFINE n == Len(s)
           T == {h \in 1 .. n + 1 : f[h] \in Seq(SqlTokens)}
<1>1. n \in Nat /\ n + 1 \in Nat
  OBVIOUS
<1>2. ASSUME NEW h \in 1 .. n, f[TokenEnd(s, h) + 1] \in Seq(SqlTokens)
      PROVE  Before(TokenAt(s, h), f[TokenEnd(s, h) + 1], f[h])
  <2>1. h <= n /\ h \in 1 .. n + 1
    BY <1>1
  <2>2. f[h] = <<TokenAt(s, h)>> \o f[TokenEnd(s, h) + 1]
    BY <2>1, LexingIs
  <2>3. TokenAt(s, h) \in SqlTokens
    BY TokenAtType
  <2>4. Before(TokenAt(s, h), f[TokenEnd(s, h) + 1], <<TokenAt(s, h)>> \o f[TokenEnd(s, h) + 1])
    BY <1>2, <2>3, BeforeIs
  <2> QED BY <2>2, <2>4, Zenon
<1>3. ASSUME NEW h \in 1 .. n
      PROVE  TokenEnd(s, h) \in h .. n /\ TokenEnd(s, h) + 1 \in h + 1 .. n + 1
  <2>1. TokenEnd(s, h) \in h .. n
    BY TokenAtType
  <2> QED BY <1>1, <2>1
<1>4. ASSUME NEW h \in 1 .. n + 1, \A k \in h + 1 .. n + 1 : k \in T PROVE h \in T
  <2>1. CASE h = n + 1
    <3>1. f[h] = <<>>
      BY <2>1, LexingIs
    <3>2. <<>> \in Seq(SqlTokens)
      OBVIOUS
    <3> QED BY <3>1, <3>2
  <2>2. CASE h # n + 1
    <3>1. h \in 1 .. n
      BY <1>1, <2>2
    <3>2. f[TokenEnd(s, h) + 1] \in Seq(SqlTokens)
      BY <1>3, <1>4, <3>1
    <3>3. Before(TokenAt(s, h), f[TokenEnd(s, h) + 1], f[h])
      BY <1>2, <3>1, <3>2
    <3> QED BY <3>3 DEF Before
  <2> QED BY <2>1, <2>2
<1>5. 1 .. n + 1 \subseteq T
  <2> HIDE DEF T
  <2> QED BY <1>1, <1>4, DownInduction
<1>6. ASSUME NEW p \in 1 .. n PROVE Before(TokenAt(s, p), f[TokenEnd(s, p) + 1], f[p])
  <2>1. TokenEnd(s, p) + 1 \in 1 .. n + 1
    BY <1>1, <1>3
  <2>2. f[TokenEnd(s, p) + 1] \in Seq(SqlTokens)
    BY <1>5, <2>1
  <2> QED BY <1>2, <2>2
<1> QED BY <1>3, <1>5, <1>6

\* Which tokens are marks.
LEMMA TokenIsMark ==
  ASSUME NEW s \in Seq(SqlCharacters), NEW p \in 1 .. Len(s)
  PROVE  TokenAt(s, p) = MarkToken <=> s[p] = Mark
<1>1. CASE s[p] = SqlQuote
  <2>1. TokenAt(s, p) = <<"string", ReadString(s, p + 1).value>>
    BY <1>1, Zenon DEF TokenAt
  <2>2. TokenAt(s, p)[1] = "string" /\ MarkToken[1] = "symbol"
    BY <2>1 DEF MarkToken
  <2>3. s[p] # Mark
    BY <1>1, SqlCharactersDiffer
  <2> QED BY <2>2, <2>3
<1>2. CASE s[p] # SqlQuote
  <2>1. TokenAt(s, p) = <<"symbol", <<s[p]>> >>
    BY <1>2, Zenon DEF TokenAt
  <2>2. TokenAt(s, p)[2][1] = s[p] /\ MarkToken[2][1] = Mark
    BY <2>1 DEF MarkToken
  <2>3. s[p] = Mark => TokenAt(s, p) = MarkToken
    BY <2>1 DEF MarkToken
  <2> QED BY <2>2, <2>3
<1> QED BY <1>1, <1>2

\* No more tokens are marks than characters are.
LEMMA FewerTokens ==
  ASSUME NEW s \in Seq(SqlCharacters), NEW f, Lexing(s, f), NEW p \in 1 .. Len(s) + 1
  PROVE  /\ Cardinality(MarkTokens(f[p])) \in Nat
         /\ Cardinality(MarkTokens(f[p])) <= Cardinality(Marks(s, p))
<1> DEFINE n == Len(s)
           c(k) == Cardinality(MarkTokens(f[k]))
           m(k) == Cardinality(Marks(s, k))
           T == {h \in 1 .. n + 1 : c(h) \in Nat /\ c(h) <= m(h)}
<1>1. n \in Nat /\ n + 1 \in Nat
  OBVIOUS
<1>2. ASSUME NEW h \in 1 .. n + 1, \A k \in h + 1 .. n + 1 : k \in T PROVE h \in T
  <2>1. m(h) \in Nat
    BY CountMarks
  <2>2. CASE h = n + 1
    <3>1. f[h] = <<>>
      BY <2>2, LexingIs
    <3>2. MarkTokens(f[h]) = {}
      BY <3>1 DEF MarkTokens
    <3>3. c(h) = 0
      BY <3>2, FS_EmptySet
    <3> HIDE DEF c, m
    <3> QED BY <2>1, <3>3
  <2>3. CASE h # n + 1
    <3> DEFINE q == TokenEnd(s, h) + 1
    <3>1. h \in 1 .. n
      BY <1>1, <2>3
    <3>2. q \in h + 1 .. n + 1 /\ Before(TokenAt(s, h), f[q], f[h])
      BY <3>1, TokensFrom
    <3> HIDE DEF q
    <3>3. c(h) = c(q) + (IF s[h] = Mark THEN 1 ELSE 0)
      <4>1. c(h) = c(q) + (IF TokenAt(s, h) = MarkToken THEN 1 ELSE 0)
        BY <3>2, CountMore
      <4> QED BY <3>1, <4>1, TokenIsMark
    <3>4. c(q) \in Nat /\ c(q) <= m(q)
      BY <1>2, <3>2
    <3>5. h + 1 \in 1 .. n + 1 /\ q \in 1 .. n + 1
      BY <1>1, <3>1, <3>2
    <3>6. m(q) <= m(h + 1) /\ m(q) \in Nat /\ m(h + 1) \in Nat
      <4>1. Marks(s, q) \in SUBSET Marks(s, h + 1)
        BY <1>1, <3>2 DEF Marks
      <4>2. IsFiniteSet(Marks(s, h + 1)) /\ m(h + 1) \in Nat /\ m(q) \in Nat
        BY <3>5, CountMarks
      <4> QED BY <4>1, <4>2, FS_Subset
    <3>7. m(h) = m(h + 1) + (IF s[h] = Mark THEN 1 ELSE 0)
      <4>1. CASE s[h] = Mark
        <5>1. h <= n
          BY <3>1
        <5>2. m(h) = m(h + 1) + 1
          BY <4>1, <5>1, CountMarks
        <5> QED BY <4>1, <5>2
      <4>2. CASE s[h] # Mark
        <5>1. h <= n
          BY <3>1
        <5>2. Marks(s, h) = Marks(s, h + 1)
          BY <4>2, <5>1, FirstMark
        <5> HIDE DEF m
        <5>3. m(h) = m(h + 1) /\ m(h + 1) = m(h + 1) + 0
          BY <3>6, <5>2 DEF m
        <5> QED BY <4>2, <5>3
      <4> QED BY <4>1, <4>2
    <3> HIDE DEF c, m
    <3>8. c(h) \in Nat /\ c(h) <= m(h)
      <4>1. CASE s[h] = Mark
        BY <3>3, <3>4, <3>6, <3>7, <4>1
      <4>2. CASE s[h] # Mark
        BY <3>3, <3>4, <3>6, <3>7, <4>2
      <4> QED BY <4>1, <4>2
    <3> QED BY <3>8
  <2> QED BY <2>2, <2>3
<1>3. 1 .. n + 1 \subseteq T
  <2> HIDE DEF T
  <2> QED BY <1>1, <1>2, DownInduction
<1>4. p \in T
  <2> HIDE DEF T
  <2> QED BY <1>3
<1> QED BY <1>4

\* If as many tokens are marks as characters are from p on, so it is behind the
\* first token, and no mark is in it but as the whole of it.
LEMMA AsManyBehind ==
  ASSUME NEW s \in Seq(SqlCharacters), NEW f, Lexing(s, f), NEW p \in 1 .. Len(s),
         Cardinality(MarkTokens(f[p])) = Cardinality(Marks(s, p)),
         NEW q, q = TokenEnd(s, p) + 1
  PROVE  /\ Cardinality(MarkTokens(f[q])) = Cardinality(Marks(s, q))
         /\ s[p] # Mark => Marks(s, p) = Marks(s, q)
<1> DEFINE n == Len(s)
           c(k) == Cardinality(MarkTokens(f[k]))
           m(k) == Cardinality(Marks(s, k))
<1>1. /\ n \in Nat /\ p \in Nat /\ p <= n /\ p \in 1 .. n + 1 /\ q \in p + 1 .. n + 1
      /\ q \in 1 .. n + 1 /\ Before(TokenAt(s, p), f[q], f[p])
  <2>1. q \in p + 1 .. n + 1 /\ Before(TokenAt(s, p), f[q], f[p])
    BY TokensFrom
  <2> QED BY <2>1
<1>2. c(p) = c(q) + (IF s[p] = Mark THEN 1 ELSE 0)
  <2>1. c(p) = c(q) + (IF TokenAt(s, p) = MarkToken THEN 1 ELSE 0)
    BY <1>1, CountMore
  <2> QED BY <2>1, TokenIsMark
<1>3. c(q) \in Nat /\ c(q) <= m(q)
  BY <1>1, FewerTokens
<1>4. /\ m(p) \in Nat /\ m(q) \in Nat /\ IsFiniteSet(Marks(s, p))
      /\ s[p] = Mark => m(p) = m(p + 1) + 1
  BY <1>1, CountMarks
<1>5. CASE s[p] = Mark
  <2>1. s[p] # SqlQuote
    BY <1>5, SqlCharactersDiffer
  <2>2. q = p + 1
    BY <2>1 DEF TokenEnd
  <2> HIDE DEF c, m
  <2>3. c(p) = m(p)
    BY DEF c, m
  <2>4. c(q) = m(q)
    BY <1>2, <1>3, <1>4, <1>5, <2>2, <2>3
  <2> QED BY <1>5, <2>4 DEF c, m
<1>6. CASE s[p] # Mark
  <2>1. Marks(s, q) \in SUBSET Marks(s, p)
    BY <1>1 DEF Marks
  <2>2. m(q) <= m(p) /\ (m(p) = m(q) => Marks(s, p) = Marks(s, q))
    BY <1>4, <2>1, FS_Subset
  <2> HIDE DEF c, m
  <2>3. c(p) = m(p)
    BY DEF c, m
  <2>4. c(p) = c(q)
    BY <1>2, <1>3, <1>6
  <2>5. c(q) = m(q) /\ m(p) = m(q)
    BY <1>3, <1>4, <2>2, <2>3, <2>4
  <2> QED BY <2>2, <2>5 DEF c, m
<1> QED BY <1>5, <1>6

(***************************************************************************)
(* The statement that is sent.                                             *)
(***************************************************************************)
\* No mark is beside a quote or another mark.
Apart(sql) ==
  \A j \in Marks(sql, 1), k \in {-1, 1} :
    j + k \in DOMAIN sql => sql[j + k] \notin {Mark, SqlQuote}

\* The end of a statement stays the end, and where no mark is the next character
\* stays the next.
LEMMA PreparedNext ==
  ASSUME NEW sql \in Seq(SqlCharacters), NEW ps \in Seq(Parameter), NEW f, Prepared(sql, ps, f),
         NEW i \in 1 .. Len(ps) + 1, NEW p \in 1 .. Len(sql) + 1, Known(sql, ps, i, p)
  PROVE  /\ f[i][p] \in Seq(SqlCharacters)
         /\ p = Len(sql) + 1 => f[i][p] = <<>>
         /\ p <= Len(sql) /\ (i = Len(ps) + 1 \/ sql[p] # Mark) =>
              /\ f[i][p] = <<sql[p]>> \o f[i][p + 1] /\ Known(sql, ps, i, p + 1)
              /\ f[i][p + 1] \in Seq(SqlCharacters)
              /\ f[i][p] # <<>> /\ f[i][p][1] = sql[p]
<1> DEFINE n == Len(sql)
           np == Len(ps)
<1>1. n \in Nat /\ np \in Nat /\ p \in Nat /\ i \in Nat
  OBVIOUS
<1>2. f[i][p] \in Seq(SqlCharacters)
  BY PreparedType
<1>3. ASSUME p = n + 1 PROVE f[i][p] = <<>>
  <2>1. Marks(sql, p) = {}
    BY <1>3, FirstMark
  <2>2. f[i][p] = SubSeq(sql, p, n)
    <3>1. f[i][p] = IF i > np \/ Marks(sql, p) = {} THEN SubSeq(sql, p, n)
                    ELSE SubSeq(sql, p, Min(Marks(sql, p)) - 1) \o ParameterText(ps[i])
                           \o f[i + 1][Min(Marks(sql, p)) + 1]
      BY PreparedIs
    <3> QED BY <2>1, <3>1, Zenon
  <2>3. SubSeq(sql, p, n) = <<>>
    BY <1>1, <1>3
  <2> QED BY <2>2, <2>3
<1>4. ASSUME p <= n, i = np + 1 \/ sql[p] # Mark
      PROVE  /\ f[i][p] = <<sql[p]>> \o f[i][p + 1] /\ Known(sql, ps, i, p + 1)
             /\ f[i][p + 1] \in Seq(SqlCharacters)
             /\ f[i][p] # <<>> /\ f[i][p][1] = sql[p]
  <2>1. p + 1 \in p .. n + 1 /\ p + 1 \in 1 .. n + 1 /\ p + 1 - 1 = p /\ p \in 1 .. n
    BY <1>1, <1>4
  <2>2. i > np \/ \A j \in p .. p + 1 - 1 : sql[j] # Mark
    <3>1. i = np + 1 => i > np
      BY <1>1
    <3>2. \A j \in p .. p + 1 - 1 : j = p
      BY <1>1
    <3> QED BY <1>4, <3>1, <3>2
  <2>3. f[i][p] = SubSeq(sql, p, p) \o f[i][p + 1]
    <3> DEFINE q == p + 1
    <3>1. q \in p .. n + 1 /\ (i > np \/ \A j \in p .. q - 1 : sql[j] # Mark)
      BY <2>1, <2>2
    <3> HIDE DEF q
    <3>2. f[i][p] = SubSeq(sql, p, q - 1) \o f[i][q]
      BY <3>1, PreparedSkip, ZenonT(30)
    <3>3. q - 1 = p
      BY <1>1 DEF q
    <3>4. f[i][p] = SubSeq(sql, p, p) \o f[i][q]
      BY <3>2, <3>3
    <3> QED BY <3>4 DEF q
  <2>4. SubSeq(sql, p, p) = <<sql[p]>> /\ sql[p] \in SqlCharacters
    BY <2>1, PartOfOne
  <2>5. f[i][p] = <<sql[p]>> \o f[i][p + 1]
    BY <2>3, <2>4
  <2>6. Known(sql, ps, i, p + 1)
    <3>1. CASE i = np + 1
      BY <1>1, <3>1 DEF Known
    <3>2. CASE sql[p] # Mark
      <4>1. Marks(sql, p) = Marks(sql, p + 1)
        BY <1>4, <3>2, FirstMark
      <4> QED BY <4>1 DEF Known
    <3> QED BY <1>4, <3>1, <3>2
  <2>7. f[i][p + 1] \in Seq(SqlCharacters)
    BY <2>1, <2>6, PreparedType
  <2>8. f[i][p] # <<>> /\ f[i][p][1] = sql[p]
    <3> DEFINE x == f[i][p + 1]
               c == sql[p]
    <3>1. x \in Seq(SqlCharacters) /\ c \in SqlCharacters /\ f[i][p] = <<c>> \o x
      BY <2>4, <2>5, <2>7
    <3> HIDE DEF x, c
    <3>2. <<c>> \o x # <<>> /\ (<<c>> \o x)[1] = c
      BY <3>1
    <3> QED BY <3>1, <3>2 DEF c
  <2> QED BY <2>5, <2>6, <2>7, <2>8
<1> QED BY <1>2, <1>3, <1>4

\* The text t begins with c.
Begins(t, c) == t # <<>> /\ t[1] = c

\* A character that is no mark stays the next one.
LEMMA PreparedFirst ==
  ASSUME NEW sql \in Seq(SqlCharacters), NEW ps \in Seq(Parameter), NEW f, Prepared(sql, ps, f),
         NEW i \in 1 .. Len(ps) + 1, NEW p \in 1 .. Len(sql), Known(sql, ps, i, p),
         sql[p] # Mark
  PROVE  Begins(f[i][p], sql[p])
<1>1. p \in 1 .. Len(sql) + 1 /\ p <= Len(sql)
  OBVIOUS
<1>2. f[i][p] # <<>> /\ f[i][p][1] = sql[p]
  BY <1>1, PreparedNext, ZenonT(30)
<1> QED BY <1>2 DEF Begins

\* A string of the statement is read alike with the marks behind it replaced, if
\* what is behind it begins alike.
LEMMA StringStays ==
  ASSUME NEW s \in Seq(SqlCharacters), NEW p \in 1 .. Len(s), s[p] = SqlQuote,
         NEW e, e = TokenEnd(s, p), NEW t \in Seq(SqlCharacters),
         e = Len(s) => t = <<>>, e < Len(s) => t # <<>> /\ t[1] = s[e + 1]
  PROVE  Tokens(SubSeq(s, p, e) \o t) = <<TokenAt(s, p)>> \o Tokens(t)
<1> DEFINE n == Len(s)
           a == SubSeq(s, p, e)
           o == a \o t
           d == 1 - p
<1>1. /\ n \in Nat /\ p \in Nat /\ 1 <= p /\ p <= n /\ p + 1 \in 1 .. n + 1
      /\ e \in p .. n /\ e \in Nat /\ p <= e /\ e <= n
  <2>1. e \in p .. n
    BY TokenAtType
  <2> QED BY <2>1
<1>2. /\ a \in Seq(SqlCharacters) /\ Len(a) = e - p + 1
      /\ \A k \in 1 .. e - p + 1 : a[k] = s[p + k - 1]
  BY <1>1
<1> HIDE DEF a
<1>3. InARow(SqlCharacters, a, t, o)
  BY <1>2, TwoTexts
<1> HIDE DEF o
<1>4. /\ o \in Seq(SqlCharacters) /\ Len(o) = Len(a) + Len(t)
      /\ \A k \in 1 .. Len(a) : o[k] = a[k]
      /\ t # <<>> => Len(t) >= 1 /\ o[Len(a) + 1] = t[1]
      /\ SubSeq(o, Len(a) + 1, Len(o)) = t
  BY <1>3 DEF InARow
<1>5. Len(t) \in Nat /\ (t = <<>> => Len(t) = 0)
  OBVIOUS
<1>6. ASSUME NEW k \in p .. e PROVE o[k + d] = s[k] /\ k + d \in 1 .. Len(a) /\ k + d <= Len(o)
  <2>1. k + d \in 1 .. e - p + 1 /\ p + (k + d) - 1 = k
    BY <1>1
  <2>2. o[k + d] = s[k] /\ k + d \in 1 .. Len(a)
    BY <1>2, <1>4, <2>1
  <2> QED BY <1>1, <1>2, <1>4, <1>5, <2>1, <2>2, SMTT(30)
<1>7. e = ReadString(s, p + 1).end /\ TokenAt(s, p) = <<"string", ReadString(s, p + 1).value>>
  BY Zenon DEF TokenEnd, TokenAt
<1>8. SameWindow(s, p + 1, e, o, d)
  <2>1. e = n => Len(o) = n + d
    BY <1>1, <1>2, <1>4, <1>5
  <2>2. e < n => e + d + 1 <= Len(o) /\ o[e + d + 1] = s[e + 1]
    <3>1. e + d + 1 = Len(a) + 1 /\ Len(a) \in Nat
      BY <1>1, <1>2
    <3> QED BY <1>4, <1>5, <3>1
  <2>3. ASSUME NEW k \in p + 1 .. e
        PROVE  /\ k + d <= Len(o) /\ o[k + d] = s[k] /\ (k < n <=> k + d < Len(o))
               /\ k < n => o[k + 1 + d] = s[k + 1]
    <3>1. k \in p .. e /\ k \in Nat
      BY <1>1
    <3>2. k + d <= Len(o) /\ o[k + d] = s[k] /\ k + d \in 1 .. Len(a)
      BY <1>6, <3>1
    <3>3. CASE k = e
      <4>1. k < n <=> k + d < Len(o)
        <5>1. CASE e = n
          BY <1>1, <2>1, <3>3, <5>1
        <5>2. CASE e < n
          <6>1. Len(o) \in Nat
            BY <1>4
          <6> QED BY <1>1, <2>2, <3>3, <5>2, <6>1
        <5> QED BY <1>1, <5>1, <5>2
      <4>2. e + d + 1 = e + 1 + d
        BY <1>1
      <4> QED BY <2>2, <3>2, <3>3, <4>1, <4>2
    <3>4. CASE k # e
      <4>1. k + 1 \in p .. e /\ k < n
        BY <1>1, <3>1, <3>4
      <4>2. o[k + 1 + d] = s[k + 1] /\ k + 1 + d <= Len(o) /\ Len(o) \in Nat
        BY <1>4, <1>6, <4>1
      <4>3. k + d < Len(o)
        BY <1>1, <3>1, <4>2
      <4> QED BY <3>2, <4>1, <4>2, <4>3
    <3> QED BY <3>3, <3>4
  <2> HIDE DEF d
  <2> QED BY <2>1, <2>3 DEF SameWindow
<1>9. ReadString(o, p + 1 + d) = [end |-> e + d, value |-> ReadString(s, p + 1).value]
  <2>1. d \in Int /\ p + 1 + d >= 1
    BY <1>1
  <2> HIDE DEF d
  <2> QED BY <1>1, <1>4, <1>7, <1>8, <2>1, SameString, SMTT(30)
<1>10. p + 1 + d = 2 /\ 1 + 1 = 2 /\ e + d = Len(a)
  BY <1>1, <1>2
<1>11. o[1] = SqlQuote /\ o # <<>>
  <2>1. p \in p .. e /\ p + d = 1
    BY <1>1
  <2>2. o[1] = SqlQuote /\ 1 <= Len(o)
    BY <1>6, <2>1
  <2> QED BY <2>2
<1>12. TokenEnd(o, 1) = Len(a) /\ TokenAt(o, 1) = TokenAt(s, p)
  <2>1. /\ ReadString(o, 1 + 1).end = Len(a)
        /\ ReadString(o, 1 + 1).value = ReadString(s, p + 1).value
    BY <1>9, <1>10
  <2> QED BY <1>7, <1>11, <2>1, Zenon DEF TokenEnd, TokenAt
<1>13. Tokens(o) = <<TokenAt(o, 1)>> \o Tokens(SubSeq(o, TokenEnd(o, 1) + 1, Len(o)))
  BY <1>4, <1>11, TokensAre
<1>14. Tokens(o) = <<TokenAt(s, p)>> \o Tokens(t)
  BY <1>4, <1>12, <1>13
<1> QED BY <1>14 DEF o, a

\* The server reads a statement with its marks replaced as the tokens of the
\* statement with the marks replaced.
LEMMA PreparedTokens ==
  ASSUME NEW sql \in Seq(SqlCharacters), NEW ps \in Seq(Parameter), Apart(sql),
         \A k \in 1 .. Len(ps) : ps[k].format = "MySqlLong" =>
            Len(ps[k].value) = 1 /\ ps[k].value[1] # SqlQuote,
         NEW g, Prepared(sql, ps, g), NEW f, Lexing(sql, f),
         Cardinality(MarkTokens(f[1])) = Cardinality(Marks(sql, 1)), Known(sql, ps, 1, 1)
  PROVE  Tokens(g[1][1]) = Replaced(f[1], ps, 1)
<1> DEFINE n == Len(sql)
           np == Len(ps)
           Good(p) == \A i \in 1 .. np + 1 :
             /\ Known(sql, ps, i, p) /\ Cardinality(MarkTokens(f[p])) = Cardinality(Marks(sql, p))
             => Tokens(g[i][p]) = Replaced(f[p], ps, i)
           S == {p \in 1 .. n + 1 : Good(p)}
<1>1. n \in Nat /\ np \in Nat /\ n + 1 \in Nat
  OBVIOUS
<1>2. ASSUME NEW p \in 1 .. n + 1, \A k \in p + 1 .. n + 1 : k \in S PROVE p \in S
  <2> SUFFICES ASSUME NEW i \in 1 .. np + 1, Known(sql, ps, i, p),
                      Cardinality(MarkTokens(f[p])) = Cardinality(Marks(sql, p))
               PROVE  Tokens(g[i][p]) = Replaced(f[p], ps, i)
    OBVIOUS
  <2> DEFINE o == g[i][p]
             q == TokenEnd(sql, p) + 1
             t == TokenAt(sql, p)
  <2>1. CASE p = n + 1
    <3>1. o = <<>> /\ o \in Seq(SqlCharacters)
      BY <2>1, PreparedNext
    <3>2. Tokens(o) = <<>>
      BY <3>1, TokensAre
    <3>3. f[p] = <<>>
      BY <2>1, LexingIs
    <3>4. Replaced(f[p], ps, i) = <<>>
      BY <3>3 DEF Replaced
    <3> QED BY <3>2, <3>4
  <2>2. CASE p # n + 1
    <3>1. p \in 1 .. n /\ p <= n
      BY <1>1, <2>2
    <3>2. q \in p + 1 .. n + 1 /\ Before(t, f[q], f[p])
      BY <3>1, TokensFrom
    <3>3. /\ Cardinality(MarkTokens(f[q])) = Cardinality(Marks(sql, q))
          /\ sql[p] # Mark => Marks(sql, p) = Marks(sql, q)
      BY <3>1, AsManyBehind
    <3>4. t = MarkToken <=> sql[p] = Mark
      BY <3>1, TokenIsMark
    <3>5. ASSUME NEW j \in 1 .. np + 1, Known(sql, ps, j, q)
          PROVE  Tokens(g[j][q]) = Replaced(f[q], ps, j)
      <4>1. q \in S
        BY <1>2, <3>2
      <4> HIDE DEF q
      <4> QED BY <3>3, <3>5, <4>1
    <3> HIDE DEF o, q, t, S, Good
    <3>6. /\ t # MarkToken \/ i = np + 1 => Led(Replaced(f[p], ps, i), t, Replaced(f[q], ps, i))
          /\ t = MarkToken /\ i <= np =>
               Led(Replaced(f[p], ps, i), ParameterToken(ps[i]), Replaced(f[q], ps, i + 1))
      BY <3>2, ReplacedMore
    <3>7. CASE sql[p] # SqlQuote /\ (sql[p] # Mark \/ i = np + 1)
      <4>1. q = p + 1 /\ t = <<"symbol", <<sql[p]>> >>
        BY <3>7, Zenon DEF q, t, TokenEnd, TokenAt
      <4>2. /\ o = <<sql[p]>> \o g[i][q] /\ Known(sql, ps, i, q)
            /\ g[i][q] \in Seq(SqlCharacters)
        BY <3>1, <3>7, <4>1, PreparedNext DEF o
      <4>3. sql[p] \in SqlCharacters
        BY <3>1
      <4>4. Tokens(o) = << <<"symbol", <<sql[p]>> >> >> \o Tokens(g[i][q])
        BY <3>7, <4>2, <4>3, OneSymbol
      <4>5. Tokens(g[i][q]) = Replaced(f[q], ps, i)
        BY <3>5, <4>2
      <4>6. Replaced(f[p], ps, i) = <<t>> \o Replaced(f[q], ps, i)
        BY <3>4, <3>6, <3>7 DEF Led
      <4> QED BY <4>1, <4>4, <4>5, <4>6 DEF o
    <3>8. CASE sql[p] = Mark /\ i # np + 1
      <4>1. sql[p] # SqlQuote /\ i \in 1 .. np /\ i <= np /\ i + 1 \in 1 .. np + 1
        BY <1>1, <3>8, SqlCharactersDiffer
      <4>2. q = p + 1
        BY <4>1, Zenon DEF q, TokenEnd
      <4>3. /\ ps[i].format # "other" /\ Known(sql, ps, i + 1, q)
            /\ o = ParameterText(ps[i]) \o g[i + 1][q]
        BY <3>1, <3>8, <4>1, <4>2, PreparedMark DEF o
      <4> DEFINE j == i + 1
                 r == g[j][q]
      <4>4. q \in 1 .. n + 1
        BY <1>1, <3>1, <4>2
      <4>5. r \in Seq(SqlCharacters)
        BY <4>1, <4>3, <4>4, PreparedNext
      <4>6. r # <<>> => r[1] # SqlQuote
        <5>0. j \in 1 .. np + 1 /\ Known(sql, ps, j, q)
          BY <4>1, <4>3
        <5> HIDE DEF j
        <5>1. CASE q = n + 1
          <6>1. r = <<>>
            BY <4>4, <5>0, <5>1, PreparedNext
          <6> QED BY <6>1
        <5>2. CASE q # n + 1
          <6>1. q \in 1 .. n /\ q <= n
            BY <1>1, <4>4, <5>2
          <6>2. sql[q] \notin {Mark, SqlQuote}
            <7>1. p \in Marks(sql, 1) /\ p + 1 \in DOMAIN sql
              BY <3>1, <3>8, <4>2, <6>1 DEF Marks
            <7> QED BY <4>2, <7>1 DEF Apart
          <6>3. sql[q] # Mark
            BY <6>2
          <6>4. Begins(g[j][q], sql[q])
            BY <5>0, <6>1, <6>3, PreparedFirst
          <6>5. r[1] = sql[q]
            BY <6>4 DEF Begins
          <6> QED BY <6>2, <6>5
        <5> QED BY <5>1, <5>2
      <4> HIDE DEF r
      <4>7. ps[i] \in Parameter /\ (ps[i].format = "MySqlLong" =>
                                      Len(ps[i].value) = 1 /\ ps[i].value[1] # SqlQuote)
        BY <4>1
      <4>8. Tokens(ParameterText(ps[i]) \o r) = <<ParameterToken(ps[i])>> \o Tokens(r)
        BY <4>3, <4>5, <4>6, <4>7, ParameterIsToken
      <4>9. Tokens(r) = Replaced(f[q], ps, i + 1)
        BY <3>5, <4>1, <4>3 DEF r
      <4>10. Replaced(f[p], ps, i) = <<ParameterToken(ps[i])>> \o Replaced(f[q], ps, i + 1)
        BY <3>4, <3>6, <3>8, <4>1 DEF Led
      <4> QED BY <4>3, <4>8, <4>9, <4>10 DEF o, r
    <3>9. CASE sql[p] = SqlQuote
      <4> DEFINE e == TokenEnd(sql, p)
                 r == g[i][q]
      <4>1. sql[p] # Mark
        BY <3>9, SqlCharactersDiffer
      <4>2. Marks(sql, p) = Marks(sql, q) /\ Known(sql, ps, i, q)
        BY <3>3, <4>1 DEF Known
      <4>3. e \in p .. n /\ q = e + 1 /\ q - 1 = e /\ q \in p .. n + 1 /\ q \in 1 .. n + 1
        <5>1. e \in p .. n
          BY <3>1, TokensFrom
        <5> HIDE DEF e
        <5>2. q = e + 1
          BY DEF q, e
        <5> QED BY <1>1, <3>1, <5>1, <5>2
      <4>4. \A j \in p .. q - 1 : sql[j] # Mark
        <5>1. ASSUME NEW j \in p .. q - 1, sql[j] = Mark PROVE FALSE
          <6>1. j \in Marks(sql, p) /\ j \notin Marks(sql, q)
            BY <1>1, <3>1, <4>3, <5>1 DEF Marks
          <6> QED BY <4>2, <6>1
        <5> QED BY <5>1
      <4>5. o = SubSeq(sql, p, e) \o r
        <5> HIDE DEF e
        <5>1. g[i][p] = SubSeq(sql, p, q - 1) \o g[i][q]
          BY <4>3, <4>4, PreparedSkip, ZenonT(30)
        <5> QED BY <4>3, <5>1 DEF o
      <4>6. r \in Seq(SqlCharacters)
        BY <4>2, <4>3, PreparedNext
      <4>7. e = n => r = <<>>
        <5>1. e = n => q = n + 1
          BY <4>3
        <5> HIDE DEF e
        <5> QED BY <4>2, <4>3, <5>1, PreparedNext
      <4>8. e < n => r # <<>> /\ r[1] = sql[e + 1]
        <5> SUFFICES ASSUME e < n PROVE r # <<>> /\ r[1] = sql[q]
          BY <4>3
        <5> HIDE DEF e
        <5>1. q <= n /\ q \in 1 .. n /\ q - 1 \in DOMAIN sql /\ q + (-1) = e
          BY <1>1, <3>1, <4>3
        <5>2. sql[e] = SqlQuote
          <6>1. e = ReadString(sql, p + 1).end
            BY <3>9, Zenon DEF e, TokenEnd
          <6>2. p + 1 \in 1 .. n + 1
            BY <1>1, <3>1
          <6> QED BY <6>1, <6>2, StringRead
        <5>3. sql[q] # Mark
          <6> SUFFICES ASSUME sql[q] = Mark PROVE FALSE
            OBVIOUS
          <6>1. q \in Marks(sql, 1)
            BY <5>1 DEF Marks
          <6>2. sql[q + (-1)] \notin {Mark, SqlQuote}
            BY <4>3, <5>1, <6>1 DEF Apart
          <6> QED BY <5>1, <5>2, <6>2
        <5>4. Begins(g[i][q], sql[q])
          BY <4>2, <4>3, <5>1, <5>3, PreparedFirst
        <5> QED BY <5>4 DEF Begins
      <4> HIDE DEF r, e
      <4>9. Tokens(SubSeq(sql, p, e) \o r) = <<TokenAt(sql, p)>> \o Tokens(r)
        <5>1. e = TokenEnd(sql, p)
          BY DEF e
        <5> QED BY <3>1, <3>9, <4>6, <4>7, <4>8, <5>1, StringStays
      <4>10. Tokens(r) = Replaced(f[q], ps, i)
        BY <3>5, <4>2 DEF r
      <4>11. Replaced(f[p], ps, i) = <<t>> \o Replaced(f[q], ps, i)
        BY <3>4, <3>6, <4>1 DEF Led
      <4> QED BY <4>5, <4>9, <4>10, <4>11 DEF o, t
    <3> QED BY <3>7, <3>8, <3>9
  <2> QED BY <2>1, <2>2
<1>3. 1 .. n + 1 \subseteq S
  <2> HIDE DEF S
  <2> QED BY <1>1, <1>2, DownInduction
<1>4. Good(1) /\ 1 \in 1 .. np + 1
  <2>1. 1 \in 1 .. n + 1 /\ 1 \in 1 .. np + 1
    BY <1>1
  <2> HIDE DEF Good
  <2> QED BY <1>3, <2>1
<1> QED BY <1>4

\* The same for a call of execSql.
LEMMA StatementArrives ==
  ASSUME NEW sql \in Statements, NEW ps \in Parameters, ~Unrecognized(sql, ps), Apart(sql),
         Cardinality(MarkTokens(Tokens(sql))) = Cardinality(Marks(sql, 1))
  PROVE  /\ Tokens(PrepareSql(sql, ps)) = Replaced(Tokens(sql), ps, 1)
         /\ Tokens(sql) \in Seq(SqlTokens)
<1>1. sql \in Seq(SqlCharacters)
  BY StatementsAssumption
<1>2. /\ ps \in Seq(Parameter)
      /\ \A k \in 1 .. Len(ps) : ps[k].format = "MySqlLong" =>
            Len(ps[k].value) = 1 /\ ps[k].value[1] # SqlQuote
  <2>1. ps \in Seq(Parameter)
    BY ParametersAssumption DEF Parameter
  <2>2. DOMAIN ps = 1 .. Len(ps)
    BY <2>1
  <2> QED BY <2>1, <2>2, ParametersAssumption
<1>3. Known(sql, ps, 1, 1)
  <2>1. Cardinality(Marks(sql, 1)) \in Nat
    <3>1. 1 \in 1 .. Len(sql) + 1
      BY <1>1
    <3> QED BY <1>1, <3>1, CountMarks
  <2>2. ASSUME NEW j \in 1 .. Len(ps), j < 1 + Cardinality(Marks(sql, 1))
        PROVE  ps[j].format # "other"
    <3>1. j \in DOMAIN ps /\ j <= Cardinality(Marks(sql, 1))
      BY <1>2, <2>1, <2>2
    <3> QED BY <3>1 DEF Unrecognized
  <2> QED BY <2>2 DEF Known
<1>4. PICK g : Prepared(sql, ps, g) /\ PrepareSql(sql, ps) = g[1][1]
  BY <1>2, PreparedExists
<1>5. PICK f : Lexing(sql, f) /\ Tokens(sql) = f[1]
  BY <1>1, LexingExists
<1>6. Tokens(g[1][1]) = Replaced(f[1], ps, 1)
  BY <1>1, <1>2, <1>3, <1>4, <1>5, PreparedTokens
<1>7. f[1] \in Seq(SqlTokens)
  <2>1. 1 \in 1 .. Len(sql) + 1
    BY <1>1
  <2> QED BY <1>1, <1>5, <2>1, TokensFrom
<1> QED BY <1>4, <1>5, <1>6, <1>7

\* With all the parameters, the rank of a mark is the number of its parameter.
LEMMA ReplacedAll ==
  ASSUME NEW ts \in Seq(SqlTokens), NEW ps
  PROVE  Replaced(ts, ps, 1) =
           [k \in DOMAIN ts |->
             IF k \in MarkTokens(ts) /\ Cardinality(MarksUpTo(ts, k)) <= Len(ps)
               THEN ParameterToken(ps[Cardinality(MarksUpTo(ts, k))]) ELSE ts[k]]
<1> DEFINE c(k) == Cardinality(MarksUpTo(ts, k))
<1>1. ASSUME NEW k \in DOMAIN ts PROVE 1 - 1 + c(k) = c(k)
  <2>1. MarksUpTo(ts, k) \subseteq 1 .. Len(ts) /\ Len(ts) \in Nat
    BY DEF MarksUpTo, MarkTokens
  <2>2. c(k) \in Nat
    BY <2>1, OneGreater
  <2> HIDE DEF c
  <2> QED BY <2>2
<1> HIDE DEF c
<1>2. Replaced(ts, ps, 1) =
        [k \in DOMAIN ts |-> IF k \in MarkTokens(ts) /\ 1 - 1 + c(k) <= Len(ps)
                               THEN ParameterToken(ps[1 - 1 + c(k)]) ELSE ts[k]]
  BY DEF Replaced, c
<1>3. Replaced(ts, ps, 1) =
        [k \in DOMAIN ts |-> IF k \in MarkTokens(ts) /\ c(k) <= Len(ps)
                               THEN ParameterToken(ps[c(k)]) ELSE ts[k]]
  BY <1>1, <1>2
<1> QED BY <1>3 DEF c

\* A call of execSql that has returned has sent what PrepareSql makes of its
\* statement, unless it ended the process.
StatementsInv ==
  /\ returned \in BOOLEAN
  /\ call.name = "execSql" => call.sql \in Statements /\ call.parameters \in Parameters
  /\ Returned("execSql") /\ ~outcome.ended =>
       /\ ~Unrecognized(call.sql, call.parameters)
       /\ outcome.sql = PrepareSql(call.sql, call.parameters)

\* No statement has been sent.
LEMMA InitStatements == Init => StatementsInv
<1> SUFFICES ASSUME Init PROVE StatementsInv
  OBVIOUS
<1>1. returned = FALSE
  BY DEF Init
<1>2. call.name = "execSql" => call.sql \in Statements /\ call.parameters \in Parameters
  BY DEF Init
<1> QED BY <1>1, <1>2 DEF StatementsInv, Returned

\* A statement is only the outcome of a call of execSql.
LEMMA StepStatements == StatementsInv /\ [Next]_vars => StatementsInv'
<1> SUFFICES ASSUME StatementsInv, [Next]_vars PROVE StatementsInv'
  OBVIOUS
<1>1. CASE Connect
  BY <1>1 DEF Connect, Returns, StatementsInv, Returned
<1>2. CASE Prepare
  <2>1. /\ call.name = "execSql" /\ returned' = TRUE /\ call' = call
        /\ outcome' = IF Unrecognized(call.sql, call.parameters) THEN [ended |-> TRUE]
                      ELSE [ended |-> FALSE, sql |-> PrepareSql(call.sql, call.parameters)]
    BY <1>2 DEF Prepare, Returns
  <2>2. CASE Unrecognized(call.sql, call.parameters)
    <3>1. outcome'.ended = TRUE
      BY <2>1, <2>2
    <3> QED BY <2>1, <3>1 DEF StatementsInv, Returned
  <2>3. CASE ~Unrecognized(call.sql, call.parameters)
    <3>1. outcome'.sql = PrepareSql(call.sql, call.parameters)
      BY <2>1, <2>3
    <3> QED BY <2>1, <2>3, <3>1 DEF StatementsInv, Returned
  <2> QED BY <2>2, <2>3
<1>3. CASE ReadCell
  BY <1>3 DEF ReadCell, Returns, StatementsInv, Returned
<1>4. CASE Date
  BY <1>4 DEF Date, Returns, StatementsInv, Returned
<1>5. CASE UNCHANGED vars
  BY <1>5 DEF vars, StatementsInv, Returned
<1> QED BY <1>1, <1>2, <1>3, <1>4, <1>5 DEF Next

\* execSqlInLoop (MySQLConnector.cpp) sends a statement that the server reads as
\* the statement of the caller with each mark replaced by the one token that its
\* parameter means, for every statement whose marks are apart and outside of
\* strings and all parameters: nothing a parameter holds ends its string early or
\* is searched for marks.
THEOREM ParametersArriveAsTokens == Spec => []ParametersAreTokens
<1>1. StatementsInv => ParametersAreTokens
  <2> SUFFICES ASSUME StatementsInv, Returned("execSql"), ~outcome.ended
               PROVE  ParametersAreTokens
    BY DEF ParametersAreTokens
  <2>1. PICK sql \in Statements, ps \in Parameters :
          /\ sql = call.sql /\ ps = call.parameters /\ ~Unrecognized(sql, ps)
          /\ outcome.sql = PrepareSql(sql, ps)
    BY DEF StatementsInv, Returned
  <2> DEFINE ts == Tokens(sql)
  <2>2. ASSUME Cardinality(MarkTokens(ts)) = Cardinality(Marks(sql, 1)), Apart(sql)
        PROVE  Tokens(outcome.sql) =
                 [k \in DOMAIN ts |->
                   IF k \in MarkTokens(ts) /\ Cardinality(MarksUpTo(ts, k)) <= Len(ps)
                     THEN ParameterToken(ps[Cardinality(MarksUpTo(ts, k))]) ELSE ts[k]]
    <3>1. Tokens(PrepareSql(sql, ps)) = Replaced(ts, ps, 1) /\ ts \in Seq(SqlTokens)
      BY <2>1, <2>2, StatementArrives
    <3> HIDE DEF ts
    <3> QED BY <2>1, <3>1, ReplacedAll
  <2> QED BY <2>1, <2>2, Zenon DEF ParametersAreTokens, MarkTokens, MarksUpTo, MarkToken, Apart
<1> QED BY <1>1, InitStatements, StepStatements, PTL DEF Spec

(***************************************************************************)
(* Connection strings.                                                     *)
(***************************************************************************)
\* The characters of connection strings.
ConnText == Word \cup ConnCharacters \cup {Blank, Quote, Backslash, Equals}

\* The characters that mean something to the expression are different.
LEMMA ConnCharactersDiffer ==
  /\ Blank # Quote /\ Blank # Backslash /\ Blank # Equals /\ Blank # Newline
  /\ Quote # Backslash /\ Quote # Equals /\ Quote # Newline
  /\ Backslash # Equals /\ Backslash # Newline /\ Equals # Newline
BY Zenon DEF Blank, Quote, Backslash, Equals, Newline

\* None of them is part of a key, and a connection string is one line.
LEMMA ConnTextIs ==
  /\ Newline \notin ConnText
  /\ \A c \in Word : c \notin {Blank, Newline, Quote, Backslash, Equals}
<1>1. \A c \in Word : c \notin {Blank, Newline, Quote, Backslash, Equals}
  BY ConnCharactersAssumption, Zenon
<1>2. Newline \notin ConnText
  BY <1>1, ConnCharactersAssumption, ConnCharactersDiffer, Zenon DEF ConnText
<1> QED BY <1>1, <1>2

\* The greatest and the least of a set of numbers.
LEMMA MaxIs ==
  ASSUME NEW S, S \subseteq Int, NEW m \in S, \A y \in S : m >= y
  PROVE  Max(S) = m
<1> DEFINE x == Max(S)
<1>1. x \in S /\ \A y \in S : x >= y
  BY Zenon DEF Max
<1> HIDE DEF x
<1>2. x >= m /\ m >= x /\ x \in Int /\ m \in Int
  BY <1>1
<1> QED BY <1>2 DEF x

\* The least of a set of numbers.
LEMMA MinIs ==
  ASSUME NEW S, S \subseteq Int, NEW m \in S, \A y \in S : m <= y
  PROVE  Min(S) = m
<1> DEFINE x == Min(S)
<1>1. x \in S /\ \A y \in S : x <= y
  BY Zenon DEF Min
<1> HIDE DEF x
<1>2. x <= m /\ m <= x /\ x \in Int /\ m \in Int
  BY <1>1
<1> QED BY <1>2 DEF x

\* A set of numbers between two bounds has a greatest and a least one.
LEMMA MaxExists ==
  ASSUME NEW a \in Nat, NEW b \in Nat, NEW S, S \subseteq a .. b, S # {}
  PROVE  Max(S) \in S /\ (\A y \in S : Max(S) >= y) /\ Min(S) \in S /\ \A y \in S : Min(S) <= y
<1>1. \E x \in S : \A y \in S : x >= y
  <2> DEFINE R == {b - x : x \in S}
  <2>1. R \subseteq Nat /\ R # {}
    OBVIOUS
  <2>2. PICK z \in R : \A y \in R : z <= y
    <3> HIDE DEF R
    <3> QED BY <2>1, Least
  <2>3. PICK x \in S : z = b - x
    OBVIOUS
  <2>4. ASSUME NEW y \in S PROVE x >= y
    <3>1. b - x <= b - y
      BY <2>2, <2>3
    <3>2. x \in Int /\ y \in Int
      OBVIOUS
    <3> QED BY <3>1, <3>2
  <2> QED BY <2>4
<1>2. \E x \in S : \A y \in S : x <= y
  <2>1. S \subseteq Nat
    OBVIOUS
  <2> QED BY <2>1, Least
<1>3. Max(S) \in S /\ \A y \in S : Max(S) >= y
  BY <1>1, Zenon DEF Max
<1>4. Min(S) \in S /\ \A y \in S : Min(S) <= y
  BY <1>2, Zenon DEF Min
<1> QED BY <1>3, <1>4

\* Where a run of characters ends.
LEMMA RunEndIs ==
  ASSUME NEW s, Len(s) \in Nat, NEW i \in Nat \ {0}, NEW e \in Nat, i - 1 <= e, e <= Len(s), NEW chars,
         \A k \in i .. e : s[k] \in chars, e = Len(s) \/ s[e + 1] \notin chars
  PROVE  RunEnd(s, i, chars) = e
<1> DEFINE S == {i - 1} \cup {j \in i .. Len(s) : \A k \in i .. j : s[k] \in chars}
<1>1. S \subseteq Int
  OBVIOUS
<1>2. e \in S
  <2>1. CASE e = i - 1
    BY <2>1
  <2>2. CASE e # i - 1
    <3>1. e \in i .. Len(s)
      BY <2>2
    <3> QED BY <3>1
  <2> QED BY <2>1, <2>2
<1>3. ASSUME NEW j \in S PROVE e >= j
  <2>1. CASE j = i - 1
    BY <2>1
  <2>2. CASE j # i - 1
    <3>1. j \in i .. Len(s) /\ \A k \in i .. j : s[k] \in chars
      BY <2>2
    <3>2. SUFFICES ASSUME ~(e >= j) PROVE FALSE
      OBVIOUS
    <3>3. e + 1 \in i .. j /\ e # Len(s)
      BY <3>1, <3>2
    <3> QED BY <3>1, <3>3
  <2> QED BY <2>1, <2>2
<1> HIDE DEF S
<1>4. Max(S) = e
  BY <1>1, <1>2, <1>3, MaxIs
<1> QED BY <1>4 DEF RunEnd, S

\* Where a run up to a character ends.
LEMMA RunUntilIs ==
  ASSUME NEW s, Len(s) \in Nat, NEW i \in Nat \ {0}, NEW e \in Nat, i - 1 <= e, e <= Len(s), NEW stop,
         \A k \in i .. e : s[k] \notin stop, e = Len(s) \/ s[e + 1] \in stop
  PROVE  RunUntil(s, i, stop) = e
<1> DEFINE S == {i - 1} \cup {j \in i .. Len(s) : \A k \in i .. j : s[k] \notin stop}
<1>1. S \subseteq Int
  OBVIOUS
<1>2. e \in S
  <2>1. CASE e = i - 1
    BY <2>1
  <2>2. CASE e # i - 1
    <3>1. e \in i .. Len(s)
      BY <2>2
    <3> QED BY <3>1
  <2> QED BY <2>1, <2>2
<1>3. ASSUME NEW j \in S PROVE e >= j
  <2>1. CASE j = i - 1
    BY <2>1
  <2>2. CASE j # i - 1
    <3>1. j \in i .. Len(s) /\ \A k \in i .. j : s[k] \notin stop
      BY <2>2
    <3>2. SUFFICES ASSUME ~(e >= j) PROVE FALSE
      OBVIOUS
    <3>3. e + 1 \in i .. j /\ e # Len(s)
      BY <3>1, <3>2
    <3> QED BY <3>1, <3>3
  <2> QED BY <2>1, <2>2
<1> HIDE DEF S
<1>4. Max(S) = e
  BY <1>1, <1>2, <1>3, MaxIs
<1> QED BY <1>4 DEF RunUntil, S

\* Wherever they end, it is in the text.
LEMMA RunsEnd ==
  ASSUME NEW s, Len(s) \in Nat, NEW i \in Nat \ {0}, NEW chars
  PROVE  /\ RunEnd(s, i, chars) \in Nat /\ i - 1 <= RunEnd(s, i, chars)
         /\ RunEnd(s, i, chars) <= Len(s) \/ RunEnd(s, i, chars) = i - 1
         /\ RunUntil(s, i, chars) \in Nat /\ i - 1 <= RunUntil(s, i, chars)
         /\ RunUntil(s, i, chars) <= Len(s) \/ RunUntil(s, i, chars) = i - 1
<1> DEFINE S == {i - 1} \cup {j \in i .. Len(s) : \A k \in i .. j : s[k] \in chars}
           R == {i - 1} \cup {j \in i .. Len(s) : \A k \in i .. j : s[k] \notin chars}
           b == Len(s) + i
<1>1. b \in Nat /\ i - 1 \in Nat /\ S \subseteq i - 1 .. b /\ R \subseteq i - 1 .. b
  OBVIOUS
<1>2. /\ S # {} /\ R # {}
      /\ \A x \in S : x \in Nat /\ i - 1 <= x /\ (x <= Len(s) \/ x = i - 1)
      /\ \A x \in R : x \in Nat /\ i - 1 <= x /\ (x <= Len(s) \/ x = i - 1)
  OBVIOUS
<1>3. RunEnd(s, i, chars) = Max(S) /\ RunUntil(s, i, chars) = Max(R)
  BY DEF RunEnd, RunUntil
<1> HIDE DEF S, R, b
<1>4. Max(S) \in S /\ Max(R) \in R
  BY <1>1, <1>2, MaxExists
<1> QED BY <1>2, <1>3, <1>4

\* Where the characters of v are in x, its escaped text: character k behind L[k - 1].
ValueLayout(v, x, L) ==
  /\ L \in [0 .. Len(v) -> Nat] /\ L[0] = 0 /\ L[Len(v)] = Len(x)
  /\ \A k \in 1 .. Len(v) :
       /\ L[k] <= Len(x)
       /\ v[k] \in {Quote, Backslash} =>
            L[k] = L[k - 1] + 2 /\ x[L[k - 1] + 1] = Backslash /\ x[L[k - 1] + 2] = v[k]
       /\ v[k] \notin {Quote, Backslash} => L[k] = L[k - 1] + 1 /\ x[L[k - 1] + 1] = v[k]

\* Every character has its place, and nothing else is in the escaped text.
LEMMA ValueLayoutExists ==
  ASSUME NEW C, Backslash \in C, NEW v \in Seq(C)
  PROVE  EscapeValue(v) \in Seq(C) /\ \E L : ValueLayout(v, EscapeValue(v), L)
<1> DEFINE E == [i \in DOMAIN v |->
                   IF v[i] \in {Quote, Backslash} THEN <<Backslash, v[i]>> ELSE <<v[i]>>]
<1>1. DOMAIN v = 1 .. Len(v) /\ Len(v) \in Nat
  OBVIOUS
<1>2. E \in Seq(Seq(C)) /\ Len(E) = Len(v)
  <2>1. \A i \in DOMAIN v : v[i] \in C
    OBVIOUS
  <2>2. \A i \in DOMAIN v : <<Backslash, v[i]>> \in Seq(C) /\ <<v[i]>> \in Seq(C)
    BY <2>1
  <2>3. E \in [1 .. Len(v) -> Seq(C)] /\ Len(v) \in Nat
    BY <2>2
  <2> HIDE DEF E
  <2> QED BY <2>3
<1> DEFINE x == EscapeValue(v)
<1>3. x = FlattenSeq(E)
  BY DEF EscapeValue
<1>4. \A k \in 1 .. Len(v) : /\ v[k] \in {Quote, Backslash} => E[k] = <<Backslash, v[k]>>
                             /\ v[k] \notin {Quote, Backslash} => E[k] = <<v[k]>>
  BY <1>1
<1> HIDE DEF E, x
<1>5. x \in Seq(C)
  BY <1>2, <1>3, FlattenType
<1>6. PICK L : FlatLayout(E, L)
  BY <1>2, FlatLayoutExists
<1>7. /\ L \in [0 .. Len(v) -> Nat] /\ L[0] = 0 /\ L[Len(v)] = Len(x)
      /\ \A k \in 1 .. Len(v) :
           /\ L[k] = L[k - 1] + Len(E[k]) /\ L[k] <= Len(x)
           /\ \A j \in 1 .. Len(E[k]) : x[L[k - 1] + j] = E[k][j]
  BY <1>2, <1>3, <1>6 DEF FlatLayout
<1>8. ASSUME NEW k \in 1 .. Len(v)
      PROVE  /\ L[k] <= Len(x)
             /\ v[k] \in {Quote, Backslash} =>
                  L[k] = L[k - 1] + 2 /\ x[L[k - 1] + 1] = Backslash /\ x[L[k - 1] + 2] = v[k]
             /\ v[k] \notin {Quote, Backslash} => L[k] = L[k - 1] + 1 /\ x[L[k - 1] + 1] = v[k]
  <2>1. CASE v[k] \in {Quote, Backslash}
    <3>1. E[k] = <<Backslash, v[k]>>
      BY <1>4, <2>1
    <3>2. Len(E[k]) = 2 /\ E[k][1] = Backslash /\ E[k][2] = v[k]
      BY <3>1
    <3>3. 1 \in 1 .. 2 /\ 2 \in 1 .. 2
      OBVIOUS
    <3> QED BY <1>7, <2>1, <3>2, <3>3
  <2>2. CASE v[k] \notin {Quote, Backslash}
    <3>1. E[k] = <<v[k]>>
      BY <1>4, <2>2
    <3>2. Len(E[k]) = 1 /\ E[k][1] = v[k]
      BY <3>1
    <3>3. 1 \in 1 .. 1
      OBVIOUS
    <3> QED BY <1>7, <2>2, <3>2, <3>3
  <2> QED BY <2>1, <2>2
<1>9. ValueLayout(v, x, L)
  BY <1>7, <1>8 DEF ValueLayout
<1> QED BY <1>5, <1>9 DEF x

\* A value that is put between quotes.
IsQuoted(raw) == raw[1] = Quote /\ raw[Len(raw)] = Quote

\* The quotes are dropped,
Drops(raw, i) == IsQuoted(raw) /\ i \in {1, Len(raw)}

\* and backslashes.
Paired(raw, i) == raw[i] = Backslash /\ i # Len(raw)

\* f is From of Unescape.
Unescaping(raw, f) ==
  f = [i \in 1 .. Len(raw) + 2 |->
        IF i > Len(raw) THEN <<>>
        ELSE IF Drops(raw, i) THEN f[i + 1]
        ELSE IF Paired(raw, i) THEN <<raw[i + 1]>> \o f[i + 2] ELSE <<raw[i]>> \o f[i + 1]]

\* There is such a function.
LEMMA UnescapingExists ==
  ASSUME NEW C, NEW raw \in Seq(C)
  PROVE  \E f : Unescaping(raw, f) /\ Unescape(raw) = f[1]
<1> DEFINE n == Len(raw)
           D == 1 .. n + 2
           V == Seq(C)
           two(h) == ~Drops(raw, h) /\ Paired(raw, h)
           Put(h, x) == IF Drops(raw, h) THEN x
                        ELSE IF Paired(raw, h) THEN <<raw[h + 1]>> \o x ELSE <<raw[h]>> \o x
           stop == {h \in D : h > n}
           val == [h \in D |-> <<>>]
           step == [h \in D |-> [x \in V |-> Put(h, x)]]
           jump == [h \in D |-> IF two(h) THEN h + 2 ELSE h + 1]
           rank == [h \in D |-> n + 2 - h]
<1>1. n \in Nat /\ n + 2 \in Nat
  OBVIOUS
<1>2. \A h \in D : rank[h] \in Nat /\ rank[h] < n + 2
  BY <1>1
<1>3. ASSUME NEW h \in D
      PROVE  IF h \in stop THEN val[h] \in V
             ELSE jump[h] \in D /\ rank[jump[h]] < rank[h] /\ step[h] \in [V -> V]
  <2>1. CASE h \in stop
    <3>1. val[h] \in V
      OBVIOUS
    <3> QED BY <2>1, <3>1
  <2>2. CASE h \notin stop
    <3>1. h \in 1 .. n /\ h <= n
      BY <1>1, <2>2
    <3>2. jump[h] \in D /\ rank[jump[h]] < rank[h]
      <4>1. jump[h] = h + 2 \/ jump[h] = h + 1
        BY <3>1
      <4>2. h + 2 \in D /\ h + 1 \in D
        BY <1>1, <3>1
      <4> QED BY <1>1, <3>1, <4>1, <4>2
    <3>3. ASSUME NEW x \in V PROVE Put(h, x) \in V
      <4>1. raw[h] \in C /\ (Paired(raw, h) => raw[h + 1] \in C)
        BY <1>1, <3>1 DEF Paired
      <4>2. <<raw[h]>> \o x \in V /\ (Paired(raw, h) => <<raw[h + 1]>> \o x \in V)
        BY <4>1
      <4> HIDE DEF V
      <4> QED BY <4>2
    <3>4. step[h] \in [V -> V]
      <4> HIDE DEF V, Put
      <4> QED BY <3>3
    <3> QED BY <2>2, <3>2, <3>4
  <2> QED BY <2>1, <2>2
<1>4. \E f \in [D -> V] : Recursive(D, stop, val, step, jump, f)
  <2> HIDE DEF D, V, stop, val, step, jump, rank
  <2>1. \A h \in D : IF h \in stop THEN val[h] \in V
             ELSE jump[h] \in D /\ rank[jump[h]] < rank[h] /\ step[h] \in [V -> V]
    BY <1>3
  <2> QED BY <1>1, <1>2, <2>1, RecursionExists
<1>5. PICK f \in [D -> V] : Recursive(D, stop, val, step, jump, f)
  BY <1>4
<1>6. ASSUME NEW i \in D
      PROVE  f[i] = IF i > Len(raw) THEN <<>>
                    ELSE IF Drops(raw, i) THEN f[i + 1]
                    ELSE IF Paired(raw, i) THEN <<raw[i + 1]>> \o f[i + 2] ELSE <<raw[i]>> \o f[i + 1]
  <2>1. f[i] = IF i \in stop THEN val[i] ELSE step[i][f[jump[i]]]
    <3> HIDE DEF D, V, stop, val, step, jump
    <3> QED BY <1>5 DEF Recursive
  <2>2. CASE i > n
    BY <2>1, <2>2
  <2>3. CASE ~(i > n)
    <3>1. i \notin stop /\ jump[i] \in D
      BY <1>3, <2>3
    <3>2. f[jump[i]] \in V
      <4> HIDE DEF D, V, jump
      <4> QED BY <1>5, <3>1
    <3>3. f[i] = Put(i, f[jump[i]])
      <4> DEFINE x == f[jump[i]]
      <4>1. x \in V /\ f[i] = step[i][x]
        BY <2>1, <3>1, <3>2
      <4> HIDE DEF x, Put, V
      <4>2. step[i][x] = Put(i, x)
        BY <4>1
      <4>3. f[i] = Put(i, x)
        BY <4>1, <4>2
      <4> QED BY <4>3 DEF x
    <3>4. jump[i] = IF two(i) THEN i + 2 ELSE i + 1
      OBVIOUS
    <3> HIDE DEF D, V, jump, stop, val, step
    <3> QED BY <2>3, <3>3, <3>4, Zenon
  <2> QED BY <2>2, <2>3
<1>7. Unescaping(raw, f)
  <2>1. f = [i \in D |-> f[i]]
    <3> HIDE DEF V, D
    <3> QED BY <1>5
  <2>2. f = [i \in D |-> IF i > Len(raw) THEN <<>>
                    ELSE IF Drops(raw, i) THEN f[i + 1]
                    ELSE IF Paired(raw, i) THEN <<raw[i + 1]>> \o f[i + 2] ELSE <<raw[i]>> \o f[i + 1]]
    <3> HIDE DEF D
    <3> QED BY <1>6, <2>1, Zenon
  <2> QED BY <2>2, Zenon DEF Unescaping
<1> DEFINE g == CHOOSE h : Unescaping(raw, h)
<1>8. Unescaping(raw, g)
  BY <1>7
<1>9. Unescape(raw) = g[1]
  BY Zenon DEF Unescape, Unescaping, Drops, Paired, IsQuoted
<1> QED BY <1>8, <1>9

\* What is left from h on, given what is left from behind it on.
UnescapedAt(raw, f, h) ==
  /\ h > Len(raw) => f[h] = <<>>
  /\ ~(h > Len(raw)) /\ Drops(raw, h) => f[h] = f[h + 1]
  /\ ~(h > Len(raw)) /\ ~Drops(raw, h) /\ Paired(raw, h) => f[h] = <<raw[h + 1]>> \o f[h + 2]
  /\ ~(h > Len(raw)) /\ ~Drops(raw, h) /\ ~Paired(raw, h) => f[h] = <<raw[h]>> \o f[h + 1]

\* What is left from each position on.
LEMMA UnescapingIs ==
  ASSUME NEW raw, NEW f, Unescaping(raw, f), NEW h \in 1 .. Len(raw) + 2
  PROVE  UnescapedAt(raw, f, h)
<1>1. f[h] = IF h > Len(raw) THEN <<>>
             ELSE IF Drops(raw, h) THEN f[h + 1]
             ELSE IF Paired(raw, h) THEN <<raw[h + 1]>> \o f[h + 2] ELSE <<raw[h]>> \o f[h + 1]
  BY Zenon DEF Unescaping
<1> QED BY <1>1, Zenon DEF UnescapedAt

\* In raw, x is behind q quotes and in front of as many.
RawIs(raw, x, q) ==
  /\ Len(raw) = Len(x) + 2 * q /\ (IsQuoted(raw) <=> q = 1) /\ q \in {0, 1}
  /\ \A j \in 1 .. Len(x) : raw[q + j] = x[j]

\* The value that was escaped, and perhaps quoted, is left.
LEMMA UnescapeValue ==
  ASSUME NEW C, NEW raw \in Seq(C), NEW v \in Seq(C), NEW x \in Seq(C), NEW L, ValueLayout(v, x, L),
         NEW q, RawIs(raw, x, q)
  PROVE  Unescape(raw) = v
<1> DEFINE n == Len(v)
           m == Len(x)
           last == Len(raw)
           w(k) == SubSeq(v, k, n)
<1>1. PICK f : Unescaping(raw, f) /\ Unescape(raw) = f[1]
  BY UnescapingExists
<1> DEFINE at(k) == q + 1 + L[k - 1]
           Good(k) == f[at(k)] = w(k)
           S == {k \in 1 .. n + 1 : Good(k)}
<1>2. n \in Nat /\ n + 1 \in Nat /\ m \in Nat /\ last \in Nat
  OBVIOUS
<1>3. /\ q \in {0, 1} /\ q \in Nat /\ last = m + 2 * q /\ (IsQuoted(raw) <=> q = 1)
      /\ \A j \in 1 .. m : raw[q + j] = x[j]
  BY DEF RawIs
<1>4. /\ L \in [0 .. n -> Nat] /\ L[0] = 0 /\ L[n] = m
      /\ \A k \in 1 .. n :
           /\ L[k] <= m
           /\ v[k] \in {Quote, Backslash} =>
                L[k] = L[k - 1] + 2 /\ x[L[k - 1] + 1] = Backslash /\ x[L[k - 1] + 2] = v[k]
           /\ v[k] \notin {Quote, Backslash} => L[k] = L[k - 1] + 1 /\ x[L[k - 1] + 1] = v[k]
  BY DEF ValueLayout
<1>5. \A h \in 1 .. last + 2 : UnescapedAt(raw, f, h)
  BY <1>1, UnescapingIs
<1>6. ASSUME NEW h \in 1 .. n + 1, \A k \in h + 1 .. n + 1 : k \in S PROVE h \in S
  <2> HIDE DEF S, w, m, last
  <2> DEFINE l == L[h - 1]
             p == q + 1 + l
  <2>1. l \in Nat
    <3>1. h - 1 \in 0 .. n /\ L \in [0 .. n -> Nat]
      BY <1>2, <1>4
    <3> QED BY <3>1
  <2>2. p = at(h)
    OBVIOUS
  <2>3. CASE h = n + 1
    <3>1. l = m
      BY <1>2, <1>4, <2>3
    <3> HIDE DEF l
    <3>2. w(h) = <<>>
      BY <1>2, <2>3 DEF w
    <3>3. f[p] = <<>>
      <4>1. CASE q = 0
        <5>1. p \in 1 .. last + 2 /\ p > last
          BY <1>2, <1>3, <3>1, <4>1
        <5>2. UnescapedAt(raw, f, p)
          BY <1>5, <5>1
        <5> HIDE DEF p
        <5> QED BY <5>1, <5>2 DEF UnescapedAt, last
      <4>2. CASE q = 1
        <5>1. /\ p \in 1 .. last + 2 /\ ~(p > last) /\ p = last
              /\ p + 1 \in 1 .. last + 2 /\ p + 1 > last
          BY <1>2, <1>3, <3>1, <4>2
        <5>2. UnescapedAt(raw, f, p) /\ UnescapedAt(raw, f, p + 1)
          BY <1>5, <5>1
        <5> HIDE DEF p
        <5>3. Drops(raw, p)
          BY <1>3, <4>2, <5>1 DEF Drops, last
        <5> QED BY <5>1, <5>2, <5>3 DEF UnescapedAt, last
      <4> QED BY <1>3, <4>1, <4>2
    <3> HIDE DEF p
    <3>4. Good(h)
      BY <2>2, <3>2, <3>3
    <3> QED BY <3>4 DEF S
  <2>4. CASE h # n + 1
    <3>1. h \in 1 .. n /\ h + 1 \in h + 1 .. n + 1 /\ h + 1 - 1 = h
      BY <1>2, <2>4
    <3> DEFINE r == L[h]
               c == v[h]
    <3>2. /\ r <= m /\ c \in C
          /\ c \in {Quote, Backslash} => r = l + 2 /\ x[l + 1] = Backslash /\ x[l + 2] = c
          /\ c \notin {Quote, Backslash} => r = l + 1 /\ x[l + 1] = c
      BY <1>4, <3>1
    <3>3. w(h) = <<c>> \o w(h + 1)
      BY <3>1, RestOf DEF w
    <3>4. f[q + 1 + r] = w(h + 1)
      <4>1. Good(h + 1)
        <5>1. h + 1 \in S
          BY <1>6, <3>1
        <5> HIDE DEF Good
        <5> QED BY <5>1 DEF S
      <4>2. at(h + 1) = q + 1 + r
        BY <3>1
      <4> HIDE DEF r
      <4> QED BY <4>1, <4>2
    <3> HIDE DEF l, r, c
    <3>5. l + 1 \in 1 .. m /\ (c \in {Quote, Backslash} => l + 2 \in 1 .. m)
      BY <1>2, <2>1, <3>2
    <3>6. /\ p \in 1 .. last + 2 /\ ~(p > last) /\ p = q + (l + 1) /\ p + 1 = q + (l + 2)
          /\ q = 1 => p # 1 /\ p # last
          /\ p + 2 = q + 1 + (l + 2) /\ p + 1 = q + 1 + (l + 1)
          /\ c \in {Quote, Backslash} => p # last
      BY <1>2, <1>3, <2>1, <3>5
    <3>7. UnescapedAt(raw, f, p)
      BY <1>5, <3>6
    <3>8. ~Drops(raw, p)
      BY <1>3, <3>6 DEF Drops, last
    <3>9. f[p] = <<c>> \o w(h + 1)
      <4>1. CASE c \in {Quote, Backslash}
        <5>1. raw[p] = Backslash /\ raw[p + 1] = c
          BY <1>3, <3>2, <3>5, <3>6, <4>1
        <5>2. Paired(raw, p)
          BY <3>6, <4>1, <5>1 DEF Paired, last
        <5>3. p + 2 = q + 1 + r
          BY <3>2, <3>6, <4>1
        <5> HIDE DEF p
        <5> QED BY <3>4, <3>6, <3>7, <3>8, <5>1, <5>2, <5>3 DEF UnescapedAt, last
      <4>2. CASE c \notin {Quote, Backslash}
        <5>1. raw[p] = c
          BY <1>3, <3>2, <3>5, <3>6, <4>2
        <5>2. ~Paired(raw, p)
          BY <4>2, <5>1 DEF Paired
        <5>3. p + 1 = q + 1 + r
          BY <3>2, <3>6, <4>2
        <5> HIDE DEF p
        <5> QED BY <3>4, <3>6, <3>7, <3>8, <5>1, <5>2, <5>3 DEF UnescapedAt, last
      <4> QED BY <4>1, <4>2
    <3> HIDE DEF p
    <3>10. Good(h)
      BY <2>2, <3>3, <3>9
    <3> QED BY <3>10 DEF S
  <2> QED BY <2>3, <2>4
<1>7. 1 .. n + 1 \subseteq S
  <2> HIDE DEF S
  <2> QED BY <1>2, <1>6, DownInduction
<1>8. Good(1)
  <2>1. 1 \in 1 .. n + 1
    BY <1>2
  <2> HIDE DEF Good
  <2> QED BY <1>7, <2>1
<1>9. w(1) = v
  OBVIOUS
<1>10. f[q + 1] = v
  <2>1. 1 - 1 = 0 /\ L[0] = 0 /\ q + 1 + 0 = q + 1
    BY <1>3, <1>4
  <2>2. at(1) = q + 1
    BY <2>1
  <2> HIDE DEF at, w
  <2> QED BY <1>8, <1>9, <2>2
<1>11. f[1] = f[q + 1]
  <2>1. CASE q = 0
    <3>1. q + 1 = 1
      BY <2>1
    <3> QED BY <3>1
  <2>2. CASE q = 1
    <3>1. 1 \in 1 .. last + 2 /\ ~(1 > last) /\ 1 + 1 = q + 1
      BY <1>2, <1>3, <2>2
    <3>2. UnescapedAt(raw, f, 1)
      BY <1>5, <3>1
    <3>3. Drops(raw, 1)
      BY <1>3, <2>2 DEF Drops
    <3>4. f[1] = f[1 + 1]
      BY <3>1, <3>2, <3>3, Zenon DEF UnescapedAt
    <3> QED BY <3>1, <3>4
  <2> QED BY <1>3, <2>1, <2>2
<1> QED BY <1>1, <1>10, <1>11

\* How many blanks are on either side of the equals sign, and how many quotes on
\* either side of the value.
Blanks(how) == IF how = "spaced" THEN 1 ELSE 0
Quotes(how) == IF how = "quoted" THEN 1 ELSE 0

\* Where the value of a parameter begins that is behind d, and the blank behind it.
ValueAt(d, key, how)    == d + Len(key) + 2 * Blanks(how) + 2
ItemEnd(d, key, v, how) == ValueAt(d, key, how) + Len(EscapeValue(v)) + 2 * Quotes(how)

\* The parameter is in s behind d, and a blank behind it.
ItemAt(s, d, key, v, how) ==
  LET k == d + Len(key)
      z == ValueAt(d, key, how)
      y == EscapeValue(v)
  IN /\ ItemEnd(d, key, v, how) <= Len(s) /\ s[ItemEnd(d, key, v, how)] = Blank
     /\ \A j \in 1 .. Len(key) : s[d + j] = key[j]
     /\ Blanks(how) = 1 => s[k + 1] = Blank /\ s[k + 3] = Blank
     /\ s[k + Blanks(how) + 1] = Equals
     /\ Quotes(how) = 1 => s[z] = Quote /\ s[z + Len(y) + 1] = Quote
     /\ \A j \in 1 .. Len(y) : s[z + Quotes(how) - 1 + j] = y[j]

\* A parameter with its key, value and spelling.
Items == (Seq(Word) \ {<<>>}) \X Seq(ConnCharacters) \X {"plain", "spaced", "quoted"}

\* The text x, of characters of C, is a, y and b in a row.
Around(C, a, y, b, x) ==
  /\ x \in Seq(C) /\ Len(x) = Len(a) + Len(y) + Len(b)
  /\ \A j \in 1 .. Len(a) : x[j] = a[j]
  /\ \A j \in 1 .. Len(y) : x[Len(a) + j] = y[j]
  /\ \A j \in 1 .. Len(b) : x[Len(a) + Len(y) + j] = b[j]

\* Three texts in a row are that.
LEMMA ThreeTexts ==
  ASSUME NEW C, NEW a \in Seq(C), NEW y \in Seq(C), NEW b \in Seq(C)
  PROVE  Around(C, a, y, b, a \o y \o b)
<1> DEFINE o == a \o y
           x == o \o b
<1>1. InARow(C, a, y, o)
  BY TwoTexts
<1>2. o \in Seq(C)
  BY <1>1 DEF InARow
<1> HIDE DEF o
<1>3. InARow(C, o, b, x)
  BY <1>2, TwoTexts
<1> HIDE DEF x
<1>4. /\ Len(o) = Len(a) + Len(y) /\ \A k \in 1 .. Len(a) : o[k] = a[k]
      /\ \A k \in 1 .. Len(y) : o[Len(a) + k] = y[k]
  BY <1>1 DEF InARow
<1>5. /\ x \in Seq(C) /\ Len(x) = Len(o) + Len(b) /\ \A k \in 1 .. Len(o) : x[k] = o[k]
      /\ \A k \in 1 .. Len(b) : x[Len(o) + k] = b[k]
  BY <1>3 DEF InARow
<1>6. Len(a) \in Nat /\ Len(y) \in Nat /\ Len(b) \in Nat
  OBVIOUS
<1>7. \A k \in 1 .. Len(a) : x[k] = a[k]
  <2>1. \A k \in 1 .. Len(a) : k \in 1 .. Len(o)
    BY <1>4, <1>6
  <2> QED BY <1>4, <1>5, <2>1
<1>8. \A k \in 1 .. Len(y) : x[Len(a) + k] = y[k]
  <2>1. \A k \in 1 .. Len(y) : Len(a) + k \in 1 .. Len(o)
    BY <1>4, <1>6
  <2> QED BY <1>4, <1>5, <2>1
<1>9. Around(C, a, y, b, x)
  BY <1>4, <1>5, <1>7, <1>8 DEF Around
<1> QED BY <1>9 DEF x, o

\* The text of a parameter is its key, an equals sign and its value.
LEMMA ItemText ==
  ASSUME NEW key \in Seq(Word) \ {<<>>}, NEW v \in Seq(ConnCharacters),
         NEW how \in {"plain", "spaced", "quoted"},
         NEW x, x = Spelling(key, v, how) \o <<Blank>>
  PROVE  x \in Seq(ConnText) /\ Len(x) = ItemEnd(0, key, v, how) /\ ItemAt(x, 0, key, v, how)
<1> DEFINE y == EscapeValue(v)
           k == Len(key)
           m == Len(y)
<1>1. key \in Seq(ConnText) /\ k \in Nat /\ k >= 1
  BY DEF ConnText
<1>2. y \in Seq(ConnText) /\ m \in Nat
  <2>1. v \in Seq(ConnText) /\ Backslash \in ConnText
    BY DEF ConnText
  <2>2. y \in Seq(ConnText)
    BY <2>1, ValueLayoutExists
  <2> QED BY <2>2
<1>3. Blank \in ConnText /\ Equals \in ConnText /\ Quote \in ConnText
  BY DEF ConnText
<1>4. <<Blank>> \in Seq(ConnText) /\ Len(<<Blank>>) = 1 /\ <<Blank>>[1] = Blank /\ 1 \in 1 .. 1
  BY <1>3
<1> HIDE DEF y, k, m
<1>5. CASE how = "plain"
  <2> DEFINE g == <<Equals>>
             a == key \o g
  <2>1. g \in Seq(ConnText) /\ Len(g) = 1 /\ g[1] = Equals
    BY <1>3
  <2> HIDE DEF g
  <2>2. InARow(ConnText, key, g, a)
    BY <1>1, <2>1, TwoTexts
  <2> HIDE DEF a
  <2>3. a \in Seq(ConnText) /\ Len(a) = k + 1 /\ (\A j \in 1 .. k : a[j] = key[j]) /\ a[k + 1] = Equals
    BY <1>4, <2>1, <2>2 DEF InARow, k
  <2>4. x = a \o y \o <<Blank>>
    BY <1>5 DEF Spelling, a, g, y
  <2>5. Around(ConnText, a, y, <<Blank>>, x)
    BY <1>2, <1>4, <2>3, <2>4, ThreeTexts
  <2>6. /\ x \in Seq(ConnText) /\ Len(x) = (k + 1) + m + 1 /\ \A j \in 1 .. k + 1 : x[j] = a[j]
        /\ \A j \in 1 .. m : x[(k + 1) + j] = y[j]
        /\ x[(k + 1) + m + 1] = Blank
    BY <1>4, <2>3, <2>5 DEF Around, m
  <2>7. Blanks(how) = 0 /\ Quotes(how) = 0 /\ ValueAt(0, key, how) = k + 2 /\ ItemEnd(0, key, v, how) = k + 2 + m
    BY <1>1, <1>2, <1>5 DEF Blanks, Quotes, ValueAt, ItemEnd, k, m, y
  <2>8. /\ Len(x) = k + 2 + m /\ x[k + 2 + m] = Blank /\ \A j \in 1 .. k : x[0 + j] = key[j]
        /\ x[0 + k + 0 + 1] = Equals /\ \A j \in 1 .. m : x[k + 2 + 0 - 1 + j] = y[j]
    <3>1. (k + 1) + m + 1 = k + 2 + m /\ 0 + k + 0 + 1 = k + 1 /\ k + 1 \in 1 .. k + 1
      BY <1>1, <1>2
    <3>2. \A j \in 1 .. m : k + 2 + 0 - 1 + j = (k + 1) + j
      BY <1>1, <1>2
    <3>3. \A j \in 1 .. k : 0 + j = j /\ j \in 1 .. k + 1
      BY <1>1
    <3> QED BY <2>3, <2>6, <3>1, <3>2, <3>3
  <2>9. ItemAt(x, 0, key, v, how)
    <3> DEFINE kk == 0 + Len(key)
               zz == ValueAt(0, key, how)
               ee == ItemEnd(0, key, v, how)
               bb == Blanks(how)
               qq == Quotes(how)
    <3>1. k \in Nat /\ m \in Nat /\ kk = k /\ Len(key) = k /\ EscapeValue(v) = y /\ Len(y) = m
      BY <1>1, <1>2 DEF k, m, y
    <3> HIDE DEF kk, zz, ee, bb, qq
    <3>2. ee = Len(x) /\ x[ee] = Blank /\ Len(x) \in Nat
      <4>1. ee = Len(x) /\ x[Len(x)] = Blank
        BY <2>7, <2>8, Zenon DEF ee
      <4>2. Len(x) \in Nat
        BY <2>8, <3>1
      <4> QED BY <4>1, <4>2
    <3>3. \A j \in 1 .. k : x[0 + j] = key[j]
      BY <2>8
    <3>4. bb = 1 => x[kk + 1] = Blank /\ x[kk + 3] = Blank
      BY <2>7, <2>8, <3>1 DEF bb
    <3>5. x[kk + bb + 1] = Equals
      BY <2>7, <2>8, <3>1 DEF bb
    <3>6. qq = 1 => x[zz] = Quote /\ x[zz + m + 1] = Quote
      BY <2>7, <2>8, <3>1 DEF qq, zz
    <3>7. \A j \in 1 .. m : x[zz + qq - 1 + j] = y[j]
      BY <2>7, <2>8 DEF qq, zz
    <3>8. ee <= Len(x)
      BY <3>2
    <3> QED BY <3>1, <3>2, <3>3, <3>4, <3>5, <3>6, <3>7, <3>8 DEF ItemAt, kk, zz, ee, bb, qq
  <2> QED BY <2>6, <2>7, <2>8, <2>9
<1>6. CASE how = "spaced"
  <2> DEFINE g == <<Blank, Equals, Blank>>
             a == key \o g
  <2>1. g \in Seq(ConnText) /\ Len(g) = 3 /\ g[1] = Blank /\ g[2] = Equals /\ g[3] = Blank
    BY <1>3
  <2> HIDE DEF g
  <2>2. InARow(ConnText, key, g, a)
    BY <1>1, <2>1, TwoTexts
  <2> HIDE DEF a
  <2>3. /\ a \in Seq(ConnText) /\ Len(a) = k + 3 /\ (\A j \in 1 .. k : a[j] = key[j])
        /\ a[k + 1] = Blank /\ a[k + 2] = Equals /\ a[k + 3] = Blank
    <3>1. 1 \in 1 .. 3 /\ 2 \in 1 .. 3 /\ 3 \in 1 .. 3
      OBVIOUS
    <3> QED BY <2>1, <2>2, <3>1 DEF InARow, k
  <2>4. x = a \o y \o <<Blank>>
    BY <1>6 DEF Spelling, a, g, y
  <2>5. Around(ConnText, a, y, <<Blank>>, x)
    BY <1>2, <1>4, <2>3, <2>4, ThreeTexts
  <2>6. /\ x \in Seq(ConnText) /\ Len(x) = (k + 3) + m + 1 /\ \A j \in 1 .. k + 3 : x[j] = a[j]
        /\ \A j \in 1 .. m : x[(k + 3) + j] = y[j]
        /\ x[(k + 3) + m + 1] = Blank
    BY <1>4, <2>3, <2>5 DEF Around, m
  <2>7. Blanks(how) = 1 /\ Quotes(how) = 0 /\ ValueAt(0, key, how) = k + 4 /\ ItemEnd(0, key, v, how) = k + 4 + m
    BY <1>1, <1>2, <1>6 DEF Blanks, Quotes, ValueAt, ItemEnd, k, m, y
  <2>8. /\ Len(x) = k + 4 + m /\ x[k + 4 + m] = Blank /\ \A j \in 1 .. k : x[0 + j] = key[j]
        /\ x[0 + k + 1] = Blank /\ x[0 + k + 3] = Blank
        /\ x[0 + k + 1 + 1] = Equals /\ \A j \in 1 .. m : x[k + 4 + 0 - 1 + j] = y[j]
    <3>1. /\ (k + 3) + m + 1 = k + 4 + m /\ 0 + k + 1 + 1 = k + 2 /\ 0 + k + 1 = k + 1 /\ 0 + k + 3 = k + 3
          /\ k + 1 \in 1 .. k + 3 /\ k + 2 \in 1 .. k + 3 /\ k + 3 \in 1 .. k + 3
      BY <1>1, <1>2
    <3>2. \A j \in 1 .. m : k + 4 + 0 - 1 + j = (k + 3) + j
      BY <1>1, <1>2
    <3>3. \A j \in 1 .. k : 0 + j = j /\ j \in 1 .. k + 3
      BY <1>1
    <3> QED BY <2>3, <2>6, <3>1, <3>2, <3>3
  <2>9. ItemAt(x, 0, key, v, how)
    <3> DEFINE kk == 0 + Len(key)
               zz == ValueAt(0, key, how)
               ee == ItemEnd(0, key, v, how)
               bb == Blanks(how)
               qq == Quotes(how)
    <3>1. k \in Nat /\ m \in Nat /\ kk = k /\ Len(key) = k /\ EscapeValue(v) = y /\ Len(y) = m
      BY <1>1, <1>2 DEF k, m, y
    <3> HIDE DEF kk, zz, ee, bb, qq
    <3>2. ee = Len(x) /\ x[ee] = Blank /\ Len(x) \in Nat
      <4>1. ee = Len(x) /\ x[Len(x)] = Blank
        BY <2>7, <2>8, Zenon DEF ee
      <4>2. Len(x) \in Nat
        BY <2>8, <3>1
      <4> QED BY <4>1, <4>2
    <3>3. \A j \in 1 .. k : x[0 + j] = key[j]
      BY <2>8
    <3>4. bb = 1 => x[kk + 1] = Blank /\ x[kk + 3] = Blank
      BY <2>7, <2>8, <3>1 DEF bb
    <3>5. x[kk + bb + 1] = Equals
      BY <2>7, <2>8, <3>1 DEF bb
    <3>6. qq = 1 => x[zz] = Quote /\ x[zz + m + 1] = Quote
      BY <2>7, <2>8, <3>1 DEF qq, zz
    <3>7. \A j \in 1 .. m : x[zz + qq - 1 + j] = y[j]
      BY <2>7, <2>8 DEF qq, zz
    <3>8. ee <= Len(x)
      BY <3>2
    <3> QED BY <3>1, <3>2, <3>3, <3>4, <3>5, <3>6, <3>7, <3>8 DEF ItemAt, kk, zz, ee, bb, qq
  <2> QED BY <2>6, <2>7, <2>8, <2>9
<1>7. CASE how = "quoted"
  <2> DEFINE g == <<Equals, Quote>>
             a == key \o g
             b == <<Quote>>
             t == a \o y \o b
  <2>1. g \in Seq(ConnText) /\ Len(g) = 2 /\ g[1] = Equals /\ g[2] = Quote
    BY <1>3
  <2>2. b \in Seq(ConnText) /\ Len(b) = 1 /\ b[1] = Quote
    BY <1>3
  <2> HIDE DEF g, b
  <2>3. InARow(ConnText, key, g, a)
    BY <1>1, <2>1, TwoTexts
  <2> HIDE DEF a
  <2>4. /\ a \in Seq(ConnText) /\ Len(a) = k + 2 /\ (\A j \in 1 .. k : a[j] = key[j])
        /\ a[k + 1] = Equals /\ a[k + 2] = Quote
    <3>1. 1 \in 1 .. 2 /\ 2 \in 1 .. 2
      OBVIOUS
    <3> QED BY <2>1, <2>3, <3>1 DEF InARow, k
  <2>5. x = t \o <<Blank>>
    BY <1>7 DEF Spelling, a, g, y, b
  <2>6. Around(ConnText, a, y, b, t)
    BY <1>2, <2>2, <2>4, ThreeTexts
  <2> HIDE DEF t
  <2>7. /\ t \in Seq(ConnText) /\ Len(t) = (k + 2) + m + 1 /\ \A j \in 1 .. k + 2 : t[j] = a[j]
        /\ \A j \in 1 .. m : t[(k + 2) + j] = y[j]
        /\ t[(k + 2) + m + 1] = Quote
    BY <1>4, <2>2, <2>4, <2>6 DEF Around, m
  <2>8. InARow(ConnText, t, <<Blank>>, x)
    BY <1>4, <2>5, <2>7, TwoTexts
  <2>9. /\ x \in Seq(ConnText) /\ Len(x) = ((k + 2) + m + 1) + 1 /\ x[((k + 2) + m + 1) + 1] = Blank
        /\ \A j \in 1 .. (k + 2) + m + 1 : x[j] = t[j]
    BY <1>4, <2>7, <2>8 DEF InARow
  <2>10. Blanks(how) = 0 /\ Quotes(how) = 1 /\ ValueAt(0, key, how) = k + 2 /\ ItemEnd(0, key, v, how) = k + 2 + m + 2
    BY <1>1, <1>2, <1>7 DEF Blanks, Quotes, ValueAt, ItemEnd, k, m, y
  <2>11. /\ Len(x) = k + 2 + m + 2 /\ x[k + 2 + m + 2] = Blank /\ \A j \in 1 .. k : x[0 + j] = key[j]
        /\ x[0 + k + 0 + 1] = Equals /\ x[k + 2] = Quote /\ x[k + 2 + m + 1] = Quote
        /\ \A j \in 1 .. m : x[k + 2 + 1 - 1 + j] = y[j]
    <3>1. /\ ((k + 2) + m + 1) + 1 = k + 2 + m + 2 /\ 0 + k + 0 + 1 = k + 1
          /\ k + 1 \in 1 .. (k + 2) + m + 1 /\ k + 2 \in 1 .. (k + 2) + m + 1
          /\ k + 1 \in 1 .. k + 2 /\ k + 2 \in 1 .. k + 2
          /\ (k + 2) + m + 1 = k + 2 + m + 1 /\ (k + 2) + m + 1 \in 1 .. (k + 2) + m + 1
      BY <1>1, <1>2
    <3>2. \A j \in 1 .. m : k + 2 + 1 - 1 + j = (k + 2) + j /\ (k + 2) + j \in 1 .. (k + 2) + m + 1
      BY <1>1, <1>2
    <3>3. \A j \in 1 .. k : 0 + j = j /\ j \in 1 .. k + 2 /\ j \in 1 .. (k + 2) + m + 1
      BY <1>1, <1>2
    <3> QED BY <2>4, <2>7, <2>9, <3>1, <3>2, <3>3
  <2>12. ItemAt(x, 0, key, v, how)
    <3> DEFINE kk == 0 + Len(key)
               zz == ValueAt(0, key, how)
               ee == ItemEnd(0, key, v, how)
               bb == Blanks(how)
               qq == Quotes(how)
    <3>1. k \in Nat /\ m \in Nat /\ kk = k /\ Len(key) = k /\ EscapeValue(v) = y /\ Len(y) = m
      BY <1>1, <1>2 DEF k, m, y
    <3> HIDE DEF kk, zz, ee, bb, qq
    <3>2. ee = Len(x) /\ x[ee] = Blank /\ Len(x) \in Nat
      <4>1. ee = Len(x) /\ x[Len(x)] = Blank
        BY <2>10, <2>11, Zenon DEF ee
      <4>2. Len(x) \in Nat
        BY <2>11, <3>1
      <4> QED BY <4>1, <4>2
    <3>3. \A j \in 1 .. k : x[0 + j] = key[j]
      BY <2>11
    <3>4. bb = 1 => x[kk + 1] = Blank /\ x[kk + 3] = Blank
      BY <2>10, <2>11, <3>1 DEF bb
    <3>5. x[kk + bb + 1] = Equals
      BY <2>10, <2>11, <3>1 DEF bb
    <3>6. qq = 1 => x[zz] = Quote /\ x[zz + m + 1] = Quote
      BY <2>10, <2>11, <3>1 DEF qq, zz
    <3>7. \A j \in 1 .. m : x[zz + qq - 1 + j] = y[j]
      BY <2>10, <2>11 DEF qq, zz
    <3>8. ee <= Len(x)
      BY <3>2
    <3> QED BY <3>1, <3>2, <3>3, <3>4, <3>5, <3>6, <3>7, <3>8 DEF ItemAt, kk, zz, ee, bb, qq
  <2> QED BY <2>9, <2>10, <2>11, <2>12
<1> QED BY <1>5, <1>6, <1>7

\* The text x is in s behind d.
HasAt(s, d, x) == d + Len(x) <= Len(s) /\ \A j \in 1 .. Len(x) : s[d + j] = x[j]

\* The parameter is in s behind d, and e is the blank behind it.
Placed(s, d, e, key, v, how) == ItemAt(s, d, key, v, how) /\ ItemEnd(d, key, v, how) = e

\* A part of a text is a parameter if it is one as a text of its own.
LEMMA ItemMoved ==
  ASSUME NEW key \in Seq(Word) \ {<<>>}, NEW v \in Seq(ConnCharacters), NEW how,
         NEW x \in Seq(ConnText), Len(x) = ItemEnd(0, key, v, how), ItemAt(x, 0, key, v, how),
         NEW s \in Seq(ConnText), NEW d \in Nat, HasAt(s, d, x)
  PROVE  Placed(s, d, d + Len(x), key, v, how)
<1> DEFINE y == EscapeValue(v)
           k == Len(key)
           m == Len(y)
           b == Blanks(how)
           q == Quotes(how)
           z == k + 2 * b + 2
           e == z + m + 2 * q
<1>1. k \in Nat /\ k >= 1 /\ b \in {0, 1} /\ q \in {0, 1}
  BY DEF Blanks, Quotes
<1>2. m \in Nat
  <2>1. v \in Seq(ConnText) /\ Backslash \in ConnText
    BY DEF ConnText
  <2>2. y \in Seq(ConnText)
    BY <2>1, ValueLayoutExists
  <2> QED BY <2>2
<1>3. ValueAt(0, key, how) = z /\ ItemEnd(0, key, v, how) = e /\ ValueAt(d, key, how) = d + z
      /\ ItemEnd(d, key, v, how) = d + e
  <2> HIDE DEF k, m, b, q
  <2>1. ValueAt(0, key, how) = 0 + k + 2 * b + 2 /\ ValueAt(d, key, how) = d + k + 2 * b + 2
    BY DEF ValueAt, k, b
  <2>2. /\ ItemEnd(0, key, v, how) = ValueAt(0, key, how) + m + 2 * q
        /\ ItemEnd(d, key, v, how) = ValueAt(d, key, how) + m + 2 * q
    BY DEF ItemEnd, m, q, y
  <2> QED BY <1>1, <1>2, <2>1, <2>2
<1>4. /\ e <= Len(x) /\ x[e] = Blank
      /\ \A j \in 1 .. k : x[0 + j] = key[j]
      /\ b = 1 => x[0 + k + 1] = Blank /\ x[0 + k + 3] = Blank
      /\ x[0 + k + b + 1] = Equals
      /\ q = 1 => x[z] = Quote /\ x[z + m + 1] = Quote
      /\ \A j \in 1 .. m : x[z + q - 1 + j] = y[j]
  <2> HIDE DEF z, e
  <2> QED BY <1>3 DEF ItemAt
<1>5. Len(x) = e
  <2> HIDE DEF e
  <2> QED BY <1>3
<1> HIDE DEF k, m, b, q, y
<1>6. /\ e \in 1 .. e /\ (\A j \in 1 .. k : j \in 1 .. e /\ 0 + j = j)
      /\ b = 1 => k + 1 \in 1 .. e /\ k + 3 \in 1 .. e
      /\ k + b + 1 \in 1 .. e
      /\ q = 1 => z \in 1 .. e /\ z + m + 1 \in 1 .. e
      /\ \A j \in 1 .. m : z + q - 1 + j \in 1 .. e
  BY <1>1, <1>2
<1>7. /\ 0 + k + 1 = k + 1 /\ 0 + k + 3 = k + 3 /\ 0 + k + b + 1 = k + b + 1
      /\ d + (k + 1) = d + k + 1 /\ d + (k + 3) = d + k + 3 /\ d + (k + b + 1) = d + k + b + 1
      /\ d + (z + m + 1) = d + z + m + 1 /\ d \in Nat
      /\ \A j \in 1 .. m : d + (z + q - 1 + j) = d + z + q - 1 + j
  BY <1>1, <1>2
<1> HIDE DEF z, e
<1>8. \A j \in 1 .. e : s[d + j] = x[j]
  BY <1>5 DEF HasAt
<1>9. s[d + e] = Blank /\ \A j \in 1 .. k : s[d + j] = key[j]
  BY <1>4, <1>6, <1>8
<1>10. b = 1 => s[d + k + 1] = Blank /\ s[d + k + 3] = Blank
  <2> SUFFICES ASSUME b = 1 PROVE s[d + k + 1] = Blank /\ s[d + k + 3] = Blank
    OBVIOUS
  <2>1. x[k + 1] = Blank /\ x[k + 3] = Blank
    BY <1>4, <1>7
  <2>2. s[d + (k + 1)] = x[k + 1] /\ s[d + (k + 3)] = x[k + 3]
    BY <1>6, <1>8
  <2> QED BY <1>7, <2>1, <2>2
<1>11. s[d + k + b + 1] = Equals
  BY <1>4, <1>6, <1>7, <1>8
<1>12. q = 1 => s[d + z] = Quote /\ s[d + z + m + 1] = Quote
  BY <1>4, <1>6, <1>7, <1>8
<1>13. \A j \in 1 .. m : s[d + z + q - 1 + j] = y[j]
  BY <1>4, <1>6, <1>7, <1>8, SMTT(30)
<1>14. d + e <= Len(s)
  BY <1>5 DEF HasAt
<1>15. ItemAt(s, d, key, v, how)
  BY <1>3, <1>9, <1>10, <1>11, <1>12, <1>13, <1>14 DEF ItemAt, k, b, q, m, y
<1> QED BY <1>3, <1>5, <1>15 DEF Placed

\* The text y of a value that is not quoted: not empty, without blanks, and not
\* beginning with a quote.
LEMMA PlainText ==
  ASSUME NEW v \in Seq(ConnCharacters), v # <<>>, Blank \notin ToSet(v),
         NEW y, y = EscapeValue(v)
  PROVE  /\ Len(y) \in Nat /\ Len(y) >= 1 /\ y[1] # Quote
         /\ \A j \in 1 .. Len(y) : y[j] \notin {Blank, Newline}
<1> DEFINE C == ConnText \ {Blank}
<1>1. Backslash \in C
  BY ConnCharactersDiffer DEF ConnText
<1>2. v \in Seq(C)
  <2>1. \A i \in 1 .. Len(v) : v[i] \in ConnCharacters /\ v[i] # Blank
    BY DEF ToSet
  <2>2. \A i \in 1 .. Len(v) : v[i] \in C
    BY <2>1 DEF ConnText
  <2> HIDE DEF C
  <2> QED BY <2>2
<1>3. Newline \notin C /\ Blank \notin C
  BY ConnTextIs
<1> HIDE DEF C
<1>4. y \in Seq(C) /\ \E L : ValueLayout(v, y, L)
  BY <1>1, <1>2, ValueLayoutExists
<1>5. PICK L : ValueLayout(v, y, L)
  BY <1>4
<1>6. Len(v) \in Nat /\ 1 \in 1 .. Len(v)
  OBVIOUS
<1>7. /\ L[0] = 0 /\ L[1] <= Len(y)
      /\ v[1] \in {Quote, Backslash} => L[1] = L[0] + 2 /\ y[L[0] + 1] = Backslash
      /\ v[1] \notin {Quote, Backslash} => L[1] = L[0] + 1 /\ y[L[0] + 1] = v[1]
  <2>1. 1 - 1 = 0
    OBVIOUS
  <2> QED BY <1>5, <1>6, <2>1 DEF ValueLayout
<1>8. Len(y) \in Nat /\ \A j \in 1 .. Len(y) : y[j] \in C
  BY <1>4
<1>9. Len(y) >= 1
  BY <1>7, <1>8
<1>10. y[1] # Quote
  BY <1>7, ConnCharactersDiffer
<1>11. \A j \in 1 .. Len(y) : y[j] \notin {Blank, Newline}
  BY <1>3, <1>8
<1> QED BY <1>8, <1>9, <1>10, <1>11

\* The parts of a parameter of s behind d, with k the end of its key, b blanks on
\* either side of the equals sign, its value at z behind q quotes, with the text y
\* of length m, and e the blank behind it.
Parts(s, d, key, k, b, z, q, y, m, e) ==
  /\ k \in Nat /\ k >= d + 1 /\ b \in {0, 1} /\ q \in {0, 1} /\ m \in Nat /\ m = Len(y)
  /\ k = d + Len(key) /\ z = k + 2 * b + 2 /\ e = z + m + 2 * q
  /\ e <= Len(s) /\ s[e] = Blank
  /\ \A j \in 1 .. Len(key) : s[d + j] = key[j]
  /\ b = 1 => s[k + 1] = Blank /\ s[k + 3] = Blank
  /\ s[k + b + 1] = Equals
  /\ q = 1 => s[z] = Quote /\ s[z + m + 1] = Quote
  /\ \A j \in 1 .. m : s[z + q - 1 + j] = y[j]
  /\ q = 0 => m >= 1 /\ y[1] # Quote /\ \A j \in 1 .. m : y[j] \notin {Blank, Newline}

\* A parameter has these parts.
LEMMA PartsOfItem ==
  ASSUME NEW key \in Seq(Word) \ {<<>>}, NEW v \in Seq(ConnCharacters),
         NEW how \in {"plain", "spaced", "quoted"}, Spellable(v, how),
         NEW s, NEW d \in Nat, ItemAt(s, d, key, v, how)
  PROVE  Parts(s, d, key, d + Len(key), Blanks(how), ValueAt(d, key, how), Quotes(how),
               EscapeValue(v), Len(EscapeValue(v)), ItemEnd(d, key, v, how))
<1> DEFINE y == EscapeValue(v)
           l == Len(key)
           k == d + Len(key)
           m == Len(y)
           b == Blanks(how)
           q == Quotes(how)
           z == ValueAt(d, key, how)
           e == ItemEnd(d, key, v, how)
<1>1. l \in Nat /\ l >= 1 /\ b \in {0, 1} /\ q \in {0, 1}
  BY DEF Blanks, Quotes
<1>2. m \in Nat
  <2>1. v \in Seq(ConnText) /\ Backslash \in ConnText
    BY DEF ConnText
  <2>2. y \in Seq(ConnText)
    BY <2>1, ValueLayoutExists
  <2> QED BY <2>2
<1>3. k = d + l /\ k \in Nat /\ k >= d + 1
  BY <1>1
<1>4. z = k + 2 * b + 2
  BY DEF ValueAt
<1>5. e = z + m + 2 * q
  BY DEF ItemEnd
<1>6. /\ e <= Len(s) /\ s[e] = Blank
      /\ \A j \in 1 .. Len(key) : s[d + j] = key[j]
      /\ b = 1 => s[k + 1] = Blank /\ s[k + 3] = Blank
      /\ s[k + b + 1] = Equals
      /\ q = 1 => s[z] = Quote /\ s[z + m + 1] = Quote
      /\ \A j \in 1 .. m : s[z + q - 1 + j] = y[j]
  BY DEF ItemAt
<1>7. q = 0 => m >= 1 /\ y[1] # Quote /\ \A j \in 1 .. m : y[j] \notin {Blank, Newline}
  <2> SUFFICES ASSUME q = 0
               PROVE  m >= 1 /\ y[1] # Quote /\ \A j \in 1 .. m : y[j] \notin {Blank, Newline}
    OBVIOUS
  <2>1. how # "quoted"
    BY DEF Quotes
  <2>2. v # <<>> /\ Blank \notin ToSet(v)
    BY <2>1 DEF Spellable
  <2> HIDE DEF y
  <2> QED BY <2>2, PlainText DEF y
<1> HIDE DEF y, k, m, b, q, z, e
<1>8. Parts(s, d, key, k, b, z, q, y, m, e)
  BY <1>1, <1>2, <1>3, <1>4, <1>5, <1>6, <1>7 DEF Parts, k, m
<1> QED BY <1>8 DEF y, k, m, b, q, z, e

\* The value ends where it was spelled to end.
LEMMA ValueEnds ==
  ASSUME NEW s \in Seq(ConnText), NEW d \in Nat, NEW key, NEW k, NEW b, NEW z, NEW q, NEW y, NEW m, NEW e,
         Parts(s, d, key, k, b, z, q, y, m, e), q = 1 => e = Len(s)
  PROVE  ValueEnd(s, z) = e - 1
<1>1. Len(s) \in Nat /\ \A j \in 1 .. Len(s) : s[j] \in ConnText /\ s[j] # Newline
  BY ConnTextIs
<1>2. /\ k \in Nat /\ k >= d + 1 /\ b \in {0, 1} /\ q \in {0, 1} /\ m \in Nat
      /\ z = k + 2 * b + 2 /\ e = z + m + 2 * q
      /\ e <= Len(s) /\ s[e] = Blank
      /\ q = 1 => s[z] = Quote /\ s[z + m + 1] = Quote
      /\ \A j \in 1 .. m : s[z + q - 1 + j] = y[j]
      /\ q = 0 => m >= 1 /\ y[1] # Quote /\ \A j \in 1 .. m : y[j] \notin {Blank, Newline}
  BY DEF Parts
<1>3. z \in Nat \ {0} /\ e \in Nat /\ z <= Len(s) /\ z < e
  <2>1. /\ k \in Nat /\ k >= d + 1 /\ b \in {0, 1} /\ q \in {0, 1} /\ m \in Nat
        /\ z = k + 2 * b + 2 /\ e = z + m + 2 * q /\ e <= Len(s) /\ Len(s) \in Nat
    BY <1>1, <1>2
  <2>2. q = 0 => m >= 1
    BY <1>2
  <2>3. z \in Nat \ {0}
    BY <2>1
  <2>4. z < e /\ e \in Nat
    BY <2>1, <2>2, <2>3
  <2> QED BY <2>1, <2>3, <2>4
<1> DEFINE closing == {j \in z + 2 .. RunUntil(s, z + 1, {Newline}) : s[j] = Quote}
<1>4. ValueEnd(s, z) = IF z <= Len(s) /\ s[z] = Quote /\ closing # {} THEN Max(closing)
                       ELSE RunUntil(s, z, {Blank, Newline})
  BY DEF ValueEnd
<1>5. CASE q = 0
  <2>1. 1 \in 1 .. m /\ z + 0 - 1 + 1 = z
    BY <1>2, <1>3, <1>5
  <2>2. s[z] # Quote
    <3>1. s[z + q - 1 + 1] = y[1]
      BY <1>2, <2>1
    <3> QED BY <1>2, <1>5, <2>1, <3>1
  <2>3. \A j \in z .. e - 1 : s[j] \notin {Blank, Newline}
    <3> SUFFICES ASSUME NEW j \in z .. e - 1 PROVE s[j] \notin {Blank, Newline}
      OBVIOUS
    <3>1. j - z + 1 \in 1 .. m /\ z + 0 - 1 + (j - z + 1) = j
      BY <1>2, <1>3, <1>5
    <3>2. s[z + q - 1 + (j - z + 1)] = y[j - z + 1] /\ y[j - z + 1] \notin {Blank, Newline}
      BY <1>2, <1>5, <3>1
    <3> QED BY <1>5, <3>1, <3>2
  <2>4. e - 1 \in Nat /\ z - 1 <= e - 1 /\ e - 1 <= Len(s) /\ e - 1 + 1 = e
    <3>1. e <= Len(s) /\ Len(s) \in Nat
      BY <1>1, <1>2
    <3> QED BY <1>3, <3>1
  <2>5. RunUntil(s, z, {Blank, Newline}) = e - 1
    <3> DEFINE f == e - 1
    <3>1. f \in Nat /\ z - 1 <= f /\ f <= Len(s) /\ s[f + 1] \in {Blank, Newline}
      BY <1>2, <2>4
    <3>2. \A j \in z .. f : s[j] \notin {Blank, Newline}
      BY <2>3
    <3> HIDE DEF f
    <3>3. RunUntil(s, z, {Blank, Newline}) = f
      BY <1>1, <1>3, <3>1, <3>2, RunUntilIs
    <3> QED BY <3>3 DEF f
  <2> QED BY <1>4, <2>2, <2>5
<1>6. CASE q = 1
  <2> DEFINE n == Len(s)
  <2>1. RunUntil(s, z + 1, {Newline}) = n
    <3> DEFINE i == z + 1
    <3>1. n \in Nat /\ i \in Nat \ {0} /\ i - 1 <= n /\ n <= Len(s) /\ n = Len(s) /\ Len(s) \in Nat
      BY <1>1, <1>3
    <3>2. \A j \in i .. n : s[j] \notin {Newline}
      BY <1>1, <3>1
    <3> HIDE DEF i, n
    <3>3. RunUntil(s, i, {Newline}) = n
      BY <3>1, <3>2, RunUntilIs
    <3> QED BY <3>3 DEF i, n
  <2>2. closing = {j \in z + 2 .. n : s[j] = Quote}
    BY <2>1
  <2>3. n = e /\ e = z + m + 2 /\ s[z] = Quote /\ s[z + m + 1] = Quote /\ s[e] # Quote
    BY <1>2, <1>6, ConnCharactersDiffer
  <2>4. CASE m = 0
    <3>1. closing = {}
      <4> SUFFICES ASSUME NEW j \in z + 2 .. n, s[j] = Quote PROVE FALSE
        BY <2>2
      <4>1. j = e
        BY <1>3, <2>3, <2>4
      <4> QED BY <2>3, <4>1
    <3>2. z + 1 = e - 1 /\ z + 1 + 1 = e /\ z + 1 \in Nat /\ z - 1 <= z + 1 /\ z + 1 <= Len(s)
          /\ z + 0 + 1 = z + 1
      BY <1>3, <2>3, <2>4
    <3>3. \A j \in z .. z + 1 : s[j] \notin {Blank, Newline}
      <4>1. s[z + 1] = Quote
        BY <2>3, <2>4, <3>2
      <4>2. \A j \in z .. z + 1 : j = z \/ j = z + 1
        BY <1>3
      <4> QED BY <2>3, <4>1, <4>2, ConnCharactersDiffer
    <3>4. s[z + 1 + 1] \in {Blank, Newline}
      BY <1>2, <3>2
    <3>5. RunUntil(s, z, {Blank, Newline}) = z + 1
      <4> DEFINE f == z + 1
      <4>1. f \in Nat /\ z - 1 <= f /\ f <= Len(s) /\ s[f + 1] \in {Blank, Newline}
        BY <3>2, <3>4
      <4>2. \A j \in z .. f : s[j] \notin {Blank, Newline}
        BY <3>3
      <4> HIDE DEF f
      <4>3. RunUntil(s, z, {Blank, Newline}) = f
        BY <1>1, <1>3, <4>1, <4>2, RunUntilIs
      <4> QED BY <4>3 DEF f
    <3> QED BY <1>4, <3>1, <3>2, <3>5
  <2>5. CASE m # 0
    <3>1. z + m + 1 \in z + 2 .. n /\ z + m + 1 = e - 1
      BY <1>2, <1>3, <2>3, <2>5
    <3>2. e - 1 \in closing
      BY <2>2, <2>3, <3>1
    <3>3. closing \subseteq Int
      BY <1>1, <1>3, <2>2
    <3>4. ASSUME NEW j \in closing PROVE e - 1 >= j
      <4>1. j \in z + 2 .. n /\ s[j] = Quote
        BY <2>2
      <4>2. j # e
        BY <2>3, <4>1
      <4> QED BY <1>1, <1>3, <2>3, <4>1, <4>2
    <3> HIDE DEF closing
    <3>5. Max(closing) = e - 1
      <4> DEFINE f == e - 1
      <4>1. f \in closing /\ \A j \in closing : f >= j
        BY <3>2, <3>4
      <4> HIDE DEF f
      <4>2. Max(closing) = f
        BY <3>3, <4>1, MaxIs
      <4> QED BY <4>2 DEF f
    <3>6. closing # {}
      BY <3>2
    <3> QED BY <1>3, <1>4, <2>3, <3>5, <3>6
  <2> QED BY <2>4, <2>5
<1> QED BY <1>2, <1>5, <1>6

\* The expression matches at p, up to the character in front of e, and the pair
\* of the match has this key and value.
MatchIs(s, p, key, v, e) ==
  LET m == MatchAt(s, p)
  IN /\ Matches(s, p) /\ m.end + 1 = e
     /\ SubSeq(s, p, m.key) = key /\ Unescape(SubSeq(s, m.value, m.end)) = v

\* The runs of characters end at k, with the key, and around the equals sign.
KeyFound(s, d, k, b, z) ==
  /\ RunEnd(s, d + 1, Word) = k /\ RunEnd(s, k + 1, {Blank}) = k + b
  /\ RunEnd(s, k + b + 2, {Blank}) = z - 1

\* Where the key of a parameter, the equals sign and the value are found.
LEMMA KeyEnds ==
  ASSUME NEW s \in Seq(ConnText), NEW d \in Nat, NEW key \in Seq(Word), NEW k, NEW b, NEW z, NEW q, NEW y, NEW m, NEW e,
         Parts(s, d, key, k, b, z, q, y, m, e)
  PROVE  KeyFound(s, d, k, b, z)
<1>1. Len(s) \in Nat
  OBVIOUS
<1>2. /\ k \in Nat /\ k >= d + 1 /\ b \in {0, 1} /\ q \in {0, 1} /\ m \in Nat
      /\ k = d + Len(key) /\ z = k + 2 * b + 2 /\ e = z + m + 2 * q /\ e <= Len(s)
  BY DEF Parts
<1>3. /\ \A j \in 1 .. Len(key) : s[d + j] = key[j]
      /\ b = 1 => s[k + 1] = Blank /\ s[k + 3] = Blank
      /\ s[k + b + 1] = Equals
      /\ q = 1 => s[z] = Quote
      /\ \A j \in 1 .. m : s[z + q - 1 + j] = y[j]
      /\ q = 0 => m >= 1 /\ \A j \in 1 .. m : y[j] \notin {Blank, Newline}
  BY DEF Parts
<1>4. z \in Nat /\ z > k /\ z < e /\ e \in Nat /\ k < Len(s)
  <2>1. q = 0 => m >= 1
    BY <1>3
  <2> QED BY <1>1, <1>2, <2>1
<1>5. RunEnd(s, d + 1, Word) = k
  <2> DEFINE i == d + 1
  <2>1. i \in Nat \ {0} /\ i - 1 <= k /\ k <= Len(s)
    BY <1>1, <1>2, <1>4
  <2>2. \A j \in i .. k : s[j] \in Word
    <3> SUFFICES ASSUME NEW j \in i .. k PROVE s[j] \in Word
      OBVIOUS
    <3>1. j - d \in 1 .. Len(key) /\ d + (j - d) = j
      BY <1>2
    <3>2. s[d + (j - d)] = key[j - d] /\ key[j - d] \in Word
      BY <1>3, <3>1
    <3> QED BY <3>1, <3>2
  <2>3. s[k + 1] \notin Word
    <3>1. CASE b = 0
      <4>1. k + 0 + 1 = k + 1
        BY <1>2
      <4>2. s[k + 1] = Equals
        BY <1>3, <3>1, <4>1
      <4> QED BY <4>2, ConnTextIs
    <3>2. CASE b = 1
      <4>1. s[k + 1] = Blank
        BY <1>3, <3>2
      <4> QED BY <4>1, ConnTextIs
    <3> QED BY <1>2, <3>1, <3>2
  <2> HIDE DEF i
  <2>4. RunEnd(s, i, Word) = k
    BY <1>1, <1>2, <2>1, <2>2, <2>3, RunEndIs
  <2> QED BY <2>4 DEF i
<1>6. RunEnd(s, k + 1, {Blank}) = k + b
  <2> DEFINE i == k + 1
             f == k + b
  <2>1. i \in Nat \ {0} /\ f \in Nat /\ i - 1 <= f /\ f <= Len(s)
    BY <1>1, <1>2, <1>4
  <2>2. \A j \in i .. f : s[j] \in {Blank}
    <3> SUFFICES ASSUME NEW j \in i .. f PROVE s[j] = Blank
      OBVIOUS
    <3>1. b = 1 /\ j = k + 1
      BY <1>2
    <3> QED BY <1>3, <3>1
  <2>3. s[f + 1] \notin {Blank}
    BY <1>3, ConnCharactersDiffer
  <2> HIDE DEF i, f
  <2>4. RunEnd(s, i, {Blank}) = f
    BY <1>1, <2>1, <2>2, <2>3, RunEndIs
  <2> QED BY <2>4 DEF i, f
<1>7. RunEnd(s, k + b + 2, {Blank}) = z - 1
  <2> DEFINE i == k + b + 2
             f == z - 1
  <2>1. i \in Nat \ {0} /\ f \in Nat /\ i - 1 <= f /\ f <= Len(s) /\ f + 1 = z
    BY <1>1, <1>2, <1>4
  <2>2. \A j \in i .. f : s[j] \in {Blank}
    <3> SUFFICES ASSUME NEW j \in i .. f PROVE s[j] = Blank
      OBVIOUS
    <3>1. b = 1 /\ j = k + 3
      BY <1>2, SMTT(30)
    <3> QED BY <1>3, <3>1
  <2>3. s[z] # Blank
    <3>1. CASE q = 1
      BY <1>3, <3>1, ConnCharactersDiffer
    <3>2. CASE q = 0
      <4>1. 1 \in 1 .. m /\ z + 0 - 1 + 1 = z
        BY <1>2, <1>3, <1>4, <3>2
      <4>2. s[z + q - 1 + 1] = y[1] /\ y[1] # Blank
        BY <1>3, <3>2, <4>1
      <4> QED BY <3>2, <4>1, <4>2
    <3> QED BY <1>2, <3>1, <3>2
  <2>4. s[f + 1] \notin {Blank}
    BY <2>1, <2>3
  <2> HIDE DEF i, f
  <2>5. RunEnd(s, i, {Blank}) = f
    BY <1>1, <2>1, <2>2, <2>4, RunEndIs
  <2> QED BY <2>5 DEF i, f
<1> QED BY <1>5, <1>6, <1>7 DEF KeyFound

\* What is between the blanks is the text of the value, perhaps between quotes.
LEMMA RawOfParts ==
  ASSUME NEW s \in Seq(ConnText), NEW d \in Nat, NEW key, NEW k, NEW b, NEW z, NEW q, NEW y, NEW m, NEW e,
         Parts(s, d, key, k, b, z, q, y, m, e), NEW raw, raw = SubSeq(s, z, e - 1)
  PROVE  raw \in Seq(ConnText) /\ RawIs(raw, y, q)
<1>1. Len(s) \in Nat
  OBVIOUS
<1>2. /\ k \in Nat /\ k >= d + 1 /\ b \in {0, 1} /\ q \in {0, 1} /\ m \in Nat /\ m = Len(y)
      /\ z = k + 2 * b + 2 /\ e = z + m + 2 * q /\ e <= Len(s)
  BY DEF Parts
<1>3. /\ q = 1 => s[z] = Quote /\ s[z + m + 1] = Quote
      /\ \A j \in 1 .. m : s[z + q - 1 + j] = y[j]
      /\ q = 0 => m >= 1 /\ y[1] # Quote
  BY DEF Parts
<1>4. z \in Nat /\ z >= 1 /\ e \in Nat /\ z < e
  <2>1. q = 0 => m >= 1
    BY <1>3
  <2> QED BY <1>1, <1>2, <2>1
<1> DEFINE f == e - 1
           r == m + 2 * q
<1>5. f \in Nat /\ f <= Len(s) /\ r = f - z + 1 /\ r \in Nat /\ r >= 1 /\ z <= f
  BY <1>1, <1>2, <1>4
<1> HIDE DEF f
<1>6. raw = SubSeq(s, z, f)
  BY DEF f
<1>7. raw \in Seq(ConnText) /\ Len(raw) = f - z + 1 /\ \A j \in 1 .. f - z + 1 : raw[j] = s[z + j - 1]
  <2>1. \A j \in z .. f : j \in 1 .. Len(s)
    BY <1>1, <1>4, <1>5
  <2> QED BY <1>1, <1>4, <1>5, <1>6, <2>1
<1> HIDE DEF r
<1>8. Len(raw) = r /\ \A j \in 1 .. r : raw[j] = s[z + j - 1]
  BY <1>5, <1>7
<1>9. \A j \in 1 .. m : raw[q + j] = y[j]
  <2> SUFFICES ASSUME NEW j \in 1 .. m PROVE raw[q + j] = y[j]
    OBVIOUS
  <2>1. q + j \in 1 .. r /\ z + (q + j) - 1 = z + q - 1 + j
    BY <1>2, <1>4 DEF r
  <2> QED BY <1>3, <1>8, <2>1
<1>10. IsQuoted(raw) <=> q = 1
  <2>1. CASE q = 1
    <3>1. 1 \in 1 .. r /\ r \in 1 .. r /\ z + 1 - 1 = z /\ z + r - 1 = z + m + 1
      BY <1>2, <1>4, <1>5, <2>1 DEF r
    <3>2. raw[1] = s[z] /\ raw[r] = s[z + m + 1]
      BY <1>8, <3>1
    <3>3. raw[1] = Quote /\ raw[Len(raw)] = Quote
      <4>1. s[z] = Quote /\ s[z + m + 1] = Quote /\ Len(raw) = r
        BY <1>3, <1>8, <2>1
      <4> QED BY <3>2, <4>1
    <3> QED BY <2>1, <3>3 DEF IsQuoted
  <2>2. CASE q = 0
    <3>1. 1 \in 1 .. m /\ 0 + 1 = 1
      BY <1>2, <1>3, <2>2
    <3>2. raw[q + 1] = y[1]
      BY <1>9, <3>1
    <3>3. raw[1] = y[1] /\ y[1] # Quote
      BY <1>3, <2>2, <3>1, <3>2
    <3>4. ~IsQuoted(raw)
      BY <3>3 DEF IsQuoted
    <3>5. q # 1
      BY <2>2
    <3> QED BY <3>4, <3>5, Zenon
  <2>3. q = 0 \/ q = 1
    BY <1>2
  <2> QED BY <2>1, <2>2, <2>3, Zenon
<1>11. RawIs(raw, y, q)
  BY <1>2, <1>8, <1>9, <1>10 DEF RawIs, r
<1> QED BY <1>7, <1>11

\* A parameter is matched, and its pair is what was spelled.
LEMMA Matched ==
  ASSUME NEW key \in Seq(Word) \ {<<>>}, NEW v \in Seq(ConnCharacters),
         NEW how \in {"plain", "spaced", "quoted"}, Spellable(v, how),
         NEW s \in Seq(ConnText), NEW d \in Nat, ItemAt(s, d, key, v, how),
         how = "quoted" => ItemEnd(d, key, v, how) = Len(s)
  PROVE  MatchIs(s, d + 1, key, v, ItemEnd(d, key, v, how))
<1> DEFINE y == EscapeValue(v)
           k == d + Len(key)
           m == Len(y)
           b == Blanks(how)
           q == Quotes(how)
           z == ValueAt(d, key, how)
           e == ItemEnd(d, key, v, how)
           f == e - 1
           raw == SubSeq(s, z, f)
           M == MatchAt(s, d + 1)
<1>1. Parts(s, d, key, k, b, z, q, y, m, e)
  BY PartsOfItem
<1>2. v \in Seq(ConnText) /\ Backslash \in ConnText
  BY DEF ConnText
<1>3. y \in Seq(ConnText) /\ \E L : ValueLayout(v, y, L)
  BY <1>2, ValueLayoutExists
<1>4. q = 1 => e = Len(s)
  BY DEF Quotes
<1>5. key \in Seq(Word) /\ key # <<>> /\ Len(key) \in Nat /\ Len(key) >= 1 /\ key[1] \in Word
  OBVIOUS
<1> HIDE DEF y, k, m, b, q, z, e, f, raw
<1>6. ValueEnd(s, z) = e - 1
  BY <1>1, <1>4, ValueEnds
<1>7. /\ RunEnd(s, d + 1, Word) = k /\ RunEnd(s, k + 1, {Blank}) = k + b
      /\ RunEnd(s, k + b + 2, {Blank}) = z - 1
  <2>1. KeyFound(s, d, k, b, z)
    BY <1>1, <1>5, KeyEnds
  <2> QED BY <2>1 DEF KeyFound
<1>8. raw \in Seq(ConnText) /\ RawIs(raw, y, q)
  <2>1. raw = SubSeq(s, z, e - 1)
    BY DEF raw, f
  <2> QED BY <1>1, <2>1, RawOfParts
<1>9. Unescape(raw) = v
  BY <1>2, <1>3, <1>8, UnescapeValue
<1>10. /\ k \in Nat /\ k >= d + 1 /\ b \in {0, 1} /\ q \in {0, 1} /\ m \in Nat
       /\ k = d + Len(key) /\ z = k + 2 * b + 2 /\ e = z + m + 2 * q /\ e <= Len(s)
       /\ q = 0 => m >= 1
  BY <1>1 DEF Parts
<1>11. (\A j \in 1 .. Len(key) : s[d + j] = key[j]) /\ s[k + b + 1] = Equals
  BY <1>1 DEF Parts
<1>12. Len(s) \in Nat
  OBVIOUS
<1>13. /\ z \in Nat /\ z < e /\ e \in Nat /\ f \in Nat /\ z <= f /\ f + 1 = e /\ z <= Len(s)
       /\ k + b + 1 <= Len(s) /\ (k + b + 1) + 1 = k + b + 2 /\ k + b + 1 = (k + b) + 1 /\ z - 1 + 1 = z
  BY <1>10, <1>12 DEF f
<1>14. M = [key |-> k, equal |-> k + b + 1, value |-> z, end |-> f]
  <2>1. RunEnd(s, d + 1, Word) = k
    BY <1>7
  <2>2. RunEnd(s, k + 1, {Blank}) + 1 = k + b + 1
    BY <1>7, <1>13
  <2>3. RunEnd(s, k + b + 1 + 1, {Blank}) + 1 = z
    BY <1>7, <1>13
  <2>4. ValueEnd(s, z) = f
    BY <1>6 DEF f
  <2> QED BY <2>1, <2>2, <2>3, <2>4 DEF MatchAt
<1> HIDE DEF M
<1>15. M.key = k /\ M.equal = k + b + 1 /\ M.value = z /\ M.end = f
  BY <1>14
<1>16. SubSeq(s, d + 1, k) = key
  <2>1. \A j \in 1 .. Len(key) : d + 1 + j - 1 = d + j /\ d + j \in 1 .. Len(s)
    BY <1>5, <1>10, <1>12, <1>13
  <2>2. k - (d + 1) + 1 = Len(key) /\ k <= Len(s)
    BY <1>5, <1>10, <1>12, <1>13
  <2> DEFINE t == SubSeq(s, d + 1, k)
  <2>3. t \in Seq(ConnText) /\ Len(t) = Len(key) /\ \A j \in 1 .. Len(key) : t[j] = s[d + j]
    BY <1>5, <1>10, <1>12, <2>1, <2>2
  <2> HIDE DEF t
  <2>4. t = key
    BY <1>5, <1>11, <2>3, SMTT(30)
  <2> QED BY <2>4 DEF t
<1>17. Matches(s, d + 1)
  <2>1. s[d + 1] \in Word
    BY <1>5, <1>11
  <2>2. /\ M.equal <= Len(s) /\ s[M.equal] = Equals
        /\ M.value <= Len(s) /\ M.end >= M.value
    BY <1>11, <1>13, <1>15
  <2> QED BY <2>1, <2>2 DEF Matches, M
<1>18. MatchIs(s, d + 1, key, v, e)
  <2>1. M.end + 1 = e /\ SubSeq(s, d + 1, M.key) = key /\ Unescape(SubSeq(s, M.value, M.end)) = v
    BY <1>9, <1>13, <1>15, <1>16 DEF raw
  <2> QED BY <1>17, <2>1 DEF MatchIs, M
<1> QED BY <1>18 DEF e

\* A value ends in the text.
LEMMA ValueEndsInside ==
  ASSUME NEW s, Len(s) \in Nat, NEW v \in Nat, v >= 1, v <= Len(s)
  PROVE  ValueEnd(s, v) \in Nat /\ ValueEnd(s, v) <= Len(s)
<1> DEFINE w == v + 1
           u == RunUntil(s, w, {Newline})
           t == RunUntil(s, v, {Blank, Newline})
           closing == {j \in v + 2 .. u : s[j] = Quote}
<1>1. w \in Nat \ {0} /\ v \in Nat \ {0} /\ w - 1 = v
  OBVIOUS
<1>2. u \in Nat /\ (u <= Len(s) \/ u = w - 1)
  <2> HIDE DEF w
  <2> QED BY <1>1, RunsEnd
<1>3. t \in Nat /\ (t <= Len(s) \/ t = v - 1)
  BY <1>1, RunsEnd
<1>4. ValueEnd(s, v) = IF v <= Len(s) /\ s[v] = Quote /\ closing # {} THEN Max(closing) ELSE t
  BY DEF ValueEnd
<1> HIDE DEF w, u, t
<1>5. closing # {} => Max(closing) \in Nat /\ Max(closing) <= Len(s)
  <2> SUFFICES ASSUME closing # {} PROVE Max(closing) \in Nat /\ Max(closing) <= Len(s)
    OBVIOUS
  <2>1. \A j \in closing : j \in Nat /\ j <= u /\ j > v
    BY <1>2
  <2>2. u <= Len(s)
    BY <1>1, <1>2, <2>1
  <2>3. closing \subseteq v .. u
    BY <1>2
  <2> HIDE DEF closing
  <2>4. Max(closing) \in closing
    BY <1>2, <2>3, MaxExists
  <2> QED BY <1>2, <2>1, <2>2, <2>4
<1>6. t <= Len(s)
  BY <1>3
<1> HIDE DEF closing
<1> QED BY <1>3, <1>4, <1>5, <1>6

\* A match ends in the text, and behind where it begins.
LEMMA MatchEnds ==
  ASSUME NEW s, Len(s) \in Nat, NEW p \in 1 .. Len(s), Matches(s, p)
  PROVE  MatchAt(s, p).end \in Nat /\ p <= MatchAt(s, p).end /\ MatchAt(s, p).end <= Len(s)
<1> DEFINE key   == RunEnd(s, p, Word)
           a     == key + 1
           equal == RunEnd(s, a, {Blank}) + 1
           b     == equal + 1
           value == RunEnd(s, b, {Blank}) + 1
           e     == ValueEnd(s, value)
<1>1. MatchAt(s, p) = [key |-> key, equal |-> equal, value |-> value, end |-> e]
  BY DEF MatchAt
<1>2. p \in Nat \ {0}
  OBVIOUS
<1>3. key \in Nat /\ p - 1 <= key
  BY <1>2, RunsEnd
<1>4. a \in Nat \ {0} /\ p <= a
  <2> HIDE DEF key
  <2> QED BY <1>2, <1>3
<1>5. equal \in Nat /\ p <= equal
  <2> HIDE DEF a
  <2>1. RunEnd(s, a, {Blank}) \in Nat /\ a - 1 <= RunEnd(s, a, {Blank})
    BY <1>4, RunsEnd
  <2> QED BY <1>2, <1>4, <2>1
<1>6. b \in Nat \ {0} /\ p <= b
  <2> HIDE DEF equal
  <2> QED BY <1>2, <1>5
<1>7. value \in Nat /\ p <= value /\ value >= 1
  <2> HIDE DEF b
  <2>1. RunEnd(s, b, {Blank}) \in Nat /\ b - 1 <= RunEnd(s, b, {Blank})
    BY <1>6, RunsEnd
  <2> QED BY <1>2, <1>6, <2>1
<1> HIDE DEF key, a, equal, b, value, e
<1>8. MatchAt(s, p).value = value /\ MatchAt(s, p).end = e
  BY <1>1
<1>9. value <= Len(s) /\ e >= value
  BY <1>8 DEF Matches
<1>10. e \in Nat /\ e <= Len(s)
  BY <1>7, <1>9, ValueEndsInside DEF e
<1> QED BY <1>2, <1>7, <1>8, <1>9, <1>10

\* Where a match begins, from i on, the first of them, and its pair.
Starts(s, i)  == {p \in i .. Len(s) : Matches(s, p)}
FirstAt(s, i) == Min(Starts(s, i))
PairAt(s, p)  == <<SubSeq(s, p, MatchAt(s, p).key),
                   Unescape(SubSeq(s, MatchAt(s, p).value, MatchAt(s, p).end))>>

\* f is From of Pairs.
Pairing(s, f) ==
  f = [i \in 1 .. Len(s) + 1 |->
        IF Starts(s, i) = {} THEN <<>>
        ELSE <<PairAt(s, FirstAt(s, i))>> \o f[MatchAt(s, FirstAt(s, i)).end + 1]]

\* There is such a function.
LEMMA PairingExists ==
  ASSUME NEW s, Len(s) \in Nat
  PROVE  \E f : Pairing(s, f) /\ Pairs(s) = f[1]
<1> DEFINE n == Len(s)
           D == 1 .. n + 1
           C == {PairAt(s, p) : p \in 1 .. n}
           V == Seq(C)
           stop == {i \in D : Starts(s, i) = {}}
           val == [i \in D |-> <<>>]
           Put(i, x) == <<PairAt(s, FirstAt(s, i))>> \o x
           step == [i \in D |-> [x \in V |-> Put(i, x)]]
           jump == [i \in D |-> MatchAt(s, FirstAt(s, i)).end + 1]
           rank == [i \in D |-> n + 1 - i]
<1>1. n \in Nat /\ n + 1 \in Nat
  OBVIOUS
<1>2. \A i \in D : rank[i] \in Nat /\ rank[i] < n + 1
  BY <1>1
<1>3. ASSUME NEW i \in D
      PROVE  IF i \in stop THEN val[i] \in V
             ELSE jump[i] \in D /\ rank[jump[i]] < rank[i] /\ step[i] \in [V -> V]
  <2>1. CASE i \in stop
    <3>1. val[i] \in V
      OBVIOUS
    <3> QED BY <2>1, <3>1
  <2>2. CASE i \notin stop
    <3> DEFINE p == FirstAt(s, i)
               e == MatchAt(s, p).end
    <3>1. Starts(s, i) # {} /\ Starts(s, i) \subseteq i .. n /\ i \in Nat
      BY <2>2 DEF Starts
    <3>2. p \in Starts(s, i)
      BY <1>1, <3>1, MaxExists DEF FirstAt
    <3> HIDE DEF p
    <3>3. p \in i .. n /\ p \in 1 .. n /\ Matches(s, p)
      BY <1>1, <3>2 DEF Starts
    <3>4. e \in Nat /\ p <= e /\ e <= n
      BY <1>1, <3>3, MatchEnds
    <3> HIDE DEF e
    <3>5. jump[i] = e + 1
      BY DEF e, p
    <3>6. e + 1 \in D /\ rank[e + 1] < rank[i]
      BY <1>1, <3>3, <3>4
    <3>7. PairAt(s, p) \in C
      BY <3>3
    <3>8. ASSUME NEW x \in V PROVE Put(i, x) \in V
      <4> DEFINE c == PairAt(s, p)
      <4>1. Put(i, x) = <<c>> \o x /\ c \in C
        BY <3>7 DEF p
      <4> HIDE DEF c, C, Put
      <4> QED BY <4>1
    <3>9. step[i] \in [V -> V]
      <4> HIDE DEF V, Put
      <4> QED BY <3>8
    <3> HIDE DEF D, V, stop, step, jump, rank
    <3> QED BY <2>2, <3>5, <3>6, <3>9
  <2> QED BY <2>1, <2>2
<1>4. \E f \in [D -> V] : Recursive(D, stop, val, step, jump, f)
  <2> HIDE DEF D, V, stop, val, step, jump, rank
  <2>1. \A i \in D : IF i \in stop THEN val[i] \in V
             ELSE jump[i] \in D /\ rank[jump[i]] < rank[i] /\ step[i] \in [V -> V]
    BY <1>3
  <2> QED BY <1>1, <1>2, <2>1, RecursionExists
<1>5. PICK f \in [D -> V] : Recursive(D, stop, val, step, jump, f)
  BY <1>4
<1>6. ASSUME NEW i \in D
      PROVE  f[i] = IF Starts(s, i) = {} THEN <<>>
                    ELSE <<PairAt(s, FirstAt(s, i))>> \o f[MatchAt(s, FirstAt(s, i)).end + 1]
  <2>1. f[i] = IF i \in stop THEN val[i] ELSE step[i][f[jump[i]]]
    <3> HIDE DEF D, V, stop, val, step, jump
    <3> QED BY <1>5 DEF Recursive
  <2>2. CASE Starts(s, i) = {}
    BY <2>1, <2>2
  <2>3. CASE Starts(s, i) # {}
    <3>1. i \notin stop /\ jump[i] \in D
      BY <1>3, <2>3
    <3>2. f[jump[i]] \in V
      <4> HIDE DEF D, V, jump
      <4> QED BY <1>5, <3>1
    <3>3. f[i] = Put(i, f[jump[i]])
      <4> DEFINE x == f[jump[i]]
      <4>1. x \in V /\ f[i] = step[i][x]
        BY <2>1, <3>1, <3>2
      <4> HIDE DEF x, Put, V
      <4>2. step[i][x] = Put(i, x)
        BY <4>1
      <4>3. f[i] = Put(i, x)
        BY <4>1, <4>2
      <4> QED BY <4>3 DEF x
    <3>4. jump[i] = MatchAt(s, FirstAt(s, i)).end + 1
      OBVIOUS
    <3> HIDE DEF D, V, jump, stop, val, step
    <3> QED BY <2>3, <3>3, <3>4, Zenon
  <2> QED BY <2>2, <2>3
<1>7. Pairing(s, f)
  <2>1. f = [i \in D |-> f[i]]
    <3> HIDE DEF V, D
    <3> QED BY <1>5
  <2>2. f = [i \in D |-> IF Starts(s, i) = {} THEN <<>>
                    ELSE <<PairAt(s, FirstAt(s, i))>> \o f[MatchAt(s, FirstAt(s, i)).end + 1]]
    <3> HIDE DEF D
    <3> QED BY <1>6, <2>1, Zenon
  <2> QED BY <2>2, Zenon DEF Pairing
<1> DEFINE g == CHOOSE h : Pairing(s, h)
<1>8. Pairing(s, g)
  BY <1>7
<1>9. Pairs(s) = g[1]
  BY Zenon DEF Pairs, Pairing, PairAt, FirstAt, Starts
<1> QED BY <1>8, <1>9

\* The pairs from each position on.
LEMMA PairingIs ==
  ASSUME NEW s, NEW f, Pairing(s, f), NEW i \in 1 .. Len(s) + 1
  PROVE  /\ Starts(s, i) = {} => f[i] = <<>>
         /\ Starts(s, i) # {} =>
              f[i] = <<PairAt(s, FirstAt(s, i))>> \o f[MatchAt(s, FirstAt(s, i)).end + 1]
<1>1. f[i] = IF Starts(s, i) = {} THEN <<>>
             ELSE <<PairAt(s, FirstAt(s, i))>> \o f[MatchAt(s, FirstAt(s, i)).end + 1]
  BY Zenon DEF Pairing
<1> QED BY <1>1, Zenon

\* When there is a match at h, and none in front of it from i on, the pairs from i
\* on are its pair and the ones behind it.
LEMMA PairingAt ==
  ASSUME NEW s, Len(s) \in Nat, NEW f, Pairing(s, f), NEW i \in 1 .. Len(s), NEW h \in i .. Len(s),
         \A p \in i .. h - 1 : ~Matches(s, p), NEW key, NEW v, NEW e, MatchIs(s, h, key, v, e)
  PROVE  f[i] = << <<key, v>> >> \o f[e]
<1>1. Matches(s, h) /\ MatchAt(s, h).end + 1 = e /\ PairAt(s, h) = <<key, v>>
  BY DEF MatchIs, PairAt
<1>2. h \in Starts(s, i) /\ Starts(s, i) \subseteq Int
  BY <1>1 DEF Starts
<1>3. ASSUME NEW p \in Starts(s, i) PROVE h <= p
  <2>1. p \in i .. Len(s) /\ Matches(s, p)
    BY DEF Starts
  <2>2. SUFFICES ASSUME ~(h <= p) PROVE FALSE
    OBVIOUS
  <2>3. p \in i .. h - 1
    BY <2>1, <2>2
  <2> QED BY <2>1, <2>3
<1>4. FirstAt(s, i) = h
  BY <1>2, <1>3, MinIs DEF FirstAt
<1>5. i \in 1 .. Len(s) + 1
  OBVIOUS
<1>6. Starts(s, i) # {}
  BY <1>2
<1>7. f[i] = <<PairAt(s, FirstAt(s, i))>> \o f[MatchAt(s, FirstAt(s, i)).end + 1]
  BY <1>5, <1>6, PairingIs
<1> QED BY <1>1, <1>4, <1>7

\* The parameter is in s behind d, and e is the blank behind it.
PartAt(s, d, e, item) == Placed(s, d, e, item[1], item[2], item[3])

\* Where the parameters of a list are in its text s: parameter k behind L[k - 1].
ListLayout(list, s, L) ==
  /\ L \in [0 .. Len(list) -> Nat] /\ L[0] = 0 /\ L[Len(list)] = Len(s)
  /\ \A k \in 1 .. Len(list) :
       /\ L[k - 1] < L[k] /\ L[k] <= Len(s) /\ s[L[k]] = Blank
       /\ PartAt(s, L[k - 1], L[k], list[k])

\* Every parameter has its place, and nothing else is in the text.
LEMMA ListLayoutExists ==
  ASSUME NEW list \in Seq(Items), NEW s, s = Spelled(list)
  PROVE  s \in Seq(ConnText) /\ \E L : ListLayout(list, s, L)
<1> DEFINE n == Len(list)
           X(k) == Spelling(list[k][1], list[k][2], list[k][3]) \o <<Blank>>
           E == [k \in DOMAIN list |-> X(k)]
           end(d, k) == ItemEnd(d, list[k][1], list[k][2], list[k][3])
           at(x, d, k) == ItemAt(x, d, list[k][1], list[k][2], list[k][3])
<1>1. n \in Nat /\ DOMAIN list = 1 .. n
  OBVIOUS
<1>2. \A k \in 1 .. n : /\ list[k][1] \in Seq(Word) \ {<<>>} /\ list[k][2] \in Seq(ConnCharacters)
                        /\ list[k][3] \in {"plain", "spaced", "quoted"}
  <2>1. \A k \in 1 .. n : list[k] \in Items
    OBVIOUS
  <2> QED BY <2>1 DEF Items
<1>3. \A k \in 1 .. n : X(k) \in Seq(ConnText) /\ Len(X(k)) = end(0, k) /\ at(X(k), 0, k)
  BY <1>2, ItemText
<1> HIDE DEF X
<1>4. E \in Seq(Seq(ConnText)) /\ Len(E) = n /\ \A k \in 1 .. n : E[k] = X(k)
  <2>1. E \in [1 .. n -> Seq(ConnText)]
    BY <1>1, <1>3
  <2>2. \A k \in 1 .. n : E[k] = X(k)
    BY <1>1
  <2> HIDE DEF E
  <2> QED BY <1>1, <2>1, <2>2
<1>5. s = FlattenSeq(E)
  BY DEF Spelled, X
<1> HIDE DEF E
<1>6. s \in Seq(ConnText)
  BY <1>4, <1>5, FlattenType
<1>7. PICK L : FlatLayout(E, L)
  BY <1>4, FlatLayoutExists
<1>8. /\ L \in [0 .. n -> Nat] /\ L[0] = 0 /\ L[n] = Len(s)
      /\ \A k \in 1 .. n :
           /\ L[k] = L[k - 1] + Len(X(k)) /\ L[k] <= Len(s)
           /\ \A j \in 1 .. Len(X(k)) : s[L[k - 1] + j] = X(k)[j]
  BY <1>4, <1>5, <1>7 DEF FlatLayout
<1>9. ASSUME NEW k \in 1 .. n
      PROVE  L[k - 1] < L[k] /\ L[k] <= Len(s) /\ s[L[k]] = Blank /\ PartAt(s, L[k - 1], L[k], list[k])
  <2> DEFINE d == L[k - 1]
             x == X(k)
  <2>1. d \in Nat
    <3>1. k - 1 \in 0 .. n /\ L \in [0 .. n -> Nat]
      BY <1>1, <1>8
    <3> QED BY <3>1
  <2>2. L[k] = d + Len(x) /\ L[k] <= Len(s) /\ \A j \in 1 .. Len(x) : s[d + j] = x[j]
    BY <1>8
  <2>3. /\ x \in Seq(ConnText) /\ Len(x) = ItemEnd(0, list[k][1], list[k][2], list[k][3])
        /\ ItemAt(x, 0, list[k][1], list[k][2], list[k][3])
    BY <1>3
  <2> DEFINE key == list[k][1]
             v == list[k][2]
             how == list[k][3]
  <2>4. key \in Seq(Word) \ {<<>>} /\ v \in Seq(ConnCharacters) /\ how \in {"plain", "spaced", "quoted"}
    BY <1>2
  <2> HIDE DEF d, x, key, v, how
  <2>5. ItemAt(s, d, key, v, how) /\ ItemEnd(d, key, v, how) = d + Len(x)
    <3>1. x \in Seq(ConnText) /\ Len(x) = ItemEnd(0, key, v, how) /\ ItemAt(x, 0, key, v, how)
      BY <2>3 DEF key, v, how
    <3>2. HasAt(s, d, x)
      BY <2>2 DEF HasAt
    <3>3. Placed(s, d, d + Len(x), key, v, how)
      BY <1>6, <2>1, <2>4, <3>1, <3>2, ItemMoved
    <3> QED BY <3>3 DEF Placed
  <2>6. Len(x) \in Nat /\ Len(x) >= 1
    <3>1. Len(key) \in Nat /\ Len(key) >= 1 /\ key[1] \in Word
      BY <2>4
    <3>2. Len(x) \in Nat
      BY <2>3
    <3>3. 1 \in 1 .. Len(key)
      BY <3>1
    <3>4. ItemEnd(0, key, v, how) = ValueAt(0, key, how) + Len(EscapeValue(v)) + 2 * Quotes(how)
      BY DEF ItemEnd
    <3>5. ValueAt(0, key, how) = 0 + Len(key) + 2 * Blanks(how) + 2
      BY DEF ValueAt
    <3>6. Blanks(how) \in Nat /\ Quotes(how) \in Nat
      BY DEF Blanks, Quotes
    <3>7. Len(EscapeValue(v)) \in Nat
      <4>1. v \in Seq(ConnText) /\ Backslash \in ConnText
        BY <2>4 DEF ConnText
      <4>2. EscapeValue(v) \in Seq(ConnText)
        BY <4>1, ValueLayoutExists
      <4> QED BY <4>2
    <3>8. Len(x) = ItemEnd(0, key, v, how)
      BY <2>3 DEF key, v, how
    <3> QED BY <3>1, <3>4, <3>5, <3>6, <3>7, <3>8
  <2>7. s[L[k]] = Blank
    <3>1. s[ItemEnd(d, key, v, how)] = Blank
      BY <2>5 DEF ItemAt
    <3> QED BY <2>2, <2>5, <3>1
  <2>8. d < L[k]
    BY <2>1, <2>2, <2>6
  <2>9. PartAt(s, d, L[k], list[k])
    BY <2>2, <2>5 DEF PartAt, Placed, key, v, how
  <2> QED BY <2>2, <2>7, <2>8, <2>9 DEF d
<1>10. ListLayout(list, s, L)
  BY <1>8, <1>9 DEF ListLayout
<1> QED BY <1>6, <1>10

\* Where the search for parameter k + 1 begins: at the blank behind parameter k.
SearchFrom(L, k) == IF k = 0 THEN 1 ELSE L[k]

\* The pairs of the text are the keys and values of the list.
LEMMA PairsOfList ==
  ASSUME NEW list \in Seq(Items), \A k \in 1 .. Len(list) : Spellable(list[k][2], list[k][3]),
         \A k \in 1 .. Len(list) : list[k][3] = "quoted" => k = Len(list)
  PROVE  Pairs(Spelled(list)) = [k \in 1 .. Len(list) |-> <<list[k][1], list[k][2]>>]
<1> DEFINE s == Spelled(list)
           n == Len(list)
           P == [k \in 1 .. n |-> <<list[k][1], list[k][2]>>]
           w(k) == SubSeq(P, k, n)
<1>1. n \in Nat /\ n + 1 \in Nat
  OBVIOUS
<1>2. \A k \in 1 .. n : /\ list[k][1] \in Seq(Word) \ {<<>>} /\ list[k][2] \in Seq(ConnCharacters)
                        /\ list[k][3] \in {"plain", "spaced", "quoted"}
  <2>1. \A k \in 1 .. n : list[k] \in Items
    OBVIOUS
  <2> QED BY <2>1 DEF Items
<1> DEFINE C == Seq(Word) \X Seq(ConnCharacters)
<1>3. P \in Seq(C) /\ Len(P) = n
  <2>1. P \in [1 .. n -> C]
    BY <1>2
  <2> HIDE DEF P, C
  <2> QED BY <1>1, <2>1
<1> HIDE DEF s
<1>4. s \in Seq(ConnText) /\ \E L : ListLayout(list, s, L)
  BY ListLayoutExists DEF s
<1>5. PICK L : ListLayout(list, s, L)
  BY <1>4
<1>6. Len(s) \in Nat
  BY <1>4
<1>7. PICK f : Pairing(s, f) /\ Pairs(s) = f[1]
  BY <1>6, PairingExists
<1>8. /\ L \in [0 .. n -> Nat] /\ L[0] = 0 /\ L[n] = Len(s)
      /\ \A k \in 1 .. n :
           /\ L[k - 1] < L[k] /\ L[k] <= Len(s) /\ s[L[k]] = Blank
           /\ PartAt(s, L[k - 1], L[k], list[k])
  BY <1>5 DEF ListLayout
<1>9. \A p \in Nat : s[p] = Blank => ~Matches(s, p)
  BY ConnTextIs DEF Matches
<1> DEFINE Good(k) == f[SearchFrom(L, k - 1)] = w(k)
           S == {k \in 1 .. n + 1 : Good(k)}
<1>10. ASSUME NEW h \in 1 .. n + 1, \A k \in h + 1 .. n + 1 : k \in S PROVE h \in S
  <2> HIDE DEF S, w, P, C
  <2> DEFINE d == L[h - 1]
             i == SearchFrom(L, h - 1)
  <2>1. d \in Nat /\ d <= Len(s) /\ (h # 1 => s[d] = Blank /\ d >= 1)
    <3>1. h - 1 \in 0 .. n /\ L \in [0 .. n -> Nat]
      BY <1>1, <1>8
    <3>2. d \in Nat
      BY <3>1
    <3>3. CASE h = 1
      BY <1>6, <1>8, <3>3
    <3>4. CASE h # 1
      <4>1. h - 1 \in 1 .. n /\ h - 1 - 1 \in 0 .. n
        BY <1>1, <3>4
      <4>2. L[h - 1 - 1] \in Nat /\ L[h - 1 - 1] < d /\ d <= Len(s) /\ s[d] = Blank
        BY <1>8, <4>1
      <4> QED BY <3>2, <4>2
    <3> QED BY <3>3, <3>4, <3>2
  <2>2. (h = 1 => i = 1 /\ d = 0) /\ (h # 1 => i = d)
    <3>1. h # 1 => h - 1 # 0
      OBVIOUS
    <3> QED BY <1>8, <3>1 DEF SearchFrom
  <2> HIDE DEF d, i
  <2>3. CASE h = n + 1
    <3>1. w(h) = <<>>
      BY <1>1, <1>3, <2>3 DEF w
    <3>2. d = Len(s)
      BY <1>1, <1>8, <2>3 DEF d
    <3>3. i \in 1 .. Len(s) + 1
      BY <1>6, <2>1, <2>2
    <3>4. Starts(s, i) = {}
      <4> SUFFICES ASSUME NEW p \in i .. Len(s), Matches(s, p) PROVE FALSE
        BY DEF Starts
      <4>1. h # 1 /\ p = d
        BY <1>6, <2>1, <2>2, <3>2, <3>3
      <4> QED BY <1>9, <2>1, <4>1
    <3>5. f[i] = <<>>
      BY <1>7, <3>3, <3>4, PairingIs
    <3>6. Good(h)
      BY <3>1, <3>5 DEF i
    <3> QED BY <3>6 DEF S
  <2>4. CASE h # n + 1
    <3>1. h \in 1 .. n /\ h + 1 \in h + 1 .. n + 1 /\ h + 1 - 1 = h /\ h # 0
      BY <1>1, <2>4
    <3> DEFINE e == L[h]
               key == list[h][1]
               v == list[h][2]
               how == list[h][3]
    <3>2. /\ d < e /\ e <= Len(s) /\ ItemAt(s, d, key, v, how) /\ ItemEnd(d, key, v, how) = e /\ e \in Nat
      BY <1>8, <3>1 DEF PartAt, Placed, d
    <3>3. key \in Seq(Word) \ {<<>>} /\ v \in Seq(ConnCharacters) /\ how \in {"plain", "spaced", "quoted"}
      BY <1>2, <3>1
    <3>4. Spellable(v, how)
      BY <3>1
    <3>5. how = "quoted" => e = Len(s)
      BY <1>8, <3>1
    <3>6. P[h] = <<key, v>>
      BY <3>1 DEF P
    <3>7. f[e] = w(h + 1)
      <4>1. Good(h + 1)
        <5>1. h + 1 \in S
          BY <1>10, <3>1
        <5> HIDE DEF Good
        <5> QED BY <5>1 DEF S
      <4>2. SearchFrom(L, h + 1 - 1) = e
        BY <3>1 DEF SearchFrom
      <4> HIDE DEF e
      <4> QED BY <4>1, <4>2
    <3> HIDE DEF e, key, v, how
    <3>8. MatchIs(s, d + 1, key, v, e)
      BY <1>4, <2>1, <3>2, <3>3, <3>4, <3>5, Matched
    <3> DEFINE g == d + 1
    <3>9. i \in 1 .. Len(s) /\ g \in i .. Len(s)
      BY <1>6, <2>1, <2>2, <3>2
    <3>10. \A p \in i .. g - 1 : ~Matches(s, p)
      <4> SUFFICES ASSUME NEW p \in i .. g - 1 PROVE ~Matches(s, p)
        OBVIOUS
      <4>1. h # 1 /\ p = d
        BY <2>1, <2>2
      <4> QED BY <1>9, <2>1, <4>1
    <3>11. f[i] = << <<key, v>> >> \o f[e]
      <4>1. MatchIs(s, g, key, v, e)
        BY <3>8
      <4> HIDE DEF g
      <4> QED BY <1>6, <1>7, <3>9, <3>10, <4>1, PairingAt
    <3>12. w(h) = <<P[h]>> \o w(h + 1)
      BY <1>3, <3>1, RestOf DEF w
    <3>13. Good(h)
      BY <3>6, <3>7, <3>11, <3>12 DEF i
    <3> QED BY <3>13 DEF S
  <2> QED BY <2>3, <2>4
<1>11. 1 .. n + 1 \subseteq S
  <2> HIDE DEF S
  <2> QED BY <1>1, <1>10, DownInduction
<1>12. Good(1)
  <2>1. 1 \in 1 .. n + 1
    BY <1>1
  <2> HIDE DEF Good
  <2> QED BY <1>11, <2>1
<1>13. f[1] = w(1)
  <2>1. SearchFrom(L, 1 - 1) = 1
    BY DEF SearchFrom
  <2> HIDE DEF w
  <2> QED BY <1>12, <2>1
<1>14. w(1) = P
  <2> HIDE DEF P, C
  <2> QED BY <1>3
<1> HIDE DEF w, P
<1>15. Pairs(s) = P
  BY <1>7, <1>13, <1>14
<1> QED BY <1>15 DEF s, P

\* The values of the options of a list: the last one for each option.
OptionOf(list, i)     == LowerCase(list[i][1])
LastOf(list, o)       == Max({i \in DOMAIN list : OptionOf(list, i) = o})
OptionsOfList(list)   == [o \in {OptionOf(list, i) : i \in DOMAIN list} |-> list[LastOf(list, o)][2]]

\* The list quotes no value but the last, and spells a key in one case only.
PlainList(list) ==
  /\ {i \in DOMAIN list : list[i][3] = "quoted"} \subseteq {Len(list)}
  /\ \A i, j \in DOMAIN list : OptionOf(list, i) = OptionOf(list, j) => list[i][1] = list[j][1]

\* The map of a list has the value that is spelled last for each key.
LEMMA ParamsOfList ==
  ASSUME NEW list \in Seq(Items), \A k \in 1 .. Len(list) : Spellable(list[k][2], list[k][3]),
         PlainList(list), NEW params, params = ParseConnString(Spelled(list))
  PROVE  /\ DOMAIN params = {list[i][1] : i \in DOMAIN list}
         /\ \A i \in DOMAIN list : params[list[i][1]] = list[LastOf(list, OptionOf(list, i))][2]
<1> DEFINE n == Len(list)
           P == [k \in 1 .. n |-> <<list[k][1], list[k][2]>>]
           keys == {P[i][1] : i \in DOMAIN P}
           T(k) == {i \in DOMAIN P : P[i][1] = k}
<1>1. n \in Nat /\ DOMAIN list = 1 .. n /\ DOMAIN P = 1 .. n
  OBVIOUS
<1>2. \A k \in 1 .. n : list[k][3] = "quoted" => k = n
  BY <1>1 DEF PlainList
<1>3. Pairs(Spelled(list)) = P
  BY <1>2, PairsOfList
<1>4. params = [k \in keys |-> P[Max(T(k))][2]]
  <2> HIDE DEF P
  <2> QED BY <1>3, Zenon DEF ParseConnString
<1>5. \A i \in 1 .. n : P[i][1] = list[i][1] /\ P[i][2] = list[i][2]
  OBVIOUS
<1>6. keys = {list[i][1] : i \in DOMAIN list}
  <2> HIDE DEF P
  <2> QED BY <1>1, <1>5
<1>7. ASSUME NEW i \in DOMAIN list
      PROVE  params[list[i][1]] = list[LastOf(list, OptionOf(list, i))][2]
  <2> DEFINE key == list[i][1]
             U == {j \in DOMAIN list : OptionOf(list, j) = OptionOf(list, i)}
  <2> HIDE DEF P
  <2>1. T(key) = U
    <3>1. ASSUME NEW j \in 1 .. n PROVE P[j][1] = key <=> OptionOf(list, j) = OptionOf(list, i)
      <4>1. P[j][1] = list[j][1]
        BY <1>5
      <4>2. list[j][1] = key => OptionOf(list, j) = OptionOf(list, i)
        BY DEF OptionOf
      <4>3. OptionOf(list, j) = OptionOf(list, i) => list[j][1] = key
        BY <1>1 DEF PlainList
      <4> QED BY <4>1, <4>2, <4>3
    <3> QED BY <1>1, <3>1, Zenon
  <2>2. U \subseteq 1 .. n /\ U # {} /\ 1 \in Nat
    BY <1>1
  <2>3. key \in keys
    BY <1>6
  <2> HIDE DEF U
  <2>4. Max(U) \in U
    BY <1>1, <2>2, MaxExists
  <2>5. Max(U) \in 1 .. n
    BY <2>2, <2>4
  <2>6. LastOf(list, OptionOf(list, i)) = Max(U)
    BY Zenon DEF LastOf, U
  <2>7. params[key] = P[Max(T(key))][2]
    <3> HIDE DEF key, T, keys
    <3> QED BY <1>4, <2>3, Zenon
  <2>8. params[key] = P[Max(U)][2]
    BY <2>1, <2>7, Zenon
  <2> QED BY <1>5, <2>5, <2>6, <2>8
<1>8. DOMAIN params = keys
  <2> HIDE DEF keys, T, P
  <2> QED BY <1>4
<1> QED BY <1>6, <1>7, <1>8

\* The keys of the map that are spellings of an option.
SpellingsOf(params, o) == {k \in DOMAIN params : LowerCase(k) = o}
Stays(params, o) ==
  CHOOSE k \in SpellingsOf(params, o) : \A l \in SpellingsOf(params, o) \ {k} : Behind(k, l)

\* The options of a list are the ones that are spelled.
LEMMA OptionsOfSpelled ==
  ASSUME NEW list \in Seq(Items), \A k \in 1 .. Len(list) : Spellable(list[k][2], list[k][3]),
         PlainList(list)
  PROVE  Options(ParseConnString(Spelled(list))) = OptionsOfList(list)
<1> DEFINE params == ParseConnString(Spelled(list))
           O == {OptionOf(list, i) : i \in DOMAIN list}
           R == {LowerCase(k) : k \in DOMAIN params}
<1>1. /\ DOMAIN params = {list[i][1] : i \in DOMAIN list}
      /\ \A i \in DOMAIN list : params[list[i][1]] = list[LastOf(list, OptionOf(list, i))][2]
  BY ParamsOfList
<1> HIDE DEF params
<1>2. Options(params) = [o \in R |-> params[Stays(params, o)]]
  BY Zenon DEF Options, Stays, SpellingsOf
<1>3. R = O
  BY <1>1 DEF OptionOf
<1>4. ASSUME NEW o \in O PROVE params[Stays(params, o)] = list[LastOf(list, o)][2]
  <2>1. PICK i \in DOMAIN list : o = OptionOf(list, i)
    OBVIOUS
  <2> DEFINE key == list[i][1]
             A == SpellingsOf(params, o)
  <2>2. A = {key}
    <3>1. key \in A
      BY <1>1, <2>1 DEF SpellingsOf, OptionOf
    <3>2. ASSUME NEW k \in A PROVE k = key
      <4>1. PICK j \in DOMAIN list : k = list[j][1]
        BY <1>1 DEF SpellingsOf
      <4>2. OptionOf(list, j) = OptionOf(list, i)
        BY <2>1, <4>1 DEF SpellingsOf, OptionOf
      <4> QED BY <4>1, <4>2 DEF PlainList
    <3> HIDE DEF A, key
    <3> QED BY <3>1, <3>2, Zenon
  <2> HIDE DEF A, key
  <2>3. Stays(params, o) = key
    <3> DEFINE Q(k) == \A l \in A \ {k} : Behind(k, l)
    <3>1. Stays(params, o) = CHOOSE k \in A : Q(k)
      BY DEF Stays, A
    <3>2. key \in A /\ Q(key)
      BY <2>2
    <3> HIDE DEF Q
    <3>3. (CHOOSE k \in A : Q(k)) \in A
      BY <3>2, Zenon
    <3> QED BY <2>2, <3>1, <3>3
  <2> QED BY <1>1, <2>1, <2>3 DEF key
<1>5. Options(params) = [o \in O |-> list[LastOf(list, o)][2]]
  <2> HIDE DEF O, R
  <2> QED BY <1>2, <1>3, <1>4, Zenon
<1> QED BY <1>5 DEF params, OptionsOfList

\* A call of parseConnString that has returned gave the options of its text.
OptionsInv ==
  /\ returned \in BOOLEAN
  /\ call.name = "parseConnString" => call.list \in ParameterLists
  /\ Returned("parseConnString") => outcome = Options(ParseConnString(Spelled(call.list)))

\* No text has been parsed.
LEMMA InitOptions == Init => OptionsInv
<1> SUFFICES ASSUME Init PROVE OptionsInv
  OBVIOUS
<1>1. returned = FALSE
  BY DEF Init
<1>2. call.name = "parseConnString" => call.list \in ParameterLists
  BY DEF Init
<1> QED BY <1>1, <1>2 DEF OptionsInv, Returned

\* Options are only the outcome of a call of parseConnString.
LEMMA StepOptions == OptionsInv /\ [Next]_vars => OptionsInv'
<1> SUFFICES ASSUME OptionsInv, [Next]_vars PROVE OptionsInv'
  OBVIOUS
<1>1. CASE Connect
  BY <1>1 DEF Connect, Returns, OptionsInv, Returned
<1>2. CASE Prepare
  BY <1>2 DEF Prepare, Returns, OptionsInv, Returned
<1>3. CASE ReadCell
  BY <1>3 DEF ReadCell, Returns, OptionsInv, Returned
<1>4. CASE Date
  BY <1>4 DEF Date, Returns, OptionsInv, Returned
<1>5. CASE UNCHANGED vars
  BY <1>5 DEF vars, OptionsInv, Returned
<1> QED BY <1>1, <1>2, <1>3, <1>4, <1>5 DEF Next

\* parseConnString (DbConnection.cpp) and the constructor of MySQLConnector give
\* each option the value that was spelled last for it, for all keys and all values
\* of one line, whatever blanks, quotes, backslashes and equals signs they have,
\* when no value but the last is quoted and a key is spelled in one case only: the
\* expression matches each parameter as a whole and nothing between or within them.
THEOREM OptionsAreAsSpelled == Spec => []OptionsAsSpelled
<1>1. OptionsInv => OptionsAsSpelled
  <2> SUFFICES ASSUME OptionsInv, Returned("parseConnString") PROVE OptionsAsSpelled
    BY DEF OptionsAsSpelled
  <2>1. PICK list \in ParameterLists :
          list = call.list /\ outcome = Options(ParseConnString(Spelled(list)))
    BY DEF OptionsInv, Returned
  <2>2. list \in Seq(Items) /\ \A k \in 1 .. Len(list) : Spellable(list[k][2], list[k][3])
    <3>1. list \in Seq(Items) /\ \A k \in DOMAIN list : Spellable(list[k][2], list[k][3])
      BY ParameterListsAssumption DEF Items
    <3>2. DOMAIN list = 1 .. Len(list)
      BY <3>1
    <3> QED BY <3>1, <3>2
  <2>3. PlainList(list) => outcome = OptionsOfList(list)
    BY <2>1, <2>2, OptionsOfSpelled
  <2>4. PlainList(call.list) => outcome = OptionsOfList(call.list)
    BY <2>1, <2>3
  <2> QED BY <2>4, Zenon DEF OptionsAsSpelled, PlainList, OptionsOfList, OptionOf, LastOf
<1> QED BY <1>1, InitOptions, StepOptions, PTL DEF Spec

(***************************************************************************)
(* The scanner of array texts.                                             *)
(***************************************************************************)
\* The characters of the texts.
Chars == Alphabet \cup Special \cup {Null}

\* The characters that mean something to the scanner are different.
LEMMA CharactersDiffer ==
  /\ NUL \notin Special /\ NUL # Null /\ Null \notin Special
  /\ SQuote # DQuote /\ SQuote # BSlash /\ DQuote # BSlash
  /\ LBrace # RBrace /\ LBrace \notin {SQuote, DQuote} /\ RBrace \notin {SQuote, DQuote}
  /\ Comma \notin {SQuote, DQuote, LBrace, RBrace}
  /\ Semicolon \notin {SQuote, DQuote, LBrace, RBrace}
BY Zenon DEF Special, SQuote, DQuote, BSlash, Comma, Semicolon, LBrace, RBrace, Null, NUL

\* A text has no NUL in it.
LEMMA CharsAreNoNUL == NUL \notin Chars
BY CharactersDiffer, AlphabetAssumption DEF Chars

\* The character at a position.
LEMMA AtIs ==
  ASSUME NEW text \in Seq(Chars), NEW i \in Nat, i >= 1
  PROVE  /\ i <= Len(text) => At(text, i) = text[i] /\ At(text, i) \in Chars /\ At(text, i) # NUL
         /\ i > Len(text) => At(text, i) = NUL
         /\ At(text, i) # NUL => i <= Len(text)
<1>1. Len(text) \in Nat
  OBVIOUS
<1>2. i <= Len(text) => At(text, i) = text[i] /\ text[i] \in Chars
  BY <1>1 DEF At
<1>3. i > Len(text) => ~(i <= Len(text))
  BY <1>1
<1>4. ~(i <= Len(text)) => At(text, i) = NUL
  BY DEF At
<1> QED BY <1>2, <1>3, <1>4, CharsAreNoNUL

\* A quoted string ends at h.
Ends(text, quote, h) == At(text, h) = quote /\ (quote = SQuote => At(text, h + 1) # SQuote)

\* A scan throws at h.
Throws(text, h) == At(text, h) = NUL \/ (At(text, h) = BSlash /\ At(text, h + 1) = NUL)

\* A scan goes on behind the next character.
Twice(text, quote, h) == At(text, h) \in {quote, BSlash}

\* f is `scan' of one of the quotes.
Scan(text, quote, f) ==
  f = [h \in 1 .. Len(text) + 1 |->
        IF Throws(text, h) THEN ScanThrown
        ELSE IF Ends(text, quote, h) THEN h + 1
        ELSE IF Twice(text, quote, h) THEN f[h + 2] ELSE f[h + 1]]

\* What a scan finds from each position on.
LEMMA ScanIs ==
  ASSUME NEW text, NEW quote, NEW f, Scan(text, quote, f), NEW h \in 1 .. Len(text) + 1
  PROVE  f[h] = IF Throws(text, h) THEN ScanThrown
                ELSE IF Ends(text, quote, h) THEN h + 1
                ELSE IF Twice(text, quote, h) THEN f[h + 2] ELSE f[h + 1]
BY Zenon DEF Scan

\* Where a scan goes on it stays in the text.
LEMMA ScanGoesOn ==
  ASSUME NEW text \in Seq(Chars), NEW quote \in {SQuote, DQuote}, NEW h \in 1 .. Len(text) + 1,
         ~Throws(text, h)
  PROVE  /\ h <= Len(text) /\ h + 1 \in h + 1 .. Len(text) + 1
         /\ ~Ends(text, quote, h) /\ Twice(text, quote, h) => h + 2 \in h + 1 .. Len(text) + 1
<1>1. Len(text) \in Nat /\ h \in Nat /\ h >= 1 /\ h + 1 \in Nat /\ h + 1 >= 1
  OBVIOUS
<1>2. At(text, h) # NUL
  BY DEF Throws
<1>3. h <= Len(text)
  BY <1>1, <1>2, AtIs
<1>4. ASSUME ~Ends(text, quote, h), Twice(text, quote, h) PROVE h + 1 <= Len(text)
  <2>1. At(text, h + 1) # NUL
    <3>1. CASE At(text, h) = BSlash
      BY <3>1 DEF Throws
    <3>2. CASE At(text, h) = quote
      <4>1. quote = SQuote /\ At(text, h + 1) = SQuote
        BY <1>4, <3>2 DEF Ends
      <4>2. SQuote # NUL
        BY CharactersDiffer DEF Special
      <4> QED BY <4>1, <4>2
    <3> QED BY <1>4, <3>1, <3>2 DEF Twice
  <2> QED BY <1>1, <2>1, AtIs
<1> QED BY <1>1, <1>3, <1>4

\* There is such a function.
LEMMA ScanExists ==
  ASSUME NEW text \in Seq(Chars), NEW quote \in {SQuote, DQuote}
  PROVE  \E f : Scan(text, quote, f)
<1> DEFINE n == Len(text)
           D == 1 .. n + 1
           stop == {h \in D : Throws(text, h) \/ Ends(text, quote, h)}
           val == [h \in D |-> IF Throws(text, h) THEN ScanThrown ELSE h + 1]
           step == [h \in D |-> [x \in Nat |-> x]]
           jump == [h \in D |-> IF Twice(text, quote, h) THEN h + 2 ELSE h + 1]
           rank == [h \in D |-> n + 1 - h]
<1>1. n \in Nat /\ n + 1 \in Nat
  OBVIOUS
<1>2. \A h \in D : rank[h] \in Nat /\ rank[h] < n + 1
  BY <1>1
<1>3. ASSUME NEW h \in D
      PROVE  IF h \in stop THEN val[h] \in Nat
             ELSE jump[h] \in D /\ rank[jump[h]] < rank[h] /\ step[h] \in [Nat -> Nat]
  <2>1. CASE h \in stop
    <3>1. val[h] \in Nat
      BY <1>1 DEF ScanThrown
    <3> QED BY <2>1, <3>1
  <2>2. CASE h \notin stop
    <3>1. ~Throws(text, h) /\ ~Ends(text, quote, h)
      BY <2>2
    <3>2. h <= n /\ h + 1 \in D /\ (Twice(text, quote, h) => h + 2 \in D)
      <4>1. /\ h + 1 \in h + 1 .. n + 1 /\ h <= n
            /\ Twice(text, quote, h) => h + 2 \in h + 1 .. n + 1
        BY <3>1, ScanGoesOn
      <4> QED BY <1>1, <4>1
    <3>3. jump[h] \in D /\ (jump[h] = h + 1 \/ jump[h] = h + 2)
      BY <3>2
    <3>4. rank[jump[h]] < rank[h]
      <4>1. n + 1 - (h + 1) < n + 1 - h /\ n + 1 - (h + 2) < n + 1 - h
        BY <1>1
      <4>2. rank[jump[h]] = n + 1 - jump[h] /\ rank[h] = n + 1 - h
        BY <3>3
      <4> HIDE DEF jump, rank
      <4> QED BY <3>3, <4>1, <4>2
    <3>5. step[h] \in [Nat -> Nat]
      OBVIOUS
    <3> HIDE DEF stop, jump, rank, step, D
    <3> QED BY <2>2, <3>3, <3>4, <3>5
  <2> QED BY <2>1, <2>2
<1>4. \E f \in [D -> Nat] : Recursive(D, stop, val, step, jump, f)
  <2> HIDE DEF D, stop, val, step, jump, rank
  <2>1. \A h \in D : IF h \in stop THEN val[h] \in Nat
             ELSE jump[h] \in D /\ rank[jump[h]] < rank[h] /\ step[h] \in [Nat -> Nat]
    BY <1>3
  <2> QED BY <1>1, <1>2, <2>1, RecursionExists
<1>5. PICK f \in [D -> Nat] : Recursive(D, stop, val, step, jump, f)
  BY <1>4
<1>6. ASSUME NEW h \in D
      PROVE  f[h] = IF Throws(text, h) THEN ScanThrown
                    ELSE IF Ends(text, quote, h) THEN h + 1
                    ELSE IF Twice(text, quote, h) THEN f[h + 2] ELSE f[h + 1]
  <2>1. f[h] = IF h \in stop THEN val[h] ELSE step[h][f[jump[h]]]
    <3> HIDE DEF D, stop, val, step, jump
    <3> QED BY <1>5 DEF Recursive
  <2>2. CASE h \in stop
    BY <2>1, <2>2
  <2>3. CASE h \notin stop
    <3>1. jump[h] \in D /\ f[h] = step[h][f[jump[h]]]
      BY <1>3, <2>1, <2>3
    <3>2. f[jump[h]] \in Nat
      <4> HIDE DEF D, jump
      <4> QED BY <1>5, <3>1
    <3> DEFINE x == f[jump[h]]
    <3>3. x \in Nat /\ f[h] = step[h][x] /\ x = IF Twice(text, quote, h) THEN f[h + 2] ELSE f[h + 1]
      BY <3>1, <3>2
    <3> HIDE DEF x
    <3>4. step[h][x] = x
      BY <3>3
    <3>5. ~Throws(text, h) /\ ~Ends(text, quote, h)
      BY <2>3
    <3> HIDE DEF step
    <3> QED BY <3>3, <3>4, <3>5
  <2> QED BY <2>2, <2>3
<1>7. f = [h \in D |-> f[h]]
  BY <1>5
<1>8. Scan(text, quote, f)
  <2>1. f = [h \in D |-> IF Throws(text, h) THEN ScanThrown
                    ELSE IF Ends(text, quote, h) THEN h + 1
                    ELSE IF Twice(text, quote, h) THEN f[h + 2] ELSE f[h + 1]]
    <3> HIDE DEF D
    <3> QED BY <1>6, <1>7
  <2> QED BY <2>1, Zenon DEF Scan
<1> QED BY <1>8

\* `scan' of ScanSingleQuoted,
SingleScan(text, scan) ==
  scan = [here \in 1 .. Len(text) + 1 |->
        CASE At(text, here) = NUL -> ScanThrown
          [] At(text, here) = SQuote ->
               IF At(text, here + 1) # SQuote THEN here + 1 ELSE scan[here + 2]
          [] At(text, here) = BSlash ->
               IF At(text, here + 1) = NUL THEN ScanThrown ELSE scan[here + 2]
          [] OTHER -> scan[here + 1]]

\* and of ScanDoubleQuoted.
DoubleScan(text, scan) ==
  scan = [here \in 1 .. Len(text) + 1 |->
        CASE At(text, here) = NUL -> ScanThrown
          [] At(text, here) = DQuote -> here + 1
          [] At(text, here) = BSlash ->
               IF At(text, here + 1) = NUL THEN ScanThrown ELSE scan[here + 2]
          [] OTHER -> scan[here + 1]]

\* Both are scans.
LEMMA ScansAre ==
  ASSUME NEW text, NEW f
  PROVE  (SingleScan(text, f) <=> Scan(text, SQuote, f)) /\ (DoubleScan(text, f) <=> Scan(text, DQuote, f))
<1> DEFINE D == 1 .. Len(text) + 1
           s(h) == CASE At(text, h) = NUL -> ScanThrown
                     [] At(text, h) = SQuote ->
                          IF At(text, h + 1) # SQuote THEN h + 1 ELSE f[h + 2]
                     [] At(text, h) = BSlash ->
                          IF At(text, h + 1) = NUL THEN ScanThrown ELSE f[h + 2]
                     [] OTHER -> f[h + 1]
           d(h) == CASE At(text, h) = NUL -> ScanThrown
                     [] At(text, h) = DQuote -> h + 1
                     [] At(text, h) = BSlash ->
                          IF At(text, h + 1) = NUL THEN ScanThrown ELSE f[h + 2]
                     [] OTHER -> f[h + 1]
           e(quote, h) == IF Throws(text, h) THEN ScanThrown
                          ELSE IF Ends(text, quote, h) THEN h + 1
                          ELSE IF Twice(text, quote, h) THEN f[h + 2] ELSE f[h + 1]
<1>1. /\ SQuote # NUL /\ DQuote # NUL /\ BSlash # NUL
      /\ SQuote # DQuote /\ SQuote # BSlash /\ DQuote # BSlash
  BY CharactersDiffer DEF Special
<1>2. ASSUME NEW h \in D PROVE s(h) = e(SQuote, h) /\ d(h) = e(DQuote, h)
  <2> DEFINE c == At(text, h)
             b == At(text, h + 1)
  <2>1. /\ Throws(text, h) <=> c = NUL \/ (c = BSlash /\ b = NUL)
        /\ Ends(text, SQuote, h) <=> c = SQuote /\ b # SQuote
        /\ Ends(text, DQuote, h) <=> c = DQuote
        /\ Twice(text, SQuote, h) <=> c = SQuote \/ c = BSlash
        /\ Twice(text, DQuote, h) <=> c = DQuote \/ c = BSlash
    BY <1>1 DEF Throws, Ends, Twice
  <2>2. CASE c = NUL
    BY <1>1, <2>1, <2>2
  <2>3. CASE c = SQuote
    BY <1>1, <2>1, <2>3
  <2>4. CASE c = DQuote
    BY <1>1, <2>1, <2>4
  <2>5. CASE c = BSlash
    BY <1>1, <2>1, <2>5
  <2>6. CASE c \notin {NUL, SQuote, DQuote, BSlash}
    BY <1>1, <2>1, <2>6
  <2> QED BY <2>2, <2>3, <2>4, <2>5, <2>6
<1>3. [h \in D |-> s(h)] = [h \in D |-> e(SQuote, h)] /\ [h \in D |-> d(h)] = [h \in D |-> e(DQuote, h)]
  <2> HIDE DEF D, s, d, e
  <2> QED BY <1>2
<1>4. SingleScan(text, f) <=> f = [h \in D |-> s(h)]
  BY DEF SingleScan
<1>5. DoubleScan(text, f) <=> f = [h \in D |-> d(h)]
  BY DEF DoubleScan
<1>6. \A quote : Scan(text, quote, f) <=> f = [h \in D |-> e(quote, h)]
  BY DEF Scan
<1> HIDE DEF D, s, d, e
<1> QED BY <1>3, <1>4, <1>5, <1>6

\* Both scans find what such a function says.
LEMMA ScansExist ==
  ASSUME NEW text \in Seq(Chars)
  PROVE  /\ \E f : Scan(text, SQuote, f) /\ \A begin : ScanSingleQuoted(text, begin) = f[begin + 1]
         /\ \E f : Scan(text, DQuote, f) /\ \A begin : ScanDoubleQuoted(text, begin) = f[begin + 1]
<1> DEFINE f == CHOOSE h : SingleScan(text, h)
           g == CHOOSE h : DoubleScan(text, h)
<1>1. SingleScan(text, f)
  <2>1. \E h : Scan(text, SQuote, h)
    BY ScanExists
  <2>2. \E h : SingleScan(text, h)
    BY <2>1, ScansAre
  <2> QED BY <2>2
<1>2. DoubleScan(text, g)
  <2>1. \E h : Scan(text, DQuote, h)
    BY ScanExists
  <2>2. \E h : DoubleScan(text, h)
    BY <2>1, ScansAre
  <2> QED BY <2>2
<1>3. \A begin : ScanSingleQuoted(text, begin) = f[begin + 1]
  BY DEF ScanSingleQuoted, SingleScan
<1>4. \A begin : ScanDoubleQuoted(text, begin) = g[begin + 1]
  BY DEF ScanDoubleQuoted, DoubleScan
<1>5. Scan(text, SQuote, f) /\ Scan(text, DQuote, g)
  BY <1>1, <1>2, ScansAre
<1> HIDE DEF f, g
<1> QED BY <1>3, <1>4, <1>5

\* A scan that does not throw ends behind a quote.
LEMMA ScanEnds ==
  ASSUME NEW text \in Seq(Chars), NEW quote \in {SQuote, DQuote}, NEW f, Scan(text, quote, f),
         NEW i \in 1 .. Len(text) + 1
  PROVE  f[i] = ScanThrown \/ (f[i] \in i + 1 .. Len(text) + 1 /\ At(text, f[i] - 1) = quote)
<1> DEFINE n == Len(text)
           Good(h) == f[h] = ScanThrown \/ (f[h] \in h + 1 .. n + 1 /\ At(text, f[h] - 1) = quote)
           S == {h \in 1 .. n + 1 : Good(h)}
<1>1. n \in Nat /\ n + 1 \in Nat
  OBVIOUS
<1>2. ASSUME NEW h \in 1 .. n + 1, \A k \in h + 1 .. n + 1 : k \in S PROVE h \in S
  <2> SUFFICES Good(h)
    OBVIOUS
  <2>1. f[h] = IF Throws(text, h) THEN ScanThrown
               ELSE IF Ends(text, quote, h) THEN h + 1
               ELSE IF Twice(text, quote, h) THEN f[h + 2] ELSE f[h + 1]
    BY ScanIs
  <2>2. CASE Throws(text, h)
    BY <2>1, <2>2
  <2>3. CASE ~Throws(text, h) /\ Ends(text, quote, h)
    <3>1. f[h] = h + 1 /\ At(text, h) = quote
      BY <2>1, <2>3 DEF Ends
    <3>2. h + 1 \in h + 1 .. n + 1
      BY <2>3, ScanGoesOn
    <3>3. h + 1 - 1 = h
      OBVIOUS
    <3> QED BY <3>1, <3>2, <3>3
  <2>4. CASE ~Throws(text, h) /\ ~Ends(text, quote, h)
    <3>1. PICK q \in h + 1 .. n + 1 : f[h] = f[q]
      <4>1. h + 1 \in h + 1 .. n + 1 /\ (Twice(text, quote, h) => h + 2 \in h + 1 .. n + 1)
        BY <2>4, ScanGoesOn
      <4> QED BY <2>1, <2>4, <4>1
    <3>2. Good(q)
      <4> HIDE DEF Good
      <4> QED BY <1>2, <3>1
    <3>3. \A x \in q + 1 .. n + 1 : x \in h + 1 .. n + 1
      BY <1>1, <3>1
    <3> QED BY <3>1, <3>2, <3>3
  <2> QED BY <2>2, <2>3, <2>4
<1>3. 1 .. n + 1 \subseteq S
  <2> HIDE DEF S
  <2> QED BY <1>1, <1>2, DownInduction
<1> QED BY <1>3

\* A quoted string that begins at p ends in the text, unless the scan throws.
LEMMA QuotedScansEnd ==
  ASSUME NEW text \in Seq(Chars), NEW p \in 1 .. Len(text)
  PROVE  /\ \/ ScanSingleQuoted(text, p) = ScanThrown
            \/ /\ ScanSingleQuoted(text, p) \in p + 2 .. Len(text) + 1
               /\ At(text, ScanSingleQuoted(text, p) - 1) = SQuote
         /\ \/ ScanDoubleQuoted(text, p) = ScanThrown
            \/ /\ ScanDoubleQuoted(text, p) \in p + 2 .. Len(text) + 1
               /\ At(text, ScanDoubleQuoted(text, p) - 1) = DQuote
<1>1. p + 1 \in 1 .. Len(text) + 1 /\ p + 1 + 1 = p + 2
  OBVIOUS
<1>2. PICK f : Scan(text, SQuote, f) /\ \A begin : ScanSingleQuoted(text, begin) = f[begin + 1]
  BY ScansExist
<1>3. PICK g : Scan(text, DQuote, g) /\ \A begin : ScanDoubleQuoted(text, begin) = g[begin + 1]
  BY ScansExist
<1> DEFINE i == p + 1
<1>4. f[i] = ScanThrown \/ (f[i] \in i + 1 .. Len(text) + 1 /\ At(text, f[i] - 1) = SQuote)
  BY <1>1, <1>2, ScanEnds
<1>5. g[i] = ScanThrown \/ (g[i] \in i + 1 .. Len(text) + 1 /\ At(text, g[i] - 1) = DQuote)
  BY <1>1, <1>3, ScanEnds
<1> QED BY <1>1, <1>2, <1>3, <1>4, <1>5

\* An unquoted string ends at the first separator or brace.
LEMMA UnquotedScanEnds ==
  ASSUME NEW text \in Seq(Chars), NEW p \in 1 .. Len(text)
  PROVE  LET e == ScanUnquoted(text, p)
         IN \/ e = Overrun(text) /\ text[Len(text)] # RBrace
            \/ /\ e \in p .. Len(text) /\ At(text, e) \in {Comma, Semicolon, RBrace}
               /\ \A q \in p .. Len(text) : At(text, q) \in {Comma, Semicolon, RBrace} => e <= q
<1> DEFINE stops == {q \in p .. Len(text) : At(text, q) \in {Comma, Semicolon, RBrace}}
           e == ScanUnquoted(text, p)
<1>1. e = IF stops = {} THEN Overrun(text) ELSE CHOOSE q \in stops : \A r \in stops : q <= r
  BY DEF ScanUnquoted
<1>2. Len(text) \in Nat /\ stops \subseteq Nat
  OBVIOUS
<1>3. CASE stops = {}
  <2>1. e = Overrun(text)
    BY <1>1, <1>3
  <2>2. Len(text) \in p .. Len(text) /\ Len(text) >= 1
    BY <1>2
  <2>3. At(text, Len(text)) # RBrace
    BY <1>3, <2>2
  <2>4. At(text, Len(text)) = text[Len(text)]
    BY <1>2, <2>2, AtIs
  <2> QED BY <2>1, <2>3, <2>4
<1>4. CASE stops # {}
  <2>1. \E q \in stops : \A r \in stops : q <= r
    <3> HIDE DEF stops
    <3> QED BY <1>2, <1>4, Least
  <2>2. e \in stops /\ \A r \in stops : e <= r
    <3> HIDE DEF stops, e
    <3> QED BY <1>1, <1>4, <2>1
  <2> HIDE DEF e
  <2> QED BY <2>2 DEF e
<1> QED BY <1>3, <1>4

\* f is `parse' of ParseQuoted.
Parsing(text, end, escapes, f) ==
  f = [here \in 1 .. end |->
        IF here >= end - 1 THEN <<>>
        ELSE <<At(text, here)>>
               \o f[IF At(text, here) \in escapes THEN here + 2 ELSE here + 1]]

\* There is such a function.
LEMMA ParsingExists ==
  ASSUME NEW text, NEW end \in Nat, NEW escapes
  PROVE  \E f : Parsing(text, end, escapes, f) /\ \A begin : ParseQuoted(text, begin, end, escapes) = f[begin + 1]
<1> DEFINE D == 1 .. end
           C == {At(text, h) : h \in D}
           V == Seq(C)
           stop == {h \in D : h >= end - 1}
           val == [h \in D |-> <<>>]
           step == [h \in D |-> [x \in V |-> <<At(text, h)>> \o x]]
           jump == [h \in D |-> IF At(text, h) \in escapes THEN h + 2 ELSE h + 1]
           rank == [h \in D |-> end - h]
<1>1. \A h \in D : rank[h] \in Nat /\ rank[h] < end + 1
  OBVIOUS
<1>2. ASSUME NEW h \in D
      PROVE  IF h \in stop THEN val[h] \in V
             ELSE jump[h] \in D /\ rank[jump[h]] < rank[h] /\ step[h] \in [V -> V]
  <2>1. CASE h \in stop
    <3>1. val[h] \in V
      <4> HIDE DEF C
      <4> QED OBVIOUS
    <3> QED BY <2>1, <3>1
  <2>2. CASE h \notin stop
    <3>1. ~(h >= end - 1)
      BY <2>2
    <3>2. h + 1 \in D /\ h + 2 \in D
      BY <3>1
    <3>3. jump[h] \in D /\ (jump[h] = h + 1 \/ jump[h] = h + 2)
      BY <3>2
    <3>4. rank[jump[h]] < rank[h]
      <4>1. end - (h + 1) < end - h /\ end - (h + 2) < end - h
        OBVIOUS
      <4>2. rank[jump[h]] = end - jump[h] /\ rank[h] = end - h
        BY <3>3
      <4> HIDE DEF jump, rank
      <4> QED BY <3>3, <4>1, <4>2
    <3>5. step[h] \in [V -> V]
      <4>1. At(text, h) \in C
        OBVIOUS
      <4> HIDE DEF C
      <4>2. \A x \in V : <<At(text, h)>> \o x \in V
        BY <4>1
      <4> HIDE DEF V
      <4> QED BY <4>2
    <3> HIDE DEF stop, jump, rank, step, D, V
    <3> QED BY <2>2, <3>3, <3>4, <3>5
  <2> QED BY <2>1, <2>2
<1>3. \E f \in [D -> V] : Recursive(D, stop, val, step, jump, f)
  <2> HIDE DEF D, V, stop, val, step, jump, rank
  <2>1. \A h \in D : IF h \in stop THEN val[h] \in V
             ELSE jump[h] \in D /\ rank[jump[h]] < rank[h] /\ step[h] \in [V -> V]
    BY <1>2
  <2>2. end + 1 \in Nat
    OBVIOUS
  <2> QED BY <1>1, <2>1, <2>2, RecursionExists
<1>4. PICK f \in [D -> V] : Recursive(D, stop, val, step, jump, f)
  BY <1>3
<1> DEFINE b(h) == IF h >= end - 1 THEN <<>>
        ELSE <<At(text, h)>> \o f[IF At(text, h) \in escapes THEN h + 2 ELSE h + 1]
<1>5. ASSUME NEW h \in D PROVE f[h] = b(h)
  <2>1. f[h] = IF h \in stop THEN val[h] ELSE step[h][f[jump[h]]]
    <3> HIDE DEF D, stop, val, step, jump
    <3> QED BY <1>4 DEF Recursive
  <2>2. CASE h \in stop
    BY <2>1, <2>2
  <2>3. CASE h \notin stop
    <3>1. jump[h] \in D /\ f[h] = step[h][f[jump[h]]] /\ ~(h >= end - 1)
      BY <1>2, <2>1, <2>3
    <3> DEFINE x == f[jump[h]]
    <3>2. x \in V
      <4> HIDE DEF D, jump, V
      <4> QED BY <1>4, <3>1
    <3>3. f[h] = step[h][x] /\ x = f[IF At(text, h) \in escapes THEN h + 2 ELSE h + 1]
      BY <3>1
    <3> HIDE DEF x, V
    <3>4. step[h][x] = <<At(text, h)>> \o x
      BY <3>2
    <3> HIDE DEF step
    <3> QED BY <3>1, <3>3, <3>4
  <2> QED BY <2>2, <2>3
<1>6. Parsing(text, end, escapes, f)
  <2>1. f = [h \in D |-> f[h]]
    BY <1>4
  <2>2. f = [h \in D |-> b(h)]
    <3> HIDE DEF D, b
    <3> QED BY <1>5, <2>1
  <2> QED BY <2>2, Zenon DEF Parsing
<1> DEFINE g == CHOOSE h : Parsing(text, end, escapes, h)
<1>7. Parsing(text, end, escapes, g)
  BY <1>6
<1>8. \A begin : ParseQuoted(text, begin, end, escapes) = g[begin + 1]
  BY Zenon DEF ParseQuoted, Parsing
<1> HIDE DEF g
<1> QED BY <1>7, <1>8

\* What is parsed from h on, given what is parsed from behind it on.
ParsedAt(text, end, escapes, f, h) ==
  /\ h >= end - 1 => f[h] = <<>>
  /\ ~(h >= end - 1) /\ At(text, h) \in escapes => f[h] = <<At(text, h)>> \o f[h + 2]
  /\ ~(h >= end - 1) /\ At(text, h) \notin escapes => f[h] = <<At(text, h)>> \o f[h + 1]

\* What is parsed from each position on.
LEMMA ParsingIs ==
  ASSUME NEW text, NEW end, NEW escapes, NEW f, Parsing(text, end, escapes, f), NEW h \in 1 .. end
  PROVE  ParsedAt(text, end, escapes, f, h)
<1>1. f[h] = IF h >= end - 1 THEN <<>>
             ELSE <<At(text, h)>> \o f[IF At(text, h) \in escapes THEN h + 2 ELSE h + 1]
  BY Zenon DEF Parsing
<1>2. CASE h >= end - 1
  BY <1>1, <1>2 DEF ParsedAt
<1>3. CASE ~(h >= end - 1) /\ At(text, h) \in escapes
  BY <1>1, <1>3 DEF ParsedAt
<1>4. CASE ~(h >= end - 1) /\ At(text, h) \notin escapes
  BY <1>1, <1>4 DEF ParsedAt
<1> QED BY <1>2, <1>3, <1>4

\* The text t is in T, from i on.
Here(T, i, t) == i + Len(t) <= Len(T) + 1 /\ \A k \in 1 .. Len(t) : T[i + (k - 1)] = t[k]

\* Where the characters of v are in x, which is v between quotes: character k
\* behind L[k - 1].  Single quotes are doubled between single quotes.
Layout(v, x, quote, L) ==
  /\ L \in [0 .. Len(v) -> Nat] /\ L[0] = 0 /\ L[Len(v)] = Len(x)
  /\ \A k \in 1 .. Len(v) :
       /\ L[k] <= Len(x) /\ x[L[k - 1] + 1] = v[k]
       /\ quote = SQuote /\ v[k] = SQuote => L[k] = L[k - 1] + 2 /\ x[L[k - 1] + 2] = SQuote
       /\ ~(quote = SQuote /\ v[k] = SQuote) => L[k] = L[k - 1] + 1

\* Doubled doubles them.
LEMMA DoubledLayout ==
  ASSUME NEW v \in Seq(Chars)
  PROVE  Doubled(v) \in Seq(Chars) /\ \E L : Layout(v, Doubled(v), SQuote, L)
<1> DEFINE E == [i \in DOMAIN v |-> IF v[i] = SQuote THEN <<SQuote, SQuote>> ELSE <<v[i]>>]
<1>1. SQuote \in Chars /\ DOMAIN v = 1 .. Len(v) /\ Len(v) \in Nat
  BY DEF Chars, Special
<1>2. E \in Seq(Seq(Chars)) /\ Len(E) = Len(v)
  <2>1. \A i \in DOMAIN v : v[i] \in Chars
    OBVIOUS
  <2>2. \A i \in DOMAIN v : <<SQuote, SQuote>> \in Seq(Chars) /\ <<v[i]>> \in Seq(Chars)
    BY <1>1, <2>1
  <2>3. E \in [1 .. Len(v) -> Seq(Chars)] /\ Len(v) \in Nat
    BY <2>2
  <2> HIDE DEF E
  <2> QED BY <2>3
<1> DEFINE x == Doubled(v)
<1>3. x = FlattenSeq(E)
  BY DEF Doubled
<1>4. \A k \in 1 .. Len(v) : /\ v[k] = SQuote => E[k] = <<SQuote, SQuote>>
                             /\ v[k] # SQuote => E[k] = <<v[k]>>
  BY <1>1
<1> HIDE DEF E, x
<1>5. x \in Seq(Chars)
  BY <1>2, <1>3, FlattenType
<1>6. PICK L : FlatLayout(E, L)
  BY <1>2, FlatLayoutExists
<1>7. /\ L \in [0 .. Len(v) -> Nat] /\ L[0] = 0 /\ L[Len(v)] = Len(x)
      /\ \A k \in 1 .. Len(v) :
           /\ L[k] = L[k - 1] + Len(E[k]) /\ L[k] <= Len(x)
           /\ \A j \in 1 .. Len(E[k]) : x[L[k - 1] + j] = E[k][j]
  BY <1>2, <1>3, <1>6 DEF FlatLayout
<1>8. ASSUME NEW k \in 1 .. Len(v)
      PROVE  /\ L[k] <= Len(x) /\ x[L[k - 1] + 1] = v[k]
             /\ v[k] = SQuote => L[k] = L[k - 1] + 2 /\ x[L[k - 1] + 2] = SQuote
             /\ v[k] # SQuote => L[k] = L[k - 1] + 1
  <2>1. CASE v[k] = SQuote
    <3>1. E[k] = <<SQuote, SQuote>>
      BY <1>4, <2>1
    <3>2. Len(E[k]) = 2 /\ E[k][1] = SQuote /\ E[k][2] = SQuote
      BY <3>1
    <3>3. 1 \in 1 .. 2 /\ 2 \in 1 .. 2
      OBVIOUS
    <3> QED BY <1>7, <2>1, <3>2, <3>3
  <2>2. CASE v[k] # SQuote
    <3>1. E[k] = <<v[k]>>
      BY <1>4, <2>2
    <3>2. Len(E[k]) = 1 /\ E[k][1] = v[k]
      BY <3>1
    <3>3. 1 \in 1 .. 1
      OBVIOUS
    <3> QED BY <1>7, <2>2, <3>2, <3>3
  <2> QED BY <2>1, <2>2
<1>9. Layout(v, x, SQuote, L)
  BY <1>7, <1>8 DEF Layout
<1> QED BY <1>5, <1>9 DEF x

\* Between double quotes a string is as it is.
LEMMA PlainLayout ==
  ASSUME NEW v \in Seq(Chars)
  PROVE  \E L : Layout(v, v, DQuote, L)
<1> DEFINE L == [k \in 0 .. Len(v) |-> k]
<1>1. Len(v) \in Nat /\ DQuote # SQuote
  BY CharactersDiffer
<1>2. L \in [0 .. Len(v) -> Nat] /\ L[0] = 0 /\ L[Len(v)] = Len(v)
  BY <1>1
<1>3. ASSUME NEW k \in 1 .. Len(v) PROVE L[k] = k /\ L[k - 1] = k - 1 /\ k - 1 + 1 = k /\ k <= Len(v)
  BY <1>1
<1> HIDE DEF L
<1>4. Layout(v, v, DQuote, L)
  BY <1>1, <1>2, <1>3 DEF Layout
<1> QED BY <1>4

\* The characters after which the parser of a quoted string skips one.
Escapes(quote) == IF quote = SQuote THEN {SQuote, BSlash} ELSE {BSlash}

\* In T, x is between quotes from i on, up to end, and spells v without backslashes.
QuotedAt(T, i, quote, v, x, end) ==
  /\ \A k \in 1 .. Len(v) : v[k] # BSlash /\ (quote = DQuote => v[k] # DQuote)
  /\ end = i + Len(x) + 2 /\ end <= Len(T)
  /\ \A k \in 1 .. Len(x) : T[i + k] = x[k]
  /\ T[i + Len(x) + 1] = quote /\ T[end] # SQuote

\* A quoted string without backslashes is found as it was.
LEMMA QuotedRead ==
  ASSUME NEW T \in Seq(Chars), NEW i \in 1 .. Len(T), NEW quote \in {SQuote, DQuote},
         NEW v \in Seq(Chars), NEW x \in Seq(Chars), NEW L, Layout(v, x, quote, L),
         NEW end, QuotedAt(T, i, quote, v, x, end),
         NEW f, Scan(T, quote, f), NEW g, Parsing(T, end, Escapes(quote), g)
  PROVE  f[i + 1] = end /\ g[i + 1] = v
<1>0. /\ \A k \in 1 .. Len(v) : v[k] # BSlash /\ (quote = DQuote => v[k] # DQuote)
      /\ end = i + Len(x) + 2 /\ end <= Len(T)
      /\ \A k \in 1 .. Len(x) : T[i + k] = x[k]
      /\ T[i + Len(x) + 1] = quote /\ T[end] # SQuote
  BY DEF QuotedAt
<1> USE <1>0
<1> DEFINE n == Len(v)
           m == Len(x)
           w(k) == SubSeq(v, k, n)
           at(k) == i + 1 + L[k - 1]
           Good(k) == f[at(k)] = end /\ g[at(k)] = w(k)
           S == {k \in 1 .. n + 1 : Good(k)}
<1>1. n \in Nat /\ n + 1 \in Nat /\ m \in Nat /\ i \in Nat /\ i >= 1 /\ end \in Nat /\ Len(T) \in Nat
  OBVIOUS
<1>2. /\ L \in [0 .. n -> Nat] /\ L[0] = 0 /\ L[n] = m
      /\ \A k \in 1 .. n :
           /\ L[k] <= m /\ x[L[k - 1] + 1] = v[k]
           /\ quote = SQuote /\ v[k] = SQuote => L[k] = L[k - 1] + 2 /\ x[L[k - 1] + 2] = SQuote
           /\ ~(quote = SQuote /\ v[k] = SQuote) => L[k] = L[k - 1] + 1
  BY DEF Layout
<1>3. quote # NUL /\ quote # BSlash /\ SQuote # DQuote
  BY CharactersDiffer DEF Special
<1>4. \A p \in 1 .. Len(T) : At(T, p) = T[p] /\ At(T, p) # NUL
  BY AtIs
<1>10. ASSUME NEW h \in 1 .. end
      PROVE  /\ h >= end - 1 => g[h] = <<>>
             /\ ~(h >= end - 1) /\ At(T, h) \in Escapes(quote) => g[h] = <<At(T, h)>> \o g[h + 2]
             /\ ~(h >= end - 1) /\ At(T, h) \notin Escapes(quote) => g[h] = <<At(T, h)>> \o g[h + 1]
  <2>1. ParsedAt(T, end, Escapes(quote), g, h)
    BY ParsingIs
  <2> QED BY <2>1 DEF ParsedAt
<1>5. ASSUME NEW h \in 1 .. n + 1, \A k \in h + 1 .. n + 1 : k \in S PROVE h \in S
  <2> HIDE DEF S, w
  <2> DEFINE l == L[h - 1]
             p == i + 1 + l
  <2>1. l \in Nat
    <3>1. h - 1 \in 0 .. n /\ L \in [0 .. n -> Nat]
      BY <1>1, <1>2
    <3> QED BY <3>1
  <2>2. p = at(h)
    OBVIOUS
  <2>3. ASSUME p \in 1 .. Len(T)
        PROVE  /\ f[p] = IF Throws(T, p) THEN ScanThrown
                         ELSE IF Ends(T, quote, p) THEN p + 1
                         ELSE IF Twice(T, quote, p) THEN f[p + 2] ELSE f[p + 1]
               /\ At(T, p) = T[p] /\ At(T, p) # NUL
    <3>1. p \in 1 .. Len(T) + 1
      BY <1>1, <2>3
    <3> HIDE DEF p
    <3> QED BY <1>4, <2>3, <3>1, ScanIs
  <2>4. CASE h = n + 1
    <3>1. l = m
      BY <1>1, <1>2, <2>4
    <3> HIDE DEF l
    <3>2. p = i + m + 1 /\ p + 1 = end /\ p \in 1 .. Len(T) /\ p + 1 \in 1 .. Len(T) /\ p >= end - 1 /\ p \in 1 .. end
      BY <1>1, <3>1
    <3>3. At(T, p) = quote /\ At(T, p + 1) # SQuote
      <4>1. At(T, p) = T[p] /\ At(T, p + 1) = T[p + 1]
        BY <1>4, <3>2
      <4> QED BY <3>2, <4>1
    <3>4. ~Throws(T, p) /\ Ends(T, quote, p)
      BY <1>3, <3>3 DEF Throws, Ends
    <3>5. f[p] = end
      BY <2>3, <3>2, <3>4
    <3>6. g[p] = <<>>
      <4> HIDE DEF p
      <4> QED BY <1>10, <3>2
    <3>7. w(h) = <<>>
      BY <1>1, <2>4 DEF w
    <3> HIDE DEF p
    <3>8. Good(h)
      BY <2>2, <3>5, <3>6, <3>7
    <3> QED BY <3>8 DEF S
  <2>5. CASE h # n + 1
    <3>1. h \in 1 .. n /\ h + 1 \in h + 1 .. n + 1 /\ h + 1 - 1 = h
      BY <1>1, <2>5
    <3> DEFINE r == L[h]
               c == v[h]
    <3>2. /\ r <= m /\ x[l + 1] = c
          /\ quote = SQuote /\ c = SQuote => r = l + 2 /\ x[l + 2] = SQuote
          /\ ~(quote = SQuote /\ c = SQuote) => r = l + 1
      BY <1>2, <3>1
    <3>3. c # BSlash /\ (quote = DQuote => c # DQuote) /\ c \in Chars
      BY <3>1
    <3>4. w(h) = <<c>> \o w(h + 1)
      BY <3>1, RestOf DEF w
    <3>5. f[i + 1 + r] = end /\ g[i + 1 + r] = w(h + 1)
      <4>1. Good(h + 1)
        <5>1. h + 1 \in S
          BY <1>5, <3>1
        <5> HIDE DEF Good
        <5> QED BY <5>1 DEF S
      <4>2. at(h + 1) = i + 1 + r
        BY <3>1
      <4> HIDE DEF r
      <4> QED BY <4>1, <4>2
    <3> HIDE DEF l, r, c
    <3>6. l + 1 \in 1 .. m /\ (quote = SQuote /\ c = SQuote => l + 2 \in 1 .. m)
      BY <1>1, <2>1, <3>2
    <3>7. /\ p \in 1 .. Len(T) /\ p = i + (l + 1) /\ p + 1 = i + (l + 2) /\ p + 1 \in 1 .. Len(T)
          /\ ~(p >= end - 1) /\ p \in 1 .. end
          /\ p + 2 = i + 1 + (l + 2) /\ p + 1 = i + 1 + (l + 1)
      BY <1>1, <2>1, <3>6
    <3>8. T[p] = c
      BY <3>2, <3>6, <3>7
    <3>9. At(T, p) = c /\ c # NUL
      BY <2>3, <3>7, <3>8
    <3>10. ~Throws(T, p)
      BY <3>3, <3>9 DEF Throws
    <3>11. f[p] = end /\ g[p] = <<c>> \o w(h + 1)
      <4>1. /\ At(T, p) \in Escapes(quote) => g[p] = <<c>> \o g[p + 2]
            /\ At(T, p) \notin Escapes(quote) => g[p] = <<c>> \o g[p + 1]
        <5> HIDE DEF p
        <5> QED BY <1>10, <3>7, <3>9
      <4>2. CASE quote = SQuote /\ c = SQuote
        <5>1. At(T, p + 1) = SQuote
          <6>1. At(T, p + 1) = T[p + 1]
            BY <1>4, <3>7
          <6> QED BY <3>2, <3>6, <3>7, <4>2, <6>1
        <5>2. ~Ends(T, quote, p) /\ Twice(T, quote, p) /\ At(T, p) \in Escapes(quote)
          BY <3>9, <4>2, <5>1 DEF Ends, Twice, Escapes
        <5>3. f[p] = f[p + 2] /\ p + 2 = i + 1 + r
          BY <2>3, <3>2, <3>7, <3>10, <4>2, <5>2
        <5> HIDE DEF p
        <5> QED BY <3>5, <4>1, <5>2, <5>3
      <4>3. CASE ~(quote = SQuote /\ c = SQuote)
        <5>1. c # quote
          BY <3>3, <4>3
        <5>2. ~Ends(T, quote, p) /\ ~Twice(T, quote, p)
          BY <3>3, <3>9, <5>1 DEF Ends, Twice
        <5>3. At(T, p) \notin Escapes(quote)
          BY <3>3, <3>9, <4>3 DEF Escapes
        <5>4. f[p] = f[p + 1] /\ p + 1 = i + 1 + r
          BY <2>3, <3>2, <3>7, <3>10, <4>3, <5>2
        <5> HIDE DEF p
        <5> QED BY <3>5, <4>1, <5>3, <5>4
      <4> QED BY <4>2, <4>3
    <3> HIDE DEF p
    <3>12. Good(h)
      BY <2>2, <3>4, <3>11
    <3> QED BY <3>12 DEF S
  <2> QED BY <2>4, <2>5
<1>6. 1 .. n + 1 \subseteq S
  <2> HIDE DEF S
  <2> QED BY <1>1, <1>5, DownInduction
<1>7. Good(1)
  <2>1. 1 \in 1 .. n + 1
    BY <1>1
  <2> HIDE DEF Good
  <2> QED BY <1>6, <2>1
<1>8. at(1) = i + 1
  <2>1. 1 - 1 = 0 /\ L[0] = 0 /\ i + 1 + 0 = i + 1
    BY <1>1, <1>2
  <2> QED BY <2>1
<1>9. w(1) = v
  OBVIOUS
<1> HIDE DEF at, w
<1> QED BY <1>7, <1>8, <1>9

\* An unquoted string is found as it was.
LEMMA UnquotedRead ==
  ASSUME NEW T \in Seq(Chars), NEW i \in 1 .. Len(T), NEW v \in Seq(Chars), v # <<>>,
         \A k \in 1 .. Len(v) : v[k] \notin Special,
         i + Len(v) <= Len(T), \A k \in 1 .. Len(v) : T[i + (k - 1)] = v[k],
         T[i + Len(v)] \in {Comma, RBrace}
  PROVE  ScanUnquoted(T, i) = i + Len(v) /\ SubSeq(T, i, i + Len(v) - 1) = v
<1> DEFINE n == Len(v)
           e == ScanUnquoted(T, i)
           last == i + n
           st == {Comma, Semicolon, RBrace}
<1>1. n \in Nat /\ n >= 1 /\ i \in Nat /\ i >= 1 /\ Len(T) \in Nat
  OBVIOUS
<1>2. last \in i .. Len(T) /\ last \in Nat /\ last >= 1 /\ last <= Len(T)
  BY <1>1
<1>3. \A p \in 1 .. Len(T) : At(T, p) = T[p]
  BY AtIs
<1>4. At(T, last) \in st
  BY <1>1, <1>2, <1>3
<1>5. ASSUME NEW p \in i .. last - 1 PROVE At(T, p) \notin st
  <2>1. p - i + 1 \in 1 .. n /\ i + ((p - i + 1) - 1) = p /\ p \in 1 .. Len(T)
    BY <1>1, <1>2
  <2>2. T[p] = v[p - i + 1] /\ v[p - i + 1] \notin Special
    BY <2>1
  <2> QED BY <1>3, <2>1, <2>2 DEF Special
<1>6. \/ e = Overrun(T) /\ T[Len(T)] # RBrace
      \/ /\ e \in i .. Len(T) /\ At(T, e) \in st
         /\ \A q \in i .. Len(T) : At(T, q) \in st => e <= q
  BY UnquotedScanEnds
<1>7. e # Overrun(T)
  <2> DEFINE stops == {p \in i .. Len(T) : At(T, p) \in st}
  <2>1. ScanUnquoted(T, i) = IF stops = {} THEN Overrun(T)
                             ELSE CHOOSE p \in stops : \A q \in stops : p <= q
    BY Zenon DEF ScanUnquoted
  <2>2. last \in stops /\ stops \subseteq i .. Len(T)
    BY <1>2, <1>4
  <2>3. e = CHOOSE p \in stops : \A q \in stops : p <= q
    BY <2>1, <2>2
  <2>4. \E p \in stops : \A q \in stops : p <= q
    <3>1. stops \subseteq Nat /\ stops # {}
      BY <1>1, <2>2
    <3> HIDE DEF stops
    <3> QED BY <3>1, Least
  <2>5. e \in stops
    <3> HIDE DEF stops, e
    <3> QED BY <2>3, <2>4
  <2>6. e \in i .. Len(T)
    <3> HIDE DEF stops, e
    <3> QED BY <2>2, <2>5
  <2> HIDE DEF e
  <2> QED BY <1>1, <2>6 DEF Overrun
<1>8. e = last
  <2> HIDE DEF e, st
  <2>1. e \in i .. Len(T) /\ At(T, e) \in st /\ e <= last
    BY <1>2, <1>4, <1>6, <1>7
  <2>2. e \notin i .. last - 1
    BY <1>5, <2>1
  <2> QED BY <1>1, <1>2, <2>1, <2>2
<1> DEFINE s == SubSeq(T, i, last - 1)
<1>9. s = v
  <2>1. s \in Seq(Chars) /\ Len(s) = n /\ \A k \in 1 .. n : s[k] = T[i + (k - 1)]
    <3>1. \A k \in 1 .. n : i + k - 1 = i + (k - 1)
      BY <1>1
    <3>2. s \in Seq(Chars) /\ Len(s) = n /\ \A k \in 1 .. n : s[k] = T[i + k - 1]
      BY <1>1, <1>2
    <3> QED BY <3>1, <3>2
  <2> HIDE DEF s
  <2>2. \A k \in 1 .. n : s[k] = v[k]
    BY <2>1
  <2> QED BY <2>1, <2>2, SeqEqual
<1> QED BY <1>8, <1>9

(***************************************************************************)
(* Calls of getNext.                                                       *)
(***************************************************************************)
\* The tokens of array texts.
ArrayTokens == {"row_start", "row_end", "null_value", "string_value"} \X Seq(Chars)

\* The scan of a quoted string.
ScanQuoted(T, p, quote) == IF quote = SQuote THEN ScanSingleQuoted(T, p) ELSE ScanDoubleQuoted(T, p)

\* A call of getNext at p finds a brace,
BraceStep(T, p, tok, q) ==
  /\ T[p] \in {LBrace, RBrace} /\ q = Advance(T, p + 1)
  /\ tok = Token(IF T[p] = LBrace THEN "row_start" ELSE "row_end", <<>>)

\* a quoted string,
QuotedStep(T, p, tok, q) ==
  LET quote == T[p]
      e     == ScanQuoted(T, p, quote)
  IN /\ quote \in {SQuote, DQuote} /\ e \in p + 2 .. Len(T) + 1 /\ At(T, e - 1) = quote
     /\ tok = Token("string_value", ParseQuoted(T, p, e, Escapes(quote))) /\ q = Advance(T, e)

\* or an unquoted one.
UnquotedStep(T, p, tok, q) ==
  LET e == ScanUnquoted(T, p)
      v == SubSeq(T, p, e - 1)
  IN /\ T[p] \notin {LBrace, RBrace, SQuote, DQuote} /\ e \in p .. Len(T) /\ q = Advance(T, e)
     /\ tok = IF v = <<Null>> THEN Token("null_value", <<>>) ELSE Token("string_value", v)

\* A call of getNext at p returns tok and leaves q in pos_.
Step(T, p, tok, q) ==
  /\ p \in 1 .. Len(T)
  /\ BraceStep(T, p, tok, q) \/ QuotedStep(T, p, tok, q) \/ UnquotedStep(T, p, tok, q)

\* The model takes that step and no other.
LEMMA StepTaken ==
  ASSUME input \in Seq(Chars), ~isNull, ended = "no", AsArray, NEW tok, NEW q, Step(input, pos_, tok, q)
  PROVE  found' = Append(found, tok) /\ pos_' = q /\ ended' = "no"
<1> DEFINE c == At(input, pos_)
<1>1. pos_ \in 1 .. Len(input) /\ c = input[pos_] /\ c # NUL
  <2>1. pos_ \in 1 .. Len(input)
    BY DEF Step
  <2>2. pos_ \in Nat /\ pos_ >= 1 /\ pos_ <= Len(input)
    BY <2>1
  <2> QED BY <2>1, <2>2, AtIs
<1>2. /\ LBrace # RBrace /\ LBrace \notin {SQuote, DQuote} /\ RBrace \notin {SQuote, DQuote} /\ SQuote # DQuote
  BY CharactersDiffer
<1>3. GetNext
  BY DEF AsArray
<1>4. CASE BraceStep(input, pos_, tok, q)
  <2>1. c \in {LBrace, RBrace} /\ q = Advance(input, pos_ + 1)
    BY <1>1, <1>4 DEF BraceStep
  <2>2. CASE c = LBrace
    <3>1. tok = Token("row_start", <<>>)
      BY <1>1, <1>4, <2>2 DEF BraceStep
    <3>2. Return("row_start", <<>>, pos_ + 1)
      BY <1>1, <1>2, <1>3, <2>2, Zenon DEF GetNext
    <3> QED BY <2>1, <3>1, <3>2 DEF Return
  <2>3. CASE c = RBrace
    <3>1. tok = Token("row_end", <<>>)
      BY <1>1, <1>2, <1>4, <2>3 DEF BraceStep
    <3>2. Return("row_end", <<>>, pos_ + 1)
      BY <1>1, <1>2, <1>3, <2>3, Zenon DEF GetNext
    <3> QED BY <2>1, <3>1, <3>2 DEF Return
  <2> QED BY <2>1, <2>2, <2>3
<1>5. CASE QuotedStep(input, pos_, tok, q)
  <2> DEFINE e == ScanQuoted(input, pos_, c)
  <2>1. /\ c \in {SQuote, DQuote} /\ e \in pos_ + 2 .. Len(input) + 1 /\ At(input, e - 1) = c
        /\ tok = Token("string_value", ParseQuoted(input, pos_, e, Escapes(c))) /\ q = Advance(input, e)
    BY <1>1, <1>5 DEF QuotedStep
  <2>2. QuotedValue(e, c, Escapes(c))
    <3>1. CASE c = SQuote
      <4>1. QuotedValue(ScanSingleQuoted(input, pos_), SQuote, {SQuote, BSlash})
        BY <1>1, <1>2, <1>3, <3>1, Zenon DEF GetNext
      <4>2. e = ScanSingleQuoted(input, pos_) /\ Escapes(c) = {SQuote, BSlash}
        BY <3>1, Zenon DEF ScanQuoted, Escapes
      <4> QED BY <3>1, <4>1, <4>2, Zenon
    <3>2. CASE c = DQuote
      <4>1. QuotedValue(ScanDoubleQuoted(input, pos_), DQuote, {BSlash})
        BY <1>1, <1>2, <1>3, <3>2, Zenon DEF GetNext
      <4>2. e = ScanDoubleQuoted(input, pos_) /\ Escapes(c) = {BSlash}
        BY <1>2, <3>2, Zenon DEF ScanQuoted, Escapes
      <4> QED BY <3>2, <4>1, <4>2, Zenon
    <3> QED BY <2>1, <3>1, <3>2
  <2> HIDE DEF e
  <2>3. e # ScanThrown /\ AssertsHold(input, pos_, e, c)
    BY <1>1, <2>1 DEF ScanThrown, AssertsHold
  <2>4. Return("string_value", ParseQuoted(input, pos_, e, Escapes(c)), e)
    BY <2>2, <2>3, Zenon DEF QuotedValue
  <2> QED BY <2>1, <2>4 DEF Return
<1>6. CASE UnquotedStep(input, pos_, tok, q)
  <2> DEFINE e == ScanUnquoted(input, pos_)
             v == SubSeq(input, pos_, e - 1)
  <2>1. /\ c \notin {LBrace, RBrace, SQuote, DQuote} /\ e \in pos_ .. Len(input) /\ q = Advance(input, e)
        /\ tok = IF v = <<Null>> THEN Token("null_value", <<>>) ELSE Token("string_value", v)
    BY <1>1, <1>6, Zenon DEF UnquotedStep
  <2>2. IF e = Overrun(input) THEN Fail("overrun")
        ELSE IF v = <<Null>> THEN Return("null_value", <<>>, e)
        ELSE Return("string_value", v, e)
    BY <1>1, <1>3, <2>1, Zenon DEF GetNext
  <2> HIDE DEF e
  <2>3. e # Overrun(input)
    BY <2>1 DEF Overrun
  <2> HIDE DEF v
  <2>4. CASE v = <<Null>>
    <3>1. Return("null_value", <<>>, e) /\ tok = Token("null_value", <<>>)
      BY <2>1, <2>2, <2>3, <2>4, Zenon
    <3> QED BY <2>1, <3>1 DEF Return
  <2>5. CASE v # <<Null>>
    <3>1. Return("string_value", v, e) /\ tok = Token("string_value", v)
      BY <2>1, <2>2, <2>3, <2>5, Zenon
    <3> QED BY <2>1, <3>1 DEF Return
  <2> QED BY <2>4, <2>5
<1> QED BY <1>4, <1>5, <1>6 DEF Step

\* Calls of getNext from i on return the tokens ts and leave j in pos_.  P[k] is
\* pos_ after the first k of them.
Path(T, i, ts, j, P) ==
  /\ P \in [0 .. Len(ts) -> Nat] /\ P[0] = i /\ P[Len(ts)] = j
  /\ \A k \in 1 .. Len(ts) : Step(T, P[k - 1], ts[k], P[k])

\* There are such calls.
Reads(T, i, ts, j) == \E P : Path(T, i, ts, j, P)

\* No call is needed for no tokens,
LEMMA ReadsNone ==
  ASSUME NEW T, NEW i \in Nat
  PROVE  Reads(T, i, <<>>, i)
<1> DEFINE P == [k \in 0 .. 0 |-> i]
<1>1. P \in [0 .. 0 -> Nat] /\ P[0] = i /\ Len(<<>>) = 0 /\ 1 .. 0 = {}
  OBVIOUS
<1> HIDE DEF P
<1>2. Path(T, i, <<>>, i, P)
  BY <1>1 DEF Path
<1> QED BY <1>2 DEF Reads

\* one for one,
LEMMA ReadsOne ==
  ASSUME NEW T, NEW i \in Nat, NEW tok, NEW j \in Nat, Step(T, i, tok, j)
  PROVE  Reads(T, i, <<tok>>, j)
<1> DEFINE P == [k \in 0 .. 1 |-> IF k = 0 THEN i ELSE j]
           ts == <<tok>>
<1>1. P \in [0 .. 1 -> Nat] /\ P[0] = i /\ P[1] = j
  OBVIOUS
<1>2. Len(ts) = 1 /\ ts[1] = tok /\ \A k \in 1 .. 1 : k = 1 /\ k - 1 = 0
  OBVIOUS
<1> HIDE DEF P, ts
<1>3. Path(T, i, ts, j, P)
  BY <1>1, <1>2 DEF Path
<1> QED BY <1>3 DEF Reads, ts

\* and those for two sequences of tokens can be made one after the other.
LEMMA ReadsMore ==
  ASSUME NEW T, NEW i, NEW j, NEW l, NEW a \in Seq(ArrayTokens), NEW b \in Seq(ArrayTokens),
         Reads(T, i, a, j), Reads(T, j, b, l)
  PROVE  Reads(T, i, a \o b, l)
<1>1. PICK P : Path(T, i, a, j, P)
  BY DEF Reads
<1>2. PICK Q : Path(T, j, b, l, Q)
  BY DEF Reads
<1> DEFINE m == Len(a)
           n == Len(b)
           ts == a \o b
           R == [k \in 0 .. m + n |-> IF k <= m THEN P[k] ELSE Q[k - m]]
<1>3. /\ m \in Nat /\ P \in [0 .. m -> Nat] /\ P[0] = i /\ P[m] = j
      /\ \A k \in 1 .. m : Step(T, P[k - 1], a[k], P[k])
  BY <1>1 DEF Path
<1>4. /\ n \in Nat /\ Q \in [0 .. n -> Nat] /\ Q[0] = j /\ Q[n] = l
      /\ \A k \in 1 .. n : Step(T, Q[k - 1], b[k], Q[k])
  BY <1>2 DEF Path
<1>5. InARow(ArrayTokens, a, b, ts)
  BY TwoTexts
<1> HIDE DEF ts
<1>6. /\ Len(ts) = m + n /\ \A k \in 1 .. m : ts[k] = a[k]
      /\ \A k \in 1 .. n : ts[m + k] = b[k]
  BY <1>5 DEF InARow
<1> HIDE DEF m, n
<1>7. R \in [0 .. m + n -> Nat]
  <2>1. ASSUME NEW k \in 0 .. m + n PROVE (IF k <= m THEN P[k] ELSE Q[k - m]) \in Nat
    <3>1. CASE k <= m
      <4>1. k \in 0 .. m
        BY <1>3, <1>4, <3>1
      <4> QED BY <1>3, <3>1, <4>1
    <3>2. CASE ~(k <= m)
      <4>1. k - m \in 0 .. n
        BY <1>3, <1>4, <3>2
      <4> QED BY <1>4, <3>2, <4>1
    <3> QED BY <3>1, <3>2
  <2> QED BY <2>1
<1>8. (\A k \in 0 .. m : R[k] = P[k]) /\ \A k \in 0 .. n : R[m + k] = Q[k]
  <2>1. \A k \in 0 .. m : R[k] = P[k]
    BY <1>3, <1>4
  <2>2. ASSUME NEW k \in 0 .. n PROVE R[m + k] = Q[k]
    <3>1. CASE k = 0
      <4>1. m + k = m /\ m \in 0 .. m
        BY <1>3, <3>1
      <4> QED BY <1>3, <1>4, <2>1, <3>1, <4>1
    <3>2. CASE k # 0
      <4>1. ~(m + k <= m) /\ m + k \in 0 .. m + n /\ m + k - m = k
        BY <1>3, <1>4, <3>2
      <4>2. (m + k) - m = k
        BY <1>3, <1>4
      <4> QED BY <4>1, <4>2
    <3> QED BY <3>1, <3>2
  <2> QED BY <2>1, <2>2
<1> HIDE DEF R
<1>9. ASSUME NEW k \in 1 .. m + n PROVE Step(T, R[k - 1], ts[k], R[k])
  <2>1. CASE k <= m
    <3>1. k \in 1 .. m /\ k \in 0 .. m /\ k - 1 \in 0 .. m
      BY <1>3, <1>4, <2>1
    <3>2. R[k - 1] = P[k - 1] /\ R[k] = P[k] /\ ts[k] = a[k] /\ Step(T, P[k - 1], a[k], P[k])
      BY <1>3, <1>6, <1>8, <3>1
    <3> QED BY <3>2
  <2>2. CASE ~(k <= m)
    <3> DEFINE h == k - m
    <3>1. h \in 1 .. n /\ h \in 0 .. n /\ h - 1 \in 0 .. n /\ k = m + h /\ k - 1 = m + (h - 1)
      BY <1>3, <1>4, <2>2
    <3> HIDE DEF h
    <3>2. R[k - 1] = Q[h - 1] /\ R[k] = Q[h] /\ ts[k] = b[h] /\ Step(T, Q[h - 1], b[h], Q[h])
      BY <1>4, <1>6, <1>8, <3>1
    <3> QED BY <3>2
  <2> QED BY <2>1, <2>2
<1>10. R[0] = i /\ R[m + n] = l
  <2>1. 0 \in 0 .. m /\ n \in 0 .. n
    BY <1>3, <1>4
  <2> QED BY <1>3, <1>4, <1>8, <2>1
<1>11. Path(T, i, ts, l, R)
  BY <1>6, <1>7, <1>9, <1>10 DEF Path
<1> QED BY <1>11 DEF Reads, ts

(***************************************************************************)
(* Spellings that the parser reads as what they spell.                     *)
(***************************************************************************)
\* What was found is left, for what is behind it and one separator.
LEMMA AdvanceIs ==
  ASSUME NEW T \in Seq(Chars), NEW e \in 1 .. Len(T) + 1
  PROVE  /\ Advance(T, e) \in e .. Len(T) + 1
         /\ At(T, e) \in {Comma, Semicolon} => Advance(T, e) = e + 1
         /\ At(T, e) \notin {Comma, Semicolon} => Advance(T, e) = e
<1>1. At(T, e) \in {Comma, Semicolon} => e <= Len(T)
  <2>1. NUL \notin {Comma, Semicolon}
    BY CharactersDiffer DEF Special
  <2>2. At(T, e) # NUL => e <= Len(T)
    BY AtIs
  <2> QED BY <2>1, <2>2
<1>2. At(T, e) \in {Comma, Semicolon} => Advance(T, e) = e + 1
  BY DEF Advance
<1>3. At(T, e) \notin {Comma, Semicolon} => Advance(T, e) = e
  BY DEF Advance
<1>4. Len(T) \in Nat
  OBVIOUS
<1> QED BY <1>1, <1>2, <1>3, <1>4

\* The text t, of characters of C, is x between a and b.
Enclosed(C, a, x, b, t) ==
  /\ t \in Seq(C) /\ Len(t) = Len(x) + 2 /\ t[1] = a /\ t[Len(x) + 2] = b
  /\ \A k \in 1 .. Len(x) : t[1 + k] = x[k]

\* So is what is written that way.
LEMMA EnclosedIs ==
  ASSUME NEW C, NEW a \in C, NEW x \in Seq(C), NEW b \in C
  PROVE  Enclosed(C, a, x, b, <<a>> \o x \o <<b>>)
<1> DEFINE y == <<a>> \o x
           t == y \o <<b>>
<1>1. <<a>> \in Seq(C) /\ Len(<<a>>) = 1 /\ <<a>>[1] = a /\ <<b>> \in Seq(C) /\ Len(<<b>>) = 1 /\ <<b>>[1] = b
  OBVIOUS
<1>2. InARow(C, <<a>>, x, y)
  BY <1>1, TwoTexts
<1>3. y \in Seq(C) /\ Len(y) = 1 + Len(x) /\ y[1] = a /\ \A k \in 1 .. Len(x) : y[1 + k] = x[k]
  <2>1. 1 \in 1 .. 1
    OBVIOUS
  <2> HIDE DEF y
  <2> QED BY <1>1, <1>2, <2>1 DEF InARow
<1>4. InARow(C, y, <<b>>, t)
  <2> HIDE DEF y
  <2> QED BY <1>1, <1>3, TwoTexts
<1> HIDE DEF y, t
<1>5. t \in Seq(C) /\ Len(t) = Len(y) + 1 /\ t[Len(y) + 1] = b /\ \A k \in 1 .. Len(y) : t[k] = y[k]
  <2>1. 1 \in 1 .. 1
    OBVIOUS
  <2> QED BY <1>1, <1>4, <2>1 DEF InARow
<1>6. Len(x) \in Nat
  OBVIOUS
<1>7. Len(t) = Len(x) + 2 /\ Len(y) + 1 = Len(x) + 2 /\ 1 \in 1 .. Len(y)
  BY <1>3, <1>5, <1>6
<1>8. ASSUME NEW k \in 1 .. Len(x) PROVE t[1 + k] = x[k]
  <2>1. 1 + k \in 1 .. Len(y)
    BY <1>3, <1>6
  <2> QED BY <1>3, <1>5, <2>1
<1>9. Enclosed(C, a, x, b, t)
  BY <1>3, <1>5, <1>7, <1>8 DEF Enclosed
<1> QED BY <1>9 DEF t, y

\* The spelling of e is in T from i on, and behind it is what follows an element.
Followed(T, i, e) ==
  /\ Here(T, i, e.text) /\ i + Len(e.text) <= Len(T)
  /\ T[i + Len(e.text)] \in {Comma, RBrace}

\* Calls of getNext from i on return the tokens of e and leave the text behind it.
ReadAs(T, i, e) == Reads(T, i, e.tokens, Advance(T, i + Len(e.text)))

\* e has a spelling and tokens.
HasSpelling(e) ==
  /\ e.text \in Seq(Chars) /\ e.text # <<>> /\ e.text[1] \notin {Comma, Semicolon}
  /\ e.tokens \in Seq(ArrayTokens)

\* e is read as its tokens wherever it is an element.
Legible(e) ==
  HasSpelling(e) /\ \A T \in Seq(Chars), i \in Nat \ {0} : Followed(T, i, e) => ReadAs(T, i, e)

\* e is read as its tokens wherever it is.
Sealed(e) ==
  HasSpelling(e) /\ \A T \in Seq(Chars), i \in Nat \ {0} : Here(T, i, e.text) => ReadAs(T, i, e)

\* A string between quotes is legible.
LEMMA QuotedLegible ==
  ASSUME NEW v \in Seq(Chars), NEW quote \in {SQuote, DQuote}, NEW x \in Seq(Chars),
         NEW L, Layout(v, x, quote, L),
         \A k \in 1 .. Len(v) : v[k] # BSlash /\ (quote = DQuote => v[k] # DQuote)
  PROVE  Legible([text |-> <<quote>> \o x \o <<quote>>, tokens |-> <<Token("string_value", v)>>])
<1> DEFINE t == <<quote>> \o x \o <<quote>>
           tok == Token("string_value", v)
           e == [text |-> t, tokens |-> <<tok>>]
<1>1. quote \in Chars /\ quote \notin {Comma, Semicolon}
  BY CharactersDiffer DEF Chars, Special
<1>2. Enclosed(Chars, quote, x, quote, t)
  BY <1>1, EnclosedIs
<1>3. tok \in ArrayTokens
  BY DEF ArrayTokens, Token
<1>4. e.text = t /\ e.tokens = <<tok>>
  OBVIOUS
<1> HIDE DEF t, tok, e
<1>5. /\ t \in Seq(Chars) /\ Len(t) = Len(x) + 2 /\ t[1] = quote /\ t[Len(x) + 2] = quote
      /\ \A k \in 1 .. Len(x) : t[1 + k] = x[k]
  BY <1>2 DEF Enclosed
<1>6. Len(x) \in Nat
  OBVIOUS
<1>7. HasSpelling(e)
  <2>1. t # <<>>
    BY <1>5, <1>6
  <2>2. <<tok>> \in Seq(ArrayTokens)
    BY <1>3
  <2> QED BY <1>1, <1>4, <1>5, <2>1, <2>2 DEF HasSpelling
<1>8. ASSUME NEW T \in Seq(Chars), NEW i \in Nat \ {0}, Followed(T, i, e) PROVE ReadAs(T, i, e)
  <2> DEFINE end == i + Len(x) + 2
  <2>1. /\ i + Len(t) = end /\ end <= Len(T) /\ T[end] \in {Comma, RBrace}
        /\ \A k \in 1 .. Len(t) : T[i + (k - 1)] = t[k]
    <3>1. i + Len(t) = end
      BY <1>5, <1>6
    <3> HIDE DEF end
    <3> QED BY <1>4, <1>8, <3>1 DEF Followed, Here
  <2>2. i \in 1 .. Len(T) /\ Len(T) \in Nat /\ end \in 1 .. Len(T) + 1 /\ end \in i + 2 .. Len(T) + 1
    BY <1>6, <2>1
  <2>3. T[i] = quote
    <3>1. 1 \in 1 .. Len(t) /\ i + (1 - 1) = i
      BY <1>5, <1>6
    <3> QED BY <1>5, <2>1, <3>1
  <2>4. ASSUME NEW k \in 1 .. Len(x) PROVE T[i + k] = x[k]
    <3>1. 1 + k \in 1 .. Len(t) /\ i + ((1 + k) - 1) = i + k
      BY <1>5, <1>6
    <3> QED BY <1>5, <2>1, <3>1
  <2>5. T[i + Len(x) + 1] = quote
    <3>1. Len(x) + 2 \in 1 .. Len(t) /\ i + ((Len(x) + 2) - 1) = i + Len(x) + 1
      BY <1>5, <1>6
    <3> QED BY <1>5, <2>1, <3>1
  <2>6. T[end] # SQuote
    BY <2>1, CharactersDiffer
  <2>7. PICK f : Scan(T, quote, f) /\ ScanQuoted(T, i, quote) = f[i + 1]
    <3>1. CASE quote = SQuote
      BY <3>1, ScansExist, Zenon DEF ScanQuoted
    <3>2. CASE quote = DQuote
      BY <3>2, ScansExist, CharactersDiffer, Zenon DEF ScanQuoted
    <3> QED BY <3>1, <3>2
  <2>8. PICK g : Parsing(T, end, Escapes(quote), g) /\ ParseQuoted(T, i, end, Escapes(quote)) = g[i + 1]
    <3>1. end \in Nat
      BY <1>6
    <3> HIDE DEF end
    <3> QED BY <3>1, ParsingExists
  <2>9. f[i + 1] = end /\ g[i + 1] = v
    <3>1. end = i + Len(x) + 2
      OBVIOUS
    <3> HIDE DEF end
    <3>2. QuotedAt(T, i, quote, v, x, end)
      BY <2>1, <2>4, <2>5, <2>6, <3>1 DEF QuotedAt
    <3> QED BY <2>2, <2>7, <2>8, <3>2, QuotedRead
  <2>10. At(T, end - 1) = quote
    <3>1. end - 1 = i + Len(x) + 1 /\ end - 1 \in Nat /\ end - 1 >= 1 /\ end - 1 <= Len(T)
      BY <1>6, <2>1, <2>2
    <3> HIDE DEF end
    <3> QED BY <2>5, <3>1, AtIs
  <2> HIDE DEF end
  <2>11. QuotedStep(T, i, tok, Advance(T, end))
    BY <2>2, <2>3, <2>7, <2>8, <2>9, <2>10, Zenon DEF QuotedStep, tok
  <2>12. Step(T, i, tok, Advance(T, end))
    BY <2>2, <2>11 DEF Step
  <2>13. Advance(T, end) \in Nat
    BY <2>2, AdvanceIs
  <2>14. Reads(T, i, <<tok>>, Advance(T, end))
    BY <2>12, <2>13, ReadsOne
  <2> QED BY <1>4, <2>1, <2>14 DEF ReadAs
<1>9. Legible(e)
  BY <1>7, <1>8 DEF Legible
<1> QED BY <1>9 DEF e, t, tok

\* So is one without them, and NULL.
LEMMA UnquotedLegible ==
  ASSUME NEW v \in Seq(Chars), v # <<>>, \A k \in 1 .. Len(v) : v[k] \notin Special,
         NEW tok, tok = IF v = <<Null>> THEN Token("null_value", <<>>) ELSE Token("string_value", v)
  PROVE  Legible([text |-> v, tokens |-> <<tok>>])
<1> DEFINE e == [text |-> v, tokens |-> <<tok>>]
<1>1. e.text = v /\ e.tokens = <<tok>>
  OBVIOUS
<1> HIDE DEF e
<1>2. tok \in ArrayTokens
  <2>1. <<>> \in Seq(Chars)
    OBVIOUS
  <2>2. Token("null_value", <<>>) \in ArrayTokens /\ Token("string_value", v) \in ArrayTokens
    BY <2>1 DEF ArrayTokens, Token
  <2> QED BY <2>2
<1>3. Len(v) \in Nat /\ Len(v) >= 1 /\ 1 \in 1 .. Len(v)
  OBVIOUS
<1>4. HasSpelling(e)
  <2>1. v[1] \notin {Comma, Semicolon}
    BY <1>3 DEF Special
  <2>2. <<tok>> \in Seq(ArrayTokens)
    BY <1>2
  <2> QED BY <1>1, <2>1, <2>2 DEF HasSpelling
<1>5. ASSUME NEW T \in Seq(Chars), NEW i \in Nat \ {0}, Followed(T, i, e) PROVE ReadAs(T, i, e)
  <2> DEFINE end == i + Len(v)
  <2>1. /\ end <= Len(T) /\ T[end] \in {Comma, RBrace}
        /\ \A k \in 1 .. Len(v) : T[i + (k - 1)] = v[k]
    BY <1>1, <1>5 DEF Followed, Here
  <2>2. i \in 1 .. Len(T) /\ Len(T) \in Nat /\ end \in 1 .. Len(T) + 1 /\ end \in i .. Len(T)
    BY <1>3, <2>1
  <2>3. ScanUnquoted(T, i) = end /\ SubSeq(T, i, end - 1) = v
    <3>1. i + Len(v) <= Len(T) /\ T[i + Len(v)] \in {Comma, RBrace}
      BY <2>1
    <3>2. ScanUnquoted(T, i) = i + Len(v) /\ SubSeq(T, i, i + Len(v) - 1) = v
      BY <2>1, <2>2, <3>1, UnquotedRead
    <3> QED BY <3>2
  <2>4. T[i] \notin {LBrace, RBrace, SQuote, DQuote}
    <3>1. i + (1 - 1) = i
      OBVIOUS
    <3>2. T[i] = v[1]
      BY <1>3, <2>1, <3>1
    <3> QED BY <1>3, <3>2 DEF Special
  <2> HIDE DEF end
  <2>5. UnquotedStep(T, i, tok, Advance(T, end))
    BY <2>2, <2>3, <2>4, Zenon DEF UnquotedStep
  <2>6. Step(T, i, tok, Advance(T, end))
    BY <2>2, <2>5 DEF Step
  <2>7. Advance(T, end) \in Nat
    BY <2>2, AdvanceIs
  <2>8. Reads(T, i, <<tok>>, Advance(T, end))
    BY <2>6, <2>7, ReadsOne
  <2> QED BY <1>1, <2>8 DEF ReadAs, end
<1>6. Legible(e)
  BY <1>4, <1>5 DEF Legible
<1> QED BY <1>6 DEF e

\* What the parser reads as its tokens wherever it is an element.
Elements == {e \in [text : Seq(Chars), tokens : Seq(ArrayTokens)] : Legible(e)}

\* A text and tokens that are legible are an element.
LEMMA ElementIs ==
  ASSUME NEW t, NEW ts, Legible([text |-> t, tokens |-> ts])
  PROVE  [text |-> t, tokens |-> ts] \in Elements
<1> DEFINE e == [text |-> t, tokens |-> ts]
<1>1. e.text = t /\ e.tokens = ts
  OBVIOUS
<1>2. HasSpelling(e)
  BY DEF Legible
<1>3. t \in Seq(Chars) /\ ts \in Seq(ArrayTokens)
  <2> HIDE DEF e
  <2> QED BY <1>1, <1>2 DEF HasSpelling
<1>4. e \in [text : Seq(Chars), tokens : Seq(ArrayTokens)]
  BY <1>3
<1> QED BY <1>4 DEF Elements

\* Strings and NULLs are elements.
LEMMA LeavesAreElements == Leaves \subseteq Elements
<1>1. [text |-> <<Null>>, tokens |-> <<Token("null_value", <<>>)>>] \in Elements
  <2> DEFINE v == <<Null>>
             tok == Token("null_value", <<>>)
  <2>1. v \in Seq(Chars) /\ v # <<>> /\ Len(v) = 1 /\ v[1] = Null
    BY DEF Chars
  <2>2. \A k \in 1 .. Len(v) : v[k] \notin Special
    <3>1. \A k \in 1 .. 1 : k = 1
      OBVIOUS
    <3> QED BY <2>1, <3>1, CharactersDiffer
  <2>3. tok = IF v = <<Null>> THEN Token("null_value", <<>>) ELSE Token("string_value", v)
    OBVIOUS
  <2> HIDE DEF v, tok
  <2>4. Legible([text |-> v, tokens |-> <<tok>>])
    BY <2>1, <2>2, <2>3, UnquotedLegible
  <2> QED BY <2>4, ElementIs DEF v, tok
<1>2. ASSUME NEW v \in Values, NEW t \in Spellings(v)
      PROVE  [text |-> t, tokens |-> <<Token("string_value", v)>>] \in Elements
  <2> DEFINE e == [text |-> t, tokens |-> <<Token("string_value", v)>>]
  <2>1. v \in Seq(Chars)
    <3>1. v \in Seq(Alphabet) /\ Alphabet \subseteq Chars
      BY ValuesAssumption DEF Chars
    <3> QED BY <3>1
  <2>2. \A k \in 1 .. Len(v) : v[k] \in Range(v)
    BY <2>1 DEF Range
  <2>3. CASE t = <<SQuote>> \o Doubled(v) \o <<SQuote>> /\ BSlash \notin Range(v)
    <3> DEFINE x == Doubled(v)
               quote == SQuote
    <3>1. x \in Seq(Chars) /\ \E L : Layout(v, x, SQuote, L)
      BY <2>1, DoubledLayout
    <3>2. PICK L : Layout(v, x, quote, L)
      BY <3>1
    <3>3. quote \in {SQuote, DQuote} /\ quote # DQuote
      BY CharactersDiffer
    <3>4. \A k \in 1 .. Len(v) : v[k] # BSlash /\ (quote = DQuote => v[k] # DQuote)
      BY <2>2, <2>3, <3>3
    <3> HIDE DEF x, quote
    <3>5. Legible([text |-> <<quote>> \o x \o <<quote>>, tokens |-> <<Token("string_value", v)>>])
      BY <2>1, <3>1, <3>2, <3>3, <3>4, QuotedLegible
    <3> QED BY <2>3, <3>5, ElementIs DEF x, quote
  <2>4. CASE t = <<DQuote>> \o v \o <<DQuote>> /\ {DQuote, BSlash} \cap Range(v) = {}
    <3> DEFINE quote == DQuote
    <3>1. PICK L : Layout(v, v, quote, L)
      BY <2>1, PlainLayout
    <3>2. quote \in {SQuote, DQuote}
      OBVIOUS
    <3>3. \A k \in 1 .. Len(v) : v[k] # BSlash /\ (quote = DQuote => v[k] # DQuote)
      BY <2>2, <2>4
    <3> HIDE DEF quote
    <3>4. Legible([text |-> <<quote>> \o v \o <<quote>>, tokens |-> <<Token("string_value", v)>>])
      BY <2>1, <3>1, <3>2, <3>3, QuotedLegible
    <3> QED BY <2>4, <3>4, ElementIs DEF quote
  <2>5. CASE t = v /\ v \notin {<<>>, <<Null>>} /\ Range(v) \cap Special = {}
    <3> DEFINE tok == Token("string_value", v)
    <3>1. v # <<>> /\ \A k \in 1 .. Len(v) : v[k] \notin Special
      BY <2>2, <2>5
    <3>2. tok = IF v = <<Null>> THEN Token("null_value", <<>>) ELSE Token("string_value", v)
      BY <2>5
    <3> HIDE DEF tok
    <3>3. Legible([text |-> v, tokens |-> <<tok>>])
      BY <2>1, <3>1, <3>2, UnquotedLegible
    <3> QED BY <2>5, <3>3, ElementIs DEF tok
  <2> QED BY <2>3, <2>4, <2>5, Zenon DEF Spellings
<1> QED BY <1>1, <1>2 DEF Leaves

\* The spellings of the elements of a row, with the commas between them.
PartsOf(es) == [i \in DOMAIN es |-> IF i = 1 THEN es[i].text ELSE <<Comma>> \o es[i].text]

\* The row without its braces.
Joined(es) == FlattenSeq(PartsOf(es))

\* The tokens of the elements.
TokensOf(es) == [i \in DOMAIN es |-> es[i].tokens]

\* A comma is in front of all elements but the first.
Commas(k) == IF k = 1 THEN 0 ELSE 1

\* p is the text t with its comma.
PartIs(p, k, t) ==
  /\ p \in Seq(Chars) /\ Len(p) = Commas(k) + Len(t) /\ (k # 1 => p[1] = Comma)
  /\ \A j \in 1 .. Len(t) : p[Commas(k) + j] = t[j]

\* The parts are that.
LEMMA PartsAre ==
  ASSUME NEW es \in Seq(Elements)
  PROVE  /\ PartsOf(es) \in Seq(Seq(Chars)) /\ Len(PartsOf(es)) = Len(es)
         /\ \A k \in 1 .. Len(es) : PartIs(PartsOf(es)[k], k, es[k].text)
<1>1. ASSUME NEW k \in 1 .. Len(es)
      PROVE  PartIs(IF k = 1 THEN es[k].text ELSE <<Comma>> \o es[k].text, k, es[k].text)
  <2> DEFINE t == es[k].text
  <2>1. t \in Seq(Chars)
    BY DEF Elements
  <2> HIDE DEF t
  <2>2. CASE k = 1
    BY <2>1, <2>2 DEF PartIs, Commas, t
  <2>3. CASE k # 1
    <3> DEFINE p == <<Comma>> \o t
    <3>1. <<Comma>> \in Seq(Chars) /\ Len(<<Comma>>) = 1 /\ <<Comma>>[1] = Comma /\ 1 \in 1 .. 1
      BY DEF Chars, Special
    <3>2. InARow(Chars, <<Comma>>, t, p)
      BY <2>1, <3>1, TwoTexts
    <3> HIDE DEF p
    <3>3. p \in Seq(Chars) /\ Len(p) = 1 + Len(t) /\ p[1] = Comma /\ \A j \in 1 .. Len(t) : p[1 + j] = t[j]
      BY <3>1, <3>2 DEF InARow
    <3>4. PartIs(p, k, t)
      BY <2>3, <3>3 DEF PartIs, Commas
    <3> QED BY <2>3, <3>4 DEF p, t
  <2> QED BY <2>2, <2>3
<1>2. DOMAIN es = 1 .. Len(es) /\ Len(es) \in Nat
  OBVIOUS
<1>3. \A k \in 1 .. Len(es) : PartIs(PartsOf(es)[k], k, es[k].text)
  BY <1>1, <1>2 DEF PartsOf
<1>4. PartsOf(es) \in [1 .. Len(es) -> Seq(Chars)]
  <2>1. \A k \in 1 .. Len(es) : PartsOf(es)[k] \in Seq(Chars)
    BY <1>3 DEF PartIs
  <2> QED BY <1>2, <2>1 DEF PartsOf
<1> QED BY <1>2, <1>3, <1>4

\* So are the tokens of the elements.
LEMMA TokensOfAre ==
  ASSUME NEW es \in Seq(Elements)
  PROVE  /\ TokensOf(es) \in Seq(Seq(ArrayTokens)) /\ Len(TokensOf(es)) = Len(es)
         /\ \A k \in 1 .. Len(es) : TokensOf(es)[k] = es[k].tokens
<1>1. DOMAIN es = 1 .. Len(es) /\ Len(es) \in Nat
  OBVIOUS
<1>2. \A k \in 1 .. Len(es) : TokensOf(es)[k] = es[k].tokens /\ es[k].tokens \in Seq(ArrayTokens)
  BY <1>1 DEF TokensOf, Elements
<1>3. TokensOf(es) \in [1 .. Len(es) -> Seq(ArrayTokens)]
  BY <1>1, <1>2 DEF TokensOf
<1> QED BY <1>1, <1>2, <1>3

\* The row es is in T from i on, without its first brace.
RowAt(T, i, es) ==
  /\ Here(T, i, Joined(es)) /\ i + Len(Joined(es)) <= Len(T)
  /\ T[i + Len(Joined(es))] = RBrace

\* Where pos_ is before element k + 1 of a row, given where the parts are.
BeforeElement(i, n, L, k) == i + L[k] + (IF k \in 1 .. n - 1 THEN 1 ELSE 0)

\* An element of a row is read in its place.
LEMMA ElementRead ==
  ASSUME NEW es \in Seq(Elements), NEW T \in Seq(Chars), NEW i \in Nat \ {0}, RowAt(T, i, es),
         NEW L, FlatLayout(PartsOf(es), L), NEW k \in 1 .. Len(es)
  PROVE  /\ Reads(T, BeforeElement(i, Len(es), L, k - 1), es[k].tokens, BeforeElement(i, Len(es), L, k))
         /\ BeforeElement(i, Len(es), L, k - 1) \in Nat
         /\ T[BeforeElement(i, Len(es), L, k - 1)] = es[k].text[1]
<1> DEFINE n == Len(es)
           x == Joined(es)
           ps == PartsOf(es)
           e == es[k]
           t == e.text
           c == Commas(k)
           l == L[k - 1]
           m == L[k]
           b == i + l + c
<1>1. /\ ps \in Seq(Seq(Chars)) /\ Len(ps) = n /\ PartIs(ps[k], k, t)
      /\ k < n => PartIs(ps[k + 1], k + 1, es[k + 1].text)
  <2>1. k < n => k + 1 \in 1 .. Len(es)
    OBVIOUS
  <2> QED BY <2>1, PartsAre
<1>2. x \in Seq(Chars) /\ x = FlattenSeq(ps)
  BY <1>1, FlattenType DEF Joined
<1>3. n \in Nat /\ Legible(e) /\ HasSpelling(e) /\ t \in Seq(Chars) /\ Len(t) \in Nat /\ Len(t) >= 1 /\ Len(x) \in Nat
  <2>1. Legible(e)
    BY DEF Elements
  <2>2. HasSpelling(e)
    BY <2>1 DEF Legible
  <2>3. t \in Seq(Chars) /\ t # <<>>
    BY <2>2 DEF HasSpelling
  <2> QED BY <1>2, <2>1, <2>2, <2>3
<1> HIDE DEF x, ps, e, t
<1>4. /\ L \in [0 .. n -> Nat] /\ L[0] = 0 /\ L[n] = Len(x)
      /\ \A h \in 1 .. n : /\ L[h] = L[h - 1] + Len(ps[h]) /\ L[h] <= Len(x)
                           /\ \A j \in 1 .. Len(ps[h]) : x[L[h - 1] + j] = ps[h][j]
  BY <1>1, <1>2 DEF FlatLayout, ps
<1>5. l \in Nat /\ m \in Nat /\ m = l + Len(ps[k]) /\ m <= Len(x)
  <2>1. k - 1 \in 0 .. n /\ k \in 0 .. n /\ k \in 1 .. n
    BY <1>3
  <2> QED BY <1>4, <2>1
<1>6. c \in {0, 1} /\ (k = 1 => c = 0) /\ (k # 1 => c = 1)
  BY DEF Commas
<1> HIDE DEF l, m, c
<1>7. /\ m = l + c + Len(t) /\ \A j \in 1 .. Len(t) : x[l + (c + j)] = t[j]
  <2>1. Len(ps[k]) = c + Len(t) /\ \A j \in 1 .. Len(t) : ps[k][c + j] = t[j]
    BY <1>1 DEF PartIs, c
  <2>2. ASSUME NEW j \in 1 .. Len(t) PROVE x[l + (c + j)] = t[j]
    <3>1. c + j \in 1 .. Len(ps[k]) /\ k \in 1 .. n
      BY <1>3, <1>6, <2>1
    <3>2. x[l + (c + j)] = ps[k][c + j]
      BY <1>4, <3>1 DEF l
    <3> QED BY <2>1, <3>2
  <2> QED BY <1>3, <1>5, <1>6, <2>1, <2>2
<1>8. /\ i + Len(x) <= Len(T) /\ Len(T) \in Nat /\ T[i + Len(x)] = RBrace
      /\ \A j \in 1 .. Len(x) : T[i + (j - 1)] = x[j]
  BY DEF RowAt, Here, x
<1>9. b \in Nat \ {0} /\ b + Len(t) = i + m
  <2> DEFINE w == Len(t)
  <2>1. w \in Nat /\ c \in Nat /\ m = l + c + w
    BY <1>3, <1>6, <1>7
  <2> HIDE DEF w
  <2>2. b \in Nat \ {0} /\ b + w = i + m
    BY <1>5, <2>1
  <2> QED BY <2>2 DEF w
<1>10. b = BeforeElement(i, n, L, k - 1)
  <2>1. k - 1 \in 1 .. n - 1 <=> k # 1
    BY <1>3
  <2> QED BY <1>5, <1>6, <2>1 DEF BeforeElement, l
<1>11. ASSUME NEW j \in 1 .. Len(t) PROVE T[b + (j - 1)] = t[j]
  <2>1. l + (c + j) \in 1 .. Len(x) /\ i + ((l + (c + j)) - 1) = b + (j - 1)
    BY <1>3, <1>5, <1>6, <1>7
  <2> QED BY <1>7, <1>8, <2>1
<1>12. Here(T, b, t)
  <2>1. b + Len(t) <= Len(T) + 1
    BY <1>3, <1>5, <1>8, <1>9, SMTT(30)
  <2> HIDE DEF b
  <2> QED BY <1>11, <2>1 DEF Here
<1>13. /\ b + Len(t) <= Len(T) /\ T[b + Len(t)] \in {Comma, RBrace}
       /\ Advance(T, b + Len(t)) = BeforeElement(i, n, L, k)
  <2>0. b + Len(t) <= Len(T) /\ i + m \in 1 .. Len(T) + 1 /\ i + m \in Nat /\ i + m >= 1 /\ i + m <= Len(T)
    BY <1>3, <1>5, <1>8, <1>9, SMTT(30)
  <2>1. At(T, i + m) = T[i + m]
    BY <2>0, AtIs
  <2>2. CASE k < n
    <3>1. k + 1 \in 1 .. n /\ k + 1 # 1 /\ k \in 1 .. n - 1 /\ (k + 1) - 1 = k
      BY <1>3, <2>2
    <3>2. Len(ps[k + 1]) = 1 + Len(es[k + 1].text) /\ ps[k + 1][1] = Comma
      BY <1>1, <2>2, <3>1 DEF PartIs, Commas
    <3>3. Len(es[k + 1].text) \in Nat
      BY <3>1 DEF Elements
    <3>4. 1 \in 1 .. Len(ps[k + 1])
      BY <3>2, <3>3
    <3>5. L[k + 1] = m + Len(ps[k + 1]) /\ x[m + 1] = Comma /\ L[k + 1] <= Len(x)
      BY <1>4, <3>1, <3>2, <3>4 DEF m
    <3>6. m + 1 \in 1 .. Len(x) /\ i + ((m + 1) - 1) = i + m
      <4> DEFINE w == Len(es[k + 1].text)
                 y == Len(x)
      <4>1. w \in Nat /\ m + (1 + w) <= y
        BY <3>2, <3>3, <3>5
      <4>2. y \in Nat /\ m \in Nat
        BY <1>3, <1>5
      <4> HIDE DEF w, y
      <4>3. m + 1 \in 1 .. y
        BY <4>1, <4>2
      <4>4. i + ((m + 1) - 1) = i + m
        BY <4>2
      <4> QED BY <4>3, <4>4 DEF y
    <3>7. T[i + m] = Comma
      BY <1>8, <3>5, <3>6
    <3>8. Advance(T, i + m) = (i + m) + 1
      BY <2>0, <2>1, <3>7, AdvanceIs
    <3>9. BeforeElement(i, n, L, k) = (i + m) + 1
      BY <1>5, <3>1 DEF BeforeElement, m
    <3> QED BY <1>9, <2>0, <3>7, <3>8, <3>9
  <2>3. CASE ~(k < n)
    <3>1. k = n /\ ~(k \in 1 .. n - 1)
      BY <1>3, <2>3
    <3>2. m = Len(x)
      BY <1>4, <3>1 DEF m
    <3>3. T[i + m] = RBrace
      BY <1>8, <3>2
    <3>4. RBrace \notin {Comma, Semicolon}
      BY CharactersDiffer
    <3>5. Advance(T, i + m) = i + m
      BY <2>0, <2>1, <3>3, <3>4, AdvanceIs
    <3>6. BeforeElement(i, n, L, k) = i + m
      BY <1>5, <3>1 DEF BeforeElement, m
    <3> QED BY <1>9, <2>0, <3>3, <3>5, <3>6
  <2> QED BY <2>2, <2>3
<1>14. Followed(T, b, e)
  <2> HIDE DEF b
  <2> QED BY <1>12, <1>13 DEF Followed, t
<1>15. ReadAs(T, b, e)
  <2> HIDE DEF b
  <2> QED BY <1>3, <1>9, <1>14 DEF Legible
<1>16. Reads(T, b, e.tokens, BeforeElement(i, n, L, k))
  <2> HIDE DEF b
  <2> QED BY <1>13, <1>15 DEF ReadAs, t
<1>17. T[b] = t[1]
  <2>1. 1 \in 1 .. Len(t) /\ b + (1 - 1) = b
    BY <1>3, <1>9
  <2> HIDE DEF b
  <2> QED BY <1>11, <2>1
<1> HIDE DEF b
<1> QED BY <1>9, <1>10, <1>16, <1>17 DEF e, t

\* The elements of a row are read in their order.
LEMMA ElementsRead ==
  ASSUME NEW es \in Seq(Elements), NEW T \in Seq(Chars), NEW i \in Nat \ {0}, RowAt(T, i, es)
  PROVE  /\ Reads(T, i, FlattenSeq(TokensOf(es)), i + Len(Joined(es)))
         /\ T[i] \notin {Comma, Semicolon}
<1> DEFINE n == Len(es)
           ps == PartsOf(es)
           tk == TokensOf(es)
           p(k) == SubSeq(tk, 1, k)
<1>1. ps \in Seq(Seq(Chars)) /\ Len(ps) = n /\ n \in Nat
  BY PartsAre
<1>2. /\ tk \in Seq(Seq(ArrayTokens)) /\ Len(tk) = n
      /\ \A k \in 1 .. n : tk[k] = es[k].tokens /\ tk[k] \in Seq(ArrayTokens)
  <2>1. /\ tk \in Seq(Seq(ArrayTokens)) /\ Len(tk) = n
        /\ \A k \in 1 .. n : tk[k] = es[k].tokens
    BY TokensOfAre
  <2> HIDE DEF tk
  <2> QED BY <2>1
<1>3. PICK L : FlatLayout(ps, L)
  <2> HIDE DEF ps
  <2> QED BY <1>1, FlatLayoutExists
<1>4. L \in [0 .. n -> Nat] /\ L[0] = 0 /\ L[n] = Len(Joined(es))
  BY <1>1, <1>3 DEF FlatLayout, Joined
<1> HIDE DEF ps, tk
<1> DEFINE S == {k \in Nat : k <= n => Reads(T, i, FlattenSeq(p(k)), BeforeElement(i, n, L, k))}
<1>5. BeforeElement(i, n, L, 0) = i
  BY <1>1, <1>4 DEF BeforeElement
<1>6. 0 \in S
  <2>1. p(0) = <<>>
    BY <1>2
  <2>2. Reads(T, i, <<>>, i)
    BY ReadsNone
  <2> HIDE DEF p
  <2> QED BY <1>5, <2>1, <2>2, FlattenEmpty
<1>7. ASSUME NEW k \in Nat, k \in S PROVE k + 1 \in S
  <2> SUFFICES ASSUME k + 1 <= n PROVE Reads(T, i, FlattenSeq(p(k + 1)), BeforeElement(i, n, L, k + 1))
    <3> HIDE DEF p
    <3> QED OBVIOUS
  <2>1. k + 1 \in 1 .. n /\ k <= n /\ (k + 1) - 1 = k
    BY <1>1
  <2>2. Reads(T, i, FlattenSeq(p(k)), BeforeElement(i, n, L, k))
    <3> HIDE DEF p
    <3> QED BY <1>7, <2>1
  <2> DEFINE u == tk[k + 1]
             a == FlattenSeq(p(k))
  <2>3. Reads(T, BeforeElement(i, n, L, k), u, BeforeElement(i, n, L, k + 1))
    <3>1. Reads(T, BeforeElement(i, n, L, (k + 1) - 1), es[k + 1].tokens, BeforeElement(i, n, L, k + 1))
      BY <1>3, <2>1, ElementRead DEF ps
    <3> QED BY <1>2, <2>1, <3>1
  <2>4. u \in Seq(ArrayTokens) /\ p(k) \in Seq(Seq(ArrayTokens)) /\ p(k + 1) = Append(p(k), u)
    <3>1. u \in Seq(ArrayTokens)
      BY <1>2, <2>1
    <3>2. p(k) \in Seq(Seq(ArrayTokens)) /\ Len(p(k)) = k /\ \A j \in 1 .. k : p(k)[j] = tk[j]
      BY <1>2, <2>1
    <3>3. p(k + 1) \in Seq(Seq(ArrayTokens)) /\ Len(p(k + 1)) = k + 1 /\ \A j \in 1 .. k + 1 : p(k + 1)[j] = tk[j]
      BY <1>2, <2>1
    <3> DEFINE y == p(k)
               z == p(k + 1)
               w == Append(y, u)
    <3> HIDE DEF y, z, u, p
    <3>4. y \in Seq(Seq(ArrayTokens)) /\ Len(y) = k /\ \A j \in 1 .. k : y[j] = tk[j]
      BY <3>2 DEF y
    <3>5. z \in Seq(Seq(ArrayTokens)) /\ Len(z) = k + 1 /\ \A j \in 1 .. k + 1 : z[j] = tk[j]
      BY <3>3 DEF z
    <3>6. w \in Seq(Seq(ArrayTokens)) /\ Len(w) = k + 1 /\ \A j \in 1 .. k + 1 : w[j] = IF j <= k THEN y[j] ELSE u
      BY <3>1, <3>4
    <3> HIDE DEF w
    <3>7. \A j \in 1 .. k + 1 : z[j] = w[j]
      <4>1. \A j \in 1 .. k + 1 : j <= k \/ j = k + 1
        OBVIOUS
      <4>2. \A j \in 1 .. k + 1 : j <= k => j \in 1 .. k
        OBVIOUS
      <4>3. ~(k + 1 <= k)
        OBVIOUS
      <4> QED BY <3>4, <3>5, <3>6, <4>1, <4>2, <4>3 DEF u
    <3>8. z = w
      BY <3>5, <3>6, <3>7, SeqEqual
    <3> QED BY <3>1, <3>4, <3>8 DEF w, y, z
  <2> HIDE DEF p, u
  <2>5. FlattenSeq(p(k + 1)) = a \o u /\ a \in Seq(ArrayTokens)
    BY <2>4, FlattenAppend, FlattenType
  <2> HIDE DEF a
  <2>6. Reads(T, i, a \o u, BeforeElement(i, n, L, k + 1))
    BY <2>2, <2>3, <2>4, <2>5, ReadsMore DEF a
  <2> QED BY <2>5, <2>6
<1>8. Nat \subseteq S
  <2> HIDE DEF S
  <2> QED BY <1>6, <1>7, Induction
<1>9. Reads(T, i, FlattenSeq(tk), i + Len(Joined(es)))
  <2>1. p(n) = tk
    <3>1. n = Len(tk)
      BY <1>2
    <3> QED BY <1>2, <3>1
  <2>2. Reads(T, i, FlattenSeq(p(n)), BeforeElement(i, n, L, n))
    <3>1. n \in S /\ n <= n
      BY <1>1, <1>8
    <3> HIDE DEF p
    <3> QED BY <3>1
  <2>3. ~(n \in 1 .. n - 1) /\ n \in 0 .. n
    BY <1>1
  <2>4. BeforeElement(i, n, L, n) = i + Len(Joined(es))
    <3>1. L[n] \in Nat
      BY <1>4, <2>3
    <3> QED BY <1>4, <2>3, <3>1 DEF BeforeElement
  <2> QED BY <2>1, <2>2, <2>4
<1>10. T[i] \notin {Comma, Semicolon}
  <2>1. CASE n = 0
    <3>1. Len(Joined(es)) = 0
      BY <1>4, <2>1
    <3>2. i + 0 = i
      OBVIOUS
    <3>3. T[i] = RBrace
      BY <3>1, <3>2 DEF RowAt
    <3> QED BY <3>3, CharactersDiffer
  <2>2. CASE n # 0
    <3>1. 1 \in 1 .. n /\ 1 - 1 = 0
      BY <1>1, <2>2
    <3>2. T[i] = es[1].text[1]
      BY <1>3, <1>5, <3>1, ElementRead DEF ps
    <3>3. HasSpelling(es[1])
      BY <3>1 DEF Elements, Legible
    <3> QED BY <3>2, <3>3 DEF HasSpelling
  <2> QED BY <2>1, <2>2
<1> QED BY <1>9, <1>10 DEF tk

\* A row of elements is an element, and its braces end it whatever follows.
LEMMA BracedSealed ==
  ASSUME NEW es \in Seq(Elements)
  PROVE  Braced(es) \in Elements /\ Sealed(Braced(es))
<1> DEFINE x == Joined(es)
           y == FlattenSeq(TokensOf(es))
           s == Token("row_start", <<>>)
           r == Token("row_end", <<>>)
           t == <<LBrace>> \o x \o <<RBrace>>
           ts == <<s>> \o y \o <<r>>
           e == [text |-> t, tokens |-> ts]
<1>1. Braced(es) = e
  BY Zenon DEF Braced, Joined, PartsOf, TokensOf
<1>2. x \in Seq(Chars) /\ Len(x) \in Nat
  BY PartsAre, FlattenType DEF Joined
<1>3. y \in Seq(ArrayTokens)
  BY TokensOfAre, FlattenType
<1>4. s \in ArrayTokens /\ r \in ArrayTokens
  <2>1. <<>> \in Seq(Chars)
    OBVIOUS
  <2> QED BY <2>1 DEF ArrayTokens, Token
<1>5. LBrace \in Chars /\ RBrace \in Chars
  BY DEF Chars, Special
<1>6. Enclosed(Chars, LBrace, x, RBrace, t)
  <2> HIDE DEF x
  <2> QED BY <1>2, <1>5, EnclosedIs
<1>7. e.text = t /\ e.tokens = ts
  OBVIOUS
<1> HIDE DEF x, y, t, e
<1>8. <<s>> \in Seq(ArrayTokens) /\ <<r>> \in Seq(ArrayTokens) /\ <<s>> \o y \in Seq(ArrayTokens)
  BY <1>3, <1>4
<1>9. ts \in Seq(ArrayTokens)
  BY <1>8
<1>10. /\ t \in Seq(Chars) /\ Len(t) = Len(x) + 2 /\ t[1] = LBrace /\ t[Len(x) + 2] = RBrace
       /\ \A k \in 1 .. Len(x) : t[1 + k] = x[k]
  BY <1>6 DEF Enclosed
<1>11. HasSpelling(e)
  <2>1. t # <<>>
    BY <1>2, <1>10
  <2>2. LBrace \notin {Comma, Semicolon}
    BY CharactersDiffer
  <2> HIDE DEF ts
  <2> QED BY <1>7, <1>9, <1>10, <2>1, <2>2 DEF HasSpelling
<1>12. ASSUME NEW T \in Seq(Chars), NEW i \in Nat \ {0}, Here(T, i, t)
       PROVE  Reads(T, i, ts, Advance(T, i + Len(t)))
  <2> DEFINE b == i + 1
             end == b + Len(x)
  <2>1. i + Len(t) <= Len(T) + 1 /\ (\A k \in 1 .. Len(t) : T[i + (k - 1)] = t[k]) /\ Len(T) \in Nat
    BY <1>12 DEF Here
  <2>2. /\ b \in Nat \ {0} /\ end \in Nat \ {0} /\ end <= Len(T) /\ i + Len(t) = end + 1
        /\ i \in 1 .. Len(T) /\ end \in 1 .. Len(T) /\ b \in 1 .. Len(T)
        /\ b \in 1 .. Len(T) + 1 /\ end + 1 \in 1 .. Len(T) + 1
    BY <1>2, <1>10, <2>1
  <2>3. T[i] = LBrace
    <3>1. 1 \in 1 .. Len(t) /\ i + (1 - 1) = i
      BY <1>2, <1>10
    <3> QED BY <1>10, <2>1, <3>1
  <2>4. T[end] = RBrace
    <3>1. Len(x) + 2 \in 1 .. Len(t) /\ i + ((Len(x) + 2) - 1) = end
      BY <1>2, <1>10
    <3> QED BY <1>10, <2>1, <3>1
  <2>5. ASSUME NEW k \in 1 .. Len(x) PROVE T[b + (k - 1)] = x[k]
    <3>1. 1 + k \in 1 .. Len(t) /\ i + ((1 + k) - 1) = b + (k - 1)
      BY <1>2, <1>10
    <3> QED BY <1>10, <2>1, <3>1
  <2>6. RowAt(T, b, es)
    <3>1. Here(T, b, x)
      <4>1. b + Len(x) <= Len(T) + 1
        BY <1>2, <2>2
      <4> HIDE DEF b
      <4> QED BY <2>5, <4>1 DEF Here
    <3> QED BY <2>2, <2>4, <3>1 DEF RowAt, x
  <2> HIDE DEF b, end
  <2>7. Reads(T, b, y, end) /\ T[b] \notin {Comma, Semicolon}
    BY <2>2, <2>6, ElementsRead DEF x, y, end
  <2>8. Advance(T, b) = b
    <3>1. At(T, b) = T[b]
      BY <2>2, AtIs
    <3> QED BY <2>2, <2>7, <3>1, AdvanceIs
  <2>9. Step(T, i, s, b)
    <3>1. BraceStep(T, i, s, b)
      BY <2>3, <2>8, Zenon DEF BraceStep, b
    <3> QED BY <2>2, <3>1 DEF Step
  <2>10. Step(T, end, r, Advance(T, end + 1))
    <3>1. RBrace # LBrace
      BY CharactersDiffer
    <3>2. BraceStep(T, end, r, Advance(T, end + 1))
      BY <2>4, <3>1, Zenon DEF BraceStep
    <3> QED BY <2>2, <3>2 DEF Step
  <2>11. Reads(T, i, <<s>>, b)
    BY <2>2, <2>9, ReadsOne
  <2>12. Reads(T, end, <<r>>, Advance(T, end + 1))
    <3>1. Advance(T, end + 1) \in Nat
      BY <2>2, AdvanceIs
    <3> HIDE DEF r
    <3> QED BY <2>2, <2>10, <3>1, ReadsOne
  <2> DEFINE q == Advance(T, end + 1)
             u == <<s>>
             v == <<r>>
             w == u \o y
  <2> HIDE DEF q, u, v
  <2>13. u \in Seq(ArrayTokens) /\ v \in Seq(ArrayTokens) /\ w \in Seq(ArrayTokens)
    BY <1>8 DEF u, v
  <2>14. Reads(T, i, w, end)
    BY <1>3, <2>7, <2>11, <2>13, ReadsMore DEF u
  <2> HIDE DEF w
  <2>15. Reads(T, i, w \o v, q)
    BY <2>12, <2>13, <2>14, ReadsMore DEF v, q
  <2> QED BY <2>2, <2>15 DEF w, u, v, q
<1>13. Sealed(e)
  <2>1. ASSUME NEW T \in Seq(Chars), NEW i \in Nat \ {0}, Here(T, i, e.text) PROVE ReadAs(T, i, e)
    <3> HIDE DEF ts
    <3> QED BY <1>7, <1>12, <2>1 DEF ReadAs
  <2> QED BY <1>11, <2>1 DEF Sealed
<1>14. Legible(e)
  BY <1>13 DEF Sealed, Legible, Followed
<1>15. e \in Elements
  BY <1>14, ElementIs DEF e
<1> QED BY <1>1, <1>13, <1>15

(***************************************************************************)
(* The arrays.                                                             *)
(***************************************************************************)
\* The rows of at most n of the elements of X.
RowsOf(X, n) == {Braced(es) : es \in BoundedSeq(X, n)}

\* They are elements.
LEMMA RowsAreElements ==
  ASSUME NEW X, X \subseteq Elements, NEW n \in Nat, NEW a \in RowsOf(X, n)
  PROVE  a \in Elements /\ Sealed(a)
<1>1. PICK es \in BoundedSeq(X, n) : a = Braced(es)
  BY DEF RowsOf
<1>2. PICK m \in 0 .. n : es \in [1 .. m -> X]
  BY DEF BoundedSeq, SeqOf
<1>3. es \in Seq(Elements)
  <2>1. m \in Nat /\ es \in [1 .. m -> Elements]
    BY <1>2
  <2> QED BY <2>1
<1> QED BY <1>1, <1>3, BracedSealed

\* f is `level' of ShapedArrays.
Levels(shape, f) ==
  f = [d \in 0 .. Len(shape) |-> IF d = 0 THEN Leaves ELSE RowsOf(f[d - 1], shape[d])]

\* There is such a function.
LEMMA LevelsExist ==
  ASSUME NEW shape \in Seq(Nat)
  PROVE  \E f : Levels(shape, f) /\ ShapedArrays(shape) = f[Len(shape)]
<1> DEFINE n == Len(shape)
           D == 0 .. n
           V == SUBSET Elements
           rank == [d \in D |-> d]
           stop == {0}
           val == [d \in D |-> Leaves]
           jump == [d \in D |-> d - 1]
           step == [d \in D |-> [X \in V |-> RowsOf(X, shape[d])]]
<1>1. n \in Nat /\ n + 1 \in Nat
  OBVIOUS
<1>2. \A d \in D : rank[d] \in Nat /\ rank[d] < n + 1
  BY <1>1
<1>3. ASSUME NEW d \in D, d \in stop PROVE val[d] \in V
  BY LeavesAreElements
<1>4. ASSUME NEW d \in D, d \notin stop
      PROVE  jump[d] \in D /\ rank[jump[d]] < rank[d] /\ step[d] \in [V -> V]
  <2>1. d \in 1 .. n /\ d - 1 \in D /\ jump[d] = d - 1 /\ d - 1 < d
    BY <1>1, <1>4
  <2>2. shape[d] \in Nat
    BY <2>1
  <2>3. ASSUME NEW X \in V PROVE RowsOf(X, shape[d]) \in V
    BY <2>2, <2>3, RowsAreElements
  <2>4. step[d] = [X \in V |-> RowsOf(X, shape[d])]
    BY <1>4
  <2>5. step[d] \in [V -> V]
    BY <2>3, <2>4
  <2> QED BY <2>1, <2>5
<1>5. \A d \in D : IF d \in stop THEN val[d] \in V
                   ELSE jump[d] \in D /\ rank[jump[d]] < rank[d] /\ step[d] \in [V -> V]
  <2> HIDE DEF D, V, rank, stop, val, jump, step
  <2> QED BY <1>3, <1>4
<1>6. PICK f \in [D -> V] : Recursive(D, stop, val, step, jump, f)
  <2> HIDE DEF D, V, rank, stop, val, jump, step
  <2> QED BY <1>1, <1>2, <1>5, RecursionExists
<1>7. ASSUME NEW d \in D PROVE f[d] = IF d = 0 THEN Leaves ELSE RowsOf(f[d - 1], shape[d])
  <2>1. f[d] = IF d \in stop THEN val[d] ELSE step[d][f[jump[d]]]
    <3> HIDE DEF D, V, rank, stop, val, jump, step
    <3> QED BY <1>6, Zenon DEF Recursive
  <2>2. CASE d = 0
    BY <2>1, <2>2
  <2>3. CASE d # 0
    <3>1. d - 1 \in D
      BY <1>1, <2>3
    <3>2. f[d - 1] \in V /\ jump[d] = d - 1 /\ d \notin stop
      <4>1. f[d - 1] \in V
        <5> HIDE DEF V, D
        <5> QED BY <1>6, <3>1
      <4> QED BY <2>3, <4>1
    <3>3. step[d] = [X \in V |-> RowsOf(X, shape[d])]
      OBVIOUS
    <3> HIDE DEF V, stop, jump, step, D, val
    <3>4. f[d] = step[d][f[d - 1]]
      BY <2>1, <3>2
    <3> QED BY <2>3, <3>2, <3>3, <3>4
  <2> QED BY <2>2, <2>3
<1>8. Levels(shape, f)
  <2>1. f = [d \in 0 .. n |-> f[d]]
    <3> HIDE DEF V
    <3> QED BY <1>6
  <2> HIDE DEF n
  <2>2. f = [d \in 0 .. n |-> IF d = 0 THEN Leaves ELSE RowsOf(f[d - 1], shape[d])]
    BY <1>7, <2>1
  <2> QED BY <2>2 DEF Levels, n
<1> DEFINE g == CHOOSE h : Levels(shape, h)
<1>9. Levels(shape, g)
  BY <1>8, Zenon
<1>10. ShapedArrays(shape) = g[Len(shape)]
  BY Zenon DEF ShapedArrays, Levels, RowsOf
<1> QED BY <1>9, <1>10, Zenon

\* An array is read as its tokens.
LEMMA ArraysAreSealed ==
  ASSUME NEW a \in Arrays
  PROVE  Sealed(a)
<1>1. PICK shape \in Shapes : a \in ShapedArrays(shape)
  BY DEF Arrays
<1> DEFINE n == Len(shape)
<1>2. shape \in Seq(Nat) /\ n \in Nat /\ n # 0
  BY ShapesAssumption
<1>3. PICK f : Levels(shape, f) /\ ShapedArrays(shape) = f[n]
  BY <1>2, LevelsExist
<1>4. \A d \in 0 .. n : f[d] = IF d = 0 THEN Leaves ELSE RowsOf(f[d - 1], shape[d])
  BY <1>3, Zenon DEF Levels
<1> DEFINE S == {d \in Nat : d <= n => f[d] \subseteq Elements}
<1>5. 0 \in S
  <2>1. 0 \in 0 .. n
    BY <1>2
  <2> QED BY <1>4, <2>1, LeavesAreElements
<1>6. ASSUME NEW d \in Nat, d \in S PROVE d + 1 \in S
  <2> SUFFICES ASSUME d + 1 <= n PROVE f[d + 1] \subseteq Elements
    OBVIOUS
  <2>1. d + 1 \in 0 .. n /\ d + 1 # 0 /\ (d + 1) - 1 = d /\ d <= n /\ d + 1 \in 1 .. n
    BY <1>2
  <2>2. f[d] \subseteq Elements /\ shape[d + 1] \in Nat
    BY <1>2, <1>6, <2>1
  <2>3. f[d + 1] = RowsOf(f[d], shape[d + 1])
    BY <1>4, <2>1
  <2> QED BY <2>2, <2>3, RowsAreElements
<1>7. Nat \subseteq S
  <2> HIDE DEF S
  <2> QED BY <1>5, <1>6, Induction
<1>8. n - 1 \in Nat /\ n - 1 <= n /\ n \in 0 .. n /\ n \in 1 .. n
  BY <1>2
<1>9. f[n - 1] \subseteq Elements /\ shape[n] \in Nat
  BY <1>2, <1>7, <1>8
<1>10. f[n] = RowsOf(f[n - 1], shape[n])
  BY <1>2, <1>4, <1>8
<1> QED BY <1>1, <1>3, <1>9, <1>10, RowsAreElements

\* From the beginning to the end of its text.
LEMMA ArraysAreRead ==
  ASSUME NEW a \in Arrays
  PROVE  /\ a.text \in Seq(Chars) /\ a.tokens \in Seq(ArrayTokens)
         /\ Reads(a.text, 1, a.tokens, Len(a.text) + 1)
<1> DEFINE T == a.text
<1>1. Sealed(a)
  BY ArraysAreSealed
<1>2. HasSpelling(a)
  BY <1>1 DEF Sealed
<1>3. T \in Seq(Chars) /\ a.tokens \in Seq(ArrayTokens)
  BY <1>2 DEF HasSpelling
<1> HIDE DEF T
<1>4. Len(T) \in Nat
  BY <1>3
<1>5. Here(T, 1, T)
  <2>1. \A k \in 1 .. Len(T) : 1 + (k - 1) = k
    OBVIOUS
  <2>2. 1 + Len(T) <= Len(T) + 1
    BY <1>4
  <2> QED BY <2>1, <2>2 DEF Here
<1>6. ReadAs(T, 1, a)
  BY <1>1, <1>3, <1>5 DEF Sealed, T
<1>7. 1 + Len(T) = Len(T) + 1 /\ Len(T) + 1 \in 1 .. Len(T) + 1 /\ Len(T) + 1 > Len(T)
  BY <1>4
<1>8. Advance(T, Len(T) + 1) = Len(T) + 1
  <2>1. At(T, Len(T) + 1) = NUL
    BY <1>3, <1>7, AtIs
  <2>2. NUL \notin {Comma, Semicolon}
    BY CharactersDiffer DEF Special
  <2> QED BY <1>3, <1>7, <2>1, <2>2, AdvanceIs
<1>9. Reads(T, 1, a.tokens, Len(T) + 1)
  BY <1>6, <1>7, <1>8 DEF ReadAs, T
<1> QED BY <1>3, <1>9 DEF T

(***************************************************************************)
(* asArray's loop.                                                         *)
(***************************************************************************)
\* The text is one of characters.
LEMMA TextType == ParserInit => input \in Seq(Chars)
<1> SUFFICES ASSUME ParserInit PROVE input \in Seq(Chars)
  OBVIOUS
<1>1. CASE input \in BoundedSeq(Alphabet, MaxText)
  <2>1. PICK m \in 0 .. MaxText : input \in [1 .. m -> Alphabet]
    BY <1>1 DEF BoundedSeq, SeqOf
  <2>2. m \in Nat /\ Alphabet \subseteq Chars
    BY AlphabetAssumption DEF Chars
  <2>3. input \in [1 .. m -> Chars]
    BY <2>1, <2>2
  <2> QED BY <2>2, <2>3
<1>2. CASE \E a \in Arrays : input = a.text
  BY <1>2, ArraysAreRead
<1>3. CASE input = <<>>
  BY <1>3
<1> QED BY <1>1, <1>2, <1>3 DEF ParserInit

\* What a call of getNext does to pos_ and to the loop.
LEMMA CallMovesOn ==
  ASSUME input \in Seq(Chars), pos_ \in 1 .. Len(input) + 1, AsArray
  PROVE  /\ ended' # "assert" /\ pos_' \in 1 .. Len(input) + 1
         /\ ended' = "no" => pos_' > pos_
         /\ ended' = "overrun" => Last(input) # RBrace
<1> DEFINE c == At(input, pos_)
<1>1. Len(input) \in Nat /\ pos_ \in Nat /\ pos_ >= 1 /\ (c # NUL => pos_ \in 1 .. Len(input))
  <2>1. Len(input) \in Nat /\ pos_ \in Nat /\ pos_ >= 1
    OBVIOUS
  <2>2. c # NUL => pos_ <= Len(input)
    BY <2>1, AtIs
  <2> QED BY <2>1, <2>2
<1>2. NUL \notin {LBrace, RBrace, SQuote, DQuote}
  BY CharactersDiffer DEF Special
<1>3. ASSUME NEW e \in 1 .. Len(input) + 1, NEW juncture, NEW value, Return(juncture, value, e)
      PROVE  /\ ended' = (IF juncture = "done" THEN "done" ELSE "no")
             /\ pos_' \in e .. Len(input) + 1
             /\ At(input, e) \in {Comma, Semicolon} => pos_' = e + 1
  BY <1>3, AdvanceIs DEF Return
<1>4. CASE Return("done", <<>>, pos_)
  <2>1. ended' = "done" /\ pos_' \in pos_ .. Len(input) + 1
    BY <1>3, <1>4
  <2> QED BY <1>1, <2>1
<1>5. ASSUME c # NUL, NEW juncture \in {"row_start", "row_end"}, Return(juncture, <<>>, pos_ + 1)
      PROVE  ended' = "no" /\ pos_' \in pos_ + 1 .. Len(input) + 1
  <2>1. pos_ + 1 \in 1 .. Len(input) + 1
    BY <1>1, <1>5
  <2> QED BY <1>3, <1>5, <2>1
<1>6. ASSUME NEW e, NEW quote, NEW escapes, QuotedValue(e, quote, escapes), c = quote, quote # NUL,
             e = ScanThrown \/ (e \in pos_ + 2 .. Len(input) + 1 /\ At(input, e - 1) = quote)
      PROVE  (ended' = "thrown" /\ pos_' = pos_) \/ (ended' = "no" /\ pos_' \in pos_ + 1 .. Len(input) + 1)
  <2>1. CASE e = ScanThrown
    BY <1>6, <2>1 DEF QuotedValue, Fail
  <2>2. CASE e # ScanThrown
    <3>1. e \in pos_ + 2 .. Len(input) + 1 /\ At(input, e - 1) = quote
      BY <1>6, <2>2
    <3>2. AssertsHold(input, pos_, e, quote)
      BY <1>1, <1>6, <3>1 DEF AssertsHold
    <3>3. Return("string_value", ParseQuoted(input, pos_, e, escapes), e)
      BY <1>6, <2>2, <3>2, Zenon DEF QuotedValue
    <3>4. e \in 1 .. Len(input) + 1
      BY <1>1, <3>1
    <3>5. ended' = "no" /\ pos_' \in e .. Len(input) + 1
      BY <1>3, <3>3, <3>4
    <3> QED BY <1>1, <3>1, <3>5
  <2> QED BY <2>1, <2>2
<1>7. CASE c = SQuote /\ QuotedValue(ScanSingleQuoted(input, pos_), SQuote, {SQuote, BSlash})
  <2> DEFINE e == ScanSingleQuoted(input, pos_)
  <2>1. c # NUL
    BY <1>2, <1>7
  <2>2. e = ScanThrown \/ (e \in pos_ + 2 .. Len(input) + 1 /\ At(input, e - 1) = SQuote)
    BY <1>1, <2>1, QuotedScansEnd
  <2> HIDE DEF e
  <2>3. (ended' = "thrown" /\ pos_' = pos_) \/ (ended' = "no" /\ pos_' \in pos_ + 1 .. Len(input) + 1)
    BY <1>2, <1>6, <1>7, <2>2 DEF e
  <2> QED BY <1>1, <2>3
<1>8. CASE c = DQuote /\ QuotedValue(ScanDoubleQuoted(input, pos_), DQuote, {BSlash})
  <2> DEFINE e == ScanDoubleQuoted(input, pos_)
  <2>1. c # NUL
    BY <1>2, <1>8
  <2>2. e = ScanThrown \/ (e \in pos_ + 2 .. Len(input) + 1 /\ At(input, e - 1) = DQuote)
    BY <1>1, <2>1, QuotedScansEnd
  <2> HIDE DEF e
  <2>3. (ended' = "thrown" /\ pos_' = pos_) \/ (ended' = "no" /\ pos_' \in pos_ + 1 .. Len(input) + 1)
    BY <1>2, <1>6, <1>8, <2>2 DEF e
  <2> QED BY <1>1, <2>3
<1>9. ASSUME c \notin {NUL, LBrace, RBrace, SQuote, DQuote}, NEW e, e = ScanUnquoted(input, pos_),
             NEW v, IF e = Overrun(input) THEN Fail("overrun")
                    ELSE IF v = <<Null>> THEN Return("null_value", <<>>, e)
                    ELSE Return("string_value", v, e)
      PROVE  \/ ended' = "overrun" /\ pos_' = pos_ /\ Last(input) # RBrace
             \/ ended' = "no" /\ pos_' \in pos_ + 1 .. Len(input) + 1
  <2>1. pos_ \in 1 .. Len(input)
    BY <1>1, <1>9
  <2>2. \/ e = Overrun(input) /\ input[Len(input)] # RBrace
        \/ e \in pos_ .. Len(input) /\ At(input, e) \in {Comma, Semicolon, RBrace}
    BY <1>9, <2>1, UnquotedScanEnds
  <2>3. CASE e = Overrun(input)
    <3>1. Overrun(input) \notin pos_ .. Len(input)
      BY <1>1 DEF Overrun
    <3> QED BY <1>9, <2>2, <2>3, <3>1 DEF Fail, Last
  <2>4. CASE e # Overrun(input)
    <3>1. e \in pos_ .. Len(input) /\ At(input, e) \in {Comma, Semicolon, RBrace} /\ e \in 1 .. Len(input) + 1
      BY <1>1, <2>2, <2>4
    <3>2. \E juncture \in {"null_value", "string_value"} : \E value : Return(juncture, value, e)
      BY <1>9, <2>4, Zenon
    <3>3. ended' = "no" /\ pos_' \in e .. Len(input) + 1 /\ (At(input, e) \in {Comma, Semicolon} => pos_' = e + 1)
      BY <1>3, <3>1, <3>2
    <3>4. CASE e = pos_
      <4>1. At(input, e) \in {Comma, Semicolon}
        BY <1>9, <3>1, <3>4
      <4> QED BY <1>1, <2>1, <3>3, <3>4, <4>1
    <3>5. CASE e # pos_
      BY <1>1, <3>1, <3>3, <3>5
    <3> QED BY <3>4, <3>5
  <2> QED BY <2>3, <2>4
<1>10. CASE \/ c = LBrace /\ Return("row_start", <<>>, pos_ + 1)
            \/ c = RBrace /\ Return("row_end", <<>>, pos_ + 1)
  <2>1. ended' = "no" /\ pos_' \in pos_ + 1 .. Len(input) + 1
    BY <1>2, <1>5, <1>10
  <2> QED BY <1>1, <2>1
<1>11. CASE /\ c \notin {NUL, LBrace, RBrace, SQuote, DQuote}
            /\ LET end   == ScanUnquoted(input, pos_)
                   value == SubSeq(input, pos_, end - 1)
               IN IF end = Overrun(input) THEN Fail("overrun")
                  ELSE IF value = <<Null>> THEN Return("null_value", <<>>, end)
                  ELSE Return("string_value", value, end)
  <2>1. \/ ended' = "overrun" /\ pos_' = pos_ /\ Last(input) # RBrace
        \/ ended' = "no" /\ pos_' \in pos_ + 1 .. Len(input) + 1
    BY <1>9, <1>11, Zenon
  <2> QED BY <1>1, <2>1
<1>12. GetNext
  BY DEF AsArray
<1> QED BY <1>4, <1>7, <1>8, <1>10, <1>11, <1>12, Zenon DEF GetNext

\* The scanner stays in the text.
ParserInv == input \in Seq(Chars) /\ ScansEndInTheText

\* It begins in front of it.
LEMMA InitParser == ParserInit => ParserInv
<1> SUFFICES ASSUME ParserInit PROVE ParserInv
  OBVIOUS
<1>1. input \in Seq(Chars)
  BY TextType
<1>2. pos_ = 1 /\ ended = "no" /\ Len(input) \in Nat
  BY <1>1 DEF ParserInit
<1> QED BY <1>1, <1>2 DEF ParserInv, ScansEndInTheText

\* A call keeps it there.
LEMMA StepParser == ParserInv /\ [ParserNext]_parserVars => ParserInv'
<1> SUFFICES ASSUME ParserInv, [ParserNext]_parserVars PROVE ParserInv'
  OBVIOUS
<1>1. CASE AsArray
  <2>1. input' = input
    BY <1>1 DEF AsArray
  <2>2. /\ ended' # "assert" /\ pos_' \in 1 .. Len(input) + 1
        /\ ended' = "overrun" => Last(input) # RBrace
    BY <1>1, CallMovesOn DEF ParserInv, ScansEndInTheText
  <2> QED BY <2>1, <2>2 DEF ParserInv, ScansEndInTheText
<1>2. CASE UNCHANGED parserVars
  BY <1>2 DEF parserVars, ParserInv, ScansEndInTheText
<1> QED BY <1>1, <1>2 DEF ParserNext

\* For every text over every alphabet, the asserts of parse_single_quoted_string
\* and parse_double_quoted_string hold (ArrayParser.cpp:59-61, 111-113), pos_ never
\* passes the NUL, and scan_unquoted_string (ArrayParser.cpp:141) does so only in a
\* text that does not end with a brace.
THEOREM ScansEndInTheTextAlways == ParserSpec => []ScansEndInTheText
<1>1. ParserInv => ScansEndInTheText
  BY DEF ParserInv
<1> QED BY <1>1, InitParser, StepParser, PTL DEF ParserSpec

\* For every text, each call of getNext (ArrayParser.cpp:161-222) that answers
\* something else than done moves pos_ on, so that the loop of Field::asArray
\* (Field.h:111-129) makes no more calls than the text has characters, and one.
THEOREM GetNextMovesOnAlways == ParserSpec => GetNextMovesOn
<1>1. ParserInv /\ [ParserNext]_parserVars => [ended' = "no" => pos_' > pos_]_parserVars
  <2> SUFFICES ASSUME ParserInv, AsArray PROVE ended' = "no" => pos_' > pos_
    BY DEF ParserNext
  <2> QED BY CallMovesOn DEF ParserInv, ScansEndInTheText
<1> QED BY <1>1, InitParser, StepParser, PTL DEF ParserSpec, GetNextMovesOn

\* The calls that read the whole text return ts, and asArray has made the first
\* of them, or all and the one that answers done.
Finding(ts, P) ==
  /\ ts \in Seq(ArrayTokens) /\ Path(input, 1, ts, Len(input) + 1, P)
  /\ expected = Append(ts, Token("done", <<>>))
  /\ \/ /\ ended = "no" /\ Len(found) <= Len(ts) /\ pos_ = P[Len(found)]
        /\ found = SubSeq(ts, 1, Len(found))
     \/ ended = "done" /\ found = expected

\* In the text of an array the parser is where it has found a part of it.
FindingInv ==
  /\ input \in Seq(Chars) /\ (isNull => input = <<>>)
  /\ expected # NoArray => \E ts, P : Finding(ts, P)

\* At first nothing is found.
LEMMA InitFinding == ParserInit => FindingInv
<1> SUFFICES ASSUME ParserInit PROVE FindingInv
  OBVIOUS
<1>1. input \in Seq(Chars)
  BY TextType
<1>2. pos_ = 1 /\ found = <<>> /\ ended = "no"
  BY DEF ParserInit
<1>3. ASSUME NEW ts \in Seq(ArrayTokens), Reads(input, 1, ts, Len(input) + 1),
             expected = Append(ts, Token("done", <<>>))
      PROVE  \E ss, P : Finding(ss, P)
  <2>1. PICK P : Path(input, 1, ts, Len(input) + 1, P)
    BY <1>3 DEF Reads
  <2>2. P[0] = 1
    BY <2>1 DEF Path
  <2>3. Len(found) = 0 /\ Len(found) <= Len(ts) /\ found = SubSeq(ts, 1, Len(found))
    <3>1. SubSeq(ts, 1, 0) = <<>> /\ Len(<<>>) = 0 /\ 0 <= Len(ts)
      OBVIOUS
    <3> QED BY <1>2, <3>1
  <2>4. Finding(ts, P)
    BY <1>2, <1>3, <2>1, <2>2, <2>3 DEF Finding
  <2> QED BY <2>4
<1>4. CASE isNull = FALSE /\ expected = NoArray
  BY <1>1, <1>4 DEF FindingInv
<1>5. CASE /\ isNull = FALSE
           /\ \E a \in Arrays : input = a.text /\ expected = Append(a.tokens, Token("done", <<>>))
  <2>1. PICK a \in Arrays : input = a.text /\ expected = Append(a.tokens, Token("done", <<>>))
    BY <1>5
  <2>2. a.tokens \in Seq(ArrayTokens) /\ Reads(input, 1, a.tokens, Len(input) + 1)
    BY <2>1, ArraysAreRead
  <2>3. \E ss, P : Finding(ss, P)
    BY <1>3, <2>1, <2>2
  <2> QED BY <1>1, <1>5, <2>3 DEF FindingInv
<1>6. CASE isNull = TRUE /\ input = <<>> /\ expected = <<Token("done", <<>>)>>
  <2> DEFINE ts == <<>>
             tok == Token("done", <<>>)
  <2>1. ts \in Seq(ArrayTokens) /\ Append(ts, tok) = <<tok>> /\ Len(ts) + 1 = 1 /\ 1 \in Nat
    OBVIOUS
  <2> HIDE DEF tok
  <2>2. Reads(input, 1, ts, Len(input) + 1)
    BY <1>6, <2>1, ReadsNone
  <2>3. expected = Append(ts, Token("done", <<>>))
    BY <1>6, <2>1 DEF tok
  <2> HIDE DEF ts
  <2>4. \E ss, P : Finding(ss, P)
    BY <1>3, <2>1, <2>2, <2>3
  <2> QED BY <1>1, <1>6, <2>4 DEF FindingInv
<1> QED BY <1>4, <1>5, <1>6 DEF ParserInit

\* A call finds the next part.
LEMMA StepFinding == FindingInv /\ [ParserNext]_parserVars => FindingInv'
<1> SUFFICES ASSUME FindingInv, [ParserNext]_parserVars PROVE FindingInv'
  OBVIOUS
<1>1. CASE UNCHANGED parserVars
  BY <1>1 DEF parserVars, FindingInv, Finding
<1>2. CASE AsArray
  <2>1. input' = input /\ isNull' = isNull /\ expected' = expected /\ ended = "no"
    BY <1>2 DEF AsArray
  <2>2. input \in Seq(Chars) /\ (isNull => input = <<>>)
    BY DEF FindingInv
  <2>3. CASE expected = NoArray
    BY <2>1, <2>2, <2>3 DEF FindingInv
  <2>4. CASE expected # NoArray
    <3>1. PICK ts, P : Finding(ts, P)
      BY <2>4 DEF FindingInv
    <3> DEFINE n == Len(ts)
               m == Len(found)
               tok == Token("done", <<>>)
    <3>2. /\ ts \in Seq(ArrayTokens) /\ Path(input, 1, ts, Len(input) + 1, P)
          /\ expected = Append(ts, tok)
          /\ m <= n /\ found = SubSeq(ts, 1, m) /\ pos_ = P[m]
      BY <2>1, <3>1 DEF Finding
    <3>3. /\ P \in [0 .. n -> Nat] /\ P[n] = Len(input) + 1
          /\ \A k \in 1 .. n : Step(input, P[k - 1], ts[k], P[k])
      BY <3>2 DEF Path
    <3> HIDE DEF tok
    <3>4. n \in Nat /\ m \in Nat
      <4>1. n \in Nat
        BY <3>2
      <4>2. m \in Int
        BY <3>2, <4>1
      <4>3. SubSeq(ts, 1, m) \in Seq(ArrayTokens)
        BY <3>2, <4>1, <4>2
      <4>4. found \in Seq(ArrayTokens)
        BY <3>2, <4>3
      <4> QED BY <4>1, <4>4
    <3>5. CASE m < n
      <4> DEFINE k == m + 1
      <4>1. k \in 1 .. n /\ k - 1 = m /\ k <= n /\ k \in Nat
        BY <3>4, <3>5
      <4>2. Step(input, pos_, ts[k], P[k])
        BY <3>2, <3>3, <4>1
      <4>3. ~isNull
        <5>1. pos_ \in 1 .. Len(input)
          BY <4>2 DEF Step
        <5>2. input # <<>>
          BY <5>1
        <5> QED BY <2>2, <5>2
      <4>4. found' = Append(found, ts[k]) /\ pos_' = P[k] /\ ended' = "no"
        <5> HIDE DEF k
        <5> QED BY <1>2, <2>1, <2>2, <4>2, <4>3, StepTaken
      <4>5. found' = SubSeq(ts, 1, k) /\ Len(found') = k
        <5> DEFINE u == SubSeq(ts, 1, k)
                   w == Append(found, ts[k])
        <5>1. u \in Seq(ArrayTokens) /\ Len(u) = k /\ \A j \in 1 .. k : u[j] = ts[j]
          BY <3>2, <4>1
        <5>2. found \in Seq(ArrayTokens) /\ \A j \in 1 .. m : found[j] = ts[j]
          <6> DEFINE y == SubSeq(ts, 1, m)
          <6>1. y \in Seq(ArrayTokens) /\ \A j \in 1 .. m : y[j] = ts[j]
            BY <3>2, <3>4
          <6>2. found = y
            BY <3>2
          <6> HIDE DEF y, m
          <6> QED BY <6>1, <6>2
        <5>3. ts[k] \in ArrayTokens
          BY <3>2, <4>1
        <5>4. w \in Seq(ArrayTokens) /\ Len(w) = k /\ w[k] = ts[k] /\ \A j \in 1 .. m : w[j] = ts[j]
          BY <3>4, <5>2, <5>3
        <5> HIDE DEF u, w
        <5>5. \A j \in 1 .. k : u[j] = w[j]
          <6>1. \A j \in 1 .. k : j = k \/ j \in 1 .. m
            BY <3>4
          <6> HIDE DEF k, m
          <6> QED BY <5>1, <5>4, <6>1
        <5>6. u = w
          BY <5>1, <5>4, <5>5, SeqEqual
        <5> QED BY <4>4, <5>1, <5>6 DEF u, w
      <4> HIDE DEF k
      <4>6. Finding(ts, P)'
        <5>1. ended' = "no" /\ Len(found') <= Len(ts) /\ pos_' = P[Len(found')] /\ found' = SubSeq(ts, 1, Len(found'))
          BY <4>1, <4>4, <4>5
        <5>2. Path(input', 1, ts, Len(input') + 1, P) /\ expected' = Append(ts, Token("done", <<>>))
          BY <2>1, <3>2 DEF tok
        <5> QED BY <3>2, <5>1, <5>2 DEF Finding
      <4> QED BY <2>1, <2>2, <4>6 DEF FindingInv
    <3>6. CASE m = n
      <4>1. pos_ = Len(input) + 1 /\ Len(input) \in Nat
        BY <2>2, <3>2, <3>3, <3>6
      <4>2. At(input, pos_) = NUL
        <5>1. pos_ \in Nat /\ pos_ >= 1 /\ pos_ > Len(input)
          BY <4>1
        <5> QED BY <2>2, <5>1, AtIs
      <4>3. NUL \notin {LBrace, RBrace, SQuote, DQuote}
        BY CharactersDiffer DEF Special
      <4>4. Return("done", <<>>, pos_)
        BY <1>2, <4>2, <4>3, Zenon DEF AsArray, GetNext
      <4>5. ended' = "done" /\ found' = Append(found, tok)
        BY <4>4 DEF Return, tok
      <4>6. found = ts
        <5>1. SubSeq(ts, 1, n) = ts
          BY <3>2
        <5> QED BY <3>2, <3>6, <5>1
      <4>7. Finding(ts, P)'
        BY <2>1, <3>2, <4>5, <4>6 DEF Finding, tok
      <4> QED BY <2>1, <2>2, <4>7 DEF FindingInv
    <3> QED BY <3>2, <3>4, <3>5, <3>6
  <2> QED BY <2>3, <2>4
<1> QED BY <1>1, <1>2 DEF ParserNext

\* Field::asArray (Field.h:111-129) finds in the text of every array, of any depth
\* and with any strings, quoted either way or not at all, the rows, NULLs and
\* strings of that array and then the end: getNext (ArrayParser.cpp:161-222) neither
\* throws nor loses, splits or joins what is in it.
THEOREM FindsTheArrayAlways == ParserSpec => []FindsTheArray
<1>1. FindingInv => FindsTheArray
  <2> SUFFICES ASSUME FindingInv, expected # NoArray
               PROVE  /\ IsPrefix(found, expected) /\ ended \in {"no", "done"}
                      /\ ended = "done" => found = expected
    BY DEF FindsTheArray
  <2>1. PICK ts, P : Finding(ts, P)
    BY DEF FindingInv
  <2> DEFINE tok == Token("done", <<>>)
             m == Len(found)
             z == Append(ts, tok)
  <2>2. ts \in Seq(ArrayTokens) /\ expected = z
    BY <2>1 DEF Finding
  <2>3. /\ Len(ts) \in Nat /\ Len(z) = Len(ts) + 1 /\ z \in Seq(ArrayTokens \cup {tok})
        /\ \A j \in 1 .. Len(ts) : z[j] = ts[j]
    <3> HIDE DEF tok
    <3>1. ts \in Seq(ArrayTokens \cup {tok})
      BY <2>2
    <3> QED BY <2>2, <3>1
  <2> HIDE DEF z
  <2>4. CASE ended = "no" /\ m <= Len(ts) /\ found = SubSeq(ts, 1, m)
    <3>1. m \in Nat
      <4>1. m \in Int
        BY <2>3, <2>4
      <4>2. SubSeq(ts, 1, m) \in Seq(ArrayTokens)
        BY <2>2, <2>3, <2>4, <4>1
      <4>3. found \in Seq(ArrayTokens)
        BY <2>4, <4>2
      <4> QED BY <4>3
    <3> HIDE DEF m
    <3> DEFINE y == SubSeq(ts, 1, m)
               u == SubSeq(z, 1, m)
    <3>2. y \in Seq(ArrayTokens) /\ Len(y) = m /\ \A j \in 1 .. m : y[j] = ts[j]
      BY <2>2, <2>3, <2>4, <3>1
    <3>3. u \in Seq(ArrayTokens \cup {tok}) /\ Len(u) = m /\ \A j \in 1 .. m : u[j] = z[j]
      <4>1. m <= Len(z)
        BY <2>3, <2>4, <3>1
      <4> HIDE DEF tok
      <4> QED BY <2>3, <3>1, <4>1
    <3>4. SubSeq(y, 1, m) = y
      <4> HIDE DEF y
      <4> QED BY <3>2
    <3> HIDE DEF y, u
    <3>5. y = u
      <4>1. \A j \in 1 .. m : y[j] = u[j]
        <5>1. \A j \in 1 .. m : j \in 1 .. Len(ts)
          BY <2>3, <2>4, <3>1
        <5> QED BY <2>3, <3>2, <3>3, <5>1
      <4>2. y \in Seq(ArrayTokens \cup {tok})
        <5> HIDE DEF tok
        <5> QED BY <3>2
      <4> HIDE DEF tok
      <4> QED BY <3>2, <3>3, <4>1, <4>2, SeqEqual
    <3>6. Len(found) <= Len(expected) /\ SubSeq(found, 1, Len(found)) = SubSeq(expected, 1, Len(found))
      <4>1. m <= Len(z)
        BY <2>3, <2>4, <3>1
      <4>2. Len(found) = m /\ found = y
        BY <2>4 DEF m, y
      <4> QED BY <2>2, <3>4, <3>5, <4>1, <4>2 DEF u
    <3> QED BY <2>4, <3>6 DEF IsPrefix
  <2>5. CASE ended = "done" /\ found = expected
    <3>1. Len(found) <= Len(expected)
      BY <2>2, <2>3, <2>5
    <3> QED BY <2>5, <3>1 DEF IsPrefix
  <2> QED BY <2>1, <2>4, <2>5 DEF Finding
<1> QED BY <1>1, InitFinding, StepFinding, PTL DEF ParserSpec
============================================================================
