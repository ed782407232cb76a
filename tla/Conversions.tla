---------------------------- MODULE Conversions ----------------------------
(***************************************************************************)
(* The conversions between texts and values that the library makes for its *)
(* callers, each a call with one input: connection strings, statements     *)
(* with parameters, cells of a result, and dates.  A state is a call with  *)
(* its input and, once it has returned, its outcome; the properties hold   *)
(* the outcome against what the input was meant to say.                    *)
(***************************************************************************)
EXTENDS ConnString, SqlParameters, DateTime, FieldValue

CONSTANTS
  ParameterLists, \* sequences of <<key, value, how>>, see Spelling
  Statements, Parameters, \* sequences of characters, sequences of parameters
  Cells,
  Instants        \* DateTimes, in microseconds since the epoch

\* A value that is empty or has a blank is spelled between quotes.
ASSUME ParameterListsAssumption ==
  \A list \in ParameterLists :
    /\ list \in Seq((Seq(Word) \ {<<>>}) \X Seq(ConnCharacters) \X {"plain", "spaced", "quoted"})
    /\ \A i \in DOMAIN list : Spellable(list[i][2], list[i][3])

ASSUME StatementsAssumption == \A sql \in Statements : sql \in Seq(SqlCharacters)

\* A number is printed as one character, and that is no quote.
ASSUME ParametersAssumption ==
  \A ps \in Parameters :
    /\ ps \in Seq([format : Formats, value : Seq(SqlCharacters)])
    /\ \A i \in DOMAIN ps : ps[i].format = "MySqlLong" =>
          Len(ps[i].value) = 1 /\ ps[i].value[1] # SqlQuote

ASSUME CellsAssumption ==
  \A c \in Cells : c.null \in BOOLEAN /\ c.number \in BOOLEAN /\ c.n \in Int

ASSUME InstantsAssumption == Instants \subseteq Int

VARIABLES
  call,     \* the function that is called, and its input
  returned, outcome

vars == <<call, returned, outcome>>

Init ==
  /\ \/ \E list \in ParameterLists : call = [name |-> "parseConnString", list |-> list]
     \/ \E sql \in Statements, ps \in Parameters :
           call = [name |-> "execSql", sql |-> sql, parameters |-> ps]
     \/ \E cell \in Cells, type \in Types :
           call = [name |-> "as", cell |-> cell, type |-> type]
     \/ \E m \in Instants : call = [name |-> "toDbString", instant |-> m]
  /\ returned = FALSE /\ outcome = <<>>

Returns(name, result) ==
  /\ ~returned /\ call.name = name
  /\ returned' = TRUE /\ outcome' = result
  /\ UNCHANGED call

\* The parameters as a user spells them, separated by blanks.
Spelled(list) ==
  FlattenSeq([i \in DOMAIN list |->
    Spelling(list[i][1], list[i][2], list[i][3]) \o <<Blank>>])

Connect == Returns("parseConnString", Options(ParseConnString(Spelled(call.list))))

Prepare == Returns("execSql",
  IF Unrecognized(call.sql, call.parameters) THEN [ended |-> TRUE]
  ELSE [ended |-> FALSE, sql |-> PrepareSql(call.sql, call.parameters)])

ReadCell == Returns("as", As(call.type, call.cell))

Date ==
  LET m == call.instant
  IN Returns("toDbString",
       [local |-> ToDbStringLocal(m), backLocal |-> FromDbStringLocal(ToDbStringLocal(m)),
        utc |-> ToDbString(m), back |-> FromDbString(ToDbString(m)),
        day |-> RoundDay(m), second |-> RoundSecond(m)])

Next == Connect \/ Prepare \/ ReadCell \/ Date

Spec == Init /\ [][Next]_vars

(***************************************************************************)
(* Properties.                                                             *)
(***************************************************************************)
Returned(name) == returned /\ call.name = name

\* parseConnString and the constructor give each option the value that was
\* spelled last for it, whatever blanks, quotes and backslashes the value has,
\* for lists that quote no value but the last and spell a key in one case only.
OptionsAsSpelled ==
  Returned("parseConnString") =>
    LET list   == call.list
        option(i) == LowerCase(list[i][1])
        quoted == {i \in DOMAIN list : list[i][3] = "quoted"}
    IN (/\ quoted \subseteq {Len(list)}
        /\ \A i, j \in DOMAIN list : option(i) = option(j) => list[i][1] = list[j][1])
       => outcome = [o \in {option(i) : i \in DOMAIN list} |->
                       list[Max({i \in DOMAIN list : option(i) = o})][2]]

\* Every parameter of a statement arrives as one token of its own value at the
\* place of its mark, and the rest of the statement as it was: no quote,
\* backslash or question mark in a parameter changes how the server reads what
\* follows.  For statements whose marks are outside of strings, and beside no
\* quote or other mark.
ParametersAreTokens ==
  Returned("execSql") /\ ~outcome.ended =>
    LET sql    == call.sql
        ps     == call.parameters
        tokens == Tokens(sql)
        marks  == {i \in DOMAIN tokens : tokens[i] = <<"symbol", <<Mark>> >>}
        rank(i) == Cardinality({j \in marks : j <= i})
    IN (/\ Cardinality(marks) = Cardinality(Marks(sql, 1))
        /\ \A j \in Marks(sql, 1), k \in {-1, 1} :
             j + k \in DOMAIN sql => sql[j + k] \notin {Mark, SqlQuote})
       => Tokens(outcome.sql) =
            [i \in DOMAIN tokens |-> IF i \in marks /\ rank(i) <= Len(ps)
                                       THEN ParameterToken(ps[rank(i)]) ELSE tokens[i]]

\* as<T> of a number that T can hold is that number, and of NULL zero.
NumbersComeThrough ==
  Returned("as") =>
    /\ call.cell.null => outcome = Value(0)
    /\ ~call.cell.null /\ call.cell.number /\ call.cell.n \in RangeOf(call.type)
         => outcome = Value(call.cell.n)

\* A local time that occurs twice, when daylight saving ends.
Repeated(m) == DstEnd - HourLength <= Quotient(m, PerSecond)
                 /\ Quotient(m, PerSecond) < DstEnd + HourLength

\* Reading the text of an instant gives the instant again, for the local text
\* and for the one shifted by timezoneOffset(), also across the changes of
\* daylight saving.  For instants after the epoch that are not printed as a date
\* alone and are not in the hour that occurs twice.
DatesComeBack ==
  Returned("toDbString") =>
    LET m == call.instant
        shifted == After(m, -TimezoneOffset)
    IN /\ m >= 0 /\ m # RoundDay(m) /\ ~Repeated(m) => outcome.backLocal = {m}
       /\ shifted >= 0 /\ shifted # RoundDay(shifted) /\ ~Repeated(shifted)
            => outcome.back = {m}

\* DateTime.h: fromDbStringLocal is the "Inverse of toDbStringLocal()".
InverseOfToDbStringLocal ==
  Returned("toDbString") /\ call.instant >= 0 => call.instant \in outcome.backLocal

\* DateTime.h: toDbString generates "a UTC time string".
UtcText ==
  Returned("toDbString") /\ call.instant >= DayLength * PerSecond /\ Len(outcome.utc) > 1 =>
    LET s == Quotient(call.instant, PerSecond)
    IN outcome.utc[1] = s \div DayLength /\ outcome.utc[2] = s % DayLength

\* DateTime.h: roundDay equals the instant "with zero hours".
ZeroHours ==
  Returned("toDbString") /\ call.instant >= 0 =>
    LocalTime(Quotient(outcome.day, PerSecond)).sec = 0
=============================================================================
