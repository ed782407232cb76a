--------------------------- MODULE MCConversions ---------------------------
(* Conversions with the values of the Conversions*.cfg files.               *)
EXTENDS Conversions

MCWord    == {"a", "A", "b"}
MCtolower == [c \in MCWord |-> IF c = "A" THEN "a" ELSE c]

MCConnCharacters == {"a", "b", "=", Quote, Backslash, Blank}

\* Values with each character that means something to the expression, alone,
\* at either end and doubled.
MCValues ==
  {<<>>, <<"b">>, <<Quote>>, <<Backslash>>, <<"=">>, <<Blank>>, <<"b", Quote>>,
   <<Quote, "b">>, <<"b", Backslash>>, <<Backslash, Quote>>, <<Quote, Quote>>,
   <<"b", "=", "a">>, <<"b", Blank, "a", "=", "b">>}

MCPair == {p \in {<<"a">>, <<"A">>, <<"b", "a">>} \X MCValues \X {"plain", "spaced", "quoted"} :
             Spellable(p[2], p[3])}

MCParameterLists == {<<>>} \cup {<<p>> : p \in MCPair} \cup (MCPair \X MCPair)

MCSqlCharacters == {"x", "s", "7", Mark, SqlQuote, Escape, "NULL", "default"}

MCStatements == UNION {[1 .. n -> {"x", Mark, SqlQuote}] : n \in 1 .. 5}

MCString == {<<>>, <<"s">>, <<SqlQuote>>, <<Escape>>, <<Mark>>, <<"s", Escape>>,
             <<SqlQuote, Mark>>}

MCParameter ==
  [format : {"MySqlString"}, value : MCString]
    \cup [format : {"MySqlLong"}, value : {<<"7">>}]
    \cup [format : {"MySqlNull", "DrogonDefaultValue", "other"}, value : {<<>>}]

MCParameters == UNION {[1 .. n -> MCParameter] : n \in 0 .. 2}

MCCells == [null : {TRUE}, number : {FALSE}, n : {0}]
             \cup [null : {FALSE}, number : {FALSE}, n : {0}]
             \cup [null : {FALSE}, number : {TRUE}, n : -20 .. 40]

\* From two days before the epoch to five after it.
MCInstants == {s * PerSecond + us : s \in -12 .. 30, us \in {0, 1, 10, 99}}

MCStandardOffset == 1
MCZeroDay == -1000
=============================================================================
