--------------------------- MODULE SqlParameters ---------------------------
(***************************************************************************)
(* MySQLImpl/MySQLConnector.cpp, execSqlInLoop: the marks of a statement   *)
(* are replaced by the texts of its parameters before it is sent.  A       *)
(* statement is a sequence of characters; a number is printed as one       *)
(* character, and so are the words NULL and default.                       *)
(*                                                                         *)
(* External: mysql_real_escape_string, and how the server reads strings.   *)
(***************************************************************************)
EXTENDS Naturals, Sequences, FiniteSets, FiniteSetsExt, SequencesExt

CONSTANT SqlCharacters   \* the characters of statements and parameters

Mark      == "?"
SqlQuote  == "'"
Escape    == "\\"

ASSUME SqlCharactersAssumption ==
  {SqlQuote, Escape, "NULL", "default"} \subseteq SqlCharacters

\* The formats of a parameter; "other" is one that the switch does not know.
Formats == {"MySqlLong", "MySqlString", "MySqlNull", "DrogonDefaultValue", "other"}

\* mysql_real_escape_string.
Escaped(v) ==
  FlattenSeq([i \in DOMAIN v |->
    IF v[i] \in {SqlQuote, Escape} THEN <<Escape, v[i]>> ELSE <<v[i]>>])

\* The switch over format[i]; the four widths of integers print alike.
ParameterText(p) ==
  CASE p.format = "MySqlLong"          -> p.value
    [] p.format = "MySqlString"        -> <<SqlQuote>> \o Escaped(p.value) \o <<SqlQuote>>
    [] p.format = "MySqlNull"          -> <<"NULL">>
    [] p.format = "DrogonDefaultValue" -> <<"default">>

Marks(sql, pos) == {j \in pos .. Len(sql) : sql[j] = Mark}

\* A parameter of a type that the switch does not know, at a mark, is
\* ABSL_LOG(FATAL).
Unrecognized(sql, parameters) ==
  \E i \in DOMAIN parameters : /\ i <= Cardinality(Marks(sql, 1))
                               /\ parameters[i].format = "other"

\* A mutant of PrepareSql: the search goes on in the text that was put in.
PrepareSqlAgain(sql, parameters) ==
  LET n == Len(parameters)
      From[i \in 1 .. n] ==
        LET before == IF i = 1 THEN sql ELSE From[i - 1]
            at == Min(Marks(before, 1))
        IN IF Marks(before, 1) = {} \/ parameters[i].format = "other" THEN before
           ELSE SubSeq(before, 1, at - 1) \o ParameterText(parameters[i])
                  \o SubSeq(before, at + 1, Len(before))
  IN IF n = 0 THEN sql ELSE From[n]

\* sql_, for the parameters i .. and the rest of sql from pos on.
PrepareSql(sql, parameters) ==
  LET n == Len(parameters)
      From[i \in 1 .. n + 1] ==
        [pos \in 1 .. Len(sql) + 1 |->
          IF i > n \/ Marks(sql, pos) = {}
            THEN SubSeq(sql, pos, Len(sql))
            ELSE LET seekPos == Min(Marks(sql, pos))
                 IN SubSeq(sql, pos, seekPos - 1) \o ParameterText(parameters[i])
                      \o From[i + 1][seekPos + 1]]
  IN From[1][1]

(***************************************************************************)
(* How the server reads a statement: symbols and strings.                  *)
(***************************************************************************)
\* Where the string that is open at position i ends, and what it holds.
ReadString(s, i) ==
  LET Next(j) == IF j < Len(s) THEN s[j + 1] ELSE "end"
      From[j \in 1 .. Len(s) + 2] ==
        IF j > Len(s) THEN [end |-> Len(s), value |-> <<"open">>]
        ELSE IF s[j] = SqlQuote /\ Next(j) # SqlQuote THEN [end |-> j, value |-> <<>>]
        ELSE IF s[j] \in {SqlQuote, Escape} /\ j < Len(s)
          THEN [From[j + 2] EXCEPT !.value = <<s[j + 1]>> \o @]
          ELSE [From[j + 1] EXCEPT !.value = <<s[j]>> \o @]
  IN From[i]

Tokens(s) ==
  LET From[i \in 1 .. Len(s) + 1] ==
        IF i > Len(s) THEN <<>>
        ELSE IF s[i] = SqlQuote
          THEN LET r == ReadString(s, i + 1)
               IN << <<"string", r.value>> >> \o From[r.end + 1]
          ELSE << <<"symbol", <<s[i]>> >> >> \o From[i + 1]
  IN From[1]

\* The one token that a parameter is meant to be.
ParameterToken(p) ==
  CASE p.format = "MySqlLong"          -> <<"symbol", p.value>>
    [] p.format = "MySqlString"        -> <<"string", p.value>>
    [] p.format = "MySqlNull"          -> <<"symbol", <<"NULL">> >>
    [] p.format = "DrogonDefaultValue" -> <<"symbol", <<"default">> >>
=============================================================================
