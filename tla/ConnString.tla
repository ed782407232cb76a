----------------------------- MODULE ConnString -----------------------------
(***************************************************************************)
(* db/DbConnection.cpp, parseConnString: a text of key=value pairs, taken  *)
(* apart by a regular expression                                           *)
(*                                                                         *)
(*    (\w+) *= *('(?:[^\n]|\\[^\n])+'|(?:\S|\\\S)+)                        *)
(*                                                                         *)
(* and the options that MySQLConnector's constructor makes of the pairs.   *)
(* A text is a sequence of characters.  What the expression matches from a *)
(* position is written down as its greedy repetitions find it: the quoted  *)
(* form runs to the last quote of the line that has a character before it, *)
(* the other form to the next white space.                                 *)
(***************************************************************************)
EXTENDS Naturals, Sequences, FiniteSets, FiniteSetsExt, SequencesExt

CONSTANTS
  Word,           \* the characters of \w
  tolower,        \* the lower case of each
  ConnCharacters  \* the characters of values

Blank     == " "
Newline   == "\n"
Quote     == "'"
Backslash == "\\"
Equals    == "="

\* \w has none of the characters that mean something, and a value is on one line,
\* as [^\n] of the expression has it.
ASSUME ConnCharactersAssumption ==
  /\ Word \cap {Blank, Newline, Quote, Backslash, Equals} = {}
  /\ Newline \notin ConnCharacters

\* The last position of the run of characters from i on that are in `chars', and
\* of the run of characters that are not in `stop'.
RunEnd(s, i, chars) ==
  Max({i - 1} \cup {j \in i .. Len(s) : \A k \in i .. j : s[k] \in chars})
RunUntil(s, i, stop) ==
  Max({i - 1} \cup {j \in i .. Len(s) : \A k \in i .. j : s[k] \notin stop})

\* The end of the value that begins at v; before v when there is none.
ValueEnd(s, v) ==
  LET closing == {j \in v + 2 .. RunUntil(s, v + 1, {Newline}) : s[j] = Quote}
  IN IF v <= Len(s) /\ s[v] = Quote /\ closing # {}
       THEN Max(closing)
       ELSE RunUntil(s, v, {Blank, Newline})

\* The match that begins at p: the last characters of the key and of the value,
\* and the first of the value.
MatchAt(s, p) ==
  LET key   == RunEnd(s, p, Word)
      equal == RunEnd(s, key + 1, {Blank}) + 1
      value == RunEnd(s, equal + 1, {Blank}) + 1
  IN [key |-> key, equal |-> equal, value |-> value, end |-> ValueEnd(s, value)]

Matches(s, p) ==
  LET m == MatchAt(s, p)
  IN /\ s[p] \in Word
     /\ m.equal <= Len(s) /\ s[m.equal] = Equals
     /\ m.value <= Len(s) /\ m.end >= m.value

\* A mutant of Unescape: only the quotes are dropped.
UnescapeQuotes(raw) ==
  LET quoted == raw[1] = Quote /\ raw[Len(raw)] = Quote
  IN IF quoted THEN SubSeq(raw, 2, Len(raw) - 1) ELSE raw

\* The loop that drops the quotes and the backslashes.
Unescape(raw) ==
  LET quoted == raw[1] = Quote /\ raw[Len(raw)] = Quote
      last   == Len(raw)
      From[i \in 1 .. last + 2] ==
        IF i > last THEN <<>>
        ELSE IF quoted /\ i \in {1, last} THEN From[i + 1]
        ELSE IF raw[i] = Backslash /\ i # last
               THEN <<raw[i + 1]>> \o From[i + 2]
               ELSE <<raw[i]>> \o From[i + 1]
  IN From[1]

\* The pairs in the order in which regex_search finds them, each search going
\* on behind the one before.
Pairs(s) ==
  LET From[i \in 1 .. Len(s) + 1] ==
        LET starts == {p \in i .. Len(s) : Matches(s, p)}
            p == Min(starts)
            m == MatchAt(s, p)
        IN IF starts = {} THEN <<>>
           ELSE << <<SubSeq(s, p, m.key), Unescape(SubSeq(s, m.value, m.end))>> >>
                  \o From[m.end + 1]
  IN From[1]

\* params[key] = value: the last pair of a key stays.
ParseConnString(s) ==
  LET pairs == Pairs(s)
      keys  == {pairs[i][1] : i \in DOMAIN pairs}
  IN [k \in keys |-> pairs[Max({i \in DOMAIN pairs : pairs[i][1] = k})][2]]

LowerCase(key) == [i \in DOMAIN key |-> tolower[key[i]]]

\* The constructor's walk over the map.  Keys that only differ in case meet in
\* one option, and the one that std::map keeps behind the other stays: capitals
\* come first, so it is the one with a lower case letter at the first difference.
Behind(k, l) ==
  \E i \in DOMAIN k \cap DOMAIN l :
     /\ k[i] # l[i] /\ k[i] = tolower[k[i]]
     /\ \A j \in 1 .. i - 1 : k[j] = l[j]

Options(params) ==
  LET spellings(o) == {k \in DOMAIN params : LowerCase(k) = o}
      stays(o) == CHOOSE k \in spellings(o) : \A l \in spellings(o) \ {k} : Behind(k, l)
  IN [o \in {LowerCase(k) : k \in DOMAIN params} |-> params[stays(o)]]

(***************************************************************************)
(* How a list of parameters is spelled.                                    *)
(***************************************************************************)
EscapeValue(v) ==
  FlattenSeq([i \in DOMAIN v |->
    IF v[i] \in {Quote, Backslash} THEN <<Backslash, v[i]>> ELSE <<v[i]>>])

\* How: "plain", "spaced" (blanks around the equals sign) or "quoted".
Spelling(key, value, how) ==
  CASE how = "plain"  -> key \o <<Equals>> \o EscapeValue(value)
    [] how = "spaced" -> key \o <<Blank, Equals, Blank>> \o EscapeValue(value)
    [] how = "quoted" -> key \o <<Equals, Quote>> \o EscapeValue(value) \o <<Quote>>

Spellable(value, how) ==
  how # "quoted" => value # <<>> /\ Blank \notin ToSet(value)
=============================================================================
