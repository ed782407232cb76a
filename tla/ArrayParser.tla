---------------------------- MODULE ArrayParser ----------------------------
(***************************************************************************)
(* db/ArrayParser.cpp: the scanner of the text of an SQL array, called by  *)
(* Field::asArray until it answers done.  A text is a sequence of          *)
(* characters with a NUL after the last one; Null stands for the four      *)
(* letters of NULL, which the scanner compares as a whole.                 *)
(*                                                                         *)
(* The text comes from the server: it is either the spelling of an array,  *)
(* and `expected' is what the parser has to find in it, or any other text. *)
(***************************************************************************)
EXTENDS Naturals, Sequences, SequencesExt

CONSTANTS
  Alphabet,   \* the characters of the texts
  MaxText,    \* bound: length of a text that spells no array
  Values,     \* the strings of the arrays
  Shapes      \* the shapes of the arrays, see ShapedArrays

SQuote    == "'"
DQuote    == "\""
BSlash    == "\\"
Comma     == ","
Semicolon == ";"
LBrace    == "{"
RBrace    == "}"
Null      == "N"
NUL       == "0"
Special   == {SQuote, DQuote, BSlash, Comma, Semicolon, LBrace, RBrace}

ASSUME AlphabetAssumption == NUL \notin Alphabet /\ MaxText \in Nat

ASSUME ValuesAssumption == \A v \in Values : v \in Seq(Alphabet)

ASSUME ShapesAssumption == \A shape \in Shapes : shape \in Seq(Nat) /\ shape # <<>>

VARIABLES
  input,      \* the text
  isNull,     \* the field is NULL: the parser is given a null pointer
  pos_,       \* index into input; Len(input) + 1 is the terminating NUL
  found,      \* what getNext has returned so far
  ended,      \* "no", "done", "thrown", "assert" or "overrun"
  expected    \* the tokens of the array that input spells

parserVars == <<input, isNull, pos_, found, ended, expected>>

NoArray == <<"none">>

Token(juncture, value) == <<juncture, value>>

(***************************************************************************)
(* The texts.                                                              *)
(***************************************************************************)
Doubled(v) == FlattenSeq([i \in DOMAIN v |->
                            IF v[i] = SQuote THEN <<SQuote, SQuote>> ELSE <<v[i]>>])

\* The ways to spell a string that need no backslash.
Spellings(v) ==
  (IF BSlash \in Range(v) THEN {} ELSE {<<SQuote>> \o Doubled(v) \o <<SQuote>>})
    \cup
  (IF {DQuote, BSlash} \cap Range(v) # {} THEN {}
                                      ELSE {<<DQuote>> \o v \o <<DQuote>>})
    \cup
  (IF v \in {<<>>, <<Null>>} \/ Range(v) \cap Special # {} THEN {} ELSE {v})

Leaves ==
  {[text |-> <<Null>>, tokens |-> <<Token("null_value", <<>>)>>]}
    \cup
  UNION {{[text |-> t, tokens |-> <<Token("string_value", v)>>] :
            t \in Spellings(v)} : v \in Values}

Braced(es) ==
  [text   |-> <<LBrace>>
               \o FlattenSeq([i \in DOMAIN es |->
                    IF i = 1 THEN es[i].text ELSE <<Comma>> \o es[i].text])
               \o <<RBrace>>,
   tokens |-> <<Token("row_start", <<>>)>>
               \o FlattenSeq([i \in DOMAIN es |-> es[i].tokens])
               \o <<Token("row_end", <<>>)>>]

\* The arrays of a shape: its first number bounds the length of the innermost
\* rows, its last that of the whole array.
ShapedArrays(shape) ==
  LET level[d \in 0 .. Len(shape)] ==
        IF d = 0 THEN Leaves
        ELSE {Braced(es) : es \in BoundedSeq(level[d - 1], shape[d])}
  IN level[Len(shape)]

Arrays == UNION {ShapedArrays(shape) : shape \in Shapes}

ParserInit ==
  /\ \/ /\ isNull = FALSE
        /\ input \in BoundedSeq(Alphabet, MaxText)
        /\ expected = NoArray
     \/ /\ isNull = FALSE
        /\ \E a \in Arrays :
             /\ input = a.text
             /\ expected = Append(a.tokens, Token("done", <<>>))
     \/ /\ isNull = TRUE
        /\ input = <<>>
        /\ expected = <<Token("done", <<>>)>>
  /\ pos_ = 1 /\ found = <<>> /\ ended = "no"

(***************************************************************************)
(* The scanner.  A scan returns the index after the string, ScanThrown     *)
(* where it throws ArgumentError, or Overrun where it passes the NUL.      *)
(***************************************************************************)
ScanThrown    == 0
Overrun(text) == Len(text) + 2
At(text, i)   == IF i <= Len(text) THEN text[i] ELSE NUL

\* A mutant of ScanSingleQuoted: it answers the index of the closing quote.
ScanSingleQuotedShort(text, begin) ==
  LET scan[here \in 1 .. Len(text) + 1] ==
        CASE At(text, here) = NUL -> ScanThrown
          [] At(text, here) = SQuote ->
               IF At(text, here + 1) # SQuote THEN here ELSE scan[here + 2]
          [] At(text, here) = BSlash ->
               IF At(text, here + 1) = NUL THEN ScanThrown ELSE scan[here + 2]
          [] OTHER -> scan[here + 1]
  IN scan[begin + 1]

ScanSingleQuoted(text, begin) ==
  LET scan[here \in 1 .. Len(text) + 1] ==
        CASE At(text, here) = NUL -> ScanThrown
          [] At(text, here) = SQuote ->
               IF At(text, here + 1) # SQuote THEN here + 1 ELSE scan[here + 2]
          [] At(text, here) = BSlash ->
               IF At(text, here + 1) = NUL THEN ScanThrown ELSE scan[here + 2]
          [] OTHER -> scan[here + 1]
  IN scan[begin + 1]

ScanDoubleQuoted(text, begin) ==
  LET scan[here \in 1 .. Len(text) + 1] ==
        CASE At(text, here) = NUL -> ScanThrown
          [] At(text, here) = DQuote -> here + 1
          [] At(text, here) = BSlash ->
               IF At(text, here + 1) = NUL THEN ScanThrown ELSE scan[here + 2]
          [] OTHER -> scan[here + 1]
  IN scan[begin + 1]

\* The NUL is not among the characters that end an unquoted string.
ScanUnquoted(text, begin) ==
  LET stops == {p \in begin .. Len(text) : At(text, p) \in {Comma, Semicolon, RBrace}}
  IN IF stops = {} THEN Overrun(text)
                   ELSE CHOOSE p \in stops : \A q \in stops : p <= q

\* A mutant of ParseQuoted: no escape is skipped.
ParseQuotedRaw(text, begin, end, escapes) == SubSeq(text, begin + 1, end - 2)

\* Both parse_..._quoted_string: after an escape the next character is skipped,
\* and the escape itself is kept.
ParseQuoted(text, begin, end, escapes) ==
  LET parse[here \in 1 .. end] ==
        IF here >= end - 1 THEN <<>>
        ELSE <<At(text, here)>>
               \o parse[IF At(text, here) \in escapes THEN here + 2 ELSE here + 1]
  IN parse[begin + 1]

\* The asserts of parse_..._quoted_string.
AssertsHold(text, begin, end, quote) ==
  begin + 1 < end /\ At(text, begin) = quote /\ At(text, end - 1) = quote

(***************************************************************************)
(* getNext and asArray's loop around it.                                   *)
(***************************************************************************)
\* A mutant of Advance: a separator is left for the next call.
AdvanceNotOver(text, end) == end

\* The end of what was found, past one separator.
Advance(text, end) == IF At(text, end) \in {Comma, Semicolon} THEN end + 1 ELSE end

Fail(how) == ended' = how /\ UNCHANGED <<pos_, found>>

Return(juncture, value, end) ==
  /\ found' = Append(found, Token(juncture, value))
  /\ pos_' = Advance(input, end)
  /\ ended' = IF juncture = "done" THEN "done" ELSE "no"

QuotedValue(end, quote, escapes) ==
  IF end = ScanThrown THEN Fail("thrown")
  ELSE IF ~AssertsHold(input, pos_, end, quote) THEN Fail("assert")
  ELSE Return("string_value", ParseQuoted(input, pos_, end, escapes), end)

GetNext ==
  LET c == At(input, pos_)
  IN \/ /\ isNull \/ c = NUL
        /\ Return("done", <<>>, pos_)
     \/ /\ ~isNull /\ c = LBrace
        /\ Return("row_start", <<>>, pos_ + 1)
     \/ /\ ~isNull /\ c = RBrace
        /\ Return("row_end", <<>>, pos_ + 1)
     \/ /\ ~isNull /\ c = SQuote
        /\ QuotedValue(ScanSingleQuoted(input, pos_), SQuote, {SQuote, BSlash})
     \/ /\ ~isNull /\ c = DQuote
        /\ QuotedValue(ScanDoubleQuoted(input, pos_), DQuote, {BSlash})
     \/ /\ ~isNull /\ c \notin {NUL, LBrace, RBrace, SQuote, DQuote}
        /\ LET end   == ScanUnquoted(input, pos_)
               value == SubSeq(input, pos_, end - 1)
           IN IF end = Overrun(input) THEN Fail("overrun")
              ELSE IF value = <<Null>> THEN Return("null_value", <<>>, end)
              ELSE Return("string_value", value, end)

AsArray ==
  /\ ended = "no"
  /\ GetNext
  /\ UNCHANGED <<input, isNull, expected>>

ParserNext == AsArray

ParserSpec == ParserInit /\ [][ParserNext]_parserVars

(***************************************************************************)
(* Properties.                                                             *)
(***************************************************************************)
\* The parser finds in the spelling of an array that array: its rows, its NULLs
\* and its strings, whatever separators, braces, quotes or NULLs the strings
\* are made of (ArrayParser.cpp:161-222).
FindsTheArray ==
  expected # NoArray => /\ IsPrefix(found, expected)
                        /\ ended \in {"no", "done"}
                        /\ ended = "done" => found = expected

\* Whatever the text, a scan that returns has found a whole quoted string, so
\* that the asserts at ArrayParser.cpp:59-61 and 111-113 hold, pos_ stays in
\* front of the NUL or on it, and a scan passes the NUL only in a text that does
\* not end with a brace, as every array does (ArrayParser.cpp:141).
ScansEndInTheText == /\ ended # "assert"
                     /\ pos_ \in 1 .. Len(input) + 1
                     /\ ended = "overrun" => Last(input) # RBrace

\* Whatever the text, a call of getNext that does not answer done moves on, so
\* that asArray's loop ends (Field.h:111-129).
GetNextMovesOn == [][ended' = "no" => pos_' > pos_]_parserVars

\* ArrayParser.cpp:53, 105: a quoted string is un-quoted and un-escaped, that is,
\* a character after a backslash is in the value and the backslash is not.
EscapedIsKept ==
  \A c \in Alphabet \ {Null} :
    (input = <<DQuote, BSlash, c, DQuote>> /\ found # <<>>) =>
      found[1] = Token("string_value", <<c>>)
============================================================================
