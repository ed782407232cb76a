--------------------------- MODULE MCArrayParser ---------------------------
(* ArrayParser with the values of the ArrayParser*.cfg files.               *)
EXTENDS ArrayParser

MCAlphabet == {"a", Null, SQuote, DQuote, BSlash, ",", "{", "}"}

\* The empty string, a letter, NULL as a string, and each character that means
\* something to the scanner, alone and after or before others.
MCValues ==
  {<<>>, <<"a">>, <<Null>>, <<SQuote>>, <<DQuote>>, <<",">>, <<"}">>,
   <<SQuote, SQuote>>, <<"a", SQuote>>, <<SQuote, ",">>, <<Null, "a">>}

\* Rows of up to two strings, up to two rows of up to one, and a row of a row of
\* a row.
MCShapes == {<<2>>, <<1, 2>>, <<1, 1, 1>>}
============================================================================
