------------------------------- MODULE Result -------------------------------
(***************************************************************************)
(* db/Result, db/Row, their iterators, and MySQLImpl/MySQLResultImpl: what *)
(* a result callback does with a stored result.  Its user walks over rows  *)
(* and fields with forward and reverse iterators, in steps and jumps and   *)
(* turning round, and reads fields by position and by name.                *)
(*                                                                         *)
(* Indices count from 0 and are signed, as index_ and column_ are: a       *)
(* reverse iterator is a forward one moved back by one, so that rend() is  *)
(* at -1.  The user respects the rules of iterators: it stays between the  *)
(* two ends, reads nothing at the end, and copies the row an iterator      *)
(* refers to: operator* returns the iterator itself, so that a reference   *)
(* would move along with it.                                               *)
(***************************************************************************)
EXTENDS Integers, FiniteSetsExt

CONSTANTS
  Names,      \* the names of columns, as the server or the user writes them
  tolower,    \* their lower-case forms
  MaxRows,    \* bound: rows of a result
  MaxColumns  \* bound: its columns

ASSUME NamesAssumption ==
  tolower \in [Names -> Names] /\ \A n \in Names : tolower[tolower[n]] = tolower[n]

ASSUME SizesAssumption == MaxRows \in Nat /\ MaxColumns \in Nat

VARIABLES
  rowsNumber_, fieldsNumber_,
  fieldArray_,    \* the columns' names
  it,             \* an iterator over the rows: its kind and its index_
  itStep,         \* history: how far it is from its begin
  row_,           \* index_ of the row that was opened, or NoRow
  rowStep,        \* history: which row that was, counted from the front
  fit,            \* an iterator over the fields of row_, with its column_
  fitStep,        \* history: how far it is from its begin
  out,            \* what was read last, or None
  want            \* history: what should have been read

result == <<rowsNumber_, fieldsNumber_, fieldArray_>>
rowVars == <<it, itStep>>
fieldVars == <<row_, rowStep, fit, fitStep>>
vars == <<result, rowVars, fieldVars, out, want>>

None == <<>>
RangeError == <<"RangeError">>   \* what was thrown
NoRow == -2
NotFound == -2

\* The value of a field: it differs from that of every other field.
Cell(r, c) == <<r, c>>

(***************************************************************************)
(* Iterators, over rows and over fields alike.                             *)
(***************************************************************************)
Forward(i) == [reverse |-> FALSE, index |-> i]

\* A mutant of Reverse: the iterator is not moved back.
ReverseInPlace(f) == [reverse |-> TRUE, index |-> f.index]

\* The constructor of a reverse iterator from a forward one.
Reverse(f) == [reverse |-> TRUE, index |-> f.index - 1]

Base(r) == Forward(r.index + 1)

Begin(reverse, size) ==
  IF reverse THEN Reverse(Forward(size)) ELSE Forward(0)

End(reverse, size) ==
  IF reverse THEN Reverse(Forward(0)) ELSE Forward(size)

\* operator+= of an iterator; ++, -- and -= are it with 1, -1 and -n.
Plus(c, n) == [c EXCEPT !.index = IF c.reverse THEN @ - n ELSE @ + n]

\* operator< of two iterators of one kind.
Before(a, b) == IF a.reverse THEN a.index > b.index ELSE a.index < b.index

(***************************************************************************)
(* The stored result.                                                      *)
(***************************************************************************)
\* A null MYSQL_RES, of a statement that returns nothing, has no columns and no
\* rows.
Init ==
  /\ rowsNumber_ \in 0 .. MaxRows
  /\ fieldsNumber_ \in 0 .. MaxColumns
  /\ fieldsNumber_ = 0 => rowsNumber_ = 0
  /\ fieldArray_ \in [0 .. fieldsNumber_ - 1 -> Names]
  /\ it = Begin(FALSE, rowsNumber_) /\ itStep = 0
  /\ row_ = NoRow /\ rowStep = 0
  /\ fit = Begin(FALSE, 0) /\ fitStep = 0
  /\ out = None /\ want = None

\* The constructor's fieldsMapPtr_: a later column replaces an earlier one.
FieldsMap ==
  [n \in {tolower[fieldArray_[i]] : i \in DOMAIN fieldArray_} |->
     Max({i \in DOMAIN fieldArray_ : tolower[fieldArray_[i]] = n})]

\* A mutant of ColumnNumber: the name is looked up as it was written.
ColumnNumberAsWritten(name) ==
  IF fieldsNumber_ = 0 THEN -1
  ELSE IF name \in DOMAIN FieldsMap THEN FieldsMap[name]
  ELSE NotFound

ColumnNumber(name) ==
  IF fieldsNumber_ = 0 THEN -1
  ELSE IF tolower[name] \in DOMAIN FieldsMap THEN FieldsMap[tolower[name]]
  ELSE NotFound

GetValue(row, column) ==
  IF rowsNumber_ = 0 \/ fieldsNumber_ = 0 THEN <<"NULL">>
  ELSE IF row \in 0 .. rowsNumber_ - 1 /\ column \in 0 .. fieldsNumber_ - 1
  THEN Cell(row, column)
  ELSE <<"assert">>

(***************************************************************************)
(* The user.                                                               *)
(***************************************************************************)
Quiet == out' = None /\ want' = None

\* begin() and rbegin().
StartRows(reverse) ==
  /\ it' = Begin(reverse, rowsNumber_) /\ itStep' = 0
  /\ Quiet /\ UNCHANGED <<result, fieldVars>>

MoveRow(n) ==
  /\ itStep + n \in 0 .. rowsNumber_
  /\ it' = Plus(it, n) /\ itStep' = itStep + n
  /\ Quiet /\ UNCHANGED <<result, fieldVars>>

\* base(), or a reverse iterator made from a forward one: the same gap between
\* two rows, counted from the other end.
TurnRows ==
  /\ it' = IF it.reverse THEN Base(it) ELSE Reverse(it)
  /\ itStep' = rowsNumber_ - itStep
  /\ Quiet /\ UNCHANGED <<result, fieldVars>>

RowNumber == IF it.reverse THEN rowsNumber_ - 1 - itStep ELSE itStep

Open(row, number) ==
  /\ row_' = row /\ rowStep' = number
  /\ fit' = Begin(FALSE, fieldsNumber_) /\ fitStep' = 0
  /\ Quiet /\ UNCHANGED <<result, rowVars>>

\* operator* and operator-> of an iterator that is not at the end.
OpenRow ==
  /\ it # End(it.reverse, rowsNumber_)
  /\ Open(it.index, RowNumber)

\* Result::at and Result::operator[], front() and back() of a result with rows.
OpenRowAt(i) ==
  \/ /\ i < rowsNumber_
     /\ Open(i, i)
  \/ /\ i >= rowsNumber_
     /\ out' = RangeError /\ want' = RangeError
     /\ UNCHANGED <<result, rowVars, fieldVars>>

\* begin() and rbegin() of the row.
StartFields(reverse) ==
  /\ row_ # NoRow
  /\ fit' = Begin(reverse, fieldsNumber_) /\ fitStep' = 0
  /\ Quiet /\ UNCHANGED <<result, rowVars, row_, rowStep>>

MoveField(n) ==
  /\ row_ # NoRow
  /\ fitStep + n \in 0 .. fieldsNumber_
  /\ fit' = Plus(fit, n) /\ fitStep' = fitStep + n
  /\ Quiet /\ UNCHANGED <<result, rowVars, row_, rowStep>>

TurnFields ==
  /\ row_ # NoRow
  /\ fit' = IF fit.reverse THEN Base(fit) ELSE Reverse(fit)
  /\ fitStep' = fieldsNumber_ - fitStep
  /\ Quiet /\ UNCHANGED <<result, rowVars, row_, rowStep>>

FieldNumber == IF fit.reverse THEN fieldsNumber_ - 1 - fitStep ELSE fitStep

ReadField ==
  /\ row_ # NoRow
  /\ fit # End(fit.reverse, fieldsNumber_)
  /\ out' = GetValue(row_, fit.index)
  /\ want' = Cell(rowStep, FieldNumber)
  /\ UNCHANGED <<result, rowVars, fieldVars>>

\* Row::at with a position.
ReadFieldAt(i) ==
  /\ row_ # NoRow
  /\ out' = IF i >= fieldsNumber_ THEN RangeError ELSE GetValue(row_, i)
  /\ want' = IF i \in 0 .. fieldsNumber_ - 1 THEN Cell(rowStep, i) ELSE RangeError
  /\ UNCHANGED <<result, rowVars, fieldVars>>

\* Row::at and Row::operator[] with a name.
ReadFieldNamed(name) ==
  LET same == {c \in 0 .. fieldsNumber_ - 1 : tolower[fieldArray_[c]] = tolower[name]}
  IN /\ row_ # NoRow
     /\ out' = IF ColumnNumber(name) = NotFound THEN RangeError
               ELSE GetValue(row_, ColumnNumber(name))
     /\ want' = IF same = {} THEN RangeError ELSE Cell(rowStep, Max(same))
     /\ UNCHANGED <<result, rowVars, fieldVars>>

Next ==
  \/ \E reverse \in BOOLEAN : StartRows(reverse) \/ StartFields(reverse)
  \/ \E n \in -MaxRows .. MaxRows : MoveRow(n)
  \/ \E n \in -MaxColumns .. MaxColumns : MoveField(n)
  \/ TurnRows \/ TurnFields \/ OpenRow \/ ReadField
  \/ \E i \in 0 .. MaxRows : OpenRowAt(i)
  \/ \E i \in 0 .. MaxColumns : ReadFieldAt(i)
  \/ \E name \in Names : ReadFieldNamed(name)

Spec == Init /\ [][Next]_vars

(***************************************************************************)
(* Properties.                                                             *)
(***************************************************************************)
\* Whatever way an iterator got to a row and a field, forwards, backwards, in
\* jumps or turned round, it reads the field that lies so many steps from its
\* begin, and no assert of getValue fails; a name reads the last column that
\* has it in any case, and a position or a name that does not exist is a
\* RangeError (Row.cpp, Result.cpp, MySQLResultImpl.cpp:85-105).
ReadsTheField == out = want

\* An iterator is at its end exactly when it has passed every row, or every
\* field, and the order of iterators is that of their steps, in both directions:
\* a loop from begin() to end(), or from rbegin() to rend(), by != or by <, sees
\* everything once (ResultIterator.h:67-96, 166-194, RowIterator.h:65-93,
\* 159-187).
EndIsBehindTheLast ==
  LET InStep(c, step, size) ==
        LET end == End(c.reverse, size)
        IN /\ c = end <=> step = size
           /\ Before(c, end) <=> step < size
           /\ Before(Begin(c.reverse, size), c) <=> step > 0
  IN /\ InStep(it, itStep, rowsNumber_)
     /\ row_ # NoRow => InStep(fit, fitStep, fieldsNumber_)
=============================================================================
