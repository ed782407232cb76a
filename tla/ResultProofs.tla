---------------------------- MODULE ResultProofs ----------------------------
(***************************************************************************)
(* Proofs about Result, for results of any size and any column names.      *)
(*                                                                         *)
(* Neither property is inductive: what is read depends on where the        *)
(* iterators have come to.  The invariant Placed says that in terms of the *)
(* index an iterator holds, which for a reverse one runs from size - 1     *)
(* down to -1, and of the steps it has made.                               *)
(***************************************************************************)
EXTENDS Result, TLAPS, WellFoundedInduction

\* The index of an iterator that is so many steps from its begin.
Placed(c, step, size) ==
  /\ c \in [reverse : BOOLEAN, index : Int]
  /\ step \in 0 .. size
  /\ c.index = IF c.reverse THEN size - 1 - step ELSE step

\* What the constructor of the result stored.
Stored ==
  /\ rowsNumber_ \in Nat /\ fieldsNumber_ \in Nat
  /\ fieldsNumber_ = 0 => rowsNumber_ = 0
  /\ fieldArray_ \in [0 .. fieldsNumber_ - 1 -> Names]

\* The row that was opened is a row of the result, and the one that was meant.
Opened ==
  row_ # NoRow => /\ row_ = rowStep /\ row_ \in 0 .. rowsNumber_ - 1
                  /\ Placed(fit, fitStep, fieldsNumber_)

\* The inductive invariant.
ReadInv ==
  /\ Stored
  /\ Placed(it, itStep, rowsNumber_)
  /\ Opened
  /\ ReadsTheField

(***************************************************************************)
(* Iterators.                                                              *)
(***************************************************************************)
LEMMA BeginIsPlaced ==
  ASSUME NEW reverse \in BOOLEAN, NEW size \in Nat
  PROVE  Placed(Begin(reverse, size), 0, size)
BY DEF Placed, Begin, Forward, Reverse

\* ++, --, += and -= by any amount that stays between the two ends.
LEMMA PlusIsPlaced ==
  ASSUME NEW size \in Nat, NEW c, NEW step, Placed(c, step, size),
         NEW n \in Int, step + n \in 0 .. size
  PROVE  Placed(Plus(c, n), step + n, size)
BY DEF Placed, Plus

\* base() and the construction of a reverse iterator from a forward one.
LEMMA TurnedIsPlaced ==
  ASSUME NEW size \in Nat, NEW c, NEW step, Placed(c, step, size)
  PROVE  Placed(IF c.reverse THEN Base(c) ELSE Reverse(c), size - step, size)
<1>1. /\ c.reverse \in BOOLEAN /\ c.index \in Int
      /\ step \in Nat /\ step <= size
      /\ c.index = IF c.reverse THEN size - 1 - step ELSE step
  BY DEF Placed
<1>2. CASE c.reverse
  BY <1>1, <1>2 DEF Placed, Base, Forward
<1>3. CASE ~c.reverse
  BY <1>1, <1>3 DEF Placed, Reverse
<1> QED BY <1>2, <1>3

\* The end is the place behind the last, in both directions.
LEMMA EndIsLast ==
  ASSUME NEW size \in Nat, NEW c, NEW step, Placed(c, step, size)
  PROVE  /\ c = End(c.reverse, size) <=> step = size
         /\ Before(c, End(c.reverse, size)) <=> step < size
         /\ Before(Begin(c.reverse, size), c) <=> step > 0
<1>1. /\ c \in [reverse : BOOLEAN, index : Int]
      /\ step \in Nat /\ step <= size
      /\ c.index = IF c.reverse THEN size - 1 - step ELSE step
  BY DEF Placed
<1>2. PICK e : e = End(c.reverse, size)
  OBVIOUS
<1>3. /\ e \in [reverse : BOOLEAN, index : Int] /\ e.reverse = c.reverse
      /\ e.index = IF c.reverse THEN -1 ELSE size
  <2>1. CASE c.reverse
    BY <1>1, <1>2, <2>1 DEF End, Reverse, Forward
  <2>2. CASE ~c.reverse
    <3>1. c.reverse = FALSE
      BY <1>1, <2>2
    <3>2. e = [reverse |-> FALSE, index |-> size]
      BY <1>2, <2>2 DEF End, Forward
    <3>3. e \in [reverse : BOOLEAN, index : Int] /\ e.reverse = FALSE /\ e.index = size
      BY <3>2
    <3> QED BY <2>2, <3>1, <3>3, Zenon
  <2> QED BY <2>1, <2>2
<1>4. c = e <=> c.index = e.index
  BY <1>1, <1>3
<1>5. PICK b : b = Begin(c.reverse, size)
  OBVIOUS
<1>6. /\ b.reverse = c.reverse
      /\ b.index = IF c.reverse THEN size - 1 ELSE 0
  BY <1>1, <1>5 DEF Begin, Reverse, Forward
<1>7. c = e <=> step = size
  BY <1>1, <1>3, <1>4
<1>8. Before(c, e) <=> step < size
  BY <1>1, <1>3 DEF Before
<1>9. Before(b, c) <=> step > 0
  BY <1>1, <1>6 DEF Before
<1> QED BY <1>2, <1>5, <1>7, <1>8, <1>9

\* A nonempty set of column numbers has a greatest one.
LEMMA MaxOfColumns ==
  ASSUME NEW n \in Nat, NEW S, S \subseteq 0 .. n - 1, S # {}
  PROVE  Max(S) \in S
<1>1. PICK T : T = {k \in Nat : n - k \in S}
  OBVIOUS
<1>2. T \subseteq Nat /\ T # {}
  <2>1. PICK x \in S : x \in 0 .. n - 1
    OBVIOUS
  <2>2. n - x \in Nat /\ n - (n - x) = x
    BY <2>1
  <2> QED BY <1>1, <2>1, <2>2
<1>3. PICK k \in T : \A j \in T : <<j, k>> \notin OpToRel(<, Nat)
  BY <1>2, NatLessThanWellFounded, WFMin, Zenon
<1>4. \A j \in T : k <= j
  <2> SUFFICES ASSUME NEW j \in T, ~(k <= j) PROVE FALSE
    OBVIOUS
  <2>1. j \in Nat /\ k \in Nat
    BY <1>2
  <2>2. j < k
    BY <2>1
  <2>3. <<j, k>> \in OpToRel(<, Nat)
    BY <2>1, <2>2 DEF OpToRel
  <2> QED BY <1>3, <2>3
<1>5. n - k \in S
  BY <1>1
<1>6. \A y \in S : n - k >= y
  <2> SUFFICES ASSUME NEW y \in S PROVE n - k >= y
    OBVIOUS
  <2>1. y \in 0 .. n - 1
    OBVIOUS
  <2>2. n - y \in Nat /\ n - (n - y) = y
    BY <2>1
  <2>3. n - y \in T
    BY <1>1, <2>2
  <2> QED BY <1>2, <1>4, <2>1, <2>3
<1> QED BY <1>5, <1>6 DEF Max

(***************************************************************************)
(* The steps.                                                              *)
(***************************************************************************)
LEMMA InitRead == Init => ReadInv
<1> SUFFICES ASSUME Init PROVE ReadInv
  OBVIOUS
<1>1. Stored
  BY SizesAssumption DEF Init, Stored
<1>2. Placed(it, itStep, rowsNumber_)
  BY <1>1, BeginIsPlaced DEF Init, Stored
<1> QED BY <1>1, <1>2 DEF Init, ReadInv, Opened, ReadsTheField

\* A step of a row iterator.
LEMMA RowStepRead ==
  ASSUME ReadInv, Placed(it, itStep, rowsNumber_)', Quiet,
         UNCHANGED <<result, fieldVars>>
  PROVE  ReadInv'
BY DEF ReadInv, Stored, Opened, ReadsTheField, Quiet, result, fieldVars, Placed

\* A step that opens a row or moves the iterator over its fields.
LEMMA FieldStepRead ==
  ASSUME ReadInv, Quiet, UNCHANGED <<result, rowVars>>,
         row_' = rowStep', row_' \in 0 .. rowsNumber_ - 1,
         Placed(fit, fitStep, fieldsNumber_)'
  PROVE  ReadInv'
BY DEF ReadInv, Stored, Opened, ReadsTheField, Quiet, result, rowVars, Placed

\* A step that reads.
LEMMA ReadStepRead ==
  ASSUME ReadInv, out' = want', UNCHANGED <<result, rowVars, fieldVars>>
  PROVE  ReadInv'
BY DEF ReadInv, Stored, Opened, ReadsTheField, result, rowVars, fieldVars, Placed

\* The row and the columns that may be read are there: no assert fails.
LEMMA ValueOfCell ==
  ASSUME ReadInv, row_ # NoRow, NEW c \in 0 .. fieldsNumber_ - 1
  PROVE  GetValue(row_, c) = Cell(rowStep, c)
<1>1. row_ = rowStep /\ row_ \in 0 .. rowsNumber_ - 1
  BY DEF ReadInv, Opened
<1>2. rowsNumber_ \in Nat /\ fieldsNumber_ \in Nat
  BY DEF ReadInv, Stored
<1>3. rowsNumber_ # 0 /\ fieldsNumber_ # 0
  BY <1>1, <1>2
<1> QED BY <1>1, <1>3 DEF GetValue

\* A row is opened with an iterator at its first field.
LEMMA OpenRead ==
  ASSUME ReadInv, NEW i, i \in 0 .. rowsNumber_ - 1, Open(i, i)
  PROVE  ReadInv'
<1>1. /\ row_' = i /\ rowStep' = i
      /\ fit' = Begin(FALSE, fieldsNumber_) /\ fitStep' = 0
      /\ Quiet /\ UNCHANGED <<result, rowVars>>
  BY DEF Open
<1>2. fieldsNumber_ \in Nat /\ fieldsNumber_' = fieldsNumber_
  BY <1>1 DEF ReadInv, Stored, result
<1>3. Placed(fit', fitStep', fieldsNumber_')
  BY <1>1, <1>2, BeginIsPlaced
<1> QED BY <1>1, <1>3, FieldStepRead DEF Placed

\* at() and operator[] with a name find the last column of that name.
LEMMA NamedRead ==
  ASSUME ReadInv, NEW name \in Names, ReadFieldNamed(name)
  PROVE  ReadInv'
<1>1. PICK same : same = {c \in 0 .. fieldsNumber_ - 1 : tolower[fieldArray_[c]] = tolower[name]}
  OBVIOUS
<1>2. /\ row_ # NoRow
      /\ out' = IF ColumnNumber(name) = NotFound THEN RangeError
                ELSE GetValue(row_, ColumnNumber(name))
      /\ want' = IF same = {} THEN RangeError ELSE Cell(rowStep, Max(same))
      /\ UNCHANGED <<result, rowVars, fieldVars>>
  BY <1>1 DEF ReadFieldNamed
<1>3. fieldsNumber_ \in Nat /\ DOMAIN fieldArray_ = 0 .. fieldsNumber_ - 1
  BY DEF ReadInv, Stored
<1>4. fieldsNumber_ # 0
  BY <1>2 DEF ReadInv, Stored, Opened
<1>5. CASE same = {}
  <2>1. tolower[name] \notin DOMAIN FieldsMap
    BY <1>1, <1>3, <1>5, Zenon DEF FieldsMap
  <2>2. ColumnNumber(name) = NotFound
    BY <1>4, <2>1 DEF ColumnNumber
  <2>3. out' = want'
    BY <1>2, <1>5, <2>2
  <2> QED BY <1>2, <2>3, ReadStepRead
<1>6. CASE same # {}
  <2>1. tolower[name] \in {tolower[fieldArray_[i]] : i \in DOMAIN fieldArray_}
    BY <1>1, <1>3, <1>6, Zenon
  <2>2. {i \in DOMAIN fieldArray_ : tolower[fieldArray_[i]] = tolower[name]} = same
    BY <1>1, <1>3, Zenon
  <2>3. tolower[name] \in DOMAIN FieldsMap /\ FieldsMap[tolower[name]] = Max(same)
    BY <2>1, <2>2, Zenon DEF FieldsMap
  <2>4. ColumnNumber(name) = Max(same)
    BY <1>4, <2>3 DEF ColumnNumber
  <2>5. Max(same) \in 0 .. fieldsNumber_ - 1
    BY <1>1, <1>3, <1>6, MaxOfColumns
  <2>6. GetValue(row_, Max(same)) = Cell(rowStep, Max(same))
    BY <1>2, <2>5, ValueOfCell
  <2>7. Max(same) # NotFound
    BY <1>3, <2>5 DEF NotFound
  <2>8. out' = want'
    BY <1>2, <1>6, <2>4, <2>6, <2>7
  <2> QED BY <1>2, <2>8, ReadStepRead
<1> QED BY <1>5, <1>6

\* Every step of the user.
LEMMA StepRead == ReadInv /\ [Next]_vars => ReadInv'
<1> SUFFICES ASSUME ReadInv, [Next]_vars PROVE ReadInv'
  OBVIOUS
<1>1. /\ rowsNumber_ \in Nat /\ fieldsNumber_ \in Nat
      /\ Placed(it, itStep, rowsNumber_)
      /\ row_ # NoRow => /\ row_ = rowStep /\ row_ \in 0 .. rowsNumber_ - 1
                         /\ Placed(fit, fitStep, fieldsNumber_)
  BY DEF ReadInv, Stored, Opened
<1>2. UNCHANGED result => UNCHANGED <<rowsNumber_, fieldsNumber_>>
  BY DEF result
<1>3. ASSUME NEW reverse \in BOOLEAN, StartRows(reverse) PROVE ReadInv'
  <2>1. Placed(it', itStep', rowsNumber_')
    BY <1>1, <1>2, <1>3, BeginIsPlaced DEF StartRows
  <2> QED BY <1>3, <2>1, RowStepRead DEF StartRows, Placed
<1>4. ASSUME NEW n \in Int, MoveRow(n) PROVE ReadInv'
  <2>1. Placed(it', itStep', rowsNumber_')
    BY <1>1, <1>2, <1>4, PlusIsPlaced DEF MoveRow
  <2> QED BY <1>4, <2>1, RowStepRead DEF MoveRow, Placed
<1>5. CASE TurnRows
  <2>1. Placed(it', itStep', rowsNumber_')
    BY <1>1, <1>2, <1>5, TurnedIsPlaced DEF TurnRows
  <2> QED BY <1>5, <2>1, RowStepRead DEF TurnRows, Placed
<1>6. CASE OpenRow
  <2>1. it # End(it.reverse, rowsNumber_) /\ Open(it.index, RowNumber)
    BY <1>6 DEF OpenRow
  <2>2. itStep # rowsNumber_
    BY <1>1, <2>1, EndIsLast
  <2>3. RowNumber = it.index /\ it.index \in 0 .. rowsNumber_ - 1
    BY <1>1, <2>2 DEF RowNumber, Placed
  <2> QED BY <2>1, <2>3, OpenRead
<1>7. ASSUME NEW i \in Nat, OpenRowAt(i) PROVE ReadInv'
  <2>1. CASE i < rowsNumber_ /\ Open(i, i)
    <3>1. i \in 0 .. rowsNumber_ - 1
      BY <1>1, <2>1
    <3> QED BY <2>1, <3>1, OpenRead
  <2>2. CASE out' = RangeError /\ want' = RangeError /\ UNCHANGED <<result, rowVars, fieldVars>>
    BY <2>2, ReadStepRead
  <2> QED BY <1>7, <2>1, <2>2 DEF OpenRowAt
<1>8. ASSUME NEW reverse \in BOOLEAN, StartFields(reverse) PROVE ReadInv'
  <2>1. Placed(fit', fitStep', fieldsNumber_')
    BY <1>1, <1>2, <1>8, BeginIsPlaced DEF StartFields
  <2> QED BY <1>1, <1>8, <2>1, FieldStepRead DEF StartFields, Placed
<1>9. ASSUME NEW n \in Int, MoveField(n) PROVE ReadInv'
  <2>1. Placed(fit', fitStep', fieldsNumber_')
    BY <1>1, <1>2, <1>9, PlusIsPlaced DEF MoveField
  <2> QED BY <1>1, <1>9, <2>1, FieldStepRead DEF MoveField, Placed
<1>10. CASE TurnFields
  <2>1. Placed(fit', fitStep', fieldsNumber_')
    BY <1>1, <1>2, <1>10, TurnedIsPlaced DEF TurnFields
  <2> QED BY <1>1, <1>10, <2>1, FieldStepRead DEF TurnFields, Placed
<1>11. CASE ReadField
  <2>1. /\ row_ # NoRow /\ fit # End(fit.reverse, fieldsNumber_)
        /\ out' = GetValue(row_, fit.index) /\ want' = Cell(rowStep, FieldNumber)
        /\ UNCHANGED <<result, rowVars, fieldVars>>
    BY <1>11 DEF ReadField
  <2>2. fitStep # fieldsNumber_
    BY <1>1, <2>1, EndIsLast
  <2>3. FieldNumber = fit.index /\ fit.index \in 0 .. fieldsNumber_ - 1
    BY <1>1, <2>1, <2>2 DEF FieldNumber, Placed
  <2>4. out' = want'
    BY <2>1, <2>3, ValueOfCell
  <2> QED BY <2>1, <2>4, ReadStepRead
<1>12. ASSUME NEW i \in Nat, ReadFieldAt(i) PROVE ReadInv'
  <2>1. /\ row_ # NoRow
        /\ out' = IF i >= fieldsNumber_ THEN RangeError ELSE GetValue(row_, i)
        /\ want' = IF i \in 0 .. fieldsNumber_ - 1 THEN Cell(rowStep, i) ELSE RangeError
        /\ UNCHANGED <<result, rowVars, fieldVars>>
    BY <1>12 DEF ReadFieldAt
  <2>2. i \in 0 .. fieldsNumber_ - 1 <=> ~(i >= fieldsNumber_)
    BY <1>1
  <2>3. i \in 0 .. fieldsNumber_ - 1 => GetValue(row_, i) = Cell(rowStep, i)
    BY <2>1, ValueOfCell
  <2>4. out' = want'
    BY <2>1, <2>2, <2>3
  <2> QED BY <2>1, <2>4, ReadStepRead
<1>13. CASE UNCHANGED vars
  BY <1>13, ReadStepRead DEF vars, ReadInv, ReadsTheField
<1>14. -MaxRows .. MaxRows \subseteq Int /\ -MaxColumns .. MaxColumns \subseteq Int
  BY SizesAssumption
<1>15. 0 .. MaxRows \subseteq Nat /\ 0 .. MaxColumns \subseteq Nat
  BY SizesAssumption
<1> QED
  BY <1>3, <1>4, <1>5, <1>6, <1>7, <1>8, <1>9, <1>10, <1>11, <1>12, <1>13, <1>14,
     <1>15, NamedRead
  DEF Next

\* The invariant holds always.
LEMMA AlwaysRead == Spec => []ReadInv
BY InitRead, StepRead, PTL DEF Spec

\* Row and field iterators read the field that lies as many steps from their begin
\* as they were moved, forwards or backwards, in results of any size; names read the
\* last column of the name; and no assert of getValue fails.
THEOREM ReadsAreRight == Spec => []ReadsTheField
<1>1. ReadInv => ReadsTheField
  BY DEF ReadInv
<1> QED BY <1>1, AlwaysRead, PTL

\* Loops from begin() to end() and from rbegin() to rend(), by != or by <, see
\* every row and every field once.
THEOREM LoopsSeeEverything == Spec => []EndIsBehindTheLast
<1>1. ReadInv => EndIsBehindTheLast
  <2> SUFFICES ASSUME ReadInv PROVE EndIsBehindTheLast
    OBVIOUS
  <2>1. /\ rowsNumber_ \in Nat /\ fieldsNumber_ \in Nat
        /\ Placed(it, itStep, rowsNumber_)
        /\ row_ # NoRow => Placed(fit, fitStep, fieldsNumber_)
    BY DEF ReadInv, Stored, Opened
  <2> QED BY <2>1, EndIsLast, Zenon DEF EndIsBehindTheLast
<1> QED BY <1>1, AlwaysRead, PTL
=============================================================================
