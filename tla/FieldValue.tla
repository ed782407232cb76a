----------------------------- MODULE FieldValue -----------------------------
(***************************************************************************)
(* db/Field.h, as<T>(): the text of a cell read as an integer.  A cell is  *)
(* NULL, a text that begins with no number, or the decimal text of a       *)
(* number, which the server may have sent wider than T.  The widths of the *)
(* types are scaled; what differs between them is the function that reads  *)
(* the text and the cast behind it.                                        *)
(*                                                                         *)
(* External: stoi, stol, stoul, stoull, atoi and atoll of the libraries.   *)
(***************************************************************************)
EXTENDS Integers

CONSTANTS ByteBits, IntBits, LongBits

\* An int is wider than a byte, and a long at least as wide as an int; given as
\* the ranges they have.
ASSUME WidthsAssumption ==
  /\ \A bits \in {ByteBits, IntBits, LongBits} :
        2^(bits - 1) \in Nat \ {0} /\ 2^bits = 2 * 2^(bits - 1)
  /\ 2^ByteBits <= 2^(IntBits - 1)
  /\ 2^IntBits <= 2^LongBits

Types == {"int8_t", "uint8_t", "short", "int", "unsigned int", "long", "unsigned long",
          "long long", "unsigned long long"}

Bits(type) ==
  CASE type \in {"int8_t", "uint8_t"}      -> ByteBits
    [] type \in {"short", "int", "unsigned int"} -> IntBits
    [] type \in {"long", "unsigned long", "long long", "unsigned long long"} -> LongBits

Signed(bits)   == -(2^(bits - 1)) .. 2^(bits - 1) - 1
Unsigned(bits) == 0 .. 2^bits - 1

RangeOf(type) == IF type \in {"uint8_t", "unsigned int", "unsigned long", "unsigned long long"}
                   THEN Unsigned(Bits(type)) ELSE Signed(Bits(type))

\* static_cast to a narrower type keeps the low bits.
Cast(n, type) == CHOOSE v \in RangeOf(type) : v % 2^Bits(type) = n % 2^Bits(type)

Clamp(n, range) == IF n \in range THEN n
                   ELSE IF n > 0 THEN CHOOSE v \in range : v + 1 \notin range
                                 ELSE CHOOSE v \in range : v - 1 \notin range

Value(n) == [thrown |-> FALSE, value |-> n]
Thrown   == [thrown |-> TRUE, value |-> 0]

\* stoi and stol throw; stoul takes a minus sign and wraps; atoi and the stream
\* operator throw nothing.
Stoi(cell, bits) ==
  IF cell.number /\ cell.n \in Signed(bits) THEN Value(cell.n) ELSE Thrown

Stoul(cell) ==
  IF cell.number /\ (IF cell.n < 0 THEN -cell.n ELSE cell.n) \in Unsigned(LongBits)
    THEN Value(cell.n % 2^LongBits) ELSE Thrown

Atoll(cell) == IF cell.number THEN Clamp(cell.n, Signed(LongBits)) ELSE 0

Atoi(cell) == Cast(Atoll(cell), "int")

Streamed(cell, type) == IF cell.number THEN Clamp(cell.n, RangeOf(type)) ELSE 0

\* A mutant of As: unsigned int is read by stoi.
AsUnsignedByStoi(type, cell) ==
  IF cell.null THEN Value(0)
  ELSE CASE type \in {"int8_t", "uint8_t"} -> Value(Cast(Atoi(cell), type))
         [] type = "short"         -> Value(Streamed(cell, type))
         [] type = "int"           -> Stoi(cell, IntBits)
         [] type = "long"          -> Stoi(cell, LongBits)
         [] type = "long long"     -> Value(Atoll(cell))
         [] type \in {"unsigned long", "unsigned long long"} -> Stoul(cell)
         [] type = "unsigned int"  -> LET r == Stoi(cell, IntBits)
                                      IN [r EXCEPT !.value = Cast(@, type)]

\* The specialisations of as<T>; short has none and goes through the stream.
As(type, cell) ==
  IF cell.null THEN Value(0)
  ELSE CASE type \in {"int8_t", "uint8_t"} -> Value(Cast(Atoi(cell), type))
         [] type = "short"         -> Value(Streamed(cell, type))
         [] type = "int"           -> Stoi(cell, IntBits)
         [] type = "long"          -> Stoi(cell, LongBits)
         [] type = "long long"     -> Value(Atoll(cell))
         [] type \in {"unsigned long", "unsigned long long"} -> Stoul(cell)
         [] type = "unsigned int"  -> LET r == Stoul(cell)
                                      IN [r EXCEPT !.value = Cast(@, type)]
=============================================================================
