------------------------------ MODULE PowRadix ------------------------------
(***************************************************************************)
(* PowRadix: powers of one basis by products of table entries, one entry   *)
(* per slice of the exponent.  The exponent is a big-endian array of bytes *)
(* (32 in the code), the slices come lowest first.                         *)
(*                                                                         *)
(* Options are named by their bits; half a byte is a nibble.               *)
(***************************************************************************)
EXTENDS Integers, Sequences

CONSTANTS
  Nibble,                                \* number of values of a nibble (16)
  Times(_, _), One, Enter(_), Leave(_)   \* Montgomery elements

Byte == Nibble * Nibble
Options == {"low", "high", "extreme"}

\* Values of a slice, and number of slices of an array of n bytes.
NumColumns(option) ==
  CASE option = "low" -> Byte [] option = "high" -> Byte * Nibble
    [] option = "extreme" -> Byte * Byte
TableLength(option, n) ==
  CASE option = "low" -> n [] option = "high" -> (2 * n + 2) \div 3
    [] option = "extreme" -> n \div 2

-----------------------------------------------------------------------------
\* A mutant: odd slices forget the nibble that they share a byte with.
HighSliceWhole(b, it) ==
  LET n == Len(b)
      Byte0(offset) == b[offset + 1]
      inputOffset == n - 3 * (it \div 2) - 1
  IN  IF it = TableLength("high", n) - 1 THEN Byte0(0)
      ELSE IF it % 2 = 0 THEN Byte0(inputOffset) + (Byte0(inputOffset - 1) % Nibble) * Byte
      ELSE Byte0(inputOffset - 1) + Byte0(inputOffset - 2) * Nibble

(***************************************************************************)
(* kBitsPerSlice.  Three bytes are two slices of 12 bits; of the two bytes *)
(* left at the high end (n is 2 modulo 3) the last slice is a nibble.      *)
(***************************************************************************)
HighSlice(b, it) ==
  LET n == Len(b)
      Byte0(offset) == b[offset + 1]
      inputOffset == n - 3 * (it \div 2) - 1
  IN  IF it = TableLength("high", n) - 1 THEN Byte0(0) \div Nibble
      ELSE IF it % 2 = 0 THEN Byte0(inputOffset) + (Byte0(inputOffset - 1) % Nibble) * Byte
      ELSE Byte0(inputOffset - 1) \div Nibble + Byte0(inputOffset - 2) * Nibble

KBitsPerSlice(b, option) ==
  LET n == Len(b)
  IN  [i \in 1 .. TableLength(option, n) |->
         CASE option = "extreme" -> b[n - 2 * i + 2] + Byte * b[n - 2 * i + 1]
           [] option = "high" -> HighSlice(b, i - 1)
           [] option = "low" -> b[n - i + 1]]

-----------------------------------------------------------------------------
(***************************************************************************)
(* The table: a row holds the powers 0, 1, .. of its basis, and one power  *)
(* more is the basis of the next row.                                      *)
(***************************************************************************)
Powers(x, n) ==
  LET power[i \in 1 .. n] == IF i = 1 THEN x ELSE Times(power[i - 1], x) IN power

RowOf(running, columns) ==
  [entries |-> [column \in 0 .. columns - 1 |-> IF column = 0 THEN One ELSE running[column]],
   next |-> running[columns]]
Row(rowBasis, columns) == RowOf(Powers(rowBasis, columns), columns)

Table(basis, option, n) ==
  LET row[i \in 1 .. TableLength(option, n)] ==
        Row(IF i = 1 THEN Enter(basis) ELSE row[i - 1].next, NumColumns(option))
  IN  [i \in DOMAIN row |-> row[i].entries]

\* The power of the table's basis.
Pow(table, b, option) ==
  LET slices == KBitsPerSlice(b, option)
      y[i \in 0 .. Len(slices)] ==
        IF i = 0 THEN One ELSE Times(y[i - 1], table[i][slices[i]])
  IN  Leave(y[Len(slices)])
=============================================================================
