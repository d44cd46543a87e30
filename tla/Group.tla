------------------------------- MODULE Group --------------------------------
(***************************************************************************)
(* One value computed twice, step by step: by the native group, as words,  *)
(* and by the group of the JVM.  Every operation of GroupContext and its   *)
(* elements is an action that takes the value as its left operand.         *)
(***************************************************************************)
EXTENDS NativeGroup

CONSTANTS
  Gen,          \* the generator
  Nibble,       \* see PowRadix
  Exponents,    \* bound of the model: exponents of what is not accelerated
  MaxMinimum,   \* bound of the model: minimum of safeBinaryToElement
  SliceBytes,   \* bound of the model: length of exponents that are only sliced
  SliceValues   \* bound of the model: their bytes

Jvm == INSTANCE JvmGroup WITH Byte <- W, I <- Power(W, PLen)

\* Q is prime, as far as divisions need it; Gen has order Q; the slices take
\* a word for two nibbles.
ASSUME GroupAssumption ==
  /\ \A a \in 1 .. Q - 1 : Jvm!ModPow(a, Q - 1, Q) = 1
  /\ Gen \in 1 .. P - 1 /\ Jvm!ModPow(Gen, Q, P) = 1
  /\ MaxMinimum \in Nat /\ 2 * MaxMinimum <= Q
  /\ Nibble \in Nat /\ W = Nibble * Nibble /\ QLen % 6 = 2
  /\ SliceBytes \in Nat /\ SliceBytes % 6 = 2 /\ SliceValues \subseteq Word

montgomeryOne == ToMontgomery(Words(1, PLen))
Radix == INSTANCE PowRadix WITH
           Times <- TimesM, One <- montgomeryOne, Enter <- ToMontgomery, Leave <- ToElementModP
gTables == [option \in Radix!Options |-> Radix!Table(Words(Gen, PLen), option, QLen)]

VARIABLES
  kind,     \* "none", "null", "Q", "P", "M" (Montgomery) or "slices"
  native,   \* the words, or the bytes that are sliced
  jvm       \* the BigInteger

vars == <<kind, native, jvm>>

Bytes(n) == [1 .. n -> 0 .. W - 1]
Q0(v) == IF v = 0 THEN zeroModQ ELSE Words(v, QLen)

\* Second operands: what a computation gives, and the constant zero.
ElementsQ == {<<Words(v, QLen), v>> : v \in 0 .. Q - 1} \cup {<<zeroModQ, 0>>}
SomeElementsQ == {y \in ElementsQ : y[2] \in Exponents}
Residues == {<<Words(Jvm!PowP(Gen, e), PLen), Jvm!PowP(Gen, e)>> : e \in 0 .. Q - 1}
SomeResidues == {r \in Residues : \E e \in Exponents : r[2] = Jvm!PowP(Gen, e)}
MontgomeryResidues == {<<ToMontgomery(r[1]), Jvm!ToMontgomery(r[2])>> : r \in Residues}

Become(k, n, j) == kind' = k /\ native' = n /\ jvm' = j

\* Two results of which both or neither is null.
BecomeOrNull(k, n, j) ==
  IF n = << >> /\ j = Jvm!Null THEN Become("null", n, j) ELSE Become(k, n, j)

-----------------------------------------------------------------------------
Init == kind = "none" /\ native = << >> /\ jvm = 0

Start ==
  /\ kind = "none"
  /\ \/ \E v \in 0 .. 2 : Become("Q", Q0(v), v)                          \* uIntToElementModQ
     \/ \E v \in 0 .. 2 : Become("P", Words(v, PLen), v)          \* uIntToElementModP
     \/ Become("P", Words(Gen, PLen), Gen)                        \* G_MOD_P
     \/ Become("Q", qMinus1ModQ, Jvm!MinusQ(0, 1))                \* qMinus1ModQ

BinaryToElementModQ ==
  kind = "none" /\ \E n \in 0 .. QLen + 1 : \E b \in Bytes(n) :
    BecomeOrNull("Q", BinaryToQ(b), Jvm!BinaryToQ(b))

BinaryToElementModP ==
  kind = "none" /\ \E n \in 0 .. PLen + 1 : \E b \in Bytes(n) :
    BecomeOrNull("P", BinaryToP(b), Jvm!BinaryToP(b))

SafeBinaryToElementModQ ==
  kind = "none" /\ \E n \in 0 .. QLen : \E b \in Bytes(n), m \in 0 .. MaxMinimum :
    Become("Q", SafeBinaryToQ(b, m), Jvm!SafeBinaryToQ(b, m))

SafeBinaryToElementModP ==
  kind = "none" /\ \E n \in 0 .. PLen : \E b \in Bytes(n), m \in 0 .. MaxMinimum :
    Become("P", SafeBinaryToP(b, m), Jvm!SafeBinaryToP(b, m))

ThenPlus == kind = "Q" /\ \E y \in ElementsQ :
  Become("Q", PlusQ(native, y[1]), Jvm!PlusQ(jvm, y[2]))
ThenMinus == kind = "Q" /\ \E y \in ElementsQ :
  Become("Q", MinusQ(native, y[1]), Jvm!MinusQ(jvm, y[2]))
ThenUnaryMinus == kind = "Q" /\
  Become("Q", UnaryMinusQ(native), Jvm!UnaryMinusQ(jvm))
ThenTimes == kind = "Q" /\ \E y \in ElementsQ :
  Become("Q", TimesQ(native, y[1]), Jvm!TimesQ(jvm, y[2]))
ThenDiv == kind = "Q" /\ \E y \in ElementsQ :
  y[2] # 0 /\ Become("Q", DivQ(native, y[1]), Jvm!DivQ(jvm, y[2]))
ThenPowQ == kind = "Q" /\ \E y \in ElementsQ :
  Become("Q", PowQ(native, y[1]), Jvm!PowQ(jvm, y[2]))

\* The generator is accelerated.
ThenGPowP == kind = "Q" /\ \E option \in Radix!Options :
  Become("P", Radix!Pow(gTables[option], ByteArrayQ(native), option),
         Jvm!PowP(Gen, jvm))

ThenPowP == kind = "P" /\ \E y \in SomeElementsQ :
  Become("P", PowP(native, y[1]), Jvm!PowP(jvm, y[2]))
\* Public keys, which are residues, are accelerated.
ThenAcceleratedPowP == kind = "P" /\ Jvm!IsValidResidue(jvm) /\ \E option \in Radix!Options :
  LET table == Radix!Table(native, option, QLen)
  IN  \E y \in ElementsQ :
        Become("P", Radix!Pow(table, ByteArrayQ(y[1]), option), Jvm!PowP(jvm, y[2]))
ThenTimesP == kind = "P" /\ \E y \in Residues :
  Become("P", TimesP(native, y[1]), Jvm!TimesP(jvm, y[2]))

\* Only what is in the subgroup is inverted: the two platforms differ elsewhere.
ThenDivP == kind = "P" /\ \E y \in SomeResidues :
  Become("P", DivP(native, y[1]), Jvm!DivP(jvm, y[2]))
ThenMultInvP == kind = "P" /\ Jvm!IsValidResidue(jvm) /\
  Become("P", MultInvP(native), Jvm!MultInvP(jvm))

ThenToMontgomery == kind = "P" /\
  Become("M", ToMontgomery(native), Jvm!ToMontgomery(jvm))
ThenTimesM == kind = "M" /\ \E y \in MontgomeryResidues :
  Become("M", TimesM(native, y[1]), Jvm!TimesM(jvm, y[2]))
ThenToElementModP == kind = "M" /\
  Become("P", ToElementModP(native), Jvm!ToElementModP(jvm))

\* An exponent long enough for every case of the slices.
Slice == kind = "none" /\ \E b \in [1 .. SliceBytes -> SliceValues] :
  Become("slices", b, Jvm!ToBigInteger(b))

Next ==
  \/ Start \/ BinaryToElementModQ \/ BinaryToElementModP
  \/ SafeBinaryToElementModQ \/ SafeBinaryToElementModP
  \/ ThenPlus \/ ThenMinus \/ ThenUnaryMinus \/ ThenTimes \/ ThenDiv \/ ThenPowQ
  \/ ThenGPowP \/ ThenPowP \/ ThenAcceleratedPowP \/ ThenTimesP \/ ThenDivP
  \/ ThenMultInvP \/ ThenToMontgomery \/ ThenTimesM \/ ThenToElementModP \/ Slice

Spec == Init /\ [][Next]_vars

-----------------------------------------------------------------------------
(***************************************************************************)
(* Every value is made of the words of its kind and lies below its prime.  *)
(***************************************************************************)
TypeOK ==
  /\ kind = "Q" => /\ native \in Bytes(QLen) \cup {zeroModQ}
                   /\ InBoundsQ(native)
  /\ kind \in {"P", "M"} => native \in Bytes(PLen) /\ InBoundsP(native)

(***************************************************************************)
(* Both platforms compute the same numbers, whatever the way to them, and  *)
(* refuse the same inputs; Montgomery forms are the same, too.             *)
(***************************************************************************)
PlatformsAgree ==
  /\ kind \in {"Q", "P", "M"} => Value(native) = jvm
  /\ kind = "null" => native = << >> /\ jvm = Jvm!Null

(***************************************************************************)
(* They answer the same to comparisons, equality and the test of residues, *)
(* unless the constant zero of Q is compared.                              *)
(***************************************************************************)
QueriesAgree ==
  /\ kind = "Q" =>
       \A y \in ElementsQ :
         /\ EqualQ(native, y[1]) <=> jvm = y[2]
         /\ zeroModQ \notin {native, y[1]} =>
              CompareQ(native, y[1]) = Jvm!Compare(jvm, y[2])
  /\ kind = "P" =>
       /\ IsValidResidue(native) <=> Jvm!IsValidResidue(jvm)
       /\ IsZeroP(native) <=> jvm = 0
       /\ \A y \in Residues : CompareP(native, y[1]) = Jvm!Compare(jvm, y[2])

(***************************************************************************)
(* The slices of an exponent, put together again, are the exponent.        *)
(***************************************************************************)
SlicesAddUp ==
  kind = "slices" =>
    \A option \in Radix!Options :
      LET slices == Radix!KBitsPerSlice(native, option)
      IN  Number(Radix!NumColumns(option), slices, Len(slices)) = jvm

(***************************************************************************)
(* "Checks whether this element is zero."                                  *)
(***************************************************************************)
ZeroIsZero == kind = "Q" => (IsZeroQ(native) <=> jvm = 0)
=============================================================================
