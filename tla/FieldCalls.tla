------------------------------ MODULE FieldCalls ------------------------------
(***************************************************************************)
(* A caller of the field, as the formulas of ge25519, ge25519x4 and        *)
(* device_group.cuh are: the result of one call is an operand of the next, *)
(* still in whatever limbs the call left it.                               *)
(***************************************************************************)
EXTENDS FieldLimbs

CONSTANTS Loads,     \* encodings that are loaded
          Spare,     \* widths of a limb that an operand may have: 5 in ge25519
          MaxCalls,  \* a bound on the calls
          Unsettled  \* whether fed32 calls that lose a carry are made

\* ge_double multiplies a sum of three results, of which each limb is one and a half
\* times its width at most.
ASSUME CallAssumption == Loads \subseteq SUBSET (0..5*W) /\ Spare \in 1..5

VARIABLES form, acc,  \* the form, and the limbs of the last result
          value,      \* the residue they should stand for
          calls,
          exponent    \* the exponent of what fe_invert has returned, in bits

fieldVars == <<form, acc, value, calls, exponent>>

\* Residues in two halves, <<low, high>>: integers of TLC's size.
HalfBits == (5 * W + 1) \div 2
HalfPow[n \in 0..HalfBits] == IF n = 0 THEN 1 ELSE 2 * HalfPow[n - 1]
Base == HalfPow[HalfBits]
P == <<Base - 19, HalfPow[5 * W - HalfBits] - 1>>
AtLeast(x, y) == x[2] > y[2] \/ (x[2] = y[2] /\ x[1] >= y[1])
Minus(x, y) == <<(x[1] - y[1]) % Base, x[2] - y[2] + (x[1] - y[1]) \div Base>>
Residue(x) == IF AtLeast(x, P) THEN Minus(x, P) ELSE x

AddMod(x, y) == Residue(<<(x[1] + y[1]) % Base, x[2] + y[2] + (x[1] + y[1]) \div Base>>)
SubMod(x, y) == AddMod(x, IF y = <<0, 0>> THEN y ELSE Minus(P, y))

SetBits(x) ==
  {n \in 0..5*W-1 : (x[n \div HalfBits + 1] \div HalfPow[n % HalfBits]) % 2 = 1}

\* Bit by bit from the highest: doubled, and x added where the multiplier has a one.
Step(x, bits, n) ==
  [s \in Nat \X Nat |-> LET d == AddMod(s, s) IN IF n \in bits THEN AddMod(d, x) ELSE d]
Times(x, bits) ==
  LET h[k \in 0..5*W] == IF k = 0 THEN <<0, 0>> ELSE Step(x, bits, 5 * W - k)[h[k-1]]
  IN h[5*W]
MulMod(x, y) == Times(x, SetBits(y))

\* What an encoding stands for, less its topmost bit.
ResidueOf(bits) == Times(<<1, 0>>, bits)

-----------------------------------------------------------------------------
FieldInit ==
  /\ form \in Forms
  /\ \E x \in Loads : acc = fe_from_bytes(form, x) /\ value = ResidueOf(x)
  /\ calls = 0
  /\ exponent = EmptyBag

\* The limbs that the formulas take, sums of a few results.
Small(t) == \A i \in DOMAIN t : t[i] < Spare * Pow2[Widths[form][i]]

Called == calls < MaxCalls /\ calls' = calls + 1 /\ UNCHANGED <<form, exponent>>

\* fed32 completes every fold and has nothing to borrow: the cases its comments
\* count on.
AddSettles(a, b) == form = "fed32" => Unsettled \/ AddFold(a, b).out = 0
SubSettles(a, b) == form = "fed32" => Unsettled \/ Biased(a, b).out >= 0
MulSettles(a, b) == form = "fed32" => Unsettled \/ SecondFold(Schoolbook(a, b)).out = 0

CallAdd(x) ==
  LET b == fe_from_bytes(form, x) IN
  /\ Called /\ Small(acc) /\ AddSettles(acc, b)
  /\ acc' = AddIn(form, acc, b)
  /\ value' = AddMod(value, ResidueOf(x))

CallSub(x) ==
  LET b == fe_from_bytes(form, x) IN
  /\ Called /\ Small(acc) /\ SubSettles(acc, b)
  /\ acc' = SubIn(form, acc, b)
  /\ value' = SubMod(value, ResidueOf(x))

CallSubFrom(x) ==
  LET a == fe_from_bytes(form, x) IN
  /\ Called /\ Small(acc) /\ SubSettles(a, acc)
  /\ acc' = SubIn(form, a, acc)
  /\ value' = SubMod(ResidueOf(x), value)

CallMul(x) ==
  LET b == fe_from_bytes(form, x) IN
  /\ Called /\ Small(acc) /\ MulSettles(acc, b)
  /\ acc' = MulIn(form, acc, b)
  /\ value' = MulMod(value, ResidueOf(x))

CallSq ==
  /\ Called /\ Small(acc) /\ MulSettles(acc, acc)
  /\ acc' = SqIn(form, acc)
  /\ value' = MulMod(value, value)

\* to_device_fe hands a host element to either kernel; the four lanes are
\* packed and unpacked through bytes.
Convert(to) ==
  /\ calls < MaxCalls /\ calls' = calls + 1
  /\ form # to /\ form' = to
  /\ acc' = Converted(form, to, acc)
  /\ UNCHANGED <<value, exponent>>

\* fe_invert, once: the powers that its squares and products return.
Invert ==
  /\ exponent = EmptyBag
  /\ exponent' = InversionExponent(SetToBag({0}))
  /\ calls = 0 /\ calls' = MaxCalls
  /\ UNCHANGED <<form, acc, value>>

FieldNext ==
  \/ \E x \in Loads : CallAdd(x) \/ CallSub(x) \/ CallSubFrom(x) \/ CallMul(x)
  \/ CallSq
  \/ \E to \in Forms : Convert(to)
  \/ Invert

FieldSpec == FieldInit /\ [][FieldNext]_fieldVars

-----------------------------------------------------------------------------
(* Properties *)

\* Whatever a chain of calls has left in the limbs, the encoding of the result
\* is that of its residue below p: the forms agree with the field and with each
\* other bit for bit.
ResultIsExact == fe_to_bytes(form, acc) = SetBits(value)

\* The addition chain raises to 2^255 - 21, which is p - 2.
InversionIsFermat == exponent # EmptyBag => exponent = SetToBag(0..254 \ {2, 4})

\* fed32's "256-bit integer that is a representative of its residue class", in a
\* range that is "closed under the operations": no carry is ever lost.
RepresentativesAreClosed == ResultIsExact
===============================================================================
