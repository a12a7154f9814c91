------------------------------ MODULE FieldLimbs ------------------------------
(***************************************************************************)
(* Elements of the field of 2^(5W) - 19 as limbs, in the three forms the   *)
(* engines compute in:                                                     *)
(*   "fe51"  crypto/fe25519.cpp and its port in device_field.cuh: five     *)
(*           limbs of W bits in 64-bit words,                              *)
(*   "fe4"   crypto/fe25519x4.cpp: ten limbs of W/2 bits, rounded up and   *)
(*           down in turn, in 64-bit words; a product takes the low half   *)
(*           of a word.  One lane of the four, which never meet,           *)
(*   "fed32" device_field32.cuh: eight limbs that fill their words.        *)
(* Limbs are functions on 0..n-1; what does not fit its limb is carried    *)
(* to the next one up.  The 32 bytes of an encoding are the set of the     *)
(* bits that are one in them, bit 0 the lowest of the first byte.          *)
(***************************************************************************)
EXTENDS Integers, FiniteSetsExt, Bags

CONSTANT W   \* 51

ASSUME LimbAssumption == W \in Nat /\ W >= 6 /\ (5 * W + 1) % 8 = 0

Forms == {"fe51", "fe4", "fed32"}

\* Bits of each limb.
Widths == [fe51  |-> [i \in 0..4 |-> W],
           fe4   |-> [i \in 0..9 |-> IF i % 2 = 0 THEN (W + 1) \div 2 ELSE W \div 2],
           fed32 |-> [i \in 0..7 |-> (5 * W + 1) \div 8]]

\* The powers of two that occur.
Pow2[n \in 0..W+13] == IF n = 0 THEN 1 ELSE 2 * Pow2[n - 1]

\* A 64-bit word, and the low half of one that vpmuludq reads.
Word(x) == x % Pow2[W + 13]
Half(x) == x % Pow2[(W + 13) \div 2]

SumOver(S, f) == MapThenSumSet(LAMBDA i : f[i], S)

Plus(t, i, x) == [t EXCEPT ![i] = @ + x]

\* What is carried into each limb, and out of the last one.  A limb below zero
\* borrows.
Carries(t, w) ==
  LET n == Cardinality(DOMAIN t)
      c[i \in 0..n] == IF i = 0 THEN 0 ELSE (t[i-1] + c[i-1]) \div Pow2[w[i-1]]
  IN c

Ripple(t, w) ==
  LET c == Carries(t, w)
  IN [limbs |-> [i \in DOMAIN t |-> (t[i] + c[i]) % Pow2[w[i]]],
      out   |-> c[Cardinality(DOMAIN t)]]

\* What leaves the last limb comes back to the first: 2^(5W) is 19.
Folded(t, w) == LET r == Ripple(t, w) IN [r.limbs EXCEPT ![0] = Word(@ + Word(19 * r.out))]

\* The first n limbs are carried once more.
Reduced(t, w, n) ==
  LET f == Folded(t, w)
      c == Carries(f, w)
  IN [i \in DOMAIN t |-> IF i < n THEN (f[i] + c[i]) % Pow2[w[i]]
                         ELSE IF i = n THEN f[i] + c[i] ELSE f[i]]

\* m * (2^(5W) - 19), limb by limb.
TimesP(m, w) == [i \in DOMAIN w |-> m * (Pow2[w[i]] - (IF i = 0 THEN 19 ELSE 1))]

-----------------------------------------------------------------------------
(* Encodings *)

Offset(w, i) == SumOver(0..i-1, w)

BitsOf(t, w) ==
  LET bits(i) == {n \in 0..w[i]-1 : (t[i] \div Pow2[n]) % 2 = 1}
      placed(i) == LET first == Offset(w, i) IN {first + n : n \in bits(i)}
  IN UNION {placed(i) : i \in DOMAIN w}

\* The number is below p, whose bits from the sixth on are all one.
BelowP(bits) == 5..5*W-1 \subseteq bits => SumOver(bits \cap (0..4), Pow2) < 32 - 19

\* fe_from_bytes, fe4_load, fed_from_bytes: the topmost bit is not read.
fe_from_bytes(form, bits) ==
  LET w == Widths[form]
      y == bits \ {5 * W}
  IN [i \in DOMAIN w |->
        LET first == Offset(w, i) IN SumOver({b \in 0..w[i]-1 : first + b \in y}, Pow2)]

\* Mutant: no second test of the value against p.
CanonicalUntested(t, w) == Ripple(Folded(Folded(t, w), w), w).limbs

\* 19 is added and folded, so that a value from p up wraps past 2^(5W); then p
\* is added and the topmost carry dropped.
Canonical(t, w) ==
  LET twice == Folded(Folded(t, w), w)
      f == Folded(Plus(twice, 0, 19), w)
      p == TimesP(1, w)
  IN Ripple([i \in DOMAIN t |-> f[i] + p[i]], w).limbs

\* p is subtracted from what equals or exceeds it.
Contracted(t, w) ==
  LET f == Folded(Folded(t, w), w)
      p == TimesP(1, w)
  IN IF f[0] >= p[0] /\ \A i \in DOMAIN t \ {0} : f[i] = p[i]
     THEN [i \in DOMAIN t |-> f[i] - p[i]] ELSE f

\* p as eight full words, and one conditional subtraction of it.
P32(w) == [i \in 0..7 |-> IF i = 7 THEN Pow2[w[7] - 1] - 1
                          ELSE Pow2[w[i]] - (IF i = 0 THEN 19 ELSE 1)]
WithoutP(x, w) ==
  LET d == Ripple([i \in 0..7 |-> x[i] - P32(w)[i]], w) IN IF d.out = 0 THEN d.limbs ELSE x

fe_to_bytes(form, t) ==
  LET w == Widths[form]
  IN BitsOf(CASE form = "fe51"  -> Canonical(t, w)
              [] form = "fe4"   -> Contracted(t, w)
              [] form = "fed32" -> WithoutP(WithoutP(WithoutP(t, w), w), w), w)

\* to_device_fe, and pack, broadcast and unpack of the four lanes.
Converted(from, to, t) == fe_from_bytes(to, fe_to_bytes(from, t))

-----------------------------------------------------------------------------
(* Products *)

\* The coefficient of degree k, each pair of limbs weighed.
Degree(k, n, weight, a, b) ==
  LET pairs == {i \in 0..n-1 : k - i \in 0..n-1}
  IN SumOver(pairs, [i \in pairs |-> weight[<<i, k - i>>] * a[i] * b[k - i]])

Pairs == (0..9) \X (0..9)
Plain == [e \in Pairs |-> 1]

\* Two odd limbs of the ten lie half a bit too low each.
OddTwice == [e \in Pairs |-> IF e[1] % 2 = 1 /\ e[2] % 2 = 1 THEN 2 ELSE 1]

\* A square has each pair of limbs once, and doubles it.
Once == [e \in Pairs |-> IF e[1] < e[2] THEN 2 ELSE IF e[1] = e[2] THEN 1 ELSE 0]
OnceOddTwice == [e \in Pairs |-> Once[e] * OddTwice[e]]

fe_mul(a, b) ==
  LET a19 == [i \in 0..4 |-> Word(19 * a[i])]
  IN Reduced([k \in 0..4 |-> Degree(k, 5, Plain, a, b) + Degree(k + 5, 5, Plain, a19, b)],
             Widths.fe51, 2)

fe_sq(a) ==
  LET a19 == [i \in 0..4 |-> Word(19 * a[i])]
  IN Reduced([k \in 0..4 |-> Degree(k, 5, Once, a, a) + Degree(k + 5, 5, Once, a, a19)],
             Widths.fe51, 2)

\* fproduct or fsquare_inner, then freduce_degree and freduce_coefficients.
Product4(weight, a, b) ==
  LET degree(k) == Degree(k, 10, weight, [i \in 0..9 |-> Half(a[i])], [i \in 0..9 |-> Half(b[i])])
  IN Reduced([k \in 0..9 |-> degree(k) + 19 * degree(k + 10)], Widths.fe4, 1)

fe4_mul(a, b) == Product4(OddTwice, a, b)
fe4_sq(a) == Product4(OnceOddTwice, a, a)

\* 2^(5W+1) is 38: the high words are folded, then what that carries out.
SecondFold(r) ==
  LET w == Widths.fed32
      s == Ripple([i \in 0..7 |-> r[i] + 38 * r[i + 8]], w)
  IN Ripple(Plus(s.limbs, 0, 38 * s.out), w)

\* What the second fold still carries out is added as it is.
fed32_reduce_wide(r) ==
  LET t == SecondFold(r) IN Ripple(Plus(t.limbs, 0, t.out), Widths.fed32).limbs

\* Sixteen words of the product.
Schoolbook(a, b) ==
  Ripple([k \in 0..15 |-> Degree(k, 8, Plain, a, b)], [k \in 0..15 |-> Widths.fed32[0]]).limbs

fed_mul(a, b) == fed32_reduce_wide(Schoolbook(a, b))

-----------------------------------------------------------------------------
(* Sums and differences *)

fe_add(a, b) == [i \in 0..4 |-> a[i] + b[i]]
fe4_add(a, b) == Reduced([i \in 0..9 |-> a[i] + b[i]], Widths.fe4, 1)

\* 8p keeps every limb from falling below zero.
Difference(w, a, b) ==
  Reduced([i \in DOMAIN w |-> Word(a[i] + TimesP(8, w)[i] - b[i])], w, 1)

AddFold(a, b) ==
  LET w == Widths.fed32
      s == Ripple([i \in 0..7 |-> a[i] + b[i]], w)
  IN Ripple(Plus(s.limbs, 0, 38 * s.out), w)

fed_add(a, b) == AddFold(a, b).limbs

\* a + 2p - b, with what is carried or borrowed past the top word.
Biased(a, b) ==
  LET w == Widths.fed32
      s == Ripple([i \in 0..7 |-> a[i] + Pow2[w[i]] - (IF i = 0 THEN 38 ELSE 1)], w)
      d == Ripple([i \in 0..7 |-> s.limbs[i] - b[i]], w)
  IN [limbs |-> d.limbs, out |-> s.out + d.out]

\* 38 is added for a borrow as it is for a carry.
fed_sub(a, b) ==
  LET d == Biased(a, b)
  IN IF d.out = 0 THEN d.limbs ELSE Ripple(Plus(d.limbs, 0, 38), Widths.fed32).limbs

-----------------------------------------------------------------------------
(* The operations of each form *)

AddIn(form, a, b) == CASE form = "fe51"  -> fe_add(a, b)
                       [] form = "fe4"   -> fe4_add(a, b)
                       [] form = "fed32" -> fed_add(a, b)
SubIn(form, a, b) == IF form = "fed32" THEN fed_sub(a, b) ELSE Difference(Widths[form], a, b)
MulIn(form, a, b) == CASE form = "fe51"  -> fe_mul(a, b)
                       [] form = "fe4"   -> fe4_mul(a, b)
                       [] form = "fed32" -> fed_mul(a, b)
SqIn(form, a) == CASE form = "fe51"  -> fe_sq(a)
                   [] form = "fe4"   -> fe4_sq(a)
                   [] form = "fed32" -> fed_mul(a, a)

-----------------------------------------------------------------------------
(* fe_invert, fe4_invert and fed_invert at their real size: the exponent of  *)
(* z in a variable of the chain is the bag of its bits.                      *)

\* Mutant: one squaring fewer.
SqTimesLess(e, n) == [b \in {c + n - 1 : c \in DOMAIN e} |-> e[b - n + 1]]

\* Squared n times: the exponent is doubled n times.
SqTimes(e, n) == [b \in {c + n : c \in DOMAIN e} |-> e[b - n]]

\* Multiplied: the exponents are added.
Multiplied(e, f) == e (+) f

\* z is the exponent of what is inverted.
InversionExponent(z) ==
  LET z2 == SqTimes(z, 1)
      z9 == Multiplied(SqTimes(z2, 2), z)
      z11 == Multiplied(z9, z2)
      z2_5_0 == Multiplied(SqTimes(z11, 1), z9)
      z2_10_0 == Multiplied(SqTimes(z2_5_0, 5), z2_5_0)
      z2_20_0 == Multiplied(SqTimes(z2_10_0, 10), z2_10_0)
      z2_40_0 == Multiplied(SqTimes(z2_20_0, 20), z2_20_0)
      z2_50_0 == Multiplied(SqTimes(z2_40_0, 10), z2_10_0)
      z2_100_0 == Multiplied(SqTimes(z2_50_0, 50), z2_50_0)
      z2_200_0 == Multiplied(SqTimes(z2_100_0, 100), z2_100_0)
      z2_250_0 == Multiplied(SqTimes(z2_200_0, 50), z2_50_0)
  IN Multiplied(SqTimes(z2_250_0, 5), z11)
===============================================================================
