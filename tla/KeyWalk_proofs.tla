---------------------------- MODULE KeyWalk_proofs ----------------------------
(***************************************************************************)
(* Proofs about KeyWalk, the batch inversion below it and the hash of an   *)
(* address: of the inversion in every field, of the walk over every prime  *)
(* field and every curve whose d is not a square while -1 is, which makes  *)
(* the addition law complete, and for every batch size, epoch and number   *)
(* of threads; of SHA3-256 for any data in any pieces.                     *)
(*                                                                         *)
(* The argument about the walk goes from the integers up: congruences and  *)
(* polynomial identities; the elements of the field as numbers; the        *)
(* unified addition, of which the addition of a step and the doubling are  *)
(* forms; the iterates that double-and-add and a walk are; the walk        *)
(* itself; and, apart from all these, the scalar that goes with a place of *)
(* the walk.                                                               *)
(*                                                                         *)
(* SHA3-256 is compared with FIPS 202 one part at a time: its walk over    *)
(* the lanes in place with rho and pi, its table of constants with the     *)
(* shift register, a turn of its loop with a round, its buffer with a      *)
(* block of the padded string.  The invariant says where in the string the *)
(* buffer begins.                                                          *)
(***************************************************************************)
EXTENDS KeyWalk, Sha3, WellFoundedInduction, TLAPS

-----------------------------------------------------------------------------
(* The batch inversion *)

\* How many places have their Y and Z, and how many their prefix product.
Collected == IF phase = "collect" THEN i ELSE Batch
Prefixed ==
  IF phase = "prefix" THEN i
  ELSE IF phase = "collect" THEN IF fused THEN i ELSE 0
  ELSE Batch

\* No point has a zero Z, and no product of theirs is zero.
ZsAreUnits ==
  /\ \A k \in Indices : k < Collected => zs[k] \in Units
  /\ \A k \in Indices : k < Prefixed => prefix[k] \in Units

\* prefix[k] is the product of the Z up to place k.
PrefixInv ==
  /\ Prefixed <= Collected
  /\ \A k \in Indices : k < Prefixed => prefix[k] = Mul(Before(k), zs[k])

\* In the fused form pe is the product so far, and combo has Y and the product
\* before it.
FusedInv ==
  fused =>
    /\ phase # "prefix"
    /\ phase = "collect" => pe = Before(i)
    /\ phase = "invert" => pe = prefix[Batch - 1]
    /\ \A k \in Indices : k < Collected => combo[k] = Mul(ys[k], Before(k))

\* inv is the inverse of the product up to the current place.
InverseInv == phase = "recover" => Mul(inv, prefix[i]) = One

InversionInv ==
  InversionTypeOK /\ ZsAreUnits /\ PrefixInv /\ FusedInv /\ InverseInv /\ YRecovered

-----------------------------------------------------------------------------
(* Algebra *)

\* What is left when y/p times z is taken and z/p is one.
LEMMA Recovers ==
  ASSUME NEW y \in F, NEW z \in F, NEW w \in F, Mul(w, z) = One
  PROVE  Mul(y, w) \in F /\ Mul(Mul(y, w), z) = y
<1>1. Mul(Mul(y, w), z) = Mul(y, Mul(w, z))
  BY FieldAssumption
<1>2. QED
  BY <1>1, FieldAssumption

\* Multiplying the inverse of p*z by z gives the inverse of p, and by p that
\* of z.
LEMMA SplitInverse ==
  ASSUME NEW v \in F, NEW p \in F, NEW z \in F, Mul(v, Mul(p, z)) = One
  PROVE  /\ Mul(v, z) \in F /\ Mul(Mul(v, z), p) = One
         /\ Mul(v, p) \in F /\ Mul(Mul(v, p), z) = One
<1>1. Mul(Mul(v, z), p) = Mul(v, Mul(z, p))
  BY FieldAssumption
<1>2. Mul(z, p) = Mul(p, z)
  BY FieldAssumption
<1>3. Mul(Mul(v, p), z) = Mul(v, Mul(p, z))
  BY FieldAssumption
<1>4. QED
  BY <1>1, <1>2, <1>3, FieldAssumption

LEMMA InitInversionInv == InversionInit => InversionInv
<1> SUFFICES ASSUME InversionInit PROVE InversionInv
  OBVIOUS
<1>1. InversionTypeOK
  <2>1. One \in F /\ 0 \in Indices
    BY BatchAssumption, FieldAssumption DEF Indices, Units
  <2>2. QED
    BY <2>1 DEF InversionInit, InversionTypeOK, Phases
<1>2. ZsAreUnits /\ PrefixInv /\ FusedInv /\ InverseInv /\ YRecovered
  BY BatchAssumption
     DEF InversionInit, ZsAreUnits, PrefixInv, FusedInv, InverseInv, YRecovered,
         Collected, Prefixed, Done, Before, Indices
<1>3. QED
  BY <1>1, <1>2 DEF InversionInv

LEMMA StepInversionInv == InversionInv /\ [InversionNext]_inversionVars => InversionInv'
<1> SUFFICES ASSUME InversionInv, [InversionNext]_inversionVars PROVE InversionInv'
  OBVIOUS
<1> USE BatchAssumption
<1>0. /\ fused \in BOOLEAN /\ phase \in Phases /\ i \in Indices
      /\ ys \in [Indices -> F] /\ zs \in [Indices -> F]
      /\ prefix \in [Indices -> F] /\ combo \in [Indices -> F]
      /\ out \in [Indices -> F]
      /\ pe \in F /\ inv \in F
      /\ Zero \in F /\ One \in Units /\ One \in F /\ Units \subseteq F
  BY FieldAssumption DEF InversionInv, InversionTypeOK, Units
<1>1. ASSUME NEW y \in F, NEW z \in Units, CollectStored(y, z) PROVE InversionInv'
  <2>1. InversionTypeOK'
    BY <1>0, <1>1 DEF CollectStored, Up, InversionTypeOK, Phases, Indices
  <2>2. ZsAreUnits'
    BY <1>0, <1>1 DEF CollectStored, Up, InversionInv, ZsAreUnits, Collected, Prefixed, Indices
  <2>3. PrefixInv'
    BY <1>0, <1>1 DEF CollectStored, Up, Collected, Prefixed, PrefixInv, Indices
  <2>4. (FusedInv /\ InverseInv /\ YRecovered)'
    BY <1>0, <1>1 DEF CollectStored, Up, FusedInv, InverseInv, YRecovered, Done
  <2>5. QED
    BY <2>1, <2>2, <2>3, <2>4 DEF InversionInv
<1>2. ASSUME PrefixProduct PROVE InversionInv'
  <2>1. zs[i] \in Units /\ Before(i) \in Units
    BY <1>0, <1>2 DEF PrefixProduct, InversionInv, ZsAreUnits, Collected, Prefixed, Indices, Before
  <2>2. Mul(One, zs[i]) = zs[i]
    BY <1>0, <2>1, FieldAssumption
  <2>3. prefix' = [prefix EXCEPT ![i] = Mul(Before(i), zs[i])]
    BY <1>0, <1>2, <2>2 DEF PrefixProduct, Before
  <2>4. Mul(Before(i), zs[i]) \in Units
    BY <2>1, FieldAssumption
  <2>5. InversionTypeOK'
    BY <1>0, <1>2, <2>3, <2>4 DEF PrefixProduct, Up, InversionTypeOK, Phases, Indices
  <2>6. ZsAreUnits'
    BY <1>0, <1>2, <2>3, <2>4
       DEF PrefixProduct, Up, InversionInv, ZsAreUnits, Collected, Prefixed, Indices
  <2>7. PrefixInv'
    <3>1. \A k \in Indices : k <= i => Before(k)' = Before(k)
      BY <1>0, <2>3 DEF Before, Indices
    <3>2. QED
      BY <1>0, <1>2, <2>3, <3>1
         DEF PrefixProduct, Up, InversionInv, PrefixInv, Collected, Prefixed, Indices
  <2>8. (FusedInv /\ InverseInv /\ YRecovered)'
    BY <1>0, <1>2 DEF PrefixProduct, Up, InversionInv, FusedInv, InverseInv, YRecovered, Done
  <2>9. QED
    BY <2>5, <2>6, <2>7, <2>8 DEF InversionInv
<1>3. ASSUME NEW y \in F, NEW z \in Units, CollectFused(y, z) PROVE InversionInv'
  <2>1. pe = Before(i) /\ Before(i) \in Units
    BY <1>0, <1>3 DEF CollectFused, InversionInv, FusedInv, ZsAreUnits, Prefixed, Indices, Before
  <2>2. Mul(pe, z) \in Units /\ Mul(y, pe) \in F
    BY <1>0, <1>3, <2>1, FieldAssumption
  <2>3. /\ prefix' = [prefix EXCEPT ![i] = Mul(Before(i), z)]
        /\ combo' = [combo EXCEPT ![i] = Mul(y, Before(i))]
        /\ zs' = [zs EXCEPT ![i] = z] /\ ys' = [ys EXCEPT ![i] = y]
        /\ pe' = Mul(Before(i), z)
    BY <1>3, <2>1 DEF CollectFused
  <2>4. \A k \in Indices : k <= i => Before(k)' = Before(k)
    BY <1>0, <2>3 DEF Before, Indices
  <2>5. InversionTypeOK'
    BY <1>0, <1>3, <2>2 DEF CollectFused, Up, InversionTypeOK, Phases, Indices
  <2>6. ZsAreUnits'
    BY <1>0, <1>3, <2>1, <2>2, <2>3
       DEF CollectFused, Up, InversionInv, ZsAreUnits, Collected, Prefixed, Indices
  <2>7. PrefixInv'
    BY <1>0, <1>3, <2>3, <2>4
       DEF CollectFused, Up, InversionInv, PrefixInv, Collected, Prefixed, Indices
  <2>8. FusedInv'
    <3>1. phase' = "collect" => pe' = Before(i)'
      BY <1>0, <1>3, <2>3 DEF CollectFused, Up, Before, Indices
    <3>2. phase' = "invert" => pe' = prefix'[Batch - 1]
      BY <1>0, <1>3, <2>3 DEF CollectFused, Up, Indices
    <3>3. ASSUME NEW k \in Indices, k < Collected'
          PROVE  combo'[k] = Mul(ys'[k], Before(k)')
      <4>1. k <= i
        BY <1>0, <1>3, <3>3 DEF CollectFused, Up, Collected, Indices
      <4>2. CASE k = i
        BY <1>0, <2>3, <2>4, <4>1, <4>2
      <4>3. CASE k < i
        BY <1>0, <1>3, <2>3, <2>4, <4>3
           DEF CollectFused, InversionInv, FusedInv, Collected, Indices
      <4>4. QED
        BY <1>0, <4>1, <4>2, <4>3 DEF Indices
    <3>4. phase' # "prefix"
      BY <1>3 DEF CollectFused, Up
    <3>5. QED
      BY <3>1, <3>2, <3>3, <3>4 DEF FusedInv
  <2>9. (InverseInv /\ YRecovered)'
    BY <1>0, <1>3 DEF CollectFused, Up, InverseInv, YRecovered, Done
  <2>10. QED
    BY <2>5, <2>6, <2>7, <2>8, <2>9 DEF InversionInv
<1>4. ASSUME Invert PROVE InversionInv'
  <2> DEFINE q == prefix[Batch - 1]
  <2>1. q \in Units /\ (IF fused THEN pe ELSE q) = q
    BY <1>0, <1>4 DEF Invert, InversionInv, FusedInv, ZsAreUnits, Prefixed, Indices
  <2>2. inv' = Inv(q)
    BY <1>4, <2>1 DEF Invert
  <2>3. inv' \in F /\ Mul(inv', q) = One
    <3>1. Inv(q) \in Units /\ Mul(q, Inv(q)) = One
      BY <2>1, FieldAssumption
    <3>2. Mul(Inv(q), q) = Mul(q, Inv(q))
      BY <1>0, <2>1, <3>1, FieldAssumption
    <3>3. QED
      BY <1>0, <2>2, <3>1, <3>2
  <2>4. InversionTypeOK'
    BY <1>0, <1>4, <2>3 DEF Invert, arrays, InversionTypeOK, Phases, Indices
  <2>5. ZsAreUnits' /\ PrefixInv'
    BY <1>0, <1>4
       DEF Invert, arrays, InversionInv, ZsAreUnits, PrefixInv, Collected, Prefixed, Before
  <2>6. FusedInv'
    BY <1>0, <1>4 DEF Invert, arrays, InversionInv, FusedInv, Collected, Before
  <2>7. InverseInv'
    BY <1>4, <2>3 DEF Invert, arrays, InverseInv
  <2>8. YRecovered'
    BY <1>0, <1>4 DEF Invert, arrays, YRecovered, Done, Indices
  <2>9. QED
    BY <2>4, <2>5, <2>6, <2>7, <2>8 DEF InversionInv
<1>5. ASSUME phase = "recover"
      PROVE  /\ zs[i] \in F /\ Before(i) \in F
             /\ Mul(inv, Before(i)) \in F
             /\ Mul(Mul(inv, Before(i)), zs[i]) = One
             /\ NextInverse \in F
             /\ i > 0 => Mul(NextInverse, prefix[i - 1]) = One
  <2>1. zs[i] \in F /\ Before(i) \in F /\ prefix[i] = Mul(Before(i), zs[i])
        /\ Mul(inv, prefix[i]) = One
    BY <1>0, <1>5 DEF InversionInv, PrefixInv, InverseInv, Prefixed, Before, Indices
  <2>2. /\ Mul(inv, zs[i]) \in F /\ Mul(Mul(inv, zs[i]), Before(i)) = One
        /\ Mul(inv, Before(i)) \in F /\ Mul(Mul(inv, Before(i)), zs[i]) = One
    <3>1. inv \in F /\ Mul(inv, Mul(Before(i), zs[i])) = One
      BY <1>0, <2>1
    <3>2. QED
      BY <2>1, <3>1, SplitInverse
  <2>3. NextInverse \in F
    BY <1>0, <2>2 DEF NextInverse
  <2>4. i > 0 => Mul(NextInverse, prefix[i - 1]) = One
    BY <1>0, <2>2 DEF NextInverse, Before, Indices
  <2>5. QED
    BY <2>1, <2>2, <2>3, <2>4
<1>6. ASSUME phase = "recover", NEW v \in F, Mul(v, zs[i]) = ys[i],
             out' = [out EXCEPT ![i] = v], inv' = NextInverse, Down("done"),
             UNCHANGED <<fused, ys, zs, prefix, combo, pe>>
      PROVE  InversionInv'
  <2>1. InversionTypeOK'
    BY <1>0, <1>5, <1>6 DEF Down, InversionTypeOK, Phases, Indices
  <2>2. ZsAreUnits' /\ PrefixInv'
    BY <1>0, <1>6 DEF Down, InversionInv, ZsAreUnits, PrefixInv, Collected, Prefixed, Before
  <2>3. FusedInv'
    BY <1>0, <1>6 DEF Down, InversionInv, FusedInv, Collected, Before
  <2>4. InverseInv'
    BY <1>0, <1>5, <1>6 DEF Down, InverseInv, Indices
  <2>5. YRecovered'
    BY <1>0, <1>6 DEF Down, InversionInv, YRecovered, Done, Indices
  <2>6. QED
    BY <2>1, <2>2, <2>3, <2>4, <2>5 DEF InversionInv
<1>7. ASSUME RecoverStored PROVE InversionInv'
  <2> DEFINE w == IF i = 0 THEN inv ELSE Mul(inv, prefix[i - 1])
  <2>1. phase = "recover"
    BY <1>7 DEF RecoverStored
  <2>2. w = Mul(inv, Before(i))
    BY <1>0, FieldAssumption DEF Before
  <2>3. w \in F /\ Mul(w, zs[i]) = One
    BY <1>5, <2>1, <2>2
  <2>4. ys[i] \in F /\ zs[i] \in F
    BY <1>0
  <2>5. Mul(ys[i], w) \in F /\ Mul(Mul(ys[i], w), zs[i]) = ys[i]
    BY <2>3, <2>4, Recovers
  <2>6. out' = [out EXCEPT ![i] = Mul(ys[i], w)]
    BY <1>7 DEF RecoverStored
  <2>7. QED
    BY <1>6, <1>7, <2>1, <2>5, <2>6 DEF RecoverStored
<1>8. ASSUME RecoverFused PROVE InversionInv'
  <2> DEFINE w == Mul(inv, Before(i))
  <2>1. phase = "recover" /\ fused
    BY <1>8 DEF RecoverFused
  <2>2. /\ w \in F /\ Mul(w, zs[i]) = One
        /\ ys[i] \in F /\ zs[i] \in F /\ Before(i) \in F
    BY <1>0, <1>5, <2>1
  <2>3. combo[i] = Mul(ys[i], Before(i))
    BY <1>0, <2>1 DEF InversionInv, FusedInv, Collected, Indices
  <2>4. Mul(inv, combo[i]) = Mul(ys[i], w)
    <3>1. Mul(inv, Mul(ys[i], Before(i))) = Mul(Mul(inv, ys[i]), Before(i))
      BY <1>0, <2>2, FieldAssumption
    <3>2. Mul(inv, ys[i]) = Mul(ys[i], inv)
      BY <1>0, <2>2, FieldAssumption
    <3>3. Mul(Mul(ys[i], inv), Before(i)) = Mul(ys[i], Mul(inv, Before(i)))
      BY <1>0, <2>2, FieldAssumption
    <3>4. QED
      BY <2>3, <3>1, <3>2, <3>3
  <2>5. Mul(ys[i], w) \in F /\ Mul(Mul(ys[i], w), zs[i]) = ys[i]
    BY <2>2, Recovers
  <2>6. out' = [out EXCEPT ![i] = Mul(ys[i], w)]
    BY <1>8, <2>4 DEF RecoverFused
  <2>7. QED
    BY <1>6, <1>8, <2>1, <2>5, <2>6 DEF RecoverFused
<1>9. ASSUME NextCall PROVE InversionInv'
  <2>1. InversionTypeOK'
    BY <1>0, <1>9 DEF NextCall, arrays, InversionTypeOK, Phases, Indices
  <2>2. (ZsAreUnits /\ PrefixInv /\ FusedInv /\ InverseInv /\ YRecovered)'
    BY <1>0, <1>9
       DEF NextCall, arrays, ZsAreUnits, PrefixInv, FusedInv, InverseInv,
           YRecovered, Collected, Prefixed, Done, Before, Indices
  <2>3. QED
    BY <2>1, <2>2 DEF InversionInv
<1>10. ASSUME UNCHANGED inversionVars PROVE InversionInv'
  BY <1>10 DEF inversionVars, arrays, InversionInv, InversionTypeOK, ZsAreUnits, PrefixInv,
     FusedInv, InverseInv, YRecovered, Collected, Prefixed, Done, Before
<1>11. QED
  BY <1>1, <1>2, <1>3, <1>4, <1>7, <1>8, <1>9, <1>10
     DEF InversionNext, InversionStep

\* Every variable of the batch inversion keeps its type.
THEOREM InversionTypeCorrect == InversionSpec => []InversionTypeOK
<1>1. InversionInv => InversionTypeOK
  BY DEF InversionInv
<1>2. QED
  BY <1>1, InitInversionInv, StepInversionInv, PTL DEF InversionSpec

\* One inversion per batch recovers the affine y of every point of the batch,
\* in the form with three arrays and in the fused one, in any field, whatever
\* the points and the size of the batch.
THEOREM EveryYIsRecovered == InversionSpec => []YRecovered
<1>1. InversionInv => YRecovered
  BY DEF InversionInv
<1>2. QED
  BY <1>1, InitInversionInv, StepInversionInv, PTL DEF InversionSpec

-----------------------------------------------------------------------------
(* Congruences and polynomials *)

\* a and b are the same modulo P.
Cong(a, b, P) == \E k \in Int : a - b = k * P

\* Congruence is reflexive, symmetric and transitive.
LEMMA CongEqual ==
  ASSUME NEW P \in Int, NEW a \in Int PROVE Cong(a, a, P)
<1>1. a - a = 0 * P /\ 0 \in Int
  OBVIOUS
<1>2. QED
  BY <1>1 DEF Cong

LEMMA CongSym ==
  ASSUME NEW P \in Int, NEW a \in Int, NEW b \in Int, Cong(a, b, P) PROVE Cong(b, a, P)
<1>1. PICK k \in Int : a - b = k * P
  BY DEF Cong
<1>2. b - a = (-k) * P /\ -k \in Int
  BY <1>1
<1>3. QED
  BY <1>2 DEF Cong

LEMMA CongTrans ==
  ASSUME NEW P \in Int, NEW a \in Int, NEW b \in Int, NEW c \in Int,
         Cong(a, b, P), Cong(b, c, P)
  PROVE  Cong(a, c, P)
<1>1. PICK k \in Int : a - b = k * P
  BY DEF Cong
<1>2. PICK l \in Int : b - c = l * P
  BY DEF Cong
<1>3. a - c = (k + l) * P /\ k + l \in Int
  BY <1>1, <1>2
<1>4. QED
  BY <1>3 DEF Cong

\* Sums, differences and products of numbers that are congruent are congruent.
LEMMA CongSum ==
  ASSUME NEW P \in Int, NEW a \in Int, NEW b \in Int, NEW c \in Int, NEW d \in Int,
         Cong(a, b, P), Cong(c, d, P)
  PROVE  Cong(a + c, b + d, P) /\ Cong(a - c, b - d, P)
<1>1. PICK k \in Int : a - b = k * P
  BY DEF Cong
<1>2. PICK l \in Int : c - d = l * P
  BY DEF Cong
<1>3. (a + c) - (b + d) = (k + l) * P /\ k + l \in Int
  BY <1>1, <1>2
<1>4. (a - c) - (b - d) = (k - l) * P /\ k - l \in Int
  BY <1>1, <1>2
<1>5. QED
  BY <1>3, <1>4 DEF Cong

LEMMA CongProduct ==
  ASSUME NEW P \in Int, NEW a \in Int, NEW b \in Int, NEW c \in Int, NEW d \in Int,
         Cong(a, b, P), Cong(c, d, P)
  PROVE  Cong(a * c, b * d, P)
<1>1. PICK k \in Int : a - b = k * P
  BY DEF Cong
<1>2. PICK l \in Int : c - d = l * P
  BY DEF Cong
<1>3. a * c - b * d = (a - b) * c + b * (c - d)
  OBVIOUS
<1>4. (k * P) * c + b * (l * P) = (k * c + b * l) * P /\ k * c + b * l \in Int
  OBVIOUS
<1>5. QED
  BY <1>1, <1>2, <1>3, <1>4 DEF Cong

\* A number is congruent to its residue, and to no other.
LEMMA CongResidue ==
  ASSUME NEW P \in Nat \ {0}, NEW a \in Int
  PROVE  a % P \in 0..P-1 /\ Cong(a % P, a, P)
<1>1. a % P \in 0..P-1 /\ a \div P \in Int
  OBVIOUS
<1>2. a % P = a - (a \div P) * P
  OBVIOUS
<1> DEFINE k == -(a \div P)
<1>3. k \in Int /\ (a % P) - a = k * P
  BY <1>1, <1>2
<1>4. QED
  BY <1>1, <1>3 DEF Cong

LEMMA CongResidues ==
  ASSUME NEW P \in Nat \ {0}, NEW a \in 0..P-1, NEW b \in 0..P-1, Cong(a, b, P)
  PROVE  a = b
<1>1. PICK k \in Int : a - b = k * P
  BY DEF Cong
<1>2. k >= 1 => k * P >= P
  OBVIOUS
<1>3. k <= -1 => k * P <= -P
  OBVIOUS
<1>4. QED
  BY <1>1, <1>2, <1>3

\* The squares of the factors of a sum, and their products.
LEMMA FactorSquares ==
  ASSUME NEW A \in Int, NEW B \in Int, NEW C \in Int, NEW D \in Int
  PROVE  /\ ((D + C) * (B + A)) * ((D + C) * (B + A)) - ((B - A) * (D - C)) * ((B - A) * (D - C))
              = 4 * ((A * B) * (D * D + C * C)) + 4 * ((C * D) * (A * A + B * B))
         /\ (D - C) * (D + C) = D * D - C * C
         /\ (B - A) * (B + A) = B * B - A * A
OBVIOUS

\* The first two products of the unified addition, in terms of the two points.
LEMMA FactorProducts ==
  ASSUME NEW X1 \in Int, NEW Y1 \in Int, NEW X2 \in Int, NEW Y2 \in Int
  PROVE  LET A == (Y1 - X1) * (Y2 - X2)
             B == (Y1 + X1) * (Y2 + X2)
         IN /\ 4 * (A * B) = (2 * (Y1 * Y1 - X1 * X1)) * (2 * (Y2 * Y2 - X2 * X2))
            /\ A * A + B * B = 2 * ((X1 * X1 + Y1 * Y1) * (X2 * X2 + Y2 * Y2))
                                 + 8 * ((X1 * Y1) * (X2 * Y2))
            /\ B * B - A * A = 4 * ((X2 * Y2) * (X1 * X1 + Y1 * Y1)
                                      + (X1 * Y1) * (X2 * X2 + Y2 * Y2))
<1> DEFINE A == (Y1 - X1) * (Y2 - X2)
           B == (Y1 + X1) * (Y2 + X2)
           g == Y1 * Y2 + X1 * X2
           e == X1 * Y2 + Y1 * X2
<1>1. 4 * (A * B) = (2 * (Y1 * Y1 - X1 * X1)) * (2 * (Y2 * Y2 - X2 * X2))
  OBVIOUS
<1>2. /\ A = g - e /\ B = g + e
      /\ g \in Int /\ e \in Int
  OBVIOUS
<1>3. /\ g * g + e * e = (X1 * X1 + Y1 * Y1) * (X2 * X2 + Y2 * Y2) + 4 * ((X1 * Y1) * (X2 * Y2))
      /\ g * e = (X2 * Y2) * (X1 * X1 + Y1 * Y1) + (X1 * Y1) * (X2 * X2 + Y2 * Y2)
  OBVIOUS
<1> HIDE DEF A, B, g, e
<1>4. A * A + B * B = 2 * (g * g + e * e) /\ B * B - A * A = 4 * (g * e)
  BY <1>2
<1>5. /\ A * A + B * B = 2 * ((X1 * X1 + Y1 * Y1) * (X2 * X2 + Y2 * Y2))
                                 + 8 * ((X1 * Y1) * (X2 * Y2))
      /\ B * B - A * A = 4 * ((X2 * Y2) * (X1 * X1 + Y1 * Y1)
                                      + (X1 * Y1) * (X2 * X2 + Y2 * Y2))
  BY <1>3, <1>4
<1>6. QED
  BY <1>1, <1>5 DEF A, B

\* The square of the sum of two squares.
LEMMA SquareOfSum ==
  ASSUME NEW X \in Int, NEW Y \in Int
  PROVE  4 * ((X * X + Y * Y) * (X * X + Y * Y))
           = (2 * (Y * Y - X * X)) * (2 * (Y * Y - X * X)) + 16 * ((X * Y) * (X * Y))
OBVIOUS

\* What is left of the curve's equation for a sum, in terms of the Z and T of the
\* two points.
LEMMA LastIdentity ==
  ASSUME NEW Z1 \in Int, NEW T1 \in Int, NEW Z2 \in Int, NEW T2 \in Int, NEW K2 \in Int
  PROVE  LET C == (K2 * T2) * T1
             D == 2 * (Z1 * Z2)
             U == 2 * (Z1 * Z1) + K2 * (T1 * T1)
             V == 2 * (Z2 * Z2) + K2 * (T2 * T2)
             M == Z1 * T1
             N == Z2 * T2
         IN /\ C * D = 2 * (K2 * (M * N))
            /\ 2 * ((U * V) * (D * D + C * C)) + 64 * ((C * D) * (M * N))
                 = 2 * ((D * D - C * C) * (D * D - C * C))
                     + 4 * (K2 * ((N * N) * (U * U + 16 * (M * M))
                                    + (M * M) * (V * V + 16 * (N * N))))
<1> DEFINE C == (K2 * T2) * T1
           D == 2 * (Z1 * Z2)
           U == 2 * (Z1 * Z1) + K2 * (T1 * T1)
           V == 2 * (Z2 * Z2) + K2 * (T2 * T2)
           M == Z1 * T1
           N == Z2 * T2
           P == Z1 * Z1
           Q == T1 * T1
           p == Z2 * Z2
           q == T2 * T2
<1>1. C * D = 2 * (K2 * (M * N))
  OBVIOUS
<1>2. /\ D * D = 4 * (P * p) /\ C * C = (K2 * K2) * (Q * q)
      /\ M * M = P * Q /\ N * N = p * q
      /\ U = 2 * P + K2 * Q /\ V = 2 * p + K2 * q
      /\ (M * N) * (M * N) = (P * Q) * (p * q)
      /\ P \in Int /\ Q \in Int /\ p \in Int /\ q \in Int /\ M \in Int /\ N \in Int
  OBVIOUS
<1> HIDE DEF P, Q, p, q, C, D, U, V, M, N
<1>3. (C * D) * (M * N) = 2 * (K2 * ((P * Q) * (p * q)))
  BY <1>1, <1>2
<1>4. U * V = 4 * (P * p) + 2 * (K2 * (P * q + Q * p)) + (K2 * K2) * (Q * q)
  BY <1>2
<1>5. U * U = 4 * (P * P) + 4 * (K2 * (P * Q)) + (K2 * K2) * (Q * Q)
  BY <1>2
<1>6. V * V = 4 * (p * p) + 4 * (K2 * (p * q)) + (K2 * K2) * (q * q)
  BY <1>2
<1>7. 2 * ((4 * (P * p) + 2 * (K2 * (P * q + Q * p)) + (K2 * K2) * (Q * q))
             * (4 * (P * p) + (K2 * K2) * (Q * q)))
        + 128 * (K2 * ((P * Q) * (p * q)))
        = 2 * ((4 * (P * p) - (K2 * K2) * (Q * q)) * (4 * (P * p) - (K2 * K2) * (Q * q)))
            + 4 * (K2 * ((p * q) * (4 * (P * P) + 4 * (K2 * (P * Q)) + (K2 * K2) * (Q * Q)
                                      + 16 * (P * Q))
                           + (P * Q) * (4 * (p * p) + 4 * (K2 * (p * q)) + (K2 * K2) * (q * q)
                                          + 16 * (p * q))))
  <2>1. P \in Int /\ Q \in Int /\ p \in Int /\ q \in Int
    BY <1>2
  <2>2. QED
    BY <2>1
<1>8. 2 * ((U * V) * (D * D + C * C)) + 64 * ((C * D) * (M * N))
        = 2 * ((D * D - C * C) * (D * D - C * C))
            + 4 * (K2 * ((N * N) * (U * U + 16 * (M * M)) + (M * M) * (V * V + 16 * (N * N))))
  <2>1. 64 * ((C * D) * (M * N)) = 128 * (K2 * ((P * Q) * (p * q)))
    BY <1>2, <1>3
  <2>2. /\ D * D = 4 * (P * p) /\ C * C = (K2 * K2) * (Q * q)
        /\ M * M = P * Q /\ N * N = p * q
    BY <1>2
  <2>3. QED
    BY <1>4, <1>5, <1>6, <1>7, <2>1, <2>2, Zenon
<1>9. QED
  BY <1>1, <1>8 DEF C, D, U, V, M, N

\* A linear term in numbers that are congruent.
LEMMA CongLinear ==
  ASSUME NEW P \in Int, NEW a \in Int, NEW b \in Int, NEW c \in Int, NEW d \in Int,
         NEW r \in Int, NEW s \in Int, NEW w \in Int, Cong(a, b, P), Cong(c, d, P)
  PROVE  Cong(r + s * a + w * c, r + s * b + w * d, P)
<1>1. PICK k \in Int : a - b = k * P
  BY DEF Cong
<1>2. PICK l \in Int : c - d = l * P
  BY DEF Cong
<1>3. (r + s * a + w * c) - (r + s * b + w * d) = s * (a - b) + w * (c - d)
  OBVIOUS
<1>4. s * (k * P) + w * (l * P) = (s * k + w * l) * P /\ s * k + w * l \in Int
  OBVIOUS
<1>5. QED
  BY <1>1, <1>2, <1>3, <1>4 DEF Cong

\* The coordinates of the sum satisfy the equation of the curve when those of the
\* two points do.
LEMMA UnifiedOnCurve ==
  ASSUME NEW P \in Int,
         NEW X1 \in Int, NEW Y1 \in Int, NEW Z1 \in Int, NEW T1 \in Int,
         NEW X2 \in Int, NEW Y2 \in Int, NEW Z2 \in Int, NEW T2 \in Int, NEW K2 \in Int,
         Cong(X1 * Y1, Z1 * T1, P),
         Cong(2 * (Y1 * Y1 - X1 * X1), 2 * (Z1 * Z1) + K2 * (T1 * T1), P),
         Cong(X2 * Y2, Z2 * T2, P),
         Cong(2 * (Y2 * Y2 - X2 * X2), 2 * (Z2 * Z2) + K2 * (T2 * T2), P)
  PROVE  LET A == (Y1 - X1) * (Y2 - X2)
             B == (Y1 + X1) * (Y2 + X2)
             C == (K2 * T2) * T1
             D == 2 * (Z1 * Z2)
             ef == (B - A) * (D - C)
             gh == (D + C) * (B + A)
             fg == (D - C) * (D + C)
             eh == (B - A) * (B + A)
         IN Cong(2 * (gh * gh - ef * ef), 2 * (fg * fg) + K2 * (eh * eh), P)
<1> DEFINE A == (Y1 - X1) * (Y2 - X2)
           B == (Y1 + X1) * (Y2 + X2)
           C == (K2 * T2) * T1
           D == 2 * (Z1 * Z2)
           ef == (B - A) * (D - C)
           gh == (D + C) * (B + A)
           fg == (D - C) * (D + C)
           eh == (B - A) * (B + A)
           u == 2 * (Y1 * Y1 - X1 * X1)
           U == 2 * (Z1 * Z1) + K2 * (T1 * T1)
           v == 2 * (Y2 * Y2 - X2 * X2)
           V == 2 * (Z2 * Z2) + K2 * (T2 * T2)
           m == X1 * Y1
           M == Z1 * T1
           n == X2 * Y2
           N == Z2 * T2
           S1 == X1 * X1 + Y1 * Y1
           S2 == X2 * X2 + Y2 * Y2
           CD == C * D
           sum == D * D + C * C
           dif == D * D - C * C
<1>1. /\ A \in Int /\ B \in Int /\ C \in Int /\ D \in Int /\ u \in Int /\ U \in Int
      /\ v \in Int /\ V \in Int /\ m \in Int /\ M \in Int /\ n \in Int /\ N \in Int
      /\ S1 \in Int /\ S2 \in Int
  OBVIOUS
<1>2. /\ gh * gh - ef * ef = 4 * ((A * B) * sum) + 4 * (CD * (A * A + B * B))
      /\ fg = dif /\ eh = B * B - A * A
  <2> HIDE DEF A, B, C, D
  <2>1. QED
    BY <1>1, FactorSquares
<1>3. /\ 4 * (A * B) = u * v
      /\ A * A + B * B = 2 * (S1 * S2) + 8 * (m * n)
      /\ B * B - A * A = 4 * (n * S1 + m * S2)
  BY FactorProducts
<1>4. 4 * (S1 * S1) = u * u + 16 * (m * m) /\ 4 * (S2 * S2) = v * v + 16 * (n * n)
  BY SquareOfSum
<1>5. /\ CD = 2 * (K2 * (M * N))
      /\ 2 * ((U * V) * sum) + 64 * (CD * (M * N))
           = 2 * (dif * dif)
               + 4 * (K2 * ((N * N) * (U * U + 16 * (M * M)) + (M * M) * (V * V + 16 * (N * N))))
  BY LastIdentity
<1>6. Cong(u, U, P) /\ Cong(v, V, P) /\ Cong(m, M, P) /\ Cong(n, N, P)
  OBVIOUS
<1>7. CD \in Int /\ sum \in Int /\ dif \in Int /\ fg \in Int /\ eh \in Int /\ ef \in Int /\ gh \in Int
  <2> HIDE DEF A, B, C, D
  <2>1. QED
    BY <1>1
<1> DEFINE L == 2 * (gh * gh - ef * ef)
           R == 2 * (fg * fg) + K2 * (eh * eh)
<1>20. SUFFICES Cong(L, R, P)
  OBVIOUS
<1> HIDE DEF A, B, C, D, u, U, v, V, m, M, n, N, S1, S2, sum, dif, CD, ef, gh, fg, eh
\* The left side.
<1>8. L = 16 * (CD * (S1 * S2)) + (2 * sum) * (u * v) + (64 * CD) * (m * n)
  <2> DEFINE k == S1 * S2
             l == m * n
             a == u * v
  <2>1. /\ A * A + B * B = 2 * k + 8 * l /\ 4 * (A * B) = a
        /\ k \in Int /\ l \in Int /\ a \in Int
    BY <1>1, <1>3
  <2>2. L = 2 * (4 * ((A * B) * sum) + 4 * (CD * (A * A + B * B)))
    BY <1>2
  <2> HIDE DEF k, l, a, L
  <2>3. L = 16 * (CD * k) + (2 * sum) * a + (64 * CD) * l
    <3>1. 4 * (CD * (2 * k + 8 * l)) = 8 * (CD * k) + 32 * (CD * l)
      BY <1>7, <2>1
    <3>2. 4 * ((A * B) * sum) = sum * a
      BY <1>1, <1>7, <2>1
    <3>3. QED
      BY <1>7, <2>1, <2>2, <3>1, <3>2
  <2>4. QED
    BY <2>3 DEF k, l, a
<1>9. Cong(u * v, U * V, P) /\ Cong(m * n, M * N, P)
  BY <1>1, <1>6, CongProduct
<1>10. Cong(L, 16 * (CD * (S1 * S2)) + (2 * sum) * (U * V) + (64 * CD) * (M * N), P)
  <2> DEFINE r == 16 * (CD * (S1 * S2))
             p == 2 * sum
             w == 64 * CD
             a == u * v
             b == U * V
             c == m * n
             d == M * N
  <2>1. /\ r \in Int /\ p \in Int /\ w \in Int
        /\ a \in Int /\ b \in Int /\ c \in Int /\ d \in Int
    BY <1>1, <1>7
  <2>2. Cong(a, b, P) /\ Cong(c, d, P)
    BY <1>9
  <2>3. L = r + p * a + w * c
    BY <1>8
  <2> HIDE DEF r, p, w, a, b, c, d
  <2>4. Cong(r + p * a + w * c, r + p * b + w * d, P)
    BY <2>1, <2>2, CongLinear
  <2>5. QED
    BY <2>3, <2>4 DEF r, p, w, a, b, c, d
\* The right side.
<1>11. R = 2 * (dif * dif) + (16 * K2) * ((n * S1 + m * S2) * (n * S1 + m * S2))
  <2> DEFINE q == n * S1 + m * S2
  <2>1. eh = 4 * q /\ q \in Int
    BY <1>1, <1>2, <1>3
  <2>2. R = 2 * (dif * dif) + K2 * (eh * eh)
    BY <1>2
  <2> HIDE DEF q, R
  <2>3. R = 2 * (dif * dif) + (16 * K2) * (q * q)
    BY <1>7, <2>1, <2>2
  <2>4. QED
    BY <2>3 DEF q
<1>12. Cong(n * S1 + m * S2, N * S1 + M * S2, P)
  <2>1. Cong(n * S1, N * S1, P) /\ Cong(m * S2, M * S2, P)
    <3>1. Cong(S1, S1, P) /\ Cong(S2, S2, P)
      BY <1>1, CongEqual
    <3>2. QED
      BY <1>1, <1>6, <3>1, CongProduct
  <2>2. n * S1 \in Int /\ N * S1 \in Int /\ m * S2 \in Int /\ M * S2 \in Int
    BY <1>1
  <2>3. QED
    BY <2>1, <2>2, CongSum
<1>13. Cong(4 * (S1 * S1), U * U + 16 * (M * M), P)
       /\ Cong(4 * (S2 * S2), V * V + 16 * (N * N), P)
  <2>1. Cong(16, 16, P) /\ 16 \in Int
    BY CongEqual
  <2>2. /\ Cong(u * u, U * U, P) /\ Cong(v * v, V * V, P)
        /\ Cong(m * m, M * M, P) /\ Cong(n * n, N * N, P)
    BY <1>1, <1>6, CongProduct
  <2>3. /\ u * u \in Int /\ U * U \in Int /\ v * v \in Int /\ V * V \in Int
        /\ m * m \in Int /\ M * M \in Int /\ n * n \in Int /\ N * N \in Int
        /\ 16 * (m * m) \in Int /\ 16 * (M * M) \in Int
        /\ 16 * (n * n) \in Int /\ 16 * (N * N) \in Int
    BY <1>1
  <2>4. Cong(16 * (m * m), 16 * (M * M), P) /\ Cong(16 * (n * n), 16 * (N * N), P)
    BY <2>1, <2>2, <2>3, CongProduct
  <2>5. /\ Cong(u * u + 16 * (m * m), U * U + 16 * (M * M), P)
        /\ Cong(v * v + 16 * (n * n), V * V + 16 * (N * N), P)
    BY <2>2, <2>3, <2>4, CongSum
  <2>6. QED
    BY <1>4, <2>5
<1> DEFINE q == n * S1 + m * S2
           Q == N * S1 + M * S2
           k == S1 * S2
           l == M * N
           sq == 4 * (S1 * S1)
           sU == U * U + 16 * (M * M)
           sr == 4 * (S2 * S2)
           sV == V * V + 16 * (N * N)
           dd == 2 * (dif * dif)
<1>14. /\ q \in Int /\ Q \in Int /\ k \in Int /\ l \in Int /\ dd \in Int
       /\ sq \in Int /\ sU \in Int /\ sr \in Int /\ sV \in Int
  BY <1>1, <1>7
<1>15. Cong(R, dd + (16 * K2) * (Q * Q), P)
  <2> DEFINE w == 16 * K2
             b == q * q
             c == Q * Q
  <2>1. Cong(b, c, P)
    BY <1>12, <1>14, CongProduct
  <2>2. w \in Int /\ b \in Int /\ c \in Int
    BY <1>14
  <2>3. R = dd + w * b
    BY <1>11
  <2> HIDE DEF w, b, c, dd
  <2>4. Cong(w, w, P) /\ Cong(dd, dd, P)
    BY <1>14, <2>2, CongEqual
  <2>5. Cong(w * b, w * c, P) /\ w * b \in Int /\ w * c \in Int
    BY <2>1, <2>2, <2>4, CongProduct
  <2>6. Cong(dd + w * b, dd + w * c, P)
    BY <1>14, <2>4, <2>5, CongSum
  <2>7. QED
    BY <2>3, <2>6 DEF w, b, c
<1>16. (16 * K2) * (Q * Q) = (4 * (K2 * (N * N))) * sq + (4 * (K2 * (M * M))) * sr
                               + 32 * (K2 * (l * k))
  BY <1>1
<1>17. dd + (16 * K2) * (Q * Q)
         = dd + 32 * (K2 * (l * k)) + (4 * (K2 * (N * N))) * sq + (4 * (K2 * (M * M))) * sr
  <2> HIDE DEF q, Q, k, l, sq, sr, dd
  <2>1. QED
    BY <1>1, <1>14, <1>16
<1>18. Cong(dd + 32 * (K2 * (l * k)) + (4 * (K2 * (N * N))) * sq + (4 * (K2 * (M * M))) * sr,
            dd + 32 * (K2 * (l * k)) + (4 * (K2 * (N * N))) * sU + (4 * (K2 * (M * M))) * sV, P)
  <2> DEFINE r == dd + 32 * (K2 * (l * k))
             p == 4 * (K2 * (N * N))
             w == 4 * (K2 * (M * M))
  <2>1. r \in Int /\ p \in Int /\ w \in Int
    BY <1>1, <1>14
  <2>2. Cong(sq, sU, P) /\ Cong(sr, sV, P)
    BY <1>13
  <2> HIDE DEF q, Q, k, l, sq, sr, sU, sV, dd, r, p, w
  <2>3. Cong(r + p * sq + w * sr, r + p * sU + w * sV, P)
    BY <1>14, <2>1, <2>2, CongLinear
  <2>4. QED
    BY <2>3 DEF r, p, w
<1> DEFINE LL == 16 * (CD * k) + (2 * sum) * (U * V) + (64 * CD) * l
           RR == dd + 32 * (K2 * (l * k)) + (4 * (K2 * (N * N))) * sU + (4 * (K2 * (M * M))) * sV
<1>19. LL = RR
  <2> DEFINE a == K2 * ((N * N) * sU + (M * M) * sV)
  <2>1. 2 * ((U * V) * sum) + 64 * (CD * l) = dd + 4 * a /\ CD = 2 * (K2 * l)
    BY <1>5
  <2>2. (4 * (K2 * (N * N))) * sU + (4 * (K2 * (M * M))) * sV = 4 * a
    <3> HIDE DEF sU, sV
    <3>1. QED
      BY <1>1, <1>14
  <2>3. LL = 16 * (CD * k) + (2 * ((U * V) * sum) + 64 * (CD * l))
    <3> HIDE DEF k, l
    <3>1. QED
      BY <1>1, <1>7, <1>14
  <2>4. 16 * (CD * k) = 32 * (K2 * (l * k))
    <3> HIDE DEF k, l
    <3>1. QED
      BY <1>14, <2>1
  <2>5. RR = dd + 32 * (K2 * (l * k)) + 4 * a
    <3> HIDE DEF k, l, sU, sV, dd, a
    <3>1. 4 * (K2 * (N * N)) * sU \in Int /\ 4 * (K2 * (M * M)) * sV \in Int
          /\ 32 * (K2 * (l * k)) \in Int
      BY <1>1, <1>14
    <3>2. QED
      BY <1>14, <2>2, <3>1
  <2>6. a \in Int /\ 32 * (K2 * (l * k)) \in Int
    <3> HIDE DEF k, l, sU, sV
    <3>1. QED
      BY <1>1, <1>14
  <2>7. LL = 32 * (K2 * (l * k)) + (dd + 4 * a)
    BY <2>1, <2>3, <2>4
  <2>8. QED
    <3> DEFINE x == 32 * (K2 * (l * k))
    <3> HIDE DEF k, l, dd, a, LL, RR, x
    <3>1. x \in Int /\ a \in Int /\ dd \in Int /\ LL = x + (dd + 4 * a) /\ RR = dd + x + 4 * a
      BY <1>14, <2>5, <2>6, <2>7 DEF x
    <3>2. QED
      BY <3>1
<1>21. L \in Int /\ R \in Int /\ LL \in Int /\ RR \in Int
       /\ dd + (16 * K2) * (Q * Q) \in Int
       /\ dd + 32 * (K2 * (l * k)) + (4 * (K2 * (N * N))) * sq + (4 * (K2 * (M * M))) * sr \in Int
  <2> HIDE DEF q, Q, k, l, sq, sr, sU, sV, dd
  <2>1. QED
    BY <1>1, <1>7, <1>14
<1>22. Cong(L, LL, P)
  BY <1>10
<1>23. Cong(R, RR, P)
  <2> HIDE DEF q, Q, k, l, sq, sr, sU, sV, dd, R
  <2>1. QED
    BY <1>15, <1>17, <1>18, <1>21, CongTrans
<1>24. QED
  <2> HIDE DEF L, R, LL, RR
  <2>1. QED
    BY <1>19, <1>21, <1>22, <1>23, CongSym, CongTrans

\* Were C = D or C = -D, a denominator of the affine addition, 2 * K2 would be a
\* quotient of two squares; w is a root of -1.
LEMMA UnifiedSquares ==
  ASSUME NEW P \in Int,
         NEW X1 \in Int, NEW Y1 \in Int, NEW Z1 \in Int, NEW T1 \in Int,
         NEW X2 \in Int, NEW Y2 \in Int, NEW Z2 \in Int, NEW T2 \in Int, NEW K2 \in Int,
         Cong(X1 * Y1, Z1 * T1, P),
         Cong(2 * (Y1 * Y1 - X1 * X1), 2 * (Z1 * Z1) + K2 * (T1 * T1), P),
         Cong(X2 * Y2, Z2 * T2, P),
         Cong(2 * (Y2 * Y2 - X2 * X2), 2 * (Z2 * Z2) + K2 * (T2 * T2), P),
         NEW w \in Int, Cong(w * w, -1, P),
         NEW e \in {1, -1}, NEW g \in {1, -1},
         Cong((K2 * T2) * T1, e * (2 * (Z1 * Z2)), P)
  PROVE  LET lhs == 2 * (Z2 * (w * X1 + (e * g) * Y1))
             rhs == T1 * (w * X2 + g * Y2)
         IN Cong(lhs * lhs, (2 * K2) * (rhs * rhs), P)
<1> DEFINE lhs == 2 * (Z2 * (w * X1 + (e * g) * Y1))
           rhs == T1 * (w * X2 + g * Y2)
           C == (K2 * T2) * T1
           D == 2 * (Z1 * Z2)
           a == e * g
           u == 2 * (Y1 * Y1 - X1 * X1)
           U == 2 * (Z1 * Z1) + K2 * (T1 * T1)
           v == 2 * (Y2 * Y2 - X2 * X2)
           V == 2 * (Z2 * Z2) + K2 * (T2 * T2)
           m == X1 * Y1
           M == Z1 * T1
           n == X2 * Y2
           N == Z2 * T2
<1>1. /\ a \in Int /\ e \in Int /\ g \in Int /\ C \in Int /\ D \in Int /\ -1 \in Int
      /\ u \in Int /\ U \in Int /\ v \in Int /\ V \in Int
      /\ m \in Int /\ M \in Int /\ n \in Int /\ N \in Int /\ w * w \in Int
  OBVIOUS
<1>2. e * e = 1 /\ g * g = 1 /\ a * a = 1
  OBVIOUS
<1>3. Cong(lhs * lhs, (2 * (Z2 * Z2)) * u + (8 * (w * (a * (Z2 * Z2)))) * m, P)
  <2> DEFINE r == 4 * ((Z2 * Z2) * (Y1 * Y1))
             s == 4 * ((Z2 * Z2) * (X1 * X1))
             h == 8 * (w * (a * (Z2 * Z2)))
  <2>1. r \in Int /\ s \in Int /\ h \in Int
    OBVIOUS
  <2>2. lhs * lhs = r * (a * a) + s * (w * w) + h * m
    <3> DEFINE q == w * X1 + a * Y1
               zz == Z2 * Z2
    <3> HIDE DEF a
    <3>1. q * q = (w * w) * (X1 * X1) + 2 * (w * (a * m)) + (a * a) * (Y1 * Y1) /\ q \in Int
      BY <1>1
    <3>2. lhs * lhs = 4 * (zz * (q * q))
      <4>1. lhs = 2 * (Z2 * q)
        BY DEF a
      <4> HIDE DEF q, lhs
      <4>2. (2 * (Z2 * q)) * (2 * (Z2 * q)) = 4 * ((Z2 * Z2) * (q * q))
        BY <3>1
      <4>3. QED
        BY <4>1, <4>2, Zenon
    <3>3. zz * ((w * w) * (X1 * X1) + 2 * (w * (a * m)) + (a * a) * (Y1 * Y1))
            = (zz * (X1 * X1)) * (w * w) + 2 * ((w * (a * zz)) * m) + (zz * (Y1 * Y1)) * (a * a)
      <4>1. zz \in Int
        OBVIOUS
      <4> HIDE DEF zz, m
      <4>2. QED
        BY <1>1, <4>1
    <3>4. r = 4 * (zz * (Y1 * Y1)) /\ s = 4 * (zz * (X1 * X1)) /\ h = 8 * (w * (a * zz))
      OBVIOUS
    <3> HIDE DEF q, zz, lhs, r, s, h, m
    <3>5. lhs * lhs = 4 * ((zz * (X1 * X1)) * (w * w) + 2 * ((w * (a * zz)) * m) + (zz * (Y1 * Y1)) * (a * a))
      BY <3>1, <3>2, <3>3
    <3>6. zz \in Int
      BY DEF zz
    <3>7. QED
      BY <1>1, <3>4, <3>5, <3>6
  <2>3. lhs * lhs = r + s * (w * w) + h * m
    <3> HIDE DEF r, s, h, a, lhs, m
    <3>1. QED
      BY <1>1, <1>2, <2>1, <2>2
  <2>4. (2 * (Z2 * Z2)) * u + h * m = r + s * (-1) + h * m
    <3>1. (2 * (Z2 * Z2)) * u = r - s
      OBVIOUS
    <3> HIDE DEF r, s, h, u, m
    <3>2. QED
      BY <1>1, <2>1, <3>1
  <2>5. Cong(r + s * (w * w) + h * m, r + s * (-1) + h * m, P)
    <3> HIDE DEF r, s, h, m
    <3> DEFINE ww == w * w
               minus == -1
    <3>1. Cong(m, m, P) /\ Cong(ww, minus, P) /\ minus \in Int /\ ww \in Int
      BY <1>1, CongEqual
    <3> HIDE DEF ww, minus
    <3>2. Cong(r + s * ww + h * m, r + s * minus + h * m, P)
      BY <1>1, <2>1, <3>1, CongLinear
    <3>3. QED
      BY <3>2 DEF ww, minus
  <2>6. QED
    BY <2>3, <2>4, <2>5
<1>4. Cong((2 * (Z2 * Z2)) * u + (8 * (w * (a * (Z2 * Z2)))) * m,
           (2 * (Z2 * Z2)) * U + (8 * (w * (a * (Z2 * Z2)))) * M, P)
  <2> DEFINE r == 2 * (Z2 * Z2)
             s == 8 * (w * (a * (Z2 * Z2)))
  <2>1. r \in Int /\ s \in Int
    OBVIOUS
  <2>2. Cong(u, U, P) /\ Cong(m, M, P)
    OBVIOUS
  <2> HIDE DEF r, s, u, U, m, M
  <2>3. Cong(r * u, r * U, P) /\ Cong(s * m, s * M, P)
    BY <1>1, <2>1, <2>2, CongEqual, CongProduct
  <2>4. r * u \in Int /\ r * U \in Int /\ s * m \in Int /\ s * M \in Int
    BY <1>1, <2>1
  <2>5. Cong(r * u + s * m, r * U + s * M, P)
    BY <2>3, <2>4, CongSum
  <2>6. QED
    BY <2>5 DEF r, s
<1>5. Cong((2 * K2) * (rhs * rhs), (K2 * (T1 * T1)) * v + (4 * (K2 * ((T1 * T1) * (w * g)))) * n, P)
  <2> DEFINE r == 2 * (K2 * ((T1 * T1) * (Y2 * Y2)))
             s == 2 * (K2 * ((T1 * T1) * (X2 * X2)))
             h == 4 * (K2 * ((T1 * T1) * (w * g)))
  <2>1. r \in Int /\ s \in Int /\ h \in Int
    OBVIOUS
  <2>2. (2 * K2) * (rhs * rhs) = r + s * (w * w) + h * n
    <3> DEFINE q == w * X2 + g * Y2
               tt == T1 * T1
    <3>1. q * q = (w * w) * (X2 * X2) + 2 * (w * (g * n)) + (Y2 * Y2) /\ q \in Int
      BY <1>2
    <3>2. rhs * rhs = tt * (q * q)
      <4>1. rhs = T1 * q
        OBVIOUS
      <4> HIDE DEF q, rhs
      <4>2. (T1 * q) * (T1 * q) = (T1 * T1) * (q * q)
        BY <3>1
      <4>3. QED
        BY <4>1, <4>2, Zenon
    <3>3. (2 * K2) * (tt * ((w * w) * (X2 * X2) + 2 * (w * (g * n)) + (Y2 * Y2)))
            = 2 * (K2 * (tt * (Y2 * Y2))) + (2 * (K2 * (tt * (X2 * X2)))) * (w * w)
                + (4 * (K2 * (tt * (w * g)))) * n
      <4>1. tt \in Int
        OBVIOUS
      <4> HIDE DEF tt, n
      <4>2. QED
        BY <1>1, <4>1
    <3> HIDE DEF q, rhs, n
    <3>4. QED
      BY <3>1, <3>2, <3>3, Zenon
  <2>3. (K2 * (T1 * T1)) * v + h * n = r + s * (-1) + h * n
    <3>1. (K2 * (T1 * T1)) * v = r - s
      OBVIOUS
    <3> HIDE DEF r, s, h, v, n
    <3>2. QED
      BY <1>1, <2>1, <3>1
  <2>4. Cong(r + s * (w * w) + h * n, r + s * (-1) + h * n, P)
    <3> HIDE DEF r, s, h, n
    <3> DEFINE ww == w * w
               minus == -1
    <3>1. Cong(n, n, P) /\ Cong(ww, minus, P) /\ minus \in Int /\ ww \in Int
      BY <1>1, CongEqual
    <3> HIDE DEF ww, minus
    <3>2. Cong(r + s * ww + h * n, r + s * minus + h * n, P)
      BY <1>1, <2>1, <3>1, CongLinear
    <3>3. QED
      BY <3>2 DEF ww, minus
  <2>5. QED
    BY <2>2, <2>3, <2>4
<1> DEFINE K == 4 * (K2 * ((T1 * T1) * (w * g)))
           r == 2 * (K2 * ((T1 * T1) * (Z2 * Z2)))
           h == 4 * ((T1 * Z2) * (w * g))
<1>6. K \in Int /\ r \in Int /\ h \in Int
  OBVIOUS
<1>7. Cong((K2 * (T1 * T1)) * v + K * n, (K2 * (T1 * T1)) * V + K * N, P)
  <2> DEFINE s == K2 * (T1 * T1)
  <2>1. s \in Int
    OBVIOUS
  <2>2. Cong(v, V, P) /\ Cong(n, N, P)
    OBVIOUS
  <2> HIDE DEF s, v, V, n, N, K
  <2>3. Cong(s * v, s * V, P) /\ Cong(K * n, K * N, P)
    BY <1>1, <1>6, <2>1, <2>2, CongEqual, CongProduct
  <2>4. s * v \in Int /\ s * V \in Int /\ K * n \in Int /\ K * N \in Int
    BY <1>1, <1>6, <2>1
  <2>5. Cong(s * v + K * n, s * V + K * N, P)
    BY <2>3, <2>4, CongSum
  <2>6. QED
    BY <2>5 DEF s
<1>8. (K2 * (T1 * T1)) * V + K * N = r + C * C + h * C
  <2>1. (K2 * (T1 * T1)) * V = r + C * C
    OBVIOUS
  <2>2. K * N = h * C
    <3> DEFINE k == w * g
    <3>1. k \in Int
      OBVIOUS
    <3> HIDE DEF k
    <3>2. (4 * (K2 * ((T1 * T1) * k))) * (Z2 * T2) = (4 * ((T1 * Z2) * k)) * ((K2 * T2) * T1)
      BY <3>1
    <3>3. QED
      BY <3>2 DEF k
  <2>3. QED
    BY <2>1, <2>2, Zenon
<1>9. Cong(r + C * C + h * C, r + (e * D) * (e * D) + h * (e * D), P)
  <2> DEFINE b == e * D
  <2>1. Cong(C, b, P) /\ b \in Int
    BY <1>1
  <2> HIDE DEF b, C, D, r, h
  <2>2. Cong(C * C, b * b, P) /\ Cong(h * C, h * b, P) /\ Cong(r, r, P)
    BY <1>1, <1>6, <2>1, CongEqual, CongProduct
  <2>3. /\ C * C \in Int /\ b * b \in Int /\ h * C \in Int /\ h * b \in Int
        /\ r + C * C \in Int /\ r + b * b \in Int
    BY <1>1, <1>6, <2>1
  <2>4. Cong(r + C * C, r + b * b, P)
    BY <1>6, <2>2, <2>3, CongSum
  <2>5. Cong(r + C * C + h * C, r + b * b + h * b, P)
    BY <2>2, <2>3, <2>4, CongSum
  <2>6. QED
    BY <2>5 DEF b
<1>10. r + (e * D) * (e * D) + h * (e * D) = (2 * (Z2 * Z2)) * U + (8 * (w * (a * (Z2 * Z2)))) * M
  <2>1. (e * D) * (e * D) = D * D
    BY <1>1, <1>2
  <2>2. r + D * D = (2 * (Z2 * Z2)) * U
    OBVIOUS
  <2>3. h * (e * D) = (8 * (w * (a * (Z2 * Z2)))) * M
    <3>1. e \in Int /\ g \in Int
      BY <1>1
    <3>2. QED
      BY <3>1
  <2>4. QED
    BY <2>1, <2>2, <2>3, Zenon
<1> DEFINE p1 == lhs * lhs
           p2 == (2 * (Z2 * Z2)) * u + (8 * (w * (a * (Z2 * Z2)))) * m
           p3 == (2 * (Z2 * Z2)) * U + (8 * (w * (a * (Z2 * Z2)))) * M
           p4 == (2 * K2) * (rhs * rhs)
           p5 == (K2 * (T1 * T1)) * v + K * n
           p6 == (K2 * (T1 * T1)) * V + K * N
<1>11. p1 \in Int /\ p2 \in Int /\ p3 \in Int /\ p4 \in Int /\ p5 \in Int /\ p6 \in Int
  BY <1>1
<1>12. Cong(p1, p2, P) /\ Cong(p2, p3, P)
  BY <1>3, <1>4
<1>13. Cong(p4, p5, P) /\ Cong(p5, p6, P) /\ Cong(p6, p3, P)
  <2>1. Cong(p6, r + (e * D) * (e * D) + h * (e * D), P)
    BY <1>8, <1>9, Zenon
  <2>2. Cong(p6, p3, P)
    BY <1>10, <2>1, Zenon
  <2>3. QED
    BY <1>5, <1>7, <2>2
<1>14. QED
  <2>1. SUFFICES Cong(p1, p4, P)
    OBVIOUS
  <2> HIDE DEF p1, p2, p3, p4, p5, p6
  <2>2. QED
    BY <1>11, <1>12, <1>13, CongSym, CongTrans

-----------------------------------------------------------------------------
(* The elements of the field as numbers *)

\* The number of elements of the field.
P == Cardinality(F)

\* The elements are the residues, zero and one among them.
LEMMA Residues ==
  /\ P \in Nat \ {0} /\ P > 1 /\ F = 0..P-1 /\ F \subseteq Int /\ D2 \in F
  /\ Zero = 0 /\ One = 1 /\ 0 \in F /\ 1 \in F
<1>1. P \in Nat /\ F = 0..P-1 /\ Zero = 0 /\ One = 1 /\ D2 \in F
  BY CurveAssumption DEF P
<1>2. One \in F /\ One # Zero
  BY FieldAssumption DEF Units
<1>3. QED
  BY <1>1, <1>2

\* The operations of the field are those of the integers modulo P.
LEMMA Operations ==
  \A a, b \in F :
    /\ Add(a, b) \in F /\ Cong(Add(a, b), a + b, P)
    /\ Sub(a, b) \in F /\ Cong(Sub(a, b), a - b, P)
    /\ Mul(a, b) \in F /\ Cong(Mul(a, b), a * b, P)
    /\ Cong(a, b, P) => a = b
<1>1. P \in Nat /\ F = 0..P-1
  BY Residues
<1>3. P \in Nat \ {0} /\ P > 1 /\ F \subseteq Int
  BY Residues
<1>4. ASSUME NEW a \in F, NEW b \in F
      PROVE  /\ Add(a, b) \in F /\ Cong(Add(a, b), a + b, P)
             /\ Sub(a, b) \in F /\ Cong(Sub(a, b), a - b, P)
             /\ Mul(a, b) \in F /\ Cong(Mul(a, b), a * b, P)
             /\ Cong(a, b, P) => a = b
  <2>1. a + b \in Int /\ a - b \in Int /\ a * b \in Int
    BY <1>3
  <2>2. Add(a, b) = (a + b) % P /\ Sub(a, b) = (a - b) % P /\ Mul(a, b) = (a * b) % P
    BY CurveAssumption DEF P
  <2>3. /\ (a + b) % P \in 0..P-1 /\ Cong((a + b) % P, a + b, P)
        /\ (a - b) % P \in 0..P-1 /\ Cong((a - b) % P, a - b, P)
        /\ (a * b) % P \in 0..P-1 /\ Cong((a * b) % P, a * b, P)
    <3> HIDE DEF P
    <3>1. \A n \in Int : n % P \in 0..P-1 /\ Cong(n % P, n, P)
      BY <1>3, CongResidue
    <3>2. QED
      BY <2>1, <3>1, Zenon
  <2>4. Cong(a, b, P) => a = b
    BY <1>1, <1>3, CongResidues
  <2>5. QED
    BY <1>1, <2>2, <2>3, <2>4, Zenon
<1>5. QED
  BY <1>4, Zenon

\* A number is congruent to a residue.
LEMMA HasResidue ==
  ASSUME NEW a \in Int
  PROVE  \E b \in F : Cong(b, a, P)
<1>1. P \in Nat \ {0} /\ F = 0..P-1
  BY Residues
<1> HIDE DEF P
<1>2. a % P \in F /\ Cong(a % P, a, P)
  BY <1>1, CongResidue
<1>3. QED
  BY <1>2, Zenon

\* A product is zero only if a factor is.
LEMMA NoZeroDivisors ==
  ASSUME NEW a \in Int, NEW b \in Int, Cong(a * b, 0, P)
  PROVE  Cong(a, 0, P) \/ Cong(b, 0, P)
<1>1. PICK x \in F : Cong(x, a, P)
  BY HasResidue
<1>2. PICK y \in F : Cong(y, b, P)
  BY HasResidue
<1>3. Mul(x, y) \in F /\ Cong(Mul(x, y), x * y, P)
  BY Operations, Zenon
<1>4. /\ x \in Int /\ y \in Int /\ a * b \in Int /\ x * y \in Int /\ Mul(x, y) \in Int
      /\ 0 \in Int /\ 0 \in F /\ P \in Int
  BY <1>3, Residues
<1>5. Cong(x * y, a * b, P)
  BY <1>1, <1>2, <1>4, CongProduct
<1>6. Cong(Mul(x, y), 0, P)
  BY <1>3, <1>4, <1>5, CongTrans
<1>7. Mul(x, y) = 0
  BY <1>3, <1>4, <1>6, Operations, Zenon
<1>8. x = 0 \/ y = 0
  BY <1>7, Residues, FieldAssumption DEF Units
<1>9. QED
  BY <1>1, <1>2, <1>4, <1>8, CongSym

\* A number that is not zero has an inverse.
LEMMA Inverses ==
  ASSUME NEW a \in Int, ~Cong(a, 0, P)
  PROVE  \E v \in F : Cong(a * v, 1, P)
<1>1. PICK x \in F : Cong(x, a, P)
  BY HasResidue
<1>2. x \in Int /\ P \in Int /\ 0 \in Int /\ 1 \in Int /\ F \subseteq Int
  BY Residues
<1>3. x # 0
  BY <1>1, <1>2, CongSym
<1>4. Inv(x) \in F /\ Mul(x, Inv(x)) = 1
  BY <1>3, Residues, FieldAssumption DEF Units
<1>5. Cong(1, x * Inv(x), P)
  <2>1. Cong(Mul(x, Inv(x)), x * Inv(x), P)
    BY <1>4, Operations, Zenon
  <2>2. QED
    BY <1>4, <2>1, Zenon
<1> DEFINE v == Inv(x)
<1>6. v \in F /\ v \in Int /\ Cong(1, x * v, P)
  BY <1>2, <1>4, <1>5
<1> HIDE DEF v
<1>7. Cong(x * v, a * v, P) /\ x * v \in Int /\ a * v \in Int
  BY <1>1, <1>2, <1>6, CongEqual, CongProduct
<1>8. Cong(a * v, 1, P)
  BY <1>2, <1>6, <1>7, CongSym, CongTrans
<1>9. QED
  BY <1>6, <1>8

\* The modulus is odd.
LEMMA TwoIsNotZero ==
  ~Cong(2, 0, P)
<1>1. P \in Nat /\ P % 2 = 1 /\ P > 1
  BY Residues, CurveAssumption DEF P
<1>2. 2 \in 0..P-1 /\ 0 \in 0..P-1 /\ P \in Nat \ {0}
  BY <1>1
<1>3. QED
  BY <1>2, CongResidues

\* What the definition of a valid point says of its coordinates as numbers.
LEMMA ValidIsCong ==
  ASSUME NEW p \in Points
  PROVE  Valid(p) <=>
           /\ p.Z # 0
           /\ Cong(p.X * p.Y, p.Z * p.T, P)
           /\ Cong(2 * (p.Y * p.Y - p.X * p.X), 2 * (p.Z * p.Z) + D2 * (p.T * p.T), P)
<1> DEFINE x == p.X
           y == p.Y
           z == p.Z
           w == p.T
<1>1. x \in F /\ y \in F /\ z \in F /\ w \in F /\ D2 \in F
  BY Residues DEF Points
<1> HIDE DEF x, y, z, w
<1>2. /\ x \in Int /\ y \in Int /\ z \in Int /\ w \in Int /\ D2 \in Int /\ P \in Int
      /\ x * y \in Int /\ z * w \in Int /\ x * x \in Int /\ y * y \in Int
      /\ z * z \in Int /\ w * w \in Int
  BY <1>1, Residues
<1>3. Mul(x, y) = Mul(z, w) <=> Cong(x * y, z * w, P)
  <2>1. /\ Mul(x, y) \in F /\ Cong(Mul(x, y), x * y, P)
        /\ Mul(z, w) \in F /\ Cong(Mul(z, w), z * w, P)
    BY <1>1, Operations, Zenon
  <2>2. Mul(x, y) \in Int /\ Mul(z, w) \in Int
    BY <2>1, Residues
  <2>3. ASSUME Mul(x, y) = Mul(z, w) PROVE Cong(x * y, z * w, P)
    BY <1>2, <2>1, <2>2, <2>3, CongSym, CongTrans
  <2>4. ASSUME Cong(x * y, z * w, P) PROVE Mul(x, y) = Mul(z, w)
    <3>1. Cong(Mul(x, y), Mul(z, w), P)
      BY <1>2, <2>1, <2>2, <2>4, CongSym, CongTrans
    <3>2. QED
      BY <2>1, <3>1, Operations, Zenon
  <2>5. QED
    BY <2>3, <2>4
<1> DEFINE xx == Mul(x, x)
           yy == Mul(y, y)
           zz == Mul(z, z)
           ww == Mul(w, w)
           dif == Sub(yy, xx)
           lhs == Add(dif, dif)
           rhs == Add(Add(zz, zz), Mul(D2, ww))
           l == 2 * (y * y - x * x)
           r == 2 * (z * z) + D2 * (w * w)
<1>4. /\ xx \in F /\ yy \in F /\ zz \in F /\ ww \in F
      /\ Cong(xx, x * x, P) /\ Cong(yy, y * y, P) /\ Cong(zz, z * z, P) /\ Cong(ww, w * w, P)
  BY <1>1, Operations, Zenon
<1> HIDE DEF xx, yy, zz, ww
<1>5. xx \in Int /\ yy \in Int /\ zz \in Int /\ ww \in Int
  BY <1>4, Residues
<1>6. lhs \in F /\ lhs \in Int /\ Cong(lhs, l, P)
  <2>1. dif \in F /\ Cong(dif, yy - xx, P) /\ Cong(yy - xx, y * y - x * x, P)
    <3>1. dif \in F /\ Cong(dif, yy - xx, P)
      BY <1>4, Operations, Zenon
    <3>2. Cong(yy - xx, y * y - x * x, P)
      BY <1>2, <1>4, <1>5, CongSum
    <3>3. QED
      BY <3>1, <3>2
  <2>2. dif \in Int /\ yy - xx \in Int /\ y * y - x * x \in Int
    BY <1>2, <1>5, <2>1, Residues
  <2> DEFINE k == y * y - x * x
  <2>3. Cong(dif, k, P) /\ k \in Int
    BY <1>2, <2>1, <2>2, CongTrans
  <2> HIDE DEF dif, k
  <2>4. Cong(dif + dif, k + k, P) /\ dif + dif \in Int /\ k + k \in Int
    BY <1>2, <2>2, <2>3, CongSum
  <2>5. lhs \in F /\ Cong(lhs, dif + dif, P)
    BY <2>1, Operations, Zenon
  <2>6. lhs \in Int /\ Cong(lhs, k + k, P)
    BY <1>2, <2>4, <2>5, Residues, CongTrans
  <2>7. k + k = l
    BY <1>2 DEF k
  <2>8. QED
    BY <2>5, <2>6, <2>7
<1>7. rhs \in F /\ rhs \in Int /\ Cong(rhs, r, P)
  <2> DEFINE a == Add(zz, zz)
             b == Mul(D2, ww)
             c == 2 * (z * z)
             d == D2 * (w * w)
  <2>1. a \in F /\ b \in F /\ Cong(a, zz + zz, P) /\ Cong(b, D2 * ww, P)
    BY <1>1, <1>4, Operations, Zenon
  <2>2. Cong(zz + zz, c, P)
    <3>1. Cong(zz + zz, z * z + z * z, P)
      BY <1>2, <1>4, <1>5, CongSum
    <3>2. z * z + z * z = c
      BY <1>2
    <3>3. QED
      BY <3>1, <3>2
  <2>3. Cong(D2 * ww, d, P)
    BY <1>2, <1>4, <1>5, CongEqual, CongProduct
  <2>4. a \in Int /\ b \in Int /\ c \in Int /\ d \in Int /\ zz + zz \in Int /\ D2 * ww \in Int
    BY <1>2, <1>5, <2>1, Residues
  <2> HIDE DEF a, b, c, d
  <2>5. Cong(a, c, P) /\ Cong(b, d, P)
    BY <1>2, <2>1, <2>2, <2>3, <2>4, CongTrans
  <2>6. Cong(a + b, c + d, P) /\ a + b \in Int /\ c + d \in Int
    BY <1>2, <2>4, <2>5, CongSum
  <2>7. rhs \in F /\ rhs \in Int /\ Cong(rhs, a + b, P)
    <3>1. rhs = Add(a, b)
      BY DEF a, b
    <3>2. rhs \in F /\ Cong(rhs, a + b, P)
      BY <2>1, <3>1, Operations, Zenon
    <3>3. QED
      BY <3>2, Residues
  <2>8. Cong(rhs, c + d, P)
    BY <1>2, <2>6, <2>7, CongTrans
  <2>9. c + d = r
    BY DEF c, d
  <2>10. QED
    BY <2>7, <2>8, <2>9
<1>8. l \in Int /\ r \in Int
  BY <1>2
<1>9. lhs = rhs <=> Cong(l, r, P)
  <2> HIDE DEF lhs, rhs, l, r
  <2>1. ASSUME lhs = rhs PROVE Cong(l, r, P)
    BY <1>2, <1>6, <1>7, <1>8, <2>1, CongSym, CongTrans
  <2>2. ASSUME Cong(l, r, P) PROVE lhs = rhs
    <3>1. Cong(lhs, rhs, P)
      BY <1>2, <1>6, <1>7, <1>8, <2>2, CongSym, CongTrans
    <3>2. QED
      BY <1>6, <1>7, <3>1, Operations, Zenon
  <2>3. QED
    BY <2>1, <2>2
<1>10. Valid(p) <=> z # Zero /\ Mul(x, y) = Mul(z, w) /\ lhs = rhs
  BY DEF Valid, x, y, z, w, xx, yy, zz, ww
<1>11. QED
  BY <1>3, <1>9, <1>10, Residues DEF x, y, z, w

\* A multiple of a valid point's coordinates is the same point.
LEMMA ScaledValid ==
  ASSUME NEW p \in Points, Valid(p), NEW r \in Points, NEW c \in Int, ~Cong(c, 0, P),
         Cong(r.X, c * p.X, P), Cong(r.Y, c * p.Y, P),
         Cong(r.Z, c * p.Z, P), Cong(r.T, c * p.T, P)
  PROVE  Valid(r)
<1> DEFINE x == p.X
           y == p.Y
           z == p.Z
           w == p.T
           X1 == r.X
           Y1 == r.Y
           Z1 == r.Z
           T1 == r.T
<1>1. /\ x \in F /\ y \in F /\ z \in F /\ w \in F
      /\ X1 \in F /\ Y1 \in F /\ Z1 \in F /\ T1 \in F
  BY DEF Points
<1>2. /\ z # 0 /\ Cong(x * y, z * w, P)
      /\ Cong(2 * (y * y - x * x), 2 * (z * z) + D2 * (w * w), P)
  BY ValidIsCong
<1>3. Cong(X1, c * x, P) /\ Cong(Y1, c * y, P) /\ Cong(Z1, c * z, P) /\ Cong(T1, c * w, P)
  OBVIOUS
<1>4. Valid(r) <=>
        /\ Z1 # 0
        /\ Cong(X1 * Y1, Z1 * T1, P)
        /\ Cong(2 * (Y1 * Y1 - X1 * X1), 2 * (Z1 * Z1) + D2 * (T1 * T1), P)
  BY ValidIsCong
<1> HIDE DEF x, y, z, w, X1, Y1, Z1, T1
<1>5. /\ x \in Int /\ y \in Int /\ z \in Int /\ w \in Int /\ P \in Int /\ D2 \in Int
      /\ X1 \in Int /\ Y1 \in Int /\ Z1 \in Int /\ T1 \in Int /\ 0 \in Int /\ 0 \in F
  BY <1>1, Residues
<1> DEFINE cx == c * x
           cy == c * y
           cz == c * z
           cw == c * w
           cc == c * c
<1>6. cx \in Int /\ cy \in Int /\ cz \in Int /\ cw \in Int /\ cc \in Int
  BY <1>5
<1>7. Cong(X1, cx, P) /\ Cong(Y1, cy, P) /\ Cong(Z1, cz, P) /\ Cong(T1, cw, P)
  BY <1>3
<1>8. Z1 # 0
  <2>1. ASSUME Z1 = 0 PROVE FALSE
    <3>1. Cong(cz, 0, P)
      BY <1>5, <1>6, <1>7, <2>1, CongSym
    <3>2. Cong(z, 0, P)
      BY <1>5, <3>1, NoZeroDivisors
    <3>3. QED
      BY <1>1, <1>2, <1>5, <3>2, Operations, Zenon
  <2>2. QED
    BY <2>1
<1>9. Cong(X1 * Y1, Z1 * T1, P)
  <2> DEFINE m == x * y
             n == z * w
  <2>1. cx * cy = cc * m /\ cz * cw = cc * n /\ m \in Int /\ n \in Int /\ Cong(m, n, P)
    BY <1>2, <1>5
  <2> HIDE DEF cx, cy, cz, cw, cc, m, n
  <2>2. Cong(cc * m, cc * n, P) /\ cc * m \in Int /\ cc * n \in Int
    <3>1. Cong(cc, cc, P)
      BY <1>5, <1>6, CongEqual
    <3>2. Cong(cc * m, cc * n, P)
      BY <1>5, <1>6, <2>1, <3>1, CongProduct
    <3>3. QED
      BY <1>6, <2>1, <3>2
  <2>3. Cong(X1 * Y1, cx * cy, P) /\ Cong(Z1 * T1, cz * cw, P)
    BY <1>5, <1>6, <1>7, CongProduct
  <2>4. X1 * Y1 \in Int /\ Z1 * T1 \in Int
    BY <1>5
  <2>5. Cong(X1 * Y1, cc * m, P) /\ Cong(Z1 * T1, cc * n, P)
    BY <2>1, <2>3, Zenon
  <2>6. QED
    BY <1>5, <2>2, <2>4, <2>5, CongSym, CongTrans
<1>10. Cong(2 * (Y1 * Y1 - X1 * X1), 2 * (Z1 * Z1) + D2 * (T1 * T1), P)
  <2> DEFINE l == 2 * (y * y - x * x)
             k == 2 * (z * z) + D2 * (w * w)
             xx == X1 * X1
             yy == Y1 * Y1
             zz == Z1 * Z1
             ww == T1 * T1
             xs == cx * cx
             ys2 == cy * cy
             zs2 == cz * cz
             ws == cw * cw
  <2>1. /\ 0 + 2 * ys2 + (-2) * xs = cc * l
        /\ 0 + 2 * zs2 + D2 * ws = cc * k
        /\ l \in Int /\ k \in Int /\ Cong(l, k, P)
        /\ xs \in Int /\ ys2 \in Int /\ zs2 \in Int /\ ws \in Int
    BY <1>2, <1>5
  <2>2. /\ Cong(xx, xs, P) /\ Cong(yy, ys2, P) /\ Cong(zz, zs2, P) /\ Cong(ww, ws, P)
        /\ xx \in Int /\ yy \in Int /\ zz \in Int /\ ww \in Int
    BY <1>5, <1>6, <1>7, CongProduct
  <2> DEFINE lhs == 0 + 2 * yy + (-2) * xx
             rhs == 0 + 2 * zz + D2 * ww
  <2>3. Cong(lhs, cc * l, P) /\ Cong(rhs, cc * k, P)
    <3> DEFINE zero == 0
               two == 2
               minus == -2
    <3>1. zero \in Int /\ two \in Int /\ minus \in Int
      OBVIOUS
    <3> HIDE DEF zero, two, minus, xx, yy, zz, ww, xs, ys2, zs2, ws, l, k
    <3>2. /\ Cong(zero + two * yy + minus * xx, zero + two * ys2 + minus * xs, P)
          /\ Cong(zero + two * zz + D2 * ww, zero + two * zs2 + D2 * ws, P)
      BY <1>5, <2>1, <2>2, <3>1, CongLinear
    <3>3. QED
      BY <2>1, <3>2, Zenon DEF zero, two, minus
  <2>4. lhs \in Int /\ rhs \in Int /\ cc * l \in Int /\ cc * k \in Int
    BY <1>5, <1>6, <2>1, <2>2
  <2>5. lhs = 2 * (yy - xx) /\ rhs = 2 * zz + D2 * ww
    <3> HIDE DEF xx, yy, zz, ww
    <3>1. QED
      BY <1>5, <2>2
  <2> HIDE DEF lhs, rhs, l, k, cc
  <2>6. Cong(cc * l, cc * k, P)
    <3>1. Cong(cc, cc, P)
      BY <1>5, <1>6, CongEqual
    <3>2. QED
      BY <1>5, <1>6, <2>1, <3>1, CongProduct
  <2>7. Cong(lhs, rhs, P)
    BY <1>5, <2>3, <2>4, <2>6, CongSym, CongTrans
  <2>8. QED
    BY <2>5, <2>7, Zenon
<1>11. QED
  BY <1>4, <1>8, <1>9, <1>10

-----------------------------------------------------------------------------
(* The addition law *)

\* An operation on elements that stand for numbers.
LEMMA OperationsCong ==
  ASSUME NEW x \in F, NEW y \in F, NEW a \in Int, NEW b \in Int,
         Cong(x, a, P), Cong(y, b, P)
  PROVE  /\ Add(x, y) \in F /\ Cong(Add(x, y), a + b, P)
         /\ Sub(x, y) \in F /\ Cong(Sub(x, y), a - b, P)
         /\ Mul(x, y) \in F /\ Cong(Mul(x, y), a * b, P)
<1>1. /\ Add(x, y) \in F /\ Cong(Add(x, y), x + y, P)
      /\ Sub(x, y) \in F /\ Cong(Sub(x, y), x - y, P)
      /\ Mul(x, y) \in F /\ Cong(Mul(x, y), x * y, P)
  BY Operations, Zenon
<1>2. x \in Int /\ y \in Int /\ P \in Int
  BY Residues
<1>3. Cong(x + y, a + b, P) /\ Cong(x - y, a - b, P) /\ Cong(x * y, a * b, P)
  BY <1>2, CongSum, CongProduct
<1>4. /\ Add(x, y) \in Int /\ Sub(x, y) \in Int /\ Mul(x, y) \in Int
      /\ x + y \in Int /\ x - y \in Int /\ x * y \in Int
      /\ a + b \in Int /\ a - b \in Int /\ a * b \in Int
  BY <1>1, <1>2, Residues
<1>5. \A k, l, m \in Int : Cong(k, l, P) /\ Cong(l, m, P) => Cong(k, m, P)
  BY <1>2, CongTrans
<1>6. QED
  BY <1>1, <1>3, <1>4, <1>5, Zenon

\* The coordinates of a sum as polynomials in those of the points.
LEMMA UnifiedCong ==
  ASSUME NEW p \in Points, NEW q \in Points
  PROVE  LET zz == Mul(p.Z, q.Z)
             u == Unified(p, ge_to_cached(q), Add(zz, zz))
             A == (p.Y - p.X) * (q.Y - q.X)
             B == (p.Y + p.X) * (q.Y + q.X)
             C == (D2 * q.T) * p.T
             D == 2 * (p.Z * q.Z)
         IN /\ u \in Points
            /\ Cong(u.X, (B - A) * (D - C), P) /\ Cong(u.Y, (D + C) * (B + A), P)
            /\ Cong(u.Z, (D - C) * (D + C), P) /\ Cong(u.T, (B - A) * (B + A), P)
<1> DEFINE X1 == p.X
           Y1 == p.Y
           Z1 == p.Z
           T1 == p.T
           X2 == q.X
           Y2 == q.Y
           Z2 == q.Z
           T2 == q.T
           zz == Mul(Z1, Z2)
           d == Add(zz, zz)
           a == Mul(Sub(Y1, X1), Sub(Y2, X2))
           b == Mul(Add(Y1, X1), Add(Y2, X2))
           c == Mul(Mul(T2, D2), T1)
           e == Sub(b, a)
           f == Sub(d, c)
           g == Add(d, c)
           h == Add(b, a)
           A == (Y1 - X1) * (Y2 - X2)
           B == (Y1 + X1) * (Y2 + X2)
           C == (D2 * T2) * T1
           D == 2 * (Z1 * Z2)
           u == Unified(p, ge_to_cached(q), d)
<1>1. u = [X |-> Mul(e, f), Y |-> Mul(g, h), Z |-> Mul(f, g), T |-> Mul(e, h)]
  BY DEF Unified, ge_to_cached, FromFactors
<1>2. /\ X1 \in F /\ Y1 \in F /\ Z1 \in F /\ T1 \in F
      /\ X2 \in F /\ Y2 \in F /\ Z2 \in F /\ T2 \in F /\ D2 \in F
  BY Residues DEF Points
<1>20. u.X = Mul(e, f) /\ u.Y = Mul(g, h) /\ u.Z = Mul(f, g) /\ u.T = Mul(e, h)
  <2> HIDE DEF e, f, g, h, u
  <2>1. QED
    BY <1>1
<1>21. SUFFICES /\ u \in Points
                /\ Cong(u.X, (B - A) * (D - C), P) /\ Cong(u.Y, (D + C) * (B + A), P)
                /\ Cong(u.Z, (D - C) * (D + C), P) /\ Cong(u.T, (B - A) * (B + A), P)
  OBVIOUS
<1> HIDE DEF X1, Y1, Z1, T1, X2, Y2, Z2, T2, u
<1>3. /\ X1 \in Int /\ Y1 \in Int /\ Z1 \in Int /\ T1 \in Int
      /\ X2 \in Int /\ Y2 \in Int /\ Z2 \in Int /\ T2 \in Int /\ D2 \in Int /\ P \in Int
      /\ A \in Int /\ B \in Int /\ C \in Int /\ D \in Int
  BY <1>2, Residues
<1>4. /\ Cong(X1, X1, P) /\ Cong(Y1, Y1, P) /\ Cong(Z1, Z1, P) /\ Cong(T1, T1, P)
      /\ Cong(X2, X2, P) /\ Cong(Y2, Y2, P) /\ Cong(Z2, Z2, P) /\ Cong(T2, T2, P)
      /\ Cong(D2, D2, P)
  BY <1>3, CongEqual
<1>5. a \in F /\ Cong(a, A, P)
  <2>1. /\ Sub(Y1, X1) \in F /\ Cong(Sub(Y1, X1), Y1 - X1, P)
        /\ Sub(Y2, X2) \in F /\ Cong(Sub(Y2, X2), Y2 - X2, P)
    BY <1>2, <1>3, <1>4, OperationsCong, Zenon
  <2>2. Y1 - X1 \in Int /\ Y2 - X2 \in Int
    BY <1>3
  <2>3. QED
    BY <2>1, <2>2, OperationsCong, Zenon
<1>6. b \in F /\ Cong(b, B, P)
  <2>1. /\ Add(Y1, X1) \in F /\ Cong(Add(Y1, X1), Y1 + X1, P)
        /\ Add(Y2, X2) \in F /\ Cong(Add(Y2, X2), Y2 + X2, P)
    BY <1>2, <1>3, <1>4, OperationsCong, Zenon
  <2>2. Y1 + X1 \in Int /\ Y2 + X2 \in Int
    BY <1>3
  <2>3. QED
    BY <2>1, <2>2, OperationsCong, Zenon
<1>7. c \in F /\ Cong(c, C, P)
  <2>1. Mul(T2, D2) \in F /\ Cong(Mul(T2, D2), T2 * D2, P)
    BY <1>2, <1>3, <1>4, OperationsCong, Zenon
  <2>2. T2 * D2 \in Int /\ (T2 * D2) * T1 = C
    BY <1>3
  <2>3. c \in F /\ Cong(c, (T2 * D2) * T1, P)
    BY <1>2, <1>3, <1>4, <2>1, <2>2, OperationsCong, Zenon
  <2>4. QED
    BY <2>2, <2>3, Zenon
<1>8. d \in F /\ Cong(d, D, P)
  <2>1. zz \in F /\ Cong(zz, Z1 * Z2, P)
    BY <1>2, <1>3, <1>4, OperationsCong, Zenon
  <2>2. Z1 * Z2 \in Int /\ Z1 * Z2 + Z1 * Z2 = D
    BY <1>3
  <2>3. d \in F /\ Cong(d, Z1 * Z2 + Z1 * Z2, P)
    BY <2>1, <2>2, OperationsCong, Zenon
  <2>4. QED
    BY <2>2, <2>3, Zenon
<1> HIDE DEF a, b, c, d, A, B, C, D
<1>9. /\ e \in F /\ Cong(e, B - A, P) /\ f \in F /\ Cong(f, D - C, P)
      /\ g \in F /\ Cong(g, D + C, P) /\ h \in F /\ Cong(h, B + A, P)
  BY <1>3, <1>5, <1>6, <1>7, <1>8, OperationsCong, Zenon
<1>10. B - A \in Int /\ D - C \in Int /\ D + C \in Int /\ B + A \in Int
  BY <1>3
<1> HIDE DEF e, f, g, h
<1>11. /\ Mul(e, f) \in F /\ Cong(Mul(e, f), (B - A) * (D - C), P)
       /\ Mul(g, h) \in F /\ Cong(Mul(g, h), (D + C) * (B + A), P)
       /\ Mul(f, g) \in F /\ Cong(Mul(f, g), (D - C) * (D + C), P)
       /\ Mul(e, h) \in F /\ Cong(Mul(e, h), (B - A) * (B + A), P)
  BY <1>9, <1>10, OperationsCong, Zenon
<1>12. u \in Points
  BY <1>1, <1>11 DEF Points
<1>13. QED
  BY <1>11, <1>12, <1>20, Zenon

\* The coordinates of points of the curve, as numbers: with w a root of -1, no
\* denominator of the addition law vanishes, as d would else be a square.
LEMMA NoDenominatorVanishes ==
  ASSUME NEW p \in Points, Valid(p), NEW q \in Points, Valid(q), NEW e \in {1, -1}
  PROVE  ~Cong((D2 * q.T) * p.T, e * (2 * (p.Z * q.Z)), P)
<1> DEFINE X1 == p.X
           Y1 == p.Y
           Z1 == p.Z
           T1 == p.T
           X2 == q.X
           Y2 == q.Y
           Z2 == q.Z
           T2 == q.T
           C == (D2 * T2) * T1
           D == 2 * (Z1 * Z2)
<1>1. /\ X1 \in F /\ Y1 \in F /\ Z1 \in F /\ T1 \in F
      /\ X2 \in F /\ Y2 \in F /\ Z2 \in F /\ T2 \in F
  BY DEF Points
<1>2. /\ Z1 # 0 /\ Cong(X1 * Y1, Z1 * T1, P)
      /\ Cong(2 * (Y1 * Y1 - X1 * X1), 2 * (Z1 * Z1) + D2 * (T1 * T1), P)
      /\ Z2 # 0 /\ Cong(X2 * Y2, Z2 * T2, P)
      /\ Cong(2 * (Y2 * Y2 - X2 * X2), 2 * (Z2 * Z2) + D2 * (T2 * T2), P)
  BY ValidIsCong
<1> SUFFICES ASSUME Cong(C, e * D, P) PROVE FALSE
  OBVIOUS
<1> HIDE DEF X1, Y1, Z1, T1, X2, Y2, Z2, T2
<1>3. /\ X1 \in Int /\ Y1 \in Int /\ Z1 \in Int /\ T1 \in Int
      /\ X2 \in Int /\ Y2 \in Int /\ Z2 \in Int /\ T2 \in Int /\ D2 \in Int /\ P \in Int
      /\ e \in Int /\ 0 \in Int /\ 1 \in Int /\ 0 \in F
  BY <1>1, Residues
<1>4. C \in Int /\ D \in Int /\ e * D \in Int
  BY <1>3
<1>5. \A x \in F : x # 0 => ~Cong(x, 0, P)
  BY <1>3, Operations, Zenon
<1>6. ~Cong(D, 0, P)
  <2> DEFINE z == Z1 * Z2
  <2>1. ~Cong(z, 0, P)
    BY <1>1, <1>2, <1>3, <1>5, NoZeroDivisors
  <2>2. z \in Int /\ 2 \in Int
    BY <1>3
  <2> HIDE DEF z
  <2>3. ~Cong(2 * z, 0, P)
    BY <2>1, <2>2, NoZeroDivisors, TwoIsNotZero
  <2>4. QED
    BY <2>3 DEF z
<1>7. T1 # 0 /\ T2 # 0
  <2>1. ASSUME T1 = 0 \/ T2 = 0 PROVE FALSE
    <3>1. C = 0
      BY <1>3, <2>1
    <3> HIDE DEF C, D
    <3>2. Cong(e * D, 0, P)
      BY <1>3, <1>4, <3>1, CongSym
    <3>3. e * (e * D) = D
      BY <1>4
    <3>4. Cong(e * (e * D), e * 0, P)
      BY <1>3, <1>4, <3>2, CongEqual, CongProduct
    <3>5. e * 0 = 0
      BY <1>3
    <3>6. QED
      BY <1>6, <3>3, <3>4, <3>5
  <2>2. QED
    BY <2>1
\* A root of -1.
<1>8. PICK w \in F : Cong(w * w, -1, P) /\ w \in Int
  <2>1. PICK w \in F : Mul(w, w) = P - 1
    BY CurveAssumption DEF P
  <2>2. Mul(w, w) \in F /\ Cong(Mul(w, w), w * w, P)
    BY Operations, Zenon
  <2>3. w \in Int /\ w * w \in Int /\ Mul(w, w) \in Int /\ -1 \in Int /\ P - 1 \in Int
    BY <2>2, Residues
  <2>4. Cong(P - 1, -1, P)
    <3>1. (P - 1) - (-1) = 1 * P
      BY <1>3
    <3>2. QED
      BY <1>3, <3>1 DEF Cong
  <2>5. Cong(w * w, -1, P)
    <3>1. Cong(w * w, P - 1, P)
      BY <1>3, <2>1, <2>2, <2>3, CongSym
    <3>2. QED
      BY <1>3, <2>3, <2>4, <3>1, CongTrans
  <2>6. QED
    BY <2>3, <2>5
\* One of w * X2 + Y2 and w * X2 - Y2 is not zero, as Y2 is not.
<1>9. PICK g \in {1, -1} : ~Cong(w * X2 + g * Y2, 0, P)
  <2>1. ASSUME Cong(w * X2 + Y2, 0, P), Cong(w * X2 + (-Y2), 0, P) PROVE FALSE
    <3> DEFINE a == w * X2 + Y2
               b == w * X2 + (-Y2)
    <3>1. a \in Int /\ b \in Int /\ a - b = 2 * Y2
      BY <1>3, <1>8
    <3> HIDE DEF a, b
    <3>2. Cong(a - b, 0 - 0, P)
      BY <1>3, <2>1, <3>1, CongSum DEF a, b
    <3>3. Cong(2 * Y2, 0, P)
      BY <3>1, <3>2
    <3>4. Cong(Y2, 0, P)
      BY <1>3, <3>3, NoZeroDivisors, TwoIsNotZero
    <3>5. Y2 = 0
      BY <1>1, <1>5, <3>4
    <3>6. X2 * Y2 = 0
      BY <1>3, <3>5
    <3>7. Cong(Z2 * T2, 0, P) /\ Z2 * T2 \in Int
      BY <1>2, <1>3, <3>6, CongSym
    <3>8. QED
      BY <1>1, <1>2, <1>3, <1>5, <1>7, <3>7, NoZeroDivisors
  <2>2. 1 * Y2 = Y2 /\ (-1) * Y2 = -Y2
    BY <1>3
  <2>3. QED
    BY <2>1, <2>2
<1> DEFINE lhs == 2 * (Z2 * (w * X1 + (e * g) * Y1))
           rhs == T1 * (w * X2 + g * Y2)
           K == 2 * D2
<1>10. Cong(lhs * lhs, K * (rhs * rhs), P)
  BY <1>2, <1>3, <1>8, UnifiedSquares
<1>11. lhs \in Int /\ rhs \in Int /\ K \in Int
  BY <1>3, <1>8
<1>12. ~Cong(rhs, 0, P)
  <2> DEFINE y == w * X2 + g * Y2
  <2>1. y \in Int /\ ~Cong(y, 0, P)
    BY <1>3, <1>8, <1>9
  <2> HIDE DEF y
  <2>2. ~Cong(T1 * y, 0, P)
    BY <1>1, <1>3, <1>5, <1>7, <2>1, NoZeroDivisors
  <2>3. QED
    BY <2>2 DEF y
<1> HIDE DEF lhs, rhs, K, C, D
\* So that 4d is the square of lhs / rhs.
<1>13. PICK v \in F : Cong(rhs * v, 1, P) /\ v \in Int
  BY <1>11, <1>12, Inverses, Residues
<1> DEFINE s == lhs * v
           u == rhs * v
<1>14. s \in Int /\ u \in Int /\ v * v \in Int
  BY <1>11, <1>13
<1>15. Cong(s * s, K, P)
  <2>1. s * s = (lhs * lhs) * (v * v) /\ (K * (rhs * rhs)) * (v * v) = K * (u * u)
    BY <1>11, <1>13
  <2> DEFINE l == lhs * lhs
             r == K * (rhs * rhs)
             vv == v * v
  <2>2. l \in Int /\ r \in Int /\ vv \in Int /\ Cong(l, r, P) /\ Cong(vv, vv, P)
    BY <1>3, <1>10, <1>11, <1>13, CongEqual
  <2> HIDE DEF l, r, vv
  <2>3. Cong(l * vv, r * vv, P)
    BY <1>3, <2>2, CongProduct
  <2>4. Cong(s * s, K * (u * u), P)
    BY <2>1, <2>3, Zenon DEF l, r, vv
  <2>5. Cong(u, 1, P)
    BY <1>13
  <2> HIDE DEF s, u
  <2>6. Cong(u * u, 1 * 1, P) /\ u * u \in Int
    BY <1>3, <1>14, <2>5, CongProduct
  <2>7. Cong(u * u, 1, P)
    BY <2>6
  <2>8. Cong(K * (u * u), K * 1, P)
    BY <1>3, <1>11, <2>6, <2>7, CongEqual, CongProduct
  <2>9. K * 1 = K
    BY <1>11
  <2>10. s * s \in Int /\ K * (u * u) \in Int /\ Cong(K * (u * u), K, P)
    BY <1>11, <1>14, <2>6, <2>8, <2>9
  <2>11. QED
    BY <1>3, <1>11, <2>4, <2>10, CongTrans
<1> HIDE DEF s, u
<1>16. PICK r \in F : Cong(r, s, P) /\ r \in Int
  BY <1>14, HasResidue, Residues
<1>17. Mul(r, r) = Add(D2, D2)
  <2>1. Mul(r, r) \in F /\ Cong(Mul(r, r), s * s, P)
    BY <1>14, <1>16, OperationsCong, Zenon
  <2>2. Add(D2, D2) \in F /\ Cong(Add(D2, D2), D2 + D2, P)
    BY Residues, Operations
  <2>3. D2 + D2 = K
    BY <1>3 DEF K
  <2>4. /\ Mul(r, r) \in Int /\ Add(D2, D2) \in Int /\ s * s \in Int
        /\ Cong(Add(D2, D2), K, P)
    BY <1>14, <2>1, <2>2, <2>3, Residues
  <2>5. Cong(Mul(r, r), Add(D2, D2), P)
    BY <1>3, <1>11, <1>15, <2>1, <2>4, CongSym, CongTrans
  <2>6. QED
    BY <2>1, <2>2, <2>5, Operations
<1>18. QED
  BY <1>17, CurveAssumption

\* The equation of the curve holds of all that are congruent.
LEMMA CurveCong ==
  ASSUME NEW x \in Int, NEW y \in Int, NEW z \in Int, NEW w \in Int,
         NEW a \in Int, NEW b \in Int, NEW c \in Int, NEW d \in Int,
         Cong(x, a, P), Cong(y, b, P), Cong(z, c, P), Cong(w, d, P),
         Cong(2 * (b * b - a * a), 2 * (c * c) + D2 * (d * d), P)
  PROVE  Cong(2 * (y * y - x * x), 2 * (z * z) + D2 * (w * w), P)
<1>1. /\ Cong(x * x, a * a, P) /\ Cong(y * y, b * b, P)
      /\ Cong(z * z, c * c, P) /\ Cong(w * w, d * d, P)
      /\ P \in Int /\ D2 \in Int /\ 2 \in Int
  BY Residues, CongProduct
<1> DEFINE xx == x * x
           yy == y * y
           zz == z * z
           ww == w * w
           aa == a * a
           bb == b * b
           ccc == c * c
           ddd == d * d
<1>2. /\ xx \in Int /\ yy \in Int /\ zz \in Int /\ ww \in Int
      /\ aa \in Int /\ bb \in Int /\ ccc \in Int /\ ddd \in Int
      /\ Cong(xx, aa, P) /\ Cong(yy, bb, P) /\ Cong(zz, ccc, P) /\ Cong(ww, ddd, P)
      /\ Cong(2 * (bb - aa), 2 * ccc + D2 * ddd, P)
  BY <1>1
<1> SUFFICES Cong(2 * (yy - xx), 2 * zz + D2 * ww, P)
  OBVIOUS
<1> HIDE DEF xx, yy, zz, ww, aa, bb, ccc, ddd
<1>3. Cong(2, 2, P) /\ Cong(D2, D2, P)
  BY <1>1, CongEqual
<1>4. /\ yy - xx \in Int /\ bb - aa \in Int
      /\ 2 * (yy - xx) \in Int /\ 2 * (bb - aa) \in Int
      /\ 2 * zz \in Int /\ 2 * ccc \in Int /\ D2 * ww \in Int /\ D2 * ddd \in Int
      /\ 2 * zz + D2 * ww \in Int /\ 2 * ccc + D2 * ddd \in Int
  BY <1>1, <1>2
<1>5. Cong(yy - xx, bb - aa, P)
  BY <1>1, <1>2, CongSum
<1>6. Cong(2 * (yy - xx), 2 * (bb - aa), P)
  BY <1>1, <1>3, <1>4, <1>5, CongProduct, Zenon
<1>7. Cong(2 * zz, 2 * ccc, P) /\ Cong(D2 * ww, D2 * ddd, P)
  BY <1>1, <1>2, <1>3, CongProduct, Zenon
<1>8. Cong(2 * zz + D2 * ww, 2 * ccc + D2 * ddd, P)
  BY <1>1, <1>4, <1>7, CongSum
<1> DEFINE l1 == 2 * (yy - xx)
           l2 == 2 * (bb - aa)
           l3 == 2 * ccc + D2 * ddd
           l4 == 2 * zz + D2 * ww
<1>9. /\ Cong(l1, l2, P) /\ Cong(l2, l3, P) /\ Cong(l4, l3, P)
      /\ l1 \in Int /\ l2 \in Int /\ l3 \in Int /\ l4 \in Int
  BY <1>2, <1>4, <1>6, <1>8
<1>10. Cong(l1, l4, P)
  <2> HIDE DEF l1, l2, l3, l4
  <2>1. QED
    BY <1>1, <1>9, CongSym, CongTrans
<1>11. QED
  BY <1>10

\* The unified addition of two points of the curve is a point of the curve.
LEMMA UnifiedValid ==
  ASSUME NEW p \in Points, Valid(p), NEW q \in Points, Valid(q)
  PROVE  LET zz == Mul(p.Z, q.Z)
         IN Valid(Unified(p, ge_to_cached(q), Add(zz, zz)))
<1> DEFINE u == Unified(p, ge_to_cached(q), Add(Mul(p.Z, q.Z), Mul(p.Z, q.Z)))
           A == (p.Y - p.X) * (q.Y - q.X)
           B == (p.Y + p.X) * (q.Y + q.X)
           C == (D2 * q.T) * p.T
           D == 2 * (p.Z * q.Z)
           ef == (B - A) * (D - C)
           gh == (D + C) * (B + A)
           fg == (D - C) * (D + C)
           eh == (B - A) * (B + A)
<1>1. /\ u \in Points
      /\ Cong(u.X, ef, P) /\ Cong(u.Y, gh, P) /\ Cong(u.Z, fg, P) /\ Cong(u.T, eh, P)
  BY UnifiedCong
<1>2. /\ p.X \in Int /\ p.Y \in Int /\ p.Z \in Int /\ p.T \in Int
      /\ q.X \in Int /\ q.Y \in Int /\ q.Z \in Int /\ q.T \in Int
      /\ D2 \in Int /\ P \in Int /\ 0 \in Int /\ 0 \in F
  BY Residues DEF Points
<1>3. Cong(2 * (gh * gh - ef * ef), 2 * (fg * fg) + D2 * (eh * eh), P)
  <2>1. /\ Cong(p.X * p.Y, p.Z * p.T, P)
        /\ Cong(2 * (p.Y * p.Y - p.X * p.X), 2 * (p.Z * p.Z) + D2 * (p.T * p.T), P)
        /\ Cong(q.X * q.Y, q.Z * q.T, P)
        /\ Cong(2 * (q.Y * q.Y - q.X * q.X), 2 * (q.Z * q.Z) + D2 * (q.T * q.T), P)
    BY ValidIsCong
  <2>2. QED
    BY <1>2, <2>1, UnifiedOnCurve, ZenonT(60)
<1>4. A \in Int /\ B \in Int /\ C \in Int /\ D \in Int
  BY <1>2
<1>5. ~Cong(C, D, P) /\ ~Cong(C, -D, P)
  <2>1. ~Cong(C, 1 * D, P) /\ ~Cong(C, (-1) * D, P)
    BY NoDenominatorVanishes
  <2>2. 1 * D = D /\ (-1) * D = -D
    BY <1>4
  <2>3. QED
    BY <2>1, <2>2
<1> DEFINE x == u.X
           y == u.Y
           z == u.Z
           w == u.T
<1>6. /\ x \in F /\ y \in F /\ z \in F /\ w \in F
      /\ Cong(x, ef, P) /\ Cong(y, gh, P) /\ Cong(z, fg, P) /\ Cong(w, eh, P)
  BY <1>1 DEF Points
<1>7. Valid(u) <=>
        /\ z # 0
        /\ Cong(x * y, z * w, P)
        /\ Cong(2 * (y * y - x * x), 2 * (z * z) + D2 * (w * w), P)
  BY <1>1, ValidIsCong
<1> SUFFICES Valid(u)
  OBVIOUS
<1> HIDE DEF A, B, C, D, u, x, y, z, w
<1>8. /\ ef \in Int /\ gh \in Int /\ fg \in Int /\ eh \in Int
      /\ x \in Int /\ y \in Int /\ z \in Int /\ w \in Int
  BY <1>4, <1>6, Residues
<1>9. z # 0
  <2> DEFINE a == D - C
             b == D + C
  <2>1. a \in Int /\ b \in Int
    BY <1>4
  <2>2. ~Cong(a, 0, P)
    <3>1. ASSUME Cong(a, 0, P) PROVE FALSE
      <4>1. Cong(a + C, 0 + C, P)
        BY <1>2, <1>4, <2>1, <3>1, CongEqual, CongSum
      <4>2. a + C = D /\ 0 + C = C
        BY <1>4
      <4>3. QED
        BY <1>2, <1>4, <1>5, <4>1, <4>2, CongSym
    <3>2. QED
      BY <3>1
  <2>3. ~Cong(b, 0, P)
    <3>1. ASSUME Cong(b, 0, P) PROVE FALSE
      <4>1. Cong(b - D, 0 - D, P)
        BY <1>2, <1>4, <2>1, <3>1, CongEqual, CongSum
      <4>2. b - D = C /\ 0 - D = -D
        BY <1>4
      <4>3. QED
        BY <1>5, <4>1, <4>2
    <3>2. QED
      BY <3>1
  <2> HIDE DEF a, b
  <2>4. ~Cong(a * b, 0, P) /\ a * b \in Int
    BY <2>1, <2>2, <2>3, NoZeroDivisors
  <2>5. Cong(z, a * b, P)
    BY <1>6 DEF a, b
  <2>6. QED
    BY <1>2, <1>8, <2>4, <2>5, CongSym
<1>10. Cong(x * y, z * w, P)
  <2>1. ef * gh = fg * eh
    <3> DEFINE E == B - A
               H == B + A
               f == D - C
               g == D + C
    <3>1. E \in Int /\ H \in Int /\ f \in Int /\ g \in Int
      BY <1>4
    <3> HIDE DEF E, H, f, g
    <3>2. (E * f) * (g * H) = (f * g) * (E * H)
      BY <3>1
    <3>3. QED
      BY <3>2 DEF E, H, f, g
  <2> HIDE DEF ef, gh, fg, eh
  <2>2. Cong(x * y, ef * gh, P) /\ Cong(z * w, fg * eh, P)
    BY <1>2, <1>6, <1>8, CongProduct
  <2>3. x * y \in Int /\ z * w \in Int /\ ef * gh \in Int
    BY <1>8
  <2>4. Cong(z * w, ef * gh, P)
    BY <2>1, <2>2, Zenon
  <2>5. QED
    BY <1>2, <2>2, <2>3, <2>4, CongSym, CongTrans
<1>11. Cong(2 * (y * y - x * x), 2 * (z * z) + D2 * (w * w), P)
  <2> HIDE DEF ef, gh, fg, eh
  <2>1. QED
    BY <1>2, <1>3, <1>6, <1>8, CurveCong
<1>12. QED
  BY <1>7, <1>9, <1>10, <1>11

\* ge_add of two points of the curve is one.
LEMMA AddValid ==
  ASSUME NEW p \in Points, Valid(p), NEW q \in Points, Valid(q)
  PROVE  Valid(ge_add(p, ge_to_cached(q)))
<1>1. ge_add(p, ge_to_cached(q))
        = Unified(p, ge_to_cached(q), Add(Mul(p.Z, q.Z), Mul(p.Z, q.Z)))
  <2>1. ge_to_cached(q).Z = q.Z
    BY DEF ge_to_cached
  <2>2. QED
    BY <2>1 DEF ge_add
<1>2. QED
  BY <1>1, UnifiedValid

\* The addend of a step is the affine form of a point of the curve.
LEMMA StepValid ==
  ASSUME NEW p \in Points, Valid(p), NEW q \in Points, Valid(q)
  PROVE  Valid(ge_madd(p, ge_to_cached_affine(q)))
<1> DEFINE v == Inv(q.Z)
           x == Mul(q.X, v)
           y == Mul(q.Y, v)
           r == [X |-> x, Y |-> y, Z |-> One, T |-> Mul(x, y)]
<1>1. q.X \in F /\ q.Y \in F /\ q.Z \in F /\ q.T \in F /\ q.Z # 0 /\ p.Z \in F
      /\ Cong(q.X * q.Y, q.Z * q.T, P)
  BY ValidIsCong DEF Points
<1>2. v \in F /\ v # 0 /\ Mul(q.Z, v) = 1 /\ One = 1 /\ Mul(p.Z, One) = p.Z
  BY <1>1, Residues, FieldAssumption DEF Units
<1>3. ge_madd(p, ge_to_cached_affine(q))
        = Unified(p, ge_to_cached(r), Add(Mul(p.Z, r.Z), Mul(p.Z, r.Z)))
  BY <1>2 DEF ge_madd, ge_to_cached_affine, ge_to_cached, Unified
<1> DEFINE X2 == q.X
           Y2 == q.Y
           Z2 == q.Z
           T2 == q.T
           xy == Mul(x, y)
<1>4. /\ X2 \in F /\ Y2 \in F /\ Z2 \in F /\ T2 \in F /\ v \in F
      /\ X2 \in Int /\ Y2 \in Int /\ Z2 \in Int /\ T2 \in Int /\ v \in Int /\ P \in Int
      /\ v * X2 \in Int /\ v * Y2 \in Int /\ v * Z2 \in Int /\ v * T2 \in Int
      /\ 0 \in F /\ 1 \in F /\ 1 \in Int
      /\ Mul(Z2, v) = 1 /\ Cong(X2 * Y2, Z2 * T2, P)
  <2>1. q.X \in Int /\ q.Y \in Int /\ q.Z \in Int /\ q.T \in Int /\ v \in Int
    BY <1>1, <1>2, Residues
  <2> HIDE DEF v
  <2>2. QED
    BY <1>1, <1>2, <2>1, Residues, SMTT(30)
<1>5. r.X = x /\ r.Y = y /\ r.Z = 1 /\ r.T = xy
  <2> HIDE DEF x, y
  <2>1. QED
    BY <1>2
<1>6. x \in F /\ y \in F /\ xy \in F /\ r \in Points
  <2>1. x \in F /\ y \in F
    BY <1>4, Operations, Zenon
  <2> HIDE DEF x, y
  <2>2. xy \in F
    BY <2>1, Operations, Zenon
  <2>3. QED
    BY <1>2, <1>4, <2>1, <2>2 DEF Points
<1> HIDE DEF v, X2, Y2, Z2, T2
<1>7. Cong(x, v * X2, P) /\ Cong(y, v * Y2, P) /\ Cong(1, v * Z2, P)
  <2>1. /\ Cong(Mul(X2, v), X2 * v, P) /\ Cong(Mul(Y2, v), Y2 * v, P)
        /\ Cong(Mul(Z2, v), Z2 * v, P)
    BY <1>4, Operations, Zenon
  <2>2. X2 * v = v * X2 /\ Y2 * v = v * Y2 /\ Z2 * v = v * Z2
    BY <1>4
  <2>3. QED
    BY <1>4, <2>1, <2>2, Zenon DEF X2, Y2
<1> HIDE DEF x, y, r
<1>8. Cong(xy, v * T2, P)
  <2> DEFINE a == v * X2
             b == v * Y2
             c == v * Z2
             d == v * T2
  <2>1. a \in Int /\ b \in Int /\ c \in Int /\ d \in Int /\ a * b \in Int /\ c * d \in Int
        /\ x \in Int /\ y \in Int /\ xy \in Int
    BY <1>4, <1>6, Residues
  <2>2. Cong(xy, a * b, P)
    BY <1>6, <1>7, <2>1, OperationsCong, Zenon
  <2>3. Cong(a * b, c * d, P)
    <3> DEFINE vv == v * v
               m == X2 * Y2
               n == Z2 * T2
    <3>1. a * b = vv * m /\ c * d = vv * n /\ vv \in Int /\ m \in Int /\ n \in Int
      BY <1>4
    <3>2. Cong(m, n, P)
      BY <1>4
    <3> HIDE DEF vv, m, n, a, b, c, d
    <3>3. Cong(vv * m, vv * n, P)
      BY <1>4, <3>1, <3>2, CongEqual, CongProduct
    <3>4. QED
      BY <3>1, <3>3, Zenon
  <2>4. Cong(c, 1, P)
    BY <1>4, <1>7, CongSym
  <2> HIDE DEF a, b, c, d, xy
  <2>5. Cong(c * d, 1 * d, P)
    BY <1>4, <2>1, <2>4, CongEqual, CongProduct
  <2>6. 1 * d = d
    BY <2>1
  <2>7. Cong(c * d, d, P)
    BY <2>5, <2>6, Zenon
  <2>8. Cong(xy, d, P)
    BY <1>4, <2>1, <2>2, <2>3, <2>7, CongTrans
  <2>9. QED
    BY <2>8 DEF d
<1>9. ~Cong(v, 0, P)
  BY <1>2, <1>4, Operations, Zenon
<1>10. Valid(r)
  <2>1. /\ Cong(r.X, v * q.X, P) /\ Cong(r.Y, v * q.Y, P)
        /\ Cong(r.Z, v * q.Z, P) /\ Cong(r.T, v * q.T, P)
    BY <1>5, <1>7, <1>8, Zenon DEF X2, Y2, Z2, T2
  <2>2. QED
    BY <1>4, <1>6, <1>9, <2>1, ScaledValid
<1>11. QED
  BY <1>3, <1>6, <1>10, UnifiedValid

\* Doubling is the unified addition of a point to itself, but for a factor.
LEMMA DoubleValid ==
  ASSUME NEW p \in Points, Valid(p)
  PROVE  ge_double(p) \in Points /\ Valid(ge_double(p))
<1> DEFINE X1 == p.X
           Y1 == p.Y
           Z1 == p.Z
           T1 == p.T
           xx == Mul(X1, X1)
           yy == Mul(Y1, Y1)
           zz == Mul(Z1, Z1)
           c2 == Add(zz, zz)
           h == Add(xx, yy)
           s == Add(X1, Y1)
           ss == Mul(s, s)
           g == Sub(xx, yy)
           e == Sub(h, ss)
           f == Add(c2, g)
           r == ge_double(p)
<1>1. r = [X |-> Mul(e, f), Y |-> Mul(g, h), Z |-> Mul(f, g), T |-> Mul(e, h)]
  BY DEF ge_double, FromFactors
<1>2. r.X = Mul(e, f) /\ r.Y = Mul(g, h) /\ r.Z = Mul(f, g) /\ r.T = Mul(e, h)
  <2> HIDE DEF e, f, g, h, r
  <2>1. QED
    BY <1>1
<1>3. /\ X1 \in F /\ Y1 \in F /\ Z1 \in F /\ T1 \in F
      /\ Cong(2 * (Y1 * Y1 - X1 * X1), 2 * (Z1 * Z1) + D2 * (T1 * T1), P)
  BY ValidIsCong DEF Points
<1> DEFINE u == Unified(p, ge_to_cached(p), Add(Mul(Z1, Z1), Mul(Z1, Z1)))
           A == (Y1 - X1) * (Y1 - X1)
           B == (Y1 + X1) * (Y1 + X1)
           C == (D2 * T1) * T1
           D == 2 * (Z1 * Z1)
<1>4. /\ u \in Points /\ Valid(u)
      /\ Cong(u.X, (B - A) * (D - C), P) /\ Cong(u.Y, (D + C) * (B + A), P)
      /\ Cong(u.Z, (D - C) * (D + C), P) /\ Cong(u.T, (B - A) * (B + A), P)
  BY UnifiedCong, UnifiedValid
<1> SUFFICES r \in Points /\ Valid(r)
  OBVIOUS
<1> HIDE DEF X1, Y1, Z1, T1, r, u
<1>5. X1 \in Int /\ Y1 \in Int /\ Z1 \in Int /\ T1 \in Int /\ D2 \in Int /\ P \in Int
  BY <1>3, Residues
\* The factors as numbers.
<1> DEFINE E == (X1 * X1 + Y1 * Y1) - (X1 + Y1) * (X1 + Y1)
           G == X1 * X1 - Y1 * Y1
           H == X1 * X1 + Y1 * Y1
           K == (Z1 * Z1 + Z1 * Z1) + (X1 * X1 - Y1 * Y1)
<1>6. /\ e \in F /\ Cong(e, E, P) /\ f \in F /\ Cong(f, K, P)
      /\ g \in F /\ Cong(g, G, P) /\ h \in F /\ Cong(h, H, P)
  <2>1. Cong(X1, X1, P) /\ Cong(Y1, Y1, P) /\ Cong(Z1, Z1, P)
    BY <1>5, CongEqual
  <2>2. /\ xx \in F /\ Cong(xx, X1 * X1, P) /\ yy \in F /\ Cong(yy, Y1 * Y1, P)
        /\ zz \in F /\ Cong(zz, Z1 * Z1, P) /\ s \in F /\ Cong(s, X1 + Y1, P)
    BY <1>3, <1>5, <2>1, OperationsCong, Zenon
  <2>3. X1 * X1 \in Int /\ Y1 * Y1 \in Int /\ Z1 * Z1 \in Int /\ X1 + Y1 \in Int
    BY <1>5
  <2> HIDE DEF xx, yy, zz, s
  <2>4. /\ h \in F /\ Cong(h, H, P) /\ g \in F /\ Cong(g, G, P)
        /\ ss \in F /\ Cong(ss, (X1 + Y1) * (X1 + Y1), P)
        /\ c2 \in F /\ Cong(c2, Z1 * Z1 + Z1 * Z1, P)
    BY <2>2, <2>3, OperationsCong, Zenon
  <2>5. H \in Int /\ G \in Int /\ (X1 + Y1) * (X1 + Y1) \in Int /\ Z1 * Z1 + Z1 * Z1 \in Int
    BY <1>5
  <2> HIDE DEF h, g, ss, c2
  <2>6. e \in F /\ Cong(e, E, P) /\ f \in F /\ Cong(f, K, P)
    BY <2>4, <2>5, OperationsCong, Zenon
  <2>7. QED
    BY <2>4, <2>6
<1> HIDE DEF e, f, g, h
<1>7. E \in Int /\ K \in Int /\ G \in Int /\ H \in Int /\ A \in Int /\ B \in Int
      /\ C \in Int /\ D \in Int
  BY <1>5
<1>8. B - A = (-2) * E /\ B + A = 2 * H
  BY <1>5
\* The equation of the curve for the others.
<1>9. Cong(D - C, 2 * K, P) /\ Cong(D + C, (-2) * G, P)
  <2> DEFINE l == 2 * (Y1 * Y1 - X1 * X1)
             k == 2 * (Z1 * Z1) + D2 * (T1 * T1)
  <2>1. /\ D + C = k /\ (-2) * G = l /\ D - C = 2 * D - k /\ 2 * K = 2 * D - l
        /\ k \in Int /\ l \in Int /\ 2 * D \in Int
    BY <1>5
  <2>2. Cong(k, l, P)
    BY <1>3, <1>5, <2>1, CongSym
  <2> HIDE DEF k, l, D, C, K, G
  <2>3. Cong(2 * D - k, 2 * D - l, P)
    BY <1>5, <2>1, <2>2, CongEqual, CongSum
  <2>4. QED
    BY <2>1, <2>2, <2>3, Zenon
<1> HIDE DEF A, B, C, D, E, G, H, K
<1>10. /\ Cong(u.X, (-4) * (E * K), P) /\ Cong(u.Y, (-4) * (G * H), P)
       /\ Cong(u.Z, (-4) * (K * G), P) /\ Cong(u.T, (-4) * (E * H), P)
  <2> DEFINE a == B - A
             b == B + A
             c == D - C
             d == D + C
             g2 == (-2) * G
             k2 == 2 * K
  <2>1. /\ a \in Int /\ b \in Int /\ c \in Int /\ d \in Int /\ g2 \in Int /\ k2 \in Int
        /\ Cong(c, k2, P) /\ Cong(d, g2, P) /\ Cong(a, a, P) /\ Cong(b, b, P)
    BY <1>5, <1>7, <1>9, CongEqual
  <2>2. /\ a * k2 = (-4) * (E * K) /\ g2 * b = (-4) * (G * H)
        /\ k2 * g2 = (-4) * (K * G) /\ a * b = (-4) * (E * H)
    <3>1. /\ ((-2) * E) * (2 * K) = (-4) * (E * K) /\ ((-2) * G) * (2 * H) = (-4) * (G * H)
          /\ (2 * K) * ((-2) * G) = (-4) * (K * G) /\ ((-2) * E) * (2 * H) = (-4) * (E * H)
      BY <1>7
    <3>2. QED
      BY <1>8, <3>1, Zenon
  <2>3. u.X \in Int /\ u.Y \in Int /\ u.Z \in Int /\ u.T \in Int
    BY <1>4, Residues DEF Points
  <2>4. /\ Cong(u.X, a * c, P) /\ Cong(u.Y, d * b, P)
        /\ Cong(u.Z, c * d, P) /\ Cong(u.T, a * b, P)
    BY <1>4
  <2> HIDE DEF a, b, c, d, g2, k2
  <2>5. Cong(a * c, a * k2, P) /\ Cong(d * b, g2 * b, P) /\ Cong(c * d, k2 * g2, P)
    BY <1>5, <2>1, CongProduct
  <2>6. /\ a * c \in Int /\ d * b \in Int /\ c * d \in Int
        /\ a * k2 \in Int /\ g2 * b \in Int /\ k2 * g2 \in Int
    BY <2>1
  <2>7. Cong(u.X, a * k2, P) /\ Cong(u.Y, g2 * b, P) /\ Cong(u.Z, k2 * g2, P)
    BY <1>5, <2>3, <2>4, <2>5, <2>6, CongTrans
  <2>8. QED
    BY <2>2, <2>4, <2>7, Zenon
<1>11. PICK v \in F : Cong((-4) * v, 1, P) /\ v \in Int
  <2>1. ~Cong(-4, 0, P)
    <3>1. ~Cong(2 * 2, 0, P)
      BY TwoIsNotZero, NoZeroDivisors
    <3>2. ASSUME Cong(-4, 0, P) PROVE FALSE
      <4>1. Cong(0 - (-4), 0 - 0, P)
        <5>1. Cong(0, 0, P) /\ -4 \in Int /\ 0 \in Int
          BY <1>5, CongEqual
        <5>2. QED
          BY <1>5, <3>2, <5>1, CongSum
      <4>2. QED
        BY <3>1, <4>1
    <3>3. QED
      BY <3>2
  <2>2. -4 \in Int
    OBVIOUS
  <2>3. QED
    BY <2>1, <2>2, Inverses, Residues
<1>12. ASSUME NEW a \in Int, NEW b \in Int, NEW c \in Int,
              Cong(a, c, P), Cong(b, (-4) * c, P)
       PROVE  Cong(a, v * b, P)
  <2> DEFINE d == (-4) * c
             k == (-4) * v
  <2>1. v * d = k * c /\ d \in Int /\ k \in Int /\ 1 * c = c /\ 1 \in Int
    BY <1>11, <1>12
  <2>2. Cong(b, d, P) /\ Cong(k, 1, P)
    BY <1>11, <1>12
  <2> HIDE DEF d, k
  <2>3. Cong(v * b, v * d, P) /\ Cong(k * c, 1 * c, P) /\ v * b \in Int /\ k * c \in Int
    BY <1>5, <1>11, <1>12, <2>1, <2>2, CongEqual, CongProduct
  <2>4. Cong(v * b, k * c, P) /\ Cong(k * c, c, P)
    BY <2>1, <2>3, Zenon
  <2>5. QED
    BY <1>5, <1>12, <2>3, <2>4, CongSym, CongTrans
<1>13. /\ Mul(e, f) \in F /\ Cong(Mul(e, f), E * K, P)
       /\ Mul(g, h) \in F /\ Cong(Mul(g, h), G * H, P)
       /\ Mul(f, g) \in F /\ Cong(Mul(f, g), K * G, P)
       /\ Mul(e, h) \in F /\ Cong(Mul(e, h), E * H, P)
  BY <1>6, <1>7, OperationsCong, Zenon
<1>14. r \in Points
  BY <1>1, <1>13 DEF Points
<1>15. /\ Cong(r.X, v * u.X, P) /\ Cong(r.Y, v * u.Y, P)
       /\ Cong(r.Z, v * u.Z, P) /\ Cong(r.T, v * u.T, P)
  <2>1. /\ r.X \in Int /\ r.Y \in Int /\ r.Z \in Int /\ r.T \in Int
        /\ u.X \in Int /\ u.Y \in Int /\ u.Z \in Int /\ u.T \in Int
        /\ E * K \in Int /\ G * H \in Int /\ K * G \in Int /\ E * H \in Int
    BY <1>4, <1>7, <1>14, Residues DEF Points
  <2>2. /\ Cong(r.X, E * K, P) /\ Cong(r.Y, G * H, P)
        /\ Cong(r.Z, K * G, P) /\ Cong(r.T, E * H, P)
    BY <1>2, <1>13, Zenon
  <2>3. QED
    BY <1>10, <1>12, <2>1, <2>2, Zenon
<1>16. ~Cong(v, 0, P)
  <2>1. ASSUME Cong(v, 0, P) PROVE FALSE
    <3>1. Cong(-4, -4, P) /\ -4 \in Int /\ 0 \in Int /\ 1 \in Int /\ 1 \in F /\ 0 \in F
      BY <1>5, CongEqual, Residues
    <3>2. Cong((-4) * v, (-4) * 0, P) /\ (-4) * v \in Int
      BY <1>5, <1>11, <2>1, <3>1, CongProduct
    <3>3. Cong((-4) * v, 0, P)
      BY <3>2
    <3>4. Cong(1, 0, P)
      BY <1>5, <1>11, <3>1, <3>2, <3>3, CongSym, CongTrans
    <3>5. 1 = 0
      BY <3>1, <3>4, Operations, Zenon
    <3>6. QED
      BY <3>5
  <2>2. QED
    BY <2>1
<1>17. QED
  BY <1>4, <1>11, <1>14, <1>15, <1>16, ScaledValid

-----------------------------------------------------------------------------
(* Iterates *)

\* A set of natural numbers that is not empty has a least element.
LEMMA LeastElement ==
  ASSUME NEW T \in SUBSET Nat, T # {}
  PROVE  \E p \in T : \A q \in T : p <= q
<1> DEFINE R == OpToRel(<, Nat)
<1>1. IsWellFoundedOn(R, Nat)
  BY NatLessThanWellFounded, Zenon
<1>2. \A m, n \in Nat : m < n => <<m, n>> \in R
  <2>1. ASSUME NEW m \in Nat, NEW n \in Nat, m < n
        PROVE  <<m, n>> \in R
    BY <2>1, Zenon DEF OpToRel
  <2>2. QED
    BY <2>1, Zenon
<1> HIDE DEF R
<1>3. PICK p \in T : \A q \in T : ~(<<q, p>> \in R)
  BY <1>1, WFMin
<1>4. ASSUME NEW q \in T, q < p
      PROVE  FALSE
  BY <1>2, <1>3, <1>4
<1>5. QED
  BY <1>4

\* f is a, h[1] of it, h[2] of that, and so on.
Iterates(f, a, h, n) == f[0] = a /\ \A k \in 1..n : f[k] = h[k][f[k - 1]]

\* In a set that is closed under them, the iterates exist.
LEMMA IteratesExist ==
  ASSUME NEW S, NEW a \in S, NEW n \in Nat, NEW h, \A k \in 1..n : \A x \in S : h[k][x] \in S
  PROVE  \E f : Iterates(f, a, h, n) /\ \A k \in 0..n : f[k] \in S
<1> DEFINE T == {m \in 0..n : ~\E f \in [0..m -> S] : Iterates(f, a, h, m)}
<1>0. SUFFICES ASSUME T # {} PROVE FALSE
  <2>1. n \in 0..n
    OBVIOUS
  <2>2. ASSUME n \notin T PROVE \E f : Iterates(f, a, h, n) /\ \A k \in 0..n : f[k] \in S
    <3>1. PICK f \in [0..n -> S] : Iterates(f, a, h, n)
      BY <2>1, <2>2
    <3>2. QED
      BY <3>1
  <2>3. QED
    BY <2>1, <2>2
<1>1. PICK m \in T : \A l \in T : m <= l
  <2>1. T \in SUBSET Nat
    OBVIOUS
  <2>2. QED
    BY <1>0, <2>1, LeastElement, Zenon
<1>2. m # 0
  <2> DEFINE f == [k \in 0..0 |-> a]
  <2>1. f \in [0..0 -> S] /\ Iterates(f, a, h, 0)
    BY DEF Iterates
  <2>2. QED
    BY <1>1, <2>1
<1>3. m-1 \in 0..n /\ m \in 1..n /\ m-1 \notin T
  BY <1>1, <1>2
<1>4. PICK f \in [0..m-1 -> S] : Iterates(f, a, h, m-1)
  BY <1>3
<1> DEFINE g == [k \in 0..m |-> IF k = m THEN h[m][f[m-1]] ELSE f[k]]
<1>5. g \in [0..m -> S] /\ Iterates(g, a, h, m)
  <2>1. f[m-1] \in S /\ h[m][f[m-1]] \in S /\ f[0] = a
        /\ \A k \in 1..m-1 : f[k] = h[k][f[k-1]]
    BY <1>3, <1>4 DEF Iterates
  <2>2. g \in [0..m -> S] /\ g[0] = a
    BY <1>3, <2>1
  <2>3. ASSUME NEW k \in 1..m
        PROVE  g[k] = h[k][g[k-1]]
    BY <1>3, <2>1
  <2>4. QED
    BY <2>2, <2>3 DEF Iterates
<1>6. QED
  BY <1>1, <1>5

\* f and g begin alike, and go on alike while they are.
GoAlike(f, g, n) ==
  f[0] = g[0] /\ \A k \in 1..n : f[k - 1] = g[k - 1] => f[k] = g[k]

LEMMA Alike ==
  ASSUME NEW n \in Nat, NEW f, NEW g, GoAlike(f, g, n)
  PROVE  \A k \in 0..n : f[k] = g[k]
<1> DEFINE T == {k \in 0..n : ~(f[k] = g[k])}
<1> SUFFICES ASSUME T # {} PROVE FALSE
  OBVIOUS
<1>1. PICK k \in T : \A l \in T : k <= l
  <2>1. T \in SUBSET Nat
    OBVIOUS
  <2>2. QED
    BY <2>1, LeastElement, Zenon
<1>2. k # 0
  BY <1>1 DEF GoAlike
<1>3. k - 1 \in 0..n /\ k \in 1..n /\ k - 1 \notin T
  BY <1>1, <1>2
<1>4. f[k - 1] = g[k - 1]
  BY <1>3
<1>5. f[k] = g[k]
  BY <1>3, <1>4 DEF GoAlike
<1>6. QED
  BY <1>1, <1>5

-----------------------------------------------------------------------------
(* Points of the curve *)

\* The points of the curve.
Curve == {p \in Points : Valid(p)}

\* Double-and-add begins on the curve.
LEMMA IdentityValid == Identity \in Curve
<1>1. Identity \in Points /\ Identity.X = 0 /\ Identity.Y = 1 /\ Identity.Z = 1 /\ Identity.T = 0
  BY Residues DEF Identity, Points
<1>2. 0 * 1 = 1 * 0 /\ 2 * (1 * 1 - 0 * 0) = 2 * (1 * 1) + D2 * (0 * 0) /\ 1 # 0
  BY Residues
<1>3. Cong(0 * 1, 1 * 0, P) /\ Cong(2 * (1 * 1 - 0 * 0), 2 * (1 * 1) + D2 * (0 * 0), P)
  <2>1. 0 * 1 \in Int /\ 2 * (1 * 1 - 0 * 0) \in Int /\ P \in Int
    BY Residues
  <2>2. \A k \in Int : Cong(k, k, P)
    BY <2>1, CongEqual
  <2>3. QED
    BY <1>2, <2>1, <2>2, Zenon
<1>4. QED
  BY <1>1, <1>2, <1>3, ValidIsCong DEF Curve

\* A step of q from a point of the curve leads to one.
StepsAlong(q) == \A x \in Curve : ge_madd(x, q) \in Curve

\* The points of a walk along the curve, and the walk that is one step longer.
LEMMA WalkedOnCurve ==
  ASSUME NEW p \in Curve, NEW q, StepsAlong(q), NEW n \in Nat
  PROVE  /\ Walked(p, q, n) \in Curve
         /\ Walked(p, q, 0) = p
         /\ Walked(p, q, n + 1) = ge_madd(Walked(p, q, n), q)
<1> DEFINE h == [k \in Nat |-> [x \in Curve |-> ge_madd(x, q)]]
           Walk(w, m) == /\ Iterates(w, p, h, m) /\ Walked(p, q, m) = w[m]
                         /\ \A k \in 0..m : w[k] \in Curve
           W(w, m) == w = [k \in 0..m |-> IF k = 0 THEN p ELSE ge_madd(w[k - 1], q)]
<1>0. \A m \in Nat : \A k \in 1..m : \A x \in Curve : h[k][x] = ge_madd(x, q) /\ h[k][x] \in Curve
  BY DEF StepsAlong
<1> HIDE DEF h
<1>1. ASSUME NEW m \in Nat
      PROVE  \E w : Walk(w, m)
  <2>1. PICK f : Iterates(f, p, h, m) /\ \A k \in 0..m : f[k] \in Curve
    <3>1. \A k \in 1..m : \A x \in Curve : h[k][x] \in Curve
      BY <1>0
    <3>2. QED
      BY <3>1, IteratesExist, Zenon
  <2>2. W([k \in 0..m |-> f[k]], m)
    <3>2. ASSUME NEW k \in 0..m PROVE f[k] = IF k = 0 THEN p ELSE ge_madd(f[k - 1], q)
      <4>1. CASE k = 0
        BY <2>1, <4>1 DEF Iterates
      <4>2. CASE k \in 1..m
        <5>1. f[k] = h[k][f[k - 1]] /\ f[k - 1] \in Curve /\ k # 0
          BY <2>1, <4>2 DEF Iterates
        <5>2. QED
          BY <1>0, <4>2, <5>1
      <4>3. QED
        BY <4>1, <4>2
    <3>3. QED
      BY <3>2
  <2> DEFINE w == CHOOSE w : W(w, m)
  <2>3. W(w, m)
    <3> HIDE DEF W
    <3>1. QED
      BY <2>2, Zenon
  <2>4. Walked(p, q, m) = w[m]
    BY Zenon DEF Walked
  <2> HIDE DEF w
  <2>5. w[0] = p /\ \A k \in 1..m : w[k] = ge_madd(w[k - 1], q)
    BY <2>3
  <2>6. \A k \in 0..m : w[k] = f[k]
    <3>1. f[0] = p /\ \A k \in 1..m : f[k] = h[k][f[k - 1]] /\ f[k - 1] \in Curve
      BY <2>1 DEF Iterates
    <3>2. GoAlike(w, f, m)
      BY <1>0, <2>5, <3>1 DEF GoAlike
    <3>3. QED
      BY <3>2, Alike
  <2>7. QED
    BY <2>1, <2>4, <2>6
<1>3. PICK w : Walk(w, n + 1)
  BY <1>1
<1>4. PICK g : Walk(g, n)
  BY <1>1
<1>5. w[n] \in Curve /\ g[n] = w[n]
  <2>1. GoAlike(g, w, n)
    BY <1>3, <1>4 DEF Iterates, GoAlike
  <2>2. \A k \in 0..n : g[k] = w[k]
    BY <2>1, Alike
  <2>3. QED
    BY <1>3, <2>2
<1>6. w[n + 1] = h[n + 1][w[n]]
  BY <1>3 DEF Iterates
<1>7. h[n + 1][w[n]] = ge_madd(w[n], q)
  BY <1>0, <1>5
<1>8. Walked(p, q, 0) = p
  <2>1. PICK v : Walk(v, 0)
    BY <1>1
  <2>2. QED
    BY <2>1 DEF Iterates
<1>9. QED
  BY <1>3, <1>4, <1>5, <1>6, <1>7, <1>8

\* Whatever the scalar, double-and-add stays on the curve.
LEMMA ScalarmultOnCurve ==
  ASSUME NEW s
  PROVE  ge_scalarmult_base(s) \in Curve
<1> DEFINE base == ge_to_cached(Basepoint)
           N(k, x) == LET d == ge_double(x)
                      IN IF k > 1 /\ Bit(s, Bits - k) = 1 THEN ge_add(d, base) ELSE d
           h == [k \in Nat |-> [x \in Curve |-> N(k, x)]]
           W(w) == w = [k \in 0..Bits |-> IF k = 0 THEN Identity ELSE N(k, w[k - 1])]
<1>1. ASSUME NEW k \in Nat, NEW x \in Curve
      PROVE  N(k, x) \in Curve
  <2>1. x \in Points /\ Valid(x) /\ Basepoint \in Points /\ Valid(Basepoint)
    BY WalkAssumption DEF Curve, Valid
  <2>2. ge_double(x) \in Points /\ Valid(ge_double(x))
    BY <2>1, DoubleValid
  <2>3. Valid(ge_add(ge_double(x), base))
    BY <2>1, <2>2, AddValid
  <2>4. ge_double(x) \in Curve /\ ge_add(ge_double(x), base) \in Curve
    BY <2>2, <2>3 DEF Curve, Valid
  <2>5. QED
    BY <2>4, Zenon
<1>2. Bits \in Nat
  BY WalkAssumption DEF Bits
<1> HIDE DEF N
<1>3. \A k \in Nat : \A x \in Curve : h[k][x] = N(k, x) /\ h[k][x] \in Curve
  BY <1>1
<1> HIDE DEF h
<1>4. PICK f : Iterates(f, Identity, h, Bits) /\ \A k \in 0..Bits : f[k] \in Curve
  <2>1. \A k \in 1..Bits : \A x \in Curve : h[k][x] \in Curve
    BY <1>2, <1>3
  <2>2. QED
    BY <1>2, <2>1, IdentityValid, IteratesExist, Zenon
<1>5. W([k \in 0..Bits |-> f[k]])
  <2>1. ASSUME NEW k \in 0..Bits
        PROVE  f[k] = IF k = 0 THEN Identity ELSE N(k, f[k - 1])
    <3>1. CASE k = 0
      BY <1>4, <3>1 DEF Iterates
    <3>2. CASE k \in 1..Bits
      <4>1. f[k] = h[k][f[k - 1]] /\ f[k - 1] \in Curve /\ k # 0 /\ k \in Nat
        BY <1>2, <1>4, <3>2 DEF Iterates
      <4>2. QED
        BY <1>3, <3>2, <4>1
    <3>3. QED
      BY <1>2, <3>1, <3>2
  <2>2. QED
    BY <1>2, <2>1
<1> DEFINE w == CHOOSE w : W(w)
<1>6. W(w)
  <2> HIDE DEF W
  <2>1. QED
    BY <1>5, Zenon
<1>7. ge_scalarmult_base(s) = w[Bits]
  BY Zenon DEF ge_scalarmult_base, N
<1> HIDE DEF w
<1>8. w[0] = Identity /\ \A k \in 1..Bits : w[k] = N(k, w[k - 1])
  BY <1>2, <1>6
<1>9. GoAlike(w, f, Bits)
  <2>1. f[0] = Identity /\ \A k \in 1..Bits : f[k] = h[k][f[k - 1]] /\ f[k - 1] \in Curve
    BY <1>2, <1>4 DEF Iterates
  <2>2. \A k \in 1..Bits : k \in Nat
    BY <1>2
  <2>3. QED
    BY <1>3, <1>8, <2>1, <2>2 DEF GoAlike
<1>10. \A k \in 0..Bits : w[k] = f[k]
  BY <1>2, <1>9, Alike
<1>11. QED
  BY <1>2, <1>4, <1>7, <1>10

\* The affine form of a point of the curve is a step along it.
LEMMA AffineStepsAlong ==
  ASSUME NEW r \in Curve
  PROVE  StepsAlong(ge_to_cached_affine(r))
<1>1. ASSUME NEW x \in Curve PROVE ge_madd(x, ge_to_cached_affine(r)) \in Curve
  <2>1. Valid(ge_madd(x, ge_to_cached_affine(r)))
    BY StepValid DEF Curve
  <2>2. QED
    BY <2>1 DEF Curve, Valid
<1>2. QED
  BY <1>1 DEF StepsAlong

-----------------------------------------------------------------------------
(* The walk of an epoch *)

\* The current point and the point whose affine form is added to it.
WalkInv ==
  /\ cur \in Curve
  /\ \E r \in Curve : step = ge_to_cached_affine(r)

LEMMA InitWalkInv == Init => WalkInv
<1> SUFFICES ASSUME Init PROVE WalkInv
  OBVIOUS
<1> DEFINE eight == ge_scalarmult_base(Eight)
           start == ge_scalarmult_base(a0)
<1>1. eight \in Curve /\ start \in Curve
  BY ScalarmultOnCurve
<1> HIDE DEF eight, start
<1>2. Step8B = ge_to_cached_affine(eight) /\ StepsAlong(Step8B)
  BY <1>1, AffineStepsAlong DEF Step8B, eight
<1>3. t \in Nat /\ Threads - 1 \in Nat
  BY WalkAssumption DEF Init
<1>4. Walked(start, Step8B, t) \in Curve /\ Walked(eight, Step8B, Threads - 1) \in Curve
  BY <1>1, <1>2, <1>3, WalkedOnCurve
<1>5. cur = Walked(start, Step8B, t) /\ step = IF gpu THEN BigStep ELSE Step8B
  BY DEF Init, start
<1>6. BigStep = ge_to_cached_affine(Walked(eight, Step8B, Threads - 1))
  BY Zenon DEF BigStep, eight
<1>7. QED
  BY <1>1, <1>2, <1>4, <1>5, <1>6 DEF WalkInv

LEMMA StepWalkInv == WalkInv /\ [Next]_vars => WalkInv'
<1> SUFFICES ASSUME WalkInv, [Next]_vars PROVE WalkInv'
  OBVIOUS
<1>1. ASSUME Collect PROVE WalkInv'
  <2>1. cur' = ge_madd(cur, step) /\ step' = step
    BY <1>1 DEF Collect, walkVars
  <2>2. PICK r \in Curve : step = ge_to_cached_affine(r)
    BY DEF WalkInv
  <2>3. cur' \in Curve
    BY <2>1, <2>2, AffineStepsAlong DEF WalkInv, StepsAlong
  <2>4. QED
    BY <2>1, <2>2, <2>3 DEF WalkInv
<1>2. ASSUME UNCHANGED <<step, cur>> PROVE WalkInv'
  BY <1>2 DEF WalkInv
<1>3. CASE RecoverBatch \/ NextBatch \/ EpochOver \/ UNCHANGED vars
  <2>1. UNCHANGED <<step, cur>>
    BY <1>3 DEF RecoverBatch, NextBatch, EpochOver, vars, walkVars
  <2>2. QED
    BY <1>2, <2>1
<1>4. QED
  BY <1>1, <1>3 DEF Next

\* The point of every epoch stays on the curve, with a Z that is not zero,
\* whatever the base scalar, the thread and the length of the walk.
THEOREM WalkStaysOnCurve == Spec => []PointsStayValid
<1>1. WalkInv => PointsStayValid
  BY DEF WalkInv, PointsStayValid, Curve
<1>2. QED
  BY <1>1, InitWalkInv, StepWalkInv, PTL DEF Spec

\* The walk gives the batch inversion its points: no Z is zero.
LEMMA InitInversion == Init => InversionInit
BY DEF Init

LEMMA StepInversion == WalkInv /\ [Next]_vars => [InversionNext]_inversionVars
<1> SUFFICES ASSUME WalkInv, [Next]_vars PROVE [InversionNext]_inversionVars
  OBVIOUS
<1>1. CASE Collect
  <2>1. cur.Y \in F /\ cur.Z \in Units
    BY DEF WalkInv, Curve, Valid, Points, Units
  <2>2. QED
    BY <1>1, <2>1 DEF Collect, InversionNext
<1>2. CASE RecoverBatch
  BY <1>2 DEF RecoverBatch, InversionNext
<1>3. CASE NextBatch
  BY <1>3 DEF NextBatch, InversionNext
<1>4. CASE EpochOver \/ UNCHANGED vars
  BY <1>4 DEF EpochOver, vars
<1>5. QED
  BY <1>1, <1>2, <1>3, <1>4 DEF Next

\* Every walk is a run of the batch inversion.
THEOREM WalkUsesBatchInversion == Spec => InversionSpec
BY InitWalkInv, StepWalkInv, InitInversion, StepInversion, PTL DEF Spec, InversionSpec

\* The batch inversion recovers the affine y of the points of every walk: not
\* one of them has a zero Z, with which it would fail for the whole batch.
THEOREM WalkRecoversY == Spec => []YRecovered
BY WalkUsesBatchInversion, EveryYIsRecovered, PTL

-----------------------------------------------------------------------------
(* The points at the places of a batch *)

\* Where the walk began, and the point at place k of the batch.
Origin == Walked(ge_scalarmult_base(a0), Step8B, t)
Place(k) == Walked(Origin, step, consumed + k)

PlaceInv ==
  /\ Origin \in Curve /\ consumed \in Nat
  /\ cur = Place(Collected)
  /\ \A k \in Indices : k < Collected => ys[k] = Place(k).Y /\ zs[k] = Place(k).Z

LEMMA InitPlaceInv == Init => PlaceInv
<1> SUFFICES ASSUME Init PROVE PlaceInv
  OBVIOUS
<1> DEFINE eight == ge_scalarmult_base(Eight)
           start == ge_scalarmult_base(a0)
<1>1. eight \in Curve /\ start \in Curve
  BY ScalarmultOnCurve
<1> HIDE DEF eight, start
<1>2. Step8B = ge_to_cached_affine(eight) /\ StepsAlong(Step8B)
  BY <1>1, AffineStepsAlong DEF Step8B, eight
<1>3. t \in Nat /\ consumed = 0 /\ phase = "collect" /\ i = 0 /\ cur = Origin
  BY WalkAssumption DEF Init, InversionInit, Origin
<1>4. Walked(start, Step8B, t) \in Curve
  BY <1>1, <1>2, <1>3, WalkedOnCurve
<1>5. Origin \in Curve
  BY <1>4 DEF Origin, start
<1>6. PICK r \in Curve : step = ge_to_cached_affine(r)
  BY InitWalkInv DEF WalkInv
<1>7. Walked(Origin, step, 0) = Origin
  BY <1>5, <1>6, AffineStepsAlong, WalkedOnCurve
<1>8. Collected = 0 /\ consumed + 0 = 0
  BY <1>3 DEF Collected
<1>9. QED
  BY <1>3, <1>5, <1>7, <1>8, BatchAssumption DEF PlaceInv, Place, Indices

LEMMA StepPlaceInv ==
  InversionTypeOK /\ WalkInv /\ PlaceInv /\ [Next]_vars => PlaceInv'
<1> SUFFICES ASSUME InversionTypeOK, WalkInv, PlaceInv, [Next]_vars PROVE PlaceInv'
  OBVIOUS
<1>0. /\ i \in Indices /\ ys \in [Indices -> F] /\ zs \in [Indices -> F]
      /\ Origin \in Curve /\ consumed \in Nat /\ Batch \in Nat \ {0}
      /\ cur = Place(Collected)
      /\ \A k \in Indices : k < Collected => ys[k] = Place(k).Y /\ zs[k] = Place(k).Z
  BY BatchAssumption DEF InversionTypeOK, PlaceInv
<1>1. CASE Collect
  <2>1. /\ phase = "collect" /\ UNCHANGED <<a0, t, step, consumed>>
        /\ ys' = [ys EXCEPT ![i] = cur.Y] /\ zs' = [zs EXCEPT ![i] = cur.Z]
        /\ cur' = ge_madd(cur, step)
        /\ Up("prefix") \/ Up("invert")
    BY <1>1 DEF Collect, CollectStored, CollectFused, walkVars
  <2>2. Collected = i /\ Collected' = i + 1
    BY <1>0, <2>1 DEF Collected, Up, Indices
  <2>3. Origin' = Origin /\ consumed' = consumed /\ step' = step
    BY <2>1 DEF Origin
  <2>4. \A k : Place(k)' = Place(k)
    BY <2>3 DEF Place
  <2>5. Place(i + 1) = ge_madd(Place(i), step)
    <3> DEFINE n == consumed + i
    <3>1. PICK r \in Curve : step = ge_to_cached_affine(r)
      BY DEF WalkInv
    <3>2. n \in Nat /\ consumed + (i + 1) = n + 1
      BY <1>0 DEF Indices
    <3>3. Walked(Origin, step, n + 1) = ge_madd(Walked(Origin, step, n), step)
      BY <1>0, <3>1, <3>2, AffineStepsAlong, WalkedOnCurve
    <3>4. QED
      BY <3>2, <3>3 DEF Place
  <2>6. cur' = Place(i + 1)
    BY <1>0, <2>1, <2>2, <2>5
  <2>7. ASSUME NEW k \in Indices, k < i + 1
        PROVE  ys'[k] = Place(k).Y /\ zs'[k] = Place(k).Z
    BY <1>0, <2>1, <2>2, <2>7 DEF Indices
  <2>8. QED
    BY <1>0, <2>2, <2>3, <2>4, <2>6, <2>7 DEF PlaceInv
<1>2. CASE NextBatch
  <2>1. /\ phase = "done" /\ phase' = "collect" /\ i' = 0 /\ consumed' = consumed + Batch
        /\ UNCHANGED <<a0, t, step, cur>>
    BY <1>2 DEF NextBatch, NextCall
  <2>2. Origin' = Origin /\ step' = step /\ Collected = Batch /\ Collected' = 0
    BY <2>1 DEF Origin, Collected
  <2>3. Place(0)' = Place(Batch)
    <3>1. consumed' + 0 = consumed + Batch
      BY <1>0, <2>1
    <3>2. QED
      BY <2>2, <3>1 DEF Place
  <2>4. QED
    BY <1>0, <2>1, <2>2, <2>3 DEF PlaceInv, Indices
<1>3. CASE RecoverBatch
  <2>1. /\ UNCHANGED <<a0, t, step, cur, consumed, ys, zs>> /\ Collected' = Collected
    BY <1>0, <1>3
       DEF RecoverBatch, InversionStep, PrefixProduct, Invert, RecoverStored,
           RecoverFused, Collected, Up, Down, arrays, walkVars
  <2>2. Origin' = Origin /\ \A k : Place(k)' = Place(k)
    BY <2>1 DEF Origin, Place
  <2>3. QED
    BY <1>0, <2>1, <2>2 DEF PlaceInv
<1>4. CASE EpochOver \/ UNCHANGED vars
  <2>1. UNCHANGED <<a0, t, step, cur, consumed, ys, zs, phase, i>>
    BY <1>4 DEF EpochOver, vars, walkVars, inversionVars, arrays
  <2>2. Origin' = Origin /\ Collected' = Collected /\ \A k : Place(k)' = Place(k)
    BY <2>1 DEF Origin, Place, Collected
  <2>3. QED
    BY <1>0, <2>1, <2>2 DEF PlaceInv
<1>5. QED
  BY <1>1, <1>2, <1>3, <1>4 DEF Next

\* The y that is compared at place k is that of the point the walk has reached
\* with consumed + k steps, and no other: neither the order in which a batch is
\* recovered nor the scratch of the batch before moves it to another place.
THEOREM EveryYHasItsPlace ==
  Spec => [](\A k \in Indices : Done(k) => Mul(out[k], Place(k).Z) = Place(k).Y)
<1>1. PlaceInv /\ YRecovered
        => \A k \in Indices : Done(k) => Mul(out[k], Place(k).Z) = Place(k).Y
  <2> SUFFICES ASSUME PlaceInv, YRecovered, NEW k \in Indices, Done(k)
               PROVE  Mul(out[k], Place(k).Z) = Place(k).Y
    OBVIOUS
  <2>1. k < Collected
    BY BatchAssumption DEF Done, Collected, Indices
  <2>2. QED
    BY <2>1 DEF PlaceInv, YRecovered
<1>2. Spec => []InversionTypeOK
  BY WalkUsesBatchInversion, InversionTypeCorrect, PTL
<1>3. QED
  BY <1>1, <1>2, WalkRecoversY, InitWalkInv, StepWalkInv, InitPlaceInv, StepPlaceInv, PTL
     DEF Spec

-----------------------------------------------------------------------------
(* The scalar of a match *)

\* What is left of a number when its multiples of the radix are taken.
LEMMA DivisionByRadix ==
  ASSUME NEW c \in Nat
  PROVE  /\ c \div Radix \in Nat /\ c % Radix \in 0..Radix-1
         /\ c = (c % Radix) + Radix * (c \div Radix)
<1>1. Radix \in Nat \ {0}
  BY WalkAssumption
<1> HIDE DEF Radix
<1>2. c \div Radix \in Nat /\ c % Radix \in 0..Radix-1
  BY <1>1
<1>3. c % Radix = c - (c \div Radix) * Radix
  BY <1>1
<1> DEFINE q == c \div Radix
           r == c % Radix
<1>4. q \in Int /\ r \in Int /\ r = c - q * Radix
  BY <1>1, <1>2, <1>3
<1> HIDE DEF q, r
<1>5. c = r + Radix * q
  BY <1>1, <1>4
<1>6. QED
  BY <1>2, <1>5 DEF q, r

\* A byte counts for the radix times what the one below it counts for.
LEMMA Weights ==
  /\ \A k \in 0..ScalarBytes : Weight[k] \in Nat
  /\ Weight[0] = 1
  /\ \A k \in 1..ScalarBytes : Weight[k] = Radix * Weight[k - 1]
<1> DEFINE h == [k \in Nat |-> [x \in Nat |-> Radix * x]]
           W(w) == w = [k \in 0..ScalarBytes |-> IF k = 0 THEN 1 ELSE Radix * w[k - 1]]
<1>1. ScalarBytes \in Nat \ {0} /\ Radix \in Nat \ {0} /\ 1 \in Nat
  BY WalkAssumption
<1> HIDE DEF Radix
<1>2. \A k \in Nat : \A x \in Nat : h[k][x] = Radix * x /\ h[k][x] \in Nat
  BY <1>1
<1> HIDE DEF h
<1>3. PICK f : Iterates(f, 1, h, ScalarBytes) /\ \A k \in 0..ScalarBytes : f[k] \in Nat
  <2>1. \A k \in 1..ScalarBytes : \A x \in Nat : h[k][x] \in Nat
    BY <1>1, <1>2
  <2>2. ScalarBytes \in Nat
    BY <1>1
  <2>3. QED
    BY <1>1, <2>1, <2>2, IteratesExist, Zenon
<1>4. f[0] = 1 /\ \A k \in 1..ScalarBytes : f[k] = Radix * f[k - 1]
  BY <1>1, <1>2, <1>3 DEF Iterates
<1>5. W([k \in 0..ScalarBytes |-> f[k]])
  BY <1>1, <1>4
<1>6. W(Weight)
  <2>1. Weight = CHOOSE w : W(w)
    BY Zenon DEF Weight
  <2> HIDE DEF W
  <2>2. QED
    BY <1>5, <2>1, Zenon
<1> HIDE DEF Weight
<1>7. Weight[0] = 1 /\ \A k \in 1..ScalarBytes : Weight[k] = Radix * Weight[k - 1]
  BY <1>1, <1>6
<1>8. GoAlike(Weight, f, ScalarBytes)
  BY <1>4, <1>7 DEF GoAlike
<1>9. QED
  BY <1>1, <1>3, <1>7, <1>8, Alike

\* The number the bytes of s make, as sums of the bytes below each place.
LEMMA ValueIsSum ==
  ASSUME NEW s \in Scalars
  PROVE  \E v : /\ v[0] = 0 /\ Value(s) = v[ScalarBytes]
                /\ \A k \in 0..ScalarBytes : v[k] \in Nat
                /\ \A k \in 1..ScalarBytes : v[k] = v[k - 1] + s[k - 1] * Weight[k - 1]
<1> DEFINE h == [k \in 1..ScalarBytes |-> [x \in Nat |-> x + s[k - 1] * Weight[k - 1]]]
           W(v) == v = [k \in 0..ScalarBytes |->
                         IF k = 0 THEN 0 ELSE v[k - 1] + s[k - 1] * Weight[k - 1]]
<1>1. ScalarBytes \in Nat \ {0} /\ ScalarBytes \in Nat /\ 0 \in Nat
  BY WalkAssumption
<1>2. \A k \in 1..ScalarBytes : s[k - 1] \in Nat /\ Weight[k - 1] \in Nat
  <2>1. Radix \in Nat
    BY WalkAssumption
  <2>2. QED
    BY <1>1, <2>1, Weights DEF Scalars
<1>3. \A k \in 1..ScalarBytes : \A x \in Nat :
        h[k][x] = x + s[k - 1] * Weight[k - 1] /\ h[k][x] \in Nat
  BY <1>1, <1>2
<1> HIDE DEF h
<1>4. PICK f : Iterates(f, 0, h, ScalarBytes) /\ \A k \in 0..ScalarBytes : f[k] \in Nat
  <2>1. \A k \in 1..ScalarBytes : \A x \in Nat : h[k][x] \in Nat
    BY <1>3
  <2>2. QED
    BY <1>1, <2>1, IteratesExist, Zenon
<1>5. f[0] = 0 /\ \A k \in 1..ScalarBytes : f[k] = f[k - 1] + s[k - 1] * Weight[k - 1]
  BY <1>1, <1>3, <1>4 DEF Iterates
<1>6. W([k \in 0..ScalarBytes |-> f[k]])
  BY <1>1, <1>5
<1> DEFINE v == CHOOSE v : W(v)
<1>7. W(v)
  <2> HIDE DEF W
  <2>1. QED
    BY <1>6, Zenon
<1>8. Value(s) = v[ScalarBytes]
  BY Zenon DEF Value
<1> HIDE DEF v
<1>9. v[0] = 0 /\ \A k \in 1..ScalarBytes : v[k] = v[k - 1] + s[k - 1] * Weight[k - 1]
  BY <1>1, <1>7
<1>10. GoAlike(v, f, ScalarBytes)
  BY <1>5, <1>9 DEF GoAlike
<1>11. \A k \in 0..ScalarBytes : v[k] \in Nat
  BY <1>1, <1>4, <1>10, Alike
<1>12. QED
  BY <1>8, <1>9, <1>11

\* The carries of scalar_add_8i, and the bytes it returns.
LEMMA CarriesOfAdd ==
  ASSUME NEW s \in Scalars, NEW n \in Nat
  PROVE  \E c : /\ c[0] = 8 * n
                /\ \A k \in 0..ScalarBytes : c[k] \in Nat
                /\ \A k \in 1..ScalarBytes :
                     c[k] = c[k - 1] \div Radix + (s[k - 1] + (c[k - 1] % Radix)) \div Radix
                /\ scalar_add_8i(s, n)
                     = [k \in 0..ScalarBytes-1 |-> (s[k] + (c[k] % Radix)) % Radix]
<1> DEFINE N(k, x) == x \div Radix + (s[k - 1] + (x % Radix)) \div Radix
           h == [k \in 1..ScalarBytes |-> [x \in Nat |-> N(k, x)]]
           W(c) == c = [k \in 0..ScalarBytes |-> IF k = 0 THEN 8 * n ELSE N(k, c[k - 1])]
<1>1. ScalarBytes \in Nat \ {0} /\ ScalarBytes \in Nat /\ 8 * n \in Nat
  BY WalkAssumption
<1>2. ASSUME NEW k \in 1..ScalarBytes, NEW x \in Nat PROVE N(k, x) \in Nat
  <2>1. s[k - 1] \in Nat
    <3>1. Radix \in Nat
      BY WalkAssumption
    <3>2. QED
      BY <1>1, <3>1 DEF Scalars
  <2>2. x \div Radix \in Nat /\ x % Radix \in Nat
    BY DivisionByRadix
  <2>3. (s[k - 1] + (x % Radix)) \div Radix \in Nat
    <3> DEFINE y == s[k - 1] + (x % Radix)
    <3>1. y \in Nat
      BY <2>1, <2>2
    <3> HIDE DEF y
    <3>2. y \div Radix \in Nat
      BY <3>1, DivisionByRadix
    <3>3. QED
      BY <3>2 DEF y
  <2>4. QED
    BY <2>2, <2>3
<1> HIDE DEF N
<1>3. \A k \in 1..ScalarBytes : \A x \in Nat : h[k][x] = N(k, x) /\ h[k][x] \in Nat
  BY <1>2
<1> HIDE DEF h
<1>4. PICK f : Iterates(f, 8 * n, h, ScalarBytes) /\ \A k \in 0..ScalarBytes : f[k] \in Nat
  <2>1. \A k \in 1..ScalarBytes : \A x \in Nat : h[k][x] \in Nat
    BY <1>3
  <2>2. QED
    BY <1>1, <2>1, IteratesExist, Zenon
<1>5. f[0] = 8 * n /\ \A k \in 1..ScalarBytes : f[k] = N(k, f[k - 1])
  BY <1>1, <1>3, <1>4 DEF Iterates
<1>6. W([k \in 0..ScalarBytes |-> f[k]])
  BY <1>1, <1>5
<1> DEFINE c == CHOOSE c : W(c)
<1>7. W(c)
  <2> HIDE DEF W
  <2>1. QED
    BY <1>6, Zenon
<1>8. scalar_add_8i(s, n) = [k \in 0..ScalarBytes-1 |-> (s[k] + (c[k] % Radix)) % Radix]
  BY Zenon DEF scalar_add_8i, N
<1> HIDE DEF c
<1>9. c[0] = 8 * n /\ \A k \in 1..ScalarBytes : c[k] = N(k, c[k - 1])
  BY <1>1, <1>7
<1>10. GoAlike(c, f, ScalarBytes)
  BY <1>5, <1>9 DEF GoAlike
<1>11. \A k \in 0..ScalarBytes : c[k] \in Nat
  BY <1>1, <1>4, <1>10, Alike
<1>12. QED
  BY <1>8, <1>9, <1>11 DEF N

\* One byte: what is stored and what is carried on are the sum.
LEMMA ByteOfAdd ==
  ASSUME NEW b \in Nat, NEW c \in Nat
  PROVE  LET y == b + (c % Radix)
         IN b + c = (y % Radix) + Radix * (c \div Radix + y \div Radix)
<1> DEFINE y == b + (c % Radix)
           q == c \div Radix
           r == c % Radix
           d == y \div Radix
           e == y % Radix
<1>1. Radix \in Nat /\ q \in Nat /\ r \in Nat /\ c = r + Radix * q
  BY WalkAssumption, DivisionByRadix
<1>2. y \in Nat
  BY <1>1
<1>3. d \in Nat /\ e \in Nat /\ y = e + Radix * d
  <2> HIDE DEF y
  <2>1. QED
    BY <1>1, <1>2, DivisionByRadix
<1>4. y = b + r
  OBVIOUS
<1> SUFFICES b + c = e + Radix * (q + d)
  OBVIOUS
<1> HIDE DEF y, q, r, d, e
<1>5. Radix * (q + d) = Radix * q + Radix * d
  BY <1>1, <1>3
<1>6. QED
  BY <1>1, <1>2, <1>3, <1>4, <1>5

\* What is returned are bytes, and their number is the sum, but for what is
\* carried out of the topmost byte.
LEMMA SumOfAdd ==
  ASSUME NEW s \in Scalars, NEW n \in Nat
  PROVE  /\ scalar_add_8i(s, n) \in Scalars
         /\ \E c \in Nat : Value(scalar_add_8i(s, n)) + c * Weight[ScalarBytes] = Value(s) + 8 * n
<1> DEFINE r == scalar_add_8i(s, n)
<1>1. ScalarBytes \in Nat \ {0} /\ Radix \in Nat
  BY WalkAssumption
<1>2. PICK c : /\ c[0] = 8 * n
               /\ \A k \in 0..ScalarBytes : c[k] \in Nat
               /\ \A k \in 1..ScalarBytes :
                    c[k] = c[k - 1] \div Radix + (s[k - 1] + (c[k - 1] % Radix)) \div Radix
               /\ r = [k \in 0..ScalarBytes-1 |-> (s[k] + (c[k] % Radix)) % Radix]
  BY CarriesOfAdd
<1>3. ASSUME NEW k \in 0..ScalarBytes-1
      PROVE  /\ s[k] \in Nat /\ c[k] \in Nat /\ r[k] \in 0..Radix-1 /\ r[k] \in Nat
             /\ s[k] + c[k] = r[k] + Radix * c[k + 1]
  <2>1. s[k] \in Nat /\ c[k] \in Nat /\ k + 1 \in 1..ScalarBytes /\ (k + 1) - 1 = k
    BY <1>1, <1>2 DEF Scalars
  <2> DEFINE y == s[k] + (c[k] % Radix)
  <2>2. c[k + 1] = c[k] \div Radix + y \div Radix /\ r[k] = y % Radix
    BY <1>2, <2>1
  <2>3. s[k] + c[k] = (y % Radix) + Radix * (c[k] \div Radix + y \div Radix)
    BY <2>1, ByteOfAdd
  <2>4. y % Radix \in 0..Radix-1
    <3>1. y \in Nat
      BY <2>1, DivisionByRadix
    <3> HIDE DEF y
    <3>2. QED
      BY <3>1, DivisionByRadix
  <2>5. r[k] \in 0..Radix-1
    BY <2>2, <2>4
  <2> HIDE DEF y, r
  <2>6. QED
    BY <1>1, <2>1, <2>2, <2>3, <2>5
<1>4. r \in Scalars
  <2>1. r = [k \in 0..ScalarBytes-1 |-> r[k]]
    BY <1>2
  <2> HIDE DEF r
  <2>2. QED
    BY <1>3, <2>1 DEF Scalars
<1>5. PICK v : /\ v[0] = 0 /\ Value(s) = v[ScalarBytes]
               /\ \A k \in 0..ScalarBytes : v[k] \in Nat
               /\ \A k \in 1..ScalarBytes : v[k] = v[k - 1] + s[k - 1] * Weight[k - 1]
  BY ValueIsSum
<1> HIDE DEF r
<1>6. PICK u : /\ u[0] = 0 /\ Value(r) = u[ScalarBytes]
               /\ \A k \in 0..ScalarBytes : u[k] \in Nat
               /\ \A k \in 1..ScalarBytes : u[k] = u[k - 1] + r[k - 1] * Weight[k - 1]
  BY <1>4, ValueIsSum
\* What is below a place, and what is carried to it.
<1> DEFINE f == [k \in 0..ScalarBytes |-> u[k] + c[k] * Weight[k]]
           g == [k \in 0..ScalarBytes |-> v[k] + 8 * n]
<1>7. f[0] = g[0]
  BY <1>1, <1>2, <1>5, <1>6, Weights
<1>8. ASSUME NEW k \in 1..ScalarBytes, f[k - 1] = g[k - 1]
      PROVE  f[k] = g[k]
  <2> DEFINE j == k - 1
             w == Weight[j]
             b == s[j]
             a == r[j]
             x == c[j]
             x2 == c[k]
             u1 == u[j]
             v1 == v[j]
             wx == Weight[k]
  <2>1. /\ w \in Nat /\ wx = Radix * w /\ k - 1 \in 0..ScalarBytes /\ k \in 0..ScalarBytes
        /\ j \in 0..ScalarBytes-1 /\ j + 1 = k
    BY <1>1, Weights
  <2>2. b \in Nat /\ x \in Nat /\ a \in Nat /\ x2 \in Nat /\ u1 \in Nat /\ v1 \in Nat
    BY <1>2, <1>3, <1>5, <1>6, <2>1
  <2>3. b + x = a + Radix * x2
    <3>1. s[j] + c[j] = r[j] + Radix * c[j + 1]
      BY <1>3, <2>1
    <3>2. QED
      BY <2>1, <3>1
  <2>4. u[k] = u1 + a * w /\ v[k] = v1 + b * w
    BY <1>5, <1>6
  <2>5. u1 + x * w = v1 + 8 * n
    BY <1>8, <2>1
  <2>6. f[k] = u[k] + x2 * wx /\ g[k] = v[k] + 8 * n
    BY <2>1
  <2> HIDE DEF j, w, b, a, x, x2, u1, v1, wx, f, g
  <2>7. x2 * wx = (Radix * x2) * w
    BY <1>1, <2>1, <2>2
  <2>8. Radix * x2 = (b + x) - a
    BY <1>1, <2>2, <2>3
  <2>9. (Radix * x2) * w = ((b + x) - a) * w
    BY <2>8
  <2>10. ((b + x) - a) * w = b * w + x * w - a * w
    BY <2>1, <2>2
  <2>11. x2 * wx = b * w + x * w - a * w
    BY <2>7, <2>9, <2>10, Zenon
  <2>12. b * w \in Int /\ x * w \in Int /\ a * w \in Int
    BY <2>1, <2>2
  <2> DEFINE bw == b * w
             xw == x * w
             aw == a * w
             x2w == x2 * wx
  <2>13. /\ u[k] = u1 + aw /\ v[k] = v1 + bw /\ u1 + xw = v1 + 8 * n
         /\ f[k] = u[k] + x2w /\ g[k] = v[k] + 8 * n /\ x2w = bw + xw - aw
         /\ bw \in Int /\ xw \in Int /\ aw \in Int /\ x2w \in Int
    BY <2>4, <2>5, <2>6, <2>11, <2>12
  <2> HIDE DEF bw, xw, aw, x2w
  <2>14. QED
    BY <2>2, <2>13
<1>9. GoAlike(f, g, ScalarBytes)
  <2> HIDE DEF f, g
  <2>1. QED
    BY <1>7, <1>8 DEF GoAlike
<1>10. f[ScalarBytes] = g[ScalarBytes]
  <2> HIDE DEF f, g
  <2>1. QED
    BY <1>1, <1>9, Alike
<1>11. Value(r) + c[ScalarBytes] * Weight[ScalarBytes] = Value(s) + 8 * n /\ c[ScalarBytes] \in Nat
  BY <1>1, <1>2, <1>5, <1>6, <1>10
<1>12. QED
  BY <1>4, <1>11 DEF r

\* A clamped scalar is smaller than what its topmost bit counts for.
LEMMA ClampedValue ==
  ASSUME NEW s \in Scalars, Clamped(s)
  PROVE  Value(s) \in Nat /\ Value(s) < (Radix \div 2) * Weight[ScalarBytes - 1]
<1>1. /\ ScalarBytes \in Nat \ {0} /\ Radix \in Nat \ {0} /\ Radix % 8 = 0
      /\ ScalarBytes - 1 \in 0..ScalarBytes-1 /\ ScalarBytes - 1 \in 0..ScalarBytes
      /\ ScalarBytes \in 1..ScalarBytes
  BY WalkAssumption
<1>2. PICK v : /\ v[0] = 0 /\ Value(s) = v[ScalarBytes]
               /\ \A k \in 0..ScalarBytes : v[k] \in Nat
               /\ \A k \in 1..ScalarBytes : v[k] = v[k - 1] + s[k - 1] * Weight[k - 1]
  BY ValueIsSum
<1>3. \A k \in 0..ScalarBytes : v[k] < Weight[k]
  <2> DEFINE S == {k \in 0..ScalarBytes : ~(v[k] < Weight[k])}
  <2>1. SUFFICES ASSUME S # {} PROVE FALSE
    OBVIOUS
  <2>2. PICK k \in S : \A l \in S : k <= l
    <3>1. S \in SUBSET Nat
      BY <1>1
    <3>2. QED
      BY <2>1, <3>1, LeastElement, Zenon
  <2>3. k # 0
    BY <1>1, <1>2, <2>2, Weights
  <2>4. k \in 1..ScalarBytes /\ k - 1 \in 0..ScalarBytes /\ k - 1 \in 0..ScalarBytes-1
        /\ k - 1 \notin S
    BY <1>1, <2>2, <2>3
  <2> DEFINE u == v[k - 1]
             w == Weight[k - 1]
             b == s[k - 1]
  <2>5. u < w /\ u \in Nat /\ w \in Nat /\ b \in 0..Radix-1
    BY <1>1, <1>2, <2>4, Weights DEF Scalars
  <2>6. v[k] = u + b * w /\ Weight[k] = Radix * w
    BY <1>2, <2>4, Weights
  <2> HIDE DEF u, w, b
  <2>7. b * w <= (Radix - 1) * w
    BY <1>1, <2>5
  <2>8. (Radix - 1) * w = Radix * w - w
    BY <1>1, <2>5
  <2>9. v[k] < Weight[k]
    <3> DEFINE bw == b * w
               rw == Radix * w
    <3>1. bw <= rw - w /\ bw \in Int /\ rw \in Int /\ v[k] = u + bw /\ Weight[k] = rw
      BY <1>1, <2>5, <2>6, <2>7, <2>8
    <3> HIDE DEF bw, rw
    <3>2. QED
      BY <2>5, <3>1
  <2>10. QED
    BY <2>2, <2>9
<1> DEFINE top == ScalarBytes - 1
           w == Weight[top]
           b == s[top]
           u == v[top]
           half == Radix \div 2
<1>4. u \in Nat /\ w \in Nat /\ u < w /\ Value(s) = u + b * w /\ b \in 0..Radix-1
  <2>1. b \in 0..Radix-1
    BY <1>1 DEF Scalars
  <2>2. u \in Nat /\ w \in Nat /\ u < w
    BY <1>1, <1>2, <1>3, Weights
  <2>3. Value(s) = u + b * w
    BY <1>1, <1>2
  <2>4. QED
    BY <2>1, <2>2, <2>3
<1>5. b + 1 <= half /\ half \in Nat
  <2> DEFINE q == Radix \div 4
  <2>1. b \div q = 1
    BY DEF Clamped
  <2> HIDE DEF b, Radix
  <2>2. Radix \div 4 \in Nat /\ Radix = 4 * (Radix \div 4) /\ Radix \div 2 = 2 * (Radix \div 4)
    BY <1>1
  <2>3. q \in Nat \ {0} /\ half = 2 * q
    BY <1>1, <2>2
  <2> HIDE DEF q, half
  <2>4. b < 2 * q
    <3>1. b \in Nat
      BY <1>1, <1>4
    <3>2. QED
      BY <2>1, <2>3, <3>1
  <2>5. QED
    BY <1>1, <1>4, <2>3, <2>4
<1> HIDE DEF w, b, u, half
<1>6. (b + 1) * w <= half * w
  BY <1>1, <1>4, <1>5
<1>7. (b + 1) * w = b * w + w
  BY <1>1, <1>4
<1> DEFINE bw == b * w
           hw == half * w
<1>8. bw + w <= hw /\ bw \in Nat /\ hw \in Int /\ Value(s) = u + bw
  BY <1>1, <1>4, <1>5, <1>6, <1>7
<1> HIDE DEF bw, hw
<1>9. Value(s) \in Nat /\ Value(s) < hw
  BY <1>4, <1>8
<1>10. QED
  BY <1>9 DEF hw, half, w

\* As long as eight times n is no larger than that, nothing is carried out of the
\* topmost byte.
LEMMA AddIsExact ==
  ASSUME NEW s \in Scalars, Clamped(s), NEW n \in Nat,
         8 * n <= (Radix \div 2) * Weight[ScalarBytes - 1]
  PROVE  Value(scalar_add_8i(s, n)) = Value(s) + 8 * n
<1> DEFINE half == Radix \div 2
           w == Weight[ScalarBytes - 1]
           hw == half * w
           W == Weight[ScalarBytes]
           r == Value(scalar_add_8i(s, n))
           m == Value(s)
<1>1. PICK c \in Nat : r + c * W = m + 8 * n
  BY SumOfAdd
<1>2. r \in Nat
  <2>1. scalar_add_8i(s, n) \in Scalars
    BY SumOfAdd
  <2>2. PICK v : /\ r = v[ScalarBytes]
                 /\ \A k \in 0..ScalarBytes : v[k] \in Nat
    BY <2>1, ValueIsSum
  <2>3. QED
    BY <2>2, WalkAssumption
<1>3. m \in Nat /\ m < hw
  BY ClampedValue
<1>4. w \in Nat /\ W = Radix * w /\ hw \in Nat /\ half \in Nat /\ Radix = 2 * half
  <2>1. w \in Nat /\ W = Radix * w
    BY WalkAssumption, Weights
  <2>2. Radix \in Nat /\ Radix % 8 = 0
    BY WalkAssumption
  <2> HIDE DEF w, W, Radix
  <2>3. half \in Nat /\ Radix = 2 * half
    BY <2>2
  <2> HIDE DEF half
  <2>4. QED
    BY <2>1, <2>3
<1>5. W = 2 * hw
  <2> HIDE DEF w, W, half, Radix
  <2>1. QED
    BY <1>4
<1>6. m + 8 * n < W /\ W \in Nat
  <2> HIDE DEF w, W, half, Radix, m
  <2>1. 8 * n <= hw
    BY DEF half, w
  <2> HIDE DEF hw
  <2>2. QED
    BY <1>3, <1>4, <1>5, <2>1
<1> HIDE DEF r, m, W
<1>7. c = 0
  <2>1. ASSUME c >= 1 PROVE FALSE
    <3>1. c * W >= W /\ c * W \in Nat
      BY <1>6, <2>1
    <3>2. QED
      BY <1>1, <1>2, <1>3, <1>6, <3>1
  <2>2. QED
    BY <2>1
<1>8. r = m + 8 * n
  BY <1>1, <1>2, <1>6, <1>7
<1>9. QED
  BY <1>8 DEF r, m

\* Nor does the addition touch the three bits a clamped scalar has clear.
LEMMA LowBitsStayClear ==
  ASSUME NEW s \in Scalars, Clamped(s), NEW n \in Nat
  PROVE  scalar_add_8i(s, n)[0] % 8 = 0
<1> DEFINE b == s[0]
           c == 8 * n
           y == b + (c % Radix)
<1>1. /\ Radix \in Nat \ {0} /\ Radix % 8 = 0 /\ 0 \in 0..ScalarBytes-1
      /\ b \in Nat /\ b % 8 = 0
  <2>1. Radix \in Nat \ {0} /\ Radix % 8 = 0 /\ 0 \in 0..ScalarBytes-1
    BY WalkAssumption
  <2>2. b \in 0..Radix-1
    BY <2>1 DEF Scalars
  <2> HIDE DEF Radix
  <2>3. QED
    BY <2>1, <2>2 DEF Clamped
<1>2. scalar_add_8i(s, n)[0] = y % Radix
  <2>1. PICK d : /\ d[0] = 8 * n
                 /\ scalar_add_8i(s, n)
                      = [k \in 0..ScalarBytes-1 |-> (s[k] + (d[k] % Radix)) % Radix]
    BY CarriesOfAdd
  <2>2. QED
    BY <1>1, <2>1
<1> DEFINE q == c \div Radix
           e == y \div Radix
<1>3. q \in Nat /\ e \in Nat /\ y % Radix = b + c - Radix * q - Radix * e
  <2> DEFINE z == c % Radix
             x == y % Radix
  <2>1. z \in Nat /\ q \in Nat /\ c = z + Radix * q
    <3>1. c \in Nat
      OBVIOUS
    <3> HIDE DEF c
    <3>2. QED
      BY <1>1, <3>1, DivisionByRadix
  <2>2. y = b + z /\ y \in Nat
    BY <1>1, <2>1
  <2>3. x \in Nat /\ e \in Nat /\ y = x + Radix * e
    <3>1. y \in Nat
      BY <2>2
    <3>2. Radix \in Nat
      BY <1>1
    <3> HIDE DEF y
    <3>3. QED
      BY <3>1, <3>2, DivisionByRadix
  <2> HIDE DEF z, x, y, q, e, b, c
  <2> DEFINE rq == Radix * q
             re == Radix * e
  <2>4. rq \in Int /\ re \in Int /\ c = z + rq /\ y = x + re
    BY <1>1, <2>1, <2>3
  <2> HIDE DEF rq, re
  <2>5. x = b + c - rq - re
    BY <1>1, <2>1, <2>2, <2>3, <2>4
  <2>6. QED
    BY <2>1, <2>3, <2>5 DEF x, rq, re
<1> DEFINE r == Radix \div 8
           m == b \div 8
<1>4. r \in Int /\ m \in Int /\ Radix = 8 * r /\ b = 8 * m
  <2> HIDE DEF Radix, b
  <2>1. QED
    BY <1>1
<1> DEFINE k == m + n - r * q - r * e
<1>5. b + c - Radix * q - Radix * e = 8 * k /\ k \in Int
  <2> HIDE DEF Radix, b, r, m, q, e
  <2>1. (8 * r) * q = 8 * (r * q) /\ (8 * r) * e = 8 * (r * e) /\ r * q \in Int /\ r * e \in Int
    BY <1>3, <1>4
  <2>2. QED
    BY <1>3, <1>4, <2>1
<1> HIDE DEF k
<1>6. (8 * k) % 8 = 0
  BY <1>5
<1>7. QED
  BY <1>2, <1>3, <1>5, <1>6

\* What an index can be: a walk stays in its epoch, a thread in its batch.
IndexInv ==
  /\ a0 \in BaseScalars /\ gpu \in BOOLEAN
  /\ t \in IF gpu THEN 0..Threads-1 ELSE {0}
  /\ consumed \in Nat
  /\ gpu => consumed = 0
  /\ ~gpu => consumed + Batch <= EpochCandidates

LEMMA InitIndexInv == Init => IndexInv
BY WalkAssumption, BatchAssumption DEF Init, IndexInv

LEMMA StepIndexInv == IndexInv /\ [Next]_vars => IndexInv'
<1> SUFFICES ASSUME IndexInv, [Next]_vars PROVE IndexInv'
  OBVIOUS
<1>1. CASE NextBatch
  <2>1. /\ ~gpu /\ consumed + 2 * Batch <= EpochCandidates
        /\ consumed' = consumed + Batch /\ UNCHANGED <<gpu, a0, t>>
    BY <1>1 DEF NextBatch
  <2>2. QED
    BY <2>1, WalkAssumption, BatchAssumption DEF IndexInv
<1>2. CASE Collect \/ RecoverBatch \/ EpochOver \/ UNCHANGED vars
  <2>1. UNCHANGED <<gpu, a0, t, consumed>>
    BY <1>2 DEF Collect, RecoverBatch, EpochOver, vars, walkVars
  <2>2. QED
    BY <2>1 DEF IndexInv
<1>3. QED
  BY <1>1, <1>2 DEF Next

\* The points of an epoch: of a CPU worker's, or of one launch of the kernel.
InEpoch == IF gpu THEN Threads * Batch ELSE EpochCandidates

\* Every index is one of the epoch.
LEMMA IndexInEpoch ==
  ASSUME IndexInv, NEW k \in Indices
  PROVE  Index(k) \in 0..InEpoch-1
<1>1. k \in Nat /\ k <= Batch - 1 /\ Batch \in Nat /\ Threads \in Nat \ {0} /\ EpochCandidates \in Nat
  BY WalkAssumption, BatchAssumption DEF Indices
<1>2. CASE ~gpu
  BY <1>1, <1>2 DEF IndexInv, Index, InEpoch
<1>3. CASE gpu
  <2>1. t \in Nat /\ t <= Threads - 1
    BY <1>1, <1>3 DEF IndexInv
  <2>2. k * Threads <= (Batch - 1) * Threads
    BY <1>1
  <2>3. (Batch - 1) * Threads = Threads * Batch - Threads
    BY <1>1
  <2> DEFINE kt == k * Threads
             tb == Threads * Batch
  <2>4. kt <= tb - Threads /\ kt \in Nat /\ tb \in Nat
    BY <1>1, <2>2, <2>3
  <2> HIDE DEF kt, tb
  <2>5. t + kt \in 0..tb-1
    BY <1>1, <2>1, <2>4
  <2>6. QED
    BY <1>3, <2>5 DEF Index, InEpoch, kt, tb
<1>4. QED
  BY <1>2, <1>3 DEF IndexInv

\* The places of the walks of one launch have no index in common, and leave
\* none of 0..Threads*Batch-1 out: n is the index of one place of one thread.
THEOREM ThreadsShareOutTheEpoch ==
  \A n \in 0..Threads*Batch-1 :
    /\ \E u \in 0..Threads-1, k \in Indices : n = u + k * Threads
    /\ \A u, v \in 0..Threads-1 : \A k, l \in Indices :
         n = u + k * Threads /\ n = v + l * Threads => u = v /\ k = l
<1> SUFFICES ASSUME NEW n \in 0..Threads*Batch-1
    PROVE /\ \E u \in 0..Threads-1, k \in Indices : n = u + k * Threads
          /\ \A u, v \in 0..Threads-1 : \A k, l \in Indices :
               n = u + k * Threads /\ n = v + l * Threads => u = v /\ k = l
  OBVIOUS
<1>1. Threads \in Nat \ {0} /\ Batch \in Nat \ {0} /\ n \in Nat /\ n < Threads * Batch
  BY WalkAssumption, BatchAssumption
<1>2. \E u \in 0..Threads-1, k \in Indices : n = u + k * Threads
  <2> DEFINE q == n \div Threads
             r == n % Threads
  <2>1. q \in Nat /\ r \in 0..Threads-1
    BY <1>1
  <2>2. r = n - q * Threads
    BY <1>1
  <2> HIDE DEF q, r
  <2>3. n = r + q * Threads
    <3> DEFINE m == q * Threads
    <3>1. m \in Int /\ r = n - m
      BY <1>1, <2>1, <2>2
    <3> HIDE DEF m
    <3>2. n = r + m
      BY <1>1, <2>1, <3>1
    <3>3. QED
      BY <3>2 DEF m
  <2>4. ASSUME q >= Batch PROVE FALSE
    <3>1. q * Threads >= Batch * Threads
      BY <1>1, <2>1, <2>4
    <3>2. Batch * Threads = Threads * Batch /\ q * Threads \in Nat /\ Threads * Batch \in Nat
      BY <1>1, <2>1
    <3>3. QED
      BY <1>1, <2>1, <2>3, <3>1, <3>2
  <2>5. q \in Indices
    BY <1>1, <2>1, <2>4 DEF Indices
  <2>6. QED
    BY <2>1, <2>3, <2>5
<1>3. ASSUME NEW u \in 0..Threads-1, NEW v \in 0..Threads-1,
             NEW k \in Indices, NEW l \in Indices,
             n = u + k * Threads, n = v + l * Threads
      PROVE  u = v /\ k = l
  <2>1. k \in Nat /\ l \in Nat /\ u \in Nat /\ v \in Nat /\ u < Threads /\ v < Threads
    BY <1>1 DEF Indices
  <2>2. ASSUME NEW x \in Nat, NEW y \in Nat, NEW a \in Nat, NEW b \in Nat,
               b < Threads, a + x * Threads = b + y * Threads, y < x
        PROVE  FALSE
    <3>1. (y + 1) * Threads <= x * Threads
      BY <1>1, <2>2
    <3>2. (y + 1) * Threads = y * Threads + Threads
      BY <1>1
    <3> DEFINE xt == x * Threads
               yt == y * Threads
    <3>3. xt \in Nat /\ yt \in Nat /\ yt + Threads <= xt /\ a + xt = b + yt
      BY <1>1, <2>2, <3>1, <3>2
    <3> HIDE DEF xt, yt
    <3>4. QED
      BY <1>1, <2>2, <3>3
  <2>3. u + k * Threads = v + l * Threads
    BY <1>3, Zenon
  <2>4. ~(l < k) /\ ~(k < l)
    <3>1. ASSUME l < k PROVE FALSE
      BY <2>1, <2>2, <2>3, <3>1
    <3>2. ASSUME k < l PROVE FALSE
      BY <2>1, <2>2, <2>3, <3>2
    <3>3. QED
      BY <3>1, <3>2
  <2>5. k = l
    BY <2>1, <2>4
  <2>6. u = v
    <3> DEFINE m == k * Threads
    <3>1. m \in Nat /\ u + m = v + m
      BY <1>1, <2>1, <2>3, <2>5
    <3> HIDE DEF m
    <3>2. QED
      BY <2>1, <3>1
  <2>7. QED
    BY <2>5, <2>6
<1>4. QED
  BY <1>2, <1>3

\* Eight times the candidates of an epoch, or of a launch, is no more than the
\* topmost bit of a scalar counts for.
EpochFits ==
  LET top == (Radix \div 2) * Weight[ScalarBytes - 1]
  IN  8 * EpochCandidates <= top /\ 8 * (Threads * Batch) <= top

\* The scalar a match at place k would be given is a0 + 8 * Index(k), with the
\* low three bits clear.
RebuiltIsTheSum ==
  \A k \in Indices : /\ Value(Rebuilt(k)) = Value(a0) + 8 * Index(k)
                     /\ Rebuilt(k)[0] % 8 = 0

\* The byte-wise addition loses no carry out of a scalar, and the index is one
\* of the epoch's: in every state the scalar of a match is the base scalar and
\* eight times the index.
THEOREM MatchScalarIsExact ==
  Spec => [](/\ \A k \in Indices : Index(k) \in 0..InEpoch-1
             /\ EpochFits => RebuiltIsTheSum)
<1>1. ASSUME IndexInv PROVE \A k \in Indices : Index(k) \in 0..InEpoch-1
  BY <1>1, IndexInEpoch
<1>2. ASSUME IndexInv, EpochFits PROVE RebuiltIsTheSum
  <2> SUFFICES ASSUME NEW k \in Indices
               PROVE  /\ Value(Rebuilt(k)) = Value(a0) + 8 * Index(k)
                      /\ Rebuilt(k)[0] % 8 = 0
    BY DEF RebuiltIsTheSum
  <2> DEFINE n == Index(k)
             top == (Radix \div 2) * Weight[ScalarBytes - 1]
             tb == Threads * Batch
  <2>1. a0 \in Scalars /\ Clamped(a0)
    BY <1>2, WalkAssumption DEF IndexInv, Clamped
  <2>2. n \in 0..InEpoch-1
    BY <1>2, IndexInEpoch
  <2>3. InEpoch \in {tb, EpochCandidates} /\ tb \in Nat /\ EpochCandidates \in Nat
    BY WalkAssumption, BatchAssumption DEF InEpoch
  <2>4. 8 * EpochCandidates <= top /\ 8 * tb <= top /\ top \in Int
    <3>1. top \in Int
      BY WalkAssumption, Weights
    <3>2. QED
      BY <1>2, <3>1 DEF EpochFits
  <2> HIDE DEF n, top, tb
  <2>5. n \in Nat /\ 8 * n <= top
    BY <2>2, <2>3, <2>4
  <2>6. Value(scalar_add_8i(a0, n)) = Value(a0) + 8 * n
    BY <2>1, <2>5, AddIsExact DEF top
  <2>7. scalar_add_8i(a0, n)[0] % 8 = 0
    BY <2>1, <2>5, LowBitsStayClear
  <2>8. QED
    BY <2>6, <2>7 DEF Rebuilt, n
<1>3. IndexInv => /\ \A k \in Indices : Index(k) \in 0..InEpoch-1
                  /\ EpochFits => RebuiltIsTheSum
  <2> SUFFICES ASSUME IndexInv
               PROVE  /\ \A k \in Indices : Index(k) \in 0..InEpoch-1
                      /\ EpochFits => RebuiltIsTheSum
    OBVIOUS
  <2>1. \A k \in Indices : Index(k) \in 0..InEpoch-1
    BY <1>1, Zenon
  <2>2. EpochFits => RebuiltIsTheSum
    BY <1>2, Zenon
  <2>3. QED
    BY <2>1, <2>2, Zenon
<1>4. QED
  BY <1>3, InitIndexInv, StepIndexInv, PTL DEF Spec
-----------------------------------------------------------------------------
(* SHA3-256: the tables *)

\* Where the lane comes from that turn m puts into its place.
Came(m) == IF m = 1 THEN 1 ELSE kPiln[m - 1]

\* The lanes the walk goes to, one by one.
LEMMA PilnIs ==
  /\ kPiln[1] = 10 /\ kPiln[2] = 7 /\ kPiln[3] = 11 /\ kPiln[4] = 17 /\ kPiln[5] = 18 /\ kPiln[6] = 3
  /\ kPiln[7] = 5 /\ kPiln[8] = 16 /\ kPiln[9] = 8 /\ kPiln[10] = 21 /\ kPiln[11] = 24 /\ kPiln[12] = 4
  /\ kPiln[13] = 15 /\ kPiln[14] = 23 /\ kPiln[15] = 19 /\ kPiln[16] = 13 /\ kPiln[17] = 12 /\ kPiln[18] = 2
  /\ kPiln[19] = 20 /\ kPiln[20] = 14 /\ kPiln[21] = 22 /\ kPiln[22] = 9 /\ kPiln[23] = 6 /\ kPiln[24] = 1
BY DEF kPiln

\* How far it rotates what it brings.
LEMMA RotcIs ==
  /\ kRotc[1] = 1 /\ kRotc[2] = 3 /\ kRotc[3] = 6 /\ kRotc[4] = 10 /\ kRotc[5] = 15 /\ kRotc[6] = 21
  /\ kRotc[7] = 28 /\ kRotc[8] = 36 /\ kRotc[9] = 45 /\ kRotc[10] = 55 /\ kRotc[11] = 2 /\ kRotc[12] = 14
  /\ kRotc[13] = 27 /\ kRotc[14] = 41 /\ kRotc[15] = 56 /\ kRotc[16] = 8 /\ kRotc[17] = 25 /\ kRotc[18] = 43
  /\ kRotc[19] = 62 /\ kRotc[20] = 18 /\ kRotc[21] = 39 /\ kRotc[22] = 61 /\ kRotc[23] = 20 /\ kRotc[24] = 44
BY DEF kRotc

\* The walk goes to each lane but lane 0, and to none twice.
LEMMA PilnOnce ==
  /\ \A m \in 1..24 : kPiln[m] \in 1..24
  /\ \A m, n \in 1..24 : kPiln[m] = kPiln[n] => m = n
  /\ \A l \in 1..24 : \E m \in 1..24 : kPiln[m] = l
<1> USE PilnIs
<1>1. \A m \in 1..24 : kPiln[m] \in 1..24
  OBVIOUS
<1>2. \A m, n \in 1..24 : kPiln[m] = kPiln[n] => m = n
  OBVIOUS
<1>3. \A l \in 1..24 : \E m \in 1..24 : kPiln[m] = l
  OBVIOUS
<1>4. QED
  BY <1>1, <1>2, <1>3

\* Induction, for the numbers up to n that are in a set.
LEMMA Induct ==
  ASSUME NEW n \in Nat, NEW I, 0 \in I, \A k \in 1..n : k - 1 \in I => k \in I
  PROVE  \A k \in 0..n : k \in I
<1> DEFINE T == {k \in 0..n : k \notin I}
<1> SUFFICES ASSUME T # {} PROVE FALSE
  OBVIOUS
<1>1. PICK k \in T : \A l \in T : k <= l
  <2>1. T \in SUBSET Nat
    OBVIOUS
  <2>2. QED
    BY <2>1, LeastElement, Zenon
<1>2. k # 0
  BY <1>1
<1>3. k - 1 \in 0..n /\ k \in 1..n /\ k - 1 \notin T
  BY <1>1, <1>2
<1>4. QED
  BY <1>1, <1>3

-----------------------------------------------------------------------------
(* rho and pi *)

LaneState == [Lanes -> SUBSET LaneBit]

\* The exclusive or of two words is a word.
LEMMA XorIs ==
  ASSUME NEW S, NEW a \in SUBSET S, NEW b \in SUBSET S
  PROVE  Xor(a, b) \in SUBSET S
BY DEF Xor

\* A rotated lane is a lane.
LEMMA RotlIs ==
  ASSUME NEW a \in SUBSET LaneBit, NEW n \in Nat
  PROVE  rotl64(a, n) \in SUBSET LaneBit
BY DEF rotl64, LaneBit, LaneBits

\* What is left when the walk has moved e lanes.
LanesWalked(s, w, e) ==
  /\ w.s \in LaneState
  /\ w.t = s[Came(e + 1)]
  /\ w.s[0] = s[0]
  /\ \A m \in 1..e : w.s[kPiln[m]] = rotl64(s[Came(m)], kRotc[m])
  /\ \A m \in e+1..24 : w.s[kPiln[m]] = s[kPiln[m]]

\* It rotates by numbers.
LEMMA RotcNat == \A m \in 1..24 : kRotc[m] \in Nat
BY RotcIs

\* The walk comes from the lanes 1 to 24.
LEMMA CameIs ==
  \A m \in 1..24 : Came(m) \in 1..24
BY PilnOnce DEF Came

\* A turn moves one more lane, and overwrites none that is still to be moved.
LEMMA MovedWalked ==
  ASSUME NEW s \in LaneState, NEW e \in 1..24, NEW w, LanesWalked(s, w, e - 1)
  PROVE  LanesWalked(s, Moved(w, e), e)
<1> DEFINE v == Moved(w, e)
           p == kPiln[e]
           r == rotl64(w.t, kRotc[e])
<1>1. p \in Lanes /\ p # 0 /\ p \in 1..24
  BY PilnOnce DEF Lanes
<1>2. w.s \in LaneState /\ w.t = s[Came(e)] /\ w.s[0] = s[0]
      /\ (\A m \in 1..e-1 : w.s[kPiln[m]] = rotl64(s[Came(m)], kRotc[m]))
      /\ (\A m \in e..24 : w.s[kPiln[m]] = s[kPiln[m]])
  BY DEF LanesWalked
<1>3. Came(e) \in Lanes /\ w.t \in SUBSET LaneBit
  BY <1>2, CameIs DEF LaneState, Lanes
<1>4. r \in SUBSET LaneBit
  BY <1>3, RotlIs, RotcNat
<1>5. v.s = [w.s EXCEPT ![p] = r] /\ v.t = w.s[p]
  BY DEF Moved
<1> HIDE DEF r, v
<1>6. v.s \in LaneState
  BY <1>2, <1>4, <1>5 DEF LaneState
<1>7. \A l \in Lanes : v.s[l] = IF l = p THEN r ELSE w.s[l]
  BY <1>1, <1>2, <1>5 DEF LaneState
<1>8. v.s[0] = s[0]
  BY <1>1, <1>2, <1>7 DEF Lanes
<1>9. v.t = s[Came(e + 1)]
  <2>1. v.t = s[p]
    BY <1>2, <1>5
  <2>2. Came(e + 1) = p
    BY DEF Came
  <2>3. QED
    BY <2>1, <2>2
<1>10. ASSUME NEW m \in 1..24, m # e
       PROVE  v.s[kPiln[m]] = w.s[kPiln[m]]
  <2>1. kPiln[m] \in Lanes /\ kPiln[m] # p
    BY <1>10, PilnOnce DEF Lanes
  <2>2. QED
    BY <1>7, <2>1
<1>11. v.s[p] = rotl64(s[Came(e)], kRotc[e])
  BY <1>1, <1>2, <1>7 DEF r
<1>12. \A m \in 1..e : v.s[kPiln[m]] = rotl64(s[Came(m)], kRotc[m])
  <2>1. ASSUME NEW m \in 1..e, m = e
        PROVE  v.s[kPiln[m]] = rotl64(s[Came(m)], kRotc[m])
    BY <2>1, <1>11
  <2>2. ASSUME NEW m \in 1..e, m # e
        PROVE  v.s[kPiln[m]] = rotl64(s[Came(m)], kRotc[m])
    <3>1. m \in 1..24 /\ m \in 1..e-1
      BY <2>2
    <3>2. QED
      BY <2>2, <3>1, <1>2, <1>10
  <2>3. QED
    BY <2>1, <2>2
<1>13. \A m \in e+1..24 : v.s[kPiln[m]] = s[kPiln[m]]
  <2>1. ASSUME NEW m \in e+1..24
        PROVE  v.s[kPiln[m]] = s[kPiln[m]]
    <3>1. m \in 1..24 /\ m # e /\ m \in e..24
      OBVIOUS
    <3>2. QED
      BY <3>1, <1>2, <1>10
  <2>2. QED
    BY <2>1
<1>14. LanesWalked(s, v, e)
  BY <1>6, <1>8, <1>9, <1>12, <1>13 DEF LanesWalked
<1>15. QED
  BY <1>14 DEF v

\* The walk in place gives every lane but lane 0 what came to it, rotated, whatever
\* it overwrites on its way.
LEMMA RhoPiMoves ==
  ASSUME NEW s \in LaneState
  PROVE  /\ RhoPi(s) \in LaneState /\ RhoPi(s)[0] = s[0]
         /\ \A m \in 1..24 : RhoPi(s)[kPiln[m]] = rotl64(s[Came(m)], kRotc[m])
<1> DEFINE S == [s : LaneState, t : SUBSET LaneBit]
           a == [s |-> s, t |-> s[1]]
           h == [e \in 1..24 |-> [w \in S |-> Moved(w, e)]]
           Walk(v) == v = [e \in 0..24 |-> IF e = 0 THEN a ELSE Moved(v[e - 1], e)]
           walk == CHOOSE v : Walk(v)
<1>1. a \in S
  BY DEF LaneState, Lanes
<1>2. \A k \in 1..24 : \A x \in S : Moved(x, k) \in S
  <2>1. ASSUME NEW k \in 1..24, NEW x \in S
        PROVE  Moved(x, k) \in S
    <3>1. kPiln[k] \in Lanes
      BY PilnOnce DEF Lanes
    <3>2. rotl64(x.t, kRotc[k]) \in SUBSET LaneBit
      BY RotlIs, RotcNat
    <3>3. QED
      BY <3>1, <3>2 DEF Moved, LaneState
  <2>2. QED
    BY <2>1
<1>3. \E f : Iterates(f, a, h, 24) /\ \A k \in 0..24 : f[k] \in S
  <2>1. \A k \in 1..24 : \A x \in S : h[k][x] \in S
    BY <1>2
  <2>2. 24 \in Nat
    OBVIOUS
  <2> HIDE DEF h, S, a
  <2>3. QED
    BY <2>1, <2>2, <1>1, IteratesExist
<1>4. PICK f : Iterates(f, a, h, 24) /\ \A k \in 0..24 : f[k] \in S
  BY <1>3
<1>5. f[0] = a /\ \A k \in 1..24 : f[k] = Moved(f[k - 1], k)
  <2>1. \A k \in 1..24 : \A x \in S : h[k][x] = Moved(x, k)
    OBVIOUS
  <2>2. \A k \in 1..24 : k - 1 \in 0..24
    OBVIOUS
  <2> HIDE DEF h, S, a
  <2>3. QED
    BY <1>4, <2>1, <2>2 DEF Iterates
<1> HIDE DEF S, h
<1>6. Walk(walk)
  <2> DEFINE g == [k \in 0..24 |-> f[k]]
  <2>1. Walk(g)
    <3>1. \A k \in 0..24 : g[k] = IF k = 0 THEN a ELSE Moved(g[k - 1], k)
      <4>1. \A k \in 0..24 : k # 0 => k \in 1..24 /\ k - 1 \in 0..24
        OBVIOUS
      <4> HIDE DEF a
      <4>2. QED
        BY <4>1, <1>5
    <3> HIDE DEF a
    <3>2. g = [k \in 0..24 |-> IF k = 0 THEN a ELSE Moved(g[k - 1], k)]
      BY <3>1
    <3>3. QED
      BY <3>2
  <2> HIDE DEF g, Walk
  <2>2. QED
    BY <2>1
<1>7. RhoPi(s) = walk[24].s
  BY DEF RhoPi
<1>8. walk[0] = a /\ \A k \in 1..24 : walk[k] = Moved(walk[k - 1], k)
  <2> HIDE DEF walk, a
  <2>1. \A k \in 1..24 : k \in 0..24 /\ k # 0
    OBVIOUS
  <2>2. QED
    BY <1>6, <2>1
<1> HIDE DEF walk, Walk
<1> DEFINE I == {k \in 0..24 : LanesWalked(s, walk[k], k)}
<1>9. 0 \in I
  <2>1. \A m \in 1..0 : FALSE
    OBVIOUS
  <2>2. Came(0 + 1) = 1 /\ \A m \in 0+1..24 : a.s[kPiln[m]] = s[kPiln[m]]
    BY DEF Came
  <2>3. a.s = s /\ a.t = s[1]
    OBVIOUS
  <2> HIDE DEF a
  <2>4. LanesWalked(s, a, 0)
    BY <2>1, <2>2, <2>3 DEF LanesWalked
  <2>5. QED
    BY <1>8, <2>4
<1>10. \A k \in 1..24 : k - 1 \in I => k \in I
  BY <1>8, MovedWalked
<1>11. 24 \in I
  <2>1. 24 \in Nat /\ 24 \in 0..24
    OBVIOUS
  <2> HIDE DEF I
  <2>2. QED
    BY <2>1, <1>9, <1>10, Induct
<1>12. LanesWalked(s, walk[24], 24)
  BY <1>11
<1>13. QED
  BY <1>7, <1>12 DEF LanesWalked

-----------------------------------------------------------------------------
(* Where rho's walk is *)

\* The lanes the walk comes from, one by one.
LEMMA CameValues ==
  /\ Came(1) = 1 /\ Came(2) = 10 /\ Came(3) = 7 /\ Came(4) = 11 /\ Came(5) = 17 /\ Came(6) = 18
  /\ Came(7) = 3 /\ Came(8) = 5 /\ Came(9) = 16 /\ Came(10) = 8 /\ Came(11) = 21 /\ Came(12) = 24
  /\ Came(13) = 4 /\ Came(14) = 15 /\ Came(15) = 23 /\ Came(16) = 19 /\ Came(17) = 13 /\ Came(18) = 12
  /\ Came(19) = 2 /\ Came(20) = 20 /\ Came(21) = 14 /\ Came(22) = 22 /\ Came(23) = 9 /\ Came(24) = 6
BY PilnIs DEF Came

\* The walk comes from each lane but lane 0, and from none twice.
LEMMA CameOnce ==
  /\ \A m, n \in 1..24 : Came(m) = Came(n) => m = n
  /\ \A l \in 1..24 : \E m \in 1..24 : Came(m) = l
<1> USE CameValues
<1>1. \A m, n \in 1..24 : Came(m) = Came(n) => m = n
  OBVIOUS
<1>2. \A l \in 1..24 : \E m \in 1..24 : Came(m) = l
  OBVIOUS
<1>3. QED
  BY <1>1, <1>2

\* A lane and its coordinates.
PlaceOf(l) == <<l % 5, l \div 5>>

\* The coordinates of a lane give the lane.
LEMMA PlaceIs ==
  ASSUME NEW l \in Lanes
  PROVE  PlaceOf(l) \in Coordinates /\ 5 * (l \div 5) + (l % 5) = l /\ l % 5 \in 0..4 /\ l \div 5 \in 0..4
<1>1. l % 5 \in 0..4 /\ l \div 5 \in 0..4 /\ 5 * (l \div 5) + (l % 5) = l
  BY DEF Lanes
<1>2. QED
  BY <1>1 DEF PlaceOf, Coordinates

\* And a lane is given by its coordinates.
LEMMA LaneOfPlace ==
  ASSUME NEW x \in 0..4, NEW y \in 0..4
  PROVE  5 * y + x \in Lanes /\ PlaceOf(5 * y + x) = <<x, y>>
<1>1. 5 * y + x \in Lanes /\ ((5 * y + x) % 5) = x /\ ((5 * y + x) \div 5) = y
  BY DEF Lanes
<1>2. QED
  BY <1>1, Zenon DEF PlaceOf

\* A step of the walk of FIPS 202 is a step of the table, and pi's is one too.
LEMMA TableSteps ==
  \A m \in 1..24 :
    LET p == kPiln[m] IN
      /\ p \div 5 = (2 * (Came(m) % 5) + 3 * (Came(m) \div 5)) % 5
      /\ p % 5 = Came(m) \div 5
      /\ Came(m) % 5 = ((p % 5) + 3 * (p \div 5)) % 5
<1>1. ASSUME NEW m \in 1..24
      PROVE  LET p == kPiln[m] IN
             /\ p \div 5 = (2 * (Came(m) % 5) + 3 * (Came(m) \div 5)) % 5
             /\ p % 5 = Came(m) \div 5
             /\ Came(m) % 5 = ((p % 5) + 3 * (p \div 5)) % 5
  BY CameValues, PilnIs
<1>2. QED
  BY <1>1

\* The walk of FIPS 202 exists: it starts at lane 1 and goes on by its matrix.
LEMMA RhoPlaceSteps ==
  /\ RhoPlace[0] = <<1, 0>>
  /\ \A n \in 1..23 : RhoPlace[n] = <<RhoPlace[n - 1][2], (2 * RhoPlace[n - 1][1] + 3 * RhoPlace[n - 1][2]) % 5>>
<1> DEFINE Next1(p) == <<p[2], (2 * p[1] + 3 * p[2]) % 5>>
           S == Coordinates
           a == <<1, 0>>
           h == [e \in 1..23 |-> [p \in S |-> Next1(p)]]
           Walk(v) == v = [n \in 0..23 |-> IF n = 0 THEN <<1, 0>> ELSE LET p == v[n - 1] IN <<p[2], (2 * p[1] + 3 * p[2]) % 5>>]
<1>1. a \in S
  BY DEF Coordinates
<1>2. \A k \in 1..23 : \A x \in S : Next1(x) \in S
  <2>1. ASSUME NEW x \in S
        PROVE  Next1(x) \in S
    <3>1. x[1] \in 0..4 /\ x[2] \in 0..4
      BY DEF Coordinates
    <3>2. (2 * x[1] + 3 * x[2]) % 5 \in 0..4
      BY <3>1
    <3>3. QED
      BY <3>1, <3>2, Zenon DEF Coordinates
  <2>2. QED
    BY <2>1
<1>3. \E f : Iterates(f, a, h, 23) /\ \A k \in 0..23 : f[k] \in S
  <2>1. \A k \in 1..23 : \A x \in S : h[k][x] \in S
    <3> HIDE DEF Next1, S
    <3>1. QED
      BY <1>2
  <2>2. 23 \in Nat
    OBVIOUS
  <2> HIDE DEF h, S, a
  <2>3. QED
    BY <2>1, <2>2, <1>1, IteratesExist
<1>4. PICK f : Iterates(f, a, h, 23) /\ \A k \in 0..23 : f[k] \in S
  BY <1>3
<1>5. f[0] = a /\ \A k \in 1..23 : f[k] = Next1(f[k - 1])
  <2>1. \A k \in 1..23 : \A x \in S : h[k][x] = Next1(x)
    <3> HIDE DEF Next1, S
    <3>1. QED
      OBVIOUS
  <2>2. \A k \in 1..23 : k - 1 \in 0..23
    OBVIOUS
  <2> HIDE DEF h, S, a, Next1
  <2>3. QED
    BY <1>4, <2>1, <2>2 DEF Iterates
<1>6. Walk(RhoPlace)
  <2> DEFINE g == [k \in 0..23 |-> f[k]]
  <2>1. Walk(g)
    <3>1. \A k \in 0..23 : g[k] = IF k = 0 THEN a ELSE Next1(g[k - 1])
      <4>1. \A k \in 0..23 : k # 0 => k \in 1..23 /\ k - 1 \in 0..23
        OBVIOUS
      <4> HIDE DEF a, Next1
      <4>2. QED
        BY <4>1, <1>5
    <3>2. g = [k \in 0..23 |-> IF k = 0 THEN a ELSE Next1(g[k - 1])]
      <4> HIDE DEF a, Next1
      <4>1. QED
        BY <3>1
    <3> HIDE DEF g
    <3>3. QED
      BY <3>2, Zenon
  <2>2. RhoPlace = CHOOSE v : Walk(v)
    BY DEF RhoPlace
  <2> HIDE DEF g, Walk
  <2>3. QED
    BY <2>1, <2>2
<1>7. \A k \in 0..23 : RhoPlace[k] = IF k = 0 THEN a ELSE Next1(RhoPlace[k - 1])
  <2> DEFINE W == RhoPlace
  <2>1. W = [n \in 0..23 |-> IF n = 0 THEN a ELSE Next1(W[n - 1])]
    BY <1>6, Zenon
  <2> HIDE DEF W, Next1, a
  <2>2. \A k \in 0..23 : W[k] = IF k = 0 THEN a ELSE Next1(W[k - 1])
    BY <2>1
  <2>3. QED
    BY <2>2 DEF W
<1>8. 0 \in 0..23 /\ \A k \in 1..23 : k \in 0..23 /\ k # 0
  OBVIOUS
<1>9. RhoPlace[0] = a /\ \A k \in 1..23 : RhoPlace[k] = Next1(RhoPlace[k - 1])
  <2> HIDE DEF a, Next1
  <2>1. QED
    BY <1>7, <1>8
<1>10. QED
  BY <1>9, Zenon

\* It visits the lanes that the walk in place comes from, in the same order.
LEMMA RhoPlaceIs ==
  \A n \in 0..23 : RhoPlace[n] = PlaceOf(Came(n + 1))
<1> DEFINE I == {n \in 0..23 : RhoPlace[n] = PlaceOf(Came(n + 1))}
<1>1. 0 \in I
  <2>1. Came(0 + 1) = 1
    BY CameValues
  <2>2. 1 % 5 = 1 /\ 1 \div 5 = 0
    OBVIOUS
  <2>3. QED
    BY <2>1, <2>2, RhoPlaceSteps DEF PlaceOf
<1>2. ASSUME NEW k \in 1..23, k - 1 \in I
      PROVE  k \in I
  <2>1. k \in 1..24 /\ k - 1 + 1 = k /\ k + 1 # 1 /\ k + 1 - 1 = k /\ k \in 0..23
    OBVIOUS
  <2>2. RhoPlace[k - 1] = PlaceOf(Came(k))
    BY <1>2, <2>1
  <2>3. RhoPlace[k - 1][1] = Came(k) % 5 /\ RhoPlace[k - 1][2] = Came(k) \div 5
    BY <2>2 DEF PlaceOf
  <2>4. RhoPlace[k] = <<Came(k) \div 5, (2 * (Came(k) % 5) + 3 * (Came(k) \div 5)) % 5>>
    <3>1. RhoPlace[k] = <<RhoPlace[k - 1][2], (2 * RhoPlace[k - 1][1] + 3 * RhoPlace[k - 1][2]) % 5>>
      BY RhoPlaceSteps
    <3>2. QED
      BY <3>1, <2>3, Zenon
  <2>5. Came(k + 1) = kPiln[k]
    BY <2>1 DEF Came
  <2>6. Came(k + 1) % 5 = Came(k) \div 5
        /\ Came(k + 1) \div 5 = (2 * (Came(k) % 5) + 3 * (Came(k) \div 5)) % 5
    BY <2>1, <2>5, TableSteps
  <2>7. QED
    BY <2>1, <2>4, <2>6, Zenon DEF PlaceOf
<1>3. \A k \in 0..23 : k \in I
  <2>1. 23 \in Nat
    OBVIOUS
  <2> HIDE DEF I
  <2>2. QED
    BY <2>1, <1>1, <1>2, Induct
<1>4. QED
  BY <1>3

\* kRotc is the triangular numbers, modulo the bits of a lane.
LEMMA Triangular ==
  \A m \in 1..24 : \E k \in 0..4 : (m * (m + 1)) \div 2 = kRotc[m] + 64 * k
<1>1. ASSUME NEW m \in 1..24
      PROVE  (m * (m + 1)) \div 2 = kRotc[m] \/ (m * (m + 1)) \div 2 = kRotc[m] + 64
             \/ (m * (m + 1)) \div 2 = kRotc[m] + 128 \/ (m * (m + 1)) \div 2 = kRotc[m] + 192
             \/ (m * (m + 1)) \div 2 = kRotc[m] + 256
  <2>1. m = 1 \/ m = 2 \/ m = 3 \/ m = 4 \/ m = 5 \/ m = 6 \/ m = 7 \/ m = 8 \/ m = 9 \/ m = 10 \/ m = 11 \/ m = 12
        \/ m = 13 \/ m = 14 \/ m = 15 \/ m = 16 \/ m = 17 \/ m = 18 \/ m = 19 \/ m = 20 \/ m = 21 \/ m = 22 \/ m = 23 \/ m = 24
    OBVIOUS
  <2>2. QED
    BY <2>1, RotcIs
<1>2. ASSUME NEW m \in 1..24
      PROVE  \E k \in 0..4 : (m * (m + 1)) \div 2 = kRotc[m] + 64 * k
  <2> DEFINE z == (m * (m + 1)) \div 2
  <2>1. kRotc[m] \in Nat
    BY RotcNat
  <2>2. \/ z = kRotc[m] + 64 * 0 \/ z = kRotc[m] + 64 * 1 \/ z = kRotc[m] + 64 * 2
        \/ z = kRotc[m] + 64 * 3 \/ z = kRotc[m] + 64 * 4
    <3> HIDE DEF z
    <3>1. \/ z = kRotc[m] \/ z = kRotc[m] + 64 \/ z = kRotc[m] + 128
          \/ z = kRotc[m] + 192 \/ z = kRotc[m] + 256
      BY <1>1 DEF z
    <3>2. QED
      BY <2>1, <3>1
  <2>3. 0 \in 0..4 /\ 1 \in 0..4 /\ 2 \in 0..4 /\ 3 \in 0..4 /\ 4 \in 0..4
    OBVIOUS
  <2> HIDE DEF z
  <2>4. \E k \in 0..4 : z = kRotc[m] + 64 * k
    BY <2>2, <2>3, Zenon
  <2>5. QED
    BY <2>4 DEF z
<1>3. QED
  BY <1>2

\* A rotation by whole lanes more is the same.
LEMMA RotlSame ==
  ASSUME NEW a \in SUBSET LaneBit, NEW n \in Nat, NEW k \in 0..4
  PROVE  rotl64(a, n + 64 * k) = rotl64(a, n)
<1>1. \A b \in LaneBit : (b + (n + 64 * k)) % 64 = (b + n) % 64
  BY DEF LaneBit, LaneBits
<1>2. QED
  BY <1>1, Zenon DEF rotl64, LaneBits

\* A rotation by nothing changes nothing.
LEMMA RotlNone ==
  ASSUME NEW a \in SUBSET LaneBit
  PROVE  rotl64(a, 0) = a
<1>1. \A b \in LaneBit : (b + 0) % 64 = b
  BY DEF LaneBit, LaneBits
<1>2. QED
  BY <1>1 DEF rotl64, LaneBits

\* The offset of the lane that turn m moves is the m-th triangular number.
LEMMA RhoOffsetIs ==
  ASSUME NEW m \in 1..24
  PROVE  RhoOffset(PlaceOf(Came(m))) = (m * (m + 1)) \div 2
<1> DEFINE c == PlaceOf(Came(m))
           n == CHOOSE k \in 0..23 : RhoPlace[k] = c
<1>1. c # <<0, 0>>
  <2>1. Came(m) \in Lanes /\ Came(m) # 0
    BY CameIs DEF Lanes
  <2>2. 5 * (Came(m) \div 5) + (Came(m) % 5) = Came(m)
    BY <2>1, PlaceIs
  <2>3. ~(Came(m) \div 5 = 0 /\ Came(m) % 5 = 0)
    BY <2>1, <2>2
  <2>4. QED
    BY <2>3 DEF PlaceOf
<1>2. m - 1 \in 0..23 /\ m - 1 + 1 = m
  OBVIOUS
<1>3. RhoPlace[m - 1] = c
  BY <1>2, RhoPlaceIs
<1>4. n \in 0..23 /\ RhoPlace[n] = c
  <2> HIDE DEF c
  <2>1. QED
    BY <1>2, <1>3
<1> HIDE DEF n
<1>5. n + 1 = m
  <2>1. PlaceOf(Came(n + 1)) = PlaceOf(Came(m))
    BY <1>4, RhoPlaceIs
  <2>2. n + 1 \in 1..24
    BY <1>4
  <2>3. Came(n + 1) \in Lanes /\ Came(m) \in Lanes
    BY <2>2, CameIs DEF Lanes
  <2>4. Came(n + 1) % 5 = Came(m) % 5 /\ Came(n + 1) \div 5 = Came(m) \div 5
    BY <2>1 DEF PlaceOf
  <2>5. Came(n + 1) = Came(m)
    BY <2>3, <2>4, PlaceIs
  <2>6. QED
    BY <2>2, <2>5, CameOnce
<1>6. RhoOffset(c) = ((n + 1) * (n + 2)) \div 2
  <2> HIDE DEF c
  <2>1. QED
    BY <1>1, Zenon DEF RhoOffset, n
<1>7. n + 2 = m + 1
  BY <1>4, <1>5
<1>8. QED
  BY <1>5, <1>6, <1>7

\* The two steps in coordinates are the walk.
LEMMA RhoPiIs ==
  ASSUME NEW s \in LaneState, NEW x \in 0..4, NEW y \in 0..4
  PROVE  LET q == (x + 3 * y) % 5 IN
         RhoPi(s)[5 * y + x] = rotl64(s[5 * x + q], RhoOffset(<<q, x>>))
<1> DEFINE q == (x + 3 * y) % 5
           l == 5 * y + x
<1>1. q \in 0..4 /\ l \in Lanes
  BY DEF Lanes
<1>2. CASE l = 0
  <2>1. x = 0 /\ y = 0 /\ q = 0 /\ 5 * x + q = 0 /\ 5 * y + x = 0
    BY <1>2
  <2> HIDE DEF q
  <2>2. RhoOffset(<<q, x>>) = 0
    BY <2>1 DEF RhoOffset
  <2>3. s[0] \in SUBSET LaneBit
    BY DEF LaneState, Lanes
  <2>4. RhoPi(s)[5 * y + x] = rotl64(s[5 * x + q], RhoOffset(<<q, x>>))
    BY <2>1, <2>2, <2>3, RotlNone, RhoPiMoves
  <2>5. QED
    BY <2>4 DEF q
<1>3. CASE l # 0
  <2>1. l \in 1..24
    BY <1>1, <1>3 DEF Lanes
  <2>2. PICK m \in 1..24 : kPiln[m] = l
    BY <2>1, PilnOnce
  <2>3. l % 5 = x /\ l \div 5 = y
    OBVIOUS
  <2>4. Came(m) % 5 = q /\ Came(m) \div 5 = x
    <3> HIDE DEF q, l
    <3>1. /\ Came(m) % 5 = ((l % 5) + 3 * (l \div 5)) % 5
          /\ l % 5 = Came(m) \div 5
      BY <2>2, TableSteps
    <3>2. QED
      BY <2>3, <3>1 DEF q
  <2>5. Came(m) = 5 * x + q /\ PlaceOf(Came(m)) = <<q, x>>
    <3> HIDE DEF q
    <3>1. Came(m) \in Lanes
      BY CameIs DEF Lanes
    <3>2. Came(m) = 5 * x + q
      BY <2>4, <3>1, PlaceIs
    <3>3. PlaceOf(Came(m)) = <<q, x>>
      BY <2>4 DEF PlaceOf
    <3>4. QED
      BY <3>2, <3>3
  <2>6. RhoOffset(<<q, x>>) = (m * (m + 1)) \div 2
    BY <2>5, RhoOffsetIs
  <2>7. PICK k \in 0..4 : (m * (m + 1)) \div 2 = kRotc[m] + 64 * k
    BY Triangular
  <2>8. s[Came(m)] \in SUBSET LaneBit
    BY CameIs DEF LaneState, Lanes
  <2>9. rotl64(s[Came(m)], kRotc[m] + 64 * k) = rotl64(s[Came(m)], kRotc[m])
    BY <2>8, RotlSame, RotcNat
  <2>10. RhoPi(s)[l] = rotl64(s[Came(m)], kRotc[m])
    BY <2>2, RhoPiMoves
  <2> HIDE DEF q, l
  <2>11. RhoPi(s)[l] = rotl64(s[5 * x + q], RhoOffset(<<q, x>>))
    BY <2>5, <2>6, <2>7, <2>9, <2>10
  <2>12. QED
    BY <2>11 DEF q, l
<1>4. QED
  BY <1>2, <1>3

-----------------------------------------------------------------------------
(* The round constants *)

\* A step of the shift register.
Shifted(v) ==
  LET r == {b + 1 : b \in v}
  IN IF 8 \in r THEN Xor(r \ {8}, {0, 4, 5, 6}) ELSE r

\* Which bits are set after a step that takes v to w.
StepBits(v, w) ==
  /\ 0 \in w <=> 7 \in v
  /\ 1 \in w <=> 0 \in v
  /\ 2 \in w <=> 1 \in v
  /\ 3 \in w <=> 2 \in v
  /\ 4 \in w <=> ~(3 \in v <=> 7 \in v)
  /\ 5 \in w <=> ~(4 \in v <=> 7 \in v)
  /\ 6 \in w <=> ~(5 \in v <=> 7 \in v)
  /\ 7 \in w <=> 6 \in v

\* What a step of the register does to each bit.
LEMMA ShiftedIs ==
  ASSUME NEW v \in SUBSET (0..7)
  PROVE  Shifted(v) \in SUBSET (0..7) /\ StepBits(v, Shifted(v))
<1> DEFINE r == {b + 1 : b \in v}
<1>1. r \in SUBSET (1..8) /\ \A b \in 0..7 : b + 1 \in r <=> b \in v
  OBVIOUS
<1>2. 0 \notin r /\ (1 \in r <=> 0 \in v) /\ (2 \in r <=> 1 \in v) /\ (3 \in r <=> 2 \in v) /\ (4 \in r <=> 3 \in v)
      /\ (5 \in r <=> 4 \in v) /\ (6 \in r <=> 5 \in v) /\ (7 \in r <=> 6 \in v) /\ (8 \in r <=> 7 \in v)
  BY <1>1
<1>3. Shifted(v) = IF 8 \in r THEN Xor(r \ {8}, {0, 4, 5, 6}) ELSE r
  BY DEF Shifted
<1> HIDE DEF r
<1>4. Shifted(v) \in SUBSET (0..7)
  BY <1>1, <1>3 DEF Xor
<1>5. StepBits(v, Shifted(v))
  BY <1>2, <1>3 DEF StepBits, Xor
<1>6. QED
  BY <1>4, <1>5

\* The register exists: it starts with a one and goes on by its step.
LEMMA RegisterSteps ==
  /\ Register[0] = {0}
  /\ \A k \in 0..168 : Register[k] \in SUBSET (0..7)
  /\ \A k \in 0..167 : Register[k] \in SUBSET (0..7) /\ StepBits(Register[k], Register[k + 1])
<1> DEFINE S == SUBSET (0..7)
           a == {0}
           h == [e \in 1..168 |-> [v \in S |-> Shifted(v)]]
           Walk(w) == w = [n \in 0..7*24 |-> IF n = 0 THEN {0}
             ELSE LET r == {b + 1 : b \in w[n - 1]} IN IF 8 \in r THEN Xor(r \ {8}, {0, 4, 5, 6}) ELSE r]
           OfShifted(w) == w = [n \in 0..168 |-> IF n = 0 THEN a ELSE Shifted(w[n - 1])]
<1>1. a \in S
  OBVIOUS
<1>2. \A k \in 1..168 : \A x \in S : h[k][x] \in S /\ h[k][x] = Shifted(x)
  BY ShiftedIs
<1>3. 168 \in Nat /\ 7 * 24 = 168
  OBVIOUS
<1> HIDE DEF S, h, a
<1>4. PICK f : Iterates(f, a, h, 168) /\ \A k \in 0..168 : f[k] \in S
  <2>1. \A k \in 1..168 : \A x \in S : h[k][x] \in S
    BY <1>2
  <2>2. \E f : Iterates(f, a, h, 168) /\ \A k \in 0..168 : f[k] \in S
    <3>1. 168 \in Nat
      OBVIOUS
    <3>2. QED
      BY <1>1, <3>1, <2>1, IteratesExist
  <2>3. QED
    BY <2>2
<1>5. f[0] = a /\ \A k \in 1..168 : f[k] = Shifted(f[k - 1])
  <2>1. \A k \in 1..168 : k - 1 \in 0..168
    OBVIOUS
  <2>2. QED
    BY <1>2, <1>4, <2>1 DEF Iterates
<1>6. \A w : Walk(w) <=> OfShifted(w)
  BY <1>3, Zenon DEF Shifted, a
<1>7. OfShifted(Register)
  <2> DEFINE g == [k \in 0..168 |-> f[k]]
  <2>1. \A k \in 0..168 : g[k] = IF k = 0 THEN a ELSE Shifted(g[k - 1])
    <3>1. \A k \in 0..168 : k # 0 => k \in 1..168 /\ k - 1 \in 0..168
      OBVIOUS
    <3>2. QED
      BY <3>1, <1>5
  <2>2. g = [k \in 0..168 |-> IF k = 0 THEN a ELSE Shifted(g[k - 1])]
    BY <2>1
  <2> HIDE DEF g
  <2>3. OfShifted(g)
    BY <2>2, Zenon
  <2>4. Register = CHOOSE w : Walk(w)
    BY DEF Register
  <2> HIDE DEF Walk, OfShifted
  <2>5. Walk(Register)
    BY <1>6, <2>3, <2>4
  <2>6. QED
    BY <1>6, <2>5
<1> DEFINE W == Register
<1>8. \A k \in 0..168 : W[k] = IF k = 0 THEN a ELSE Shifted(W[k - 1])
  <2>1. W = [n \in 0..168 |-> IF n = 0 THEN a ELSE Shifted(W[n - 1])]
    BY <1>7, Zenon
  <2> HIDE DEF W
  <2>2. QED
    BY <2>1
<1>9. W[0] = a /\ \A k \in 1..168 : W[k] = Shifted(W[k - 1])
  <2>1. 0 \in 0..168 /\ \A k \in 1..168 : k \in 0..168 /\ k # 0
    OBVIOUS
  <2> HIDE DEF W
  <2>2. QED
    BY <1>8, <2>1
<1>10. \A k \in 0..168 : W[k] = f[k]
  <2> HIDE DEF W
  <2>1. GoAlike(W, f, 168)
    BY <1>5, <1>9 DEF GoAlike
  <2>2. QED
    BY <2>1, <1>3, Alike
<1>11. ASSUME NEW k \in 0..167
       PROVE  W[k] \in S /\ StepBits(W[k], W[k + 1])
  <2> HIDE DEF W
  <2>1. k \in 0..168 /\ k + 1 \in 1..168 /\ k + 1 - 1 = k
    OBVIOUS
  <2>2. W[k] \in S
    BY <2>1, <1>4, <1>10
  <2>3. W[k + 1] = Shifted(W[k])
    BY <2>1, <1>9
  <2>4. QED
    BY <2>2, <2>3, ShiftedIs DEF S
<1>12. \A k \in 0..168 : W[k] \in S
  <2> HIDE DEF W
  <2>1. QED
    BY <1>4, <1>10
<1>13. QED
  BY <1>9, <1>11, <1>12 DEF a, S

\* The bits that seven steps from r to w give out, o.
SevenSteps(r, o, w) ==
  /\ 0 \in o <=> 0 \in r
  /\ 1 \in o <=> 7 \in r
  /\ 2 \in o <=> 6 \in r
  /\ 3 \in o <=> ~((5 \in r) <=> (7 \in r))
  /\ 4 \in o <=> ~((~((4 \in r) <=> (6 \in r))) <=> (7 \in r))
  /\ 5 \in o <=> ~((~((3 \in r) <=> (5 \in r))) <=> (6 \in r))
  /\ 6 \in o <=> ~((~((2 \in r) <=> (4 \in r))) <=> (5 \in r))
  /\ 0 \in w <=> ~((~((1 \in r) <=> (3 \in r))) <=> (4 \in r))
  /\ 1 \in w <=> ~((~((2 \in r) <=> (4 \in r))) <=> (5 \in r))
  /\ 2 \in w <=> ~((~((3 \in r) <=> (5 \in r))) <=> (6 \in r))
  /\ 3 \in w <=> ~((~((4 \in r) <=> (6 \in r))) <=> (7 \in r))
  /\ 4 \in w <=> ~((~((~((~((1 \in r) <=> (3 \in r))) <=> (4 \in r))) <=> (5 \in r))) <=> (7 \in r))
  /\ 5 \in w <=> ~((~((~((~((1 \in r) <=> (2 \in r))) <=> (3 \in r))) <=> (5 \in r))) <=> (6 \in r))
  /\ 6 \in w <=> ~((~((~((1 \in r) <=> (2 \in r))) <=> (6 \in r))) <=> (7 \in r))
  /\ 7 \in w <=> ~((~((~((0 \in r) <=> (2 \in r))) <=> (3 \in r))) <=> (7 \in r))

\* Which of the seven steps from k on give out a one.
GivenOut(k) == {m \in 0..6 : 0 \in Register[m + k]}

\* What seven steps do to each bit, and what they give out.
LEMMA RegisterSeven ==
  ASSUME NEW k \in 0..161
  PROVE  SevenSteps(Register[k], GivenOut(k), Register[k + 7])
<1>1. StepBits(Register[k], Register[k + 1])
  <2>1. k \in 0..167 /\ (k) + 1 = k + 1
    OBVIOUS
  <2>2. StepBits(Register[k], Register[(k) + 1])
    BY <2>1, RegisterSteps
  <2>3. QED
    BY <2>1, <2>2, Zenon
<1>2. StepBits(Register[k + 1], Register[k + 2])
  <2>1. k + 1 \in 0..167 /\ (k + 1) + 1 = k + 2
    OBVIOUS
  <2>2. StepBits(Register[k + 1], Register[(k + 1) + 1])
    BY <2>1, RegisterSteps
  <2>3. QED
    BY <2>1, <2>2, Zenon
<1>3. StepBits(Register[k + 2], Register[k + 3])
  <2>1. k + 2 \in 0..167 /\ (k + 2) + 1 = k + 3
    OBVIOUS
  <2>2. StepBits(Register[k + 2], Register[(k + 2) + 1])
    BY <2>1, RegisterSteps
  <2>3. QED
    BY <2>1, <2>2, Zenon
<1>4. StepBits(Register[k + 3], Register[k + 4])
  <2>1. k + 3 \in 0..167 /\ (k + 3) + 1 = k + 4
    OBVIOUS
  <2>2. StepBits(Register[k + 3], Register[(k + 3) + 1])
    BY <2>1, RegisterSteps
  <2>3. QED
    BY <2>1, <2>2, Zenon
<1>5. StepBits(Register[k + 4], Register[k + 5])
  <2>1. k + 4 \in 0..167 /\ (k + 4) + 1 = k + 5
    OBVIOUS
  <2>2. StepBits(Register[k + 4], Register[(k + 4) + 1])
    BY <2>1, RegisterSteps
  <2>3. QED
    BY <2>1, <2>2, Zenon
<1>6. StepBits(Register[k + 5], Register[k + 6])
  <2>1. k + 5 \in 0..167 /\ (k + 5) + 1 = k + 6
    OBVIOUS
  <2>2. StepBits(Register[k + 5], Register[(k + 5) + 1])
    BY <2>1, RegisterSteps
  <2>3. QED
    BY <2>1, <2>2, Zenon
<1>7. StepBits(Register[k + 6], Register[k + 7])
  <2>1. k + 6 \in 0..167 /\ (k + 6) + 1 = k + 7
    OBVIOUS
  <2>2. StepBits(Register[k + 6], Register[(k + 6) + 1])
    BY <2>1, RegisterSteps
  <2>3. QED
    BY <2>1, <2>2, Zenon
<1>8. /\ 0 \in GivenOut(k) <=> 0 \in Register[k]
      /\ 1 \in GivenOut(k) <=> 0 \in Register[k + 1]
      /\ 2 \in GivenOut(k) <=> 0 \in Register[k + 2]
      /\ 3 \in GivenOut(k) <=> 0 \in Register[k + 3]
      /\ 4 \in GivenOut(k) <=> 0 \in Register[k + 4]
      /\ 5 \in GivenOut(k) <=> 0 \in Register[k + 5]
      /\ 6 \in GivenOut(k) <=> 0 \in Register[k + 6]
  <2>1. 0 + k = k /\ 1 + k = k + 1 /\ 2 + k = k + 2 /\ 3 + k = k + 3 /\ 4 + k = k + 4 /\ 5 + k = k + 5 /\ 6 + k = k + 6
    OBVIOUS
  <2>2. 0 \in 0..6 /\ 1 \in 0..6 /\ 2 \in 0..6 /\ 3 \in 0..6 /\ 4 \in 0..6 /\ 5 \in 0..6 /\ 6 \in 0..6
    OBVIOUS
  <2>3. QED
    BY <2>1, <2>2, Zenon DEF GivenOut
<1>9. QED
  BY <1>1, <1>2, <1>3, <1>4, <1>5, <1>6, <1>7, <1>8 DEF StepBits, SevenSteps

\* The powers of two that a constant is made of.
LEMMA Powers ==
  2 ^ 0 = 1 /\ 2 ^ 1 = 2 /\ 2 ^ 2 = 4 /\ 2 ^ 3 = 8 /\ 2 ^ 4 = 16 /\ 2 ^ 5 = 32 /\ 2 ^ 6 = 64
OBVIOUS

\* The register before each round and after the last one, and which of the round's seven
\* steps give out a one.
RegisterBefore == <<{0}, {7}, {3, 4, 6, 7}, {1, 3, 4}, {0, 1, 2, 3, 4, 6, 7}, {0, 3},
  {0, 2, 4, 5}, {0, 1, 2, 3, 6}, {1, 3, 6, 7}, {4, 5, 6}, {0, 6},
  {2, 3, 5, 6, 7}, {0, 2, 4, 6, 7}, {0, 2, 3, 6, 7}, {0, 1, 5, 6},
  {0, 1, 3, 5, 7}, {1, 3, 5, 7}, {1, 3, 5}, {1, 4, 5, 6, 7}, {3, 5, 6, 7},
  {0, 1, 2, 4, 5}, {1, 2, 3, 4, 5}, {0, 1, 3}, {2, 6}, {1, 2, 3, 7}>>
Given == <<{0}, {1, 3, 4}, {1, 2, 3, 4, 6}, {4, 5, 6}, {0, 1, 2, 3, 4}, {0, 5},
  {0, 3, 4, 5, 6}, {0, 2, 4, 6}, {1, 2, 3}, {2, 3}, {0, 2, 4, 5}, {1, 2, 5},
  {0, 1, 2, 3, 4, 5}, {0, 1, 2, 3, 6}, {0, 2, 3, 4, 6}, {0, 1, 4, 6},
  {1, 4, 6}, {3, 6}, {1, 2, 4}, {1, 2, 5, 6}, {0, 3, 4, 5, 6}, {3, 4, 6},
  {0, 5}, {2, 4, 5, 6}>>

\* The two tables hold registers, and numbers of steps.
LEMMA TablesAre ==
  /\ \A n \in 0..24 : RegisterBefore[n + 1] \in SUBSET (0..7)
  /\ \A n \in 0..23 : Given[n + 1] \in SUBSET (0..6)
<1>1. ASSUME NEW n \in 0..24
      PROVE  RegisterBefore[n + 1] \in SUBSET (0..7)
  BY DEF RegisterBefore
<1>2. ASSUME NEW n \in 0..23
      PROVE  Given[n + 1] \in SUBSET (0..6)
  BY DEF Given
<1>3. QED
  BY <1>1, <1>2

\* Seven steps lead from an entry of the one table to the next, and give out the entry
\* of the other.
LEMMA TablesStep ==
  \A n \in 0..23 : SevenSteps(RegisterBefore[n + 1], Given[n + 1], RegisterBefore[n + 2])
<1>1. ASSUME NEW n \in 0..23
      PROVE  SevenSteps(RegisterBefore[n + 1], Given[n + 1], RegisterBefore[n + 2])
  BY DEF RegisterBefore, Given, SevenSteps
<1>2. QED
  BY <1>1

\* The constant that FIPS 202 makes of what is given out.
ConstantOf(o) == {2 ^ j - 1 : j \in o}


\* c has the bits that o stands for.
ConstantBits(o, c) ==
  /\ c \in SUBSET {0, 1, 3, 7, 15, 31, 63}
  /\ (0 \in c <=> 0 \in o) /\ (1 \in c <=> 1 \in o) /\ (3 \in c <=> 2 \in o) /\ (7 \in c <=> 3 \in o)
  /\ (15 \in c <=> 4 \in o) /\ (31 \in c <=> 5 \in o) /\ (63 \in c <=> 6 \in o)

\* The bits of the constant FIPS 202 makes.
LEMMA ConstantOfIs ==
  ASSUME NEW o \in SUBSET (0..6)
  PROVE  ConstantBits(o, ConstantOf(o))
<1>1. \A j \in 0..6 : j = 0 \/ j = 1 \/ j = 2 \/ j = 3 \/ j = 4 \/ j = 5 \/ j = 6
  OBVIOUS
<1>2. /\ 2 ^ 0 - 1 = 0 /\ 2 ^ 1 - 1 = 1 /\ 2 ^ 2 - 1 = 3 /\ 2 ^ 3 - 1 = 7 /\ 2 ^ 4 - 1 = 15
      /\ 2 ^ 5 - 1 = 31 /\ 2 ^ 6 - 1 = 63
  BY Powers
<1> DEFINE I(j) == 2 ^ j - 1
<1>3. ConstantOf(o) = {I(j) : j \in o}
  BY DEF ConstantOf
<1>4. I(0) = 0 /\ I(1) = 1 /\ I(2) = 3 /\ I(3) = 7 /\ I(4) = 15 /\ I(5) = 31 /\ I(6) = 63
  BY <1>2
<1> HIDE DEF I
<1>5. \A x : x \in ConstantOf(o) <=> \E j \in o : x = I(j)
  BY <1>3
<1>6. QED
  BY <1>1, <1>4, <1>5 DEF ConstantBits

\* The constants of FIPS 202 are those of the code.
LEMMA TablesGive ==
  \A n \in 0..23 : ConstantOf(Given[n + 1]) = kRoundConstants[n + 1]
<1>1. ASSUME NEW n \in 0..23
      PROVE  ConstantBits(Given[n + 1], kRoundConstants[n + 1])
  BY DEF ConstantBits, Given, kRoundConstants
<1>2. ASSUME NEW o, NEW c, NEW d, ConstantBits(o, c), ConstantBits(o, d)
      PROVE  c = d
  <2>1. c \in SUBSET {0, 1, 3, 7, 15, 31, 63} /\ d \in SUBSET {0, 1, 3, 7, 15, 31, 63}
    BY <1>2 DEF ConstantBits
  <2>2. (0 \in c <=> 0 \in d) /\ (1 \in c <=> 1 \in d) /\ (3 \in c <=> 3 \in d) /\ (7 \in c <=> 7 \in d)
        /\ (15 \in c <=> 15 \in d) /\ (31 \in c <=> 31 \in d) /\ (63 \in c <=> 63 \in d)
    BY <1>2, Zenon DEF ConstantBits
  <2> DEFINE U == {0, 1, 3, 7, 15, 31, 63}
  <2>3. \A x \in U : x \in c <=> x \in d
    BY <2>2
  <2>4. c \in SUBSET U /\ d \in SUBSET U
    BY <2>1
  <2> HIDE DEF U
  <2>5. QED
    BY <2>3, <2>4
<1>3. QED
  BY <1>1, <1>2, ConstantOfIs, TablesAre, Zenon

\* Two registers, or two sevens given out, with the same bits are the same.
LEMMA SevenAre ==
  ASSUME NEW r, NEW o \in SUBSET (0..6), NEW p \in SUBSET (0..6), NEW v \in SUBSET (0..7),
         NEW w \in SUBSET (0..7), SevenSteps(r, o, v), SevenSteps(r, p, w)
  PROVE  o = p /\ v = w
<1>1. (0 \in o <=> 0 \in p) /\ (1 \in o <=> 1 \in p) /\ (2 \in o <=> 2 \in p) /\ (3 \in o <=> 3 \in p)
      /\ (4 \in o <=> 4 \in p) /\ (5 \in o <=> 5 \in p) /\ (6 \in o <=> 6 \in p)
  BY Zenon DEF SevenSteps
<1>2. (0 \in v <=> 0 \in w) /\ (1 \in v <=> 1 \in w) /\ (2 \in v <=> 2 \in w) /\ (3 \in v <=> 3 \in w)
      /\ (4 \in v <=> 4 \in w) /\ (5 \in v <=> 5 \in w) /\ (6 \in v <=> 6 \in w) /\ (7 \in v <=> 7 \in w)
  BY Zenon DEF SevenSteps
<1>3. \A m \in 0..6 : m \in o <=> m \in p
  BY <1>1
<1>4. \A m \in 0..7 : m \in v <=> m \in w
  BY <1>2
<1>5. QED
  BY <1>3, <1>4

\* The register goes through the tables.
LEMMA RegisterIs ==
  \A n \in 0..23 : Register[7 * n] = RegisterBefore[n + 1] /\ GivenOut(7 * n) = Given[n + 1]
<1> DEFINE I == {n \in 0..24 : Register[7 * n] = RegisterBefore[n + 1]}
<1>1. 0 \in I
  <2>1. RegisterBefore[1] = {0}
    BY DEF RegisterBefore
  <2>2. 7 * 0 = 0 /\ 0 + 1 = 1 /\ 0 \in 0..24
    OBVIOUS
  <2>3. QED
    BY <2>1, <2>2, RegisterSteps, Zenon
<1>2. ASSUME NEW n \in 0..23, n \in I
      PROVE  n + 1 \in I /\ GivenOut(7 * n) = Given[n + 1]
  <2>1. 7 * n \in 0..161 /\ 7 * n + 7 \in 0..168 /\ 7 * n + 7 = 7 * (n + 1) /\ n + 1 \in 0..24 /\ (n + 1) + 1 = n + 2
    OBVIOUS
  <2>2. SevenSteps(RegisterBefore[n + 1], GivenOut(7 * n), Register[7 * (n + 1)])
    <3>1. SevenSteps(Register[7 * n], GivenOut(7 * n), Register[7 * n + 7])
      BY <2>1, RegisterSeven
    <3>2. Register[7 * n] = RegisterBefore[n + 1]
      BY <1>2
    <3>3. QED
      BY <3>1, <3>2, <2>1, Zenon
  <2>3. SevenSteps(RegisterBefore[n + 1], Given[n + 1], RegisterBefore[n + 2])
    BY TablesStep
  <2>4. Register[7 * (n + 1)] \in SUBSET (0..7) /\ GivenOut(7 * n) \in SUBSET (0..6)
    <3>1. 7 * (n + 1) \in 0..168
      OBVIOUS
    <3>2. QED
      BY <3>1, RegisterSteps DEF GivenOut
  <2>5. RegisterBefore[n + 2] \in SUBSET (0..7) /\ Given[n + 1] \in SUBSET (0..6)
    <3>1. RegisterBefore[(n + 1) + 1] \in SUBSET (0..7) /\ Given[n + 1] \in SUBSET (0..6)
      BY <2>1, TablesAre, Zenon
    <3>2. QED
      BY <2>1, <3>1, Zenon
  <2>6. GivenOut(7 * n) = Given[n + 1] /\ Register[7 * (n + 1)] = RegisterBefore[n + 2]
    BY <2>2, <2>3, <2>4, <2>5, SevenAre
  <2>7. QED
    BY <2>1, <2>6, Zenon
<1>3. \A n \in 0..24 : n \in I
  <2>1. 24 \in Nat
    OBVIOUS
  <2>2. ASSUME NEW k \in 1..24, k - 1 \in I
        PROVE  k \in I
    <3>1. k - 1 \in 0..23 /\ (k - 1) + 1 = k
      OBVIOUS
    <3> HIDE DEF I
    <3>2. (k - 1) + 1 \in I
      BY <2>2, <3>1, <1>2
    <3>3. QED
      BY <3>1, <3>2
  <2> HIDE DEF I
  <2>3. QED
    BY <2>1, <2>2, <1>1, Induct
<1>4. ASSUME NEW n \in 0..23
      PROVE  Register[7 * n] = RegisterBefore[n + 1] /\ GivenOut(7 * n) = Given[n + 1]
  <2>1. n \in I
    BY <1>3
  <2>2. QED
    BY <2>1, <1>2
<1>5. QED
  BY <1>4

\* The constants of the table are those of FIPS 202.
LEMMA ConstantsAre ==
  \A n \in 0..23 : ConstantOf(GivenOut(7 * n)) = kRoundConstants[n + 1]
BY RegisterIs, TablesGive, Zenon

-----------------------------------------------------------------------------
(* A round *)

\* The state array of FIPS 202, its steps, and the lanes that stand for it.
StateArray == [Coordinates -> SUBSET LaneBit]

Agree(s, A) == \A x, y \in 0..4 : s[5 * y + x] = A[<<x, y>>]

FipsColumn(A, x) ==
  Xor(A[<<x, 0>>], Xor(A[<<x, 1>>], Xor(A[<<x, 2>>], Xor(A[<<x, 3>>], A[<<x, 4>>]))))

FipsTheta(A) ==
  LET C == [x \in 0..4 |-> FipsColumn(A, x)]
  IN [c \in Coordinates |-> Xor(A[c], Xor(C[(c[1] + 4) % 5], rotl64(C[(c[1] + 1) % 5], 1)))]

FipsRho(A) == [c \in Coordinates |-> rotl64(A[c], RhoOffset(c))]

FipsPi(A) == [c \in Coordinates |-> A[<<(c[1] + 3 * c[2]) % 5, c[1]>>]]

FipsChi(A) ==
  [c \in Coordinates |-> Xor(A[c], A[<<(c[1] + 2) % 5, c[2]>>] \ A[<<(c[1] + 1) % 5, c[2]>>])]

\* A round of FIPS 202 is made of these steps.
LEMMA FipsRoundIs ==
  ASSUME NEW A, NEW n
  PROVE  FipsRound(A, n) = [FipsChi(FipsPi(FipsRho(FipsTheta(A)))) EXCEPT
                              ![<<0, 0>>] = Xor(@, ConstantOf(GivenOut(7 * n)))]
BY Zenon DEF FipsRound, FipsChi, FipsPi, FipsRho, FipsTheta, FipsColumn, ConstantOf, GivenOut

\* theta on the lanes is theta on the array.
LEMMA ThetaAgrees ==
  ASSUME NEW s \in LaneState, NEW A \in StateArray, Agree(s, A)
  PROVE  Theta(s) \in LaneState /\ FipsTheta(A) \in StateArray /\ Agree(Theta(s), FipsTheta(A))
<1> DEFINE B(e) == Xor(s[e], Xor(s[e + 5], Xor(s[e + 10], Xor(s[e + 15], s[e + 20]))))
           bc == [e \in 0..4 |-> B(e)]
           C == [x \in 0..4 |-> FipsColumn(A, x)]
<1>1. ASSUME NEW e \in 0..4
      PROVE  B(e) = FipsColumn(A, e) /\ B(e) \in SUBSET LaneBit
  <2>1. /\ s[5 * 0 + e] = A[<<e, 0>>] /\ s[5 * 1 + e] = A[<<e, 1>>] /\ s[5 * 2 + e] = A[<<e, 2>>]
        /\ s[5 * 3 + e] = A[<<e, 3>>] /\ s[5 * 4 + e] = A[<<e, 4>>]
    <3>1. 0 \in 0..4 /\ 1 \in 0..4 /\ 2 \in 0..4 /\ 3 \in 0..4 /\ 4 \in 0..4
      OBVIOUS
    <3>2. QED
      BY <3>1, Zenon DEF Agree
  <2>2. 5 * 0 + e = e /\ 5 * 1 + e = e + 5 /\ 5 * 2 + e = e + 10 /\ 5 * 3 + e = e + 15 /\ 5 * 4 + e = e + 20
        /\ e \in Lanes /\ e + 5 \in Lanes /\ e + 10 \in Lanes /\ e + 15 \in Lanes /\ e + 20 \in Lanes
    BY DEF Lanes
  <2>3. /\ s[e] = A[<<e, 0>>] /\ s[e + 5] = A[<<e, 1>>] /\ s[e + 10] = A[<<e, 2>>]
        /\ s[e + 15] = A[<<e, 3>>] /\ s[e + 20] = A[<<e, 4>>]
    BY <2>1, <2>2
  <2>4. /\ s[e] \in SUBSET LaneBit /\ s[e + 5] \in SUBSET LaneBit /\ s[e + 10] \in SUBSET LaneBit
        /\ s[e + 15] \in SUBSET LaneBit /\ s[e + 20] \in SUBSET LaneBit
    BY <2>2, Zenon DEF LaneState
  <2>5. B(e) \in SUBSET LaneBit
    BY <2>4 DEF Xor
  <2>6. B(e) = FipsColumn(A, e)
    BY <2>3 DEF FipsColumn
  <2>7. QED
    BY <2>5, <2>6
<1>2. bc = C
  <2> HIDE DEF B
  <2>1. QED
    BY <1>1
<1>3. \A e \in 0..4 : C[e] \in SUBSET LaneBit
  <2> HIDE DEF B
  <2>1. QED
    BY <1>1
<1> HIDE DEF B, bc, C
<1>4. Theta(s) = [l \in Lanes |-> Xor(s[l], Xor(bc[(l + 4) % 5], rotl64(bc[(l + 1) % 5], 1)))]
  BY Zenon DEF Theta, bc, B
<1>5. FipsTheta(A) = [c \in Coordinates |-> Xor(A[c], Xor(C[(c[1] + 4) % 5], rotl64(C[(c[1] + 1) % 5], 1)))]
  BY Zenon DEF FipsTheta, C
<1> DEFINE D(u) == Xor(C[(u + 4) % 5], rotl64(C[(u + 1) % 5], 1))
<1>6. ASSUME NEW u \in Nat
      PROVE  D(u) \in SUBSET LaneBit /\ D(u) = D(u % 5)
  <2>1. (u + 4) % 5 \in 0..4 /\ (u + 1) % 5 \in 0..4 /\ ((u % 5) + 4) % 5 = (u + 4) % 5
        /\ ((u % 5) + 1) % 5 = (u + 1) % 5 /\ 1 \in Nat
    OBVIOUS
  <2>2. rotl64(C[(u + 1) % 5], 1) \in SUBSET LaneBit
    BY <2>1, <1>3, RotlIs
  <2>3. QED
    <3>1. C[(u + 4) % 5] \in SUBSET LaneBit
      BY <2>1, <1>3
    <3>2. D(u) \in SUBSET LaneBit
      BY <3>1, <2>2, XorIs
    <3>3. D(u) = D(u % 5)
      BY <2>1, Zenon
    <3>4. QED
      BY <3>2, <3>3
<1>7. Theta(s) = [l \in Lanes |-> Xor(s[l], D(l))]
  BY <1>2, <1>4, Zenon
<1>8. FipsTheta(A) = [c \in Coordinates |-> Xor(A[c], D(c[1]))]
  BY <1>5, Zenon
<1> HIDE DEF D
<1>9. Theta(s) \in LaneState
  <2>1. ASSUME NEW l \in Lanes
        PROVE  Xor(s[l], D(l)) \in SUBSET LaneBit
    <3>1. l \in Nat /\ s[l] \in SUBSET LaneBit
      BY DEF Lanes, LaneState
    <3>2. QED
      BY <3>1, <1>6, XorIs
  <2>2. QED
    BY <2>1, <1>7 DEF LaneState
<1>10. FipsTheta(A) \in StateArray
  <2>1. ASSUME NEW c \in Coordinates
        PROVE  Xor(A[c], D(c[1])) \in SUBSET LaneBit
    <3>1. c[1] \in Nat /\ A[c] \in SUBSET LaneBit
      BY DEF Coordinates, StateArray
    <3>2. QED
      BY <3>1, <1>6, XorIs
  <2>2. QED
    BY <2>1, <1>8 DEF StateArray
<1>11. ASSUME NEW x \in 0..4, NEW y \in 0..4
       PROVE  Theta(s)[5 * y + x] = FipsTheta(A)[<<x, y>>]
  <2>1. 5 * y + x \in Lanes /\ (5 * y + x) % 5 = x /\ 5 * y + x \in Nat /\ x \in Nat
    BY DEF Lanes
  <2>2. <<x, y>> \in Coordinates /\ <<x, y>>[1] = x
    BY DEF Coordinates
  <2>3. D(5 * y + x) = D(x)
    BY <2>1, <1>6
  <2>4. s[5 * y + x] = A[<<x, y>>]
    BY DEF Agree
  <2>5. FipsTheta(A)[<<x, y>>] = Xor(A[<<x, y>>], D(x))
    BY <2>2, <1>8
  <2>6. QED
    BY <2>1, <2>3, <2>4, <2>5, <1>7
<1>12. QED
  BY <1>9, <1>10, <1>11 DEF Agree

\* Every offset of rho is a number.
LEMMA OffsetNat ==
  \A c \in Coordinates : RhoOffset(c) \in Nat
<1>1. ASSUME NEW c \in Coordinates
      PROVE  RhoOffset(c) \in Nat
  <2>1. CASE c = <<0, 0>>
    BY <2>1 DEF RhoOffset
  <2>2. CASE c # <<0, 0>>
    <3>1. PICK x \in 0..4, y \in 0..4 : c = <<x, y>>
      BY DEF Coordinates
    <3>2. 5 * y + x \in 1..24
      BY <3>1, <2>2
    <3>3. PICK m \in 1..24 : Came(m) = 5 * y + x
      BY <3>2, CameOnce
    <3>4. PlaceOf(Came(m)) = c
      BY <3>1, <3>3, LaneOfPlace
    <3>5. RhoOffset(c) = (m * (m + 1)) \div 2
      BY <3>4, RhoOffsetIs
    <3>6. PICK k \in 0..4 : (m * (m + 1)) \div 2 = kRotc[m] + 64 * k
      BY Triangular
    <3>7. kRotc[m] \in Nat
      BY RotcNat
    <3>8. QED
      BY <3>5, <3>6, <3>7
  <2>3. QED
    BY <2>1, <2>2
<1>2. QED
  BY <1>1

\* The walk in place on the lanes is rho and pi on the array.
LEMMA RhoPiAgrees ==
  ASSUME NEW s \in LaneState, NEW A \in StateArray, Agree(s, A)
  PROVE  RhoPi(s) \in LaneState /\ FipsPi(FipsRho(A)) \in StateArray
         /\ Agree(RhoPi(s), FipsPi(FipsRho(A)))
<1> DEFINE R == FipsRho(A)
<1>1. R \in StateArray
  <2>1. ASSUME NEW c \in Coordinates
        PROVE  rotl64(A[c], RhoOffset(c)) \in SUBSET LaneBit
    BY OffsetNat, RotlIs DEF StateArray
  <2>2. QED
    BY <2>1 DEF FipsRho, StateArray
<1>2. \A c \in Coordinates : R[c] = rotl64(A[c], RhoOffset(c))
  BY DEF FipsRho
<1> HIDE DEF R
<1>3. ASSUME NEW x \in 0..4, NEW y \in 0..4
      PROVE  /\ FipsPi(R)[<<x, y>>] = RhoPi(s)[5 * y + x]
             /\ R[<<(x + 3 * y) % 5, x>>] \in SUBSET LaneBit
  <2> DEFINE q == (x + 3 * y) % 5
  <2>1. q \in 0..4
    OBVIOUS
  <2>2. FipsPi(R)[<<x, y>>] = R[<<q, x>>]
    BY Zenon DEF FipsPi, Coordinates
  <2> HIDE DEF q
  <2>3. <<q, x>> \in Coordinates
    BY <2>1 DEF Coordinates
  <2>4. R[<<q, x>>] = rotl64(A[<<q, x>>], RhoOffset(<<q, x>>))
    BY <2>3, <1>2
  <2>5. s[5 * x + q] = A[<<q, x>>]
    BY <2>1 DEF Agree
  <2>6. RhoPi(s)[5 * y + x] = rotl64(s[5 * x + q], RhoOffset(<<q, x>>))
    BY RhoPiIs DEF q
  <2>7. R[<<q, x>>] \in SUBSET LaneBit
    BY <1>1, <2>3 DEF StateArray
  <2>8. FipsPi(R)[<<x, y>>] = RhoPi(s)[5 * y + x]
    BY <2>2, <2>4, <2>5, <2>6
  <2>9. QED
    BY <2>7, <2>8 DEF q
<1>4. FipsPi(R) \in StateArray
  <2>1. ASSUME NEW c \in Coordinates
        PROVE  R[<<(c[1] + 3 * c[2]) % 5, c[1]>>] \in SUBSET LaneBit
    <3>1. c[1] \in 0..4 /\ c[2] \in 0..4
      BY DEF Coordinates
    <3>2. QED
      BY <3>1, <1>3
  <2>2. QED
    BY <2>1 DEF FipsPi, StateArray
<1>5. QED
  BY <1>3, <1>4, RhoPiMoves DEF Agree, R

\* chi on the lanes is chi on the array.
LEMMA ChiAgrees ==
  ASSUME NEW s \in LaneState, NEW A \in StateArray, Agree(s, A)
  PROVE  Chi(s) \in LaneState /\ FipsChi(A) \in StateArray /\ Agree(Chi(s), FipsChi(A))
<1> DEFINE E(x, y) == Xor(A[<<x, y>>], A[<<(x + 2) % 5, y>>] \ A[<<(x + 1) % 5, y>>])
           G(l) == LET j == l - (l % 5) IN Xor(s[l], s[j + ((l + 2) % 5)] \ s[j + ((l + 1) % 5)])
<1>1. ASSUME NEW x \in 0..4, NEW y \in 0..4
      PROVE  E(x, y) \in SUBSET LaneBit /\ G(5 * y + x) = E(x, y)
  <2> DEFINE u == (x + 2) % 5
             v == (x + 1) % 5
             l == 5 * y + x
  <2>1. u \in 0..4 /\ v \in 0..4
    OBVIOUS
  <2>2. l - (l % 5) = 5 * y /\ (l + 2) % 5 = u /\ (l + 1) % 5 = v
    OBVIOUS
  <2>3. G(l) = Xor(s[l], s[5 * y + u] \ s[5 * y + v])
    <3> HIDE DEF u, v, l
    <3>1. QED
      BY <2>2, Zenon
  <2> HIDE DEF u, v
  <2>4. s[5 * y + x] = A[<<x, y>>] /\ s[5 * y + u] = A[<<u, y>>] /\ s[5 * y + v] = A[<<v, y>>]
    BY <2>1 DEF Agree
  <2>5. <<x, y>> \in Coordinates /\ <<u, y>> \in Coordinates /\ <<v, y>> \in Coordinates
    BY <2>1 DEF Coordinates
  <2>6. A[<<x, y>>] \in SUBSET LaneBit /\ A[<<u, y>>] \in SUBSET LaneBit
    BY <2>5 DEF StateArray
  <2>7. Xor(A[<<x, y>>], A[<<u, y>>] \ A[<<v, y>>]) \in SUBSET LaneBit
    BY <2>6 DEF Xor
  <2>8. QED
    BY <2>3, <2>4, <2>7, Zenon DEF u, v
<1>2. Chi(s) = [l \in Lanes |-> G(l)]
  BY Zenon DEF Chi
<1>3. FipsChi(A) = [c \in Coordinates |-> E(c[1], c[2])]
  <2>1. \A c \in Coordinates : A[c] = A[<<c[1], c[2]>>]
    BY DEF Coordinates
  <2>2. FipsChi(A) = [c \in Coordinates |-> Xor(A[c], A[<<(c[1] + 2) % 5, c[2]>>] \ A[<<(c[1] + 1) % 5, c[2]>>])]
    BY Zenon DEF FipsChi
  <2>3. QED
    BY <2>1, <2>2, Zenon
<1> HIDE DEF E, G
<1>4. ASSUME NEW l \in Lanes
      PROVE  G(l) \in SUBSET LaneBit
  <2>1. 5 * (l \div 5) + (l % 5) = l /\ l % 5 \in 0..4 /\ l \div 5 \in 0..4
    BY PlaceIs
  <2> DEFINE x == l % 5
             y == l \div 5
  <2> HIDE DEF x, y
  <2>2. 5 * y + x = l /\ x \in 0..4 /\ y \in 0..4
    BY <2>1 DEF x, y
  <2>3. G(5 * y + x) \in SUBSET LaneBit
    BY <2>2, <1>1
  <2>4. QED
    BY <2>2, <2>3
<1>5. Chi(s) \in LaneState
  BY <1>2, <1>4 DEF LaneState
<1>6. FipsChi(A) \in StateArray
  <2>1. ASSUME NEW c \in Coordinates
        PROVE  E(c[1], c[2]) \in SUBSET LaneBit
    <3>1. c[1] \in 0..4 /\ c[2] \in 0..4
      BY DEF Coordinates
    <3>2. QED
      BY <3>1, <1>1
  <2>2. QED
    BY <2>1, <1>3 DEF StateArray
<1>7. ASSUME NEW x \in 0..4, NEW y \in 0..4
      PROVE  Chi(s)[5 * y + x] = FipsChi(A)[<<x, y>>]
  <2>1. 5 * y + x \in Lanes /\ <<x, y>> \in Coordinates /\ <<x, y>>[1] = x /\ <<x, y>>[2] = y
    BY LaneOfPlace DEF Coordinates
  <2>2. FipsChi(A)[<<x, y>>] = E(x, y)
    BY <2>1, <1>3
  <2>3. QED
    BY <2>1, <2>2, <1>1, <1>2
<1>8. QED
  BY <1>5, <1>6, <1>7 DEF Agree

\* Every constant is a lane.
LEMMA ConstantIs ==
  \A n \in 0..23 : kRoundConstants[n + 1] \in SUBSET LaneBit
<1>1. ASSUME NEW n \in 0..23
      PROVE  kRoundConstants[n + 1] \in SUBSET LaneBit
  BY DEF kRoundConstants, LaneBit, LaneBits
<1>2. QED
  BY <1>1

\* A turn of keccakf's loop is a round of FIPS 202.
LEMMA RoundsAgree ==
  ASSUME NEW s \in LaneState, NEW A \in StateArray, Agree(s, A), NEW n \in 0..23
  PROVE  KeccakRound(s, n) \in LaneState /\ FipsRound(A, n) \in StateArray
         /\ Agree(KeccakRound(s, n), FipsRound(A, n))
<1> DEFINE z == Chi(RhoPi(Theta(s)))
           T == FipsChi(FipsPi(FipsRho(FipsTheta(A))))
           k == kRoundConstants[n + 1]
<1>1. Theta(s) \in LaneState /\ FipsTheta(A) \in StateArray /\ Agree(Theta(s), FipsTheta(A))
  BY ThetaAgrees
<1>2. RhoPi(Theta(s)) \in LaneState /\ FipsPi(FipsRho(FipsTheta(A))) \in StateArray
      /\ Agree(RhoPi(Theta(s)), FipsPi(FipsRho(FipsTheta(A))))
  BY <1>1, RhoPiAgrees
<1>3. z \in LaneState /\ T \in StateArray /\ Agree(z, T)
  BY <1>2, ChiAgrees
<1>4. KeccakRound(s, n) = [z EXCEPT ![0] = Xor(@, k)]
  BY DEF KeccakRound
<1>5. FipsRound(A, n) = [T EXCEPT ![<<0, 0>>] = Xor(@, k)]
  BY FipsRoundIs, ConstantsAre
<1>6. k \in SUBSET LaneBit
  BY ConstantIs
<1> HIDE DEF z, T, k
<1>7. 0 \in Lanes /\ <<0, 0>> \in Coordinates /\ z[0] = T[<<0, 0>>] /\ z[0] \in SUBSET LaneBit
  <2>1. 0 \in Lanes /\ 0 \in 0..4 /\ 5 * 0 + 0 = 0
    BY DEF Lanes
  <2>2. z[5 * 0 + 0] = T[<<0, 0>>]
    BY <2>1, <1>3, Zenon DEF Agree
  <2>3. QED
    BY <2>1, <2>2, <1>3 DEF Coordinates, LaneState
<1>8. Xor(z[0], k) \in SUBSET LaneBit
  BY <1>6, <1>7, XorIs
<1>9. KeccakRound(s, n) \in LaneState /\ FipsRound(A, n) \in StateArray
  BY <1>3, <1>4, <1>5, <1>7, <1>8 DEF LaneState, StateArray
<1>10. ASSUME NEW x \in 0..4, NEW y \in 0..4
       PROVE  KeccakRound(s, n)[5 * y + x] = FipsRound(A, n)[<<x, y>>]
  <2>1. 5 * y + x \in Lanes /\ <<x, y>> \in Coordinates /\ z[5 * y + x] = T[<<x, y>>]
    BY <1>3, LaneOfPlace DEF Coordinates, Agree
  <2>2. KeccakRound(s, n)[5 * y + x] = IF 5 * y + x = 0 THEN Xor(z[0], k) ELSE z[5 * y + x]
    BY <2>1, <1>3, <1>4 DEF LaneState
  <2>3. FipsRound(A, n)[<<x, y>>] = IF <<x, y>> = <<0, 0>> THEN Xor(T[<<0, 0>>], k) ELSE T[<<x, y>>]
    BY <2>1, <1>3, <1>5 DEF StateArray
  <2>4. 5 * y + x = 0 <=> <<x, y>> = <<0, 0>>
    OBVIOUS
  <2>5. QED
    BY <2>1, <2>2, <2>3, <2>4, <1>7
<1>11. QED
  BY <1>9, <1>10 DEF Agree

-----------------------------------------------------------------------------
(* A block *)

\* The bytes of the k-th block of the string p.
BlockOf(p, k, bytes) ==
  /\ bytes \in [0..Rate-1 -> SUBSET (0..7)]
  /\ \A m \in 0..Rate-1 : \A j \in 0..7 : j \in bytes[m] <=> 8 * (Rate * k + m) + j \in p

\* What absorb_block does to the lanes.
AbsorbedLanes(s, bytes) ==
  [l \in Lanes |->
     IF l < Rate \div 8
     THEN Xor(s[l], UNION {{8 * j + b : b \in bytes[8 * l + j]} : j \in 0..7})
     ELSE s[l]]

\* The bits of the lane that eight bytes make.
LEMMA LaneOfBytes ==
  ASSUME NEW bytes \in [0..Rate-1 -> SUBSET (0..7)], NEW l \in 0..16
  PROVE  UNION {{8 * j + b : b \in bytes[8 * l + j]} : j \in 0..7}
           = {b \in LaneBit : b % 8 \in bytes[8 * l + (b \div 8)]}
<1> DEFINE U == UNION {{8 * j + b : b \in bytes[8 * l + j]} : j \in 0..7}
           V == {b \in LaneBit : b % 8 \in bytes[8 * l + (b \div 8)]}
<1>1. \A j \in 0..7 : 8 * l + j \in 0..Rate-1 /\ bytes[8 * l + j] \in SUBSET (0..7)
  BY DEF Rate
<1>2. ASSUME NEW x \in U
      PROVE  x \in V
  <2>1. PICK j \in 0..7 : x \in {8 * j + b : b \in bytes[8 * l + j]}
    OBVIOUS
  <2>2. PICK b \in bytes[8 * l + j] : x = 8 * j + b
    BY <2>1
  <2>3. b \in 0..7
    BY <1>1
  <2>4. x \in LaneBit /\ x % 8 = b /\ x \div 8 = j
    BY <2>2, <2>3 DEF LaneBit, LaneBits
  <2>5. x % 8 \in bytes[8 * l + (x \div 8)]
    BY <2>4
  <2>6. QED
    BY <2>4, <2>5
<1>3. ASSUME NEW x \in V
      PROVE  x \in U
  <2> DEFINE j == x \div 8
             b == x % 8
  <2>1. j \in 0..7 /\ x = 8 * j + b
    BY DEF LaneBit, LaneBits
  <2>2. b \in bytes[8 * l + j]
    OBVIOUS
  <2> HIDE DEF j, b
  <2>3. x \in {8 * j + c : c \in bytes[8 * l + j]}
    BY <2>1, <2>2
  <2>4. \E e \in 0..7 : x \in {8 * e + c : c \in bytes[8 * l + e]}
    BY <2>1, <2>3
  <2>5. QED
    BY <2>4
<1>4. QED
  BY <1>2, <1>3

\* Absorbing a block does to the lanes what FIPS 202 does to its array.
LEMMA AbsorbAgrees ==
  ASSUME NEW s \in LaneState, NEW A \in StateArray, Agree(s, A), NEW p, NEW k \in Nat, NEW bytes,
         BlockOf(p, k, bytes)
  PROVE  AbsorbedLanes(s, bytes) \in LaneState /\ Absorbed(A, p, k) \in StateArray
         /\ Agree(AbsorbedLanes(s, bytes), Absorbed(A, p, k))
<1> DEFINE WordBits(l) == {b \in LaneBit : 8 * Rate * k + LaneBits * l + b \in p}
<1>0. bytes \in [0..Rate-1 -> SUBSET (0..7)]
  BY DEF BlockOf
<1>1. ASSUME NEW l \in 0..16
      PROVE  UNION {{8 * j + b : b \in bytes[8 * l + j]} : j \in 0..7} = WordBits(l)
  <2>1. ASSUME NEW b \in LaneBit
        PROVE  b % 8 \in bytes[8 * l + (b \div 8)] <=> 8 * Rate * k + LaneBits * l + b \in p
    <3> DEFINE m == 8 * l + (b \div 8)
               j == b % 8
    <3>1. m \in 0..Rate-1 /\ j \in 0..7
      BY DEF Rate, LaneBit, LaneBits
    <3>2. 8 * (Rate * k + m) + j = 8 * Rate * k + LaneBits * l + b
      <4>1. 8 * (b \div 8) + (b % 8) = b
        BY DEF LaneBit, LaneBits
      <4>2. b \div 8 \in Nat /\ b % 8 \in Nat /\ b \in Nat
        BY DEF LaneBit, LaneBits
      <4>3. QED
        BY <4>1, <4>2 DEF Rate, LaneBits
    <3> HIDE DEF m, j
    <3>3. j \in bytes[m] <=> 8 * (Rate * k + m) + j \in p
      BY <3>1, Zenon DEF BlockOf
    <3>4. j \in bytes[m] <=> 8 * Rate * k + LaneBits * l + b \in p
      BY <3>2, <3>3
    <3>5. QED
      BY <3>4 DEF m, j
  <2>2. {b \in LaneBit : b % 8 \in bytes[8 * l + (b \div 8)]} = WordBits(l)
    BY <2>1, Zenon
  <2>3. QED
    BY <2>2, <1>0, LaneOfBytes, Zenon
<1>2. Rate \div 8 = 17
  BY DEF Rate
<1>3. \A l : WordBits(l) \in SUBSET LaneBit
  OBVIOUS
<1> HIDE DEF WordBits
<1>4. \A l \in Lanes : AbsorbedLanes(s, bytes)[l] = IF l < 17 THEN Xor(s[l], WordBits(l)) ELSE s[l]
  <2>1. ASSUME NEW l \in Lanes, l < 17
        PROVE  AbsorbedLanes(s, bytes)[l] = Xor(s[l], WordBits(l))
    <3>1. l \in 0..16
      BY <2>1 DEF Lanes
    <3>2. AbsorbedLanes(s, bytes)[l] = Xor(s[l], UNION {{8 * j + b : b \in bytes[8 * l + j]} : j \in 0..7})
      BY <2>1, <1>2, Zenon DEF AbsorbedLanes
    <3>3. QED
      BY <3>1, <3>2, <1>1
  <2>2. ASSUME NEW l \in Lanes, ~(l < 17)
        PROVE  AbsorbedLanes(s, bytes)[l] = s[l]
    BY <2>2, <1>2, Zenon DEF AbsorbedLanes
  <2>3. QED
    BY <2>1, <2>2
<1>5. \A x, y \in 0..4 : Absorbed(A, p, k)[<<x, y>>]
                       = IF 5 * y + x < 17 THEN Xor(A[<<x, y>>], WordBits(5 * y + x)) ELSE A[<<x, y>>]
  <2>1. ASSUME NEW x \in 0..4, NEW y \in 0..4
        PROVE  Absorbed(A, p, k)[<<x, y>>]
                 = IF 5 * y + x < 17 THEN Xor(A[<<x, y>>], WordBits(5 * y + x)) ELSE A[<<x, y>>]
    <3>1. <<x, y>> \in Coordinates /\ <<x, y>>[1] = x /\ <<x, y>>[2] = y
      BY DEF Coordinates
    <3>2. QED
      BY <3>1, <1>2, Zenon DEF Absorbed, WordBits
  <2>2. QED
    BY <2>1
<1>6. AbsorbedLanes(s, bytes) \in LaneState
  <2>1. \A l \in Lanes : AbsorbedLanes(s, bytes)[l] \in SUBSET LaneBit
    BY <1>3, <1>4, XorIs DEF LaneState
  <2>2. QED
    BY <2>1 DEF AbsorbedLanes, LaneState
<1>7. Absorbed(A, p, k) \in StateArray
  <2>1. ASSUME NEW c \in Coordinates
        PROVE  Absorbed(A, p, k)[c] \in SUBSET LaneBit
    <3>1. PICK x \in 0..4, y \in 0..4 : c = <<x, y>>
      BY DEF Coordinates
    <3>2. A[<<x, y>>] \in SUBSET LaneBit
      BY <3>1 DEF StateArray
    <3>3. QED
      BY <3>1, <3>2, <1>3, <1>5, XorIs
  <2>2. QED
    BY <2>1 DEF Absorbed, StateArray
<1>8. ASSUME NEW x \in 0..4, NEW y \in 0..4
      PROVE  AbsorbedLanes(s, bytes)[5 * y + x] = Absorbed(A, p, k)[<<x, y>>]
  <2>1. 5 * y + x \in Lanes
    BY LaneOfPlace
  <2>2. s[5 * y + x] = A[<<x, y>>]
    BY DEF Agree
  <2>3. QED
    BY <2>1, <2>2, <1>4, <1>5
<1>9. QED
  BY <1>6, <1>7, <1>8 DEF Agree

-----------------------------------------------------------------------------
(* The padding *)

\* Every byte of the data is eight bits.
AllBytes == \A n \in Nat : ByteAt(n) \in SUBSET (0..7)

\* The bits that the padded string has in its n-th byte.
LEMMA PaddedIs ==
  ASSUME AllBytes, NEW len \in Nat, NEW n \in Nat, NEW j \in 0..7
  PROVE  8 * n + j \in Padded(len) <=>
           \/ n < len /\ j \in ByteAt(n)
           \/ n = len /\ j \in {1, 2}
           \/ n = Rate * ((len \div Rate) + 1) - 1 /\ j = 7
<1> DEFINE x == 8 * n + j
           D == UNION {{8 * e + b : b \in ByteAt(e)} : e \in 0..len-1}
           q == len \div Rate
<1>1. x \in D <=> n < len /\ j \in ByteAt(n)
  <2>1. ASSUME x \in D
        PROVE  n < len /\ j \in ByteAt(n)
    <3>1. PICK e \in 0..len-1 : x \in {8 * e + b : b \in ByteAt(e)}
      BY <2>1
    <3>2. PICK b \in ByteAt(e) : x = 8 * e + b
      BY <3>1
    <3>3. e \in Nat /\ b \in 0..7
      BY DEF AllBytes
    <3>4. e = n /\ b = j
      BY <3>2, <3>3
    <3>5. QED
      BY <3>4
  <2>2. ASSUME n < len, j \in ByteAt(n)
        PROVE  x \in D
    <3>1. n \in 0..len-1
      BY <2>2
    <3>2. x \in {8 * n + b : b \in ByteAt(n)}
      BY <2>2
    <3>3. QED
      BY <3>1, <3>2
  <2>3. QED
    BY <2>1, <2>2
<1>2. Padded(len) = D \cup {8 * len + 1, 8 * len + 2, 8 * Rate * (q + 1) - 1}
  BY DEF Padded
<1>3. q \in Nat
  BY DEF Rate
<1> HIDE DEF q, D
<1>4. x = 8 * len + 1 \/ x = 8 * len + 2 <=> n = len /\ j \in {1, 2}
  OBVIOUS
<1>5. x = 8 * Rate * (q + 1) - 1 <=> n = Rate * (q + 1) - 1 /\ j = 7
  BY <1>3 DEF Rate
<1>6. x \in Padded(len) <=> x \in D \/ (x = 8 * len + 1 \/ x = 8 * len + 2) \/ x = 8 * Rate * (q + 1) - 1
  BY <1>2
<1> HIDE DEF x
<1>7. x \in Padded(len) <=>
        \/ n < len /\ j \in ByteAt(n)
        \/ n = len /\ j \in {1, 2}
        \/ n = Rate * (q + 1) - 1 /\ j = 7
  BY <1>1, <1>4, <1>5, <1>6, Zenon
<1>8. QED
  BY <1>7 DEF x, q

\* Which block a byte is in.
LEMMA Blocks ==
  ASSUME NEW k \in Nat, NEW b \in 0..Rate-1
  PROVE  (Rate * k + b) \div Rate = k
BY DEF Rate

\* A block that update fills is one of the padded string, however much is yet to come.
LEMMA FullBlock ==
  ASSUME AllBytes, NEW k \in Nat, NEW len \in Nat, Rate * (k + 1) <= len,
         NEW bytes \in [0..Rate-1 -> SUBSET (0..7)],
         \A m \in 0..Rate-1 : bytes[m] = ByteAt(Rate * k + m)
  PROVE  BlockOf(Padded(len), k, bytes)
<1>1. ASSUME NEW m \in 0..Rate-1, NEW j \in 0..7
      PROVE  j \in bytes[m] <=> 8 * (Rate * k + m) + j \in Padded(len)
  <2> DEFINE n == Rate * k + m
             q == len \div Rate
  <2>1. n \in Nat /\ n < len
    BY DEF Rate
  <2>2. q \in Nat /\ len < Rate * (q + 1)
    BY DEF Rate
  <2>3. n # Rate * (q + 1) - 1
    <3> HIDE DEF n, q
    <3>1. QED
      BY <2>1, <2>2 DEF Rate
  <2>4. bytes[m] = ByteAt(n)
    OBVIOUS
  <2> HIDE DEF n
  <2>5. 8 * n + j \in Padded(len) <=> j \in ByteAt(n)
    <3>1. n # len
      BY <2>1
    <3>2. QED
      BY <2>1, <2>3, <3>1, PaddedIs
  <2>6. QED
    BY <2>4, <2>5 DEF n
<1>2. QED
  BY <1>1 DEF BlockOf

\* The block that finalize makes is the last one of the padded string.
LEMMA LastBlock ==
  ASSUME AllBytes, NEW k \in Nat, NEW b \in 0..Rate-1,
         NEW old \in [0..Rate-1 -> SUBSET (0..7)], NEW bytes,
         \A m \in 0..b-1 : old[m] = ByteAt(Rate * k + m),
         bytes = [m \in 0..Rate-1 |->
                    (IF m < b THEN old[m] ELSE IF m = b THEN {1, 2} ELSE {})
                      \cup (IF m = Rate - 1 THEN {7} ELSE {})]
  PROVE  BlockOf(Padded(Rate * k + b), k, bytes)
<1> DEFINE len == Rate * k + b
<1>0. len \in Nat /\ len \div Rate = k
  BY Blocks DEF Rate
<1> HIDE DEF len
<1>1. ASSUME NEW m \in 0..Rate-1, NEW j \in 0..7
      PROVE  j \in bytes[m] <=> 8 * (Rate * k + m) + j \in Padded(len)
  <2> DEFINE n == Rate * k + m
  <2>1. n \in Nat /\ (n < len <=> m < b) /\ (n = len <=> m = b) /\ (n = Rate * (k + 1) - 1 <=> m = Rate - 1)
    BY DEF Rate, len
  <2>2. m < b => old[m] = ByteAt(n)
    OBVIOUS
  <2>3. j \in bytes[m] <=> \/ m < b /\ j \in old[m]
                           \/ m = b /\ j \in {1, 2}
                           \/ m = Rate - 1 /\ j = 7
    <3>1. m < b => m # b
      OBVIOUS
    <3>2. QED
      BY <3>1
  <2> HIDE DEF n
  <2>4. 8 * n + j \in Padded(len) <=>
          \/ n < len /\ j \in ByteAt(n)
          \/ n = len /\ j \in {1, 2}
          \/ n = Rate * (k + 1) - 1 /\ j = 7
    <3>1. 8 * n + j \in Padded(len) <=>
            \/ n < len /\ j \in ByteAt(n)
            \/ n = len /\ j \in {1, 2}
            \/ n = Rate * ((len \div Rate) + 1) - 1 /\ j = 7
      BY <1>0, <2>1, PaddedIs
    <3>2. QED
      BY <3>1, <1>0
  <2>5. j \in bytes[m] <=> 8 * n + j \in Padded(len)
    BY <2>1, <2>2, <2>3, <2>4, Zenon
  <2>6. QED
    BY <2>5 DEF n
<1>2. bytes \in [0..Rate-1 -> SUBSET (0..7)]
  <2>1. Rate - 1 \in 0..Rate-1
    BY DEF Rate
  <2>2. QED
    OBVIOUS
<1>3. QED
  BY <1>1, <1>2 DEF BlockOf, len

-----------------------------------------------------------------------------
(* The invariant *)

HashTypeOK ==
  /\ hpc \in {"ready", "taking", "absorbing", "permuting", "done"}
  /\ state \in LaneState /\ fips \in StateArray
  /\ buf \in [0..Rate-1 -> SUBSET (0..7)] /\ buf_len \in 0..Rate
  /\ data \in [taken : Nat, given : Nat] /\ data.taken <= data.given
  /\ padded \in BOOLEAN /\ round \in 0..24

\* The buffer begins where a block of the data does, and holds what came since.
BufferIsTail ==
  \E k \in Nat :
    /\ data.taken = Rate * k + buf_len
    /\ ~padded => \A m \in 0..buf_len-1 : buf[m] = ByteAt(Rate * k + m)
    /\ hpc = "absorbing" => BlockOf(Padded(data.given), k, buf)

\* What holds at each place of the code.
PlacesRight ==
  /\ hpc = "ready" => data.taken = data.given /\ buf_len < Rate /\ ~padded
  /\ hpc = "taking" => buf_len < Rate /\ ~padded
  /\ hpc \in {"absorbing", "permuting"} /\ ~padded => buf_len = Rate
  /\ hpc = "permuting" => round < 24

HashInv == HashTypeOK /\ BufferIsTail /\ PlacesRight /\ Agree(state, fips)

\* It holds of a new hash.
LEMMA HashInitInv ==
  ASSUME HashInit
  PROVE  HashInv
<1>1. HashTypeOK
  <2>1. state \in LaneState /\ fips \in StateArray
    BY DEF HashInit, LaneState, StateArray
  <2>2. buf \in [0..Rate-1 -> SUBSET (0..7)] /\ buf_len \in 0..Rate
    BY DEF HashInit, Rate
  <2>3. data \in [taken : Nat, given : Nat] /\ data.taken <= data.given
    BY DEF HashInit
  <2>4. hpc = "ready" /\ padded = FALSE /\ round \in 0..24
    BY DEF HashInit
  <2>5. QED
    BY <2>1, <2>2, <2>3, <2>4 DEF HashTypeOK
<1>2. PlacesRight
  BY DEF HashInit, PlacesRight, Rate
<1>3. BufferIsTail
  <2>1. data.taken = Rate * 0 + buf_len /\ hpc # "absorbing" /\ 0 \in Nat
    BY DEF HashInit, Rate
  <2>2. \A m \in 0..buf_len-1 : buf[m] = ByteAt(Rate * 0 + m)
    BY DEF HashInit
  <2>3. QED
    BY <2>1, <2>2, Zenon DEF BufferIsTail
<1>4. Agree(state, fips)
  <2>1. ASSUME NEW x \in 0..4, NEW y \in 0..4
        PROVE  state[5 * y + x] = fips[<<x, y>>]
    <3>1. 5 * y + x \in Lanes /\ <<x, y>> \in Coordinates
      BY LaneOfPlace DEF Coordinates
    <3>2. QED
      BY <3>1 DEF HashInit
  <2>2. QED
    BY <2>1 DEF Agree
<1>5. QED
  BY <1>1, <1>2, <1>3, <1>4 DEF HashInv

\* More data to take leave the buffer as it is.
LEMMA UpdateInv ==
  ASSUME HashInv, Update
  PROVE  HashInv'
<1>1. PICK n \in Pieces : data' = [data EXCEPT !.given = @ + n]
  BY DEF Update
<1>2. n \in Nat
  BY HashAssumption DEF HashAssumption
<1>3. data' \in [taken : Nat, given : Nat] /\ data'.taken = data.taken /\ data'.taken <= data'.given
  BY <1>1, <1>2 DEF HashInv, HashTypeOK
<1>4. hpc' = "taking" /\ buf_len < Rate /\ ~padded
      /\ UNCHANGED <<state, buf, buf_len, padded, round, fips>>
  BY DEF Update, HashInv, PlacesRight
<1>5. HashTypeOK'
  BY <1>3, <1>4 DEF HashInv, HashTypeOK
<1>6. PlacesRight'
  BY <1>4 DEF PlacesRight
<1>7. BufferIsTail'
  <2>1. PICK k \in Nat : data.taken = Rate * k + buf_len /\ \A m \in 0..buf_len-1 : buf[m] = ByteAt(Rate * k + m)
    BY <1>4 DEF HashInv, BufferIsTail
  <2>2. data'.taken = Rate * k + buf_len' /\ \A m \in 0..buf_len'-1 : buf'[m] = ByteAt(Rate * k + m)
    BY <2>1, <1>3, <1>4
  <2>3. hpc' # "absorbing"
    BY <1>4
  <2>4. QED
    BY <2>2, <2>3, Zenon DEF BufferIsTail
<1>8. Agree(state, fips)'
  BY <1>4 DEF HashInv, Agree
<1>9. QED
  BY <1>5, <1>6, <1>7, <1>8 DEF HashInv

\* What update takes follows what is in the buffer, and a block that is full is one of
\* the padded string.
LEMMA TakeInv ==
  ASSUME AllBytes, HashInv, Take
  PROVE  HashInv'
<1> DEFINE left == data.given - data.taken
           n == IF left < Rate - buf_len THEN left ELSE Rate - buf_len
<1>1. /\ buf' = [m \in 0..Rate-1 |-> IF m \in buf_len..buf_len+n-1 THEN ByteAt(data.taken + m - buf_len) ELSE buf[m]]
      /\ buf_len' = buf_len + n
      /\ data' = [data EXCEPT !.taken = @ + n]
      /\ hpc' = IF buf_len' = Rate THEN "absorbing" ELSE "ready"
      /\ UNCHANGED <<state, padded, round, fips>>
      /\ ~padded
  BY DEF Take, HashInv, PlacesRight
<1>2. n \in Nat /\ n <= left /\ buf_len + n <= Rate /\ (buf_len + n # Rate => n = left)
  BY DEF HashInv, HashTypeOK, Rate
<1>3. data.taken \in Nat /\ data.given \in Nat /\ buf_len \in Nat /\ left = data.given - data.taken
      /\ data \in [taken : Nat, given : Nat]
  BY DEF HashInv, HashTypeOK, Rate
<1> HIDE DEF n, left
<1>4. buf_len' \in Nat /\ buf_len' <= Rate /\ buf_len' = buf_len + n
  <2>1. buf_len' = buf_len + n
    BY <1>1
  <2>2. QED
    BY <2>1, <1>2, <1>3
<1>5. data'.taken = data.taken + n /\ data'.given = data.given /\ data' \in [taken : Nat, given : Nat]
      /\ data'.taken <= data'.given /\ (buf_len' # Rate => data'.taken = data'.given)
  BY <1>1, <1>2, <1>3
<1>6. buf' \in [0..Rate-1 -> SUBSET (0..7)]
  <2>1. ASSUME NEW m \in 0..Rate-1, m \in buf_len..buf_len+n-1
        PROVE  ByteAt(data.taken + m - buf_len) \in SUBSET (0..7)
    <3>1. data.taken + m - buf_len \in Nat
      BY <2>1, <1>3
    <3>2. QED
      BY <3>1, Zenon DEF AllBytes
  <2>2. \A m \in 0..Rate-1 : buf[m] \in SUBSET (0..7)
    BY DEF HashInv, HashTypeOK
  <2>3. QED
    BY <2>1, <2>2, <1>1
<1>7. HashTypeOK'
  <2>1. buf_len' \in 0..Rate
    BY <1>4 DEF Rate
  <2>2. hpc' \in {"ready", "taking", "absorbing", "permuting", "done"}
    BY <1>1
  <2>3. QED
    BY <2>1, <2>2, <1>1, <1>5, <1>6 DEF HashInv, HashTypeOK
<1>8. PlacesRight'
  <2>1. QED
    BY <1>1, <1>4, <1>5 DEF PlacesRight, Rate
<1>9. BufferIsTail'
  <2>1. PICK k \in Nat : data.taken = Rate * k + buf_len /\ \A m \in 0..buf_len-1 : buf[m] = ByteAt(Rate * k + m)
    BY <1>1 DEF HashInv, BufferIsTail
  <2>2. data'.taken = Rate * k + buf_len'
    BY <2>1, <1>1, <1>2, <1>3, <1>5 DEF Rate
  <2>3. ASSUME NEW m \in 0..buf_len'-1
        PROVE  buf'[m] = ByteAt(Rate * k + m)
    <3>1. m \in 0..Rate-1 /\ m \in Nat
      BY <1>4 DEF Rate
    <3>2. CASE m < buf_len
      <4>1. m \in 0..buf_len-1 /\ m \notin buf_len..buf_len+n-1
        BY <3>1, <3>2, <1>3
      <4>2. QED
        BY <4>1, <3>1, <2>1, <1>1
    <3>3. CASE ~(m < buf_len)
      <4>1. m \in buf_len..buf_len+n-1
        BY <3>1, <3>3, <1>1, <1>2, <1>3
      <4>2. data.taken + m - buf_len = Rate * k + m
        BY <2>1, <3>1, <1>3 DEF Rate
      <4>3. buf'[m] = ByteAt(data.taken + m - buf_len)
        BY <4>1, <3>1, <1>1
      <4>4. QED
        BY <4>2, <4>3
    <3>4. QED
      BY <3>2, <3>3
  <2>4. ASSUME hpc' = "absorbing"
        PROVE  BlockOf(Padded(data'.given), k, buf')
    <3>1. buf_len' = Rate
      BY <2>4, <1>1
    <3>2. Rate * (k + 1) <= data'.given /\ data'.given \in Nat
      BY <3>1, <2>2, <1>5 DEF Rate
    <3>3. \A m \in 0..Rate-1 : buf'[m] = ByteAt(Rate * k + m)
      BY <2>3, <3>1
    <3>4. QED
      BY <3>2, <3>3, <1>6, FullBlock
  <2>5. QED
    BY <2>2, <2>3, <2>4, Zenon DEF BufferIsTail
<1>10. Agree(state, fips)'
  BY <1>1 DEF HashInv, Agree
<1>11. QED
  BY <1>7, <1>8, <1>9, <1>10 DEF HashInv

\* finalize makes the last block of the padded string.
LEMMA FinalizeInv ==
  ASSUME AllBytes, HashInv, Finalize
  PROVE  HashInv'
<1>1. buf' = PaddedBlock /\ padded' = TRUE /\ hpc' = "absorbing" /\ UNCHANGED <<state, buf_len, data, round, fips>>
  BY DEF Finalize
<1>2. data.taken = data.given /\ buf_len \in 0..Rate-1 /\ buf_len < Rate /\ ~padded
      /\ buf \in [0..Rate-1 -> SUBSET (0..7)]
  BY DEF Finalize, HashInv, PlacesRight, HashTypeOK, Rate
<1>3. PICK k \in Nat : data.taken = Rate * k + buf_len /\ \A m \in 0..buf_len-1 : buf[m] = ByteAt(Rate * k + m)
  BY <1>2 DEF HashInv, BufferIsTail
<1>4. BlockOf(Padded(Rate * k + buf_len), k, PaddedBlock)
  BY <1>2, <1>3, LastBlock DEF PaddedBlock
<1>5. BufferIsTail'
  <2>1. data'.taken = Rate * k + buf_len' /\ BlockOf(Padded(data'.given), k, buf') /\ padded'
    BY <1>1, <1>2, <1>3, <1>4
  <2>2. QED
    BY <2>1, Zenon DEF BufferIsTail
<1>6. HashTypeOK'
  <2>1. buf' \in [0..Rate-1 -> SUBSET (0..7)]
    BY <1>1, <1>4 DEF BlockOf
  <2>2. QED
    BY <2>1, <1>1 DEF HashInv, HashTypeOK
<1>7. PlacesRight'
  BY <1>1 DEF PlacesRight
<1>8. Agree(state, fips)'
  BY <1>1 DEF HashInv, Agree
<1>9. QED
  BY <1>5, <1>6, <1>7, <1>8 DEF HashInv

\* A block is absorbed as FIPS 202 absorbs it.
LEMMA AbsorbInv ==
  ASSUME HashInv, Absorb
  PROVE  HashInv'
<1>1. /\ state' = AbsorbedLanes(state, buf)
      /\ fips' = Absorbed(fips, Padded(data.given), (data.taken - buf_len) \div Rate)
      /\ round' = 0 /\ hpc' = "permuting"
      /\ UNCHANGED <<buf, buf_len, data, padded>>
      /\ hpc = "absorbing"
  BY Zenon DEF Absorb, AbsorbedLanes
<1>2. PICK k \in Nat : /\ data.taken = Rate * k + buf_len
                       /\ ~padded => \A m \in 0..buf_len-1 : buf[m] = ByteAt(Rate * k + m)
                       /\ BlockOf(Padded(data.given), k, buf)
  BY <1>1 DEF HashInv, BufferIsTail
<1>3. (data.taken - buf_len) \div Rate = k
  <2>1. buf_len \in Nat /\ data.taken \in Nat
    BY DEF HashInv, HashTypeOK, Rate
  <2>2. QED
    BY <2>1, <1>2 DEF Rate
<1>4. state \in LaneState /\ fips \in StateArray /\ Agree(state, fips)
  BY DEF HashInv, HashTypeOK
<1>5. state' \in LaneState /\ fips' \in StateArray /\ Agree(state', fips')
  BY <1>1, <1>2, <1>3, <1>4, AbsorbAgrees
<1>6. HashTypeOK'
  BY <1>1, <1>5 DEF HashInv, HashTypeOK
<1>7. PlacesRight'
  BY <1>1 DEF HashInv, PlacesRight
<1>8. BufferIsTail'
  <2>1. /\ data'.taken = Rate * k + buf_len'
        /\ ~padded' => \A m \in 0..buf_len'-1 : buf'[m] = ByteAt(Rate * k + m)
        /\ hpc' # "absorbing"
    BY <1>1, <1>2
  <2>2. QED
    BY <2>1, Zenon DEF BufferIsTail
<1>9. QED
  BY <1>5, <1>6, <1>7, <1>8 DEF HashInv, Agree

\* A turn is a round; after the last one the buffer begins with the next block.
LEMMA PermuteInv ==
  ASSUME HashInv, Permute
  PROVE  HashInv'
<1>1. /\ state' = KeccakRound(state, round) /\ fips' = FipsRound(fips, round)
      /\ round' = round + 1
      /\ hpc' = IF round < 23 THEN "permuting" ELSE IF padded THEN "done" ELSE "taking"
      /\ buf_len' = IF round < 23 \/ padded THEN buf_len ELSE 0
      /\ UNCHANGED <<buf, data, padded>>
      /\ round \in 0..23
      /\ ~padded => buf_len = Rate
      /\ buf_len \in 0..Rate /\ padded \in BOOLEAN
  BY DEF Permute, HashInv, PlacesRight, HashTypeOK
<1>2. state' \in LaneState /\ fips' \in StateArray /\ Agree(state', fips')
  <2>1. state \in LaneState /\ fips \in StateArray /\ Agree(state, fips)
    BY DEF HashInv, HashTypeOK
  <2>2. QED
    BY <2>1, <1>1, RoundsAgree
<1>3. HashTypeOK'
  <2>1. buf_len' \in 0..Rate /\ round' \in 0..24 /\ hpc' \in {"ready", "taking", "absorbing", "permuting", "done"}
    BY <1>1 DEF Rate
  <2>2. QED
    BY <2>1, <1>1, <1>2 DEF HashInv, HashTypeOK
<1>4. PlacesRight'
  BY <1>1 DEF PlacesRight, Rate
<1>5. BufferIsTail'
  <2>1. PICK k \in Nat : /\ data.taken = Rate * k + buf_len
                         /\ ~padded => \A m \in 0..buf_len-1 : buf[m] = ByteAt(Rate * k + m)
    BY DEF HashInv, BufferIsTail
  <2>2. hpc' # "absorbing"
    BY <1>1
  <2>3. CASE round < 23 \/ padded
    <3>1. /\ data'.taken = Rate * k + buf_len'
          /\ ~padded' => \A m \in 0..buf_len'-1 : buf'[m] = ByteAt(Rate * k + m)
      BY <1>1, <2>1, <2>3
    <3>2. QED
      BY <3>1, <2>2, Zenon DEF BufferIsTail
  <2>4. CASE ~(round < 23 \/ padded)
    <3>1. k + 1 \in Nat /\ data'.taken = Rate * (k + 1) + buf_len'
      BY <1>1, <2>1, <2>4 DEF Rate
    <3>2. \A m \in 0..buf_len'-1 : buf'[m] = ByteAt(Rate * (k + 1) + m)
      BY <1>1, <2>4
    <3>3. QED
      BY <3>1, <3>2, <2>2, Zenon DEF BufferIsTail
  <2>5. QED
    BY <2>3, <2>4
<1>6. QED
  BY <1>2, <1>3, <1>4, <1>5 DEF HashInv, Agree

\* Every step keeps it.
LEMMA HashNextInv ==
  ASSUME AllBytes, HashInv, [HashNext]_hashVars
  PROVE  HashInv'
<1>1. ASSUME UNCHANGED hashVars
      PROVE  HashInv'
  BY <1>1 DEF hashVars, HashInv, HashTypeOK, BufferIsTail, PlacesRight, Agree
<1>2. QED
  BY <1>1, UpdateInv, TakeInv, FinalizeInv, AbsorbInv, PermuteInv DEF HashNext, HashOver

\* What holds by it is the property; the digest is read off the first four lanes.
LEMMA HashInvIsFips202 ==
  ASSUME HashInv
  PROVE  HashIsFips202
<1>1. ASSUME NEW c \in Coordinates
      PROVE  state[5 * c[2] + c[1]] = fips[c]
  <2>1. PICK x \in 0..4, y \in 0..4 : c = <<x, y>>
    BY DEF Coordinates
  <2>2. QED
    BY <2>1 DEF HashInv, Agree
<1>2. Digest = FipsDigest
  <2>1. ASSUME NEW n \in 0..31, NEW b \in 0..7
        PROVE  8 * (n % 8) + b \in state[n \div 8]
                 <=> (8 * n + b) % LaneBits \in fips[<<(8 * n + b) \div LaneBits, 0>>]
    <3>1. (8 * n + b) % LaneBits = 8 * (n % 8) + b /\ (8 * n + b) \div LaneBits = n \div 8 /\ n \div 8 \in 0..4
      BY DEF LaneBits
    <3>2. state[n \div 8] = fips[<<n \div 8, 0>>]
      <4> DEFINE x == n \div 8
      <4>1. x \in 0..4 /\ 0 \in 0..4 /\ 5 * 0 + x = x
        BY <3>1
      <4> HIDE DEF x
      <4>2. state[5 * 0 + x] = fips[<<x, 0>>]
        BY <4>1, Zenon DEF HashInv, Agree
      <4>3. state[x] = fips[<<x, 0>>]
        BY <4>1, <4>2
      <4>4. QED
        BY <4>3 DEF x
    <3>3. QED
      BY <3>1, <3>2, Zenon
  <2>2. ASSUME NEW n \in 0..31
        PROVE  {b \in 0..7 : 8 * (n % 8) + b \in state[n \div 8]}
                 = {b \in 0..7 : (8 * n + b) % LaneBits \in fips[<<(8 * n + b) \div LaneBits, 0>>]}
    BY <2>1, Zenon
  <2>3. QED
    BY <2>2, Zenon DEF Digest, FipsDigest
<1>3. QED
  BY <1>1, <1>2 DEF HashIsFips202

\* However the data is cut into calls of update, and however much there is of it, the lanes
\* are those of FIPS 202 after every round, and the digest is its digest.
THEOREM HashSpecIsFips202 ==
  ASSUME AllBytes
  PROVE  HashSpec => []HashIsFips202
<1>1. HashInit => HashInv
  BY HashInitInv
<1>2. HashInv /\ [HashNext]_hashVars => HashInv'
  BY HashNextInv
<1>3. HashInv => HashIsFips202
  BY HashInvIsFips202
<1>4. QED
  BY <1>1, <1>2, <1>3, PTL DEF HashSpec
==============================================================================
