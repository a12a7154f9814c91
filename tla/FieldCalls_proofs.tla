--------------------------- MODULE FieldCalls_proofs ---------------------------
(***************************************************************************)
(* Proofs about the field in its three forms, for limbs of any width and   *)
(* any numbers in them: what is written of a number below p is what was    *)
(* read, a product with one leaves it, products, squares, sums and         *)
(* differences are exact modulo p, and an inversion raises to p - 2.       *)
(*                                                                         *)
(* A number that is read from its bits is sums of distinct powers of two,  *)
(* limb by limb (AreLimbs), and the bits of such a sum are the powers that *)
(* are in it (BitsOfSum).  So what is left to show of fe_to_bytes and of a *)
(* product with one is what is carried: nothing at all, or for fe51, which *)
(* adds 19 and then p, one of two carries out of each limb (WrappedAndBack).*)
(*                                                                         *)
(* Limbs stand for the sum of each times its place (Stands).  A carry      *)
(* leaves that sum but for what goes past the last limb (CarriedStands);   *)
(* the coefficients of a product stand for the product of the sums         *)
(* (ProductStands); and what is folded, 19 or 38 times, changes it by a    *)
(* multiple of p (FoldsTo).  No word overflows and nothing is carried past *)
(* the limb where the code stops (Foldable, CarriedOnce).                  *)
(*                                                                         *)
(* So a chain of calls keeps the residue that FieldCalls counts in halves  *)
(* (Holds).  Whatever it leaves in the limbs, two folds or three           *)
(* conditional subtractions make it less than p (FoldedTwice,              *)
(* ThriceWithoutP), and the bits of the limbs are those of the number that *)
(* they stand for (BitOfLimb).                                             *)
(***************************************************************************)
EXTENDS FieldCalls, FiniteSetTheorems, WellFoundedInduction, TLAPS

-----------------------------------------------------------------------------
(* Iterates of a loop *)


\* A set of numbers has a least one.
LEMMA LeastElement ==
  ASSUME NEW T \in SUBSET Nat, T # {}
  PROVE  \E p \in T : \A q \in T : p <= q
<1> DEFINE R == OpToRel(<, Nat)
<1>1. IsWellFoundedOn(R, Nat)
  BY NatLessThanWellFounded, Zenon
<1>2. \A m, n \in Nat : m < n => <<m, n>> \in R
  <2>1. ASSUME NEW m \in Nat, NEW n \in Nat, m < n
        PROVE  <<m, n>> \in R
    BY <2>1, Zenon DEF OpToRel
  <2>2. QED
    BY <2>1, Zenon
<1> HIDE DEF R
<1>3. PICK p \in T : ~\E q \in T : <<q, p>> \in R
  BY <1>1, WFMin, Zenon
<1>4. QED
  BY <1>2, <1>3

\* f is a, h[1] of it, h[2] of that, and so on.
Iterates(f, a, h, n) == f[0] = a /\ \A k \in 1..n : f[k] = h[k][f[k - 1]]

\* In a set that is closed under them, the iterates exist.
LEMMA IteratesExist ==
  ASSUME NEW S, NEW a \in S, NEW n \in Nat, NEW h, \A k \in 1..n : \A x \in S : h[k][x] \in S
  PROVE  \E f \in [0..n -> S] : Iterates(f, a, h, n)
<1> DEFINE T == {m \in 0..n : ~\E f \in [0..m -> S] : Iterates(f, a, h, m)}
<1>0. SUFFICES ASSUME T # {} PROVE FALSE
  <2>1. n \in 0..n
    OBVIOUS
  <2>2. QED
    BY <2>1
<1>1. PICK m \in T : \A q \in T : m <= q
  <2>1. T \in SUBSET Nat
    OBVIOUS
  <2>2. QED
    BY <1>0, <2>1, LeastElement, Zenon
<1>2. m # 0
  <2> DEFINE f == [k \in 0..0 |-> a]
  <2>1. f \in [0..0 -> S] /\ Iterates(f, a, h, 0)
    BY DEF Iterates
  <2>2. QED
    BY <1>1, <2>1
<1>3. m-1 \in 0..n /\ m \in 1..n /\ m-1 \notin T
  BY <1>1, <1>2
<1>4. PICK f \in [0..m-1 -> S] : Iterates(f, a, h, m-1)
  BY <1>3
<1> DEFINE g == [k \in 0..m |-> IF k = m THEN h[m][f[m-1]] ELSE f[k]]
<1>5. g \in [0..m -> S] /\ Iterates(g, a, h, m)
  <2>1. f[m-1] \in S /\ h[m][f[m-1]] \in S /\ f[0] = a
        /\ \A k \in 1..m-1 : f[k] = h[k][f[k-1]]
    BY <1>3, <1>4 DEF Iterates
  <2>2. g \in [0..m -> S] /\ g[0] = a
    BY <1>3, <2>1
  <2>3. ASSUME NEW k \in 1..m
        PROVE  g[k] = h[k][g[k-1]]
    BY <1>3, <2>1
  <2>4. QED
    BY <2>2, <2>3 DEF Iterates
<1>6. QED
  BY <1>1, <1>5

\* What begins alike and goes on alike is alike.
GoAlike(f, g, n) ==
  f[0] = g[0] /\ \A k \in 1..n : f[k - 1] = g[k - 1] => f[k] = g[k]

\* By the least number where they differ.
LEMMA Alike ==
  ASSUME NEW n \in Nat, NEW f, NEW g, GoAlike(f, g, n)
  PROVE  \A k \in 0..n : f[k] = g[k]
<1> DEFINE T == {k \in 0..n : ~(f[k] = g[k])}
<1> SUFFICES ASSUME T # {} PROVE FALSE
  OBVIOUS
<1>1. PICK k \in T : \A l \in T : k <= l
  <2>1. T \in SUBSET Nat
    OBVIOUS
  <2>2. QED
    BY <2>1, LeastElement, Zenon
<1>2. k # 0
  BY <1>1 DEF GoAlike
<1>3. k - 1 \in 0..n /\ k \in 1..n /\ k - 1 \notin T
  BY <1>1, <1>2
<1>4. f[k - 1] = g[k - 1]
  BY <1>3
<1>5. f[k] = g[k]
  BY <1>3, <1>4 DEF GoAlike
<1>6. QED
  BY <1>1, <1>5

-----------------------------------------------------------------------------
(* Sums over sets *)

\* The element a fold takes out of a set next.
Pick(s) == CHOOSE x \in s : TRUE

\* One step of the fold: the sum of c over s, if that over smaller sets is g.
SumStep(c, g, s) == IF s = {} THEN 0 ELSE c[Pick(s)] + g[s \ {Pick(s)}]

\* g is the sum of c over every subset of S.
IsFold(c, g, S) == g = [s \in SUBSET S |-> SumStep(c, g, s)]

\* What is left of a subset when an element is taken out of it.
LEMMA Remainder ==
  ASSUME NEW S, IsFiniteSet(S), NEW s \in SUBSET S
  PROVE  /\ Cardinality(s) \in Nat /\ Cardinality(s) <= Cardinality(S)
         /\ Cardinality(s) = 0 <=> s = {}
         /\ \A x \in s : s \ {x} \in SUBSET S /\ Cardinality(s \ {x}) = Cardinality(s) - 1
         /\ s # {} => Pick(s) \in s
<1>1. IsFiniteSet(s) /\ Cardinality(s) <= Cardinality(S)
  BY FS_Subset
<1>2. Cardinality(s) \in Nat
  BY <1>1, FS_CardinalityType
<1>3. Cardinality(s) = 0 <=> s = {}
  BY <1>1, FS_EmptySet
<1>4. \A x \in s : Cardinality(s \ {x}) = Cardinality(s) - 1
  BY <1>1, FS_RemoveElement
<1>5. s # {} => Pick(s) \in s
  BY DEF Pick
<1>6. QED
  BY <1>1, <1>2, <1>3, <1>4, <1>5

\* The recursion of the fold has a solution.
LEMMA FoldExists ==
  ASSUME NEW S, IsFiniteSet(S), NEW c
  PROVE  \E g : IsFold(c, g, S)
<1> DEFINE N == Cardinality(S)
           Upto(g, n) == \A s \in SUBSET S : Cardinality(s) <= n => g[s] = SumStep(c, g, s)
           T == {n \in 0..N : ~\E g : DOMAIN g = SUBSET S /\ Upto(g, n)}
<1>1. N \in Nat
  BY FS_CardinalityType
<1>2. ASSUME T # {}
      PROVE  FALSE
  <2>1. PICK m \in T : \A q \in T : m <= q
    <3>1. T \in SUBSET Nat
      BY <1>1
    <3>2. QED
      BY <1>2, <3>1, LeastElement, Zenon
  <2>2. m # 0
    <3> DEFINE z == [s \in SUBSET S |-> 0]
    <3>1. \A s \in SUBSET S : Cardinality(s) <= 0 => s = {}
      BY Remainder
    <3>2. DOMAIN z = SUBSET S /\ Upto(z, 0)
      BY <3>1 DEF SumStep
    <3>3. QED
      BY <2>1, <3>2
  <2>3. m \in Nat /\ m-1 \in 0..N /\ m-1 \notin T
    <3>1. m \in 0..N
      BY <2>1
    <3>2. m \in Nat /\ m-1 \in 0..N /\ ~(m <= m-1)
      BY <1>1, <2>2, <3>1
    <3> HIDE DEF T
    <3>3. QED
      BY <2>1, <3>2
  <2>4. PICK g : DOMAIN g = SUBSET S /\ Upto(g, m-1)
    BY <2>3
  <2> DEFINE r == [s \in SUBSET S |-> IF Cardinality(s) = m THEN SumStep(c, g, s) ELSE g[s]]
  <2>5. ASSUME NEW s \in SUBSET S, Cardinality(s) <= m
        PROVE  r[s] = SumStep(c, r, s)
    <3>1. /\ Cardinality(s) \in Nat /\ (s # {} => Pick(s) \in s)
          /\ \A x \in s : s \ {x} \in SUBSET S /\ Cardinality(s \ {x}) = Cardinality(s) - 1
      BY Remainder
    <3>2. s # {} => r[s \ {Pick(s)}] = g[s \ {Pick(s)}]
      BY <2>3, <2>5, <3>1
    <3>3. SumStep(c, r, s) = SumStep(c, g, s)
      BY <3>2 DEF SumStep
    <3>4. r[s] = SumStep(c, g, s)
      <4>1. CASE Cardinality(s) = m
        BY <4>1
      <4>2. CASE Cardinality(s) # m
        <5>1. Cardinality(s) <= m-1
          BY <2>3, <2>5, <3>1, <4>2
        <5>2. QED
          BY <2>4, <4>2, <5>1
      <4>3. QED
        BY <4>1, <4>2
    <3>5. QED
      BY <3>3, <3>4
  <2>6. DOMAIN r = SUBSET S /\ Upto(r, m)
    BY <2>5
  <2>7. QED
    BY <2>1, <2>6
<1>3. PICK g : DOMAIN g = SUBSET S /\ Upto(g, N)
  <2>1. N \in 0..N
    BY <1>1
  <2> HIDE DEF N, Upto
  <2>2. QED
    BY <1>2, <2>1
<1> DEFINE h == [s \in SUBSET S |-> g[s]]
<1>4. ASSUME NEW s \in SUBSET S
      PROVE  h[s] = SumStep(c, h, s)
  <2>1. Cardinality(s) <= N /\ (s # {} => Pick(s) \in s)
    BY Remainder
  <2>2. g[s] = SumStep(c, g, s)
    BY <1>3, <2>1
  <2>3. s # {} => h[s \ {Pick(s)}] = g[s \ {Pick(s)}]
    OBVIOUS
  <2>4. QED
    BY <2>2, <2>3 DEF SumStep
<1>5. h = [s \in SUBSET S |-> SumStep(c, h, s)]
  <2>1. h = [s \in SUBSET S |-> h[s]]
    OBVIOUS
  <2> HIDE DEF h
  <2>2. QED
    BY <1>4, <2>1
<1>6. QED
  BY <1>5 DEF IsFold

\* On what two of them share they are the same.
LEMMA FoldUnique ==
  ASSUME NEW S, IsFiniteSet(S), NEW R \in SUBSET S, NEW c, NEW g, NEW h,
         IsFold(c, g, S), IsFold(c, h, R)
  PROVE  \A s \in SUBSET R : g[s] = h[s]
<1> DEFINE T == {n \in Nat : \E s \in SUBSET R : Cardinality(s) = n /\ ~(g[s] = h[s])}
<1>1. /\ \A s \in SUBSET S : g[s] = SumStep(c, g, s)
      /\ \A s \in SUBSET R : h[s] = SumStep(c, h, s)
  BY DEF IsFold
<1>2. ASSUME T # {}
      PROVE  FALSE
  <2>1. PICK m \in T : \A q \in T : m <= q
    <3>1. T \in SUBSET Nat
      OBVIOUS
    <3>2. QED
      BY <1>2, <3>1, LeastElement, Zenon
  <2>2. PICK s \in SUBSET R : Cardinality(s) = m /\ ~(g[s] = h[s])
    BY <2>1
  <2>3. s \in SUBSET S
    OBVIOUS
  <2>4. g[s] = SumStep(c, g, s) /\ h[s] = SumStep(c, h, s)
    BY <1>1, <2>3
  <2>5. CASE s = {}
    BY <2>2, <2>4, <2>5 DEF SumStep
  <2>6. CASE s # {}
    <3> DEFINE r == s \ {Pick(s)}
    <3>1. Pick(s) \in s /\ Cardinality(r) = m - 1 /\ Cardinality(r) \in Nat
      <4>1. Pick(s) \in s /\ Cardinality(s \ {Pick(s)}) = Cardinality(s) - 1
        BY <2>3, <2>6, Remainder
      <4>2. r \in SUBSET S
        BY <2>3
      <4>3. Cardinality(r) \in Nat
        BY <4>2, Remainder
      <4>4. QED
        BY <2>2, <4>1, <4>3
    <3>2. r \in SUBSET R /\ m - 1 \in Nat
      BY <3>1
    <3> HIDE DEF r
    <3>3. m - 1 \notin T
      BY <2>1, <3>2
    <3>4. g[r] = h[r]
      BY <3>1, <3>2, <3>3
    <3>5. QED
      BY <2>2, <2>4, <2>6, <3>4 DEF SumStep, r
  <2>7. QED
    BY <2>5, <2>6
<1>3. QED
  <2>1. ASSUME NEW s \in SUBSET R PROVE g[s] = h[s]
    <3>1. Cardinality(s) \in Nat
      BY Remainder
    <3>2. QED
      BY <1>2, <3>1
  <2>2. QED
    BY <2>1

\* The sum is a number, and whichever element is taken out first, it is the
\* same.
LEMMA FoldAnyOrder ==
  ASSUME NEW S, IsFiniteSet(S), NEW c, \A x \in S : c[x] \in Nat, NEW g, IsFold(c, g, S)
  PROVE  /\ g[{}] = 0
         /\ \A s \in SUBSET S : g[s] \in Nat /\ \A x \in s : g[s] = c[x] + g[s \ {x}]
<1> DEFINE Good(s) == g[s] \in Nat /\ \A x \in s : g[s] = c[x] + g[s \ {x}]
           T == {n \in Nat : \E s \in SUBSET S : Cardinality(s) = n /\ ~Good(s)}
<1>1. \A s \in SUBSET S : g[s] = SumStep(c, g, s)
  BY DEF IsFold
<1>2. g[{}] = 0
  BY <1>1 DEF SumStep
<1>3. ASSUME T # {}
      PROVE  FALSE
  <2>1. PICK m \in T : \A q \in T : m <= q
    <3>1. T \in SUBSET Nat
      OBVIOUS
    <3>2. QED
      BY <1>3, <3>1, LeastElement, Zenon
  <2>2. PICK s \in SUBSET S : Cardinality(s) = m /\ ~Good(s)
    BY <2>1
  <2>3. s # {}
    BY <1>2, <2>2
  <2> DEFINE z == Pick(s)
  <2>4. z \in s /\ g[s] = c[z] + g[s \ {z}]
    <3>1. z \in s
      BY <2>3, Remainder
    <3>2. QED
      BY <1>1, <2>3, <3>1 DEF SumStep
  <2> HIDE DEF z
  <2>5. ASSUME NEW t \in SUBSET S, Cardinality(t) \in Nat, Cardinality(t) < m
        PROVE  Good(t)
    BY <2>1, <2>5
  <2>6. \A x \in s : s \ {x} \in SUBSET S /\ Cardinality(s \ {x}) \in Nat /\ Cardinality(s \ {x}) < m
    <3>1. ASSUME NEW x \in s
          PROVE  s \ {x} \in SUBSET S /\ Cardinality(s \ {x}) = m - 1
      BY <2>2, Remainder
    <3>2. \A x \in s : Cardinality(s \ {x}) \in Nat
      BY Remainder
    <3>3. QED
      BY <2>1, <3>1, <3>2
  <2>7. \A x \in s : Good(s \ {x})
    BY <2>5, <2>6
  <2>8. g[s] \in Nat
    <3>1. c[z] \in Nat /\ g[s \ {z}] \in Nat
      BY <2>4, <2>7
    <3>2. QED
      BY <2>4, <3>1
  <2>9. ASSUME NEW x \in s, x # z
        PROVE  g[s] = c[x] + g[s \ {x}]
    <3>1. x \in s \ {z} /\ z \in s \ {x} /\ (s \ {z}) \ {x} = (s \ {x}) \ {z}
      BY <2>4, <2>9
    <3>2. g[s \ {z}] = c[x] + g[(s \ {z}) \ {x}]
      BY <2>4, <2>7, <3>1
    <3>3. g[s \ {x}] = c[z] + g[(s \ {x}) \ {z}]
      BY <2>7, <3>1
    <3>4. (s \ {x}) \ {z} \in SUBSET S /\ g[(s \ {x}) \ {z}] \in Nat
      <4>1. (s \ {x}) \ {z} \in SUBSET S
        OBVIOUS
      <4>2. Cardinality((s \ {x}) \ {z}) \in Nat /\ Cardinality((s \ {x}) \ {z}) < m
        <5>1. Cardinality((s \ {x}) \ {z}) = Cardinality(s \ {x}) - 1
          BY <2>6, <3>1, Remainder, SMTT(30)
        <5>2. Cardinality((s \ {x}) \ {z}) \in Nat
          BY <4>1, Remainder
        <5>3. QED
          BY <2>1, <2>6, <5>1, <5>2
      <4>3. QED
        BY <2>5, <4>1, <4>2
    <3>5. c[x] \in Nat /\ c[z] \in Nat
      BY <2>4
    <3>6. PICK i \in Nat, j \in Nat, k \in Nat :
            i = c[x] /\ j = c[z] /\ k = g[(s \ {x}) \ {z}]
      BY <3>4, <3>5
    <3>7. g[s] = j + (i + k) /\ g[s \ {x}] = j + k
      BY <2>4, <3>1, <3>2, <3>3, <3>6
    <3>8. QED
      BY <3>6, <3>7
  <2>10. QED
    BY <2>2, <2>4, <2>8, <2>9
<1>4. ASSUME NEW s \in SUBSET S
      PROVE  Good(s)
  <2>1. Cardinality(s) \in Nat
    BY Remainder
  <2>2. QED
    BY <1>3, <2>1
<1>5. QED
  BY <1>2, <1>4


\* SumOver is such a fold.
LEMMA SumIsFold ==
  ASSUME NEW S, IsFiniteSet(S), NEW f
  PROVE  \E g : IsFold(f, g, S) /\ SumOver(S, f) = g[S]
<1> DEFINE F(g) == g = [s \in SUBSET S |-> IF s = {} THEN 0 ELSE f[Pick(s)] + g[s \ {Pick(s)}]]
<1>1. \A g : IsFold(f, g, S) <=> F(g)
  BY Zenon DEF IsFold, SumStep
<1>2. \E g : F(g)
  BY <1>1, FoldExists
<1>3. F(CHOOSE g : F(g))
  BY <1>2, Zenon
<1>4. SumOver(S, f) = (CHOOSE g : F(g))[S]
  BY Zenon DEF SumOver, MapThenSumSet, MapThenFoldSet, Pick
<1> HIDE DEF F
<1>5. QED
  BY <1>1, <1>3, <1>4

\* A sum is a number, nothing over no element, and any element may be added last.
LEMMA SumIs ==
  ASSUME NEW S, IsFiniteSet(S), NEW f, \A x \in S : f[x] \in Nat
  PROVE  /\ SumOver(S, f) \in Nat
         /\ S = {} => SumOver(S, f) = 0
         /\ \A x \in S : SumOver(S, f) = f[x] + SumOver(S \ {x}, f)
<1>1. PICK g : IsFold(f, g, S) /\ SumOver(S, f) = g[S]
  BY SumIsFold
<1>2. /\ g[{}] = 0
      /\ \A s \in SUBSET S : g[s] \in Nat /\ \A x \in s : g[s] = f[x] + g[s \ {x}]
  BY <1>1, FoldAnyOrder
<1>3. ASSUME NEW x \in S PROVE SumOver(S, f) = f[x] + SumOver(S \ {x}, f)
  <2> DEFINE R == S \ {x}
  <2>1. R \in SUBSET S /\ IsFiniteSet(R)
    BY FS_Subset
  <2> HIDE DEF R
  <2>2. PICK h : IsFold(f, h, R) /\ SumOver(R, f) = h[R]
    BY <2>1, SumIsFold
  <2>3. g[R] = h[R]
    BY <1>1, <2>1, <2>2, FoldUnique
  <2>4. g[S] = f[x] + g[R]
    BY <1>2 DEF R
  <2>5. QED
    BY <1>1, <2>2, <2>3, <2>4 DEF R
<1>4. g[S] \in Nat /\ (S = {} => g[S] = 0)
  BY <1>2
<1>5. SumOver(S, f) \in Nat /\ (S = {} => SumOver(S, f) = 0)
  BY <1>1, <1>4
<1>6. \A x \in S : SumOver(S, f) = f[x] + SumOver(S \ {x}, f)
  BY <1>3
<1>7. QED
  BY <1>5, <1>6

-----------------------------------------------------------------------------
(* Powers of two *)

\* Induction, for the numbers up to n that are in a set.
LEMMA Induct ==
  ASSUME NEW n \in Nat, NEW I, 0 \in I, \A k \in 1..n : k - 1 \in I => k \in I
  PROVE  \A k \in 0..n : k \in I
<1> DEFINE T == {k \in 0..n : k \notin I}
<1> SUFFICES ASSUME T # {} PROVE FALSE
  OBVIOUS
<1>1. PICK k \in T : \A l \in T : k <= l
  <2>1. T \in SUBSET Nat
    OBVIOUS
  <2>2. QED
    BY <2>1, LeastElement, Zenon
<1>2. k # 0
  BY <1>1
<1>3. k - 1 \in 0..n /\ k \in 1..n /\ k - 1 \notin T
  BY <1>1, <1>2
<1>4. QED
  BY <1>1, <1>3

\* The limbs are wide enough for what follows.
LEMMA WidthIs == W \in Nat /\ W >= 11 /\ W % 2 = 1
  BY LimbAssumption

\* p are the first powers of two.
AreDoubled(p, N) ==
  /\ \A k \in 0..N : p[k] \in Nat \ {0}
  /\ p[0] = 1
  /\ \A k \in 1..N : p[k] = 2 * p[k - 1]

\* The recursion of the powers of two has that solution.
LEMMA Doubled ==
  ASSUME NEW N \in Nat,
         NEW p, p = CHOOSE v : v = [k \in 0..N |-> IF k = 0 THEN 1 ELSE 2 * v[k - 1]]
  PROVE  AreDoubled(p, N)
<1> DEFINE h == [k \in Nat |-> [x \in Nat \ {0} |-> 2 * x]]
           Defines(v) == v = [k \in 0..N |-> IF k = 0 THEN 1 ELSE 2 * v[k - 1]]
<1>1. \A k \in Nat : \A x \in Nat \ {0} : h[k][x] = 2 * x /\ h[k][x] \in Nat \ {0}
  OBVIOUS
<1> HIDE DEF h
<1>2. PICK f \in [0..N -> Nat \ {0}] : Iterates(f, 1, h, N)
  <2>1. \A k \in 1..N : \A x \in Nat \ {0} : h[k][x] \in Nat \ {0}
    BY <1>1
  <2>2. 1 \in Nat \ {0}
    OBVIOUS
  <2>3. QED
    BY <2>1, <2>2, IteratesExist, Zenon
<1>3. f[0] = 1 /\ \A k \in 1..N : f[k] = 2 * f[k - 1]
  <2>1. f[0] = 1 /\ \A k \in 1..N : f[k] = h[k][f[k - 1]]
    BY <1>2, Zenon DEF Iterates
  <2>2. \A k \in 1..N : k \in Nat /\ f[k - 1] \in Nat \ {0}
    BY <1>2
  <2>3. QED
    BY <1>1, <2>1, <2>2
<1>4. Defines([k \in 0..N |-> f[k]])
  BY <1>3
<1>5. Defines(p)
  <2> HIDE DEF Defines
  <2>1. p = CHOOSE v : Defines(v)
    BY Zenon DEF Defines
  <2>2. QED
    BY <1>4, <2>1, Zenon
<1>6. p[0] = 1 /\ \A k \in 1..N : p[k] = 2 * p[k - 1]
  <2>1. \A k \in 0..N : p[k] = IF k = 0 THEN 1 ELSE 2 * p[k - 1]
    BY <1>5, Zenon
  <2>2. QED
    BY <2>1
<1>7. GoAlike(p, f, N)
  BY <1>3, <1>6 DEF GoAlike
<1>8. \A k \in 0..N : p[k] = f[k]
  BY <1>7, Alike
<1>9. QED
  BY <1>2, <1>6, <1>8 DEF AreDoubled

\* Each power is twice the one before.
LEMMA Powers ==
  /\ \A k \in 0..W+13 : Pow2[k] \in Nat \ {0}
  /\ Pow2[0] = 1
  /\ \A k \in 1..W+13 : Pow2[k] = 2 * Pow2[k - 1]
<1> DEFINE N == W + 13
<1>1. N \in Nat
  BY WidthIs
<1>2. Pow2 = CHOOSE v : v = [k \in 0..N |-> IF k = 0 THEN 1 ELSE 2 * v[k - 1]]
  BY Zenon DEF Pow2
<1> HIDE DEF N, Pow2
<1>3. AreDoubled(Pow2, N)
  BY <1>1, <1>2, Doubled
<1>4. QED
  BY <1>3 DEF AreDoubled, N

\* The next power, for the places of a limb.
LEMMA NextPower ==
  ASSUME NEW k \in 0..W+12
  PROVE  /\ k \in 0..W+13 /\ k + 1 \in 0..W+13 /\ Pow2[k] \in Nat \ {0}
         /\ Pow2[k + 1] \in Nat \ {0} /\ Pow2[k + 1] = 2 * Pow2[k]
<1>1. W \in Nat
  BY WidthIs
<1>2. k \in 0..W+13 /\ k + 1 \in 1..W+13 /\ k + 1 \in 0..W+13 /\ (k + 1) - 1 = k
  BY <1>1
<1> HIDE DEF Pow2
<1>3. QED
  BY <1>2, Powers

\* A longer shift is no less.
LEMMA PowersRise ==
  ASSUME NEW n \in 0..W+13
  PROVE  \A k \in 0..n : Pow2[k] <= Pow2[n]
<1> DEFINE I == {m \in 0..n : \A k \in 0..m : Pow2[k] <= Pow2[m]}
<1>1. W \in Nat /\ n \in Nat
  BY WidthIs
<1> HIDE DEF Pow2
<1>2. 0 \in I
  BY <1>1, Powers
<1>3. ASSUME NEW m \in 1..n, m - 1 \in I
      PROVE  m \in I
  <2>1. m - 1 \in 0..W+12 /\ m \in 0..n
    BY <1>1
  <2>2. Pow2[m - 1] \in Nat \ {0} /\ Pow2[m] = 2 * Pow2[m - 1]
    <3>1. Pow2[(m - 1) + 1] = 2 * Pow2[m - 1] /\ Pow2[m - 1] \in Nat \ {0}
      BY <2>1, NextPower
    <3>2. (m - 1) + 1 = m
      BY <1>1
    <3>3. QED
      BY <3>1, <3>2
  <2>3. ASSUME NEW k \in 0..m
        PROVE  Pow2[k] <= Pow2[m]
    <3>1. CASE k = m
      BY <2>2, <3>1
    <3>2. CASE k # m
      <4>1. k \in 0..m-1 /\ k \in 0..W+13
        BY <1>1, <3>2
      <4>2. Pow2[k] <= Pow2[m - 1] /\ Pow2[k] \in Nat \ {0}
        BY <1>3, <4>1, Powers
      <4>3. QED
        BY <2>2, <4>2
    <3>3. QED
      BY <3>1, <3>2
  <2>4. QED
    BY <2>1, <2>3
<1> HIDE DEF I
<1>4. n \in I
  <2>1. \A k \in 0..n : k \in I
    BY <1>1, <1>2, <1>3, Induct
  <2>2. QED
    BY <1>1, <2>1
<1>5. QED
  BY <1>4 DEF I

\* The first powers.
LEMMA SmallPowers ==
  Pow2[0] = 1 /\ Pow2[1] = 2 /\ Pow2[2] = 4 /\ Pow2[3] = 8 /\ Pow2[4] = 16 /\ Pow2[5] = 32
<1>1. \A k \in 1..5 : Pow2[k] = 2 * Pow2[k - 1]
  BY Powers, WidthIs
<1>2. Pow2[0] = 1
  BY Powers
<1> HIDE DEF Pow2
<1>3. /\ Pow2[1] = 2 * Pow2[0] /\ Pow2[2] = 2 * Pow2[1] /\ Pow2[3] = 2 * Pow2[2]
      /\ Pow2[4] = 2 * Pow2[3] /\ Pow2[5] = 2 * Pow2[4]
  BY <1>1
<1>4. QED
  BY <1>2, <1>3

-----------------------------------------------------------------------------
(* Numbers and their bits *)

\* A quotient and a remainder that fit a number are those of the division.
LEMMA DivisionIs ==
  ASSUME NEW d \in Nat \ {0}, NEW x \in Int, NEW q \in Int, NEW r \in 0..d-1, x = q * d + r
  PROVE  x \div d = q /\ x % d = r
<1>1. PICK u \in Int, v \in Int : u = x \div d /\ v = x % d
  OBVIOUS
<1>2. v \in 0..d-1 /\ x = d * u + v
  BY <1>1
<1>3. ASSUME NEW a \in Int, NEW b \in Int, NEW c \in 0..d-1, NEW e \in 0..d-1, a < b
      PROVE  a * d + c < b * d + e
  <2>1. PICK k \in Nat : b = a + 1 + k
    <3>1. b - a - 1 \in Nat /\ b = a + 1 + (b - a - 1)
      BY <1>3
    <3>2. QED
      BY <3>1
  <2>2. b * d = a * d + d + k * d
    BY <2>1
  <2>3. k * d \in Nat /\ a * d \in Int
    OBVIOUS
  <2>4. QED
    BY <2>2, <2>3
<1>4. ~(q < u) /\ ~(u < q)
  BY <1>2, <1>3
<1>5. q = u
  BY <1>4
<1>6. QED
  BY <1>1, <1>2, <1>5

\* The number whose bits below m are those of S.
Lower(S, m) == SumOver(S \cap (0..m-1), Pow2)

\* Bit by bit.
LEMMA LowStep ==
  ASSUME NEW S \in SUBSET Nat
  PROVE  /\ Lower(S, 0) = 0
         /\ \A m \in 0..W+13 : Lower(S, m) \in Nat
         /\ \A m \in 0..W+12 : Lower(S, m + 1) = Lower(S, m) + (IF m \in S THEN Pow2[m] ELSE 0)
<1>1. W \in Nat
  BY WidthIs
<1>2. ASSUME NEW m \in 0..W+14
      PROVE  IsFiniteSet(S \cap (0..m-1)) /\ \A x \in S \cap (0..m-1) : Pow2[x] \in Nat
  <2>1. IsFiniteSet(0..m-1)
    BY <1>1, FS_Interval
  <2>2. IsFiniteSet(S \cap (0..m-1))
    BY <2>1, FS_Subset
  <2>3. \A x \in S \cap (0..m-1) : x \in 0..W+13
    BY <1>1
  <2> HIDE DEF Pow2
  <2>4. QED
    BY <2>2, <2>3, Powers
<1> HIDE DEF Pow2
<1>3. Lower(S, 0) = 0
  <2>1. S \cap (0..0-1) = {} /\ 0 \in 0..W+14
    BY <1>1
  <2>2. QED
    BY <1>2, <2>1, SumIs DEF Lower
<1>4. ASSUME NEW m \in 0..W+13 PROVE Lower(S, m) \in Nat
  <2>1. m \in 0..W+14
    BY <1>1
  <2>2. QED
    BY <1>2, <2>1, SumIs DEF Lower
<1>5. ASSUME NEW m \in 0..W+12
      PROVE  Lower(S, m + 1) = Lower(S, m) + (IF m \in S THEN Pow2[m] ELSE 0)
  <2> DEFINE A == S \cap (0..m-1)
             B == S \cap (0..(m+1)-1)
  <2>1. m + 1 \in 0..W+14 /\ m \in Nat /\ m \in 0..W+13
    BY <1>1
  <2>2. Lower(S, m) = SumOver(A, Pow2) /\ Lower(S, m + 1) = SumOver(B, Pow2)
    BY DEF Lower
  <2>3. IsFiniteSet(B) /\ \A x \in B : Pow2[x] \in Nat
    BY <1>2, <2>1
  <2>4. \A x \in S : x \in B <=> x \in A \/ x = m
    BY <2>1
  <2>5. m \notin A /\ A \subseteq S /\ B \subseteq S
    BY <2>1
  <2>6. SumOver(A, Pow2) \in Nat
    BY <1>4, <2>1, <2>2
  <2> HIDE DEF A, B
  <2>7. CASE m \in S
    <3>1. m \in B /\ B \ {m} = A
      BY <2>4, <2>5, <2>7
    <3>2. SumOver(B, Pow2) = Pow2[m] + SumOver(B \ {m}, Pow2)
      BY <2>3, <3>1, SumIs
    <3>3. Pow2[m] \in Nat
      BY <2>3, <3>1
    <3>4. QED
      BY <2>2, <2>6, <2>7, <3>1, <3>2, <3>3
  <2>8. CASE m \notin S
    <3>1. B = A
      BY <2>4, <2>5, <2>8
    <3>2. QED
      BY <2>2, <2>6, <2>8, <3>1
  <2>9. QED
    BY <2>7, <2>8
<1>6. QED
  BY <1>3, <1>4, <1>5

\* It is below the next power, and what it and the bits that are not in S count
\* for is all that m bits count for.
LEMMA LowBound ==
  ASSUME NEW S \in SUBSET Nat, NEW n \in 0..W+13
  PROVE  Lower(S, n) \in Nat /\ Lower(S, n) < Pow2[n] /\ Lower(S, n) + Lower(Nat \ S, n) = Pow2[n] - 1
<1> DEFINE D == Nat \ S
           I == {m \in 0..n : Lower(S, m) + Lower(D, m) = Pow2[m] - 1}
<1>1. W \in Nat /\ n \in Nat /\ D \in SUBSET Nat
  BY WidthIs
<1>2. \A m \in Nat : m \in D <=> m \notin S
  OBVIOUS
<1> HIDE DEF Pow2, D
<1>3. 0 \in I
  <2>1. Lower(S, 0) = 0 /\ Lower(D, 0) = 0 /\ Pow2[0] = 1
    BY <1>1, LowStep, Powers
  <2>2. QED
    BY <1>1, <2>1
<1>4. ASSUME NEW m \in 1..n, m - 1 \in I
      PROVE  m \in I
  <2> DEFINE l == m - 1
  <2>1. l \in 0..W+12 /\ l \in Nat /\ m = l + 1 /\ l \in 0..W+13
    BY <1>1
  <2>2. Lower(S, l) + Lower(D, l) = Pow2[l] - 1
    BY <1>4
  <2>3. Pow2[l] \in Nat \ {0} /\ Pow2[l + 1] = 2 * Pow2[l]
    BY <2>1, NextPower
  <2> HIDE DEF l
  <2>4. /\ Lower(S, l) \in Nat /\ Lower(D, l) \in Nat
        /\ Lower(S, l + 1) = Lower(S, l) + (IF l \in S THEN Pow2[l] ELSE 0)
        /\ Lower(D, l + 1) = Lower(D, l) + (IF l \in D THEN Pow2[l] ELSE 0)
    BY <1>1, <2>1, LowStep
  <2>5. Lower(S, l + 1) + Lower(D, l + 1) = Pow2[l + 1] - 1
    BY <1>2, <2>1, <2>2, <2>3, <2>4
  <2>6. QED
    BY <1>1, <2>1, <2>5
<1> HIDE DEF I
<1>5. n \in I
  <2>1. \A k \in 0..n : k \in I
    BY <1>1, <1>3, <1>4, Induct
  <2>2. QED
    BY <1>1, <2>1
<1>6. Lower(S, n) + Lower(D, n) = Pow2[n] - 1
  BY <1>5 DEF I
<1>7. Lower(S, n) \in Nat /\ Lower(D, n) \in Nat /\ Pow2[n] \in Nat \ {0}
  BY <1>1, LowStep, Powers
<1>8. QED
  BY <1>6, <1>7 DEF D

\* Below bit n, above it, and the bit.
LEMMA LowerSplits ==
  ASSUME NEW S \in SUBSET Nat, NEW n \in 0..W+13, NEW b \in 0..n-1
  PROVE  \E q \in Nat : Lower(S, n) = Lower(S, b) + (IF b \in S THEN Pow2[b] ELSE 0) + 2 * q * Pow2[b]
<1> DEFINE low == Lower(S, b) + (IF b \in S THEN Pow2[b] ELSE 0)
           N == n - (b + 1)
           I == {j \in 0..N : /\ \E q \in Nat : Lower(S, b + 1 + j) = low + 2 * q * Pow2[b]
                              /\ \E p \in Nat : Pow2[b + 1 + j] = 2 * p * Pow2[b]}
<1>1. W \in Nat /\ n \in Nat /\ b \in Nat /\ N \in Nat
  BY WidthIs
<1>2. b \in 0..W+12 /\ b \in 0..W+13
  BY <1>1
<1> HIDE DEF Pow2
<1>3. Pow2[b] \in Nat \ {0} /\ Pow2[b + 1] = 2 * Pow2[b]
  BY <1>2, NextPower
<1>4. Lower(S, b) \in Nat /\ Lower(S, b + 1) = low /\ low \in Nat
  BY <1>2, <1>3, LowStep
<1> HIDE DEF low
<1>5. 0 \in I
  <2>1. Lower(S, b + 1 + 0) = low + 2 * 0 * Pow2[b] /\ Pow2[b + 1 + 0] = 2 * 1 * Pow2[b]
    BY <1>1, <1>3, <1>4
  <2>2. QED
    BY <1>1, <2>1
<1>6. ASSUME NEW j \in 1..N, j - 1 \in I
      PROVE  j \in I
  <2> DEFINE m == b + 1 + (j - 1)
  <2>1. m \in 0..W+12 /\ b + 1 + j = m + 1 /\ j \in 0..N
    BY <1>1
  <2>2. PICK q \in Nat, p \in Nat : Lower(S, m) = low + 2 * q * Pow2[b] /\ Pow2[m] = 2 * p * Pow2[b]
    BY <1>6
  <2> HIDE DEF m
  <2>3. /\ Lower(S, m + 1) = Lower(S, m) + (IF m \in S THEN Pow2[m] ELSE 0)
        /\ Pow2[m + 1] = 2 * Pow2[m] /\ Pow2[m] \in Nat
    BY <2>1, LowStep, NextPower
  <2>4. \E e \in Nat : Lower(S, m + 1) = low + 2 * e * Pow2[b]
    <3>1. CASE m \in S
      <4>1. Lower(S, m + 1) = low + 2 * (q + p) * Pow2[b] /\ q + p \in Nat
        BY <1>3, <1>4, <2>2, <2>3, <3>1
      <4>2. QED
        BY <4>1
    <3>2. CASE m \notin S
      <4>1. Lower(S, m + 1) = low + 2 * q * Pow2[b]
        BY <1>3, <1>4, <2>2, <2>3, <3>2
      <4>2. QED
        BY <4>1
    <3>3. QED
      BY <3>1, <3>2
  <2>5. \E e \in Nat : Pow2[m + 1] = 2 * e * Pow2[b]
    <3>1. Pow2[m + 1] = 2 * (2 * p) * Pow2[b] /\ 2 * p \in Nat
      BY <1>3, <2>2, <2>3
    <3>2. QED
      BY <3>1
  <2>6. QED
    BY <2>1, <2>4, <2>5
<1>7. N \in I
  <2> HIDE DEF I, N
  <2>1. \A k \in 0..N : k \in I
    BY <1>1, <1>5, <1>6, Induct
  <2>2. QED
    BY <1>1, <2>1
<1>8. b + 1 + N = n
  BY <1>1
<1>9. QED
  BY <1>7, <1>8 DEF low

\* A sum of different powers has their bits.
LEMMA BitsOfSum ==
  ASSUME NEW n \in 0..W+13, NEW S \in SUBSET (0..n-1)
  PROVE  /\ SumOver(S, Pow2) = Lower(S, n)
         /\ SumOver(S, Pow2) \in Nat /\ SumOver(S, Pow2) < Pow2[n]
         /\ \A b \in 0..n-1 : (SumOver(S, Pow2) \div Pow2[b]) % 2 = 1 <=> b \in S
<1>1. W \in Nat /\ n \in Nat
  BY WidthIs
<1>2. S \cap (0..n-1) = S /\ S \in SUBSET Nat
  <2>1. \A x \in S : x \in 0..n-1 /\ x \in Nat
    BY <1>1
  <2>2. QED
    BY <2>1
<1> HIDE DEF Pow2
<1>3. SumOver(S, Pow2) = Lower(S, n)
  BY <1>2 DEF Lower
<1>4. Lower(S, n) \in Nat /\ Lower(S, n) < Pow2[n]
  BY <1>2, LowBound
<1>5. ASSUME NEW b \in 0..n-1
      PROVE  (Lower(S, n) \div Pow2[b]) % 2 = 1 <=> b \in S
  <2> DEFINE e == IF b \in S THEN 1 ELSE 0
             x == Lower(S, n)
             r == Lower(S, b)
             d == Pow2[b]
  <2>1. b \in 0..W+13
    BY <1>1
  <2>2. d \in Nat \ {0} /\ x \in Nat /\ r \in 0..d-1
    <3>1. r \in Nat /\ r < d
      BY <1>2, <2>1, LowBound
    <3>2. d \in Nat \ {0}
      BY <2>1, Powers
    <3> HIDE DEF r, d
    <3>3. QED
      BY <1>4, <3>1, <3>2
  <2>3. PICK q \in Nat : x = r + (IF b \in S THEN d ELSE 0) + 2 * q * d
    BY <1>2, LowerSplits
  <2> HIDE DEF x, r, d
  <2>4. e \in 0..1 /\ (e = 1 <=> b \in S) /\ x = (e + 2 * q) * d + r
    BY <2>2, <2>3
  <2> HIDE DEF e
  <2> DEFINE u == e + 2 * q
  <2>5. u \in Int /\ u % 2 = e /\ x = u * d + r
    BY <2>4
  <2> HIDE DEF u
  <2>6. x \div d = u
    BY <2>2, <2>5, DivisionIs
  <2>7. QED
    BY <2>4, <2>5, <2>6 DEF x, d
<1>6. QED
  BY <1>3, <1>4, <1>5

\* All n bits are one only in the greatest number of n bits.
LEMMA FullSum ==
  ASSUME NEW n \in 0..W+13, NEW S \in SUBSET (0..n-1), SumOver(S, Pow2) = Pow2[n] - 1
  PROVE  S = 0..n-1
<1>1. W \in Nat /\ n \in Nat /\ S \in SUBSET Nat
  BY WidthIs
<1> HIDE DEF Pow2
<1>2. Lower(S, n) = Pow2[n] - 1 /\ Pow2[n] \in Nat
  BY BitsOfSum, Powers
<1>3. Lower(Nat \ S, n) = 0
  <2>1. Lower(S, n) + Lower(Nat \ S, n) = Pow2[n] - 1
    BY <1>1, LowBound
  <2>2. Lower(Nat \ S, n) \in Nat
    BY LowStep
  <2>3. QED
    BY <1>2, <2>1, <2>2
<1>4. ASSUME NEW b \in 0..n-1, b \notin S PROVE FALSE
  <2> DEFINE D == Nat \ S
  <2>1. b \in D /\ D \in SUBSET Nat /\ b \in 0..W+13
    BY <1>1, <1>4
  <2> HIDE DEF D
  <2>2. PICK q \in Nat : Lower(D, n) = Lower(D, b) + Pow2[b] + 2 * q * Pow2[b]
    BY <2>1, LowerSplits
  <2>3. Lower(D, b) \in Nat /\ Pow2[b] \in Nat \ {0}
    BY <2>1, LowStep, Powers
  <2>4. 2 * q * Pow2[b] \in Nat
    BY <2>3
  <2>5. QED
    BY <1>3, <2>2, <2>3, <2>4 DEF D
<1>5. QED
  BY <1>4

\* A number of n bits that is at least the greatest one less 18 has all but its
\* lowest five bits, and these count for 13 or more.
LEMMA NearlyFullSum ==
  ASSUME NEW n \in 5..W+13, NEW S \in SUBSET (0..n-1), SumOver(S, Pow2) >= Pow2[n] - 19
  PROVE  5..n-1 \subseteq S /\ SumOver(S \cap (0..4), Pow2) >= 13
<1> DEFINE D == Nat \ S
<1>1. W \in Nat /\ n \in Nat /\ S \in SUBSET Nat /\ n \in 0..W+13 /\ 5 \in 0..W+13
  BY WidthIs
<1>2. D \in SUBSET Nat
  OBVIOUS
<1> HIDE DEF Pow2
<1>3. Lower(D, n) \in Nat /\ Lower(D, n) <= 18
  <2>1. Lower(S, n) = SumOver(S, Pow2) /\ Lower(S, n) \in Nat /\ Pow2[n] \in Nat
    BY <1>1, BitsOfSum, Powers
  <2>2. Lower(S, n) + Lower(D, n) = Pow2[n] - 1
    BY <1>1, LowBound
  <2>3. Lower(D, n) \in Nat
    BY <1>1, <1>2, LowStep
  <2> HIDE DEF D
  <2>4. QED
    BY <2>1, <2>2, <2>3
<1>4. Pow2[5] = 32 /\ Pow2[4] = 16
  BY SmallPowers
<1>5. ASSUME NEW b \in 5..n-1, b \notin S PROVE FALSE
  <2>1. b \in D /\ b \in 0..n-1 /\ b \in 0..W+13 /\ 5 \in 0..b
    BY <1>1, <1>5
  <2> HIDE DEF D
  <2>2. PICK q \in Nat : Lower(D, n) = Lower(D, b) + Pow2[b] + 2 * q * Pow2[b]
    BY <1>1, <1>2, <2>1, LowerSplits
  <2>3. Lower(D, b) \in Nat /\ Pow2[b] \in Nat \ {0}
    BY <1>2, <2>1, LowStep, Powers
  <2>4. 2 * q * Pow2[b] \in Nat
    BY <2>3
  <2>5. 32 <= Pow2[b]
    BY <1>4, <2>1, PowersRise
  <2>6. QED
    BY <1>3, <2>2, <2>3, <2>4, <2>5
<1>6. Lower(D, 5) <= 18 /\ Lower(D, 5) \in Nat
  <2> HIDE DEF D
  <2>1. CASE n = 5
    BY <1>3, <2>1
  <2>2. CASE n # 5
    <3>1. 5 \in 0..n-1
      BY <1>1, <2>2
    <3>2. PICK q \in Nat : Lower(D, n) = Lower(D, 5) + (IF 5 \in D THEN 32 ELSE 0) + 2 * q * 32
      BY <1>1, <1>2, <1>4, <3>1, LowerSplits
    <3>3. Lower(D, 5) \in Nat
      BY <1>1, <1>2, LowStep
    <3>4. QED
      BY <1>3, <3>2, <3>3
  <2>3. QED
    BY <2>1, <2>2
<1>7. SumOver(S \cap (0..4), Pow2) >= 13
  <2>1. Lower(S, 5) + Lower(D, 5) = 31 /\ Lower(S, 5) \in Nat
    BY <1>1, <1>4, LowBound
  <2> HIDE DEF D
  <2>2. Lower(S, 5) >= 13
    BY <1>6, <2>1
  <2>3. Lower(S, 5) = SumOver(S \cap (0..4), Pow2)
    BY DEF Lower
  <2>4. QED
    BY <2>2, <2>3
<1>8. QED
  BY <1>5, <1>7

-----------------------------------------------------------------------------
(* Carries *)

\* The widths of n limbs.
AreWidths(w, n) == n \in Nat \ {0} /\ w \in [0..n-1 -> 0..W+13]

\* c are the carries of t.
AreCarries(c, t, w, n) ==
  /\ c[0] = 0
  /\ \A i \in 0..n : c[i] \in Int
  /\ \A i \in 1..n : c[i] = (t[i-1] + c[i-1]) \div Pow2[w[i-1]]

\* What is carried into limb i + 1 is what limb i and the carry into it leave over.
LEMMA CarriesAre ==
  ASSUME NEW n, NEW w, AreWidths(w, n), NEW t \in [0..n-1 -> Int]
  PROVE  Cardinality(DOMAIN t) = n /\ AreCarries(Carries(t, w), t, w, n)
<1> DEFINE C == Carries(t, w)
           h == [k \in Nat |-> [x \in Int |-> (t[k-1] + x) \div Pow2[w[k-1]]]]
           Defines(g) == g = [i \in 0..n |-> IF i = 0 THEN 0 ELSE (t[i-1] + g[i-1]) \div Pow2[w[i-1]]]
<1>1. n \in Nat /\ W \in Nat /\ 0 \in Int
  BY WidthIs DEF AreWidths
<1>2. Cardinality(DOMAIN t) = n
  <2>1. DOMAIN t = 0..n-1 /\ Cardinality(0..n-1) = n - 1 - 0 + 1
    BY <1>1, FS_Interval DEF AreWidths
  <2>2. QED
    BY <1>1, <2>1
<1> HIDE DEF Pow2
<1>3. ASSUME NEW k \in 1..n, NEW x \in Int
      PROVE  h[k][x] = (t[k-1] + x) \div Pow2[w[k-1]] /\ h[k][x] \in Int
  <2>1. k \in Nat /\ k - 1 \in 0..n-1
    BY <1>1
  <2>2. t[k-1] \in Int /\ w[k-1] \in 0..W+13
    BY <2>1 DEF AreWidths
  <2>3. Pow2[w[k-1]] \in Nat \ {0}
    BY <2>2, Powers
  <2>4. (t[k-1] + x) \div Pow2[w[k-1]] \in Int
    BY <2>2, <2>3
  <2>5. QED
    BY <2>1, <2>4
<1> HIDE DEF h
<1>4. PICK f \in [0..n -> Int] : Iterates(f, 0, h, n)
  BY <1>1, <1>3, IteratesExist
<1>5. f[0] = 0 /\ \A i \in 1..n : f[i] = (t[i-1] + f[i-1]) \div Pow2[w[i-1]]
  <2>1. f[0] = 0 /\ \A k \in 1..n : f[k] = h[k][f[k-1]]
    BY <1>4, Zenon DEF Iterates
  <2>2. \A k \in 1..n : f[k-1] \in Int
    BY <1>1
  <2>3. QED
    BY <1>3, <2>1, <2>2
<1>6. Defines([i \in 0..n |-> f[i]])
  BY <1>1, <1>5
<1>7. Defines(C)
  <2>1. C = CHOOSE g : Defines(g)
    BY <1>2, Zenon DEF Carries
  <2> HIDE DEF Defines, C
  <2>2. QED
    BY <1>6, <2>1, Zenon
<1> HIDE DEF C
<1>8. C[0] = 0 /\ \A i \in 1..n : C[i] = (t[i-1] + C[i-1]) \div Pow2[w[i-1]]
  BY <1>1, <1>7
<1>9. GoAlike(C, f, n)
  BY <1>5, <1>8 DEF GoAlike
<1>10. \A i \in 0..n : C[i] = f[i]
  BY <1>1, <1>9, Alike
<1>11. \A i \in 0..n : C[i] \in Int
  BY <1>10
<1>12. AreCarries(C, t, w, n)
  BY <1>8, <1>11 DEF AreCarries
<1>13. QED
  BY <1>2, <1>12 DEF C

\* g are the carries and e the limbs that are left.
Settles(t, w, n, g, e) ==
  /\ e \in [0..n-1 -> Nat]
  /\ g[0] = 0
  /\ \A i \in 0..n-1 : /\ g[i] \in Int /\ g[i+1] \in Int /\ e[i] < Pow2[w[i]]
                       /\ t[i] + g[i] = g[i+1] * Pow2[w[i]] + e[i]

\* Carries and limbs that add up are the carries and the limbs.
LEMMA RippleIs ==
  ASSUME NEW n, NEW w, AreWidths(w, n), NEW t \in [0..n-1 -> Int], NEW g, NEW e, Settles(t, w, n, g, e)
  PROVE  Ripple(t, w) = [limbs |-> e, out |-> g[n]] /\ \A i \in 0..n : Carries(t, w)[i] = g[i]
<1> DEFINE C == Carries(t, w)
<1>1. n \in Nat \ {0} /\ W \in Nat /\ DOMAIN t = 0..n-1
  BY WidthIs DEF AreWidths
<1> HIDE DEF Pow2
<1>2. /\ Cardinality(DOMAIN t) = n /\ C[0] = 0
      /\ \A i \in 1..n : C[i] = (t[i-1] + C[i-1]) \div Pow2[w[i-1]]
  <2>1. Cardinality(DOMAIN t) = n /\ AreCarries(C, t, w, n)
    BY CarriesAre
  <2>2. QED
    BY <2>1 DEF AreCarries
<1> HIDE DEF C
<1>3. ASSUME NEW i \in 0..n-1
      PROVE  (t[i] + g[i]) \div Pow2[w[i]] = g[i+1] /\ (t[i] + g[i]) % Pow2[w[i]] = e[i]
  <2> DEFINE d == Pow2[w[i]]
             x == t[i] + g[i]
             q == g[i+1]
             r == e[i]
  <2>1. w[i] \in 0..W+13
    BY DEF AreWidths
  <2>2. d \in Nat \ {0} /\ r \in 0..d-1 /\ x \in Int /\ q \in Int /\ x = q * d + r
    BY <2>1, Powers DEF Settles
  <2> HIDE DEF d, x, q, r
  <2>3. x \div d = q /\ x % d = r
    BY <2>2, DivisionIs
  <2>4. QED
    BY <2>3 DEF d, x, q, r
<1>4. GoAlike(C, g, n)
  <2>1. \A i \in 1..n : i - 1 \in 0..n-1 /\ (i - 1) + 1 = i
    BY <1>1
  <2>2. \A i \in 1..n : (t[i-1] + g[i-1]) \div Pow2[w[i-1]] = g[i]
    BY <1>3, <2>1
  <2>3. QED
    BY <1>2, <2>2 DEF GoAlike, Settles
<1>5. \A i \in 0..n : C[i] = g[i]
  BY <1>1, <1>4, Alike
<1>6. [i \in 0..n-1 |-> (t[i] + C[i]) % Pow2[w[i]]] = e
  <2>1. e = [i \in 0..n-1 |-> e[i]]
    BY DEF Settles
  <2>2. ASSUME NEW i \in 0..n-1 PROVE (t[i] + C[i]) % Pow2[w[i]] = e[i]
    <3>1. C[i] = g[i]
      BY <1>1, <1>5
    <3>2. QED
      BY <1>3, <3>1
  <2>3. QED
    BY <2>1, <2>2
<1>7. Ripple(t, w) = [limbs |-> [i \in DOMAIN t |-> (t[i] + C[i]) % Pow2[w[i]]],
                      out   |-> C[Cardinality(DOMAIN t)]]
  BY DEF Ripple, C
<1>8. n \in 0..n
  BY <1>1
<1>9. Ripple(t, w) = [limbs |-> e, out |-> g[n]]
  BY <1>1, <1>2, <1>5, <1>6, <1>7, <1>8
<1>10. QED
  BY <1>5, <1>9 DEF C

\* Every limb fits its width.
Fits(t, w, n) == t \in [0..n-1 -> Nat] /\ \A i \in 0..n-1 : t[i] < Pow2[w[i]]

\* Nothing is carried where every limb fits.
LEMMA RippleFits ==
  ASSUME NEW n, NEW w, AreWidths(w, n), NEW t, Fits(t, w, n)
  PROVE  Ripple(t, w) = [limbs |-> t, out |-> 0] /\ \A i \in 0..n : Carries(t, w)[i] = 0
<1> DEFINE g == [i \in 0..n |-> 0]
<1>1. n \in Nat \ {0} /\ t \in [0..n-1 -> Int] /\ W \in Nat
  BY WidthIs DEF AreWidths, Fits
<1> HIDE DEF Pow2
<1>2. Settles(t, w, n, g, t)
  <2>1. \A i \in 0..n-1 : g[i] = 0 /\ g[i+1] = 0 /\ w[i] \in 0..W+13
    BY <1>1 DEF AreWidths
  <2>2. \A i \in 0..n-1 : Pow2[w[i]] \in Nat \ {0}
    BY <2>1, Powers
  <2>3. g[0] = 0
    BY <1>1
  <2> HIDE DEF g
  <2>4. QED
    BY <2>1, <2>2, <2>3 DEF Settles, Fits
<1>3. \A i \in 0..n : g[i] = 0
  OBVIOUS
<1> HIDE DEF g
<1>4. Ripple(t, w) = [limbs |-> t, out |-> g[n]] /\ \A i \in 0..n : Carries(t, w)[i] = g[i]
  BY <1>1, <1>2, RippleIs
<1>5. n \in 0..n
  BY <1>1
<1>6. QED
  BY <1>3, <1>4, <1>5

\* A word holds what a limb does, and half a word what half of its width does.
LEMMA WordsHold ==
  ASSUME NEW x \in Nat, NEW k \in 0..W+13, x < Pow2[k]
  PROVE  Word(x) = x /\ (k <= (W + 13) \div 2 => Half(x) = x)
<1>1. W \in Nat
  BY WidthIs
<1>2. W + 13 \in 0..W+13 /\ (W + 13) \div 2 \in 0..W+13 /\ k \in 0..W+13
  BY <1>1
<1> HIDE DEF Pow2
<1>3. ASSUME NEW m \in 0..W+13, k <= m PROVE x % Pow2[m] = x
  <2>1. Pow2[m] \in Nat \ {0} /\ Pow2[k] <= Pow2[m] /\ Pow2[k] \in Nat
    <3>1. k \in 0..m
      BY <1>3
    <3>2. QED
      BY <3>1, Powers, PowersRise
  <2>2. x \in 0..Pow2[m]-1 /\ x = 0 * Pow2[m] + x
    BY <2>1
  <2>3. QED
    BY <2>1, <2>2, DivisionIs
<1>4. QED
  BY <1>1, <1>2, <1>3 DEF Word, Half

\* Nothing is folded either, and limbs that fit stay as they are.
LEMMA ReducedFits ==
  ASSUME NEW n, NEW w, AreWidths(w, n), NEW t, Fits(t, w, n), NEW m \in Nat
  PROVE  Folded(t, w) = t /\ Reduced(t, w, m) = t
<1>1. n \in Nat \ {0} /\ t \in [0..n-1 -> Nat] /\ W \in Nat /\ 0 \in 0..n-1 /\ DOMAIN t = 0..n-1
  BY WidthIs DEF AreWidths, Fits
<1> HIDE DEF Pow2
<1>2. Ripple(t, w) = [limbs |-> t, out |-> 0] /\ \A i \in 0..n : Carries(t, w)[i] = 0
  BY RippleFits
<1>3. Word(t[0] + Word(19 * 0)) = t[0]
  <2>1. w[0] \in 0..W+13 /\ t[0] \in Nat /\ t[0] < Pow2[w[0]]
    BY <1>1 DEF AreWidths, Fits
  <2>2. Word(19 * 0) = 0
    <3>1. 0 \in 0..W+13 /\ 0 < Pow2[0] /\ 19 * 0 = 0
      BY <1>1, Powers
    <3>2. QED
      BY <3>1, WordsHold
  <2>3. t[0] + 0 = t[0]
    BY <2>1
  <2>4. QED
    BY <2>1, <2>2, <2>3, WordsHold
<1>4. Folded(t, w) = t
  <2>1. Folded(t, w) = [t EXCEPT ![0] = Word(t[0] + Word(19 * 0))]
    BY <1>2 DEF Folded
  <2>2. QED
    BY <1>1, <1>3, <2>1
<1>5. Reduced(t, w, m) = [i \in 0..n-1 |-> IF i < m THEN (t[i] + Carries(t, w)[i]) % Pow2[w[i]]
                                           ELSE IF i = m THEN t[i] + Carries(t, w)[i] ELSE t[i]]
  BY <1>1, <1>4 DEF Reduced
<1>6. ASSUME NEW i \in 0..n-1
      PROVE  Carries(t, w)[i] = 0 /\ t[i] + 0 = t[i] /\ (t[i] + 0) % Pow2[w[i]] = t[i]
  <2>1. t[i] \in Nat /\ t[i] < Pow2[w[i]] /\ w[i] \in 0..W+13 /\ i \in 0..n
    BY <1>1 DEF Fits, AreWidths
  <2>2. Pow2[w[i]] \in Nat \ {0}
    BY <2>1, Powers
  <2> DEFINE d == Pow2[w[i]]
             x == t[i]
  <2>3. x \in 0..d-1 /\ d \in Nat \ {0} /\ x \in Nat
    BY <2>1, <2>2
  <2> HIDE DEF x, d
  <2>4. x % d = x /\ x + 0 = x
    <3>1. x = 0 * d + x /\ 0 \in Int /\ x \in Int
      BY <2>3
    <3>2. QED
      BY <2>3, <3>1, DivisionIs
  <2>5. QED
    BY <1>2, <2>1, <2>4 DEF x, d
<1>7. Reduced(t, w, m) = [i \in 0..n-1 |-> t[i]]
  BY <1>5, <1>6
<1>8. QED
  BY <1>1, <1>4, <1>7

-----------------------------------------------------------------------------
(* The three forms *)

\* A limb begins where the one before it ends.
LEMMA OffsetStep ==
  ASSUME NEW n, NEW w, AreWidths(w, n)
  PROVE  /\ Offset(w, 0) = 0
         /\ \A i \in 0..n : Offset(w, i) \in Nat
         /\ \A i \in 0..n-1 : Offset(w, i + 1) = Offset(w, i) + w[i]
<1>1. n \in Nat \ {0} /\ W \in Nat
  BY WidthIs DEF AreWidths
<1>2. ASSUME NEW i \in 0..n
      PROVE  IsFiniteSet(0..i-1) /\ \A x \in 0..i-1 : w[x] \in Nat
  <2>1. IsFiniteSet(0..i-1)
    BY <1>1, FS_Interval
  <2>2. \A x \in 0..i-1 : x \in 0..n-1
    BY <1>1
  <2>3. \A x \in 0..n-1 : w[x] \in Nat
    BY <1>1 DEF AreWidths
  <2>4. QED
    BY <2>1, <2>2, <2>3
<1>3. Offset(w, 0) = 0
  <2>1. 0..0-1 = {} /\ 0 \in 0..n
    BY <1>1
  <2>2. QED
    BY <1>2, <2>1, SumIs DEF Offset
<1>4. ASSUME NEW i \in 0..n PROVE Offset(w, i) \in Nat
  BY <1>2, SumIs DEF Offset
<1>5. ASSUME NEW i \in 0..n-1 PROVE Offset(w, i + 1) = Offset(w, i) + w[i]
  <2> DEFINE A == 0..i-1
             B == 0..(i+1)-1
  <2>1. i + 1 \in 0..n /\ i \in B /\ B \ {i} = A /\ i \in 0..n
    BY <1>1
  <2>2. Offset(w, i) = SumOver(A, w) /\ Offset(w, i + 1) = SumOver(B, w)
    BY DEF Offset
  <2>3. IsFiniteSet(B) /\ \A x \in B : w[x] \in Nat
    BY <1>2, <2>1
  <2>4. Offset(w, i) \in Nat /\ w[i] \in Nat
    BY <1>4, <2>1, <2>3
  <2> HIDE DEF A, B
  <2>5. SumOver(B, w) = w[i] + SumOver(A, w)
    BY <2>1, <2>3, SumIs
  <2>6. Offset(w, i + 1) = w[i] + Offset(w, i)
    BY <2>2, <2>5, Zenon
  <2>7. QED
    BY <2>4, <2>6
<1>6. QED
  BY <1>3, <1>4, <1>5

\* How many limbs there are.
Count == [fe51 |-> 5, fe4 |-> 10, fed32 |-> 8]

\* How many bits of each limb a number below 2^(5W) has.
Used == [fe51  |-> Widths.fe51,
         fe4   |-> Widths.fe4,
         fed32 |-> [i \in 0..7 |-> IF i = 7 THEN Widths.fed32[7] - 1 ELSE Widths.fed32[i]]]

\* n limbs of w bits cover a number below 2^(5W), of which they have u.
Covers(w, u, n) ==
  /\ AreWidths(w, n) /\ n \in 5..10
  /\ u \in [0..n-1 -> Nat]
  /\ Offset(w, 0) = 0
  /\ \A i \in 0..n-1 : /\ Offset(w, i) \in Nat
                       /\ 5 <= u[i] /\ u[i] <= w[i] /\ w[i] <= W
                       /\ Offset(w, i) + u[i] <= 5 * W
                       /\ u[i] # w[i] => w[i] = u[i] + 1 /\ Offset(w, i) + u[i] = 5 * W
  /\ \A m \in 0..5*W-1 : \E i \in 0..n-1 : Offset(w, i) <= m /\ m < Offset(w, i) + u[i]

\* Five limbs of W bits.
LEMMA Covers51 == Covers(Widths.fe51, Used.fe51, 5)
<1> DEFINE w == Widths.fe51
<1>1. W \in Nat /\ W >= 11
  BY WidthIs
<1>2. w = [i \in 0..4 |-> W] /\ Used.fe51 = w
  BY DEF Widths, Used
<1> HIDE DEF w
<1>3. AreWidths(w, 5) /\ \A i \in 0..4 : w[i] = W
  BY <1>1, <1>2 DEF AreWidths
<1>4. Offset(w, 0) = 0 /\ \A i \in 0..4 : Offset(w, i + 1) = Offset(w, i) + w[i]
  BY <1>3, OffsetStep
<1>5. /\ Offset(w, 0) = 0 /\ Offset(w, 1) = W /\ Offset(w, 2) = 2 * W /\ Offset(w, 3) = 3 * W
      /\ Offset(w, 4) = 4 * W
  <2>1. /\ Offset(w, 0 + 1) = Offset(w, 0) + W /\ Offset(w, 1 + 1) = Offset(w, 1) + W
        /\ Offset(w, 2 + 1) = Offset(w, 2) + W /\ Offset(w, 3 + 1) = Offset(w, 3) + W
    BY <1>3, <1>4
  <2>2. QED
    BY <1>1, <1>4, <2>1
<1>6. \A i \in 0..4 : Offset(w, i) \in Nat /\ Offset(w, i) + W <= 5 * W
  BY <1>1, <1>5
<1>7. \A m \in 0..5*W-1 : \E i \in 0..4 : Offset(w, i) <= m /\ m < Offset(w, i) + W
  <2>1. ASSUME NEW m \in 0..5*W-1
        PROVE  \E i \in 0..4 : Offset(w, i) <= m /\ m < Offset(w, i) + W
    <3>1. m \in Nat /\ m < 5 * W
      BY <1>1
    <3>2. m < W \/ (W <= m /\ m < 2 * W) \/ (2 * W <= m /\ m < 3 * W)
          \/ (3 * W <= m /\ m < 4 * W) \/ 4 * W <= m
      BY <1>1, <3>1
    <3>3. QED
      BY <1>1, <1>5, <3>1, <3>2
  <2>2. QED
    BY <2>1
<1>8. w \in [0..4 -> Nat]
  BY <1>1, <1>2
<1>9. Covers(w, w, 5)
  BY <1>1, <1>3, <1>5, <1>6, <1>7, <1>8 DEF Covers
<1>10. QED
  BY <1>2, <1>9 DEF w

\* Ten limbs of half as many bits, rounded up and down in turn.
LEMMA Covers4 == Covers(Widths.fe4, Used.fe4, 10)
<1> DEFINE w == Widths.fe4
           l == W \div 2
<1>1. W \in Nat /\ W >= 11 /\ l \in Nat /\ l >= 5 /\ W = 2 * l + 1 /\ (W + 1) \div 2 = l + 1
  BY WidthIs
<1>2. w = [i \in 0..9 |-> IF i % 2 = 0 THEN l + 1 ELSE l] /\ Used.fe4 = w
  BY <1>1 DEF Widths, Used
<1> HIDE DEF w, l
<1>3. /\ AreWidths(w, 10)
      /\ w[0] = l + 1 /\ w[1] = l /\ w[2] = l + 1 /\ w[3] = l /\ w[4] = l + 1
      /\ w[5] = l /\ w[6] = l + 1 /\ w[7] = l /\ w[8] = l + 1 /\ w[9] = l
  <2>1. l + 1 \in 0..W+13 /\ l \in 0..W+13
    BY <1>1
  <2>2. AreWidths(w, 10)
    BY <1>2, <2>1 DEF AreWidths
  <2>3. QED
    BY <1>2, <2>2
<1>4. Offset(w, 0) = 0 /\ \A i \in 0..9 : Offset(w, i + 1) = Offset(w, i) + w[i]
  BY <1>3, OffsetStep
<1>5. /\ Offset(w, 0) = 0 /\ Offset(w, 1) = l + 1
      /\ Offset(w, 2) = 2 * l + 1 /\ Offset(w, 3) = 3 * l + 2
      /\ Offset(w, 4) = 4 * l + 2 /\ Offset(w, 5) = 5 * l + 3
      /\ Offset(w, 6) = 6 * l + 3 /\ Offset(w, 7) = 7 * l + 4
      /\ Offset(w, 8) = 8 * l + 4 /\ Offset(w, 9) = 9 * l + 5
  <2>1. /\ Offset(w, 0 + 1) = Offset(w, 0) + w[0] /\ Offset(w, 1 + 1) = Offset(w, 1) + w[1]
        /\ Offset(w, 2 + 1) = Offset(w, 2) + w[2] /\ Offset(w, 3 + 1) = Offset(w, 3) + w[3]
        /\ Offset(w, 4 + 1) = Offset(w, 4) + w[4] /\ Offset(w, 5 + 1) = Offset(w, 5) + w[5]
        /\ Offset(w, 6 + 1) = Offset(w, 6) + w[6] /\ Offset(w, 7 + 1) = Offset(w, 7) + w[7]
        /\ Offset(w, 8 + 1) = Offset(w, 8) + w[8]
    BY <1>4
  <2>2. QED
    BY <1>1, <1>3, <1>4, <2>1
<1>6. \A i \in 0..9 : /\ Offset(w, i) \in Nat /\ Offset(w, i) + w[i] <= 5 * W
                      /\ 5 <= w[i] /\ w[i] <= W /\ w[i] \in Nat
  BY <1>1, <1>3, <1>5
<1>7. \A m \in 0..5*W-1 : \E i \in 0..9 : Offset(w, i) <= m /\ m < Offset(w, i) + w[i]
  <2>1. ASSUME NEW m \in 0..5*W-1
        PROVE  \E i \in 0..9 : Offset(w, i) <= m /\ m < Offset(w, i) + w[i]
    <3>1. m \in Nat /\ m < 10 * l + 5
      BY <1>1
    <3>2. m < 5 * l + 3 \/ 5 * l + 3 <= m
      BY <1>1, <3>1
    <3>3. CASE m < 5 * l + 3
      BY <1>1, <1>3, <1>5, <3>1, <3>3
    <3>4. CASE 5 * l + 3 <= m
      BY <1>1, <1>3, <1>5, <3>1, <3>4
    <3>5. QED
      BY <3>2, <3>3, <3>4
  <2>2. QED
    BY <2>1
<1>8. w \in [0..9 -> Nat]
  BY <1>1, <1>2
<1>9. Covers(w, w, 10)
  BY <1>3, <1>5, <1>6, <1>7, <1>8 DEF Covers
<1>10. QED
  BY <1>2, <1>9 DEF w

\* Eight words, the highest bit of which is not one of the number's.
LEMMA Covers32 == Covers(Widths.fed32, Used.fed32, 8)
<1> DEFINE w == Widths.fed32
           u == Used.fed32
           l == (5 * W + 1) \div 8
<1>1. W \in Nat /\ W >= 11 /\ l \in Nat /\ l >= 7 /\ 8 * l = 5 * W + 1 /\ l <= W
  BY LimbAssumption, WidthIs
<1>2. w = [i \in 0..7 |-> l] /\ u = [i \in 0..7 |-> IF i = 7 THEN w[7] - 1 ELSE w[i]]
  BY DEF Widths, Used
<1> HIDE DEF w, u, l
<1>3. AreWidths(w, 8) /\ \A i \in 0..7 : w[i] = l
  BY <1>1, <1>2 DEF AreWidths
<1>4. Offset(w, 0) = 0 /\ \A i \in 0..7 : Offset(w, i + 1) = Offset(w, i) + w[i]
  BY <1>3, OffsetStep
<1>5. /\ Offset(w, 0) = 0 /\ Offset(w, 1) = l /\ Offset(w, 2) = 2 * l /\ Offset(w, 3) = 3 * l
      /\ Offset(w, 4) = 4 * l /\ Offset(w, 5) = 5 * l /\ Offset(w, 6) = 6 * l /\ Offset(w, 7) = 7 * l
  <2>1. /\ Offset(w, 0 + 1) = Offset(w, 0) + l /\ Offset(w, 1 + 1) = Offset(w, 1) + l
        /\ Offset(w, 2 + 1) = Offset(w, 2) + l /\ Offset(w, 3 + 1) = Offset(w, 3) + l
        /\ Offset(w, 4 + 1) = Offset(w, 4) + l /\ Offset(w, 5 + 1) = Offset(w, 5) + l
        /\ Offset(w, 6 + 1) = Offset(w, 6) + l
    BY <1>3, <1>4
  <2>2. QED
    BY <1>1, <1>4, <2>1
<1>6. (\A i \in 0..6 : u[i] = l) /\ u[7] = l - 1 /\ u \in [0..7 -> Nat]
  <2>1. w[7] = l
    BY <1>3
  <2>2. u = [i \in 0..7 |-> IF i = 7 THEN l - 1 ELSE l]
    BY <1>2, <1>3, <2>1
  <2>3. l - 1 \in Nat
    BY <1>1
  <2>4. QED
    BY <1>1, <2>2, <2>3
<1>7. ASSUME NEW i \in 0..7
      PROVE  /\ Offset(w, i) \in Nat
             /\ 5 <= u[i] /\ u[i] <= w[i] /\ w[i] <= W
             /\ Offset(w, i) + u[i] <= 5 * W
             /\ u[i] # w[i] => w[i] = u[i] + 1 /\ Offset(w, i) + u[i] = 5 * W
  <2>1. CASE i = 7
    BY <1>1, <1>3, <1>5, <1>6, <2>1
  <2>2. CASE i # 7
    <3>1. i \in 0..6
      BY <2>2
    <3>2. u[i] = l /\ w[i] = l
      BY <1>3, <1>6, <3>1
    <3>3. Offset(w, i) \in Nat /\ Offset(w, i) <= 6 * l
      BY <1>1, <1>5, <3>1
    <3>4. QED
      BY <1>1, <3>2, <3>3
  <2>3. QED
    BY <2>1, <2>2
<1>8. \A m \in 0..5*W-1 : \E i \in 0..7 : Offset(w, i) <= m /\ m < Offset(w, i) + u[i]
  <2>1. ASSUME NEW m \in 0..5*W-1
        PROVE  \E i \in 0..7 : Offset(w, i) <= m /\ m < Offset(w, i) + u[i]
    <3>1. m \in Nat /\ m < 8 * l - 1
      BY <1>1
    <3>2. m < 4 * l \/ 4 * l <= m
      BY <1>1, <3>1
    <3>3. /\ u[0] = l /\ u[1] = l /\ u[2] = l /\ u[3] = l /\ u[4] = l /\ u[5] = l /\ u[6] = l
          /\ u[7] = l - 1
      BY <1>6
    <3>4. CASE m < 4 * l
      BY <1>1, <1>5, <3>1, <3>3, <3>4
    <3>5. CASE 4 * l <= m
      BY <1>1, <1>5, <3>1, <3>3, <3>5
    <3>6. QED
      BY <3>2, <3>4, <3>5
  <2>2. QED
    BY <2>1
<1>9. Covers(w, u, 8)
  BY <1>3, <1>5, <1>6, <1>7, <1>8 DEF Covers
<1>10. QED
  BY <1>9 DEF w, u

\* The limbs of each form cover the field.
LEMMA FormCovers ==
  ASSUME NEW f \in Forms
  PROVE  Covers(Widths[f], Used[f], Count[f])
<1>1. Count.fe51 = 5 /\ Count.fe4 = 10 /\ Count.fed32 = 8
  BY DEF Count
<1>2. QED
  BY <1>1, Covers51, Covers4, Covers32 DEF Forms

-----------------------------------------------------------------------------
(* Loads and stores *)

\* The bits of Y that lie in limb i.
BitsIn(w, u, Y, i) == {b \in 0..u[i]-1 : Offset(w, i) + b \in Y}

\* t are the limbs of the number with the bits Y.
AreLimbs(t, w, u, n, Y) ==
  t \in [0..n-1 -> Nat] /\ \A i \in 0..n-1 : t[i] = SumOver(BitsIn(w, u, Y, i), Pow2)

\* One limb: it has no more bits than the number has there, and they are its bits.
LEMMA LimbIs ==
  ASSUME NEW n, NEW w, NEW u, Covers(w, u, n), NEW Y, NEW i \in 0..n-1
  PROVE  /\ u[i] \in 0..W+13 /\ w[i] \in 0..W+13
         /\ BitsIn(w, u, Y, i) \in SUBSET (0..u[i]-1)
         /\ BitsIn(w, u, Y, i) \in SUBSET (0..w[i]-1)
         /\ SumOver(BitsIn(w, u, Y, i), Pow2) \in Nat
         /\ SumOver(BitsIn(w, u, Y, i), Pow2) < Pow2[u[i]]
         /\ SumOver(BitsIn(w, u, Y, i), Pow2) < Pow2[w[i]]
<1>1. W \in Nat /\ u[i] \in Nat /\ w[i] \in 0..W+13 /\ u[i] <= w[i]
  BY WidthIs DEF Covers, AreWidths
<1>2. u[i] \in 0..W+13 /\ u[i] \in 0..w[i]
  BY <1>1
<1> HIDE DEF Pow2
<1>3. BitsIn(w, u, Y, i) \in SUBSET (0..u[i]-1) /\ BitsIn(w, u, Y, i) \in SUBSET (0..w[i]-1)
  BY <1>1 DEF BitsIn
<1>4. SumOver(BitsIn(w, u, Y, i), Pow2) \in Nat /\ SumOver(BitsIn(w, u, Y, i), Pow2) < Pow2[u[i]]
  BY <1>2, <1>3, BitsOfSum
<1>5. Pow2[u[i]] <= Pow2[w[i]] /\ Pow2[u[i]] \in Nat /\ Pow2[w[i]] \in Nat
  BY <1>1, <1>2, PowersRise, Powers
<1>6. QED
  BY <1>1, <1>2, <1>3, <1>4, <1>5

\* What is loaded fits: no limb has a bit that its width does not hold.
LEMMA LimbsFit ==
  ASSUME NEW n, NEW w, NEW u, Covers(w, u, n), NEW Y, NEW t, AreLimbs(t, w, u, n, Y)
  PROVE  Fits(t, w, n)
<1>1. ASSUME NEW i \in 0..n-1 PROVE t[i] < Pow2[w[i]]
  <2>1. t[i] = SumOver(BitsIn(w, u, Y, i), Pow2)
    BY DEF AreLimbs
  <2> HIDE DEF Pow2
  <2>2. QED
    BY <2>1, LimbIs
<1>2. QED
  BY <1>1 DEF Fits, AreLimbs

\* fe_from_bytes: limbs of all bits but the topmost.
LEMMA LoadIs ==
  ASSUME NEW f \in Forms, NEW Y \in SUBSET (0..5*W)
  PROVE  AreLimbs(fe_from_bytes(f, Y), Widths[f], Used[f], Count[f], Y \ {5 * W})
<1> DEFINE w == Widths[f]
           u == Used[f]
           n == Count[f]
           Z == Y \ {5 * W}
           Read(i) == {b \in 0..w[i]-1 : Offset(w, i) + b \in Z}
           t == fe_from_bytes(f, Y)
<1>1. Covers(w, u, n)
  BY FormCovers
<1>2. W \in Nat /\ Z \in SUBSET (0..5*W-1)
  BY WidthIs
<1>3. DOMAIN w = 0..n-1
  BY <1>1 DEF Covers, AreWidths
<1> HIDE DEF w, u, n, Pow2
<1>4. t = [i \in 0..n-1 |-> SumOver(Read(i), Pow2)]
  BY <1>3 DEF fe_from_bytes, w
<1> HIDE DEF t, Z
<1>5. ASSUME NEW i \in 0..n-1 PROVE Read(i) = BitsIn(w, u, Z, i)
  <2>1. /\ Offset(w, i) \in Nat /\ u[i] \in Nat /\ w[i] \in 0..W+13
        /\ u[i] <= w[i] /\ (u[i] # w[i] => w[i] = u[i] + 1 /\ Offset(w, i) + u[i] = 5 * W)
    BY <1>1 DEF Covers, AreWidths
  <2>2. ASSUME NEW b \in 0..w[i]-1, Offset(w, i) + b \in Z PROVE b \in 0..u[i]-1
    <3> DEFINE m == Offset(w, i) + b
    <3>1. m \in 0..5*W-1
      BY <1>2, <2>2
    <3>2. b \in Nat /\ b <= w[i] - 1
      BY <1>2, <2>1
    <3>3. Offset(w, i) + b < 5 * W
      BY <1>2, <3>1
    <3>4. QED
      BY <1>2, <2>1, <3>2, <3>3
  <2>3. 0..u[i]-1 \subseteq 0..w[i]-1
    BY <1>2, <2>1
  <2>4. QED
    BY <2>2, <2>3 DEF BitsIn
<1>6. t = [i \in 0..n-1 |-> SumOver(BitsIn(w, u, Z, i), Pow2)]
  BY <1>4, <1>5
<1>7. ASSUME NEW i \in 0..n-1 PROVE SumOver(BitsIn(w, u, Z, i), Pow2) \in Nat
  BY <1>1, LimbIs
<1>8. AreLimbs(t, w, u, n, Z)
  BY <1>6, <1>7 DEF AreLimbs
<1>9. QED
  BY <1>8 DEF t, w, u, n, Z

\* What is stored of them are the bits they were loaded from.
LEMMA StoreIs ==
  ASSUME NEW n, NEW w, NEW u, Covers(w, u, n), NEW Y \in SUBSET (0..5*W-1),
         NEW t, AreLimbs(t, w, u, n, Y)
  PROVE  BitsOf(t, w) = Y
<1> DEFINE OneBits(i) == {b \in 0..w[i]-1 : (t[i] \div Pow2[b]) % 2 = 1}
           Set(i) == {Offset(w, i) + b : b \in OneBits(i)}
<1>1. W \in Nat /\ DOMAIN w = 0..n-1
  BY WidthIs DEF Covers, AreWidths
<1> HIDE DEF Pow2
<1>2. ASSUME NEW i \in 0..n-1 PROVE OneBits(i) = BitsIn(w, u, Y, i)
  <2> DEFINE S == BitsIn(w, u, Y, i)
  <2>1. S \in SUBSET (0..w[i]-1) /\ w[i] \in 0..W+13 /\ t[i] = SumOver(S, Pow2)
    BY LimbIs DEF AreLimbs
  <2> HIDE DEF S
  <2>2. \A b \in 0..w[i]-1 : (SumOver(S, Pow2) \div Pow2[b]) % 2 = 1 <=> b \in S
    BY <2>1, BitsOfSum
  <2>3. \A b \in 0..w[i]-1 : (t[i] \div Pow2[b]) % 2 = 1 <=> b \in S
    BY <2>1, <2>2
  <2>4. OneBits(i) = S
    BY <2>1, <2>3
  <2>5. QED
    BY <2>4 DEF S
<1>3. BitsOf(t, w) = UNION {Set(i) : i \in 0..n-1}
  BY <1>1, Zenon DEF BitsOf
<1> HIDE DEF OneBits
<1>4. ASSUME NEW m \in BitsOf(t, w) PROVE m \in Y
  <2>1. PICK i \in 0..n-1 : m \in Set(i)
    BY <1>3, <1>4, Zenon
  <2>2. PICK b \in OneBits(i) : m = Offset(w, i) + b
    BY <2>1, Zenon
  <2>3. b \in BitsIn(w, u, Y, i)
    BY <1>2, <2>2
  <2>4. QED
    BY <2>2, <2>3 DEF BitsIn
<1>5. ASSUME NEW m \in Y PROVE m \in BitsOf(t, w)
  <2>1. m \in 0..5*W-1
    OBVIOUS
  <2>2. PICK i \in 0..n-1 : Offset(w, i) <= m /\ m < Offset(w, i) + u[i]
    BY <2>1 DEF Covers
  <2> DEFINE b == m - Offset(w, i)
  <2>3. Offset(w, i) \in Nat /\ u[i] \in Nat
    BY DEF Covers
  <2>4. b \in 0..u[i]-1 /\ Offset(w, i) + b = m
    BY <1>1, <2>1, <2>2, <2>3
  <2> HIDE DEF b
  <2>5. b \in BitsIn(w, u, Y, i)
    BY <2>4 DEF BitsIn
  <2>6. m \in Set(i)
    BY <1>2, <2>4, <2>5
  <2> HIDE DEF Set
  <2>7. QED
    BY <1>3, <2>6, Zenon
<1>6. QED
  BY <1>4, <1>5

\* Limbs that are all full, or nearly so in the lowest one, are a number from p up.
LEMMA LimbsBelowP ==
  ASSUME NEW n, NEW w, NEW u, Covers(w, u, n), NEW Y \in SUBSET (0..5*W-1), BelowP(Y),
         NEW t, AreLimbs(t, w, u, n, Y)
  PROVE  ~(t[0] >= Pow2[u[0]] - 19 /\ \A i \in 1..n-1 : t[i] = Pow2[u[i]] - 1)
<1> SUFFICES ASSUME t[0] >= Pow2[u[0]] - 19, \A i \in 1..n-1 : t[i] = Pow2[u[i]] - 1
             PROVE  FALSE
  OBVIOUS
<1> HIDE DEF Pow2
<1> DEFINE S == BitsIn(w, u, Y, 0)
<1>1. W \in Nat /\ n \in 5..10 /\ 0 \in 0..n-1 /\ Offset(w, 0) = 0
  BY WidthIs DEF Covers
<1>2. u[0] \in 5..W+13 /\ S \in SUBSET (0..u[0]-1) /\ SumOver(S, Pow2) = t[0]
  <2>1. u[0] \in 0..W+13 /\ S \in SUBSET (0..u[0]-1) /\ 5 <= u[0]
    BY <1>1, LimbIs DEF Covers
  <2>2. SumOver(S, Pow2) = t[0]
    BY <1>1 DEF AreLimbs
  <2>3. QED
    BY <2>1, <2>2
<1> HIDE DEF S
<1>3. 5..u[0]-1 \subseteq S /\ SumOver(S \cap (0..4), Pow2) >= 13
  BY <1>2, NearlyFullSum
<1>4. \A b \in 0..u[0]-1 : b \in S <=> b \in Y
  BY <1>1, <1>2 DEF S, BitsIn
<1>5. S \cap (0..4) = Y \cap (0..4)
  <2>1. 0..4 \subseteq 0..u[0]-1
    BY <1>2
  <2>2. QED
    BY <1>4, <2>1
<1>6. ASSUME NEW m \in 5..5*W-1 PROVE m \in Y
  <2>1. m \in 0..5*W-1
    OBVIOUS
  <2>2. PICK i \in 0..n-1 : Offset(w, i) <= m /\ m < Offset(w, i) + u[i]
    BY <2>1 DEF Covers
  <2>3. CASE i = 0
    <3>1. m \in 5..u[0]-1 /\ m \in 0..u[0]-1
      BY <1>1, <1>2, <2>1, <2>2, <2>3
    <3>2. QED
      BY <1>3, <1>4, <3>1
  <2>4. CASE i # 0
    <3> DEFINE b == m - Offset(w, i)
    <3>1. i \in 1..n-1
      BY <1>1, <2>4
    <3>2. Offset(w, i) \in Nat /\ u[i] \in Nat
      BY DEF Covers
    <3>3. b \in 0..u[i]-1 /\ Offset(w, i) + b = m
      BY <1>1, <2>1, <2>2, <3>2
    <3> HIDE DEF b
    <3>4. SumOver(BitsIn(w, u, Y, i), Pow2) = Pow2[u[i]] - 1
      BY <3>1 DEF AreLimbs
    <3>5. u[i] \in 0..W+13 /\ BitsIn(w, u, Y, i) \in SUBSET (0..u[i]-1)
      BY LimbIs
    <3>6. BitsIn(w, u, Y, i) = 0..u[i]-1
      BY <3>4, <3>5, FullSum
    <3>7. QED
      BY <3>3, <3>6 DEF BitsIn
  <2>5. QED
    BY <2>3, <2>4
<1>7. SumOver(Y \cap (0..4), Pow2) < 32 - 19
  BY <1>6 DEF BelowP
<1>8. SumOver(Y \cap (0..4), Pow2) >= 13 /\ SumOver(Y \cap (0..4), Pow2) \in Nat
  <2>1. Y \cap (0..4) \in SUBSET (0..5-1) /\ 5 \in 0..W+13
    BY <1>1
  <2>2. SumOver(Y \cap (0..4), Pow2) \in Nat
    BY <2>1, BitsOfSum
  <2>3. QED
    BY <1>3, <1>5, <2>2
<1>9. QED
  BY <1>7, <1>8

-----------------------------------------------------------------------------
(* The encoding of a number below p *)

\* The limbs of p.
LimbOfP(u, i) == Pow2[u[i]] - (IF i = 0 THEN 19 ELSE 1)

\* Of a number below p they are not all reached.
LEMMA NotAllOfP ==
  ASSUME NEW n, NEW w, NEW u, Covers(w, u, n), NEW Y \in SUBSET (0..5*W-1), BelowP(Y),
         NEW t, AreLimbs(t, w, u, n, Y)
  PROVE  ~\A i \in 0..n-1 : t[i] >= LimbOfP(u, i)
<1> SUFFICES ASSUME \A i \in 0..n-1 : t[i] >= LimbOfP(u, i) PROVE FALSE
  OBVIOUS
<1>1. n \in 5..10 /\ 0 \in 0..n-1
  BY DEF Covers
<1> HIDE DEF Pow2
<1>2. t[0] >= Pow2[u[0]] - 19
  BY <1>1 DEF LimbOfP
<1>3. ASSUME NEW i \in 1..n-1 PROVE t[i] = Pow2[u[i]] - 1
  <2>1. i \in 0..n-1 /\ i # 0
    BY <1>1
  <2>2. t[i] >= Pow2[u[i]] - 1
    BY <2>1 DEF LimbOfP
  <2>3. t[i] \in Nat /\ t[i] < Pow2[u[i]] /\ Pow2[u[i]] \in Nat
    <3>1. t[i] = SumOver(BitsIn(w, u, Y, i), Pow2)
      BY <2>1 DEF AreLimbs
    <3>2. u[i] \in 0..W+13
      BY <2>1, LimbIs
    <3>3. Pow2[u[i]] \in Nat
      BY <3>2, Powers
    <3>4. QED
      BY <2>1, <3>1, <3>3, LimbIs
  <2>4. QED
    BY <2>2, <2>3
<1>4. QED
  BY <1>2, <1>3, LimbsBelowP

\* What a limb below twice its width carries.
LEMMA OneCarry ==
  ASSUME NEW d \in Nat \ {0}, NEW x \in Nat, x < 2 * d
  PROVE  /\ x \div d \in {0, 1} /\ (x \div d = 1 => x >= d)
         /\ x % d \in 0..d-1 /\ x = (x \div d) * d + (x % d)
<1>1. CASE x < d
  <2>1. x = 0 * d + x /\ x \in 0..d-1 /\ 0 \in Int /\ x \in Int
    BY <1>1
  <2>2. x \div d = 0 /\ x % d = x
    BY <2>1, DivisionIs
  <2>3. QED
    BY <2>1, <2>2
<1>2. CASE x >= d
  <2>1. x = 1 * d + (x - d) /\ x - d \in 0..d-1 /\ 1 \in Int /\ x \in Int
    BY <1>2
  <2>2. x \div d = 1 /\ x % d = x - d
    BY <2>1, DivisionIs
  <2>3. QED
    BY <1>2, <2>1, <2>2
<1>3. QED
  BY <1>1, <1>2

\* What a limb carries that is below its width, and perhaps below zero.
LEMMA NoCarry ==
  ASSUME NEW d \in Nat \ {0}, NEW x \in Int, x < d
  PROVE  x \div d \in Int /\ x \div d <= 0 /\ (x \div d = 0 => x >= 0)
<1>1. PICK u \in Int, v \in Int : u = x \div d /\ v = x % d
  OBVIOUS
<1>2. v \in 0..d-1 /\ x = d * u + v
  BY <1>1
<1>3. ~(u > 0)
  <2>1. ASSUME u > 0 PROVE FALSE
    <3>1. u - 1 \in Nat /\ d * u = d + d * (u - 1)
      BY <2>1
    <3>2. d * (u - 1) \in Nat
      BY <3>1
    <3>3. QED
      BY <1>2, <3>1, <3>2
  <2>2. QED
    BY <2>1
<1>4. ASSUME u = 0 PROVE x >= 0
  <2>1. d * u = 0
    BY <1>4
  <2>2. QED
    BY <1>2, <2>1
<1>5. QED
  BY <1>1, <1>3, <1>4

\* WithoutP takes nothing from a number below p: the last limb has to borrow.
LEMMA NothingToSubtract ==
  ASSUME NEW Y \in SUBSET (0..5*W-1), BelowP(Y),
         NEW t, AreLimbs(t, Widths.fed32, Used.fed32, 8, Y)
  PROVE  WithoutP(t, Widths.fed32) = t
<1> DEFINE w == Widths.fed32
           u == Used.fed32
           x == [i \in 0..7 |-> t[i] - P32(w)[i]]
           C == Carries(x, w)
<1>1. Covers(w, u, 8) /\ W \in Nat
  BY Covers32, WidthIs
<1>2. AreWidths(w, 8) /\ t \in [0..7 -> Nat] /\ AreLimbs(t, w, u, 8, Y)
  BY <1>1 DEF Covers, AreLimbs
<1>3. (\A i \in 0..6 : u[i] = w[i]) /\ u[7] = w[7] - 1
  BY DEF Used
<1> HIDE DEF w, u, Pow2
<1>4. \A i \in 0..7 : P32(w)[i] = LimbOfP(u, i)
  BY <1>3 DEF P32, LimbOfP
<1>5. ASSUME NEW i \in 0..7
      PROVE  /\ LimbOfP(u, i) \in Int /\ x[i] = t[i] - LimbOfP(u, i) /\ x[i] \in Int
             /\ t[i] \in Nat /\ t[i] < Pow2[u[i]] /\ Pow2[w[i]] \in Nat \ {0}
             /\ i # 0 => x[i] <= 0
             /\ x[i] < Pow2[w[i]]
  <2>1. /\ u[i] \in 0..W+13 /\ w[i] \in 0..W+13 /\ 5 <= u[i] /\ u[i] \in 0..w[i]
        /\ t[i] = SumOver(BitsIn(w, u, Y, i), Pow2)
    <3>1. i \in 0..8-1
      OBVIOUS
    <3>2. u[i] \in 0..W+13 /\ w[i] \in 0..W+13
      BY <1>1, <3>1, LimbIs
    <3>3. 5 <= u[i] /\ u[i] <= w[i]
      BY <1>1, <3>1 DEF Covers
    <3>4. t[i] = SumOver(BitsIn(w, u, Y, i), Pow2)
      BY <1>2, <3>1 DEF AreLimbs
    <3>5. QED
      BY <1>1, <3>2, <3>3, <3>4
  <2>2. t[i] \in Nat /\ t[i] < Pow2[u[i]]
    BY <1>1, <2>1, LimbIs
  <2>3. /\ Pow2[w[i]] \in Nat \ {0} /\ Pow2[u[i]] \in Nat \ {0} /\ Pow2[u[i]] <= Pow2[w[i]]
        /\ 32 <= Pow2[u[i]]
    <3>1. 5 \in 0..u[i]
      BY <2>1
    <3>2. QED
      BY <2>1, <3>1, Powers, PowersRise, SmallPowers
  <2>4. x[i] = t[i] - LimbOfP(u, i)
    BY <1>4
  <2> HIDE DEF x
  <2>5. QED
    BY <2>2, <2>3, <2>4 DEF LimbOfP
<1>6. x \in [0..7 -> Int]
  BY <1>5
<1> HIDE DEF x
<1>7. Cardinality(DOMAIN x) = 8 /\ AreCarries(C, x, w, 8)
  <2>1. x \in [0..8-1 -> Int]
    BY <1>6
  <2>2. QED
    BY <1>2, <2>1, CarriesAre
<1>8. Ripple(x, w).out = C[8]
  BY <1>7 DEF Ripple
<1> HIDE DEF C
<1>9. C[0] = 0 /\ (\A i \in 0..8 : C[i] \in Int) /\ \A i \in 0..7 : C[i+1] = (x[i] + C[i]) \div Pow2[w[i]]
  <2>1. C[0] = 0 /\ \A i \in 0..8 : C[i] \in Int
    BY <1>7 DEF AreCarries
  <2>2. ASSUME NEW i \in 0..7 PROVE C[i+1] = (x[i] + C[i]) \div Pow2[w[i]]
    <3>1. i + 1 \in 1..8 /\ (i + 1) - 1 = i
      OBVIOUS
    <3>2. QED
      BY <1>7, <3>1 DEF AreCarries
  <2>3. QED
    BY <2>1, <2>2
<1>10. ASSUME NEW i \in 0..7, C[i] <= 0
       PROVE  C[i+1] <= 0 /\ (C[i+1] = 0 => x[i] >= 0 /\ (i # 0 => C[i] = 0))
  <2> DEFINE d == Pow2[w[i]]
             z == x[i] + C[i]
  <2>1. d \in Nat \ {0} /\ z \in Int /\ z < d /\ C[i] \in Int /\ x[i] \in Int
    BY <1>5, <1>9, <1>10
  <2>2. C[i+1] = z \div d
    BY <1>9
  <2>3. z >= 0 => x[i] >= 0 /\ (i # 0 => C[i] = 0)
    BY <1>5, <1>10, <2>1
  <2> HIDE DEF d, z
  <2>4. z \div d <= 0 /\ (z \div d = 0 => z >= 0)
    BY <2>1, NoCarry
  <2>5. QED
    BY <2>2, <2>3, <2>4
<1>11. \A i \in 0..8 : C[i] <= 0
  <2> DEFINE I == {i \in 0..8 : C[i] <= 0}
  <2>1. 0 \in I
    BY <1>9
  <2>2. ASSUME NEW i \in 1..8, i - 1 \in I PROVE i \in I
    <3>1. i - 1 \in 0..7 /\ (i - 1) + 1 = i /\ i \in 0..8 /\ C[i-1] <= 0
      BY <2>2
    <3>2. C[(i - 1) + 1] <= 0
      BY <1>10, <3>1
    <3>3. QED
      BY <3>1, <3>2
  <2> HIDE DEF I
  <2>3. \A i \in 0..8 : i \in I
    BY <2>1, <2>2, Induct
  <2>4. QED
    BY <2>3 DEF I
<1>12. C[8] # 0
  <2> SUFFICES ASSUME C[8] = 0 PROVE FALSE
    OBVIOUS
  <2>1. ASSUME NEW i \in 0..7, C[i+1] = 0 PROVE x[i] >= 0 /\ (i # 0 => C[i] = 0)
    <3>1. i \in 0..8
      OBVIOUS
    <3>2. QED
      BY <1>10, <1>11, <2>1, <3>1
  <2>2. C[7] = 0 /\ C[6] = 0 /\ C[5] = 0 /\ C[4] = 0 /\ C[3] = 0 /\ C[2] = 0 /\ C[1] = 0
    <3>1. C[7+1] = 0
      OBVIOUS
    <3>2. C[7] = 0
      BY <2>1, <3>1
    <3>3. C[6+1] = 0
      BY <3>2
    <3>4. C[6] = 0
      BY <2>1, <3>3
    <3>5. C[5+1] = 0
      BY <3>4
    <3>6. C[5] = 0
      BY <2>1, <3>5
    <3>7. C[4+1] = 0
      BY <3>6
    <3>8. C[4] = 0
      BY <2>1, <3>7
    <3>9. C[3+1] = 0
      BY <3>8
    <3>10. C[3] = 0
      BY <2>1, <3>9
    <3>11. C[2+1] = 0
      BY <3>10
    <3>12. C[2] = 0
      BY <2>1, <3>11
    <3>13. C[1+1] = 0
      BY <3>12
    <3>14. C[1] = 0
      BY <2>1, <3>13
    <3>15. QED
      BY <3>2, <3>4, <3>6, <3>8, <3>10, <3>12, <3>14
  <2>3. ASSUME NEW i \in 0..7 PROVE t[i] >= LimbOfP(u, i)
    <3>1. C[i+1] = 0
      BY <2>2
    <3>2. x[i] >= 0
      BY <2>1, <3>1
    <3>3. QED
      BY <1>5, <3>2
  <2>4. \A i \in 0..8-1 : t[i] >= LimbOfP(u, i)
    BY <2>3
  <2>5. QED
    BY <1>1, <1>2, <2>4, NotAllOfP
<1>13. WithoutP(t, w) = IF Ripple(x, w).out = 0 THEN Ripple(x, w).limbs ELSE t
  BY DEF WithoutP, x
<1>14. QED
  BY <1>8, <1>12, <1>13 DEF w

\* Contracted takes nothing from it either.
LEMMA NothingToContract ==
  ASSUME NEW Y \in SUBSET (0..5*W-1), BelowP(Y),
         NEW t, AreLimbs(t, Widths.fe4, Used.fe4, 10, Y)
  PROVE  Contracted(t, Widths.fe4) = t
<1> DEFINE w == Widths.fe4
           u == Used.fe4
           p == TimesP(1, w)
<1>1. Covers(w, u, 10) /\ u = w
  BY Covers4 DEF Used
<1>2. AreWidths(w, 10) /\ t \in [0..9 -> Nat] /\ AreLimbs(t, w, u, 10, Y) /\ DOMAIN w = 0..9
  BY <1>1 DEF Covers, AreLimbs, AreWidths
<1> HIDE DEF w, u, Pow2
<1>3. Folded(t, w) = t
  <2>1. Fits(t, w, 10)
    BY <1>1, <1>2, LimbsFit
  <2>2. 0 \in Nat
    OBVIOUS
  <2>3. QED
    BY <1>2, <2>1, <2>2, ReducedFits
<1>4. ASSUME NEW i \in 0..9 PROVE p[i] = LimbOfP(u, i) /\ t[i] \in Nat /\ LimbOfP(u, i) \in Int
  <2>1. w[i] \in 0..W+13
    BY <1>2 DEF AreWidths
  <2>2. Pow2[w[i]] \in Nat
    BY <2>1, Powers
  <2>3. p[i] = 1 * (Pow2[w[i]] - (IF i = 0 THEN 19 ELSE 1))
    BY <1>2 DEF TimesP
  <2>4. QED
    BY <1>1, <1>2, <2>2, <2>3 DEF LimbOfP
<1>5. Contracted(t, w) = IF t[0] >= p[0] /\ \A i \in DOMAIN t \ {0} : t[i] = p[i]
                         THEN [i \in DOMAIN t |-> t[i] - p[i]] ELSE t
  BY <1>3 DEF Contracted
<1> HIDE DEF p
<1>6. ~(t[0] >= p[0] /\ \A i \in DOMAIN t \ {0} : t[i] = p[i])
  <2> SUFFICES ASSUME t[0] >= p[0], \A i \in DOMAIN t \ {0} : t[i] = p[i] PROVE FALSE
    OBVIOUS
  <2>1. ASSUME NEW i \in 0..9 PROVE t[i] >= LimbOfP(u, i)
    <3>1. CASE i = 0
      BY <1>4, <3>1
    <3>2. CASE i # 0
      <4>1. t[i] = p[i]
        BY <1>2, <3>2
      <4>2. QED
        BY <1>4, <4>1
    <3>3. QED
      BY <3>1, <3>2
  <2>2. \A i \in 0..10-1 : t[i] >= LimbOfP(u, i)
    BY <2>1
  <2>3. QED
    BY <1>1, <1>2, <2>2, NotAllOfP
<1>7. QED
  BY <1>5, <1>6 DEF w

\* Canonical adds 19 and then p to it: one limb after the other carries the second time
\* where it has not the first time, so that both together give the number back.
LEMMA WrappedAndBack ==
  ASSUME NEW Y \in SUBSET (0..5*W-1), BelowP(Y),
         NEW t, AreLimbs(t, Widths.fe51, Used.fe51, 5, Y)
  PROVE  Canonical(t, Widths.fe51) = t
<1> DEFINE w == Widths.fe51
           u == Used.fe51
           s == Plus(t, 0, 19)
           C == Carries(s, w)
           e == [i \in 0..4 |-> (s[i] + C[i]) % Pow2[w[i]]]
           x == [i \in 0..4 |-> e[i] + TimesP(1, w)[i]]
           g == [i \in 0..5 |-> IF i = 0 THEN 0 ELSE 1 - C[i]]
<1>1. Covers(w, u, 5) /\ u = w /\ W \in Nat
  BY Covers51, WidthIs DEF Used
<1>2. AreWidths(w, 5) /\ t \in [0..4 -> Nat] /\ AreLimbs(t, w, u, 5, Y) /\ DOMAIN w = 0..4
  BY <1>1 DEF Covers, AreLimbs, AreWidths
<1> HIDE DEF w, u, Pow2
<1>3. Fits(t, w, 5)
  BY <1>1, <1>2, LimbsFit
<1>4. ASSUME NEW i \in 0..4
      PROVE  /\ t[i] \in Nat /\ t[i] < Pow2[w[i]] /\ Pow2[w[i]] \in Nat /\ 32 <= Pow2[w[i]]
             /\ s[i] \in Nat /\ s[i] = t[i] + (IF i = 0 THEN 19 ELSE 0)
             /\ TimesP(1, w)[i] = LimbOfP(u, i)
  <2>1. i \in 0..5-1 /\ DOMAIN t = 0..4
    BY <1>2
  <2>2. w[i] \in 0..W+13 /\ 5 \in 0..w[i]
    BY <1>1, <1>2, <2>1 DEF AreWidths, Covers
  <2>3. t[i] \in Nat /\ t[i] < Pow2[w[i]]
    BY <1>2, <1>3, <2>1 DEF Fits
  <2>4. Pow2[w[i]] \in Nat /\ 32 <= Pow2[w[i]]
    BY <2>2, Powers, PowersRise, SmallPowers
  <2>5. s = [t EXCEPT ![0] = t[0] + 19]
    BY DEF Plus
  <2>6. s[i] = t[i] + (IF i = 0 THEN 19 ELSE 0)
    BY <2>1, <2>3, <2>5
  <2>7. TimesP(1, w)[i] = 1 * (Pow2[w[i]] - (IF i = 0 THEN 19 ELSE 1))
    BY <1>2 DEF TimesP
  <2>8. TimesP(1, w)[i] = LimbOfP(u, i)
    BY <1>1, <2>4, <2>7 DEF LimbOfP
  <2> HIDE DEF s
  <2>9. QED
    BY <2>3, <2>4, <2>6, <2>8
<1>5. s \in [0..4 -> Nat] /\ s \in [0..4 -> Int]
  <2>1. DOMAIN s = 0..4 /\ s = [i \in 0..4 |-> s[i]]
    BY <1>2 DEF Plus
  <2> HIDE DEF s
  <2>2. QED
    BY <1>4, <2>1
<1> HIDE DEF s
<1>6. Cardinality(DOMAIN s) = 5 /\ AreCarries(C, s, w, 5)
  <2>1. s \in [0..5-1 -> Int]
    BY <1>5
  <2>2. QED
    BY <1>2, <2>1, CarriesAre
<1> HIDE DEF C
<1>7. C[0] = 0 /\ \A i \in 0..4 : C[i+1] = (s[i] + C[i]) \div Pow2[w[i]]
  <2>1. C[0] = 0
    BY <1>6 DEF AreCarries
  <2>2. ASSUME NEW i \in 0..4 PROVE C[i+1] = (s[i] + C[i]) \div Pow2[w[i]]
    <3>1. i + 1 \in 1..5 /\ (i + 1) - 1 = i
      OBVIOUS
    <3>2. QED
      BY <1>6, <3>1 DEF AreCarries
  <2>3. QED
    BY <2>1, <2>2
<1>8. ASSUME NEW i \in 0..4, C[i] \in {0, 1}, i = 0 => C[i] = 0
      PROVE  /\ C[i+1] \in {0, 1}
             /\ C[i+1] = 1 => t[i] >= LimbOfP(u, i) /\ (i # 0 => C[i] = 1)
             /\ e[i] \in 0..Pow2[w[i]]-1
             /\ s[i] + C[i] = C[i+1] * Pow2[w[i]] + e[i]
  <2> DEFINE d == Pow2[w[i]]
             z == s[i] + C[i]
  <2>1. d \in Nat \ {0} /\ z \in Nat /\ z < 2 * d
    BY <1>4, <1>8
  <2>2. C[i+1] = z \div d /\ e[i] = z % d
    BY <1>7
  <2>3. z >= d => t[i] >= LimbOfP(u, i) /\ (i # 0 => C[i] = 1)
    BY <1>1, <1>4, <1>8 DEF LimbOfP
  <2> HIDE DEF d, z, e
  <2>4. z \div d \in {0, 1} /\ (z \div d = 1 => z >= d) /\ z % d \in 0..d-1 /\ z = (z \div d) * d + (z % d)
    BY <2>1, OneCarry
  <2>5. /\ C[i+1] \in {0, 1} /\ (C[i+1] = 1 => z >= d) /\ e[i] \in 0..d-1
        /\ z = C[i+1] * d + e[i]
    BY <2>2, <2>4
  <2>6. QED
    BY <2>3, <2>5 DEF d, z
<1> HIDE DEF e
<1>9. \A i \in 0..5 : C[i] \in {0, 1}
  <2> DEFINE I == {i \in 0..5 : C[i] \in {0, 1}}
  <2>1. 0 \in I
    BY <1>7
  <2>2. ASSUME NEW i \in 1..5, i - 1 \in I PROVE i \in I
    <3>1. i - 1 \in 0..4 /\ (i - 1) + 1 = i /\ i \in 0..5 /\ C[i-1] \in {0, 1}
      BY <2>2
    <3>2. C[(i - 1) + 1] \in {0, 1}
      BY <1>7, <1>8, <3>1
    <3>3. QED
      BY <3>1, <3>2
  <2> HIDE DEF I
  <2>3. \A i \in 0..5 : i \in I
    BY <2>1, <2>2, Induct
  <2>4. QED
    BY <2>3 DEF I
<1>10. ASSUME NEW i \in 0..4
       PROVE  /\ C[i] \in {0, 1} /\ C[i+1] \in {0, 1} /\ (i = 0 => C[i] = 0)
              /\ C[i+1] = 1 => t[i] >= LimbOfP(u, i) /\ (i # 0 => C[i] = 1)
              /\ e[i] \in 0..Pow2[w[i]]-1
              /\ s[i] + C[i] = C[i+1] * Pow2[w[i]] + e[i]
  <2>1. i \in 0..5
    OBVIOUS
  <2>2. C[i] \in {0, 1} /\ (i = 0 => C[i] = 0)
    BY <1>7, <1>9, <2>1
  <2>3. QED
    BY <1>8, <2>2
<1>11. C[5] = 0
  <2> SUFFICES ASSUME C[5] # 0 PROVE FALSE
    OBVIOUS
  <2>1. C[4+1] = 1
    BY <1>9
  <2>2. t[4] >= LimbOfP(u, 4) /\ C[3+1] = 1
    BY <1>10, <2>1
  <2>3. t[3] >= LimbOfP(u, 3) /\ C[2+1] = 1
    BY <1>10, <2>2
  <2>4. t[2] >= LimbOfP(u, 2) /\ C[1+1] = 1
    BY <1>10, <2>3
  <2>5. t[1] >= LimbOfP(u, 1) /\ C[0+1] = 1
    BY <1>10, <2>4
  <2>6. t[0] >= LimbOfP(u, 0)
    BY <1>10, <2>5
  <2>7. \A i \in 0..5-1 : t[i] >= LimbOfP(u, i)
    BY <2>2, <2>3, <2>4, <2>5, <2>6
  <2>8. QED
    BY <1>1, <1>2, <2>7, NotAllOfP
<1>12. e \in [0..4 -> Nat]
  <2>1. \A i \in 0..4 : e[i] \in Nat
    BY <1>4, <1>10
  <2>2. e = [i \in 0..4 |-> e[i]]
    BY DEF e
  <2>3. QED
    BY <2>1, <2>2
<1>13. Fits(e, w, 5)
  <2>1. ASSUME NEW i \in 0..5-1 PROVE e[i] < Pow2[w[i]]
    <3>1. i \in 0..4
      OBVIOUS
    <3>2. QED
      BY <1>4, <1>10, <3>1
  <2>2. QED
    BY <1>12, <2>1 DEF Fits
<1>14. Folded(t, w) = t /\ Folded(e, w) = e
  <2>1. 0 \in Nat
    OBVIOUS
  <2>2. QED
    BY <1>2, <1>3, <1>13, <2>1, ReducedFits
<1>15. Folded(s, w) = e
  <2>1. DOMAIN s = 0..4
    BY <1>5
  <2>2. Ripple(s, w).limbs = e /\ Ripple(s, w).out = 0
    BY <1>6, <1>11, <2>1 DEF Ripple, C, e
  <2>3. Ripple(e, w) = [limbs |-> e, out |-> 0]
    BY <1>2, <1>13, RippleFits
  <2>4. Folded(s, w) = [e EXCEPT ![0] = Word(e[0] + Word(19 * 0))]
    BY <2>2 DEF Folded
  <2>5. Folded(e, w) = [e EXCEPT ![0] = Word(e[0] + Word(19 * 0))]
    BY <2>3 DEF Folded
  <2>6. QED
    BY <1>14, <2>4, <2>5
<1>16. ASSUME NEW i \in 0..4
       PROVE  x[i] \in Int /\ g[i] \in Int /\ g[i+1] \in Int
              /\ x[i] + g[i] = g[i+1] * Pow2[w[i]] + t[i]
  <2>1. x[i] = e[i] + LimbOfP(u, i) /\ e[i] \in Nat
    BY <1>4, <1>12
  <2>2. g[i] = (IF i = 0 THEN 0 ELSE 1 - C[i]) /\ g[i+1] = 1 - C[i+1]
    OBVIOUS
  <2> DEFINE d == Pow2[w[i]]
             a == C[i]
             c == C[i+1]
  <2>3. /\ a \in {0, 1} /\ c \in {0, 1} /\ (i = 0 => a = 0) /\ d \in Nat /\ t[i] \in Nat
        /\ t[i] + (IF i = 0 THEN 19 ELSE 0) + a = c * d + e[i]
    BY <1>4, <1>10
  <2>4. LimbOfP(u, i) = d - (IF i = 0 THEN 19 ELSE 1)
    BY <1>1 DEF LimbOfP
  <2> HIDE DEF x, g, d, a, c
  <2>5. CASE c = 0
    BY <2>1, <2>2, <2>3, <2>4, <2>5 DEF d, a, c
  <2>6. CASE c = 1
    BY <2>1, <2>2, <2>3, <2>4, <2>6 DEF d, a, c
  <2>7. QED
    BY <2>3, <2>5, <2>6
<1>17. Settles(x, w, 5, g, t) /\ x \in [0..5-1 -> Int]
  <2>1. g[0] = 0 /\ x \in [0..4 -> Int]
    BY <1>16
  <2> HIDE DEF x, g
  <2>2. ASSUME NEW i \in 0..5-1
        PROVE  /\ g[i] \in Int /\ g[i+1] \in Int /\ t[i] < Pow2[w[i]]
               /\ x[i] + g[i] = g[i+1] * Pow2[w[i]] + t[i]
    <3>1. i \in 0..4
      OBVIOUS
    <3>2. QED
      BY <1>4, <1>16, <3>1
  <2>3. t \in [0..5-1 -> Nat]
    BY <1>2
  <2>4. QED
    BY <2>1, <2>2, <2>3 DEF Settles
<1>18. Ripple(x, w).limbs = t
  <2> HIDE DEF x, g
  <2>1. ASSUME NEW n, n = 5 PROVE Ripple(x, w) = [limbs |-> t, out |-> g[n]]
    <3>1. AreWidths(w, n) /\ x \in [0..n-1 -> Int] /\ Settles(x, w, n, g, t)
      BY <1>2, <1>17, <2>1
    <3>2. QED
      BY <3>1, RippleIs
  <2>2. QED
    BY <2>1
<1>19. Canonical(t, w) = Ripple(x, w).limbs
  <2>1. DOMAIN t = 0..4
    BY <1>2
  <2>2. Folded(Plus(Folded(Folded(t, w), w), 0, 19), w) = e
    BY <1>14, <1>15 DEF s
  <2>3. QED
    BY <2>1, <2>2 DEF Canonical, x
<1>20. QED
  BY <1>18, <1>19 DEF w

\* fe_to_bytes gives back the bits of a number below p that fe_from_bytes has read.
THEOREM EncodingIsExact ==
  ASSUME NEW f \in Forms, NEW Y \in SUBSET (0..5*W), BelowP(Y)
  PROVE  fe_to_bytes(f, fe_from_bytes(f, Y)) = Y \ {5 * W}
<1> DEFINE Z == Y \ {5 * W}
           t == fe_from_bytes(f, Y)
<1>1. W \in Nat /\ W >= 11 /\ Z \in SUBSET (0..5*W-1)
  BY WidthIs
<1>2. BelowP(Z)
  <2>1. \A m \in 5..5*W-1 : m \in Y <=> m \in Z
    BY <1>1
  <2>2. Y \cap (0..4) = Z \cap (0..4)
    BY <1>1
  <2> HIDE DEF Z
  <2>3. QED
    BY <2>1, <2>2 DEF BelowP
<1>3. AreLimbs(t, Widths[f], Used[f], Count[f], Z)
  BY LoadIs
<1>4. Count.fe51 = 5 /\ Count.fe4 = 10 /\ Count.fed32 = 8
  BY DEF Count
<1> HIDE DEF Z, t
<1>5. BitsOf(t, Widths[f]) = Z
  BY <1>1, <1>3, FormCovers, StoreIs
<1>6. CASE f = "fe51"
  <2>1. Canonical(t, Widths.fe51) = t
    BY <1>1, <1>2, <1>3, <1>4, <1>6, WrappedAndBack
  <2>2. fe_to_bytes("fe51", t) = BitsOf(Canonical(t, Widths.fe51), Widths.fe51)
    BY DEF fe_to_bytes
  <2>3. QED
    BY <1>5, <1>6, <2>1, <2>2 DEF Z, t
<1>7. CASE f = "fe4"
  <2>1. Contracted(t, Widths.fe4) = t
    BY <1>1, <1>2, <1>3, <1>4, <1>7, NothingToContract
  <2>2. fe_to_bytes("fe4", t) = BitsOf(Contracted(t, Widths.fe4), Widths.fe4)
    BY DEF fe_to_bytes
  <2>3. QED
    BY <1>5, <1>7, <2>1, <2>2 DEF Z, t
<1>8. CASE f = "fed32"
  <2>1. WithoutP(t, Widths.fed32) = t
    BY <1>1, <1>2, <1>3, <1>4, <1>8, NothingToSubtract
  <2>2. fe_to_bytes("fed32", t)
          = BitsOf(WithoutP(WithoutP(WithoutP(t, Widths.fed32), Widths.fed32), Widths.fed32), Widths.fed32)
    BY DEF fe_to_bytes
  <2>3. QED
    BY <1>5, <1>8, <2>1, <2>2 DEF Z, t
<1>9. QED
  BY <1>6, <1>7, <1>8 DEF Forms

-----------------------------------------------------------------------------
(* A product with one *)

\* A sum of nothing but zeros.
LEMMA SumOfZeros ==
  ASSUME NEW n \in Nat, NEW S \in SUBSET (0..n-1), NEW g, \A x \in S : g[x] = 0
  PROVE  SumOver(S, g) = 0
<1> DEFINE T(m) == S \cap (0..m-1)
           I == {m \in 0..n : SumOver(T(m), g) = 0}
<1>1. ASSUME NEW m \in 0..n
      PROVE  IsFiniteSet(T(m)) /\ \A x \in T(m) : g[x] = 0 /\ g[x] \in Nat
  <2>1. IsFiniteSet(0..m-1)
    BY FS_Interval
  <2>2. IsFiniteSet(T(m))
    BY <2>1, FS_Intersection
  <2>3. QED
    BY <2>2
<1>2. T(0) = {} /\ T(n) = S /\ \A k \in 1..n : T(k) \ {k-1} = T(k-1) /\ k - 1 \in 0..n
  <2>1. T(0) = {} /\ T(n) = S
    <3>1. 0..0-1 = {}
      OBVIOUS
    <3>2. S \cap (0..n-1) = S
      OBVIOUS
    <3>3. QED
      BY <3>1, <3>2
  <2>2. ASSUME NEW k \in 1..n
        PROVE  k - 1 \in 0..n /\ (0..k-1) \ {k-1} = 0..(k-1)-1
    OBVIOUS
  <2>3. \A k \in 1..n : T(k) \ {k-1} = T(k-1)
    BY <2>2
  <2>4. QED
    BY <2>1, <2>2, <2>3
<1>3. 0 \in I
  <2>1. 0 \in 0..n
    OBVIOUS
  <2> HIDE DEF T
  <2>2. SumOver(T(0), g) = 0
    BY <1>1, <1>2, <2>1, SumIs
  <2>3. QED
    BY <2>1, <2>2
<1>4. ASSUME NEW k \in 1..n, k - 1 \in I PROVE k \in I
  <2>1. k \in 0..n /\ SumOver(T(k-1), g) = 0 /\ T(k) \ {k-1} = T(k-1)
    BY <1>2, <1>4
  <2>2. IsFiniteSet(T(k)) /\ \A x \in T(k) : g[x] = 0 /\ g[x] \in Nat
    BY <1>1, <2>1
  <2> HIDE DEF T
  <2>3. CASE k - 1 \in T(k)
    <3>1. SumOver(T(k), g) = g[k-1] + SumOver(T(k) \ {k-1}, g)
      BY <2>2, <2>3, SumIs
    <3>2. g[k-1] = 0
      BY <2>2, <2>3
    <3>3. SumOver(T(k), g) = 0 + 0
      BY <2>1, <3>1, <3>2
    <3>4. QED
      BY <3>3
  <2>4. CASE k - 1 \notin T(k)
    <3>1. T(k) = T(k-1)
      BY <2>1, <2>4
    <3>2. QED
      BY <2>1, <3>1
  <2>5. QED
    BY <2>3, <2>4
<1> HIDE DEF I, T
<1>5. n \in I
  BY <1>3, <1>4, Induct
<1>6. QED
  BY <1>2, <1>5 DEF I

\* One: its first limb, and no other.
IsOne(b, n) == b \in [0..n-1 -> Nat] /\ b[0] = 1 /\ \A i \in 1..n-1 : b[i] = 0

\* The first n of the coefficients of a product with one are the other factor's,
\* the rest are zero.
LEMMA DegreeByOne ==
  ASSUME NEW n \in 1..10, NEW a \in [0..n-1 -> Nat], NEW b, IsOne(b, n),
         NEW weight \in [Pairs -> Nat], \A i \in 0..9 : weight[<<i, 0>>] = 1,
         NEW k \in 0..2*n-1
  PROVE  Degree(k, n, weight, a, b) = IF k < n THEN a[k] ELSE 0
<1> DEFINE S == {i \in 0..n-1 : k - i \in 0..n-1}
           g == [i \in S |-> weight[<<i, k - i>>] * a[i] * b[k - i]]
<1>1. Degree(k, n, weight, a, b) = SumOver(S, g)
  BY DEF Degree
<1>2. S \in SUBSET (0..n-1) /\ IsFiniteSet(S)
  <2>1. IsFiniteSet(0..n-1)
    BY FS_Interval
  <2>2. QED
    BY <2>1, FS_Subset
<1>3. ASSUME NEW i \in S, i # k PROVE g[i] = 0
  <2>1. k - i \in 1..n-1 /\ i \in 0..9 /\ k - i \in 0..9
    <3>1. i \in 0..n-1 /\ k - i \in 0..n-1 /\ n \in 1..10 /\ k \in Nat /\ i # k
      BY <1>3
    <3>2. i \in 0..9 /\ k - i \in 0..9
      <4>1. \A d \in 0..n-1 : d \in 0..9
        <5>1. n \in Nat /\ n <= 10
          OBVIOUS
        <5>2. ASSUME NEW d \in 0..n-1 PROVE d \in 0..9
          BY <5>1
        <5>3. QED
          BY <5>2, Zenon
      <4>2. QED
        BY <3>1, <4>1
    <3>3. i \in Int /\ k \in Int /\ k - i # 0
      BY <3>1
    <3>4. QED
      BY <3>1, <3>2, <3>3
  <2>2. b[k - i] = 0 /\ weight[<<i, k - i>>] \in Nat /\ a[i] \in Nat
    BY <2>1 DEF IsOne, Pairs
  <2>3. g[i] = weight[<<i, k - i>>] * a[i] * b[k - i]
    OBVIOUS
  <2> DEFINE x == weight[<<i, k - i>>]
             z == a[i]
  <2>4. x \in Nat /\ z \in Nat /\ g[i] = x * z * 0
    BY <2>2, <2>3
  <2> HIDE DEF g, x, z
  <2>5. QED
    BY <2>4
<1>4. ASSUME k < n PROVE k \in S /\ g[k] = a[k] /\ a[k] \in Nat
  <2>1. k \in S /\ k - k = 0 /\ k \in 0..9 /\ k \in 0..n-1
    BY <1>4
  <2>2. g[k] = weight[<<k, 0>>] * a[k] * b[0]
    BY <2>1
  <2>3. g[k] = 1 * a[k] * 1 /\ a[k] \in Nat
    BY <2>1, <2>2 DEF IsOne
  <2>4. QED
    BY <2>1, <2>3
<1>5. ASSUME ~(k < n) PROVE k \notin S
  BY <1>5
<1> HIDE DEF S, g
<1>6. CASE k < n
  <2>1. \A x \in S \ {k} : g[x] = 0
    BY <1>3
  <2>2. SumOver(S \ {k}, g) = 0
    <3>1. S \ {k} \in SUBSET (0..n-1) /\ n \in Nat
      BY <1>2
    <3>2. QED
      BY <2>1, <3>1, SumOfZeros
  <2>3. \A x \in S : g[x] \in Nat
    BY <1>3, <1>4, <1>6
  <2>4. SumOver(S, g) = g[k] + SumOver(S \ {k}, g)
    BY <1>2, <1>4, <1>6, <2>3, SumIs
  <2>5. QED
    BY <1>1, <1>4, <1>6, <2>2, <2>4
<1>7. CASE ~(k < n)
  <2>1. (\A x \in S : g[x] = 0) /\ n \in Nat
    BY <1>3, <1>5, <1>7
  <2>2. SumOver(S, g) = 0
    BY <1>2, <2>1, SumOfZeros
  <2>3. QED
    BY <1>1, <1>7, <2>2
<1>8. QED
  BY <1>6, <1>7

\* What fe_from_bytes reads of the number one.
LEMMA OneIs ==
  ASSUME NEW f \in Forms
  PROVE  IsOne(fe_from_bytes(f, {0}), Count[f])
<1> DEFINE w == Widths[f]
           u == Used[f]
           n == Count[f]
           b == fe_from_bytes(f, {0})
<1>1. Covers(w, u, n)
  BY FormCovers
<1>2. AreLimbs(b, w, u, n, {0})
  <2>1. {0} \in SUBSET (0..5*W) /\ {0} \ {5 * W} = {0}
    BY WidthIs
  <2>2. AreLimbs(b, w, u, n, {0} \ {5 * W})
    BY <2>1, LoadIs
  <2>3. QED
    BY <2>1, <2>2
<1> HIDE DEF w, u, n, b, Pow2
<1>3. n \in 5..10 /\ 0 \in 0..n-1 /\ b \in [0..n-1 -> Nat]
  BY <1>1, <1>2 DEF Covers, AreLimbs
<1>4. b[0] = 1
  <2>1. Offset(w, 0) = 0 /\ u[0] \in Nat /\ 5 <= u[0]
    BY <1>1, <1>3 DEF Covers
  <2>2. BitsIn(w, u, {0}, 0) = {0}
    BY <2>1 DEF BitsIn
  <2>3. b[0] = SumOver({0}, Pow2)
    BY <1>2, <1>3, <2>2 DEF AreLimbs
  <2>4. Pow2[0] = 1
    BY Powers
  <2>5. SumOver({0}, Pow2) = Pow2[0] + SumOver({0} \ {0}, Pow2)
    <3>1. IsFiniteSet({0})
      BY FS_Singleton
    <3>2. \A x \in {0} : Pow2[x] \in Nat
      BY <2>4
    <3>3. QED
      BY <3>1, <3>2, SumIs
  <2>6. SumOver({0} \ {0}, Pow2) = 0
    <3>1. {0} \ {0} = {} /\ IsFiniteSet({})
      BY FS_EmptySet
    <3>2. QED
      BY <3>1, SumIs
  <2>7. QED
    BY <2>3, <2>4, <2>5, <2>6
<1>5. ASSUME NEW i \in 1..n-1 PROVE b[i] = 0
  <2>1. i \in 0..n-1 /\ i - 1 \in 0..n-1 /\ (i - 1) + 1 = i
    BY <1>3
  <2>2. AreWidths(w, n)
    BY <1>1 DEF Covers
  <2>3. Offset(w, (i - 1) + 1) = Offset(w, i - 1) + w[i - 1]
    BY <2>1, <2>2, OffsetStep
  <2>4. Offset(w, i - 1) \in Nat /\ 5 <= u[i-1] /\ u[i-1] <= w[i-1] /\ u[i-1] \in Nat /\ w[i-1] \in Nat
    BY <1>1, <2>1 DEF Covers, AreWidths
  <2>5. Offset(w, i) \in Nat /\ 0 < Offset(w, i)
    BY <2>1, <2>3, <2>4
  <2>6. u[i] \in Nat
    BY <1>1, <2>1 DEF Covers
  <2>7. BitsIn(w, u, {0}, i) = {}
    BY <2>5, <2>6 DEF BitsIn
  <2>8. IsFiniteSet({}) /\ b[i] = SumOver({}, Pow2)
    BY <1>2, <2>1, <2>7, FS_EmptySet DEF AreLimbs
  <2>9. QED
    BY <2>8, SumIs
<1>6. QED
  BY <1>3, <1>4, <1>5 DEF IsOne, b, n

\* The weights are numbers, and the limbs of one are weighed once.
LEMMA WeightsAre ==
  /\ Plain \in [Pairs -> Nat] /\ \A i \in 0..9 : Plain[<<i, 0>>] = 1
  /\ OddTwice \in [Pairs -> Nat] /\ \A i \in 0..9 : OddTwice[<<i, 0>>] = 1
<1>1. \A i \in 0..9 : <<i, 0>> \in Pairs /\ <<i, 0>>[2] = 0
  BY DEF Pairs
<1>2. Plain \in [Pairs -> Nat] /\ \A i \in 0..9 : Plain[<<i, 0>>] = 1
  BY <1>1 DEF Plain
<1>3. OddTwice \in [Pairs -> Nat]
  BY DEF OddTwice
<1>4. \A i \in 0..9 : OddTwice[<<i, 0>>] = 1
  BY <1>1 DEF OddTwice
<1>5. QED
  BY <1>2, <1>3, <1>4

\* fe_mul by one.
LEMMA MulByOne51 ==
  ASSUME NEW n, n = 5, NEW a, Fits(a, Widths.fe51, n), NEW b, IsOne(b, n)
  PROVE  fe_mul(a, b) = a
<1> DEFINE w == Widths.fe51
           a19 == [i \in 0..4 |-> Word(19 * a[i])]
           v == [k \in 0..4 |-> Degree(k, 5, Plain, a, b) + Degree(k + 5, 5, Plain, a19, b)]
<1> HIDE DEF Pow2
<1>1. n \in 1..10 /\ a \in [0..n-1 -> Nat] /\ 0..n-1 = 0..4
  BY DEF Fits
<1>2. a19 \in [0..n-1 -> Nat]
  <2>1. W + 13 \in 0..W+13
    BY WidthIs
  <2>2. Pow2[W + 13] \in Nat \ {0}
    BY <2>1, Powers
  <2>3. ASSUME NEW i \in 0..4 PROVE Word(19 * a[i]) \in Nat
    <3>1. 19 * a[i] \in Nat
      BY <1>1
    <3>2. QED
      BY <2>2, <3>1 DEF Word
  <2>4. QED
    BY <1>1, <2>3
<1> HIDE DEF a19
<1>3. ASSUME NEW k \in 0..4 PROVE v[k] = a[k]
  <2>1. k \in 0..2*n-1 /\ k + 5 \in 0..2*n-1 /\ k < n /\ ~(k + 5 < n)
    BY <1>1
  <2>2. Degree(k, n, Plain, a, b) = a[k]
    BY <1>1, <2>1, WeightsAre, DegreeByOne
  <2>3. Degree(k + 5, n, Plain, a19, b) = 0
    BY <1>1, <1>2, <2>1, WeightsAre, DegreeByOne
  <2>4. a[k] \in Nat
    BY <1>1
  <2>5. v[k] = Degree(k, n, Plain, a, b) + Degree(k + 5, n, Plain, a19, b)
    OBVIOUS
  <2>6. QED
    BY <2>2, <2>3, <2>4, <2>5
<1>4. v = a
  <2>1. v = [k \in 0..4 |-> v[k]] /\ a = [k \in 0..4 |-> a[k]]
    BY <1>1
  <2>2. QED
    BY <1>3, <2>1
<1>5. fe_mul(a, b) = Reduced(v, w, 2)
  BY DEF fe_mul, a19
<1>6. AreWidths(w, n)
  BY Covers51 DEF Covers
<1> HIDE DEF w, v
<1>7. Reduced(a, w, 2) = a
  BY <1>6, ReducedFits DEF w
<1>8. QED
  BY <1>4, <1>5, <1>7

\* fe4_mul by one: both factors fit the half words that are multiplied.
LEMMA MulByOne4 ==
  ASSUME NEW n, n = 10, NEW a, Fits(a, Widths.fe4, n), NEW b, IsOne(b, n)
  PROVE  fe4_mul(a, b) = a
<1> DEFINE w == Widths.fe4
           ha == [i \in 0..9 |-> Half(a[i])]
           hb == [i \in 0..9 |-> Half(b[i])]
           v == [k \in 0..9 |-> Degree(k, 10, OddTwice, ha, hb)
                                + 19 * Degree(k + 10, 10, OddTwice, ha, hb)]
<1> HIDE DEF Pow2
<1>1. n \in 1..10 /\ a \in [0..n-1 -> Nat] /\ b \in [0..n-1 -> Nat] /\ 0..n-1 = 0..9
  BY DEF Fits, IsOne
<1>2. ha = a
  <2>1. ASSUME NEW i \in 0..9 PROVE Half(a[i]) = a[i]
    <3>1. W \in Nat /\ W >= 11 /\ W % 2 = 1
      BY WidthIs
    <3>2. w[i] \in 0..W+13 /\ w[i] <= (W + 13) \div 2
      <4>1. w[i] = (W + 1) \div 2 \/ w[i] = W \div 2
        BY DEF Widths
      <4> HIDE DEF w
      <4>2. QED
        BY <3>1, <4>1
    <3>3. a[i] \in Nat /\ a[i] < Pow2[w[i]]
      BY <1>1 DEF Fits
    <3> HIDE DEF w
    <3>4. QED
      BY <3>2, <3>3, WordsHold
  <2>2. a = [i \in 0..9 |-> a[i]]
    BY <1>1
  <2>3. QED
    BY <2>1, <2>2
<1>3. hb = b
  <2>1. ASSUME NEW i \in 0..9 PROVE Half(b[i]) = b[i]
    <3>1. b[i] = 1 \/ b[i] = 0
      BY <1>1 DEF IsOne
    <3>2. 1 \in 0..W+13 /\ 1 <= (W + 13) \div 2
      BY WidthIs
    <3>3. b[i] \in Nat /\ b[i] < Pow2[1]
      BY <3>1, SmallPowers
    <3>4. QED
      BY <3>2, <3>3, WordsHold
  <2>2. b = [i \in 0..9 |-> b[i]]
    BY <1>1
  <2>3. QED
    BY <2>1, <2>2
<1> HIDE DEF ha, hb
<1>4. ASSUME NEW k \in 0..9 PROVE v[k] = a[k]
  <2>1. k \in 0..2*n-1 /\ k + 10 \in 0..2*n-1 /\ k < n /\ ~(k + 10 < n)
    BY <1>1
  <2>2. Degree(k, n, OddTwice, a, b) = a[k]
    BY <1>1, <2>1, WeightsAre, DegreeByOne
  <2>3. Degree(k + 10, n, OddTwice, a, b) = 0
    BY <1>1, <2>1, WeightsAre, DegreeByOne
  <2>4. a[k] \in Nat
    BY <1>1
  <2>5. v[k] = Degree(k, n, OddTwice, a, b) + 19 * Degree(k + 10, n, OddTwice, a, b)
    BY <1>2, <1>3
  <2>6. QED
    BY <2>2, <2>3, <2>4, <2>5
<1>5. v = a
  <2>1. v = [k \in 0..9 |-> v[k]] /\ a = [k \in 0..9 |-> a[k]]
    BY <1>1
  <2>2. QED
    BY <1>4, <2>1
<1>6. fe4_mul(a, b) = Reduced(v, w, 1)
  BY DEF fe4_mul, Product4, ha, hb
<1>7. AreWidths(w, n)
  BY Covers4 DEF Covers
<1> HIDE DEF w, v
<1>8. Reduced(a, w, 1) = a
  BY <1>7, ReducedFits DEF w
<1>9. QED
  BY <1>5, <1>6, <1>8

\* Nothing is carried or folded in the sixteen words of a product with one.
LEMMA MulByOne32 ==
  ASSUME NEW n, n = 8, NEW a, Fits(a, Widths.fed32, n), NEW b, IsOne(b, n)
  PROVE  fed_mul(a, b) = a
<1> DEFINE w == Widths.fed32
           l == w[0]
           w16 == [k \in 0..15 |-> l]
           d16 == [k \in 0..15 |-> Degree(k, 8, Plain, a, b)]
           v == [k \in 0..15 |-> IF k < 8 THEN a[k] ELSE 0]
           low == [i \in 0..7 |-> v[i] + 38 * v[i + 8]]
<1> HIDE DEF Pow2
<1>1. /\ n \in 1..10 /\ a \in [0..n-1 -> Nat] /\ 0..n-1 = 0..7 /\ W \in Nat
      /\ \A i \in 0..7 : a[i] \in Nat /\ a[i] < Pow2[w[i]]
  BY WidthIs DEF Fits
<1>2. AreWidths(w, n) /\ l \in 0..W+13 /\ \A i \in 0..7 : w[i] = l
  <2>1. AreWidths(w, n)
    BY Covers32 DEF Covers
  <2>2. \A i \in 0..7 : w[i] = (5 * W + 1) \div 8
    BY DEF Widths
  <2> HIDE DEF w
  <2>3. QED
    BY <1>1, <2>1, <2>2 DEF AreWidths
<1> HIDE DEF w, l
<1>3. d16 = v
  <2>1. ASSUME NEW k \in 0..15 PROVE Degree(k, 8, Plain, a, b) = IF k < 8 THEN a[k] ELSE 0
    <3>1. k \in 0..2*n-1
      OBVIOUS
    <3>2. Degree(k, n, Plain, a, b) = IF k < n THEN a[k] ELSE 0
      BY <1>1, <3>1, WeightsAre, DegreeByOne
    <3>3. QED
      BY <3>2
  <2>2. QED
    BY <2>1
<1>4. ASSUME NEW m, m = 16
      PROVE  AreWidths(w16, m) /\ Fits(v, w16, m)
  <2>1. 0..m-1 = 0..15 /\ m \in Nat \ {0}
    BY <1>4
  <2>2. AreWidths(w16, m)
    BY <1>2, <2>1 DEF AreWidths
  <2>3. ASSUME NEW k \in 0..15 PROVE v[k] \in Nat /\ v[k] < Pow2[w16[k]]
    <3>1. w16[k] = l /\ v[k] = IF k < 8 THEN a[k] ELSE 0
      OBVIOUS
    <3>2. Pow2[l] \in Nat /\ 0 < Pow2[l]
      BY <1>2, Powers
    <3>3. k < 8 => a[k] \in Nat /\ a[k] < Pow2[l]
      <4>1. k < 8 => k \in 0..7
        OBVIOUS
      <4>2. QED
        BY <1>1, <1>2, <4>1
    <3>4. QED
      BY <3>1, <3>2, <3>3
  <2>4. QED
    BY <2>1, <2>2, <2>3 DEF Fits
<1>5. Ripple(v, w16).limbs = v
  <2>1. ASSUME NEW m, m = 16 PROVE Ripple(v, w16) = [limbs |-> v, out |-> 0]
    <3>1. AreWidths(w16, m) /\ Fits(v, w16, m)
      BY <1>4, <2>1
    <3> HIDE DEF w16, v
    <3>2. QED
      BY <3>1, RippleFits
  <2>2. Ripple(v, w16) = [limbs |-> v, out |-> 0]
    BY <2>1
  <2>3. QED
    BY <2>2
<1>6. Schoolbook(a, b) = v
  <2>1. Schoolbook(a, b) = Ripple(d16, w16).limbs
    BY DEF Schoolbook, w, l
  <2> HIDE DEF d16, v, w16
  <2>2. QED
    BY <1>3, <1>5, <2>1
<1>7. low = a
  <2>1. ASSUME NEW i \in 0..7 PROVE low[i] = a[i]
    <3>1. i \in 0..15 /\ i + 8 \in 0..15 /\ i < 8 /\ ~(i + 8 < 8)
      OBVIOUS
    <3>2. low[i] = v[i] + 38 * v[i + 8] /\ v[i] = a[i] /\ v[i + 8] = 0
      BY <3>1
    <3>3. a[i] \in Nat
      BY <1>1
    <3> HIDE DEF low, v
    <3>4. QED
      BY <3>2, <3>3
  <2>2. a = [i \in 0..7 |-> a[i]]
    BY <1>1
  <2>3. QED
    BY <2>1, <2>2
<1>8. Ripple(a, w) = [limbs |-> a, out |-> 0]
  BY <1>2, RippleFits DEF w
<1>9. Plus(a, 0, 38 * 0) = a /\ Plus(a, 0, 0) = a
  <2>1. a[0] \in Nat /\ DOMAIN a = 0..7
    BY <1>1
  <2>2. a[0] + 38 * 0 = a[0] /\ a[0] + 0 = a[0]
    BY <2>1
  <2>3. [a EXCEPT ![0] = a[0]] = a
    BY <1>1
  <2>4. QED
    BY <2>2, <2>3 DEF Plus
<1>10. SecondFold(v) = [limbs |-> a, out |-> 0]
  <2>1. SecondFold(v) = Ripple(Plus(Ripple(low, w).limbs, 0, 38 * Ripple(low, w).out), w)
    BY DEF SecondFold, w
  <2> HIDE DEF low, v
  <2>2. QED
    BY <1>7, <1>8, <1>9, <2>1
<1> HIDE DEF v
<1>11. fed32_reduce_wide(v) = a
  BY <1>8, <1>9, <1>10 DEF fed32_reduce_wide, w
<1>12. QED
  BY <1>6, <1>11 DEF fed_mul

-----------------------------------------------------------------------------
(* What limbs stand for *)

\* The powers of two of the places of a product.
Two[k \in 0..10*W+26] == IF k = 0 THEN 1 ELSE 2 * Two[k - 1]

\* Each is twice the one before.
LEMMA TwoIs ==
  /\ \A k \in 0..10*W+26 : Two[k] \in Nat \ {0}
  /\ Two[0] = 1
  /\ \A k \in 1..10*W+26 : Two[k] = 2 * Two[k - 1]
<1> DEFINE N == 10 * W + 26
<1>1. N \in Nat
  BY WidthIs
<1>2. Two = CHOOSE v : v = [k \in 0..N |-> IF k = 0 THEN 1 ELSE 2 * v[k - 1]]
  BY Zenon DEF Two
<1> HIDE DEF N, Two
<1>3. AreDoubled(Two, N)
  BY <1>1, <1>2, Doubled
<1>4. QED
  BY <1>3 DEF AreDoubled, N

\* A shift by two numbers of bits, one after the other.
LEMMA TwoOfSum ==
  ASSUME NEW k \in Nat, NEW l \in Nat, k + l <= 10 * W + 26
  PROVE  Two[k + l] = Two[k] * Two[l]
<1> DEFINE I == {m \in 0..l : Two[k + m] = Two[k] * Two[m]}
<1>1. W \in Nat
  BY WidthIs
<1> HIDE DEF Two
<1>2. \A m \in 0..l : m \in 0..10*W+26 /\ k + m \in 0..10*W+26
  BY <1>1
<1>3. 0 \in I
  <2>1. Two[0] = 1 /\ Two[k] \in Nat
    BY <1>2, TwoIs
  <2>2. k + 0 = k /\ 0 \in 0..l
    OBVIOUS
  <2>3. QED
    BY <2>1, <2>2
<1>4. ASSUME NEW m \in 1..l, m - 1 \in I PROVE m \in I
  <2>1. m \in 0..l /\ m - 1 \in 0..l /\ m \in 1..10*W+26 /\ k + m \in 1..10*W+26 /\ (k + m) - 1 = k + (m - 1)
    BY <1>1
  <2>2. Two[m] = 2 * Two[m - 1] /\ Two[k + m] = 2 * Two[k + (m - 1)]
    BY <2>1, TwoIs
  <2>3. Two[k + (m - 1)] = Two[k] * Two[m - 1]
    BY <1>4
  <2>4. Two[k] \in Nat /\ Two[m - 1] \in Nat
    BY <1>2, <2>1, TwoIs
  <2> DEFINE a == Two[k]
             b == Two[m - 1]
  <2>5. a \in Nat /\ b \in Nat
    BY <2>4
  <2> HIDE DEF a, b
  <2>6. 2 * (a * b) = a * (2 * b)
    BY <2>5
  <2>7. Two[k + m] = Two[k] * Two[m]
    BY <2>2, <2>3, <2>6 DEF a, b
  <2>8. QED
    BY <2>1, <2>7
<1> HIDE DEF I
<1>5. l \in I
  <2>1. \A m \in 0..l : m \in I
    BY <1>3, <1>4, Induct
  <2>2. QED
    BY <2>1
<1>6. QED
  BY <1>5 DEF I

\* They are those that limbs are divided by.
LEMMA TwoIsPow2 == \A k \in 0..W+13 : Two[k] = Pow2[k]
<1>1. W + 13 \in Nat /\ \A k \in 1..W+13 : k \in 1..10*W+26
  BY WidthIs
<1> HIDE DEF Two, Pow2
<1>2. GoAlike(Two, Pow2, W + 13)
  BY <1>1, TwoIs, Powers DEF GoAlike
<1>3. QED
  BY <1>1, <1>2, Alike

-----------------------------------------------------------------------------
(* Sums of sums *)

\* Induction, for the subsets of a finite set that are in a set.
LEMMA SetInduct ==
  ASSUME NEW S, IsFiniteSet(S), NEW I, {} \in I,
         \A s \in SUBSET S : \A x \in s : s \ {x} \in I => s \in I
  PROVE  S \in I
<1> DEFINE N == Cardinality(S)
           J == {k \in 0..N : \A s \in SUBSET S : Cardinality(s) = k => s \in I}
<1>1. N \in Nat
  BY FS_CardinalityType
<1> HIDE DEF N
<1>2. 0 \in J
  <2>1. \A s \in SUBSET S : Cardinality(s) = 0 => s = {}
    BY Remainder
  <2>2. QED
    BY <1>1, <2>1
<1>3. ASSUME NEW k \in 1..N, k - 1 \in J PROVE k \in J
  <2>1. ASSUME NEW s \in SUBSET S, Cardinality(s) = k PROVE s \in I
    <3>1. s # {} /\ \A x \in s : s \ {x} \in SUBSET S /\ Cardinality(s \ {x}) = k - 1
      BY <1>1, <2>1, Remainder
    <3>2. PICK x \in s : TRUE
      BY <3>1
    <3>3. s \ {x} \in I
      BY <1>3, <3>1, <3>2
    <3>4. QED
      BY <3>3
  <2>2. QED
    BY <1>1, <2>1
<1> HIDE DEF J
<1>4. N \in 0..N /\ N \in J
  <2>1. \A k \in 0..N : k \in J
    BY <1>1, <1>2, <1>3, Induct
  <2>2. QED
    BY <1>1, <2>1
<1>5. QED
  BY <1>4 DEF J, N

\* c are numbers, one for each element of a finite set.
Summed(S, c) == IsFiniteSet(S) /\ \A x \in S : c[x] \in Nat

\* For every subset there is the same.
LEMMA SubsetSummed ==
  ASSUME NEW S, NEW c, Summed(S, c), NEW s \in SUBSET S
  PROVE  /\ Summed(s, c) /\ SumOver(s, c) \in Nat
         /\ s = {} => SumOver(s, c) = 0
         /\ \A x \in s : /\ s \ {x} \in SUBSET S /\ SumOver(s \ {x}, c) \in Nat /\ c[x] \in Nat
                         /\ SumOver(s, c) = c[x] + SumOver(s \ {x}, c)
<1>1. \A r \in SUBSET S : Summed(r, c)
  BY FS_Subset DEF Summed
<1>2. \A r \in SUBSET S : SumOver(r, c) \in Nat
  BY <1>1, SumIs DEF Summed
<1>3. /\ s = {} => SumOver(s, c) = 0
      /\ \A x \in s : SumOver(s, c) = c[x] + SumOver(s \ {x}, c)
  BY <1>1, SumIs DEF Summed
<1>4. \A x \in s : s \ {x} \in SUBSET S
  OBVIOUS
<1>5. QED
  BY <1>1, <1>2, <1>3, <1>4 DEF Summed

\* Sums of the same numbers are the same.
LEMMA SumSame ==
  ASSUME NEW S, NEW c, Summed(S, c), NEW d, \A x \in S : d[x] = c[x]
  PROVE  SumOver(S, d) = SumOver(S, c)
<1> DEFINE I == {s \in SUBSET S : SumOver(s, d) = SumOver(s, c)}
<1>1. Summed(S, d)
  BY DEF Summed
<1>2. {} \in I
  BY <1>1, SubsetSummed
<1>3. ASSUME NEW s \in SUBSET S, NEW x \in s, s \ {x} \in I PROVE s \in I
  <2>1. SumOver(s \ {x}, d) = SumOver(s \ {x}, c) /\ d[x] = c[x]
    BY <1>3
  <2>2. SumOver(s, c) = c[x] + SumOver(s \ {x}, c)
    BY SubsetSummed
  <2>3. SumOver(s, d) = d[x] + SumOver(s \ {x}, d)
    BY <1>1, SubsetSummed
  <2>4. QED
    BY <2>1, <2>2, <2>3
<1> HIDE DEF I
<1>4. S \in I
  BY <1>2, <1>3, SetInduct DEF Summed
<1>5. QED
  BY <1>4 DEF I

\* Each of e is one of c and k times one of d.
IsLinear(S, e, c, k, d) == \A x \in S : e[x] = c[x] + k * d[x]

\* A sum of multiples, or of sums.
LEMMA SumLinear ==
  ASSUME NEW S, NEW c, Summed(S, c), NEW d, Summed(S, d), NEW k \in Nat,
         NEW e, IsLinear(S, e, c, k, d)
  PROVE  Summed(S, e) /\ SumOver(S, e) = SumOver(S, c) + k * SumOver(S, d)
<1> DEFINE I == {s \in SUBSET S : SumOver(s, e) = SumOver(s, c) + k * SumOver(s, d)}
<1>1. Summed(S, e)
  <2>1. ASSUME NEW x \in S PROVE e[x] \in Nat
    <3>1. c[x] \in Nat /\ d[x] \in Nat /\ e[x] = c[x] + k * d[x]
      BY DEF Summed, IsLinear
    <3>2. QED
      BY <3>1
  <2>2. QED
    BY <2>1 DEF Summed
<1>2. {} \in I
  <2>1. SumOver({}, e) = 0 /\ SumOver({}, c) = 0 /\ SumOver({}, d) = 0
    BY <1>1, SubsetSummed
  <2>2. QED
    BY <2>1
<1>3. ASSUME NEW s \in SUBSET S, NEW x \in s, s \ {x} \in I PROVE s \in I
  <2>1. SumOver(s, c) = c[x] + SumOver(s \ {x}, c) /\ c[x] \in Nat /\ SumOver(s \ {x}, c) \in Nat
    BY SubsetSummed
  <2>2. SumOver(s, d) = d[x] + SumOver(s \ {x}, d) /\ d[x] \in Nat /\ SumOver(s \ {x}, d) \in Nat
    BY SubsetSummed
  <2> DEFINE r == s \ {x}
             a == c[x]
             b == d[x]
             sc == SumOver(r, c)
             sd == SumOver(r, d)
  <2>3. SumOver(s, c) = a + sc /\ a \in Nat /\ sc \in Nat
    BY <2>1
  <2>4. SumOver(s, d) = b + sd /\ b \in Nat /\ sd \in Nat
    BY <2>2
  <2>5. SumOver(s, e) = e[x] + SumOver(r, e) /\ e[x] = a + k * b /\ SumOver(r, e) = sc + k * sd
    <3>1. SumOver(s, e) = e[x] + SumOver(r, e)
      BY <1>1, SubsetSummed
    <3>2. e[x] = a + k * b
      BY DEF IsLinear
    <3>3. SumOver(r, e) = sc + k * sd
      BY <1>3
    <3>4. QED
      BY <3>1, <3>2, <3>3
  <2> HIDE DEF r, a, b, sc, sd
  <2>6. (a + k * b) + (sc + k * sd) = (a + sc) + k * (b + sd)
    BY <2>3, <2>4
  <2>7. QED
    BY <2>3, <2>4, <2>5, <2>6
<1> HIDE DEF I
<1>4. S \in I
  BY <1>2, <1>3, SetInduct DEF Summed
<1>5. QED
  BY <1>1, <1>4 DEF I

\* A sum over two sets that have nothing in common.
LEMMA SumDisjoint ==
  ASSUME NEW S, NEW R, NEW c, Summed(S \cup R, c), S \cap R = {}
  PROVE  SumOver(S \cup R, c) = SumOver(S, c) + SumOver(R, c)
<1> DEFINE A == S \cup R
           I == {s \in SUBSET S : SumOver(s \cup R, c) = SumOver(s, c) + SumOver(R, c)}
<1>1. SumOver(R, c) \in Nat /\ SumOver({}, c) = 0 /\ {} \cup R = R
  BY SubsetSummed
<1>2. {} \in I
  BY <1>1
<1>3. ASSUME NEW s \in SUBSET S, NEW x \in s, s \ {x} \in I PROVE s \in I
  <2>1. s \cup R \in SUBSET A /\ x \in s \cup R /\ (s \cup R) \ {x} = (s \ {x}) \cup R /\ s \in SUBSET A
    OBVIOUS
  <2>2. /\ SumOver(s \cup R, c) = c[x] + SumOver((s \cup R) \ {x}, c)
        /\ SumOver(s, c) = c[x] + SumOver(s \ {x}, c)
        /\ c[x] \in Nat /\ SumOver(s \ {x}, c) \in Nat
    BY <2>1, SubsetSummed
  <2>3. SumOver((s \ {x}) \cup R, c) = SumOver(s \ {x}, c) + SumOver(R, c)
    BY <1>3
  <2> DEFINE a == c[x]
             b == SumOver(s \ {x}, c)
             r == SumOver(R, c)
  <2>4. /\ a \in Nat /\ b \in Nat /\ r \in Nat
        /\ SumOver(s \cup R, c) = a + (b + r) /\ SumOver(s, c) = a + b
    BY <1>1, <2>1, <2>2, <2>3
  <2> HIDE DEF a, b, r
  <2>5. SumOver(s \cup R, c) = SumOver(s, c) + r
    BY <2>4
  <2>6. QED
    BY <2>5 DEF r
<1>4. IsFiniteSet(S)
  <2>1. S \in SUBSET A
    OBVIOUS
  <2>2. QED
    BY <2>1, FS_Subset DEF Summed
<1> HIDE DEF I
<1>5. S \in I
  BY <1>2, <1>3, <1>4, SetInduct
<1>6. QED
  BY <1>5 DEF I

\* h takes S to R, no two elements to one.
OneToOne(h, S, R) ==
  /\ \A x \in S : h[x] \in R
  /\ \A x, z \in S : h[x] = h[z] => x = z
  /\ \A v \in R : \E x \in S : h[x] = v

\* The same numbers under other names.
LEMMA SumRenamed ==
  ASSUME NEW S, IsFiniteSet(S), NEW R, NEW h, OneToOne(h, S, R),
         NEW c, Summed(R, c), NEW d, \A x \in S : d[x] = c[h[x]]
  PROVE  SumOver(S, d) = SumOver(R, c)
<1> DEFINE Im(s) == {h[x] : x \in s}
           I == {s \in SUBSET S : SumOver(s, d) = SumOver(Im(s), c)}
<1>1. Summed(S, d)
  BY DEF Summed, OneToOne
<1>2. {} \in I
  <2>1. Im({}) = {} /\ {} \in SUBSET R
    OBVIOUS
  <2>2. QED
    BY <1>1, <2>1, SubsetSummed
<1>3. ASSUME NEW s \in SUBSET S, NEW x \in s, s \ {x} \in I PROVE s \in I
  <2>1. Im(s) \in SUBSET R /\ h[x] \in Im(s)
    BY DEF OneToOne
  <2>2. Im(s) \ {h[x]} = Im(s \ {x})
    BY DEF OneToOne
  <2> HIDE DEF Im
  <2>3. SumOver(Im(s), c) = c[h[x]] + SumOver(Im(s) \ {h[x]}, c)
    BY <2>1, SubsetSummed
  <2>4. SumOver(s, d) = d[x] + SumOver(s \ {x}, d) /\ d[x] = c[h[x]]
    BY <1>1, SubsetSummed
  <2>5. SumOver(s \ {x}, d) = SumOver(Im(s \ {x}), c)
    BY <1>3
  <2>6. QED
    BY <2>2, <2>3, <2>4, <2>5
<1> HIDE DEF I
<1>4. S \in I
  BY <1>2, <1>3, SetInduct
<1>5. Im(S) = R
  BY DEF OneToOne
<1>6. QED
  BY <1>4, <1>5 DEF I

\* A sum is no more than its elements at their greatest, nor less than any of them.
LEMMA SumBound ==
  ASSUME NEW S, NEW c, Summed(S, c), NEW m \in Nat, \A x \in S : c[x] <= m
  PROVE  SumOver(S, c) <= Cardinality(S) * m
<1> DEFINE I == {s \in SUBSET S : SumOver(s, c) <= Cardinality(s) * m}
<1>1. {} \in I
  <2>1. SumOver({}, c) = 0 /\ Cardinality({}) = 0
    BY SubsetSummed, FS_EmptySet
  <2>2. QED
    BY <2>1
<1>2. ASSUME NEW s \in SUBSET S, NEW x \in s, s \ {x} \in I PROVE s \in I
  <2> DEFINE n == Cardinality(s)
             r == SumOver(s \ {x}, c)
  <2>1. IsFiniteSet(S) /\ c[x] <= m
    BY DEF Summed
  <2>2. n \in Nat /\ Cardinality(s \ {x}) = n - 1
    BY <2>1, Remainder
  <2>3. SumOver(s, c) = c[x] + r /\ c[x] \in Nat /\ r \in Nat
    BY SubsetSummed
  <2>4. r <= (n - 1) * m
    BY <1>2, <2>2
  <2> HIDE DEF n, r
  <2>5. (n - 1) * m + m = n * m /\ n * m \in Nat
    BY <2>2
  <2> DEFINE q == (n - 1) * m
  <2>6. q \in Int /\ r <= q /\ q + m = n * m
    BY <2>2, <2>4, <2>5
  <2> HIDE DEF q
  <2>7. c[x] + r <= n * m
    BY <2>1, <2>3, <2>5, <2>6
  <2>8. QED
    BY <2>3, <2>7 DEF n
<1> HIDE DEF I
<1>3. S \in I
  BY <1>1, <1>2, SetInduct DEF Summed
<1>4. QED
  BY <1>3 DEF I

\* The n sets F have nothing in common and are all of U, and d are the sums over them.
Parts(F, U, c, d, n) ==
  /\ n \in Nat
  /\ \A k \in 0..n-1 : Summed(F[k], c) /\ d[k] = SumOver(F[k], c)
  /\ \A k, l \in 0..n-1 : k # l => F[k] \cap F[l] = {}
  /\ U = (UNION {F[k] : k \in 0..n-1})

\* Sums over sets that have nothing in common are one sum over all of them.
LEMMA SumOfSums ==
  ASSUME NEW n, NEW F, NEW U, NEW c, NEW d, Parts(F, U, c, d, n)
  PROVE  Summed(U, c) /\ SumOver(0..n-1, d) = SumOver(U, c)
<1> DEFINE A(m) == UNION {F[k] : k \in 0..m-1}
           I == {m \in 0..n : Summed(A(m), c) /\ SumOver(0..m-1, d) = SumOver(A(m), c)}
<1>0. /\ n \in Nat
      /\ \A k \in 0..n-1 : Summed(F[k], c) /\ d[k] = SumOver(F[k], c)
      /\ \A k, l \in 0..n-1 : k # l => F[k] \cap F[l] = {}
      /\ U = A(n)
  BY DEF Parts
<1>1. \A k \in 0..n-1 : d[k] \in Nat
  BY <1>0, SubsetSummed
<1>2. ASSUME NEW m \in 0..n PROVE Summed(0..m-1, d)
  <2>1. IsFiniteSet(0..m-1)
    <3>1. 0 \in Int /\ m - 1 \in Int
      BY <1>0
    <3>2. QED
      BY <3>1, FS_Interval
  <2>2. QED
    BY <1>0, <1>1, <2>1 DEF Summed
<1>3. 0 \in I
  <2>1. 0..0-1 = {} /\ A(0) = {} /\ 0 \in 0..n
    BY <1>0
  <2>2. Summed({}, c)
    BY FS_EmptySet DEF Summed
  <2> HIDE DEF A
  <2>3. SumOver({}, d) = 0 /\ SumOver({}, c) = 0
    <3>1. Summed({}, d)
      BY FS_EmptySet DEF Summed
    <3>2. QED
      BY <2>2, <3>1, SubsetSummed
  <2>4. QED
    BY <2>1, <2>2, <2>3
<1>4. ASSUME NEW m \in 1..n, m - 1 \in I PROVE m \in I
  <2> DEFINE l == m - 1
  <2>1. /\ l \in 0..n-1 /\ l \in 0..n /\ m \in 0..n /\ l \in 0..m-1
        /\ (0..m-1) \ {l} = 0..l-1 /\ \A k \in 0..l-1 : k \in 0..n-1 /\ k # l
    BY <1>0
  <2>2. A(m) = A(l) \cup F[l]
    <3>1. \A k \in 0..m-1 : k = l \/ k \in 0..l-1
      BY <1>0
    <3>2. \A k \in 0..l-1 : k \in 0..m-1
      BY <1>0
    <3> HIDE DEF l
    <3>3. QED
      BY <2>1, <3>1, <3>2
  <2>3. A(l) \cap F[l] = {}
    <3> HIDE DEF l
    <3>1. QED
      BY <1>0, <2>1
  <2>4. Summed(A(l), c) /\ SumOver(0..l-1, d) = SumOver(A(l), c)
    BY <1>4
  <2> HIDE DEF A, l
  <2>5. Summed(A(m), c)
    <3>1. IsFiniteSet(A(l) \cup F[l])
      BY <1>0, <2>1, <2>4, FS_Union DEF Summed
    <3>2. QED
      BY <1>0, <2>1, <2>2, <2>4, <3>1 DEF Summed
  <2>6. SumOver(A(m), c) = SumOver(A(l), c) + SumOver(F[l], c)
    BY <2>2, <2>3, <2>5, SumDisjoint
  <2>7. SumOver(0..m-1, d) = d[l] + SumOver(0..l-1, d)
    <3> DEFINE B == 0..m-1
    <3>1. Summed(B, d) /\ l \in B /\ B \ {l} = 0..l-1
      BY <1>2, <2>1
    <3> HIDE DEF B
    <3>2. SumOver(B, d) = d[l] + SumOver(B \ {l}, d)
      BY <3>1, SubsetSummed
    <3>3. QED
      BY <3>1, <3>2 DEF B
  <2>8. d[l] = SumOver(F[l], c) /\ d[l] \in Nat /\ SumOver(A(l), c) \in Nat
    BY <1>0, <1>1, <2>1, <2>4, SubsetSummed
  <2>9. SumOver(0..m-1, d) = SumOver(A(m), c)
    BY <2>4, <2>6, <2>7, <2>8
  <2>10. QED
    BY <2>1, <2>5, <2>9
<1> HIDE DEF I, A
<1>5. n \in I
  <2>1. \A m \in 0..n : m \in I
    BY <1>0, <1>3, <1>4, Induct
  <2>2. QED
    BY <1>0, <2>1
<1>6. QED
  BY <1>0, <1>5 DEF I

\* A sum of multiples of the same numbers.
LEMMA SumTimes ==
  ASSUME NEW S, NEW c, Summed(S, c), NEW k \in Nat, NEW e, \A x \in S : e[x] = k * c[x]
  PROVE  Summed(S, e) /\ SumOver(S, e) = k * SumOver(S, c)
<1> DEFINE z == [x \in S |-> 0]
<1>1. Summed(S, z) /\ SumOver(S, z) = 0
  <2>1. Summed(S, z)
    BY DEF Summed
  <2>2. IsLinear(S, z, z, 1, z) /\ 1 \in Nat
    BY DEF IsLinear
  <2> HIDE DEF z
  <2>3. SumOver(S, z) = SumOver(S, z) + 1 * SumOver(S, z)
    BY <2>1, <2>2, SumLinear
  <2>4. S \in SUBSET S
    OBVIOUS
  <2>5. SumOver(S, z) \in Nat
    BY <2>1, <2>4, SubsetSummed
  <2>6. QED
    BY <2>1, <2>3, <2>5
<1>2. IsLinear(S, e, z, k, c)
  <2>1. ASSUME NEW x \in S PROVE e[x] = z[x] + k * c[x]
    <3>1. e[x] = k * c[x] /\ c[x] \in Nat /\ z[x] = 0
      BY DEF Summed
    <3>2. QED
      BY <3>1
  <2>2. QED
    BY <2>1 DEF IsLinear
<1> HIDE DEF z
<1>3. Summed(S, e) /\ SumOver(S, e) = SumOver(S, z) + k * SumOver(S, c)
  BY <1>1, <1>2, SumLinear
<1>4. SumOver(S, c) \in Nat
  BY SubsetSummed
<1>5. QED
  BY <1>1, <1>3, <1>4

-----------------------------------------------------------------------------
(* Products of numbers in limbs *)

\* What n limbs stand for, each in its place.
Placed(t, pl, n) == [i \in 0..n-1 |-> t[i] * pl[i]]
Stands(t, pl, n) == SumOver(0..n-1, Placed(t, pl, n))

\* t has n numbers.
AreNumbers(t, n) == \A i \in 0..n-1 : t[i] \in Nat

\* The weights of two limbs make up for the place they come to.
Weighs(weight, pl, place, n) ==
  /\ n \in Nat /\ AreNumbers(pl, n) /\ AreNumbers(place, 2 * n)
  /\ \A i, j \in 0..n-1 : weight[<<i, j>>] \in Nat /\ weight[<<i, j>>] * place[i + j] = pl[i] * pl[j]

\* The products of two limbs, by what they are products of and by where they come.
Square(n) == (0..n-1) \X (0..n-1)
Across(n, k) == {e \in Square(n) : e[1] + e[2] = k}
Row(n, i) == {e \in Square(n) : e[1] = i}
Terms(a, b, pl, n) == [e \in Square(n) |-> (a[e[1]] * pl[e[1]]) * (b[e[2]] * pl[e[2]])]

\* What limbs stand for is a number.
LEMMA StandsIs ==
  ASSUME NEW n \in Nat, NEW t, AreNumbers(t, n), NEW pl, AreNumbers(pl, n)
  PROVE  Summed(0..n-1, Placed(t, pl, n)) /\ Stands(t, pl, n) \in Nat
<1>1. IsFiniteSet(0..n-1)
  BY FS_Interval
<1>2. ASSUME NEW i \in 0..n-1 PROVE Placed(t, pl, n)[i] \in Nat
  <2>1. t[i] \in Nat /\ pl[i] \in Nat
    BY DEF AreNumbers
  <2>2. t[i] * pl[i] \in Nat
    BY <2>1
  <2>3. QED
    BY <2>2 DEF Placed
<1>3. Summed(0..n-1, Placed(t, pl, n))
  BY <1>1, <1>2 DEF Summed
<1>4. QED
  BY <1>3, SubsetSummed DEF Stands

\* There are finitely many products, each a number.
LEMMA TermsAre ==
  ASSUME NEW n \in Nat, NEW a, AreNumbers(a, n), NEW b, AreNumbers(b, n),
         NEW pl, AreNumbers(pl, n)
  PROVE  \A s \in SUBSET Square(n) : Summed(s, Terms(a, b, pl, n))
<1>1. IsFiniteSet(Square(n))
  <2>1. IsFiniteSet(0..n-1)
    BY FS_Interval
  <2>2. QED
    BY <2>1, FS_Product DEF Square
<1>2. ASSUME NEW e \in Square(n) PROVE Terms(a, b, pl, n)[e] \in Nat
  <2>1. e[1] \in 0..n-1 /\ e[2] \in 0..n-1
    BY DEF Square
  <2>2. a[e[1]] \in Nat /\ b[e[2]] \in Nat /\ pl[e[1]] \in Nat /\ pl[e[2]] \in Nat
    BY <2>1 DEF AreNumbers
  <2>3. (a[e[1]] * pl[e[1]]) * (b[e[2]] * pl[e[2]]) \in Nat
    <3> DEFINE a1 == a[e[1]]
               b1 == b[e[2]]
               p1 == pl[e[1]]
               p2 == pl[e[2]]
    <3>1. a1 \in Nat /\ b1 \in Nat /\ p1 \in Nat /\ p2 \in Nat
      BY <2>2
    <3> HIDE DEF a1, b1, p1, p2
    <3>2. a1 * p1 \in Nat /\ b1 * p2 \in Nat
      BY <3>1
    <3>3. (a1 * p1) * (b1 * p2) \in Nat
      BY <3>2
    <3>4. QED
      BY <3>3 DEF a1, b1, p1, p2
  <2>4. QED
    BY <2>3 DEF Terms
<1>3. Summed(Square(n), Terms(a, b, pl, n))
  BY <1>1, <1>2 DEF Summed
<1>4. QED
  BY <1>3, SubsetSummed

\* A coefficient in its place is the sum of the products that come there.
LEMMA DegreeIs ==
  ASSUME NEW n, NEW weight, NEW pl, NEW place, Weighs(weight, pl, place, n),
         NEW a, AreNumbers(a, n), NEW b, AreNumbers(b, n), NEW k \in 0..2*n-1
  PROVE  /\ Degree(k, n, weight, a, b) \in Nat
         /\ Degree(k, n, weight, a, b) * place[k] = SumOver(Across(n, k), Terms(a, b, pl, n))
<1> DEFINE S == {i \in 0..n-1 : k - i \in 0..n-1}
           g == [i \in S |-> weight[<<i, k - i>>] * a[i] * b[k - i]]
           h == [i \in S |-> <<i, k - i>>]
           T == Terms(a, b, pl, n)
           d == [i \in S |-> T[h[i]]]
<1>1. n \in Nat /\ AreNumbers(pl, n) /\ k \in Nat
  BY DEF Weighs
<1>2. place[k] \in Nat
  BY DEF Weighs, AreNumbers
<1>3. Degree(k, n, weight, a, b) = SumOver(S, g)
  BY DEF Degree
<1>4. IsFiniteSet(S)
  <2>1. IsFiniteSet(0..n-1)
    BY <1>1, FS_Interval
  <2>2. QED
    BY <2>1, FS_Subset
<1>5. ASSUME NEW i \in S PROVE /\ g[i] \in Nat /\ d[i] = place[k] * g[i]
  <2> DEFINE j == k - i
             a1 == a[i]
             b1 == b[j]
             v == weight[<<i, j>>]
             p1 == pl[i]
             p2 == pl[j]
  <2>1. i \in 0..n-1 /\ j \in 0..n-1 /\ i + j = k /\ <<i, j>> \in Square(n)
    BY <1>1 DEF Square
  <2>2. a1 \in Nat /\ b1 \in Nat
    BY <2>1 DEF AreNumbers
  <2>3. p1 \in Nat /\ p2 \in Nat
    BY <1>1, <2>1 DEF AreNumbers
  <2>4. v \in Nat /\ v * place[k] = p1 * p2
    <3>1. weight[<<i, j>>] \in Nat /\ weight[<<i, j>>] * place[i + j] = pl[i] * pl[j]
      BY <2>1 DEF Weighs
    <3>2. QED
      BY <2>1, <3>1
  <2>5. g[i] = v * a1 * b1
    OBVIOUS
  <2>6. d[i] = (a1 * p1) * (b1 * p2)
    <3>1. h[i] = <<i, j>> /\ d[i] = T[<<i, j>>]
      OBVIOUS
    <3>2. T[<<i, j>>] = (a[i] * pl[i]) * (b[j] * pl[j])
      BY <2>1 DEF Terms
    <3>3. QED
      BY <3>1, <3>2
  <2> DEFINE q == place[k]
             gi == g[i]
             di == d[i]
  <2>7. q \in Nat /\ v * q = p1 * p2 /\ gi = v * a1 * b1 /\ di = (a1 * p1) * (b1 * p2)
    BY <1>2, <2>4, <2>5, <2>6
  <2> HIDE DEF a1, b1, v, p1, p2, q, g, d, gi, di
  <2>8. v * a1 * b1 \in Nat
    <3>1. v * a1 \in Nat
      BY <2>2, <2>4
    <3>2. QED
      BY <2>2, <3>1
  <2>9. (a1 * p1) * (b1 * p2) = q * (v * a1 * b1)
    <3>1. (a1 * p1) * (b1 * p2) = (p1 * p2) * (a1 * b1)
      BY <2>2, <2>3
    <3>2. (v * q) * (a1 * b1) = q * (v * a1 * b1)
      BY <2>2, <2>4, <2>7
    <3>3. QED
      BY <2>7, <3>1, <3>2
  <2>10. QED
    BY <2>7, <2>8, <2>9 DEF gi, di, q
<1>6. OneToOne(h, S, Across(n, k))
  <2>1. ASSUME NEW i \in S PROVE h[i] \in Across(n, k)
    <3>1. <<i, k - i>> \in Square(n) /\ i + (k - i) = k
      BY <1>1 DEF Square
    <3>2. QED
      BY <3>1 DEF Across
  <2>2. \A i, j \in S : h[i] = h[j] => i = j
    OBVIOUS
  <2>3. ASSUME NEW e \in Across(n, k) PROVE \E i \in S : h[i] = e
    <3>1. e[1] \in 0..n-1 /\ e[2] \in 0..n-1 /\ e[1] + e[2] = k /\ e = <<e[1], e[2]>>
      BY DEF Across, Square
    <3>2. k - e[1] = e[2] /\ e[1] \in S
      BY <1>1, <3>1
    <3>3. h[e[1]] = e
      BY <3>1, <3>2
    <3>4. QED
      BY <3>2, <3>3
  <2>4. QED
    BY <2>1, <2>2, <2>3 DEF OneToOne
<1>7. Summed(Across(n, k), T)
  <2>1. Across(n, k) \in SUBSET Square(n)
    BY DEF Across
  <2>2. QED
    BY <1>1, <2>1, TermsAre
<1>8. \A i \in S : d[i] = T[h[i]]
  OBVIOUS
<1>9. Summed(S, g)
  BY <1>4, <1>5 DEF Summed
<1>10. \A i \in S : d[i] = place[k] * g[i]
  BY <1>5
<1> DEFINE A == Across(n, k)
           D == SumOver(S, g)
<1> HIDE DEF S, g, h, T, d, A
<1>11. SumOver(S, d) = SumOver(A, T)
  BY <1>4, <1>6, <1>7, <1>8, SumRenamed DEF A
<1>12. SumOver(S, d) = place[k] * D /\ D \in Nat
  BY <1>2, <1>9, <1>10, SumTimes, SubsetSummed
<1> HIDE DEF D
<1>13. D * place[k] = SumOver(A, T)
  BY <1>2, <1>11, <1>12
<1>14. QED
  BY <1>3, <1>12, <1>13 DEF D, A, T

\* The products with one limb add up to its product with all of them.
LEMMA RowIs ==
  ASSUME NEW n \in Nat, NEW a, AreNumbers(a, n), NEW b, AreNumbers(b, n),
         NEW pl, AreNumbers(pl, n), NEW i \in 0..n-1
  PROVE  SumOver(Row(n, i), Terms(a, b, pl, n)) = Placed(a, pl, n)[i] * Stands(b, pl, n)
<1> DEFINE N == 0..n-1
           T == Terms(a, b, pl, n)
           B == Placed(b, pl, n)
           h == [j \in N |-> <<i, j>>]
           d == [j \in N |-> T[h[j]]]
           x == Placed(a, pl, n)[i]
<1>1. Summed(N, B)
  BY StandsIs
<1>2. x \in Nat
  BY StandsIs DEF Summed
<1>3. ASSUME NEW j \in N PROVE d[j] = x * B[j]
  <2>1. <<i, j>> \in Square(n)
    BY DEF Square
  <2>2. T[<<i, j>>] = (a[i] * pl[i]) * (b[j] * pl[j])
    BY <2>1 DEF Terms
  <2>3. x = a[i] * pl[i] /\ B[j] = b[j] * pl[j]
    BY DEF Placed
  <2>4. QED
    BY <2>2, <2>3
<1>4. OneToOne(h, N, Row(n, i))
  <2>1. \A j \in N : h[j] \in Row(n, i)
    BY DEF Row, Square
  <2>2. \A j, l \in N : h[j] = h[l] => j = l
    OBVIOUS
  <2>3. \A e \in Row(n, i) : e[2] \in N /\ h[e[2]] = e
    BY DEF Row, Square
  <2>4. QED
    BY <2>1, <2>2, <2>3 DEF OneToOne
<1>5. Summed(Row(n, i), T)
  <2>1. Row(n, i) \in SUBSET Square(n)
    BY DEF Row
  <2>2. QED
    BY <2>1, TermsAre
<1>6. IsFiniteSet(N) /\ \A j \in N : d[j] = T[h[j]]
  BY <1>1 DEF Summed
<1> DEFINE R == Row(n, i)
           V == SumOver(N, B)
<1> HIDE DEF N, T, B, h, d, x, R
<1>7. SumOver(N, d) = SumOver(R, T)
  BY <1>4, <1>5, <1>6, SumRenamed DEF R
<1>8. SumOver(N, d) = x * V
  BY <1>1, <1>2, <1>3, SumTimes
<1>9. QED
  BY <1>7, <1>8 DEF Stands, N, B, T, R, x

\* The coefficients, each in its place, stand for the product.
LEMMA ProductStands ==
  ASSUME NEW n, NEW weight, NEW pl, NEW place, Weighs(weight, pl, place, n),
         NEW a, AreNumbers(a, n), NEW b, AreNumbers(b, n),
         NEW r, \A k \in 0..2*n-1 : r[k] = Degree(k, n, weight, a, b)
  PROVE  /\ \A k \in 0..2*n-1 : r[k] \in Nat
         /\ Stands(r, place, 2 * n) = Stands(a, pl, n) * Stands(b, pl, n)
<1> DEFINE T == Terms(a, b, pl, n)
           A == [k \in 0..2*n-1 |-> Across(n, k)]
           R == [i \in 0..n-1 |-> Row(n, i)]
           d == Placed(r, place, 2 * n)
           x == Placed(a, pl, n)
           V == Stands(b, pl, n)
           f == [i \in 0..n-1 |-> V * x[i]]
<1>1. n \in Nat /\ 2 * n \in Nat /\ AreNumbers(pl, n)
  BY DEF Weighs
<1>2. \A s \in SUBSET Square(n) : Summed(s, T)
  BY <1>1, TermsAre
<1>3. \A k \in 0..2*n-1 : r[k] \in Nat /\ d[k] = SumOver(A[k], T)
  <2>1. ASSUME NEW k \in 0..2*n-1 PROVE r[k] \in Nat /\ d[k] = SumOver(A[k], T)
    <3>1. d[k] = r[k] * place[k] /\ A[k] = Across(n, k)
      BY DEF Placed
    <3>2. QED
      BY <3>1, DegreeIs
  <2>2. QED
    BY <2>1
<1>4. ASSUME NEW i \in 0..n-1 PROVE f[i] = SumOver(R[i], T) /\ x[i] \in Nat
  <2>1. f[i] = V * x[i] /\ R[i] = Row(n, i)
    OBVIOUS
  <2>2. x[i] \in Nat /\ V \in Nat
    BY <1>1, StandsIs DEF Summed
  <2>3. SumOver(Row(n, i), T) = x[i] * V
    BY <1>1, RowIs
  <2> HIDE DEF x, V, f, R, T
  <2>4. V * x[i] = x[i] * V
    BY <2>2
  <2>5. QED
    BY <2>1, <2>2, <2>3, <2>4
<1>5. SumOver(0..2*n-1, d) = SumOver(Square(n), T)
  <2>1. \A k \in 0..2*n-1 : A[k] \in SUBSET Square(n)
    BY DEF Across
  <2>2. \A k, l \in 0..2*n-1 : k # l => A[k] \cap A[l] = {}
    BY DEF Across
  <2>3. (UNION {A[k] : k \in 0..2*n-1}) = Square(n)
    <3>1. ASSUME NEW e \in Square(n) PROVE \E k \in 0..2*n-1 : e \in A[k]
      <4>1. e[1] \in 0..n-1 /\ e[2] \in 0..n-1
        BY DEF Square
      <4>2. e[1] + e[2] \in 0..2*n-1
        BY <1>1, <4>1
      <4>3. e \in Across(n, e[1] + e[2])
        BY DEF Across
      <4>4. QED
        BY <4>2, <4>3
    <3> HIDE DEF A
    <3>2. QED
      BY <2>1, <3>1
  <2> DEFINE m == 2 * n
  <2> HIDE DEF A, d, T, m
  <2>4. m \in Nat /\ 0..2*n-1 = 0..m-1
    BY <1>1 DEF m
  <2>5. Parts(A, Square(n), T, d, m)
    <3>1. \A k \in 0..m-1 : Summed(A[k], T) /\ d[k] = SumOver(A[k], T)
      BY <1>2, <1>3, <2>1, <2>4
    <3>2. \A k, l \in 0..m-1 : k # l => A[k] \cap A[l] = {}
      BY <2>2, <2>4
    <3>3. Square(n) = (UNION {A[k] : k \in 0..m-1})
      BY <2>3, <2>4
    <3>4. QED
      BY <2>4, <3>1, <3>2, <3>3 DEF Parts
  <2>6. QED
    BY <2>4, <2>5, SumOfSums
<1>6. SumOver(0..n-1, f) = SumOver(Square(n), T)
  <2>1. \A i \in 0..n-1 : R[i] \in SUBSET Square(n)
    BY DEF Row
  <2>2. \A i, j \in 0..n-1 : i # j => R[i] \cap R[j] = {}
    BY DEF Row
  <2>3. (UNION {R[i] : i \in 0..n-1}) = Square(n)
    <3>1. \A e \in Square(n) : e[1] \in 0..n-1 /\ e \in Row(n, e[1])
      BY DEF Square, Row
    <3>2. \A e \in Square(n) : \E i \in 0..n-1 : e \in R[i]
      BY <3>1
    <3> HIDE DEF R
    <3>3. QED
      BY <2>1, <3>2
  <2>4. \A i \in 0..n-1 : f[i] = SumOver(R[i], T)
    BY <1>4
  <2> HIDE DEF R, f, T
  <2>5. Parts(R, Square(n), T, f, n)
    <3>1. \A i \in 0..n-1 : Summed(R[i], T) /\ f[i] = SumOver(R[i], T)
      BY <1>2, <2>1, <2>4
    <3>2. QED
      BY <1>1, <2>2, <2>3, <3>1 DEF Parts
  <2>6. QED
    BY <2>5, SumOfSums
<1>7. SumOver(0..n-1, f) = V * Stands(a, pl, n)
  <2>1. V \in Nat /\ Summed(0..n-1, x)
    BY <1>1, StandsIs
  <2>2. \A i \in 0..n-1 : f[i] = V * x[i]
    OBVIOUS
  <2> HIDE DEF V, x, f
  <2>3. SumOver(0..n-1, f) = V * SumOver(0..n-1, x)
    BY <2>1, <2>2, SumTimes
  <2>4. QED
    BY <2>3 DEF Stands, x
<1>8. V \in Nat /\ Stands(a, pl, n) \in Nat
  BY <1>1, StandsIs
<1>9. Stands(r, place, 2 * n) = SumOver(0..2*n-1, d)
  BY DEF Stands
<1> DEFINE X == Stands(a, pl, n)
<1> HIDE DEF d, V, X, f, T
<1>10. Stands(r, place, 2 * n) = X * V
  <2>1. Stands(r, place, 2 * n) = V * X
    BY <1>5, <1>6, <1>7, <1>9 DEF X
  <2>2. X \in Nat
    BY <1>8 DEF X
  <2>3. QED
    BY <1>8, <2>1, <2>2
<1>11. QED
  BY <1>3, <1>10 DEF X, V

\* Where limbs begin, and where the next number would.
Places(w, n) == [i \in 0..n |-> Two[Offset(w, i)]]

\* Each place is the one below times the width there.
ArePlaces(pl, w, n) ==
  /\ AreWidths(w, n) /\ pl[0] = 1
  /\ \A i \in 0..n : pl[i] \in Nat \ {0}
  /\ \A i \in 0..n-1 : pl[i + 1] = pl[i] * Pow2[w[i]]

\* Those of the limbs are.
LEMMA PlacesAre ==
  ASSUME NEW n, NEW w, AreWidths(w, n), Offset(w, n) <= 10 * W + 26
  PROVE  ArePlaces(Places(w, n), w, n)
<1> DEFINE o == [i \in 0..n |-> Offset(w, i)]
           I == {m \in 0..n : o[n - m] <= o[n]}
<1>1. n \in Nat \ {0} /\ W \in Nat /\ \A i \in 0..n-1 : w[i] \in 0..W+13
  BY WidthIs DEF AreWidths
<1>2. o[0] = 0 /\ (\A i \in 0..n : o[i] \in Nat) /\ \A i \in 0..n-1 : o[i + 1] = o[i] + w[i]
  <2>1. \A i \in 0..n-1 : i \in 0..n /\ i + 1 \in 0..n
    BY <1>1
  <2>2. /\ Offset(w, 0) = 0 /\ (\A i \in 0..n : Offset(w, i) \in Nat)
        /\ \A i \in 0..n-1 : Offset(w, i + 1) = Offset(w, i) + w[i]
    BY OffsetStep
  <2>3. 0 \in 0..n /\ \A i \in 0..n : o[i] = Offset(w, i)
    BY <1>1
  <2> HIDE DEF o
  <2>4. QED
    BY <2>1, <2>2, <2>3
<1>3. o[n] <= 10 * W + 26
  BY <1>1
<1>4. \A i \in 0..n : Places(w, n)[i] = Two[o[i]]
  BY DEF Places
<1> HIDE DEF o, Two, Pow2
<1>5. ASSUME NEW m \in 0..n PROVE o[m] <= o[n]
  <2>1. 0 \in I
    BY <1>1, <1>2
  <2>2. ASSUME NEW k \in 1..n, k - 1 \in I PROVE k \in I
    <3>1. n - k \in 0..n-1 /\ (n - k) + 1 = n - (k - 1) /\ n \in 0..n /\ n - (k - 1) \in 0..n /\ n - k \in 0..n
      BY <1>1
    <3>2. o[n - (k - 1)] = o[n - k] + w[n - k] /\ w[n - k] \in Nat
      BY <1>1, <1>2, <3>1
    <3>3. o[n - (k - 1)] <= o[n] /\ o[n] \in Nat /\ o[n - k] \in Nat
      BY <1>2, <2>2, <3>1
    <3>4. QED
      BY <3>2, <3>3
  <2> HIDE DEF I
  <2>3. \A k \in 0..n : k \in I
    BY <1>1, <2>1, <2>2, Induct
  <2>4. n - m \in 0..n /\ n - (n - m) = m
    BY <1>1
  <2>5. n - m \in I
    BY <2>3, <2>4
  <2>6. QED
    BY <2>4, <2>5 DEF I
<1>6. \A i \in 0..n : o[i] \in 0..10*W+26 /\ o[i] \in Nat
  <2>1. ASSUME NEW i \in 0..n PROVE o[i] \in 0..10*W+26 /\ o[i] \in Nat
    <3>1. o[i] \in Nat /\ o[n] \in Nat /\ o[i] <= o[n]
      BY <1>1, <1>2, <1>5
    <3>2. QED
      BY <1>1, <1>3, <3>1
  <2>2. QED
    BY <2>1
<1>7. ASSUME NEW i \in 0..n-1 PROVE Two[o[i + 1]] = Two[o[i]] * Pow2[w[i]]
  <2>1. i \in 0..n /\ i + 1 \in 0..n /\ w[i] \in 0..W+13 /\ w[i] \in Nat
    BY <1>1
  <2>2. o[i + 1] = o[i] + w[i] /\ o[i] \in Nat /\ o[i + 1] <= 10 * W + 26
    BY <1>2, <1>6, <2>1
  <2>3. Two[o[i] + w[i]] = Two[o[i]] * Two[w[i]]
    BY <2>1, <2>2, TwoOfSum
  <2>4. Two[w[i]] = Pow2[w[i]]
    BY <2>1, TwoIsPow2
  <2>5. QED
    BY <2>2, <2>3, <2>4
<1>8. \A i \in 0..n : Two[o[i]] \in Nat \ {0}
  BY <1>6, TwoIs
<1>9. Two[o[0]] = 1 /\ 0 \in 0..n
  BY <1>1, <1>2, TwoIs
<1>10. \A i \in 0..n-1 : i \in 0..n /\ i + 1 \in 0..n
  BY <1>1
<1>11. QED
  BY <1>4, <1>7, <1>8, <1>9, <1>10 DEF ArePlaces

\* One limb more.
LEMMA StandsStep ==
  ASSUME NEW n \in Nat \ {0}, NEW t, AreNumbers(t, n), NEW pl, AreNumbers(pl, n)
  PROVE  /\ Stands(t, pl, 0) = 0
         /\ \A m \in 0..n : Stands(t, pl, m) \in Nat
         /\ \A m \in 0..n-1 : Stands(t, pl, m + 1) = Stands(t, pl, m) + t[m] * pl[m]
<1>1. ASSUME NEW m \in 0..n PROVE Summed(0..m-1, Placed(t, pl, m)) /\ Stands(t, pl, m) \in Nat
  <2>1. \A i \in 0..m-1 : i \in 0..n-1
    OBVIOUS
  <2>2. AreNumbers(t, m) /\ AreNumbers(pl, m) /\ m \in Nat
    BY <2>1 DEF AreNumbers
  <2>3. QED
    BY <2>2, StandsIs
<1>2. Stands(t, pl, 0) = 0
  <2>1. 0..0-1 = {} /\ 0 \in 0..n
    OBVIOUS
  <2>2. Summed({}, Placed(t, pl, 0))
    BY <1>1, <2>1
  <2>3. QED
    BY <2>1, <2>2, SubsetSummed DEF Stands
<1>3. ASSUME NEW m \in 0..n-1 PROVE Stands(t, pl, m + 1) = Stands(t, pl, m) + t[m] * pl[m]
  <2> DEFINE A == 0..m-1
             B == 0..(m+1)-1
             c == Placed(t, pl, m)
             d == Placed(t, pl, m + 1)
  <2>1. m + 1 \in 0..n /\ m \in 0..n /\ m \in B /\ B \ {m} = A
    OBVIOUS
  <2>2. Summed(A, c) /\ Summed(B, d)
    BY <1>1, <2>1
  <2>3. d[m] = t[m] * pl[m] /\ \A i \in A : d[i] = c[i]
    BY DEF Placed
  <2>4. Stands(t, pl, m) = SumOver(A, c) /\ Stands(t, pl, m + 1) = SumOver(B, d)
    BY DEF Stands
  <2>5. Stands(t, pl, m) \in Nat
    BY <1>1, <2>1
  <2> DEFINE x == Stands(t, pl, m)
             z == d[m]
  <2> HIDE DEF A, B, c, d, x, z
  <2>6. SumOver(B, d) = z + SumOver(A, d) /\ z \in Nat
    BY <2>1, <2>2, SubsetSummed DEF z
  <2>7. SumOver(A, d) = SumOver(A, c)
    BY <2>2, <2>3, SumSame
  <2>8. SumOver(B, d) = x + z
    <3>1. x = SumOver(A, c) /\ x \in Nat
      BY <2>4, <2>5 DEF x
    <3>2. QED
      BY <2>6, <2>7, <3>1
  <2>9. QED
    BY <2>3, <2>4, <2>8 DEF x, z
<1>4. QED
  BY <1>1, <1>2, <1>3

\* Limbs s are b, e and the carries g that go from each limb to the next.
CarriesOver(s, b, e, g, w, n) ==
  /\ AreNumbers(s, n) /\ AreNumbers(b, n) /\ AreNumbers(e, n) /\ g[0] = 0
  /\ \A i \in 0..n : g[i] \in Int
  /\ \A i \in 0..n-1 : s[i] + g[i] = b[i] + g[i+1] * Pow2[w[i]] + e[i]

\* What is carried is not lost.
LEMMA CarriedStands ==
  ASSUME NEW n, NEW w, NEW pl, ArePlaces(pl, w, n),
         NEW s, NEW b, NEW e, NEW g, CarriesOver(s, b, e, g, w, n)
  PROVE  /\ Stands(s, pl, n) \in Nat /\ Stands(b, pl, n) \in Nat /\ Stands(e, pl, n) \in Nat
         /\ Stands(s, pl, n) = Stands(b, pl, n) + Stands(e, pl, n) + g[n] * pl[n]
<1> DEFINE S(m) == Stands(s, pl, m)
           B(m) == Stands(b, pl, m)
           E(m) == Stands(e, pl, m)
           I == {m \in 0..n : S(m) = B(m) + E(m) + g[m] * pl[m]}
<1> HIDE DEF Pow2
<1>1. n \in Nat \ {0} /\ AreNumbers(pl, n) /\ \A i \in 0..n : pl[i] \in Nat
  <2>1. n \in Nat \ {0} /\ \A i \in 0..n : pl[i] \in Nat
    BY DEF ArePlaces, AreWidths
  <2>2. QED
    BY <2>1 DEF AreNumbers
<1>2. /\ S(0) = 0 /\ \A m \in 0..n : S(m) \in Nat
      /\ \A m \in 0..n-1 : S(m + 1) = S(m) + s[m] * pl[m]
  BY <1>1, StandsStep DEF CarriesOver
<1>3. /\ B(0) = 0 /\ \A m \in 0..n : B(m) \in Nat
      /\ \A m \in 0..n-1 : B(m + 1) = B(m) + b[m] * pl[m]
  BY <1>1, StandsStep DEF CarriesOver
<1>4. /\ E(0) = 0 /\ \A m \in 0..n : E(m) \in Nat
      /\ \A m \in 0..n-1 : E(m + 1) = E(m) + e[m] * pl[m]
  BY <1>1, StandsStep DEF CarriesOver
<1> HIDE DEF S, B, E
<1>5. 0 \in I
  <2>1. g[0] = 0 /\ pl[0] \in Nat /\ 0 \in 0..n
    BY <1>1 DEF CarriesOver
  <2>2. g[0] * pl[0] = 0
    BY <2>1
  <2>3. QED
    BY <1>2, <1>3, <1>4, <2>1, <2>2
<1>6. ASSUME NEW k \in 1..n, k - 1 \in I PROVE k \in I
  <2> DEFINE m == k - 1
             p == pl[m]
             q == Pow2[w[m]]
             si == s[m]
             bi == b[m]
             ei == e[m]
             h == g[m]
             h1 == g[k]
             S0 == S(m)
             B0 == B(m)
             E0 == E(m)
  <2>1. m \in 0..n-1 /\ m \in 0..n /\ k \in 0..n /\ m + 1 = k
    BY <1>1
  <2>2. p \in Nat /\ pl[k] = p * q
    <3>1. pl[m + 1] = pl[m] * Pow2[w[m]]
      BY <2>1 DEF ArePlaces
    <3>2. QED
      BY <1>1, <2>1, <3>1
  <2>3. q \in Nat
    <3>1. w[m] \in 0..W+13
      BY <2>1 DEF ArePlaces, AreWidths
    <3>2. QED
      BY <3>1, Powers
  <2>4. si \in Nat /\ bi \in Nat /\ ei \in Nat /\ h \in Int /\ h1 \in Int
    BY <2>1 DEF CarriesOver, AreNumbers
  <2>5. si + h = bi + h1 * q + ei
    BY <2>1 DEF CarriesOver
  <2>6. S(k) = S0 + si * p /\ B(k) = B0 + bi * p /\ E(k) = E0 + ei * p
    BY <1>2, <1>3, <1>4, <2>1
  <2>7. S0 \in Nat /\ B0 \in Nat /\ E0 \in Nat
    BY <1>2, <1>3, <1>4, <2>1
  <2>8. S0 = B0 + E0 + h * p
    BY <1>6
  <2> HIDE DEF m, p, q, si, bi, ei, h, h1, S0, B0, E0
  <2>9. S0 + si * p = (B0 + bi * p) + (E0 + ei * p) + h1 * (p * q)
    <3>1. si = bi + h1 * q + ei - h
      BY <2>3, <2>4, <2>5
    <3>2. (bi + h1 * q + ei - h) * p = bi * p + h1 * (p * q) + ei * p - h * p
      BY <2>2, <2>3, <2>4
    <3>3. QED
      BY <2>2, <2>3, <2>4, <2>7, <2>8, <3>1, <3>2
  <2>10. S(k) = B(k) + E(k) + g[k] * pl[k]
    BY <2>2, <2>6, <2>9 DEF h1
  <2>11. QED
    BY <2>1, <2>10
<1> HIDE DEF I
<1>7. n \in I /\ n \in 0..n
  <2>1. \A k \in 0..n : k \in I
    BY <1>1, <1>5, <1>6, Induct
  <2>2. QED
    BY <1>1, <2>1
<1>8. S(n) = B(n) + E(n) + g[n] * pl[n]
  BY <1>7 DEF I
<1>9. S(n) \in Nat /\ B(n) \in Nat /\ E(n) \in Nat
  BY <1>2, <1>3, <1>4, <1>7
<1>10. QED
  BY <1>8, <1>9 DEF S, B, E

\* A quotient is below what the divisor goes into more often.
LEMMA QuotientBelow ==
  ASSUME NEW d \in Nat \ {0}, NEW x \in Nat, NEW q \in Int, NEW r \in 0..d-1, x = q * d + r,
         NEW m \in Nat, x < (m + 1) * d
  PROVE  q \in 0..m
<1>1. q >= 0
  <2> SUFFICES ASSUME q < 0 PROVE FALSE
    OBVIOUS
  <2>1. PICK k \in Nat : q = 0 - 1 - k
    <3>1. 0 - 1 - q \in Nat /\ q = 0 - 1 - (0 - 1 - q)
      OBVIOUS
    <3>2. QED
      BY <3>1
  <2>2. (0 - 1 - k) * d = 0 - d - k * d /\ k * d \in Nat
    OBVIOUS
  <2> DEFINE z == k * d
             v == q * d
  <2>3. v = 0 - d - z /\ z \in Nat /\ x = v + r
    BY <2>1, <2>2
  <2> HIDE DEF z, v
  <2>4. QED
    BY <2>3
<1>2. q <= m
  <2> SUFFICES ASSUME q > m PROVE FALSE
    OBVIOUS
  <2>1. PICK k \in Nat : q = m + 1 + k
    <3>1. q - m - 1 \in Nat /\ q = m + 1 + (q - m - 1)
      OBVIOUS
    <3>2. QED
      BY <3>1
  <2>2. (m + 1 + k) * d = (m + 1) * d + k * d /\ k * d \in Nat /\ (m + 1) * d \in Nat
    OBVIOUS
  <2> DEFINE z == k * d
             v == q * d
             u == (m + 1) * d
  <2>3. v = u + z /\ z \in Nat /\ u \in Nat /\ x = v + r /\ x < u
    BY <2>1, <2>2
  <2> HIDE DEF z, v, u
  <2>4. QED
    BY <2>3
<1>3. QED
  BY <1>1, <1>2

\* The carries g leave the limbs e of t, which fit.
Leaves(t, g, e, w, n) ==
  /\ Fits(e, w, n) /\ g[0] = 0
  /\ \A i \in 0..n : g[i] \in Int
  /\ \A i \in 0..n-1 : t[i] + g[i] = g[i+1] * Pow2[w[i]] + e[i]

\* Carries and limbs that are left add up.
LEMMA RippleAddsUp ==
  ASSUME NEW n, NEW w, AreWidths(w, n), NEW t \in [0..n-1 -> Int]
  PROVE  /\ Leaves(t, Carries(t, w), Ripple(t, w).limbs, w, n)
         /\ Ripple(t, w).out = Carries(t, w)[n]
<1> DEFINE C == Carries(t, w)
           e == Ripple(t, w).limbs
<1> HIDE DEF Pow2
<1>1. n \in Nat \ {0} /\ DOMAIN t = 0..n-1
  BY DEF AreWidths
<1>2. Cardinality(DOMAIN t) = n /\ AreCarries(C, t, w, n)
  BY CarriesAre
<1>3. Ripple(t, w) = [limbs |-> [i \in DOMAIN t |-> (t[i] + C[i]) % Pow2[w[i]]],
                      out   |-> C[Cardinality(DOMAIN t)]]
  BY DEF Ripple, C
<1>4. e = [i \in 0..n-1 |-> (t[i] + C[i]) % Pow2[w[i]]] /\ Ripple(t, w).out = C[n]
  BY <1>1, <1>2, <1>3
<1> HIDE DEF C, e
<1>5. ASSUME NEW i \in 0..n-1
      PROVE  /\ e[i] \in Nat /\ e[i] < Pow2[w[i]]
             /\ t[i] + C[i] = C[i+1] * Pow2[w[i]] + e[i]
  <2> DEFINE d == Pow2[w[i]]
             x == t[i] + C[i]
  <2>1. d \in Nat \ {0}
    <3>1. w[i] \in 0..W+13
      BY DEF AreWidths
    <3>2. QED
      BY <3>1, Powers
  <2>2. x \in Int /\ C[i+1] = x \div d
    <3>1. i \in 0..n /\ i + 1 \in 1..n /\ (i + 1) - 1 = i /\ t[i] \in Int
      BY <1>1
    <3>2. C[i] \in Int /\ C[i+1] = (t[(i+1)-1] + C[(i+1)-1]) \div Pow2[w[(i+1)-1]]
      BY <1>2, <3>1 DEF AreCarries
    <3>3. QED
      BY <3>1, <3>2
  <2>3. e[i] = x % d
    BY <1>4
  <2> HIDE DEF d, x
  <2>4. x % d \in 0..d-1 /\ x = (x \div d) * d + (x % d)
    <3>1. PICK u \in Int, v \in Int : u = x \div d /\ v = x % d
      BY <2>1, <2>2
    <3>2. v \in 0..d-1 /\ x = d * u + v
      BY <2>1, <2>2, <3>1
    <3>3. d * u = u * d
      BY <2>1
    <3>4. QED
      BY <3>1, <3>2, <3>3
  <2>5. e[i] \in Nat /\ e[i] < d /\ x = C[i+1] * d + e[i]
    BY <2>1, <2>2, <2>3, <2>4
  <2>6. QED
    BY <2>5 DEF x, d
<1>6. Fits(e, w, n)
  BY <1>4, <1>5 DEF Fits
<1>7. C[0] = 0 /\ \A i \in 0..n : C[i] \in Int
  BY <1>2 DEF AreCarries
<1>8. QED
  BY <1>4, <1>5, <1>6, <1>7 DEF C, e, Leaves

\* m is a bound that no limb takes the carry into it past.
StaysBelow(t, w, n, m) ==
  m \in Nat /\ t \in [0..n-1 -> Nat] /\ \A i \in 0..n-1 : t[i] + m < (m + 1) * Pow2[w[i]]

\* Carries stay below such a bound.
LEMMA CarriesBelow ==
  ASSUME NEW n, NEW w, AreWidths(w, n), NEW t, NEW m, StaysBelow(t, w, n, m)
  PROVE  \A i \in 0..n : Carries(t, w)[i] \in 0..m
<1> DEFINE C == Carries(t, w)
           e == Ripple(t, w).limbs
           I == {i \in 0..n : C[i] \in 0..m}
<1> HIDE DEF Pow2
<1>1. n \in Nat \ {0} /\ t \in [0..n-1 -> Int] /\ m \in Nat
  BY DEF AreWidths, StaysBelow
<1>2. /\ Fits(e, w, n) /\ C[0] = 0 /\ \A i \in 0..n : C[i] \in Int
      /\ \A i \in 0..n-1 : t[i] + C[i] = C[i+1] * Pow2[w[i]] + e[i]
  <2>1. Leaves(t, C, e, w, n)
    BY <1>1, RippleAddsUp
  <2> HIDE DEF C, e
  <2>2. QED
    BY <2>1 DEF Leaves
<1> HIDE DEF C, e
<1>3. 0 \in I
  BY <1>1, <1>2
<1>4. ASSUME NEW k \in 1..n, k - 1 \in I PROVE k \in I
  <2> DEFINE i == k - 1
             d == Pow2[w[i]]
             x == t[i] + C[i]
             top == (m + 1) * d
  <2>1. i \in 0..n-1 /\ i + 1 = k /\ k \in 0..n
    BY <1>1
  <2>2. d \in Nat \ {0}
    <3>1. w[i] \in 0..W+13
      BY <2>1 DEF AreWidths
    <3>2. QED
      BY <3>1, Powers
  <2>3. x = C[k] * d + e[i] /\ C[k] \in Int
    BY <1>2, <2>1
  <2>4. e[i] \in 0..d-1
    <3>1. e[i] \in Nat /\ e[i] < d
      BY <1>2, <2>1 DEF Fits
    <3> HIDE DEF d
    <3>2. QED
      BY <2>2, <3>1
  <2>5. t[i] \in Nat /\ C[i] \in 0..m /\ t[i] + m < top
    BY <1>4, <2>1 DEF StaysBelow
  <2>6. top \in Nat
    BY <1>1, <2>2
  <2>7. x \in Nat /\ x < (m + 1) * d
    <3> HIDE DEF top, d
    <3>1. x \in Nat /\ x < top
      BY <1>1, <2>5, <2>6
    <3>2. QED
      BY <3>1 DEF top
  <2> HIDE DEF x, d, i
  <2>8. C[k] \in 0..m
    BY <1>1, <2>2, <2>3, <2>4, <2>7, QuotientBelow
  <2>9. QED
    BY <2>1, <2>8
<1> HIDE DEF I
<1>5. \A i \in 0..n : i \in I
  BY <1>1, <1>3, <1>4, Induct
<1>6. QED
  BY <1>5 DEF I, C

\* t are the limbs s less the limbs b.
Less(t, s, b, n) ==
  /\ AreNumbers(s, n) /\ AreNumbers(b, n)
  /\ t \in [0..n-1 -> Int] /\ \A i \in 0..n-1 : t[i] = s[i] - b[i]

\* Carrying keeps what limbs stand for, less what is carried out.
LEMMA RippleStands ==
  ASSUME NEW n, NEW w, NEW pl, ArePlaces(pl, w, n),
         NEW t, NEW s, NEW b, Less(t, s, b, n)
  PROVE  /\ Fits(Ripple(t, w).limbs, w, n) /\ Ripple(t, w).out \in Int
         /\ Stands(s, pl, n) = Stands(b, pl, n) + Stands(Ripple(t, w).limbs, pl, n)
                               + Ripple(t, w).out * pl[n]
<1> DEFINE g == Carries(t, w)
           e == Ripple(t, w).limbs
<1> HIDE DEF Pow2
<1>1. AreWidths(w, n) /\ n \in Nat /\ t \in [0..n-1 -> Int]
  BY DEF ArePlaces, AreWidths, Less
<1>2. /\ Fits(e, w, n) /\ Ripple(t, w).out = g[n] /\ g[0] = 0 /\ \A i \in 0..n : g[i] \in Int
      /\ \A i \in 0..n-1 : t[i] + g[i] = g[i+1] * Pow2[w[i]] + e[i]
  <2>1. Leaves(t, g, e, w, n) /\ Ripple(t, w).out = g[n]
    BY <1>1, RippleAddsUp
  <2> HIDE DEF g, e
  <2>2. QED
    BY <2>1 DEF Leaves
<1> HIDE DEF g, e
<1>3. AreNumbers(e, n)
  BY <1>2 DEF Fits, AreNumbers
<1>4. ASSUME NEW i \in 0..n-1 PROVE s[i] + g[i] = b[i] + g[i+1] * Pow2[w[i]] + e[i]
  <2> DEFINE z == g[i+1] * Pow2[w[i]]
  <2>1. s[i] \in Nat /\ b[i] \in Nat /\ e[i] \in Nat
    BY <1>3 DEF AreNumbers, Less
  <2>2. i \in 0..n /\ i + 1 \in 0..n /\ w[i] \in 0..W+13
    BY <1>1 DEF AreWidths
  <2>3. g[i] \in Int /\ g[i+1] \in Int /\ Pow2[w[i]] \in Nat
    BY <1>2, <2>2, Powers
  <2>4. z \in Int
    BY <2>3
  <2>5. t[i] + g[i] = z + e[i] /\ t[i] = s[i] - b[i]
    BY <1>2 DEF Less
  <2> DEFINE si == s[i]
             bi == b[i]
             ei == e[i]
             gi == g[i]
  <2> HIDE DEF z, si, bi, ei, gi
  <2>6. si + gi = bi + z + ei
    <3>1. (si - bi) + gi = z + ei
      BY <2>5 DEF si, bi, ei, gi
    <3>2. si \in Nat /\ bi \in Nat /\ ei \in Nat /\ gi \in Int
      BY <2>1, <2>3 DEF si, bi, ei, gi
    <3>3. QED
      BY <2>4, <3>1, <3>2
  <2>7. QED
    BY <2>6 DEF z, si, bi, ei, gi
<1>5. CarriesOver(s, b, e, g, w, n)
  BY <1>2, <1>3, <1>4 DEF CarriesOver, Less
<1>6. Stands(s, pl, n) = Stands(b, pl, n) + Stands(e, pl, n) + g[n] * pl[n]
  BY <1>5, CarriedStands
<1>7. n \in 0..n
  BY <1>1
<1>8. QED
  BY <1>2, <1>6, <1>7 DEF e

\* u is t but for its first limb, which is x.
WithFirst(u, t, x, n) == t \in [0..n-1 -> Nat] /\ x \in Nat /\ u = [t EXCEPT ![0] = x]

\* Another first limb.
LEMMA StandsWithFirst ==
  ASSUME NEW n, NEW w, NEW pl, ArePlaces(pl, w, n), NEW t, NEW x, NEW u, WithFirst(u, t, x, n)
  PROVE  /\ u \in [0..n-1 -> Nat] /\ u[0] = x /\ \A i \in 1..n-1 : u[i] = t[i]
         /\ Stands(u, pl, n) + t[0] = Stands(t, pl, n) + x
<1> DEFINE N == 0..n-1
           c == Placed(t, pl, n)
           d == Placed(u, pl, n)
<1> HIDE DEF Pow2
<1>1. /\ n \in Nat \ {0} /\ 0 \in N /\ pl[0] = 1 /\ AreNumbers(pl, n)
      /\ t \in [0..n-1 -> Nat] /\ x \in Nat
  BY DEF ArePlaces, AreWidths, AreNumbers, WithFirst
<1>2. u \in [0..n-1 -> Nat] /\ u[0] = x /\ \A i \in 0..n-1 : i # 0 => u[i] = t[i]
  BY <1>1 DEF WithFirst
<1>3. AreNumbers(t, n) /\ AreNumbers(u, n)
  BY <1>1, <1>2 DEF AreNumbers
<1>4. Summed(N, c) /\ Summed(N, d) /\ Stands(t, pl, n) = SumOver(N, c) /\ Stands(u, pl, n) = SumOver(N, d)
  BY <1>1, <1>3, StandsIs DEF Stands
<1>5. c[0] = t[0] /\ d[0] = x /\ t[0] \in Nat
  <2>1. c[0] = t[0] * pl[0] /\ d[0] = u[0] * pl[0] /\ t[0] \in Nat
    BY <1>1 DEF Placed
  <2> HIDE DEF c, d
  <2>2. QED
    BY <1>1, <1>2, <2>1
<1>6. \A i \in N \ {0} : d[i] = c[i]
  BY <1>2 DEF Placed
<1> HIDE DEF N, c, d
<1>7. SumOver(N, c) = c[0] + SumOver(N \ {0}, c) /\ SumOver(N \ {0}, c) \in Nat
  <2>1. Summed(N, c) /\ N \in SUBSET N
    BY <1>1, <1>4
  <2>2. \A k \in N : SumOver(N \ {k}, c) \in Nat /\ SumOver(N, c) = c[k] + SumOver(N \ {k}, c)
    BY <2>1, SubsetSummed
  <2>3. QED
    BY <1>1, <2>2
<1>8. SumOver(N, d) = d[0] + SumOver(N \ {0}, d)
  <2>1. Summed(N, d) /\ N \in SUBSET N
    BY <1>1, <1>4
  <2>2. \A k \in N : SumOver(N \ {k}, d) \in Nat /\ SumOver(N, d) = d[k] + SumOver(N \ {k}, d)
    BY <2>1, SubsetSummed
  <2>3. QED
    BY <1>1, <2>2
<1>9. SumOver(N \ {0}, d) = SumOver(N \ {0}, c)
  <2>1. N \ {0} \in SUBSET N
    OBVIOUS
  <2>2. Summed(N \ {0}, c)
    BY <1>4, <2>1, SubsetSummed
  <2>3. QED
    BY <1>6, <2>2, SumSame
<1> DEFINE z == SumOver(N \ {0}, c)
<1> HIDE DEF z
<1>10. SumOver(N, c) = t[0] + z /\ SumOver(N, d) = x + z /\ z \in Nat
  BY <1>5, <1>7, <1>8, <1>9 DEF z
<1>11. SumOver(N, d) + t[0] = SumOver(N, c) + x
  BY <1>1, <1>5, <1>10
<1>12. QED
  BY <1>2, <1>4, <1>11

\* Limbs that are zero stand for nothing.
LEMMA ZerosStand ==
  ASSUME NEW n \in Nat, NEW pl, AreNumbers(pl, n), NEW z, \A i \in 0..n-1 : z[i] = 0
  PROVE  AreNumbers(z, n) /\ Stands(z, pl, n) = 0
<1>1. \A i \in 0..n-1 : Placed(z, pl, n)[i] = 0
  <2>1. \A i \in 0..n-1 : Placed(z, pl, n)[i] = 0 * pl[i] /\ pl[i] \in Nat
    BY DEF Placed, AreNumbers
  <2>2. QED
    BY <2>1
<1>2. 0..n-1 \in SUBSET (0..n-1)
  OBVIOUS
<1>3. Stands(z, pl, n) = 0
  BY <1>1, <1>2, SumOfZeros DEF Stands
<1>4. QED
  BY <1>3 DEF AreNumbers

\* c bounds the carries of t, and m what is carried out, which 19 times fits a word.
Foldable(t, w, n, c, m) ==
  /\ StaysBelow(t, w, n, c) /\ m \in Nat
  /\ t[n - 1] + c < (m + 1) * Pow2[w[n - 1]]
  /\ Pow2[w[0]] + 19 * m <= Pow2[W + 13]

\* What is carried out of the last limb is folded, and no word overflows.
LEMMA FoldedIs ==
  ASSUME NEW n, NEW w, NEW pl, ArePlaces(pl, w, n), NEW t, NEW c, NEW m, Foldable(t, w, n, c, m)
  PROVE  /\ Folded(t, w) \in [0..n-1 -> Nat]
         /\ Folded(t, w)[0] < Pow2[w[0]] + 19 * m
         /\ \A i \in 1..n-1 : Folded(t, w)[i] < Pow2[w[i]]
         /\ \E q \in Nat : Stands(t, pl, n) + 19 * q = Stands(Folded(t, w), pl, n) + q * pl[n]
<1> DEFINE e == Ripple(t, w).limbs
           q == Ripple(t, w).out
           g == Carries(t, w)
           x == e[0] + 19 * q
<1> HIDE DEF Pow2
<1>1. /\ n \in Nat \ {0} /\ AreWidths(w, n) /\ 0 \in 0..n-1 /\ n - 1 \in 0..n-1 /\ W \in Nat
      /\ t \in [0..n-1 -> Nat] /\ t \in [0..n-1 -> Int] /\ c \in Nat /\ m \in Nat
  BY WidthIs DEF ArePlaces, AreWidths, Foldable, StaysBelow
<1>2. /\ Fits(e, w, n) /\ q = g[n] /\ \A i \in 0..n : g[i] \in Int
      /\ \A i \in 0..n-1 : t[i] + g[i] = g[i+1] * Pow2[w[i]] + e[i]
  <2>1. Leaves(t, g, e, w, n) /\ q = g[n]
    BY <1>1, RippleAddsUp
  <2> HIDE DEF g, e, q
  <2>2. QED
    BY <2>1 DEF Leaves
<1>3. \A i \in 0..n : g[i] \in 0..c
  BY <1>1, CarriesBelow DEF Foldable
<1> HIDE DEF e, q, g
<1>4. q \in 0..m
  <2> DEFINE d == Pow2[w[n - 1]]
             y0 == t[n - 1] + g[n - 1]
             top == (m + 1) * d
             r == e[n - 1]
  <2>1. d \in Nat \ {0}
    <3>1. w[n - 1] \in 0..W+13
      BY <1>1 DEF AreWidths
    <3>2. QED
      BY <3>1, Powers
  <2>2. y0 = q * d + r
    <3>1. (n - 1) + 1 = n
      BY <1>1
    <3>2. t[n - 1] + g[n - 1] = g[(n - 1) + 1] * Pow2[w[n - 1]] + e[n - 1]
      BY <1>1, <1>2
    <3>3. QED
      BY <1>2, <3>1, <3>2
  <2>3. n - 1 \in 0..n /\ n \in 0..n
    BY <1>1
  <2>4. r \in Nat /\ r < d /\ q \in Int /\ t[n - 1] \in Nat /\ g[n - 1] \in 0..c
    BY <1>1, <1>2, <1>3, <2>3 DEF Fits
  <2>5. t[n - 1] + c < top
    BY DEF Foldable
  <2>6. top \in Nat
    BY <1>1, <2>1
  <2> HIDE DEF d, top, r
  <2>7. y0 \in Nat /\ y0 < top /\ r \in 0..d-1
    BY <1>1, <2>1, <2>4, <2>5, <2>6
  <2>8. y0 < (m + 1) * d
    BY <2>7 DEF top
  <2> HIDE DEF y0
  <2>9. QED
    BY <1>1, <2>1, <2>2, <2>4, <2>7, <2>8, QuotientBelow
<1>5. e \in [0..n-1 -> Nat] /\ e[0] \in Nat /\ e[0] < Pow2[w[0]]
  BY <1>1, <1>2 DEF Fits
<1>6. x \in Nat /\ x < Pow2[w[0]] + 19 * m /\ Folded(t, w) = [e EXCEPT ![0] = x]
  <2>1. Pow2[w[0]] \in Nat /\ Pow2[W + 13] \in Nat /\ Pow2[w[0]] + 19 * m <= Pow2[W + 13]
    <3>1. w[0] \in 0..W+13 /\ W + 13 \in 0..W+13
      BY <1>1 DEF AreWidths
    <3>2. QED
      BY <3>1, Powers DEF Foldable
  <2>2. /\ x \in Nat /\ x < Pow2[w[0]] + 19 * m /\ x < Pow2[W + 13]
        /\ 19 * q \in Nat /\ 19 * q < Pow2[W + 13]
    BY <1>1, <1>4, <1>5, <2>1
  <2>3. W + 13 \in 0..W+13
    BY <1>1
  <2>4. Word(19 * q) = 19 * q /\ Word(x) = x
    BY <2>2, <2>3, WordsHold
  <2>5. Folded(t, w) = [e EXCEPT ![0] = Word(e[0] + Word(19 * q))]
    BY DEF Folded, e, q
  <2>6. QED
    BY <2>2, <2>4, <2>5
<1> DEFINE u == Folded(t, w)
           E == Stands(e, pl, n)
           U == Stands(u, pl, n)
           T == Stands(t, pl, n)
<1> HIDE DEF x, u
<1>7. /\ u \in [0..n-1 -> Nat] /\ u[0] = x /\ \A i \in 1..n-1 : u[i] = e[i]
      /\ U + e[0] = E + x
  <2>1. WithFirst(u, e, x, n)
    BY <1>5, <1>6 DEF u, WithFirst
  <2> HIDE DEF e
  <2>2. u \in [0..n-1 -> Nat] /\ u[0] = x /\ \A i \in 1..n-1 : u[i] = e[i]
    BY <2>1, StandsWithFirst
  <2>3. U + e[0] = E + x
    BY <2>1, StandsWithFirst
  <2>4. QED
    BY <2>2, <2>3
<1>8. T + 19 * q = U + q * pl[n]
  <2> DEFINE z == [i \in 0..n-1 |-> 0]
  <2>1. Less(t, t, z, n)
    <3>1. \A i \in 0..n-1 : t[i] \in Nat /\ z[i] \in Nat /\ t[i] = t[i] - z[i]
      BY <1>1
    <3> HIDE DEF z
    <3>2. QED
      BY <1>1, <3>1 DEF Less, AreNumbers
  <2> HIDE DEF z
  <2>2. T = Stands(z, pl, n) + E + q * pl[n]
    <3>1. Stands(t, pl, n) = Stands(z, pl, n) + Stands(Ripple(t, w).limbs, pl, n) + Ripple(t, w).out * pl[n]
      BY <2>1, RippleStands
    <3>2. QED
      BY <3>1 DEF e, q
  <2>3. Stands(z, pl, n) = 0
    <3>1. AreNumbers(pl, n) /\ \A i \in 0..n-1 : z[i] = 0
      BY <1>1 DEF ArePlaces, AreNumbers, z
    <3>2. QED
      BY <1>1, <3>1, ZerosStand
  <2>4. T \in Nat /\ U \in Nat /\ E \in Nat /\ pl[n] \in Nat
    <3>1. AreNumbers(e, n) /\ AreNumbers(u, n) /\ AreNumbers(pl, n) /\ n \in Nat /\ n \in 0..n
      <4> HIDE DEF e
      <4>1. n \in Nat /\ n \in 0..n
        BY <1>1
      <4>2. AreNumbers(e, n) /\ AreNumbers(u, n)
        BY <1>5, <1>7 DEF AreNumbers
      <4>3. AreNumbers(pl, n)
        BY <4>1 DEF ArePlaces, AreNumbers
      <4>4. QED
        BY <4>1, <4>2, <4>3
    <3>2. pl[n] \in Nat
      BY <3>1 DEF ArePlaces
    <3>3. AreNumbers(t, n)
      BY <2>1 DEF Less
    <3>4. QED
      BY <3>1, <3>2, <3>3, StandsIs
  <2> DEFINE v == q * pl[n]
  <2>5. v \in Nat
    BY <1>4, <2>4
  <2> HIDE DEF v, T, U, E
  <2>6. T = E + v
    BY <2>2, <2>3, <2>4, <2>5 DEF v
  <2>7. U + e[0] = E + e[0] + 19 * q
    BY <1>4, <1>5, <1>7, <2>4 DEF x
  <2>8. T + 19 * q = U + v
    BY <1>4, <1>5, <2>4, <2>5, <2>6, <2>7
  <2>9. QED
    BY <2>8 DEF v
<1>9. u[0] < Pow2[w[0]] + 19 * m
  BY <1>6, <1>7
<1>10. \A i \in 1..n-1 : u[i] < Pow2[w[i]]
  <2>1. \A i \in 1..n-1 : i \in 0..n-1
    OBVIOUS
  <2>2. QED
    BY <1>2, <1>7, <2>1 DEF Fits
<1>11. q \in Nat
  BY <1>4
<1>12. QED
  BY <1>7, <1>8, <1>9, <1>10, <1>11 DEF u, T, U

\* x is v but for what was folded: 19 for each z.
FoldsTo(x, v, z) == \E q \in Nat : x + 19 * q = v + q * z

\* The first k limbs are carried once more, by up to h.
CarriedOnce(w, n, m, h, k) ==
  h \in Nat /\ k \in 1..n-1 /\ Pow2[w[0]] + 19 * m + h <= (h + 1) * Pow2[w[0]]

\* Every limb then fits its width, but for the one that the last carry is left in.
AreReduced(r, w, n, h, k) ==
  r \in [0..n-1 -> Nat] /\ \A i \in 0..n-1 : r[i] < Pow2[w[i]] + (IF i = k THEN h ELSE 0)

\* A reduction keeps the residue.
LEMMA ReducedIs ==
  ASSUME NEW n, NEW w, NEW pl, ArePlaces(pl, w, n), NEW t, NEW c, NEW m, Foldable(t, w, n, c, m),
         NEW h, NEW k, CarriedOnce(w, n, m, h, k)
  PROVE  /\ AreReduced(Reduced(t, w, k), w, n, h, k)
         /\ Stands(t, pl, n) \in Nat /\ Stands(Reduced(t, w, k), pl, n) \in Nat
         /\ FoldsTo(Stands(t, pl, n), Stands(Reduced(t, w, k), pl, n), pl[n])
<1> DEFINE f == Folded(t, w)
           g == Carries(f, w)
           r == Reduced(t, w, k)
           z == [i \in 0..n-1 |-> 0]
           h2 == [i \in 0..n |-> IF i <= k THEN g[i] ELSE 0]
<1> HIDE DEF Pow2
<1>0. h \in Nat /\ k \in 1..n-1 /\ Pow2[w[0]] + 19 * m + h <= (h + 1) * Pow2[w[0]]
  BY DEF CarriedOnce
<1>1. n \in Nat \ {0} /\ AreWidths(w, n) /\ 0 \in 0..n-1 /\ W \in Nat /\ m \in Nat
      /\ t \in [0..n-1 -> Nat]
  BY WidthIs DEF ArePlaces, AreWidths, Foldable, StaysBelow
<1>2. /\ f \in [0..n-1 -> Nat] /\ f[0] < Pow2[w[0]] + 19 * m
      /\ \A i \in 1..n-1 : f[i] < Pow2[w[i]]
  BY FoldedIs
<1>3. \E q \in Nat : Stands(t, pl, n) + 19 * q = Stands(f, pl, n) + q * pl[n]
  BY FoldedIs
<1>4. \A i \in 0..n-1 : w[i] \in 0..W+13 /\ Pow2[w[i]] \in Nat \ {0}
  BY <1>1, Powers DEF AreWidths
<1> HIDE DEF f
<1>5. StaysBelow(f, w, n, h)
  <2>1. ASSUME NEW i \in 0..n-1 PROVE f[i] + h < (h + 1) * Pow2[w[i]]
    <3> DEFINE d == Pow2[w[i]]
               top == (h + 1) * d
    <3>1. d \in Nat \ {0} /\ f[i] \in Nat
      BY <1>2, <1>4
    <3>2. top \in Nat
      BY <1>0, <3>1
    <3>3. CASE i = 0
      <4>1. f[0] < Pow2[w[0]] + 19 * m /\ Pow2[w[0]] + 19 * m + h <= top
        BY <1>0, <1>2, <3>3
      <4> DEFINE d0 == Pow2[w[0]]
      <4>2. d0 \in Nat /\ f[0] \in Nat
        BY <1>1, <1>2, <1>4
      <4> HIDE DEF d0, top
      <4>3. f[0] + h < top
        BY <1>0, <1>1, <3>2, <4>1, <4>2 DEF d0
      <4>4. QED
        BY <3>3, <4>3 DEF top
    <3>4. CASE i # 0
      <4>1. i \in 1..n-1
        BY <1>1, <3>4
      <4>2. f[i] < d
        BY <1>2, <4>1
      <4> HIDE DEF d
      <4>3. (h + 1) * d = h * d + d /\ h * d >= h
        <5>1. PICK j \in Nat : d = j + 1
          <6>1. d - 1 \in Nat /\ d = (d - 1) + 1
            BY <3>1
          <6>2. QED
            BY <6>1
        <5>2. h * (j + 1) = h * j + h /\ h * j \in Nat
          BY <1>0
        <5>3. (h + 1) * d = h * d + d
          BY <1>0, <3>1
        <5>4. QED
          BY <1>0, <5>1, <5>2, <5>3
      <4> DEFINE hd == h * d
      <4>4. hd \in Nat
        BY <1>0, <3>1
      <4> HIDE DEF hd
      <4>5. f[i] + h < hd + d
        BY <1>0, <3>1, <4>2, <4>3, <4>4 DEF hd
      <4>6. QED
        BY <4>3, <4>5 DEF hd, d
    <3>5. QED
      BY <3>3, <3>4
  <2>2. QED
    BY <1>0, <1>2, <2>1 DEF StaysBelow
<1>6. \A i \in 0..n : g[i] \in 0..h
  BY <1>1, <1>5, CarriesBelow
<1>7. f \in [0..n-1 -> Int]
  BY <1>2
<1>8. /\ g[0] = 0 /\ \A i \in 0..n-1 : f[i] + g[i] = g[i+1] * Pow2[w[i]] + Ripple(f, w).limbs[i]
      /\ Fits(Ripple(f, w).limbs, w, n)
  <2>1. AreWidths(w, n)
    BY <1>1
  <2>2. Leaves(f, g, Ripple(f, w).limbs, w, n)
    BY <1>7, <2>1, RippleAddsUp
  <2> HIDE DEF g
  <2>3. QED
    BY <2>2 DEF Leaves
<1>9. r = [i \in 0..n-1 |-> IF i < k THEN (f[i] + g[i]) % Pow2[w[i]]
                            ELSE IF i = k THEN f[i] + g[i] ELSE f[i]]
  <2>1. DOMAIN t = 0..n-1
    BY <1>1
  <2>2. r = [i \in DOMAIN t |-> IF i < k THEN (f[i] + g[i]) % Pow2[w[i]]
                                ELSE IF i = k THEN f[i] + g[i] ELSE f[i]]
    BY DEF Reduced, f
  <2>3. QED
    BY <2>1, <2>2
<1>10. Ripple(f, w).limbs = [i \in 0..n-1 |-> (f[i] + g[i]) % Pow2[w[i]]]
  <2>1. DOMAIN f = 0..n-1
    BY <1>2
  <2>2. Ripple(f, w).limbs = [i \in DOMAIN f |-> (f[i] + g[i]) % Pow2[w[i]]]
    BY DEF Ripple
  <2>3. QED
    BY <2>1, <2>2
<1> DEFINE e == Ripple(f, w).limbs
<1> HIDE DEF g, r, e
<1>11. ASSUME NEW i \in 0..n-1
       PROVE  /\ r[i] \in Nat /\ r[i] < Pow2[w[i]] + (IF i = k THEN h ELSE 0)
              /\ f[i] + h2[i] = z[i] + h2[i+1] * Pow2[w[i]] + r[i]
  <2> DEFINE d == Pow2[w[i]]
  <2>1. /\ d \in Nat \ {0} /\ f[i] \in Nat /\ e[i] \in Nat /\ e[i] < d /\ z[i] = 0
        /\ i \in 0..n /\ i + 1 \in 0..n
    <3>1. i \in 0..n /\ i + 1 \in 0..n
      BY <1>1
    <3>2. d \in Nat \ {0} /\ f[i] \in Nat /\ z[i] = 0
      BY <1>2, <1>4
    <3>3. e[i] \in Nat /\ e[i] < d
      BY <1>8 DEF Fits, e
    <3>4. QED
      BY <3>1, <3>2, <3>3
  <2>2. /\ f[i] + g[i] = g[i+1] * d + e[i] /\ g[i] \in 0..h /\ g[i+1] \in 0..h
    BY <1>6, <1>8, <2>1 DEF e
  <2>3. 0 * d = 0
    BY <2>1
  <2>4. CASE i < k
    <3>1. r[i] = e[i] /\ h2[i] = g[i] /\ h2[i+1] = g[i+1] /\ i # k
      BY <1>0, <1>9, <1>10, <2>1, <2>4 DEF e
    <3> DEFINE v == g[i+1] * d
    <3>2. v \in Nat /\ f[i] + g[i] = v + e[i]
      BY <2>1, <2>2
    <3> HIDE DEF v, d, h2, z
    <3>3. f[i] + g[i] = z[i] + v + e[i] /\ e[i] < d + 0
      BY <2>1, <2>2, <3>2
    <3>4. QED
      BY <2>1, <3>1, <3>3 DEF v, d
  <2>5. CASE i = k
    <3>1. r[i] = f[i] + g[i] /\ h2[i] = g[i] /\ h2[i+1] = 0 /\ i \in 1..n-1
      BY <1>0, <1>9, <2>1, <2>5
    <3>2. f[i] < d
      BY <1>2, <3>1
    <3> HIDE DEF d, h2, z
    <3>3. f[i] + g[i] \in Nat /\ f[i] + g[i] < d + h /\ f[i] + g[i] = z[i] + 0 + (f[i] + g[i])
      BY <1>0, <2>1, <2>2, <3>2
    <3>4. QED
      BY <2>3, <2>5, <3>1, <3>3 DEF d
  <2>6. CASE i > k
    <3>1. r[i] = f[i] /\ h2[i] = 0 /\ h2[i+1] = 0 /\ i \in 1..n-1 /\ i # k
      BY <1>0, <1>9, <2>1, <2>6
    <3>2. f[i] < d
      BY <1>2, <3>1
    <3> HIDE DEF d, h2, z
    <3>3. f[i] < d + 0 /\ f[i] + 0 = z[i] + 0 + f[i]
      BY <2>1, <3>2
    <3>4. QED
      BY <2>1, <2>3, <3>1, <3>3 DEF d
  <2>7. QED
    BY <1>0, <2>4, <2>5, <2>6
<1>12. r \in [0..n-1 -> Nat]
  <2>1. r = [i \in 0..n-1 |-> r[i]]
    BY <1>9
  <2>2. QED
    BY <1>11, <2>1
<1>13. CarriesOver(f, z, r, h2, w, n) /\ h2[n] = 0
  <2>1. AreNumbers(f, n) /\ AreNumbers(z, n) /\ AreNumbers(r, n)
    BY <1>2, <1>12 DEF AreNumbers
  <2>2. h2[0] = 0 /\ h2[n] = 0 /\ \A i \in 0..n : h2[i] \in Int
    <3>1. 0 \in 0..n /\ n \in 0..n /\ 0 <= k /\ ~(n <= k) /\ \A i \in 0..n : g[i] \in Int
      BY <1>0, <1>1, <1>6
    <3>2. QED
      BY <1>0, <1>8, <3>1
  <2> HIDE DEF h2, z
  <2>3. QED
    BY <1>11, <2>1, <2>2 DEF CarriesOver
<1>14. Stands(z, pl, n) = 0
  <2>1. AreNumbers(pl, n) /\ \A i \in 0..n-1 : z[i] = 0
    BY <1>1 DEF ArePlaces, AreNumbers
  <2> HIDE DEF z
  <2>2. QED
    BY <1>1, <2>1, ZerosStand
<1> HIDE DEF z, h2
<1>15. Stands(f, pl, n) = Stands(r, pl, n)
  <2>1. /\ Stands(f, pl, n) \in Nat /\ Stands(r, pl, n) \in Nat
        /\ Stands(f, pl, n) = Stands(z, pl, n) + Stands(r, pl, n) + h2[n] * pl[n]
    BY <1>13, CarriedStands
  <2>2. pl[n] \in Nat
    <3>1. n \in 0..n
      BY <1>1
    <3>2. QED
      BY <3>1 DEF ArePlaces
  <2>3. 0 * pl[n] = 0
    BY <2>2
  <2>4. QED
    BY <1>13, <1>14, <2>1, <2>3
<1>16. AreReduced(r, w, n, h, k)
  BY <1>11, <1>12 DEF AreReduced
<1>17. FoldsTo(Stands(t, pl, n), Stands(r, pl, n), pl[n])
  BY <1>3, <1>15 DEF FoldsTo
<1>18. Stands(t, pl, n) \in Nat /\ Stands(r, pl, n) \in Nat
  <2>1. AreNumbers(t, n) /\ AreNumbers(r, n) /\ AreNumbers(pl, n) /\ n \in Nat
    BY <1>1, <1>12 DEF ArePlaces, AreNumbers
  <2>2. QED
    BY <2>1, StandsIs
<1>19. QED
  BY <1>16, <1>17, <1>18 DEF r

\* Two rows of n numbers, the second n places up.
Double(pl, n) == [k \in 0..2*n-1 |-> IF k < n THEN pl[k] ELSE pl[n] * pl[k - n]]

\* r are the low numbers and then the high ones.
AreHalves(r, lo, hi, n) ==
  /\ n \in Nat /\ AreNumbers(r, 2 * n)
  /\ \A i \in 0..n-1 : lo[i] = r[i] /\ hi[i] = r[i + n]

\* What is n places up stands for as many times what the place there is.
LEMMA HalvesStand ==
  ASSUME NEW n, NEW w, NEW pl, ArePlaces(pl, w, n), NEW r, NEW lo, NEW hi, AreHalves(r, lo, hi, n)
  PROVE  /\ AreNumbers(Double(pl, n), 2 * n)
         /\ Stands(lo, pl, n) \in Nat /\ Stands(hi, pl, n) \in Nat
         /\ Stands(r, Double(pl, n), 2 * n) = Stands(lo, pl, n) + pl[n] * Stands(hi, pl, n)
<1> DEFINE D == Double(pl, n)
           A == 0..n-1
           B == n..2*n-1
           c == Placed(r, D, 2 * n)
           cl == Placed(lo, pl, n)
           ch == Placed(hi, pl, n)
           Q == pl[n]
           h == [i \in A |-> i + n]
           d == [i \in A |-> c[h[i]]]
<1> HIDE DEF Pow2
<1>1. n \in Nat /\ 2 * n \in Nat /\ A \cup B = 0..2*n-1 /\ A \cap B = {}
  BY DEF ArePlaces, AreWidths
<1>2. \A i \in 0..n : pl[i] \in Nat
  BY DEF ArePlaces
<1>3. Q \in Nat /\ AreNumbers(pl, n)
  <2>1. n \in 0..n /\ \A i \in 0..n-1 : i \in 0..n
    BY <1>1
  <2>2. QED
    BY <1>2, <2>1 DEF AreNumbers
<1>4. ASSUME NEW i \in A
      PROVE  /\ i \in 0..2*n-1 /\ i + n \in 0..2*n-1 /\ i + n \in B
             /\ D[i] = pl[i] /\ D[i + n] = Q * pl[i] /\ pl[i] \in Nat
             /\ lo[i] = r[i] /\ hi[i] = r[i + n] /\ lo[i] \in Nat /\ hi[i] \in Nat
  <2>1. i \in 0..2*n-1 /\ i + n \in 0..2*n-1 /\ i + n \in B /\ i < n /\ ~(i + n < n) /\ (i + n) - n = i
    BY <1>1
  <2>2. D[i] = pl[i] /\ D[i + n] = Q * pl[i] /\ pl[i] \in Nat
    BY <1>3, <2>1 DEF Double, AreNumbers
  <2>3. lo[i] = r[i] /\ hi[i] = r[i + n]
    BY DEF AreHalves
  <2>4. r[i] \in Nat /\ r[i + n] \in Nat
    BY <2>1 DEF AreHalves, AreNumbers
  <2>5. QED
    BY <2>1, <2>2, <2>3, <2>4
<1>5. AreNumbers(lo, n) /\ AreNumbers(hi, n)
  BY <1>4 DEF AreNumbers
<1>6. AreNumbers(D, 2 * n)
  <2>1. ASSUME NEW k \in 0..2*n-1 PROVE D[k] \in Nat
    <3>1. CASE k < n
      BY <1>1, <1>4, <3>1
    <3>2. CASE ~(k < n)
      <4> DEFINE i == k - n
      <4>1. i \in A /\ i + n = k
        BY <1>1, <3>2
      <4> HIDE DEF i, D
      <4>2. D[k] = Q * pl[i] /\ pl[i] \in Nat
        BY <1>4, <4>1
      <4> HIDE DEF Q
      <4>3. Q * pl[i] \in Nat
        BY <1>3, <4>2
      <4>4. QED
        BY <4>2, <4>3
    <3>3. QED
      BY <3>1, <3>2
  <2>2. QED
    BY <2>1 DEF AreNumbers
<1>7. /\ Summed(A, cl) /\ Summed(A, ch) /\ Stands(lo, pl, n) \in Nat /\ Stands(hi, pl, n) \in Nat
      /\ Stands(lo, pl, n) = SumOver(A, cl) /\ Stands(hi, pl, n) = SumOver(A, ch)
  BY <1>1, <1>3, <1>5, StandsIs DEF Stands
<1>8. Summed(0..2*n-1, c) /\ Stands(r, D, 2 * n) = SumOver(0..2*n-1, c)
  BY <1>1, <1>6, StandsIs DEF Stands, AreHalves
<1>9. SumOver(0..2*n-1, c) = SumOver(A, c) + SumOver(B, c)
  <2> HIDE DEF A, B, c
  <2>1. Summed(A \cup B, c) /\ A \cap B = {}
    BY <1>1, <1>8
  <2>2. SumOver(A \cup B, c) = SumOver(A, c) + SumOver(B, c)
    BY <2>1, SumDisjoint
  <2>3. QED
    BY <1>1, <2>2
<1>10. SumOver(A, c) = SumOver(A, cl)
  <2>1. \A i \in A : c[i] = cl[i]
    <3>1. ASSUME NEW i \in A PROVE c[i] = cl[i]
      <4>1. c[i] = r[i] * D[i] /\ cl[i] = lo[i] * pl[i]
        BY <1>4 DEF Placed
      <4>2. QED
        BY <1>4, <4>1
    <3>2. QED
      BY <3>1
  <2> HIDE DEF A, c, cl
  <2>2. QED
    BY <1>7, <2>1, SumSame
<1>11. SumOver(B, c) = SumOver(A, d)
  <2>1. OneToOne(h, A, B)
    <3>1. \A i \in A : h[i] \in B
      BY <1>4
    <3>2. \A i, j \in A : h[i] = h[j] => i = j
      BY <1>1
    <3>3. \A k \in B : k - n \in A /\ h[k - n] = k
      BY <1>1
    <3>4. QED
      BY <3>1, <3>2, <3>3 DEF OneToOne
  <2>2. Summed(B, c) /\ IsFiniteSet(A) /\ \A i \in A : d[i] = c[h[i]]
    <3>1. B \in SUBSET (0..2*n-1)
      BY <1>1
    <3>2. \A i \in A : d[i] = c[h[i]]
      OBVIOUS
    <3> HIDE DEF A, B, c, d, h, cl, ch
    <3>3. Summed(B, c)
      BY <1>8, <3>1, SubsetSummed
    <3>4. IsFiniteSet(A)
      BY <1>7 DEF Summed
    <3>5. QED
      BY <3>2, <3>3, <3>4
  <2> HIDE DEF A, B, c, h, d
  <2>3. QED
    BY <2>1, <2>2, SumRenamed
<1>12. SumOver(A, d) = Q * SumOver(A, ch)
  <2>1. ASSUME NEW i \in A PROVE d[i] = Q * ch[i]
    <3> DEFINE x == hi[i]
               p == pl[i]
    <3>1. d[i] = r[i + n] * D[i + n] /\ ch[i] = x * p
      BY <1>4 DEF Placed
    <3>2. d[i] = x * (Q * p) /\ x \in Nat /\ p \in Nat
      BY <1>4, <3>1
    <3> HIDE DEF x, p, Q, d, ch
    <3>3. x * (Q * p) = Q * (x * p)
      BY <1>3, <3>2
    <3>4. QED
      BY <3>1, <3>2, <3>3
  <2> HIDE DEF A, d, ch, Q
  <2>2. QED
    BY <1>3, <1>7, <2>1, SumTimes
<1>13. QED
  BY <1>6, <1>7, <1>8, <1>9, <1>10, <1>11, <1>12

\* Both places of two limbs are, with their weight, the place they come to.
Meets(weight, o, n) ==
  \A i, j \in 0..n-1 :
    \/ weight[<<i, j>>] = 1 /\ o[i] + o[j] = IF i + j < n THEN o[i + j] ELSE o[n] + o[i + j - n]
    \/ weight[<<i, j>>] = 2 /\ o[i] + o[j] = 1 + IF i + j < n THEN o[i + j] ELSE o[n] + o[i + j - n]

\* The weights make up for it.
LEMMA WeighsIs ==
  ASSUME NEW n, NEW w, AreWidths(w, n), NEW o, \A i \in 0..n : o[i] = Offset(w, i),
         o[n] <= 5 * W + 1, NEW weight, Meets(weight, o, n)
  PROVE  Weighs(weight, Places(w, n), Double(Places(w, n), n), n)
<1> DEFINE pl == Places(w, n)
           D == Double(pl, n)
           z == [i \in 0..2*n-1 |-> 0]
<1> HIDE DEF Pow2, Two
<1>1. /\ n \in Nat \ {0} /\ W \in Nat /\ \A i \in 0..n : o[i] \in Nat /\ pl[i] = Two[o[i]]
  <2>1. \A i \in 0..n : Offset(w, i) \in Nat
    BY OffsetStep
  <2>2. \A i \in 0..n : pl[i] = Two[Offset(w, i)]
    BY DEF Places
  <2> HIDE DEF pl
  <2>3. QED
    BY WidthIs, <2>1, <2>2 DEF AreWidths
<1>2. ArePlaces(pl, w, n)
  <2>1. n \in 0..n /\ o[n] \in Nat
    BY <1>1
  <2>2. Offset(w, n) <= 10 * W + 26
    BY <1>1, <2>1
  <2>3. QED
    BY <2>2, PlacesAre
<1>3. \A i \in 0..n : pl[i] \in Nat \ {0}
  BY <1>2 DEF ArePlaces
<1>4. \A i \in 0..n : o[i] <= o[n]
  <2> DEFINE I == {m \in 0..n : o[n - m] <= o[n]}
  <2>1. 0 \in I
    BY <1>1
  <2>2. ASSUME NEW k \in 1..n, k - 1 \in I PROVE k \in I
    <3>1. n - k \in 0..n-1 /\ n - k \in 0..n /\ (n - k) + 1 = n - (k - 1) /\ n - (k - 1) \in 0..n /\ n \in 0..n
      BY <1>1
    <3>2. o[n - (k - 1)] = o[n - k] + w[n - k] /\ w[n - k] \in Nat
      <4>1. Offset(w, (n - k) + 1) = Offset(w, n - k) + w[n - k]
        BY <3>1, OffsetStep
      <4>2. w[n - k] \in Nat
        BY <1>1, <3>1 DEF AreWidths
      <4>3. QED
        BY <3>1, <4>1, <4>2
    <3>3. o[n - (k - 1)] <= o[n] /\ o[n] \in Nat /\ o[n - k] \in Nat
      BY <1>1, <2>2, <3>1
    <3>4. QED
      BY <3>2, <3>3
  <2> HIDE DEF I
  <2>3. \A k \in 0..n : k \in I
    BY <1>1, <2>1, <2>2, Induct
  <2>4. ASSUME NEW i \in 0..n PROVE o[i] <= o[n]
    <3>1. n - i \in 0..n /\ n - (n - i) = i
      BY <1>1
    <3>2. n - i \in I
      BY <2>3, <3>1
    <3>3. QED
      BY <3>1, <3>2 DEF I
  <2>5. QED
    BY <2>4
<1> HIDE DEF pl
<1>5. ASSUME NEW i \in 0..n-1, NEW j \in 0..n-1
      PROVE  weight[<<i, j>>] \in Nat /\ weight[<<i, j>>] * D[i + j] = pl[i] * pl[j]
  <2> DEFINE s == IF i + j < n THEN o[i + j] ELSE o[n] + o[i + j - n]
             v == weight[<<i, j>>]
  <2>1. /\ i \in 0..n /\ j \in 0..n /\ i + j \in 0..2*n-1 /\ n \in 0..n
        /\ i + j < n => i + j \in 0..n
        /\ ~(i + j < n) => i + j - n \in 0..n
    BY <1>1
  <2>2. o[i] \in Nat /\ o[j] \in Nat /\ o[n] \in Nat /\ o[i] <= o[n] /\ o[j] <= o[n]
    BY <1>1, <1>4, <2>1
  <2>3. s \in Nat /\ s <= 10 * W + 3
    <3>1. CASE i + j < n
      <4>1. s = o[i + j] /\ o[i + j] \in Nat /\ o[i + j] <= o[n]
        BY <1>1, <1>4, <2>1, <3>1
      <4>2. QED
        BY <1>1, <2>2, <4>1
    <3>2. CASE ~(i + j < n)
      <4>1. s = o[n] + o[i + j - n] /\ o[i + j - n] \in Nat /\ o[i + j - n] <= o[n]
        BY <1>1, <1>4, <2>1, <3>2
      <4>2. QED
        BY <1>1, <2>2, <4>1
    <3>3. QED
      BY <3>1, <3>2
  <2>4. D[i + j] = Two[s]
    <3>1. CASE i + j < n
      <4>1. D[i + j] = pl[i + j]
        BY <2>1, <3>1 DEF Double
      <4>2. QED
        BY <1>1, <2>1, <3>1, <4>1
    <3>2. CASE ~(i + j < n)
      <4>1. D[i + j] = pl[n] * pl[i + j - n]
        BY <2>1, <3>2 DEF Double
      <4>2. pl[n] = Two[o[n]] /\ pl[i + j - n] = Two[o[i + j - n]] /\ o[i + j - n] \in Nat /\ s = o[n] + o[i + j - n]
        BY <1>1, <2>1, <3>2
      <4>3. Two[o[n] + o[i + j - n]] = Two[o[n]] * Two[o[i + j - n]]
        <5>1. o[n] + o[i + j - n] <= 10 * W + 26
          BY <1>1, <2>3, <4>2
        <5>2. QED
          BY <2>2, <4>2, <5>1, TwoOfSum
      <4>4. QED
        BY <4>1, <4>2, <4>3
    <3>3. QED
      BY <3>1, <3>2
  <2>5. pl[i] * pl[j] = Two[o[i] + o[j]]
    <3>1. o[i] + o[j] <= 10 * W + 26
      BY <1>1, <2>2
    <3>2. QED
      BY <1>1, <2>1, <2>2, <3>1, TwoOfSum
  <2>6. (v = 1 /\ o[i] + o[j] = s) \/ (v = 2 /\ o[i] + o[j] = 1 + s)
    BY DEF Meets
  <2> HIDE DEF s, v, D
  <2>7. Two[s] \in Nat
    <3>1. s \in 0..10*W+26
      BY <1>1, <2>3
    <3>2. QED
      BY <3>1, TwoIs
  <2>8. CASE v = 1 /\ o[i] + o[j] = s
    <3>1. 1 * Two[s] = Two[s]
      BY <2>7
    <3>2. QED
      BY <2>4, <2>5, <2>8, <3>1 DEF v
  <2>9. CASE v = 2 /\ o[i] + o[j] = 1 + s
    <3>1. 1 + s \in 1..10*W+26 /\ (1 + s) - 1 = s
      BY <1>1, <2>3
    <3>2. Two[1 + s] = 2 * Two[s]
      BY <3>1, TwoIs
    <3>3. QED
      BY <2>4, <2>5, <2>9, <3>2 DEF v
  <2>10. QED
    BY <2>6, <2>8, <2>9
<1>6. AreNumbers(pl, n)
  BY <1>1, <1>3 DEF AreNumbers
<1>7. AreNumbers(D, 2 * n)
  <2>1. AreHalves(z, z, [i \in 0..n-1 |-> 0], n)
    <3>1. ASSUME NEW i \in 0..n-1 PROVE i + n \in 0..2*n-1
      BY <1>1
    <3>2. n \in Nat /\ \A k \in 0..2*n-1 : z[k] = 0 /\ z[k] \in Nat
      BY <1>1
    <3>3. \A i \in 0..n-1 : i \in 0..2*n-1
      BY <1>1
    <3> HIDE DEF z
    <3>4. QED
      BY <3>1, <3>2, <3>3 DEF AreHalves, AreNumbers
  <2> HIDE DEF z
  <2>2. QED
    BY <1>2, <2>1, HalvesStand
<1> HIDE DEF D
<1>8. Weighs(weight, pl, D, n)
  BY <1>1, <1>5, <1>6, <1>7 DEF Weighs
<1>9. QED
  BY <1>8 DEF D, pl

\* Limbs of equal width, and of widths rounded up and down in turn.
LEMMA OffsetsAre ==
  ASSUME NEW n, NEW w, AreWidths(w, n), NEW o, o[0] = 0, \A i \in 0..n-1 : o[i + 1] = o[i] + w[i]
  PROVE  \A i \in 0..n : o[i] = Offset(w, i)
<1> DEFINE I == {i \in 0..n : o[i] = Offset(w, i)}
<1>1. n \in Nat /\ 0 \in 0..n
  BY DEF AreWidths
<1>2. 0 \in I
  BY <1>1, OffsetStep
<1>3. ASSUME NEW k \in 1..n, k - 1 \in I PROVE k \in I
  <2>1. k - 1 \in 0..n-1 /\ (k - 1) + 1 = k /\ k \in 0..n
    BY <1>1
  <2>2. Offset(w, (k - 1) + 1) = Offset(w, k - 1) + w[k - 1]
    BY <2>1, OffsetStep
  <2>3. o[(k - 1) + 1] = o[k - 1] + w[k - 1] /\ o[k - 1] = Offset(w, k - 1)
    BY <1>3, <2>1
  <2>4. QED
    BY <2>1, <2>2, <2>3
<1> HIDE DEF I
<1>4. \A i \in 0..n : i \in I
  BY <1>1, <1>2, <1>3, Induct
<1>5. QED
  BY <1>4 DEF I

\* The weights of a product are those of its form, and so are its places.
LEMMA WeighsEven ==
  ASSUME NEW n \in 1..10, NEW w, AreWidths(w, n), NEW l \in Nat, \A i \in 0..n-1 : w[i] = l,
         n * l <= 5 * W + 1
  PROVE  /\ Weighs(Plain, Places(w, n), Double(Places(w, n), n), n)
         /\ ArePlaces(Places(w, n), w, n) /\ Offset(w, n) = n * l
<1> DEFINE o == [i \in 0..n |-> i * l]
<1>1. n \in Nat /\ W \in Nat /\ 0 \in 0..n /\ n \in 0..n
  BY WidthIs
<1>2. o[0] = 0 /\ o[n] = n * l
  BY <1>1
<1>3. ASSUME NEW i \in 0..n-1 PROVE o[i + 1] = o[i] + w[i]
  <2>1. o[i + 1] = (i + 1) * l /\ o[i] = i * l /\ w[i] = l /\ (i + 1) * l = i * l + l
    BY <1>1
  <2>2. QED
    BY <2>1
<1>4. ASSUME NEW i \in 0..n-1, NEW j \in 0..n-1
      PROVE  /\ Plain[<<i, j>>] = 1
             /\ o[i] + o[j] = IF i + j < n THEN o[i + j] ELSE o[n] + o[i + j - n]
  <2>1. i \in 0..9 /\ j \in 0..9
    <3>1. \A d \in 0..n-1 : d \in 0..9
      <4>1. n \in Nat /\ n <= 10
        OBVIOUS
      <4>2. ASSUME NEW d \in 0..n-1 PROVE d \in 0..9
        BY <4>1
      <4>3. QED
        BY <4>2, Zenon
    <3>2. QED
      BY <3>1
  <2>2. Plain[<<i, j>>] = 1
    BY <2>1 DEF Plain, Pairs
  <2>3. o[i] = i * l /\ o[j] = j * l /\ i * l + j * l = (i + j) * l
    BY <1>1
  <2>4. CASE i + j < n
    <3>1. o[i + j] = (i + j) * l
      BY <1>1, <2>4
    <3>2. QED
      BY <2>2, <2>3, <2>4, <3>1
  <2>5. CASE ~(i + j < n)
    <3>1. o[i + j - n] = (i + j - n) * l
      BY <1>1, <2>5
    <3>2. n * l + (i + j - n) * l = (i + j) * l
      BY <1>1
    <3>3. QED
      BY <1>2, <2>2, <2>3, <2>5, <3>1, <3>2
  <2>6. QED
    BY <2>4, <2>5
<1>5. Meets(Plain, o, n)
  <2> HIDE DEF o
  <2>1. QED
    BY <1>4 DEF Meets
<1> HIDE DEF o
<1>6. \A i \in 0..n : o[i] = Offset(w, i)
  BY <1>2, <1>3, OffsetsAre
<1>7. o[n] <= 5 * W + 1 /\ Offset(w, n) = n * l
  BY <1>1, <1>2, <1>6
<1>8. Weighs(Plain, Places(w, n), Double(Places(w, n), n), n)
  BY <1>5, <1>6, <1>7, WeighsIs
<1>9. Offset(w, n) <= 10 * W + 26
  <2> DEFINE x == n * l
  <2>1. x \in Nat /\ x <= 5 * W + 1
    BY <1>1
  <2> HIDE DEF x
  <2>2. x <= 10 * W + 26
    BY <1>1, <2>1
  <2>3. QED
    BY <1>7, <2>2 DEF x
<1>10. QED
  BY <1>7, <1>8, <1>9, PlacesAre

\* Five limbs of W bits.
LEMMA Weighs51 ==
  ASSUME NEW n, n = 5, NEW w, w = Widths.fe51
  PROVE  /\ Weighs(Plain, Places(w, n), Double(Places(w, n), n), n)
         /\ ArePlaces(Places(w, n), w, n) /\ Places(w, n)[n] = Two[5 * W]
         /\ \A i \in 0..n-1 : w[i] = W
<1>1. AreWidths(w, n) /\ W \in Nat /\ n \in 1..10
  BY Covers51, WidthIs DEF Covers
<1>2. \A i \in 0..n-1 : w[i] = W
  BY DEF Widths
<1>3. n * W <= 5 * W + 1 /\ n * W = 5 * W /\ n \in 0..n
  BY <1>1
<1>4. QED
  BY <1>1, <1>2, <1>3, WeighsEven DEF Places

\* Eight words.
LEMMA Weighs32 ==
  ASSUME NEW n, n = 8, NEW w, w = Widths.fed32
  PROVE  /\ Weighs(Plain, Places(w, n), Double(Places(w, n), n), n)
         /\ ArePlaces(Places(w, n), w, n) /\ Places(w, n)[n] = 2 * Two[5 * W]
         /\ \A i \in 0..n-1 : w[i] = (5 * W + 1) \div 8
<1> DEFINE l == (5 * W + 1) \div 8
<1>1. AreWidths(w, n) /\ W \in Nat /\ n \in 1..10 /\ l \in Nat
  BY Covers32, WidthIs DEF Covers
<1>2. \A i \in 0..n-1 : w[i] = l
  BY DEF Widths
<1>3. n * l = 5 * W + 1 /\ n \in 0..n
  BY LimbAssumption
<1>4. Weighs(Plain, Places(w, n), Double(Places(w, n), n), n) /\ ArePlaces(Places(w, n), w, n)
      /\ Offset(w, n) = n * l
  <2> HIDE DEF l
  <2>1. n * l <= 5 * W + 1
    BY <1>1, <1>3
  <2>2. QED
    BY <1>1, <1>2, <2>1, WeighsEven
<1>5. Two[5 * W + 1] = 2 * Two[5 * W]
  <2>1. 5 * W + 1 \in 1..10*W+26 /\ (5 * W + 1) - 1 = 5 * W
    BY <1>1
  <2>2. QED
    BY <2>1, TwoIs
<1>6. Places(w, n)[n] = Two[Offset(w, n)]
  BY <1>3 DEF Places
<1>7. QED
  BY <1>2, <1>3, <1>4, <1>5, <1>6

\* Ten limbs, two odd ones of which come half a bit too low each.
LEMMA Weighs4 ==
  ASSUME NEW n, n = 10, NEW w, w = Widths.fe4
  PROVE  /\ Weighs(OddTwice, Places(w, n), Double(Places(w, n), n), n)
         /\ ArePlaces(Places(w, n), w, n) /\ Places(w, n)[n] = Two[5 * W]
<1> DEFINE l == W \div 2
           o == [i \in 0..n |-> i * l + (i + 1) \div 2]
<1>1. AreWidths(w, n) /\ W \in Nat /\ l \in Nat /\ W = 2 * l + 1 /\ (W + 1) \div 2 = l + 1 /\ n \in 0..n
  BY Covers4, WidthIs DEF Covers
<1>2. w = [i \in 0..9 |-> IF i % 2 = 0 THEN l + 1 ELSE l]
  BY <1>1 DEF Widths
<1> HIDE DEF l
<1>3. ASSUME NEW i \in 0..n PROVE \E x \in Nat, z \in 0..1 : i = 2 * x + z /\ (i + 1) \div 2 = x + z /\ i % 2 = z
  <2>1. i = 2 * (i \div 2) + (i % 2) /\ i \div 2 \in Nat /\ i % 2 \in 0..1
        /\ (i + 1) \div 2 = (i \div 2) + (i % 2)
    OBVIOUS
  <2>2. QED
    BY <2>1
<1>4. o[0] = 0 /\ o[n] = 10 * l + 5
  BY <1>1
<1>5. ASSUME NEW i \in 0..n-1 PROVE o[i + 1] = o[i] + w[i]
  <2>1. i \in 0..n /\ i + 1 \in 0..n /\ i \in 0..9
    OBVIOUS
  <2>2. o[i + 1] = (i + 1) * l + ((i + 1) + 1) \div 2 /\ o[i] = i * l + (i + 1) \div 2
    BY <2>1
  <2>3. w[i] = IF i % 2 = 0 THEN l + 1 ELSE l
    BY <1>2, <2>1
  <2>4. ((i + 1) + 1) \div 2 = (i + 1) \div 2 + (IF i % 2 = 0 THEN 1 ELSE 0)
        /\ (i + 1) \div 2 \in Nat
    BY <2>1
  <2>5. (i + 1) * l = i * l + l /\ i * l \in Nat
    BY <1>1
  <2> HIDE DEF o
  <2>6. QED
    BY <1>1, <2>2, <2>3, <2>4, <2>5
<1>6. ASSUME NEW i \in 0..n-1, NEW j \in 0..n-1
      PROVE  LET s == IF i + j < n THEN o[i + j] ELSE o[n] + o[i + j - n]
             IN (OddTwice[<<i, j>>] = 1 /\ o[i] + o[j] = s) \/ (OddTwice[<<i, j>>] = 2 /\ o[i] + o[j] = 1 + s)
  <2> DEFINE s == IF i + j < n THEN o[i + j] ELSE o[n] + o[i + j - n]
             v == OddTwice[<<i, j>>]
  <2>1. i \in 0..n /\ j \in 0..n /\ i \in 0..9 /\ j \in 0..9
    OBVIOUS
  <2>2. PICK x \in Nat, z \in 0..1 : i = 2 * x + z /\ (i + 1) \div 2 = x + z /\ i % 2 = z
    BY <1>3, <2>1
  <2>3. PICK x2 \in Nat, z2 \in 0..1 : j = 2 * x2 + z2 /\ (j + 1) \div 2 = x2 + z2 /\ j % 2 = z2
    BY <1>3, <2>1
  <2>4. v = IF z = 1 /\ z2 = 1 THEN 2 ELSE 1
    BY <2>1, <2>2, <2>3 DEF OddTwice, Pairs
  <2>5. o[i] = i * l + (x + z) /\ o[j] = j * l + (x2 + z2)
    BY <2>1, <2>2, <2>3
  <2>6. s = (i + j) * l + (i + j + 1) \div 2
    <3>1. CASE i + j < n
      <4>1. i + j \in 0..n
        BY <3>1
      <4>2. QED
        BY <3>1, <4>1
    <3>2. CASE ~(i + j < n)
      <4>1. i + j - n \in 0..n
        BY <3>2
      <4>2. o[i + j - n] = (i + j - n) * l + ((i + j - n) + 1) \div 2
        BY <4>1
      <4>3. 10 * l + (i + j - n) * l = (i + j) * l /\ (i + j) * l \in Nat /\ (i + j - n) * l \in Nat
        BY <1>1, <4>1
      <4>4. 5 + ((i + j - n) + 1) \div 2 = (i + j + 1) \div 2 /\ ((i + j - n) + 1) \div 2 \in Nat
        BY <4>1
      <4>5. s = o[n] + o[i + j - n]
        BY <3>2
      <4> HIDE DEF o, s
      <4>6. QED
        BY <1>1, <1>4, <4>2, <4>3, <4>4, <4>5
    <3>3. QED
      BY <3>1, <3>2
  <2>7. (i + j + 1) \div 2 = x + x2 + z + z2 - (IF z = 1 /\ z2 = 1 THEN 1 ELSE 0)
    BY <2>2, <2>3
  <2>8. i * l + j * l = (i + j) * l /\ i * l \in Nat /\ j * l \in Nat
    BY <1>1, <2>1
  <2> HIDE DEF o, s, v
  <2>9. (v = 1 /\ o[i] + o[j] = s) \/ (v = 2 /\ o[i] + o[j] = 1 + s)
    BY <2>2, <2>3, <2>4, <2>5, <2>6, <2>7, <2>8
  <2>10. QED
    BY <2>9 DEF s, v
<1>7. Meets(OddTwice, o, n)
  <2> HIDE DEF o
  <2>1. QED
    BY <1>6 DEF Meets
<1> HIDE DEF o
<1>8. \A i \in 0..n : o[i] = Offset(w, i)
  BY <1>1, <1>4, <1>5, OffsetsAre
<1>9. o[n] = 5 * W /\ Offset(w, n) = 5 * W
  BY <1>1, <1>4, <1>8
<1>10. Weighs(OddTwice, Places(w, n), Double(Places(w, n), n), n)
  <2>1. o[n] <= 5 * W + 1
    BY <1>1, <1>9
  <2>2. QED
    BY <1>1, <1>7, <1>8, <2>1, WeighsIs
<1>11. ArePlaces(Places(w, n), w, n)
  <2>1. Offset(w, n) <= 10 * W + 26
    BY <1>1, <1>9
  <2>2. QED
    BY <1>1, <2>1, PlacesAre
<1>12. QED
  BY <1>1, <1>9, <1>10, <1>11 DEF Places

\* The limbs whose products are weighed in the coefficient of degree k.
PairsOf(k, n) == {i \in 0..n-1 : k - i \in 0..n-1}

\* Their products are numbers up to m.
WeighedBelow(weight, a, b, k, n, m) ==
  /\ n \in Nat /\ m \in Nat
  /\ \A i \in PairsOf(k, n) : /\ weight[<<i, k - i>>] * a[i] * b[k - i] \in Nat
                              /\ weight[<<i, k - i>>] * a[i] * b[k - i] <= m

\* A coefficient is as many times that at the most as there are limbs, and the last is zero.
LEMMA DegreeBelow ==
  ASSUME NEW n, NEW k, NEW weight, NEW a, NEW b, NEW m, WeighedBelow(weight, a, b, k, n, m)
  PROVE  /\ Degree(k, n, weight, a, b) \in Nat
         /\ Degree(k, n, weight, a, b) <= n * m
         /\ k = 2 * n - 1 => Degree(k, n, weight, a, b) = 0
<1> DEFINE S == PairsOf(k, n)
           g == [i \in S |-> weight[<<i, k - i>>] * a[i] * b[k - i]]
<1>1. n \in Nat /\ m \in Nat
  BY DEF WeighedBelow
<1>2. Degree(k, n, weight, a, b) = SumOver(S, g)
  BY DEF Degree, PairsOf
<1>3. IsFiniteSet(S) /\ Cardinality(S) \in Nat /\ Cardinality(S) <= n
  <2>1. IsFiniteSet(0..n-1) /\ Cardinality(0..n-1) = n
    <3>1. n - 1 \in Int /\ 0 \in Int
      BY <1>1
    <3>2. /\ IsFiniteSet(0..n-1)
          /\ Cardinality(0..n-1) = IF 0 > n - 1 THEN 0 ELSE (n - 1) - 0 + 1
      BY <3>1, FS_Interval
    <3>3. QED
      BY <1>1, <3>2
  <2>2. S \in SUBSET (0..n-1)
    BY DEF PairsOf
  <2>3. QED
    BY <2>1, <2>2, FS_Subset, FS_CardinalityType
<1>4. \A i \in S : g[i] \in Nat /\ g[i] <= m
  BY DEF WeighedBelow
<1>5. Summed(S, g)
  BY <1>3, <1>4 DEF Summed
<1>6. k = 2 * n - 1 => S = {}
  BY <1>1 DEF PairsOf
<1> HIDE DEF S, g
<1>7. SumOver(S, g) \in Nat /\ (S = {} => SumOver(S, g) = 0)
  BY <1>5, SubsetSummed
<1>8. SumOver(S, g) <= Cardinality(S) * m
  BY <1>1, <1>4, <1>5, SumBound
<1>9. Cardinality(S) * m <= n * m
  <2> DEFINE c == Cardinality(S)
  <2>1. PICK d \in Nat : n = c + d
    <3>1. n - c \in Nat /\ n = c + (n - c)
      BY <1>1, <1>3
    <3>2. QED
      BY <3>1
  <2>2. c \in Nat
    BY <1>3
  <2> HIDE DEF c
  <2>3. (c + d) * m = c * m + d * m /\ c * m \in Nat /\ d * m \in Nat
    BY <1>1, <2>2
  <2> DEFINE x == c * m
             z == d * m
             q == n * m
  <2>4. x \in Nat /\ z \in Nat /\ q = x + z
    BY <2>1, <2>3
  <2> HIDE DEF x, z, q
  <2>5. x <= q
    BY <2>4
  <2>6. QED
    BY <2>5 DEF x, q, c
<1> DEFINE v == SumOver(S, g)
           cm == Cardinality(S) * m
           nm == n * m
<1>10. v \in Nat /\ cm \in Nat /\ nm \in Nat /\ v <= cm /\ cm <= nm
  BY <1>1, <1>3, <1>7, <1>8, <1>9
<1> HIDE DEF v, cm, nm
<1>11. v <= nm
  BY <1>10
<1>12. QED
  BY <1>2, <1>6, <1>7, <1>11 DEF v, nm

\* The products of the limbs of c and d are x times those of a and b.
AreTimes(c, d, a, b, x, n) ==
  /\ x \in Nat /\ AreNumbers(a, n) /\ AreNumbers(b, n) /\ AreNumbers(c, n) /\ AreNumbers(d, n)
  /\ \A i, j \in 0..n-1 : c[i] * d[j] = x * (a[i] * b[j])

\* Weights are numbers.
AreWeights(weight, n) == n \in Nat /\ \A i, j \in 0..n-1 : weight[<<i, j>>] \in Nat

\* Then so are their coefficients.
LEMMA DegreeTimes ==
  ASSUME NEW n, NEW weight, AreWeights(weight, n), NEW a, NEW b, NEW c, NEW d, NEW x,
         AreTimes(c, d, a, b, x, n), NEW k
  PROVE  /\ Degree(k, n, weight, a, b) \in Nat
         /\ Degree(k, n, weight, c, d) = x * Degree(k, n, weight, a, b)
<1> DEFINE S == PairsOf(k, n)
           g == [i \in S |-> weight[<<i, k - i>>] * a[i] * b[k - i]]
           h == [i \in S |-> weight[<<i, k - i>>] * c[i] * d[k - i]]
<1>1. n \in Nat /\ x \in Nat
  BY DEF AreWeights, AreTimes
<1>2. Degree(k, n, weight, a, b) = SumOver(S, g) /\ Degree(k, n, weight, c, d) = SumOver(S, h)
  BY DEF Degree, PairsOf
<1>3. IsFiniteSet(S)
  <2>1. IsFiniteSet(0..n-1)
    BY <1>1, FS_Interval
  <2>2. S \in SUBSET (0..n-1)
    BY DEF PairsOf
  <2>3. QED
    BY <2>1, <2>2, FS_Subset
<1>4. ASSUME NEW i \in S PROVE g[i] \in Nat /\ h[i] = x * g[i]
  <2> DEFINE j == k - i
             v == weight[<<i, j>>]
             a1 == a[i]
             b1 == b[j]
             c1 == c[i]
             d1 == d[j]
  <2>1. i \in 0..n-1 /\ j \in 0..n-1
    BY DEF PairsOf
  <2>2. v \in Nat /\ a1 \in Nat /\ b1 \in Nat /\ c1 \in Nat /\ d1 \in Nat
    BY <2>1 DEF AreWeights, AreTimes, AreNumbers
  <2>3. c1 * d1 = x * (a1 * b1)
    BY <2>1 DEF AreTimes
  <2>4. g[i] = v * a1 * b1 /\ h[i] = v * c1 * d1
    OBVIOUS
  <2> HIDE DEF v, a1, b1, c1, d1, g, h
  <2>5. v * a1 * b1 \in Nat
    <3>1. v * a1 \in Nat
      BY <2>2
    <3>2. QED
      BY <2>2, <3>1
  <2>6. v * c1 * d1 = x * (v * a1 * b1)
    <3>1. v * c1 * d1 = v * (c1 * d1)
      BY <2>2
    <3>2. v * (x * (a1 * b1)) = x * (v * a1 * b1)
      BY <1>1, <2>2
    <3>3. QED
      BY <2>3, <3>1, <3>2
  <2>7. QED
    BY <2>4, <2>5, <2>6
<1>5. Summed(S, g)
  BY <1>3, <1>4 DEF Summed
<1>6. \A i \in S : h[i] = x * g[i]
  BY <1>4
<1> HIDE DEF S, g, h
<1>7. SumOver(S, h) = x * SumOver(S, g) /\ SumOver(S, g) \in Nat
  BY <1>1, <1>5, <1>6, SumTimes, SubsetSummed
<1>8. QED
  BY <1>2, <1>7

\* once are the weights of a square that has each pair of limbs once.
WeighsOnce(once, weight, n) ==
  /\ n \in 1..10
  /\ \A i, j \in 0..n-1 : /\ weight[<<i, j>>] \in Nat /\ weight[<<i, j>>] = weight[<<j, i>>]
                          /\ once[<<i, j>>] = Once[<<i, j>>] * weight[<<i, j>>]

\* A square may double the pairs it has once.
LEMMA DegreeOnce ==
  ASSUME NEW n, NEW weight, NEW once, WeighsOnce(once, weight, n), NEW a, AreNumbers(a, n),
         NEW k \in Nat
  PROVE  Degree(k, n, once, a, a) = Degree(k, n, weight, a, a)
<1> DEFINE S == PairsOf(k, n)
           g == [i \in S |-> weight[<<i, k - i>>] * a[i] * a[k - i]]
           f == [i \in S |-> once[<<i, k - i>>] * a[i] * a[k - i]]
           h == [i \in S |-> k - i]
           r == [i \in S |-> f[h[i]]]
           u == [i \in S |-> 2 * g[i]]
<1>1. n \in Nat /\ n <= 10
  BY DEF WeighsOnce
<1>2. Degree(k, n, weight, a, a) = SumOver(S, g) /\ Degree(k, n, once, a, a) = SumOver(S, f)
  BY DEF Degree, PairsOf
<1>3. IsFiniteSet(S)
  <2>1. IsFiniteSet(0..n-1)
    BY <1>1, FS_Interval
  <2>2. S \in SUBSET (0..n-1)
    BY DEF PairsOf
  <2>3. QED
    BY <2>1, <2>2, FS_Subset
<1>4. ASSUME NEW i \in S
      PROVE  /\ g[i] \in Nat /\ f[i] \in Nat /\ h[i] \in S /\ r[i] \in Nat
             /\ u[i] = f[i] + 1 * r[i] /\ h[h[i]] = i
  <2> DEFINE j == k - i
             v == weight[<<i, j>>]
             a1 == a[i]
             b1 == a[j]
             gi == v * a1 * b1
             o1 == Once[<<i, j>>]
             o2 == Once[<<j, i>>]
  <2>1. i \in 0..n-1 /\ j \in 0..n-1 /\ k - j = i /\ j \in S /\ h[i] = j /\ h[j] = i
    BY <1>1 DEF PairsOf
  <2>2. v \in Nat /\ a1 \in Nat /\ b1 \in Nat
    BY <2>1 DEF WeighsOnce, AreNumbers
  <2>3. once[<<i, j>>] = o1 * v /\ once[<<j, i>>] = o2 * v
    BY <2>1 DEF WeighsOnce
  <2>4. o1 \in 0..2 /\ o2 \in 0..2 /\ o1 + o2 = 2
    <3>1. \A x \in 0..n-1 : x \in 0..9
      <4>1. ASSUME NEW x \in 0..n-1 PROVE x \in 0..9
        BY <1>1
      <4>2. QED
        BY <4>1, Zenon
    <3>2. i \in 0..9 /\ j \in 0..9
      BY <2>1, <3>1
    <3>3. <<i, j>> \in Pairs /\ <<j, i>> \in Pairs
      BY <3>2 DEF Pairs
    <3>4. /\ o1 = IF i < j THEN 2 ELSE IF i = j THEN 1 ELSE 0
          /\ o2 = IF j < i THEN 2 ELSE IF j = i THEN 1 ELSE 0
      BY <3>3 DEF Once
    <3> HIDE DEF j, o1, o2
    <3>5. QED
      BY <3>2, <3>4
  <2>5. g[i] = gi /\ f[i] = once[<<i, j>>] * a1 * b1 /\ f[j] = once[<<j, i>>] * b1 * a1 /\ r[i] = f[j]
    BY <2>1
  <2>6. gi \in Nat
    <3> HIDE DEF v, a1, b1
    <3>1. v * a1 \in Nat
      BY <2>2
    <3>2. QED
      BY <2>2, <3>1
  <2>7. f[i] = o1 * gi /\ f[j] = o2 * gi
    <3>1. f[i] = (o1 * v) * a1 * b1 /\ f[j] = (o2 * v) * b1 * a1
      BY <2>3, <2>5
    <3> HIDE DEF v, a1, b1, o1, o2, f
    <3>2. (o1 * v) * a1 * b1 = o1 * (v * a1 * b1)
      BY <2>2, <2>4
    <3>3. (o2 * v) * b1 * a1 = o2 * (v * a1 * b1)
      BY <2>2, <2>4
    <3>4. QED
      BY <3>1, <3>2, <3>3
  <2>8. u[i] = 2 * gi
    BY <2>5
  <2>9. h[h[i]] = i /\ h[i] \in S
    BY <2>1
  <2> HIDE DEF gi, o1, o2, f, g, u, r, h
  <2>10. f[i] \in Nat /\ f[j] \in Nat /\ 2 * gi = f[i] + 1 * f[j]
    <3>1. o1 * gi \in Nat /\ o2 * gi \in Nat /\ (o1 + o2) * gi = o1 * gi + o2 * gi
      BY <2>4, <2>6
    <3>2. QED
      BY <2>4, <2>6, <2>7, <3>1
  <2>11. QED
    BY <2>5, <2>6, <2>8, <2>9, <2>10
<1>5. Summed(S, g) /\ Summed(S, f) /\ Summed(S, r)
  BY <1>3, <1>4 DEF Summed
<1>6. OneToOne(h, S, S)
  <2>1. ASSUME NEW i \in S, NEW j \in S, h[i] = h[j] PROVE i = j
    <3>1. h[h[i]] = i /\ h[h[j]] = j
      BY <1>4
    <3> HIDE DEF h
    <3>2. QED
      BY <2>1, <3>1
  <2>2. QED
    BY <1>4, <2>1 DEF OneToOne
<1>7. IsLinear(S, u, f, 1, r)
  BY <1>4 DEF IsLinear
<1>8. (\A i \in S : r[i] = f[h[i]]) /\ \A i \in S : u[i] = 2 * g[i]
  OBVIOUS
<1> HIDE DEF S, g, f, h, r, u
<1>9. SumOver(S, r) = SumOver(S, f)
  BY <1>3, <1>5, <1>6, <1>8, SumRenamed
<1>10. 1 \in Nat /\ SumOver(S, u) = SumOver(S, f) + 1 * SumOver(S, r)
  BY <1>5, <1>7, SumLinear
<1>11. 2 \in Nat /\ SumOver(S, u) = 2 * SumOver(S, g)
  BY <1>5, <1>8, SumTimes
<1>12. SumOver(S, f) \in Nat /\ SumOver(S, g) \in Nat
  BY <1>5, SubsetSummed
<1>13. SumOver(S, f) = SumOver(S, g)
  BY <1>9, <1>10, <1>11, <1>12
<1>14. QED
  BY <1>2, <1>13

\* t are the coefficients of a product, the high ones folded: 2^(5W) is 19.
AreFolded(t, weight, a, b, n) ==
  /\ t \in [0..n-1 -> Nat]
  /\ \A k \in 0..n-1 : t[k] = Degree(k, n, weight, a, b) + 19 * Degree(k + n, n, weight, a, b)

\* They stand for the product, less what is folded.
LEMMA FoldedProductStands ==
  ASSUME NEW n, NEW w, NEW pl, ArePlaces(pl, w, n), NEW weight, Weighs(weight, pl, Double(pl, n), n),
         NEW a, AreNumbers(a, n), NEW b, AreNumbers(b, n), NEW t, AreFolded(t, weight, a, b, n)
  PROVE  /\ Stands(a, pl, n) \in Nat /\ Stands(b, pl, n) \in Nat
         /\ FoldsTo(Stands(a, pl, n) * Stands(b, pl, n), Stands(t, pl, n), pl[n])
<1> DEFINE r == [k \in 0..2*n-1 |-> Degree(k, n, weight, a, b)]
           lo == [k \in 0..n-1 |-> r[k]]
           hi == [k \in 0..n-1 |-> r[k + n]]
           D == Double(pl, n)
           L == Stands(lo, pl, n)
           H == Stands(hi, pl, n)
           AB == Stands(a, pl, n) * Stands(b, pl, n)
<1> HIDE DEF Pow2
<1>1. n \in Nat /\ AreNumbers(pl, n) /\ n \in 0..n /\ pl[n] \in Nat
  <2>1. n \in Nat /\ \A i \in 0..n : pl[i] \in Nat
    BY DEF ArePlaces, AreWidths
  <2>2. QED
    BY <2>1 DEF AreNumbers
<1>2. Stands(a, pl, n) \in Nat /\ Stands(b, pl, n) \in Nat
  BY <1>1, StandsIs
<1>3. (\A k \in 0..2*n-1 : r[k] \in Nat) /\ Stands(r, D, 2 * n) = AB
  <2>1. \A k \in 0..2*n-1 : r[k] = Degree(k, n, weight, a, b)
    OBVIOUS
  <2> HIDE DEF r
  <2>2. QED
    BY <2>1, ProductStands
<1>4. AreHalves(r, lo, hi, n)
  BY <1>1, <1>3 DEF AreHalves, AreNumbers
<1>5. L \in Nat /\ H \in Nat /\ Stands(r, D, 2 * n) = L + pl[n] * H
  <2> HIDE DEF r, lo, hi
  <2>1. QED
    BY <1>4, HalvesStand
<1>6. AreNumbers(lo, n) /\ AreNumbers(hi, n)
  <2>1. ASSUME NEW i \in 0..n-1 PROVE i \in 0..2*n-1 /\ i + n \in 0..2*n-1
    BY <1>1
  <2>2. QED
    BY <1>3, <2>1 DEF AreNumbers
<1>7. Stands(t, pl, n) = L + 19 * H
  <2> DEFINE N == 0..n-1
             ct == Placed(t, pl, n)
             cl == Placed(lo, pl, n)
             ch == Placed(hi, pl, n)
  <2>1. Summed(N, cl) /\ Summed(N, ch)
    BY <1>1, <1>6, StandsIs
  <2>2. IsLinear(N, ct, cl, 19, ch)
    <3>1. ASSUME NEW i \in N PROVE ct[i] = cl[i] + 19 * ch[i]
      <4> DEFINE x == lo[i]
                 z == hi[i]
                 p == pl[i]
      <4>1. t[i] = x + 19 * z
        <5>1. i \in 0..2*n-1 /\ i + n \in 0..2*n-1
          BY <1>1
        <5>2. QED
          BY <5>1 DEF AreFolded
      <4>2. x \in Nat /\ z \in Nat /\ p \in Nat
        BY <1>1, <1>6 DEF AreNumbers
      <4>3. ct[i] = t[i] * p /\ cl[i] = x * p /\ ch[i] = z * p
        BY DEF Placed
      <4> HIDE DEF x, z, p, ct, cl, ch
      <4>4. (x + 19 * z) * p = x * p + 19 * (z * p)
        BY <4>2
      <4>5. QED
        BY <4>1, <4>3, <4>4
    <3>2. QED
      BY <3>1 DEF IsLinear
  <2>3. Stands(t, pl, n) = SumOver(N, ct) /\ L = SumOver(N, cl) /\ H = SumOver(N, ch)
    BY DEF Stands
  <2> HIDE DEF N, ct, cl, ch, L, H
  <2>4. 19 \in Nat /\ SumOver(N, ct) = SumOver(N, cl) + 19 * SumOver(N, ch)
    BY <2>1, <2>2, SumLinear
  <2>5. QED
    BY <2>3, <2>4
<1> DEFINE T == Stands(t, pl, n)
           Q == pl[n]
<1> HIDE DEF AB, L, H, T, Q
<1>8. AB + 19 * H = T + H * Q
  <2>1. AB = L + Q * H /\ T = L + 19 * H /\ Q \in Nat
    BY <1>1, <1>3, <1>5, <1>7 DEF T, Q
  <2>2. Q * H = H * Q /\ Q * H \in Nat
    BY <1>5, <2>1
  <2> DEFINE x == Q * H
             z == H * Q
  <2>3. AB = L + x /\ x = z /\ x \in Nat
    BY <2>1, <2>2
  <2> HIDE DEF x, z
  <2>4. AB + 19 * H = T + z
    BY <1>5, <2>1, <2>3
  <2>5. QED
    BY <2>4 DEF z
<1>9. QED
  BY <1>2, <1>5, <1>8 DEF AB, T, Q, FoldsTo

\* What is folded twice is folded.
LEMMA FoldsTwice ==
  ASSUME NEW x \in Nat, NEW v \in Nat, NEW u \in Nat, NEW z \in Nat, FoldsTo(x, v, z), FoldsTo(v, u, z)
  PROVE  FoldsTo(x, u, z)
<1>1. PICK c \in Nat : x + 19 * c = v + c * z
  BY DEF FoldsTo
<1>2. PICK d \in Nat : v + 19 * d = u + d * z
  BY DEF FoldsTo
<1> DEFINE cz == c * z
           dz == d * z
           q == c + d
           qz == q * z
<1>3. qz = cz + dz /\ cz \in Nat /\ dz \in Nat /\ q \in Nat
  OBVIOUS
<1>4. x + 19 * c = v + cz /\ v + 19 * d = u + dz
  BY <1>1, <1>2
<1> HIDE DEF cz, dz, qz
<1>5. x + 19 * q = u + qz
  BY <1>3, <1>4
<1>6. QED
  BY <1>3, <1>5 DEF FoldsTo, qz

\* A product of limbs, reduced.
LEMMA ProductReduced ==
  ASSUME NEW n, NEW w, NEW pl, ArePlaces(pl, w, n), NEW weight, Weighs(weight, pl, Double(pl, n), n),
         NEW a, AreNumbers(a, n), NEW b, AreNumbers(b, n), NEW t, AreFolded(t, weight, a, b, n),
         NEW c, NEW m, Foldable(t, w, n, c, m), NEW h, NEW k, CarriedOnce(w, n, m, h, k)
  PROVE  /\ AreReduced(Reduced(t, w, k), w, n, h, k)
         /\ Stands(a, pl, n) \in Nat /\ Stands(b, pl, n) \in Nat
         /\ FoldsTo(Stands(a, pl, n) * Stands(b, pl, n), Stands(Reduced(t, w, k), pl, n), pl[n])
<1> DEFINE A == Stands(a, pl, n)
           B == Stands(b, pl, n)
           AB == A * B
           T == Stands(t, pl, n)
           R == Stands(Reduced(t, w, k), pl, n)
           z == pl[n]
<1>1. A \in Nat /\ B \in Nat /\ FoldsTo(AB, T, z)
  BY FoldedProductStands
<1>2. AreReduced(Reduced(t, w, k), w, n, h, k)
  BY ReducedIs
<1>3. T \in Nat /\ R \in Nat /\ FoldsTo(T, R, z)
  BY ReducedIs
<1>4. z \in Nat
  <2>1. n \in 0..n
    BY DEF ArePlaces, AreWidths
  <2>2. QED
    BY <2>1 DEF ArePlaces
<1>5. AB \in Nat
  BY <1>1
<1> HIDE DEF AB, T, R, z
<1>6. FoldsTo(AB, R, z)
  BY <1>1, <1>3, <1>4, <1>5, FoldsTwice
<1>7. QED
  BY <1>1, <1>2, <1>6 DEF AB, R, z

-----------------------------------------------------------------------------
(* Products are exact *)

\* How the powers compare that bound the limbs and the words.
LEMMA WideEnough ==
  /\ Pow2[W] \in Nat /\ Pow2[W] >= 2048 /\ Pow2[W + 13] = 8192 * Pow2[W]
  /\ Pow2[W \div 2] \in Nat /\ Pow2[W \div 2] >= 32 /\ Pow2[W \div 2 + 1] = 2 * Pow2[W \div 2]
  /\ Pow2[W + 13] = 16384 * (Pow2[W \div 2] * Pow2[W \div 2])
  /\ W >= 29 => Pow2[W \div 2] >= 16384 /\ Pow2[W] >= 16384
<1> DEFINE l == W \div 2
<1>1. W \in Nat /\ W >= 11 /\ l \in Nat /\ W = 2 * l + 1 /\ l >= 5
  BY WidthIs
<1> HIDE DEF l, Pow2, Two
<1>2. \A k \in 1..14 : k \in 0..W+13 /\ k - 1 \in 0..W+13 /\ Pow2[k] = 2 * Pow2[k - 1]
  <2>1. \A k \in 1..14 : k \in 0..W+13 /\ k - 1 \in 0..W+13 /\ k \in 1..W+13
    BY <1>1
  <2>2. QED
    BY <2>1, Powers
<1>3. Pow2[5] = 32 /\ Pow2[11] = 2048 /\ Pow2[13] = 8192 /\ Pow2[14] = 16384
  <2>1. /\ Pow2[6] = 2 * Pow2[5] /\ Pow2[7] = 2 * Pow2[6] /\ Pow2[8] = 2 * Pow2[7]
        /\ Pow2[9] = 2 * Pow2[8] /\ Pow2[10] = 2 * Pow2[9] /\ Pow2[11] = 2 * Pow2[10]
        /\ Pow2[12] = 2 * Pow2[11] /\ Pow2[13] = 2 * Pow2[12]
        /\ Pow2[14] = 2 * Pow2[13]
    BY <1>2
  <2>2. QED
    BY <2>1, SmallPowers
<1>4. Pow2[W] \in Nat /\ Pow2[l] \in Nat /\ Pow2[l + 1] = 2 * Pow2[l]
  <2>1. W \in 0..W+13 /\ l \in 0..W+13 /\ l + 1 \in 1..W+13 /\ (l + 1) - 1 = l
    BY <1>1
  <2>2. QED
    BY <2>1, Powers
<1>5. Pow2[W] >= 2048 /\ Pow2[l] >= 32 /\ (W >= 29 => Pow2[l] >= 16384 /\ Pow2[W] >= 16384)
  <2>1. /\ 11 \in 0..W+13 /\ W \in 0..W+13 /\ 11 \in 0..W /\ 5 \in 0..W+13 /\ l \in 0..W+13 /\ 5 \in 0..l
        /\ 14 \in 0..W+13 /\ (W >= 29 => 14 \in 0..l /\ 14 \in 0..W)
    BY <1>1
  <2>2. QED
    BY <1>3, <1>4, <2>1, PowersRise
<1>6. Pow2[W + 13] = 8192 * Pow2[W]
  <2>1. W + 13 <= 10 * W + 26 /\ W + 13 \in 0..W+13 /\ W \in 0..W+13 /\ 13 \in 0..W+13
    BY <1>1
  <2>2. Two[W + 13] = Two[W] * Two[13]
    BY <1>1, <2>1, TwoOfSum
  <2>3. Two[W + 13] = Pow2[W + 13] /\ Two[W] = Pow2[W] /\ Two[13] = 8192
    BY <1>3, <2>1, TwoIsPow2
  <2>4. QED
    BY <1>4, <2>2, <2>3
<1>7. Pow2[W] = Pow2[l] * (2 * Pow2[l])
  <2>1. l + (l + 1) <= 10 * W + 26 /\ l + (l + 1) = W /\ W \in 0..W+13 /\ l \in 0..W+13 /\ l + 1 \in 0..W+13
    BY <1>1
  <2>2. Two[l + (l + 1)] = Two[l] * Two[l + 1]
    BY <1>1, <2>1, TwoOfSum
  <2>3. Two[l + (l + 1)] = Pow2[W] /\ Two[l] = Pow2[l] /\ Two[l + 1] = Pow2[l + 1]
    BY <2>1, TwoIsPow2
  <2>4. QED
    BY <1>4, <2>2, <2>3
<1> DEFINE o == Pow2[l]
<1>8. Pow2[W + 13] = 16384 * (Pow2[l] * Pow2[l])
  <2>1. o \in Nat /\ Pow2[W] = o * (2 * o)
    BY <1>4, <1>7
  <2> HIDE DEF o
  <2>2. 8192 * (o * (2 * o)) = 16384 * (o * o)
    BY <2>1
  <2>3. Pow2[W + 13] = 16384 * (o * o)
    BY <1>6, <2>1, <2>2
  <2>4. QED
    BY <2>3 DEF o
<1>9. QED
  BY <1>4, <1>5, <1>6, <1>8 DEF l

\* Up to five times what the width of a limb holds, and up to one and a half times.
AreLoose(t, w, n) == t \in [0..n-1 -> Nat] /\ \A i \in 0..n-1 : t[i] <= 5 * Pow2[w[i]]
AreTight(t, w, n) == t \in [0..n-1 -> Nat] /\ \A i \in 0..n-1 : 2 * t[i] <= 3 * Pow2[w[i]]

\* Limbs that are tight at the width of the code.
AreSettled(t, w, n) == t \in [0..n-1 -> Nat] /\ (W >= 29 => AreTight(t, w, n))

\* The product of two numbers up to two bounds.
LEMMA ProductBelow ==
  ASSUME NEW x \in Nat, NEW z \in Nat, NEW u \in Nat, NEW v \in Nat, x <= u, z <= v
  PROVE  x * z \in Nat /\ u * v \in Nat /\ x * z <= u * v
<1>1. PICK c \in Nat : u = x + c
  <2>1. u - x \in Nat /\ u = x + (u - x)
    OBVIOUS
  <2>2. QED
    BY <2>1
<1>2. PICK d \in Nat : v = z + d
  <2>1. v - z \in Nat /\ v = z + (v - z)
    OBVIOUS
  <2>2. QED
    BY <2>1
<1>3. (x + c) * (z + d) = x * z + x * d + c * z + c * d
  OBVIOUS
<1>4. x * z \in Nat /\ x * d \in Nat /\ c * z \in Nat /\ c * d \in Nat
  OBVIOUS
<1> DEFINE p == x * z
           q == x * d
           r == c * z
           s == c * d
           t == u * v
<1>5. t = p + q + r + s /\ p \in Nat /\ q \in Nat /\ r \in Nat /\ s \in Nat
  BY <1>1, <1>2, <1>3, <1>4
<1> HIDE DEF p, q, r, s, t
<1>6. p <= t /\ t \in Nat
  BY <1>5
<1>7. QED
  BY <1>5, <1>6 DEF p, t

\* A product of five limbs is folded, reduced and tight.
LEMMA Product51 ==
  ASSUME NEW n, n = 5, NEW w, w = Widths.fe51, NEW pl, pl = Places(w, n),
         NEW a, AreLoose(a, w, n), NEW b, AreLoose(b, w, n),
         NEW t, t = [k \in 0..n-1 |-> Degree(k, n, Plain, a, b) + 19 * Degree(k + n, n, Plain, a, b)]
  PROVE  /\ AreSettled(Reduced(t, w, 2), w, n)
         /\ Stands(a, pl, n) \in Nat /\ Stands(b, pl, n) \in Nat
         /\ FoldsTo(Stands(a, pl, n) * Stands(b, pl, n), Stands(Reduced(t, w, 2), pl, n), pl[n])
<1> DEFINE X == Pow2[W]
           XX == X * X
           m == 25 * XX
           r == Reduced(t, w, 2)
<1> HIDE DEF Pow2
<1>1. /\ Weighs(Plain, pl, Double(pl, n), n) /\ ArePlaces(pl, w, n)
      /\ \A i \in 0..n-1 : w[i] = W
  BY Weighs51
<1>2. X \in Nat /\ X >= 2048 /\ Pow2[W + 13] = 8192 * X
  BY WideEnough
<1>3. XX \in Nat /\ m \in Nat
  BY <1>2
<1>4. ASSUME NEW k \in 0..2*n-1
      PROVE  /\ Degree(k, n, Plain, a, b) \in Nat /\ Degree(k, n, Plain, a, b) <= 125 * XX
             /\ k = 2 * n - 1 => Degree(k, n, Plain, a, b) = 0
  <2>1. ASSUME NEW i \in PairsOf(k, n)
        PROVE  Plain[<<i, k - i>>] * a[i] * b[k - i] \in Nat /\ Plain[<<i, k - i>>] * a[i] * b[k - i] <= m
    <3> DEFINE j == k - i
               x == a[i]
               z == b[j]
               p == x * z
    <3>1. i \in 0..n-1 /\ j \in 0..n-1
      BY DEF PairsOf
    <3>2. x \in Nat /\ z \in Nat /\ x <= 5 * X /\ z <= 5 * X
      BY <1>1, <3>1 DEF AreLoose
    <3>3. i \in 0..9 /\ j \in 0..9
      BY <3>1
    <3>4. Plain[<<i, j>>] = 1
      BY <3>3 DEF Plain, Pairs
    <3> HIDE DEF x, z, j, X
    <3>5. p \in Nat /\ p <= (5 * X) * (5 * X)
      BY <1>2, <3>2, ProductBelow
    <3>6. (5 * X) * (5 * X) = m
      BY <1>2
    <3>7. 1 * x * z = p
      BY <3>2
    <3>8. QED
      BY <3>4, <3>5, <3>6, <3>7 DEF j, x, z
  <2>2. WeighedBelow(Plain, a, b, k, n, m)
    <3> HIDE DEF m
    <3>1. QED
      BY <1>3, <2>1 DEF WeighedBelow
  <2> HIDE DEF m
  <2>3. /\ Degree(k, n, Plain, a, b) \in Nat /\ Degree(k, n, Plain, a, b) <= n * m
        /\ k = 2 * n - 1 => Degree(k, n, Plain, a, b) = 0
    BY <2>2, DegreeBelow
  <2>4. n * m = 125 * XX
    BY <1>3 DEF m
  <2>5. QED
    BY <2>3, <2>4
<1> HIDE DEF X, XX
<1>5. ASSUME NEW k \in 0..n-1
      PROVE  t[k] \in Nat /\ t[k] <= 2500 * XX /\ (k = n - 1 => t[k] <= 125 * XX)
  <2>1. k \in 0..2*n-1 /\ k + n \in 0..2*n-1 /\ (k = n - 1 => k + n = 2 * n - 1)
    OBVIOUS
  <2> DEFINE d == Degree(k, n, Plain, a, b)
             e == Degree(k + n, n, Plain, a, b)
  <2>2. d \in Nat /\ d <= 125 * XX /\ e \in Nat /\ e <= 125 * XX /\ (k = n - 1 => e = 0)
    BY <1>4, <2>1
  <2>3. t[k] = d + 19 * e
    OBVIOUS
  <2> HIDE DEF d, e
  <2>4. QED
    BY <1>3, <2>2, <2>3
<1>6. AreFolded(t, Plain, a, b, n)
  <2>1. t \in [0..n-1 -> Nat]
    <3>1. t = [k \in 0..n-1 |-> t[k]]
      OBVIOUS
    <3>2. QED
      BY <1>5, <3>1
  <2>2. \A k \in 0..n-1 : t[k] = Degree(k, n, Plain, a, b) + 19 * Degree(k + n, n, Plain, a, b)
    OBVIOUS
  <2>3. QED
    BY <2>1, <2>2 DEF AreFolded
<1>7. AreNumbers(a, n) /\ AreNumbers(b, n)
  BY DEF AreLoose, AreNumbers
<1> DEFINE c == 2500 * X + 5000
           s == 125 * X + 2600
<1>9. /\ c \in Nat /\ s \in Nat /\ (c + 1) * X = 2500 * XX + 5001 * X /\ (s + 1) * X = 125 * XX + 2601 * X
  <2>1. (2500 * X + 5000 + 1) * X = 2500 * (X * X) + 5001 * X /\ (125 * X + 2600 + 1) * X = 125 * (X * X) + 2601 * X
    BY <1>2
  <2>2. QED
    BY <1>2, <2>1 DEF XX
<1>10. Foldable(t, w, n, c, s)
  <2>1. ASSUME NEW i \in 0..n-1
        PROVE  t[i] + c < (c + 1) * X /\ (i = n - 1 => t[i] + c < (s + 1) * X)
    <3>1. t[i] \in Nat /\ t[i] <= 2500 * XX /\ (i = n - 1 => t[i] <= 125 * XX)
      BY <1>5
    <3>2. t[i] + c < 2500 * XX + 5001 * X /\ (i = n - 1 => t[i] + c < 125 * XX + 2601 * X)
      BY <1>2, <1>3, <3>1
    <3>3. QED
      BY <1>9, <3>2
  <2>2. X + 19 * s <= 8192 * X
    BY <1>2
  <2>3. \A i \in 0..n-1 : Pow2[w[i]] = X
    BY <1>1 DEF X
  <2>4. n - 1 \in 0..n-1 /\ 0 \in 0..n-1 /\ t \in [0..n-1 -> Nat]
    BY <1>6 DEF AreFolded
  <2> HIDE DEF c, s
  <2>5. StaysBelow(t, w, n, c)
    BY <1>9, <2>1, <2>3, <2>4 DEF StaysBelow
  <2>6. t[n - 1] + c < (s + 1) * Pow2[w[n - 1]] /\ Pow2[w[0]] + 19 * s <= Pow2[W + 13]
    BY <1>2, <2>1, <2>2, <2>3, <2>4
  <2>7. QED
    BY <1>9, <2>5, <2>6 DEF Foldable
<1>11. CarriedOnce(w, n, s, 2500, 2)
  <2>1. Pow2[w[0]] = X
    BY <1>1 DEF X
  <2>2. X + 19 * s + 2500 <= (2500 + 1) * X
    BY <1>2
  <2>3. 2500 \in Nat /\ 2 \in 1..n-1
    OBVIOUS
  <2>4. QED
    BY <2>1, <2>2, <2>3 DEF CarriedOnce
<1> HIDE DEF c, s, r
<1>12. /\ AreReduced(Reduced(t, w, 2), w, n, 2500, 2)
       /\ Stands(a, pl, n) \in Nat /\ Stands(b, pl, n) \in Nat
       /\ FoldsTo(Stands(a, pl, n) * Stands(b, pl, n), Stands(Reduced(t, w, 2), pl, n), pl[n])
  BY <1>1, <1>6, <1>7, <1>10, <1>11, ProductReduced
<1>13. AreReduced(r, w, n, 2500, 2)
  BY <1>12 DEF r
<1>14. ASSUME W >= 29 PROVE AreTight(r, w, n)
  <2>1. ASSUME NEW i \in 0..n-1 PROVE 2 * r[i] <= 3 * Pow2[w[i]]
    <3>1. Pow2[w[i]] = X /\ r[i] \in Nat /\ r[i] < X + 2500
      <4>1. Pow2[w[i]] = X
        BY <1>1 DEF X
      <4>2. r[i] < X + (IF i = 2 THEN 2500 ELSE 0) /\ r[i] \in Nat
        BY <1>13, <4>1 DEF AreReduced
      <4>3. QED
        BY <1>2, <4>1, <4>2
    <3>2. X >= 8192
      BY <1>14, WideEnough DEF X
    <3>3. QED
      BY <1>2, <3>1, <3>2
  <2>2. QED
    BY <1>13, <2>1 DEF AreTight, AreReduced
<1>15. r \in [0..n-1 -> Nat]
  BY <1>13 DEF AreReduced
<1>16. AreSettled(r, w, n)
  BY <1>14, <1>15 DEF AreSettled
<1>17. QED
  BY <1>12, <1>16 DEF r

\* Nineteen times a limb fits its word.
LEMMA Nineteen51 ==
  ASSUME NEW n, n = 5, NEW w, w = Widths.fe51, NEW a, AreLoose(a, w, n)
  PROVE  \A i \in 0..n-1 : Word(19 * a[i]) = 19 * a[i]
<1> HIDE DEF Pow2
<1>1. \A i \in 0..n-1 : w[i] = W
  BY Weighs51
<1>2. Pow2[W] \in Nat /\ Pow2[W] >= 2048 /\ Pow2[W + 13] = 8192 * Pow2[W]
  BY WideEnough
<1>3. W + 13 \in 0..W+13
  BY WidthIs
<1>4. ASSUME NEW i \in 0..n-1 PROVE Word(19 * a[i]) = 19 * a[i]
  <2> DEFINE x == 19 * a[i]
  <2>1. a[i] \in Nat /\ a[i] <= 5 * Pow2[W]
    BY <1>1 DEF AreLoose
  <2>2. x \in Nat /\ x < Pow2[W + 13]
    BY <1>2, <2>1
  <2> HIDE DEF x
  <2>3. Word(x) = x
    BY <1>3, <2>2, WordsHold
  <2>4. QED
    BY <2>3 DEF x
<1>5. QED
  BY <1>4

\* What a product leaves: limbs of the same residue, tight ones at the width of the code.
IsProduct(r, a, b, w, pl, n) ==
  /\ AreSettled(r, w, n)
  /\ Stands(a, pl, n) \in Nat /\ Stands(b, pl, n) \in Nat /\ Stands(r, pl, n) \in Nat
  /\ FoldsTo(Stands(a, pl, n) * Stands(b, pl, n), Stands(r, pl, n), pl[n])

LEMMA Product51Is ==
  ASSUME NEW n, n = 5, NEW w, w = Widths.fe51, NEW pl, pl = Places(w, n),
         NEW a, AreLoose(a, w, n), NEW b, AreLoose(b, w, n),
         NEW t, t = [k \in 0..n-1 |-> Degree(k, n, Plain, a, b) + 19 * Degree(k + n, n, Plain, a, b)]
  PROVE  IsProduct(Reduced(t, w, 2), a, b, w, pl, n)
<1> DEFINE r == Reduced(t, w, 2)
<1>1. /\ AreSettled(r, w, n) /\ Stands(a, pl, n) \in Nat /\ Stands(b, pl, n) \in Nat
      /\ FoldsTo(Stands(a, pl, n) * Stands(b, pl, n), Stands(r, pl, n), pl[n])
  BY Product51
<1>2. Stands(r, pl, n) \in Nat
  <2>1. ArePlaces(pl, w, n)
    BY Weighs51
  <2>2. AreNumbers(pl, n) /\ n \in Nat /\ AreNumbers(r, n)
    <3> HIDE DEF r
    <3>1. QED
      BY <1>1, <2>1 DEF ArePlaces, AreNumbers, AreSettled
  <2> HIDE DEF r
  <2>3. QED
    BY <2>2, StandsIs
<1>3. QED
  BY <1>1, <1>2 DEF IsProduct

\* fe_mul: the high coefficients of 19 times the one operand.
LEMMA MulIs51 ==
  ASSUME NEW n, n = 5, NEW w, w = Widths.fe51, NEW pl, pl = Places(w, n),
         NEW a, AreLoose(a, w, n), NEW b, AreLoose(b, w, n)
  PROVE  IsProduct(fe_mul(a, b), a, b, w, pl, n)
<1> DEFINE a19 == [i \in 0..n-1 |-> Word(19 * a[i])]
           t == [k \in 0..n-1 |-> Degree(k, n, Plain, a, b) + 19 * Degree(k + n, n, Plain, a, b)]
           u == [k \in 0..n-1 |-> Degree(k, n, Plain, a, b) + Degree(k + n, n, Plain, a19, b)]
<1>1. AreTimes(a19, b, a, b, 19, n)
  <2>1. \A i \in 0..n-1 : a19[i] = 19 * a[i]
    BY Nineteen51
  <2>2. \A i \in 0..n-1 : a[i] \in Nat /\ b[i] \in Nat
    BY DEF AreLoose
  <2> HIDE DEF a19
  <2>3. AreNumbers(a, n) /\ AreNumbers(b, n) /\ AreNumbers(a19, n) /\ 19 \in Nat
    BY <2>1, <2>2 DEF AreNumbers
  <2>4. ASSUME NEW i \in 0..n-1, NEW j \in 0..n-1 PROVE a19[i] * b[j] = 19 * (a[i] * b[j])
    <3>1. a[i] \in Nat /\ b[j] \in Nat /\ a19[i] = 19 * a[i]
      BY <2>1, <2>2
    <3>2. QED
      BY <3>1
  <2>5. QED
    BY <2>3, <2>4 DEF AreTimes
<1>2. AreWeights(Plain, n)
  <2>1. ASSUME NEW i \in 0..n-1, NEW j \in 0..n-1 PROVE Plain[<<i, j>>] \in Nat
    <3>1. i \in 0..9 /\ j \in 0..9
      OBVIOUS
    <3>2. QED
      BY <3>1 DEF Plain, Pairs
  <2>2. n \in Nat
    OBVIOUS
  <2>3. QED
    BY <2>1, <2>2 DEF AreWeights
<1> HIDE DEF a19
<1>3. ASSUME NEW k \in 0..n-1 PROVE u[k] = t[k]
  <2>1. Degree(k + n, n, Plain, a19, b) = 19 * Degree(k + n, n, Plain, a, b)
    BY <1>1, <1>2, DegreeTimes
  <2>2. QED
    BY <2>1
<1>4. u = t
  BY <1>3
<1>5. fe_mul(a, b) = Reduced(u, w, 2)
  BY DEF fe_mul, a19
<1> HIDE DEF u, t
<1>6. IsProduct(Reduced(t, w, 2), a, b, w, pl, n)
  BY Product51Is DEF t
<1>7. QED
  BY <1>4, <1>5, <1>6

\* fe_sq: each pair of limbs once.
LEMMA SqIs51 ==
  ASSUME NEW n, n = 5, NEW w, w = Widths.fe51, NEW pl, pl = Places(w, n),
         NEW a, AreLoose(a, w, n)
  PROVE  IsProduct(fe_sq(a), a, a, w, pl, n)
<1> DEFINE a19 == [i \in 0..n-1 |-> Word(19 * a[i])]
           t == [k \in 0..n-1 |-> Degree(k, n, Plain, a, a) + 19 * Degree(k + n, n, Plain, a, a)]
           u == [k \in 0..n-1 |-> Degree(k, n, Once, a, a) + Degree(k + n, n, Once, a, a19)]
<1>1. AreTimes(a, a19, a, a, 19, n)
  <2>1. \A i \in 0..n-1 : a19[i] = 19 * a[i]
    BY Nineteen51
  <2>2. \A i \in 0..n-1 : a[i] \in Nat
    BY DEF AreLoose
  <2> HIDE DEF a19
  <2>3. AreNumbers(a, n) /\ AreNumbers(a19, n) /\ 19 \in Nat
    BY <2>1, <2>2 DEF AreNumbers
  <2>4. ASSUME NEW i \in 0..n-1, NEW j \in 0..n-1 PROVE a[i] * a19[j] = 19 * (a[i] * a[j])
    <3>1. a[i] \in Nat /\ a[j] \in Nat /\ a19[j] = 19 * a[j]
      BY <2>1, <2>2
    <3>2. QED
      BY <3>1
  <2>5. QED
    BY <2>3, <2>4 DEF AreTimes
<1>2. WeighsOnce(Once, Plain, n) /\ AreWeights(Once, n)
  <2>1. ASSUME NEW i \in 0..n-1, NEW j \in 0..n-1
        PROVE  Plain[<<i, j>>] = 1 /\ Plain[<<j, i>>] = 1 /\ Once[<<i, j>>] \in Nat
    <3>1. i \in 0..9 /\ j \in 0..9
      OBVIOUS
    <3>2. QED
      BY <3>1 DEF Plain, Once, Pairs
  <2>2. n \in Nat /\ n \in 1..10
    OBVIOUS
  <2>3. AreWeights(Once, n)
    BY <2>1, <2>2 DEF AreWeights
  <2>4. ASSUME NEW i \in 0..n-1, NEW j \in 0..n-1
        PROVE  /\ Plain[<<i, j>>] \in Nat /\ Plain[<<i, j>>] = Plain[<<j, i>>]
               /\ Once[<<i, j>>] = Once[<<i, j>>] * Plain[<<i, j>>]
    <3>1. Plain[<<i, j>>] = 1 /\ Plain[<<j, i>>] = 1 /\ Once[<<i, j>>] \in Nat
      BY <2>1
    <3>2. QED
      BY <3>1
  <2>5. QED
    BY <2>2, <2>3, <2>4 DEF WeighsOnce
<1>3. AreNumbers(a, n)
  BY DEF AreLoose, AreNumbers
<1> HIDE DEF a19
<1>4. ASSUME NEW k \in 0..n-1 PROVE u[k] = t[k]
  <2>1. Degree(k + n, n, Once, a, a19) = 19 * Degree(k + n, n, Once, a, a)
    BY <1>1, <1>2, DegreeTimes
  <2>2. k \in Nat /\ k + n \in Nat
    OBVIOUS
  <2>3. Degree(k, n, Once, a, a) = Degree(k, n, Plain, a, a)
    BY <1>2, <1>3, <2>2, DegreeOnce
  <2>4. Degree(k + n, n, Once, a, a) = Degree(k + n, n, Plain, a, a)
    BY <1>2, <1>3, <2>2, DegreeOnce
  <2>5. QED
    BY <2>1, <2>3, <2>4
<1>5. u = t
  BY <1>4
<1>6. fe_sq(a) = Reduced(u, w, 2)
  BY DEF fe_sq, a19
<1> HIDE DEF u, t
<1>7. IsProduct(Reduced(t, w, 2), a, a, w, pl, n)
  BY Product51Is DEF t
<1>8. QED
  BY <1>5, <1>6, <1>7

\* The widths of the ten limbs, and the powers that they stand for.
LEMMA Widths4 ==
  ASSUME NEW w, w = Widths.fe4, NEW l, l = W \div 2, NEW i \in 0..9
  PROVE  /\ w[i] = (IF i % 2 = 0 THEN l + 1 ELSE l)
         /\ Pow2[w[i]] = (IF i % 2 = 0 THEN 2 * Pow2[l] ELSE Pow2[l])
<1> HIDE DEF Pow2
<1>1. w[i] = IF i % 2 = 0 THEN (W + 1) \div 2 ELSE W \div 2
  BY DEF Widths
<1>2. (W + 1) \div 2 = l + 1
  BY WidthIs
<1>3. Pow2[l + 1] = 2 * Pow2[l]
  BY WideEnough
<1>4. QED
  BY <1>1, <1>2, <1>3

\* A product of two loose limbs, weighed.
LEMMA Weighed4 ==
  ASSUME NEW n, n = 10, NEW w, w = Widths.fe4, NEW a, AreLoose(a, w, n), NEW b, AreLoose(b, w, n),
         NEW o, o = Pow2[W \div 2], NEW i \in 0..n-1, NEW j \in 0..n-1,
         NEW x, x = OddTwice[<<i, j>>] * a[i] * b[j]
  PROVE  x \in Nat /\ x <= 50 * (o * (IF (i + j) % 2 = 0 THEN 2 * o ELSE o))
<1> DEFINE l == W \div 2
           a1 == a[i]
           b1 == b[j]
           p == a1 * b1
           oo == o * o
<1> HIDE DEF Pow2
<1>1. o \in Nat
  BY WideEnough
<1>2. i \in 0..9 /\ j \in 0..9
  OBVIOUS
<1>3. /\ a1 \in Nat /\ a1 <= 5 * (IF i % 2 = 0 THEN 2 * o ELSE o)
      /\ b1 \in Nat /\ b1 <= 5 * (IF j % 2 = 0 THEN 2 * o ELSE o)
  BY <1>2, Widths4 DEF AreLoose
<1>4. OddTwice[<<i, j>>] = IF i % 2 = 1 /\ j % 2 = 1 THEN 2 ELSE 1
  BY <1>2 DEF OddTwice, Pairs
<1>5. oo \in Nat /\ o * (2 * o) = 2 * oo
  BY <1>1
<1>6. p \in Nat
  BY <1>3
<1>7. x = (IF i % 2 = 1 /\ j % 2 = 1 THEN 2 ELSE 1) * p
  <2>1. x = (IF i % 2 = 1 /\ j % 2 = 1 THEN 2 ELSE 1) * a1 * b1
    BY <1>4
  <2> HIDE DEF a1, b1
  <2>2. 2 * a1 * b1 = 2 * (a1 * b1) /\ 1 * a1 * b1 = 1 * (a1 * b1)
    BY <1>3
  <2>3. QED
    BY <2>1, <2>2
<1>8. 10 * o \in Nat /\ 5 * o \in Nat
  BY <1>1
<1>9. /\ (10 * o) * (10 * o) = 100 * oo /\ (10 * o) * (5 * o) = 50 * oo
      /\ (5 * o) * (10 * o) = 50 * oo /\ (5 * o) * (5 * o) = 25 * oo
  BY <1>1
<1> HIDE DEF a1, b1
<1>10. CASE i % 2 = 0 /\ j % 2 = 0
  <2>1. a1 <= 10 * o /\ b1 <= 10 * o
    BY <1>1, <1>3, <1>10
  <2>2. a1 * b1 <= (10 * o) * (10 * o)
    BY <1>3, <1>8, <2>1, ProductBelow
  <2>3. (i + j) % 2 = 0
    BY <1>2, <1>10
  <2> HIDE DEF p, oo
  <2>4. p <= 100 * oo /\ x = p
    BY <1>6, <1>7, <1>9, <1>10, <2>2 DEF p
  <2>5. 50 * (o * (2 * o)) = 100 * oo
    BY <1>5
  <2>6. QED
    BY <1>6, <2>3, <2>4, <2>5
<1>11. CASE i % 2 = 0 /\ j % 2 # 0
  <2>1. a1 <= 10 * o /\ b1 <= 5 * o
    BY <1>1, <1>3, <1>11
  <2>2. a1 * b1 <= (10 * o) * (5 * o)
    BY <1>3, <1>8, <2>1, ProductBelow
  <2>3. (i + j) % 2 # 0
    BY <1>2, <1>11
  <2> HIDE DEF p
  <2>4. p <= 50 * oo /\ x = p
    BY <1>6, <1>7, <1>9, <1>11, <2>2 DEF p
  <2>5. QED
    BY <1>6, <2>3, <2>4
<1>12. CASE i % 2 # 0 /\ j % 2 = 0
  <2>1. a1 <= 5 * o /\ b1 <= 10 * o
    BY <1>1, <1>3, <1>12
  <2>2. a1 * b1 <= (5 * o) * (10 * o)
    BY <1>3, <1>8, <2>1, ProductBelow
  <2>3. (i + j) % 2 # 0
    BY <1>2, <1>12
  <2> HIDE DEF p
  <2>4. p <= 50 * oo /\ x = p
    BY <1>6, <1>7, <1>9, <1>12, <2>2 DEF p
  <2>5. QED
    BY <1>6, <2>3, <2>4
<1>13. CASE i % 2 # 0 /\ j % 2 # 0
  <2>1. a1 <= 5 * o /\ b1 <= 5 * o
    BY <1>1, <1>3, <1>13
  <2>2. a1 * b1 <= (5 * o) * (5 * o)
    BY <1>3, <1>8, <2>1, ProductBelow
  <2>3. (i + j) % 2 = 0 /\ i % 2 = 1 /\ j % 2 = 1
    BY <1>2, <1>13
  <2> HIDE DEF p, oo
  <2>4. p <= 25 * oo /\ x = 2 * p
    BY <1>6, <1>7, <1>9, <2>2, <2>3 DEF p
  <2>5. 50 * (o * (2 * o)) = 100 * oo
    BY <1>5
  <2>6. QED
    BY <1>5, <1>6, <2>3, <2>4, <2>5
<1>14. QED
  BY <1>10, <1>11, <1>12, <1>13

\* The coefficients of a product of ten limbs.
LEMMA Degrees4 ==
  ASSUME NEW n, n = 10, NEW w, w = Widths.fe4, NEW a, AreLoose(a, w, n), NEW b, AreLoose(b, w, n),
         NEW o, o = Pow2[W \div 2], NEW k \in 0..2*n-1
  PROVE  /\ Degree(k, n, OddTwice, a, b) \in Nat
         /\ Degree(k, n, OddTwice, a, b) <= 500 * (o * (IF k % 2 = 0 THEN 2 * o ELSE o))
         /\ k = 2 * n - 1 => Degree(k, n, OddTwice, a, b) = 0
<1> DEFINE e == IF k % 2 = 0 THEN 2 * o ELSE o
           oe == o * e
           m == 50 * oe
<1> HIDE DEF Pow2
<1>1. o \in Nat
  BY WideEnough
<1>2. e \in Nat
  BY <1>1
<1> HIDE DEF e
<1>3. oe \in Nat
  BY <1>1, <1>2
<1> HIDE DEF oe
<1>4. m \in Nat /\ n * m = 500 * oe
  BY <1>3
<1>5. WeighedBelow(OddTwice, a, b, k, n, m)
  <2>1. ASSUME NEW i \in PairsOf(k, n)
        PROVE  OddTwice[<<i, k - i>>] * a[i] * b[k - i] \in Nat /\ OddTwice[<<i, k - i>>] * a[i] * b[k - i] <= m
    <3> DEFINE j == k - i
               x == OddTwice[<<i, j>>] * a[i] * b[j]
    <3>1. i \in 0..n-1 /\ j \in 0..n-1 /\ i + j = k
      BY DEF PairsOf
    <3> HIDE DEF j
    <3>2. x \in Nat /\ x <= 50 * (o * (IF (i + j) % 2 = 0 THEN 2 * o ELSE o))
      BY <3>1, Weighed4
    <3>3. x \in Nat /\ x <= m
      BY <3>1, <3>2 DEF m, oe, e
    <3>4. QED
      BY <3>3 DEF j
  <2> HIDE DEF m
  <2>2. n \in Nat
    OBVIOUS
  <2>3. QED
    BY <1>4, <2>1, <2>2 DEF WeighedBelow
<1> HIDE DEF m
<1>6. /\ Degree(k, n, OddTwice, a, b) \in Nat /\ Degree(k, n, OddTwice, a, b) <= n * m
      /\ k = 2 * n - 1 => Degree(k, n, OddTwice, a, b) = 0
  BY <1>5, DegreeBelow
<1>7. QED
  BY <1>4, <1>6 DEF oe, e

\* A product of ten limbs is folded and reduced.
LEMMA Product4Is ==
  ASSUME NEW n, n = 10, NEW w, w = Widths.fe4, NEW pl, pl = Places(w, n),
         NEW a, AreLoose(a, w, n), NEW b, AreLoose(b, w, n),
         NEW t, t = [k \in 0..n-1 |-> Degree(k, n, OddTwice, a, b) + 19 * Degree(k + n, n, OddTwice, a, b)]
  PROVE  IsProduct(Reduced(t, w, 1), a, b, w, pl, n)
<1> DEFINE o == Pow2[W \div 2]
           oo == o * o
           e(k) == IF k % 2 = 0 THEN 2 * o ELSE o
           c == 10000 * o + 11000
           m == 500 * o + 10500
           r == Reduced(t, w, 1)
<1> HIDE DEF Pow2
<1>1. /\ Weighs(OddTwice, pl, Double(pl, n), n) /\ ArePlaces(pl, w, n)
  BY Weighs4
<1>2. o \in Nat /\ o >= 32 /\ Pow2[W + 13] = 16384 * oo /\ (W >= 29 => o >= 16384)
  BY WideEnough
<1>3. oo \in Nat
  BY <1>2
<1>4. \A k \in 0..n-1 : Pow2[w[k]] = e(k) /\ e(k) \in Nat /\ (e(k) = o \/ e(k) = 2 * o)
  <2>1. ASSUME NEW k \in 0..n-1 PROVE Pow2[w[k]] = e(k)
    <3>1. k \in 0..9
      OBVIOUS
    <3>2. QED
      BY <3>1, Widths4
  <2>2. QED
    BY <1>2, <2>1
<1>5. ASSUME NEW k \in 0..n-1
      PROVE  t[k] \in Nat /\ t[k] <= 10000 * (o * e(k)) /\ (k = n - 1 => t[k] <= 500 * oo)
  <2> DEFINE d == Degree(k, n, OddTwice, a, b)
             f == Degree(k + n, n, OddTwice, a, b)
             x == o * e(k)
  <2>1. k \in 0..2*n-1 /\ k + n \in 0..2*n-1 /\ (k = n - 1 => k + n = 2 * n - 1)
        /\ (k + n) % 2 = k % 2
    OBVIOUS
  <2>2. d \in Nat /\ d <= 500 * (o * (IF k % 2 = 0 THEN 2 * o ELSE o))
    BY <2>1, Degrees4
  <2>3. /\ f \in Nat /\ f <= 500 * (o * (IF (k + n) % 2 = 0 THEN 2 * o ELSE o))
        /\ k + n = 2 * n - 1 => f = 0
    BY <2>1, Degrees4
  <2>4. d <= 500 * x /\ f <= 500 * x /\ (k = n - 1 => f = 0)
    BY <2>1, <2>2, <2>3
  <2>5. x \in Nat
    BY <1>2, <1>4
  <2>6. t[k] = d + 19 * f
    OBVIOUS
  <2>7. k = n - 1 => x = oo
    OBVIOUS
  <2> HIDE DEF d, f, x, e, oo
  <2>8. d + 19 * f \in Nat /\ d + 19 * f <= 10000 * x /\ (k = n - 1 => d + 19 * f <= 500 * oo)
    BY <2>2, <2>3, <2>4, <2>5, <2>7
  <2>9. QED
    BY <2>6, <2>8 DEF x
<1>6. AreFolded(t, OddTwice, a, b, n)
  <2>1. t \in [0..n-1 -> Nat]
    <3>1. t = [k \in 0..n-1 |-> t[k]]
      OBVIOUS
    <3>2. QED
      BY <1>5, <3>1
  <2>2. \A k \in 0..n-1 : t[k] = Degree(k, n, OddTwice, a, b) + 19 * Degree(k + n, n, OddTwice, a, b)
    OBVIOUS
  <2>3. QED
    BY <2>1, <2>2 DEF AreFolded
<1>7. AreNumbers(a, n) /\ AreNumbers(b, n)
  BY DEF AreLoose, AreNumbers
<1>8. c \in Nat /\ m \in Nat
  BY <1>2
<1>9. Foldable(t, w, n, c, m)
  <2>1. ASSUME NEW i \in 0..n-1 PROVE t[i] + c < (c + 1) * Pow2[w[i]]
    <3> DEFINE d == Pow2[w[i]]
               od == o * d
               v == t[i]
    <3>1. v \in Nat /\ v <= 10000 * od /\ d \in Nat /\ d >= o
      BY <1>2, <1>4, <1>5
    <3>2. (10000 * o + 11000 + 1) * d = 10000 * (o * d) + 11001 * d
      BY <1>2, <3>1
    <3>3. od \in Nat
      BY <1>2, <3>1
    <3> DEFINE g == (c + 1) * d
    <3>4. g = 10000 * od + 11001 * d
      BY <3>2
    <3> HIDE DEF v, d, od, o, g
    <3>5. v + c < g
      BY <1>2, <3>1, <3>3, <3>4
    <3>6. QED
      BY <3>5 DEF v, d, g
  <2>2. t[n - 1] + c < (m + 1) * Pow2[w[n - 1]]
    <3> DEFINE v == t[n - 1]
               g == (m + 1) * o
    <3>1. n - 1 \in 0..n-1 /\ (n - 1) % 2 # 0
      OBVIOUS
    <3>2. v \in Nat /\ v <= 500 * oo /\ Pow2[w[n - 1]] = o
      BY <1>4, <1>5, <3>1
    <3>3. (500 * o + 10500 + 1) * o = 500 * (o * o) + 10501 * o
      BY <1>2
    <3>4. g = 500 * oo + 10501 * o
      BY <3>3
    <3> HIDE DEF v, g, oo, o
    <3>5. v + c < g
      BY <1>2, <1>3, <3>2, <3>4
    <3>6. QED
      BY <3>2, <3>5 DEF v, g
  <2>3. Pow2[w[0]] + 19 * m <= Pow2[W + 13]
    <3>1. 0 \in 0..n-1 /\ 0 % 2 = 0
      OBVIOUS
    <3>2. Pow2[w[0]] = 2 * o
      BY <1>4, <3>1
    <3>3. oo >= 32 * o
      <4>1. PICK g \in Nat : o = 32 + g
        <5>1. o - 32 \in Nat /\ o = 32 + (o - 32)
          BY <1>2
        <5>2. QED
          BY <5>1
      <4> HIDE DEF o
      <4>2. (32 + g) * o = 32 * o + g * o /\ g * o \in Nat
        BY <1>2
      <4>3. oo = 32 * o + g * o
        BY <4>1, <4>2
      <4> DEFINE x == g * o
      <4> HIDE DEF x, oo
      <4>4. oo = 32 * o + x /\ x \in Nat
        BY <4>2, <4>3 DEF x
      <4>5. QED
        BY <1>2, <4>4
    <3> HIDE DEF oo, o
    <3>4. 2 * o + 19 * m <= 16384 * oo
      BY <1>2, <1>3, <3>3
    <3>5. QED
      BY <1>2, <3>2, <3>4
  <2>4. t \in [0..n-1 -> Nat]
    BY <1>6 DEF AreFolded
  <2> HIDE DEF c, m
  <2>5. StaysBelow(t, w, n, c)
    BY <1>8, <2>1, <2>4 DEF StaysBelow
  <2>6. QED
    BY <1>8, <2>2, <2>3, <2>5 DEF Foldable
<1>10. CarriedOnce(w, n, m, 8190, 1)
  <2>1. 0 \in 0..n-1 /\ 0 % 2 = 0 /\ 8190 \in Nat /\ 1 \in 1..n-1
    OBVIOUS
  <2>2. Pow2[w[0]] = 2 * o
    BY <1>4, <2>1
  <2> HIDE DEF o
  <2>3. 2 * o + 19 * m + 8190 <= (8190 + 1) * (2 * o)
    BY <1>2
  <2>4. QED
    BY <2>1, <2>2, <2>3 DEF CarriedOnce
<1> HIDE DEF c, m
<1>11. /\ AreReduced(Reduced(t, w, 1), w, n, 8190, 1)
       /\ Stands(a, pl, n) \in Nat /\ Stands(b, pl, n) \in Nat
       /\ FoldsTo(Stands(a, pl, n) * Stands(b, pl, n), Stands(Reduced(t, w, 1), pl, n), pl[n])
  BY <1>1, <1>6, <1>7, <1>9, <1>10, ProductReduced
<1>12. AreReduced(r, w, n, 8190, 1)
  BY <1>11
<1>13. r \in [0..n-1 -> Nat]
  BY <1>12 DEF AreReduced
<1>14. ASSUME W >= 29 PROVE AreTight(r, w, n)
  <2>1. ASSUME NEW i \in 0..n-1 PROVE 2 * r[i] <= 3 * Pow2[w[i]]
    <3> DEFINE d == Pow2[w[i]]
               v == r[i]
    <3>1. d \in Nat /\ d >= 16384 /\ v \in Nat /\ v < d + (IF i = 1 THEN 8190 ELSE 0)
      <4>1. v < d + (IF i = 1 THEN 8190 ELSE 0) /\ v \in Nat
        BY <1>12 DEF AreReduced
      <4>2. d \in Nat /\ d >= 16384
        BY <1>2, <1>4, <1>14
      <4>3. QED
        BY <4>1, <4>2
    <3> HIDE DEF d, v
    <3>2. 2 * v <= 3 * d
      BY <3>1
    <3>3. QED
      BY <3>2 DEF d, v
  <2> HIDE DEF r
  <2>2. QED
    BY <1>13, <2>1 DEF AreTight
<1> HIDE DEF r
<1>15. Stands(r, pl, n) \in Nat
  <2>1. AreNumbers(pl, n) /\ n \in Nat /\ AreNumbers(r, n)
    BY <1>1, <1>13 DEF ArePlaces, AreNumbers
  <2>2. QED
    BY <2>1, StandsIs
<1>16. FoldsTo(Stands(a, pl, n) * Stands(b, pl, n), Stands(r, pl, n), pl[n])
  BY <1>11 DEF r
<1>17. IsProduct(r, a, b, w, pl, n)
  <2>1. AreSettled(r, w, n)
    BY <1>13, <1>14 DEF AreSettled
  <2>2. QED
    BY <1>11, <2>1, <1>15, <1>16 DEF IsProduct
<1>18. QED
  BY <1>17 DEF r

\* vpmuludq reads all of a loose limb.
LEMMA Halves4 ==
  ASSUME NEW n, n = 10, NEW w, w = Widths.fe4, NEW a, AreLoose(a, w, n)
  PROVE  [i \in 0..n-1 |-> Half(a[i])] = a
<1> DEFINE l == W \div 2
<1> HIDE DEF Pow2
<1>1. l \in Nat /\ l + 4 \in 0..W+13 /\ l + 4 <= (W + 13) \div 2 /\ l + 1 \in 0..W+13
      /\ l + 2 \in 1..W+13 /\ l + 3 \in 1..W+13 /\ l + 4 \in 1..W+13
      /\ (l + 2) - 1 = l + 1 /\ (l + 3) - 1 = l + 2 /\ (l + 4) - 1 = l + 3
  BY WidthIs
<1>2. Pow2[l] \in Nat /\ Pow2[l] >= 32 /\ Pow2[l + 1] = 2 * Pow2[l]
  BY WideEnough
<1>3. Pow2[l + 4] = 16 * Pow2[l]
  <2>1. Pow2[l + 2] = 2 * Pow2[l + 1] /\ Pow2[l + 3] = 2 * Pow2[l + 2] /\ Pow2[l + 4] = 2 * Pow2[l + 3]
    BY <1>1, Powers
  <2>2. QED
    BY <1>2, <2>1
<1>4. ASSUME NEW i \in 0..n-1 PROVE Half(a[i]) = a[i]
  <2>1. a[i] \in Nat /\ a[i] <= 5 * Pow2[w[i]]
    BY DEF AreLoose
  <2>2. i \in 0..9
    OBVIOUS
  <2>3. Pow2[w[i]] = Pow2[l] \/ Pow2[w[i]] = 2 * Pow2[l]
    BY <2>2, Widths4
  <2> DEFINE x == a[i]
  <2>4. x \in Nat /\ x < Pow2[l + 4]
    BY <1>2, <1>3, <2>1, <2>3
  <2> HIDE DEF x
  <2>5. l + 4 <= (W + 13) \div 2 => Half(x) = x
    BY <1>1, <2>4, WordsHold
  <2>6. QED
    BY <1>1, <2>5 DEF x
<1>5. a \in [0..n-1 -> Nat]
  BY DEF AreLoose
<1>6. QED
  BY <1>4, <1>5

\* fe4_mul.
LEMMA MulIs4 ==
  ASSUME NEW n, n = 10, NEW w, w = Widths.fe4, NEW pl, pl = Places(w, n),
         NEW a, AreLoose(a, w, n), NEW b, AreLoose(b, w, n)
  PROVE  IsProduct(fe4_mul(a, b), a, b, w, pl, n)
<1> DEFINE t == [k \in 0..n-1 |-> Degree(k, n, OddTwice, a, b) + 19 * Degree(k + n, n, OddTwice, a, b)]
           a2 == [i \in 0..n-1 |-> Half(a[i])]
           b2 == [i \in 0..n-1 |-> Half(b[i])]
           u == [k \in 0..n-1 |-> Degree(k, n, OddTwice, a2, b2) + 19 * Degree(k + n, n, OddTwice, a2, b2)]
<1>1. a2 = a /\ b2 = b
  BY Halves4
<1>2. fe4_mul(a, b) = Reduced(u, w, 1)
  BY DEF fe4_mul, Product4
<1> HIDE DEF a2, b2
<1>3. u = t
  BY <1>1
<1> HIDE DEF u, t
<1>4. IsProduct(Reduced(t, w, 1), a, b, w, pl, n)
  BY Product4Is DEF t
<1>5. QED
  BY <1>2, <1>3, <1>4

\* fe4_sq: each pair of limbs once.
LEMMA SqIs4 ==
  ASSUME NEW n, n = 10, NEW w, w = Widths.fe4, NEW pl, pl = Places(w, n),
         NEW a, AreLoose(a, w, n)
  PROVE  IsProduct(fe4_sq(a), a, a, w, pl, n)
<1> DEFINE t == [k \in 0..n-1 |-> Degree(k, n, OddTwice, a, a) + 19 * Degree(k + n, n, OddTwice, a, a)]
           a2 == [i \in 0..n-1 |-> Half(a[i])]
           u == [k \in 0..n-1 |-> Degree(k, n, OnceOddTwice, a2, a2) + 19 * Degree(k + n, n, OnceOddTwice, a2, a2)]
<1>1. a2 = a
  BY Halves4
<1>2. fe4_sq(a) = Reduced(u, w, 1)
  BY DEF fe4_sq, Product4
<1> HIDE DEF a2
<1>3. WeighsOnce(OnceOddTwice, OddTwice, n)
  <2>1. ASSUME NEW i \in 0..n-1, NEW j \in 0..n-1
        PROVE  /\ OddTwice[<<i, j>>] \in Nat /\ OddTwice[<<i, j>>] = OddTwice[<<j, i>>]
               /\ OnceOddTwice[<<i, j>>] = Once[<<i, j>>] * OddTwice[<<i, j>>]
    <3>1. i \in 0..9 /\ j \in 0..9
      OBVIOUS
    <3>2. <<i, j>> \in Pairs /\ <<j, i>> \in Pairs
      BY <3>1 DEF Pairs
    <3>3. OnceOddTwice[<<i, j>>] = Once[<<i, j>>] * OddTwice[<<i, j>>]
      BY <3>2 DEF OnceOddTwice
    <3>4. /\ OddTwice[<<i, j>>] = IF i % 2 = 1 /\ j % 2 = 1 THEN 2 ELSE 1
          /\ OddTwice[<<j, i>>] = IF j % 2 = 1 /\ i % 2 = 1 THEN 2 ELSE 1
      BY <3>2 DEF OddTwice
    <3>5. QED
      BY <3>3, <3>4
  <2>2. n \in 1..10
    OBVIOUS
  <2>3. QED
    BY <2>1, <2>2 DEF WeighsOnce
<1>4. AreNumbers(a, n)
  BY DEF AreLoose, AreNumbers
<1>5. ASSUME NEW k \in 0..n-1 PROVE u[k] = t[k]
  <2>1. k \in Nat /\ k + n \in Nat
    OBVIOUS
  <2>2. Degree(k, n, OnceOddTwice, a, a) = Degree(k, n, OddTwice, a, a)
    BY <1>3, <1>4, <2>1, DegreeOnce
  <2>3. Degree(k + n, n, OnceOddTwice, a, a) = Degree(k + n, n, OddTwice, a, a)
    BY <1>3, <1>4, <2>1, DegreeOnce
  <2>4. QED
    BY <1>1, <2>2, <2>3
<1>6. u = t
  BY <1>5
<1> HIDE DEF u, t
<1>7. IsProduct(Reduced(t, w, 1), a, a, w, pl, n)
  BY Product4Is DEF t
<1>8. QED
  BY <1>2, <1>6, <1>7

\* Limbs may be added one by one.
AreSums(e, a, b, n) == n \in Nat /\ AreNumbers(a, n) /\ AreNumbers(b, n) /\ \A i \in 0..n-1 : e[i] = a[i] + b[i]

LEMMA StandsSum ==
  ASSUME NEW n, NEW a, NEW b, NEW e, AreSums(e, a, b, n), NEW pl, AreNumbers(pl, n)
  PROVE  /\ AreNumbers(e, n) /\ Stands(a, pl, n) \in Nat /\ Stands(b, pl, n) \in Nat
         /\ Stands(e, pl, n) = Stands(a, pl, n) + Stands(b, pl, n)
<1> DEFINE N == 0..n-1
           ca == Placed(a, pl, n)
           cb == Placed(b, pl, n)
           ce == Placed(e, pl, n)
<1>1. n \in Nat /\ AreNumbers(a, n) /\ AreNumbers(b, n)
  BY DEF AreSums
<1>2. Summed(N, ca) /\ Summed(N, cb) /\ Stands(a, pl, n) \in Nat /\ Stands(b, pl, n) \in Nat
  BY <1>1, StandsIs
<1>3. IsLinear(N, ce, ca, 1, cb)
  <2>1. ASSUME NEW i \in N PROVE ce[i] = ca[i] + 1 * cb[i]
    <3> DEFINE x == a[i]
               z == b[i]
               p == pl[i]
    <3>1. e[i] = x + z /\ x \in Nat /\ z \in Nat /\ p \in Nat
      BY DEF AreSums, AreNumbers
    <3>2. ce[i] = e[i] * p /\ ca[i] = x * p /\ cb[i] = z * p
      BY DEF Placed
    <3> HIDE DEF x, z, p, ce, ca, cb
    <3>3. (x + z) * p = x * p + 1 * (z * p)
      BY <3>1
    <3>4. QED
      BY <3>1, <3>2, <3>3
  <2>2. QED
    BY <2>1 DEF IsLinear
<1>4. AreNumbers(e, n)
  BY DEF AreSums, AreNumbers
<1>5. Stands(e, pl, n) = SumOver(N, ce) /\ Stands(a, pl, n) = SumOver(N, ca) /\ Stands(b, pl, n) = SumOver(N, cb)
  BY DEF Stands
<1> HIDE DEF N, ca, cb, ce
<1>6. 1 \in Nat /\ SumOver(N, ce) = SumOver(N, ca) + 1 * SumOver(N, cb)
  BY <1>2, <1>3, SumLinear
<1>7. QED
  BY <1>2, <1>4, <1>5, <1>6

\* m times what the widths hold, less m; but in the first limb less c.
IsTop(p, w, n, m, c) ==
  /\ m \in Nat /\ c \in Nat /\ p \in [0..n-1 -> Nat] /\ p[0] + c = m * Pow2[w[0]]
  /\ \A i \in 1..n-1 : p[i] + m = m * Pow2[w[i]]

\* It stands for m times the place past the last, less c.
LEMMA TopStands ==
  ASSUME NEW n, NEW w, NEW pl, ArePlaces(pl, w, n), NEW p, NEW m, NEW c, IsTop(p, w, n, m, c)
  PROVE  Stands(p, pl, n) \in Nat /\ Stands(p, pl, n) + c = m * pl[n]
<1> DEFINE s == [i \in 0..n-1 |-> IF i = 0 THEN p[0] + c ELSE p[i]]
           z == [i \in 0..n-1 |-> 0]
           g == [i \in 0..n |-> IF i = 0 THEN 0 ELSE m]
<1> HIDE DEF Pow2
<1>1. n \in Nat \ {0} /\ AreWidths(w, n) /\ 0 \in 0..n-1 /\ AreNumbers(pl, n) /\ pl[n] \in Nat /\ n \in 0..n
  <2>1. n \in Nat \ {0} /\ AreWidths(w, n) /\ \A i \in 0..n : pl[i] \in Nat
    BY DEF ArePlaces, AreWidths
  <2>2. QED
    BY <2>1 DEF AreNumbers
<1>2. \A i \in 0..n-1 : Pow2[w[i]] \in Nat \ {0}
  BY <1>1, Powers DEF AreWidths
<1>3. m \in Nat /\ c \in Nat /\ p \in [0..n-1 -> Nat] /\ p[0] + c = m * Pow2[w[0]]
  BY DEF IsTop
<1>4. \A i \in 1..n-1 : p[i] + m = m * Pow2[w[i]]
  BY DEF IsTop
<1>5. AreNumbers(p, n) /\ AreNumbers(s, n) /\ AreNumbers(z, n) /\ p[0] \in Nat
  BY <1>1, <1>3 DEF AreNumbers
<1>6. CarriesOver(s, z, z, g, w, n)
  <2>1. g[0] = 0 /\ \A i \in 0..n : g[i] \in Int
    BY <1>1, <1>3
  <2>2. ASSUME NEW i \in 0..n-1 PROVE s[i] + g[i] = z[i] + g[i+1] * Pow2[w[i]] + z[i]
    <3>1. i \in 0..n /\ i + 1 \in 0..n /\ i + 1 # 0 /\ (i # 0 => i \in 1..n-1) /\ z[i] = 0
      BY <1>1
    <3>2. g[i+1] = m /\ g[i] = IF i = 0 THEN 0 ELSE m
      BY <3>1
    <3>3. s[i] + g[i] = m * Pow2[w[i]]
      <4>1. CASE i = 0
        BY <1>3, <1>5, <3>2, <4>1
      <4>2. CASE i # 0
        BY <1>4, <3>1, <3>2, <4>2
      <4>3. QED
        BY <4>1, <4>2
    <3> DEFINE v == m * Pow2[w[i]]
    <3>4. v \in Nat
      BY <1>2, <1>3
    <3> HIDE DEF v, s, g, z
    <3>5. s[i] + g[i] = z[i] + v + z[i]
      BY <3>1, <3>3, <3>4 DEF v
    <3>6. QED
      BY <3>2, <3>5 DEF v
  <2> HIDE DEF s, g, z
  <2>3. QED
    BY <1>5, <2>1, <2>2 DEF CarriesOver
<1>7. Stands(z, pl, n) = 0
  <2>1. \A i \in 0..n-1 : z[i] = 0
    OBVIOUS
  <2> HIDE DEF z
  <2>2. QED
    BY <1>1, <2>1, ZerosStand
<1>8. g[n] = m
  BY <1>1
<1> HIDE DEF z, g
<1>9. Stands(s, pl, n) = m * pl[n]
  <2>1. Stands(s, pl, n) = Stands(z, pl, n) + Stands(z, pl, n) + g[n] * pl[n]
    BY <1>6, CarriedStands
  <2> DEFINE v == m * pl[n]
  <2>2. v \in Nat
    BY <1>1, <1>3
  <2>3. Stands(s, pl, n) = 0 + 0 + v
    BY <1>7, <1>8, <2>1
  <2> HIDE DEF v
  <2>4. QED
    BY <2>2, <2>3 DEF v
<1>10. WithFirst(p, s, p[0], n)
  <2>1. s \in [0..n-1 -> Nat]
    BY <1>1, <1>3, <1>5
  <2>2. p = [s EXCEPT ![0] = p[0]]
    BY <1>1, <1>3
  <2> HIDE DEF s
  <2>3. QED
    BY <1>5, <2>1, <2>2 DEF WithFirst
<1>11. s[0] = p[0] + c
  BY <1>1
<1> HIDE DEF s
<1>12. Stands(p, pl, n) + s[0] = Stands(s, pl, n) + p[0]
  BY <1>10, StandsWithFirst
<1>13. Stands(p, pl, n) \in Nat /\ Stands(s, pl, n) \in Nat
  BY <1>1, <1>5, StandsIs
<1>14. Stands(p, pl, n) + c = Stands(s, pl, n)
  BY <1>3, <1>5, <1>11, <1>12, <1>13
<1>15. QED
  BY <1>9, <1>13, <1>14

\* 8 times the prime, limb by limb, is 8 times 2^(5W), less 152.
LEMMA EightTimesP ==
  ASSUME NEW n, NEW w, NEW pl, ArePlaces(pl, w, n), NEW p, p = TimesP(8, w), \A i \in 0..n-1 : Pow2[w[i]] >= 32
  PROVE  AreNumbers(p, n) /\ Stands(p, pl, n) \in Nat /\ Stands(p, pl, n) + 152 = 8 * pl[n]
<1> HIDE DEF Pow2
<1>1. n \in Nat \ {0} /\ AreWidths(w, n) /\ 0 \in 0..n-1
  BY DEF ArePlaces, AreWidths
<1>2. \A i \in 0..n-1 : Pow2[w[i]] \in Nat \ {0}
  BY <1>1, Powers DEF AreWidths
<1>3. DOMAIN w = 0..n-1
  BY <1>1 DEF AreWidths
<1>4. \A i \in 0..n-1 : p[i] = IF i = 0 THEN 8 * (Pow2[w[i]] - 19) ELSE 8 * (Pow2[w[i]] - 1)
  BY <1>3 DEF TimesP
<1>5. p = [i \in 0..n-1 |-> p[i]]
  BY <1>3 DEF TimesP
<1>6. \A i \in 0..n-1 : /\ p[i] \in Nat /\ (i # 0 => p[i] + 8 = 8 * Pow2[w[i]])
                        /\ (i = 0 => p[i] + 152 = 8 * Pow2[w[i]])
  BY <1>2, <1>4
<1>7. IsTop(p, w, n, 8, 152)
  <2>1. p \in [0..n-1 -> Nat]
    BY <1>5, <1>6
  <2>2. \A i \in 1..n-1 : i \in 0..n-1 /\ i # 0
    BY <1>1
  <2>3. QED
    BY <1>1, <1>6, <2>1, <2>2 DEF IsTop
<1>8. AreNumbers(p, n)
  BY <1>6 DEF AreNumbers
<1>9. QED
  BY <1>7, <1>8, TopStands

\* Limbs that fit stand for less than the place past the last.
LEMMA FitsBelow ==
  ASSUME NEW n, NEW w, NEW pl, ArePlaces(pl, w, n), NEW t, Fits(t, w, n)
  PROVE  Stands(t, pl, n) \in Nat /\ Stands(t, pl, n) < pl[n] /\ pl[n] \in Nat
<1> DEFINE p == [i \in 0..n-1 |-> Pow2[w[i]] - 1]
           e == [i \in 0..n-1 |-> p[i] - t[i]]
<1> HIDE DEF Pow2
<1>1. n \in Nat \ {0} /\ AreWidths(w, n) /\ 0 \in 0..n-1 /\ AreNumbers(pl, n) /\ pl[n] \in Nat
  <2>1. n \in Nat \ {0} /\ n \in 0..n /\ AreWidths(w, n) /\ \A i \in 0..n : pl[i] \in Nat
    BY DEF ArePlaces, AreWidths
  <2>2. QED
    BY <2>1 DEF AreNumbers
<1>2. \A i \in 0..n-1 : Pow2[w[i]] \in Nat \ {0} /\ t[i] \in Nat /\ t[i] < Pow2[w[i]]
  BY <1>1, Powers DEF AreWidths, Fits
<1>3. \A i \in 0..n-1 : p[i] \in Nat /\ e[i] \in Nat /\ p[i] + 1 = 1 * Pow2[w[i]] /\ p[i] = t[i] + e[i]
  BY <1>2
<1>4. p \in [0..n-1 -> Nat]
  BY <1>3
<1> HIDE DEF p, e
<1>5. IsTop(p, w, n, 1, 1)
  <2>1. \A i \in 1..n-1 : i \in 0..n-1
    BY <1>1
  <2>2. QED
    BY <1>1, <1>3, <1>4, <2>1 DEF IsTop
<1>6. AreSums(p, t, e, n)
  BY <1>1, <1>2, <1>3 DEF AreSums, AreNumbers
<1>7. Stands(p, pl, n) \in Nat /\ Stands(p, pl, n) + 1 = 1 * pl[n]
  BY <1>5, TopStands
<1>8. /\ Stands(t, pl, n) \in Nat /\ Stands(e, pl, n) \in Nat
      /\ Stands(p, pl, n) = Stands(t, pl, n) + Stands(e, pl, n)
  BY <1>1, <1>6, StandsSum
<1>9. QED
  BY <1>1, <1>7, <1>8

\* Limbs of some bits.
IsWide(w, n) ==
  /\ n \in Nat /\ 1 \in 1..n-1
  /\ \A i \in 0..n-1 : Pow2[w[i]] \in Nat /\ Pow2[w[i]] >= 32 /\ Pow2[w[i]] <= Pow2[W]
  /\ Pow2[w[0]] >= 64

\* Limbs of a sum or a difference.
AreSmall(t, w, n) == t \in [0..n-1 -> Nat] /\ \A i \in 0..n-1 : t[i] <= 13 * Pow2[w[i]]

\* The limbs of a sum or of a difference are carried, and are tight.
LEMMA SmallReduced ==
  ASSUME NEW n, NEW w, NEW pl, ArePlaces(pl, w, n), IsWide(w, n), NEW t, AreSmall(t, w, n)
  PROVE  /\ AreTight(Reduced(t, w, 1), w, n)
         /\ Stands(t, pl, n) \in Nat /\ Stands(Reduced(t, w, 1), pl, n) \in Nat
         /\ FoldsTo(Stands(t, pl, n), Stands(Reduced(t, w, 1), pl, n), pl[n])
<1> HIDE DEF Pow2
<1>1. /\ n \in Nat /\ 1 \in 1..n-1 /\ 0 \in 0..n-1 /\ n - 1 \in 0..n-1
      /\ \A i \in 0..n-1 : Pow2[w[i]] \in Nat /\ Pow2[w[i]] >= 32 /\ Pow2[w[i]] <= Pow2[W]
      /\ Pow2[w[0]] >= 64
  BY DEF IsWide
<1>2. Pow2[W] \in Nat /\ Pow2[W] >= 2048 /\ Pow2[W + 13] = 8192 * Pow2[W]
  BY WideEnough
<1>3. t \in [0..n-1 -> Nat] /\ \A i \in 0..n-1 : t[i] \in Nat /\ t[i] <= 13 * Pow2[w[i]]
  BY DEF AreSmall
<1> DEFINE c == 14
<1>4. Foldable(t, w, n, c, c)
  <2>1. \A i \in 0..n-1 : t[i] + c < (c + 1) * Pow2[w[i]]
    <3>1. ASSUME NEW i \in 0..n-1 PROVE t[i] + c < (c + 1) * Pow2[w[i]]
      <4> DEFINE d == Pow2[w[i]]
                 v == t[i]
      <4>1. v \in Nat /\ v <= 13 * d /\ d \in Nat /\ d >= 32
        BY <1>1, <1>3
      <4> HIDE DEF d, v
      <4>2. v + 14 < 15 * d
        BY <4>1
      <4>3. QED
        BY <4>2 DEF d, v
    <3>2. QED
      BY <3>1
  <2>2. Pow2[w[0]] + 19 * c <= Pow2[W + 13] /\ c \in Nat
    BY <1>1, <1>2
  <2> HIDE DEF c
  <2>3. StaysBelow(t, w, n, c)
    BY <1>3, <2>1, <2>2 DEF StaysBelow
  <2>4. QED
    BY <1>1, <2>1, <2>2, <2>3 DEF Foldable
<1>5. CarriedOnce(w, n, 14, 8, 1)
  <2>1. Pow2[w[0]] + 19 * 14 + 8 <= (8 + 1) * Pow2[w[0]]
    BY <1>1
  <2>2. QED
    BY <1>1, <2>1 DEF CarriedOnce
<1> DEFINE r == Reduced(t, w, 1)
<1>6. /\ AreReduced(r, w, n, 8, 1)
      /\ Stands(t, pl, n) \in Nat /\ Stands(r, pl, n) \in Nat
      /\ FoldsTo(Stands(t, pl, n), Stands(r, pl, n), pl[n])
  BY <1>4, <1>5, ReducedIs DEF c
<1> HIDE DEF r
<1>7. AreTight(r, w, n)
  <2>1. ASSUME NEW i \in 0..n-1 PROVE 2 * r[i] <= 3 * Pow2[w[i]]
    <3>1. r[i] < Pow2[w[i]] + (IF i = 1 THEN 8 ELSE 0) /\ r[i] \in Nat
      BY <1>6 DEF AreReduced
    <3>2. QED
      BY <1>1, <3>1
  <2>2. QED
    BY <1>6, <2>1 DEF AreTight, AreReduced
<1>8. QED
  BY <1>6, <1>7 DEF r

\* The widths of five and of ten limbs.
LEMMA AreWide ==
  /\ IsWide(Widths.fe51, 5) /\ \A i \in 0..4 : Pow2[Widths.fe51[i]] = Pow2[W]
  /\ IsWide(Widths.fe4, 10)
<1> HIDE DEF Pow2
<1>1. /\ Pow2[W] \in Nat /\ Pow2[W] >= 2048 /\ Pow2[W \div 2] \in Nat /\ Pow2[W \div 2] >= 32
      /\ Pow2[W \div 2 + 1] = 2 * Pow2[W \div 2]
  BY WideEnough
<1>2. \A i \in 0..4 : Widths.fe51[i] = W
  BY DEF Widths
<1>3. IsWide(Widths.fe51, 5)
  <2>1. 5 \in Nat /\ 1 \in 1..5-1 /\ 0 \in 0..4 /\ \A i \in 0..5-1 : i \in 0..4
    OBVIOUS
  <2>2. QED
    BY <1>1, <1>2, <2>1 DEF IsWide
<1>4. IsWide(Widths.fe4, 10)
  <2> DEFINE w == Widths.fe4
             o == Pow2[W \div 2]
  <2>1. 2 * o <= Pow2[W]
    <3>1. W \div 2 + 1 \in 0..W /\ W \in 0..W+13
      BY WidthIs
    <3>2. Pow2[W \div 2 + 1] <= Pow2[W]
      BY <3>1, PowersRise
    <3>3. QED
      BY <1>1, <3>2
  <2>2. ASSUME NEW i \in 0..10-1
        PROVE  (Pow2[w[i]] = o \/ Pow2[w[i]] = 2 * o) /\ (i = 0 => Pow2[w[i]] = 2 * o)
    <3>1. i \in 0..9
      OBVIOUS
    <3>2. Pow2[w[i]] = IF i % 2 = 0 THEN 2 * o ELSE o
      BY <3>1, Widths4
    <3>3. QED
      BY <3>2
  <2>3. 10 \in Nat /\ 1 \in 1..10-1 /\ 0 \in 0..10-1
    OBVIOUS
  <2> HIDE DEF w
  <2>4. \A i \in 0..10-1 : Pow2[w[i]] \in Nat /\ Pow2[w[i]] >= 32 /\ Pow2[w[i]] <= Pow2[W]
    BY <1>1, <2>1, <2>2
  <2>5. Pow2[w[0]] >= 64
    BY <1>1, <2>2, <2>3
  <2>6. QED
    BY <2>3, <2>4, <2>5 DEF IsWide, w
<1>5. QED
  BY <1>1, <1>2, <1>3, <1>4

\* A difference of loose limbs: 8 times the prime is added.
IsDifference(r, a, b, w, pl, n) ==
  /\ AreTight(r, w, n)
  /\ Stands(a, pl, n) \in Nat /\ Stands(b, pl, n) \in Nat /\ Stands(r, pl, n) \in Nat
  /\ \E v \in Nat : v + Stands(b, pl, n) + 152 = Stands(a, pl, n) + 8 * pl[n] /\ FoldsTo(v, Stands(r, pl, n), pl[n])

\* fe_sub, fe4_sub: no limb falls below zero and no word overflows.
LEMMA DifferenceIs ==
  ASSUME NEW n, NEW w, NEW pl, ArePlaces(pl, w, n), IsWide(w, n),
         NEW a, AreLoose(a, w, n), NEW b, AreLoose(b, w, n)
  PROVE  IsDifference(Difference(w, a, b), a, b, w, pl, n)
<1> DEFINE p == TimesP(8, w)
           t == [i \in 0..n-1 |-> Word(a[i] + p[i] - b[i])]
           u == [i \in 0..n-1 |-> a[i] + p[i]]
           r == Reduced(t, w, 1)
<1> HIDE DEF Pow2
<1>1. /\ n \in Nat /\ 1 \in 1..n-1 /\ 0 \in 0..n-1
      /\ \A i \in 0..n-1 : Pow2[w[i]] \in Nat /\ Pow2[w[i]] >= 32 /\ Pow2[w[i]] <= Pow2[W]
      /\ Pow2[w[0]] >= 64
  BY DEF IsWide
<1>2. Pow2[W] \in Nat /\ Pow2[W] >= 2048 /\ Pow2[W + 13] = 8192 * Pow2[W] /\ W + 13 \in 0..W+13
  BY WideEnough, WidthIs
<1>3. DOMAIN w = 0..n-1 /\ AreNumbers(pl, n) /\ pl[n] \in Nat
  <2>1. w \in [0..n-1 -> 0..W+13] /\ n \in 0..n /\ (\A i \in 0..n : pl[i] \in Nat)
    BY <1>1 DEF ArePlaces, AreWidths
  <2>2. \A i \in 0..n-1 : i \in 0..n
    BY <1>1
  <2>3. QED
    BY <2>1, <2>2 DEF AreNumbers
<1>4. \A i \in 0..n-1 : p[i] = IF i = 0 THEN 8 * (Pow2[w[i]] - 19) ELSE 8 * (Pow2[w[i]] - 1)
  BY <1>3 DEF TimesP
<1>5. AreNumbers(p, n) /\ Stands(p, pl, n) \in Nat /\ Stands(p, pl, n) + 152 = 8 * pl[n]
  <2>1. \A i \in 0..n-1 : Pow2[w[i]] >= 32
    BY <1>1
  <2>2. QED
    BY <2>1, EightTimesP
<1> HIDE DEF p
<1>6. ASSUME NEW i \in 0..n-1
      PROVE  t[i] \in Nat /\ t[i] <= 13 * Pow2[w[i]] /\ t[i] + b[i] = a[i] + p[i]
  <2> DEFINE d == Pow2[w[i]]
             x == a[i] + p[i] - b[i]
  <2>1. a[i] \in Nat /\ b[i] \in Nat /\ a[i] <= 5 * d /\ b[i] <= 5 * d
    BY DEF AreLoose
  <2>2. d \in Nat /\ d >= 32 /\ d <= Pow2[W] /\ (i = 0 => d >= 64)
    BY <1>1
  <2>3. p[i] = IF i = 0 THEN 8 * (d - 19) ELSE 8 * (d - 1)
    BY <1>4
  <2>4. t[i] = Word(x)
    OBVIOUS
  <2> HIDE DEF d
  <2>5. p[i] \in Nat /\ p[i] >= 5 * d /\ p[i] <= 8 * d
    BY <2>2, <2>3
  <2>6. x \in Nat /\ x <= 13 * d /\ x + b[i] = a[i] + p[i]
    BY <2>1, <2>2, <2>5
  <2> HIDE DEF x, t
  <2>7. x < Pow2[W + 13]
    BY <1>2, <2>2, <2>6
  <2>8. Word(x) = x
    BY <1>2, <2>6, <2>7, WordsHold
  <2>9. QED
    BY <2>4, <2>6, <2>8 DEF d
<1>7. AreSmall(t, w, n)
  <2>1. t = [i \in 0..n-1 |-> t[i]]
    OBVIOUS
  <2>2. QED
    BY <1>6, <2>1 DEF AreSmall
<1>8. Difference(w, a, b) = r
  BY <1>3 DEF Difference, p
<1>9. AreNumbers(a, n) /\ AreNumbers(b, n) /\ AreNumbers(t, n)
  BY <1>6 DEF AreLoose, AreNumbers
<1>10. AreSums(u, a, p, n) /\ AreSums(u, t, b, n)
  <2>1. \A i \in 0..n-1 : u[i] = a[i] + p[i] /\ u[i] = t[i] + b[i]
    BY <1>6
  <2> HIDE DEF u, t
  <2>2. QED
    BY <1>1, <1>5, <1>9, <2>1 DEF AreSums
<1> HIDE DEF t, u
<1>11. /\ AreTight(r, w, n) /\ Stands(t, pl, n) \in Nat /\ Stands(r, pl, n) \in Nat
       /\ FoldsTo(Stands(t, pl, n), Stands(r, pl, n), pl[n])
  BY <1>7, SmallReduced
<1>12. /\ Stands(a, pl, n) \in Nat /\ Stands(u, pl, n) = Stands(a, pl, n) + Stands(p, pl, n)
  BY <1>3, <1>10, StandsSum
<1>13. /\ Stands(b, pl, n) \in Nat /\ Stands(u, pl, n) = Stands(t, pl, n) + Stands(b, pl, n)
  BY <1>3, <1>10, StandsSum
<1>14. Stands(t, pl, n) + Stands(b, pl, n) + 152 = Stands(a, pl, n) + 8 * pl[n]
  BY <1>3, <1>5, <1>11, <1>12, <1>13
<1>15. QED
  BY <1>8, <1>11, <1>12, <1>13, <1>14 DEF IsDifference

\* What a sum leaves.
IsSum(r, a, b, w, pl, n) ==
  /\ Stands(a, pl, n) \in Nat /\ Stands(b, pl, n) \in Nat /\ Stands(r, pl, n) \in Nat
  /\ FoldsTo(Stands(a, pl, n) + Stands(b, pl, n), Stands(r, pl, n), pl[n])

\* Limbs of up to m halves of what their widths hold.
AreWithin(t, w, n, m) == t \in [0..n-1 -> Nat] /\ \A i \in 0..n-1 : 2 * t[i] <= m * Pow2[w[i]]

\* fe_add carries nothing: the bounds add up.
LEMMA AddIs51 ==
  ASSUME NEW n, n = 5, NEW w, w = Widths.fe51, NEW pl, pl = Places(w, n),
         NEW a, AreLoose(a, w, n), NEW b, AreLoose(b, w, n)
  PROVE  /\ IsSum(fe_add(a, b), a, b, w, pl, n)
         /\ \A m \in Nat, k \in Nat : /\ AreWithin(a, w, n, m) /\ AreWithin(b, w, n, k)
                                       => AreWithin(fe_add(a, b), w, n, m + k)
<1> DEFINE r == fe_add(a, b)
<1> HIDE DEF Pow2
<1>1. ArePlaces(pl, w, n)
  BY Weighs51
<1>2. AreNumbers(pl, n) /\ pl[n] \in Nat /\ n \in Nat
  <2>1. \A i \in 0..n : pl[i] \in Nat
    BY <1>1 DEF ArePlaces
  <2>2. n \in 0..n /\ n \in Nat /\ \A i \in 0..n-1 : i \in 0..n
    OBVIOUS
  <2>3. QED
    BY <2>1, <2>2 DEF AreNumbers
<1>3. r = [i \in 0..n-1 |-> a[i] + b[i]]
  BY DEF fe_add
<1>4. \A i \in 0..n-1 : a[i] \in Nat /\ b[i] \in Nat
  BY DEF AreLoose
<1> HIDE DEF r
<1>5. AreSums(r, a, b, n)
  BY <1>2, <1>3, <1>4 DEF AreSums, AreNumbers
<1>6. /\ AreNumbers(r, n) /\ Stands(a, pl, n) \in Nat /\ Stands(b, pl, n) \in Nat
      /\ Stands(r, pl, n) = Stands(a, pl, n) + Stands(b, pl, n)
  BY <1>2, <1>5, StandsSum
<1>7. FoldsTo(Stands(a, pl, n) + Stands(b, pl, n), Stands(r, pl, n), pl[n])
  <2> DEFINE S == Stands(r, pl, n)
             z == pl[n]
  <2>1. S \in Nat /\ z \in Nat
    BY <1>2, <1>6
  <2> HIDE DEF S, z
  <2>2. 0 \in Nat /\ S + 19 * 0 = S + 0 * z
    BY <2>1
  <2>3. FoldsTo(S, S, z)
    BY <2>2 DEF FoldsTo
  <2>4. QED
    BY <1>6, <2>3 DEF S, z
<1>8. ASSUME NEW m \in Nat, NEW k \in Nat, AreWithin(a, w, n, m), AreWithin(b, w, n, k)
      PROVE  AreWithin(r, w, n, m + k)
  <2>1. \A i \in 0..n-1 : Pow2[w[i]] = Pow2[W] /\ Pow2[W] \in Nat
    <3>1. \A i \in 0..n-1 : w[i] = W
      BY Weighs51
    <3>2. QED
      BY <3>1, WideEnough
  <2>2. ASSUME NEW i \in 0..n-1 PROVE r[i] \in Nat /\ 2 * r[i] <= (m + k) * Pow2[w[i]]
    <3> DEFINE d == Pow2[w[i]]
               md == m * d
               kd == k * d
    <3>1. 2 * a[i] <= md /\ 2 * b[i] <= kd
      BY <1>8 DEF AreWithin
    <3>2. r[i] = a[i] + b[i]
      BY <1>3
    <3>3. d \in Nat
      BY <2>1
    <3> HIDE DEF d
    <3>4. (m + k) * d = md + kd /\ md \in Nat /\ kd \in Nat
      BY <3>3
    <3> HIDE DEF md, kd
    <3>5. 2 * r[i] <= md + kd
      BY <1>4, <3>1, <3>2, <3>4
    <3>6. QED
      BY <1>4, <3>2, <3>4, <3>5 DEF d
  <2>3. r \in [0..n-1 -> Nat]
    BY <1>3, <2>2
  <2>4. QED
    BY <2>2, <2>3 DEF AreWithin
<1>9. QED
  BY <1>6, <1>7, <1>8 DEF IsSum, r, AreNumbers

\* fe4_add carries.
LEMMA AddIs4 ==
  ASSUME NEW n, n = 10, NEW w, w = Widths.fe4, NEW pl, pl = Places(w, n),
         NEW a, AreLoose(a, w, n), NEW b, AreLoose(b, w, n)
  PROVE  IsSum(fe4_add(a, b), a, b, w, pl, n) /\ AreTight(fe4_add(a, b), w, n)
<1> DEFINE t == [i \in 0..n-1 |-> a[i] + b[i]]
           r == Reduced(t, w, 1)
<1> HIDE DEF Pow2
<1>1. ArePlaces(pl, w, n) /\ IsWide(w, n)
  BY Weighs4, AreWide
<1>2. AreNumbers(pl, n) /\ n \in Nat
  <2>1. \A i \in 0..n : pl[i] \in Nat
    BY <1>1 DEF ArePlaces
  <2>2. n \in Nat /\ \A i \in 0..n-1 : i \in 0..n
    OBVIOUS
  <2>3. QED
    BY <2>1, <2>2 DEF AreNumbers
<1>3. fe4_add(a, b) = r
  BY DEF fe4_add
<1>4. \A i \in 0..n-1 : /\ a[i] \in Nat /\ b[i] \in Nat
                        /\ a[i] <= 5 * Pow2[w[i]] /\ b[i] <= 5 * Pow2[w[i]] /\ Pow2[w[i]] \in Nat
  BY <1>1 DEF AreLoose, IsWide
<1>5. AreSums(t, a, b, n)
  BY <1>2, <1>4 DEF AreSums, AreNumbers
<1>6. AreSmall(t, w, n)
  <2>1. ASSUME NEW i \in 0..n-1 PROVE t[i] \in Nat /\ t[i] <= 13 * Pow2[w[i]]
    <3>1. t[i] = a[i] + b[i]
      OBVIOUS
    <3> HIDE DEF t
    <3>2. QED
      BY <1>4, <3>1
  <2>2. QED
    BY <2>1 DEF AreSmall
<1> HIDE DEF t
<1>7. /\ Stands(a, pl, n) \in Nat /\ Stands(b, pl, n) \in Nat
      /\ Stands(t, pl, n) = Stands(a, pl, n) + Stands(b, pl, n)
  BY <1>2, <1>5, StandsSum
<1>8. /\ AreTight(r, w, n) /\ Stands(r, pl, n) \in Nat
      /\ FoldsTo(Stands(t, pl, n), Stands(r, pl, n), pl[n])
  BY <1>1, <1>6, SmallReduced
<1>9. QED
  BY <1>3, <1>7, <1>8 DEF IsSum

\* Limbs: natural numbers.
IsLimbs(t, n) == t \in [0..n-1 -> Nat]

\* Carrying up from limbs that are no less than zero carries out no less.
LEMMA RippleSum ==
  ASSUME NEW n, NEW w, NEW pl, ArePlaces(pl, w, n), NEW t, IsLimbs(t, n)
  PROVE  /\ Fits(Ripple(t, w).limbs, w, n) /\ Ripple(t, w).out \in Nat
         /\ Stands(t, pl, n) \in Nat /\ Stands(Ripple(t, w).limbs, pl, n) \in Nat
         /\ Stands(Ripple(t, w).limbs, pl, n) < pl[n] /\ pl[n] \in Nat
         /\ Stands(t, pl, n) = Stands(Ripple(t, w).limbs, pl, n) + Ripple(t, w).out * pl[n]
<1> DEFINE z == [i \in 0..n-1 |-> 0]
           e == Ripple(t, w).limbs
           q == Ripple(t, w).out
           T == Stands(t, pl, n)
           E == Stands(e, pl, n)
           Q == pl[n]
<1>1. n \in Nat /\ AreNumbers(pl, n)
  <2>1. n \in Nat /\ \A i \in 0..n : pl[i] \in Nat
    BY DEF ArePlaces, AreWidths
  <2>2. QED
    BY <2>1 DEF AreNumbers
<1>2. Less(t, t, z, n)
  <2>1. \A i \in 0..n-1 : t[i] \in Nat /\ z[i] \in Nat /\ t[i] = t[i] - z[i]
    BY DEF IsLimbs
  <2>2. t \in [0..n-1 -> Int]
    BY DEF IsLimbs
  <2> HIDE DEF z
  <2>3. QED
    BY <2>1, <2>2 DEF Less, AreNumbers
<1>3. Stands(z, pl, n) = 0
  <2>1. \A i \in 0..n-1 : z[i] = 0
    OBVIOUS
  <2> HIDE DEF z
  <2>2. QED
    BY <1>1, <2>1, ZerosStand
<1> HIDE DEF z
<1>4. /\ Fits(Ripple(t, w).limbs, w, n) /\ Ripple(t, w).out \in Int
      /\ Stands(t, pl, n) = Stands(z, pl, n) + Stands(Ripple(t, w).limbs, pl, n)
                            + Ripple(t, w).out * pl[n]
  BY <1>2, RippleStands
<1>5. Fits(e, w, n) /\ q \in Int /\ T = 0 + E + q * Q
  BY <1>3, <1>4
<1>6. E \in Nat /\ E < Q /\ Q \in Nat
  <2> HIDE DEF e
  <2>1. QED
    BY <1>5, FitsBelow
<1>7. T \in Nat
  <2>1. AreNumbers(t, n)
    BY DEF AreNumbers, IsLimbs
  <2>2. QED
    BY <1>1, <2>1, StandsIs
<1> HIDE DEF e, q, T, E, Q
<1>8. q >= 0
  <2>1. ASSUME q < 0 PROVE FALSE
    <3>1. PICK k \in Nat : q = 0 - (k + 1)
      <4>1. 0 - q - 1 \in Nat /\ q = 0 - ((0 - q - 1) + 1)
        BY <1>5, <2>1
      <4>2. QED
        BY <4>1
    <3>2. (0 - (k + 1)) * Q = 0 - (k * Q) - Q /\ k * Q \in Nat
      BY <1>6
    <3> DEFINE x == k * Q
               v == q * Q
    <3>3. v = 0 - x - Q /\ x \in Nat /\ T = 0 + E + v
      BY <1>5, <3>1, <3>2
    <3> HIDE DEF x, v
    <3>4. QED
      BY <1>6, <1>7, <3>3
  <2>2. QED
    BY <1>5, <2>1
<1> DEFINE v == q * Q
<1>9. v \in Nat /\ T = 0 + E + v
  BY <1>5, <1>6, <1>8
<1> HIDE DEF v
<1>10. T = E + v
  BY <1>6, <1>9
<1>11. q \in Nat
  BY <1>5, <1>8
<1>12. QED
  BY <1>5, <1>6, <1>7, <1>10, <1>11 DEF e, q, T, E, Q, v

\* Nothing is carried out of what stands for less.
LEMMA NothingOut ==
  ASSUME NEW x \in Nat, NEW z \in Nat, x < z, NEW v \in Nat, NEW q \in Nat, x = v + q * z
  PROVE  q = 0 /\ x = v
<1>1. ASSUME q # 0 PROVE FALSE
  <2>1. PICK k \in Nat : q = k + 1
    <3>1. q - 1 \in Nat /\ q = (q - 1) + 1
      BY <1>1
    <3>2. QED
      BY <3>1
  <2>2. (k + 1) * z = k * z + z /\ k * z \in Nat
    OBVIOUS
  <2> DEFINE u == k * z
             y0 == q * z
  <2>3. y0 = u + z /\ u \in Nat /\ x = v + y0
    BY <2>1, <2>2
  <2> HIDE DEF u, y0
  <2>4. QED
    BY <2>3
<1>2. q = 0
  BY <1>1
<1>3. 0 * z = 0
  OBVIOUS
<1>4. QED
  BY <1>2, <1>3

\* A number added to the first limb is added to what the limbs stand for.
LEMMA StandsPlus ==
  ASSUME NEW n, NEW w, NEW pl, ArePlaces(pl, w, n), NEW t, IsLimbs(t, n), NEW x \in Nat
  PROVE  /\ IsLimbs(Plus(t, 0, x), n)
         /\ Stands(t, pl, n) \in Nat /\ Stands(Plus(t, 0, x), pl, n) = Stands(t, pl, n) + x
<1> DEFINE u == Plus(t, 0, x)
<1>1. n \in Nat /\ 0 \in 0..n-1 /\ AreNumbers(pl, n)
  <2>1. n \in Nat \ {0} /\ \A i \in 0..n : pl[i] \in Nat
    BY DEF ArePlaces, AreWidths
  <2>2. QED
    BY <2>1 DEF AreNumbers
<1>2. t[0] \in Nat /\ t[0] + x \in Nat
  BY <1>1 DEF IsLimbs
<1>3. u = [t EXCEPT ![0] = t[0] + x]
  BY <1>1 DEF Plus, IsLimbs
<1>4. WithFirst(u, t, t[0] + x, n)
  BY <1>2, <1>3 DEF WithFirst, IsLimbs
<1>5. IsLimbs(u, n)
  BY <1>1, <1>2, <1>3 DEF IsLimbs
<1> HIDE DEF u
<1>6. Stands(u, pl, n) + t[0] = Stands(t, pl, n) + (t[0] + x)
  <2> DEFINE v == t[0] + x
  <2>1. WithFirst(u, t, v, n)
    BY <1>4
  <2> HIDE DEF v
  <2>2. Stands(u, pl, n) + t[0] = Stands(t, pl, n) + v
    BY <2>1, StandsWithFirst
  <2>3. QED
    BY <2>2 DEF v
<1>7. AreNumbers(t, n) /\ AreNumbers(u, n)
  BY <1>5 DEF AreNumbers, IsLimbs
<1>8. Stands(t, pl, n) \in Nat /\ Stands(u, pl, n) \in Nat
  BY <1>1, <1>7, StandsIs
<1>9. Stands(u, pl, n) = Stands(t, pl, n) + x
  BY <1>2, <1>6, <1>8
<1>10. QED
  BY <1>5, <1>8, <1>9 DEF u

\* x is v but for what was folded: 38 for each z.
FoldsTo38(x, v, z) == \E q \in Nat : x + 38 * q = v + q * z

\* The places of sixteen words.
Places16(pl) == [k \in 0..16 |-> IF k < 8 THEN pl[k] ELSE pl[8] * pl[k - 8]]

LEMMA Places16Are ==
  ASSUME NEW w, w = Widths.fed32, NEW pl, ArePlaces(pl, w, 8), NEW w16, w16 = [k \in 0..15 |-> w[0]]
  PROVE  ArePlaces(Places16(pl), w16, 16) /\ Places16(pl)[16] = pl[8] * pl[8]
<1> DEFINE d == Places16(pl)
           l == w[0]
           e == Pow2[l]
<1> HIDE DEF Pow2
<1>1. AreWidths(w, 8) /\ pl[0] = 1 /\ (\A i \in 0..8 : pl[i] \in Nat \ {0})
      /\ \A i \in 0..8-1 : pl[i + 1] = pl[i] * Pow2[w[i]]
  BY DEF ArePlaces
<1>2. \A i \in 0..7 : w[i] = l
  BY DEF Widths
<1>3. l \in 0..W+13
  BY <1>1 DEF AreWidths
<1>4. AreWidths(w16, 16)
  BY <1>3 DEF AreWidths
<1>5. e \in Nat
  BY <1>3, Powers
<1> HIDE DEF l
<1>6. \A k \in 0..16 : d[k] = IF k < 8 THEN pl[k] ELSE pl[8] * pl[k - 8]
  BY DEF Places16
<1>7. \A i \in 0..7 : pl[i + 1] = pl[i] * e /\ pl[i] \in Nat
  <2>1. ASSUME NEW i \in 0..7 PROVE pl[i + 1] = pl[i] * e /\ pl[i] \in Nat
    <3>1. i \in 0..8-1 /\ i \in 0..8
      OBVIOUS
    <3>2. QED
      BY <1>1, <1>2, <3>1
  <2>2. QED
    BY <2>1
<1>8. pl[8] \in Nat \ {0}
  BY <1>1
<1> HIDE DEF d, e
<1>9. \A k \in 0..16 : d[k] \in Nat \ {0}
  <2>1. ASSUME NEW k \in 0..16 PROVE d[k] \in Nat \ {0}
    <3>1. CASE k < 8
      BY <1>1, <1>6, <3>1
    <3>2. CASE k >= 8
      <4>1. k - 8 \in 0..8
        BY <3>2
      <4> DEFINE x == pl[k - 8]
                 z == pl[8]
      <4>2. x \in Nat \ {0} /\ z \in Nat \ {0} /\ d[k] = z * x
        BY <1>1, <1>6, <1>8, <3>2, <4>1
      <4> HIDE DEF x, z
      <4>3. QED
        BY <4>2
    <3>3. QED
      BY <3>1, <3>2
  <2>2. QED
    BY <2>1
<1>10. ASSUME NEW k \in 0..15 PROVE d[k + 1] = d[k] * e
  <2>1. k + 1 \in 0..16 /\ k \in 0..16
    OBVIOUS
  <2>2. CASE k < 7
    <3>1. k + 1 < 8 /\ k < 8 /\ k \in 0..7
      BY <2>2
    <3>2. QED
      BY <1>6, <1>7, <2>1, <3>1
  <2>3. CASE k = 7
    <3>1. d[8] = pl[8] * pl[0] /\ d[7] = pl[7] /\ pl[7 + 1] = pl[7] * e
      BY <1>6, <1>7
    <3>2. pl[8] * 1 = pl[8]
      BY <1>8
    <3>3. QED
      BY <1>1, <2>3, <3>1, <3>2
  <2>4. CASE k > 7
    <3> DEFINE i == k - 8
    <3>1. i \in 0..7 /\ ~(k < 8) /\ ~(k + 1 < 8) /\ (k + 1) - 8 = i + 1
      BY <2>4
    <3>2. d[k + 1] = pl[8] * pl[i + 1] /\ d[k] = pl[8] * pl[i]
      BY <1>6, <2>1, <3>1
    <3> DEFINE x == pl[i]
               z == pl[8]
    <3>3. pl[i + 1] = x * e /\ x \in Nat /\ z \in Nat
      BY <1>7, <1>8, <3>1
    <3> HIDE DEF x, z, i
    <3>4. z * (x * e) = (z * x) * e
      BY <1>5, <3>3
    <3>5. QED
      BY <3>2, <3>3, <3>4 DEF x, z
  <2>5. QED
    BY <2>2, <2>3, <2>4
<1>11. d[0] = 1 /\ d[16] = pl[8] * pl[8]
  BY <1>1, <1>6
<1>12. \A i \in 0..16-1 : i \in 0..15 /\ w16[i] = l
  BY DEF l
<1>13. ArePlaces(d, w16, 16)
  <2>1. \A i \in 0..16-1 : d[i + 1] = d[i] * Pow2[w16[i]]
    BY <1>10, <1>12 DEF e
  <2>2. QED
    BY <1>4, <1>9, <1>11, <2>1 DEF ArePlaces
<1>14. QED
  BY <1>11, <1>13 DEF d

\* Numbers that fit, their product below a product.
LEMMA ProductLess ==
  ASSUME NEW x \in Nat, NEW v \in Nat, NEW z \in Nat, x < z, v < z
  PROVE  x * v \in Nat /\ x * v < z * z /\ z * z \in Nat
<1>1. x + 1 \in Nat /\ v + 1 \in Nat /\ x + 1 <= z /\ v + 1 <= z
  OBVIOUS
<1>2. (x + 1) * (v + 1) <= z * z /\ z * z \in Nat
  BY <1>1, ProductBelow
<1>3. (x + 1) * (v + 1) = x * v + x + v + 1 /\ x * v \in Nat
  OBVIOUS
<1> DEFINE p == x * v
           q == z * z
           r == (x + 1) * (v + 1)
<1>4. p \in Nat /\ q \in Nat /\ r <= q /\ r = p + x + v + 1
  BY <1>2, <1>3
<1> HIDE DEF p, q, r
<1>5. p < q
  BY <1>4
<1>6. QED
  BY <1>4, <1>5 DEF p, q

\* The sixteen words are the product.
LEMMA SchoolbookIs ==
  ASSUME NEW n, n = 8, NEW w, w = Widths.fed32, NEW pl, pl = Places(w, n),
         NEW a, Fits(a, w, n), NEW b, Fits(b, w, n)
  PROVE  /\ AreNumbers(Schoolbook(a, b), 2 * n)
         /\ Stands(a, pl, n) \in Nat /\ Stands(b, pl, n) \in Nat
         /\ Stands(Schoolbook(a, b), Double(pl, n), 2 * n) = Stands(a, pl, n) * Stands(b, pl, n)
<1> DEFINE w16 == [k \in 0..15 |-> w[0]]
           t == [k \in 0..15 |-> Degree(k, n, Plain, a, b)]
           r == Schoolbook(a, b)
           d == Places16(pl)
           D == Double(pl, n)
           A == Stands(a, pl, n)
           B == Stands(b, pl, n)
           AB == A * B
           Q == pl[n]
           QQ == Q * Q
<1> HIDE DEF Pow2
<1>1. Weighs(Plain, pl, D, n) /\ ArePlaces(pl, w, n)
  BY Weighs32
<1>2. ArePlaces(d, w16, 16) /\ d[16] = QQ
  BY <1>1, Places16Are
<1>3. AreNumbers(a, n) /\ AreNumbers(b, n)
  BY DEF Fits, AreNumbers
<1>4. r = Ripple(t, w16).limbs
  BY DEF Schoolbook
<1>5. (\A k \in 0..2*n-1 : t[k] \in Nat) /\ Stands(t, D, 2 * n) = AB
  <2>1. \A k \in 0..2*n-1 : t[k] = Degree(k, n, Plain, a, b)
    OBVIOUS
  <2> HIDE DEF t, D
  <2>2. QED
    BY <1>1, <1>3, <2>1, ProductStands
<1>6. IsLimbs(t, 16)
  <2>1. \A k \in 0..15 : t[k] \in Nat
    BY <1>5
  <2>2. t = [k \in 0..15 |-> t[k]]
    OBVIOUS
  <2>3. QED
    BY <2>1, <2>2 DEF IsLimbs
<1>7. \A u : Stands(u, d, 16) = Stands(u, D, 2 * n)
  <2>1. ASSUME NEW u PROVE Stands(u, d, 16) = Stands(u, D, 2 * n)
    <3>1. \A k \in 0..15 : d[k] = D[k]
      BY DEF Places16, Double
    <3>2. 0..16-1 = 0..15 /\ 0..2*n-1 = 0..15
      OBVIOUS
    <3> HIDE DEF d, D
    <3>3. Placed(u, d, 16) = Placed(u, D, 2 * n)
      BY <3>1, <3>2 DEF Placed
    <3>4. QED
      BY <3>2, <3>3 DEF Stands
  <2>2. QED
    BY <2>1
<1>8. A \in Nat /\ A < Q /\ B \in Nat /\ B < Q /\ Q \in Nat
  BY <1>1, FitsBelow
<1> HIDE DEF t, w16, d, D
<1>9. /\ Fits(r, w16, 16) /\ Ripple(t, w16).out \in Nat /\ Stands(t, d, 16) \in Nat
      /\ Stands(r, d, 16) \in Nat /\ Stands(t, d, 16) = Stands(r, d, 16) + Ripple(t, w16).out * QQ
  BY <1>2, <1>4, <1>6, RippleSum
<1> HIDE DEF r, A, B, Q
<1>10. AB \in Nat /\ AB < QQ /\ QQ \in Nat
  BY <1>8, ProductLess
<1>11. Stands(t, d, 16) = AB
  BY <1>5, <1>7
<1> HIDE DEF AB, QQ
<1>12. Stands(r, d, 16) = AB
  <2> DEFINE R == Stands(r, d, 16)
             q == Ripple(t, w16).out
  <2>1. R \in Nat /\ q \in Nat /\ AB = R + q * QQ
    BY <1>9, <1>11
  <2> HIDE DEF R, q
  <2>2. AB = R
    BY <1>10, <2>1, NothingOut
  <2>3. QED
    BY <2>2 DEF R
<1>13. AreNumbers(r, 2 * n)
  <2>1. 2 * n = 16
    OBVIOUS
  <2>2. QED
    BY <1>9, <2>1 DEF Fits, AreNumbers
<1>14. QED
  BY <1>7, <1>8, <1>12, <1>13 DEF r, D, A, B, AB

\* Carried up, and then once more with 38 times what was carried out.
CarriedAgain(t, w) == LET s == Ripple(t, w) IN Ripple(Plus(s.limbs, 0, 38 * s.out), w)

\* What is carried out is folded, unless that carries out in its turn.
LEMMA CarriedAgainIs ==
  ASSUME NEW n, NEW w, NEW pl, ArePlaces(pl, w, n), NEW t, IsLimbs(t, n),
         CarriedAgain(t, w).out = 0
  PROVE  /\ Fits(CarriedAgain(t, w).limbs, w, n)
         /\ Stands(t, pl, n) \in Nat /\ Stands(CarriedAgain(t, w).limbs, pl, n) \in Nat
         /\ FoldsTo38(Stands(t, pl, n), Stands(CarriedAgain(t, w).limbs, pl, n), pl[n])
<1> DEFINE e == Ripple(t, w).limbs
           q == Ripple(t, w).out
           u == Plus(e, 0, 38 * q)
           r == CarriedAgain(t, w).limbs
           T == Stands(t, pl, n)
           E == Stands(e, pl, n)
           U == Stands(u, pl, n)
           R == Stands(r, pl, n)
           Q == pl[n]
<1>1. Fits(e, w, n) /\ q \in Nat /\ T \in Nat /\ E \in Nat /\ Q \in Nat /\ T = E + q * Q
  BY RippleSum
<1>2. CarriedAgain(t, w) = Ripple(u, w)
  BY DEF CarriedAgain
<1> HIDE DEF e, q
<1>3. IsLimbs(u, n) /\ U = E + 38 * q
  <2> DEFINE x == 38 * q
  <2>1. x \in Nat /\ IsLimbs(e, n)
    BY <1>1 DEF Fits, IsLimbs
  <2> HIDE DEF x
  <2>2. IsLimbs(Plus(e, 0, x), n) /\ Stands(Plus(e, 0, x), pl, n) = Stands(e, pl, n) + x
    BY <2>1, StandsPlus
  <2>3. QED
    BY <2>2 DEF x
<1> HIDE DEF u
<1>4. /\ Fits(r, w, n) /\ R \in Nat /\ U = R + 0 * Q
  <2>1. /\ Fits(Ripple(u, w).limbs, w, n) /\ Stands(Ripple(u, w).limbs, pl, n) \in Nat
        /\ Stands(u, pl, n) = Stands(Ripple(u, w).limbs, pl, n) + Ripple(u, w).out * pl[n]
    BY <1>3, RippleSum
  <2>2. Ripple(u, w).out = 0
    BY <1>2
  <2>3. QED
    BY <1>2, <2>1, <2>2
<1> HIDE DEF T, E, U, R, Q, r
<1>5. T + 38 * q = R + q * Q
  <2> DEFINE x == q * Q
  <2>1. x \in Nat /\ T = E + x
    BY <1>1
  <2>2. 0 * Q = 0
    BY <1>1
  <2> HIDE DEF x
  <2>3. T + 38 * q = R + x
    BY <1>1, <1>3, <1>4, <2>1, <2>2
  <2>4. QED
    BY <2>3 DEF x
<1>6. FoldsTo38(T, R, Q)
  BY <1>1, <1>5 DEF FoldsTo38
<1>7. QED
  BY <1>1, <1>4, <1>6 DEF T, R, Q, r

\* What is folded twice is folded.
LEMMA FoldsTwice38 ==
  ASSUME NEW x \in Nat, NEW h \in Nat, NEW v \in Nat, NEW u \in Nat, NEW z \in Nat,
         x + 38 * h = v + h * z, FoldsTo38(v, u, z)
  PROVE  FoldsTo38(x, u, z)
<1>1. PICK d \in Nat : v + 38 * d = u + d * z
  BY DEF FoldsTo38
<1> DEFINE hz == h * z
           dz == d * z
           q == h + d
           qz == q * z
<1>2. qz = hz + dz /\ hz \in Nat /\ dz \in Nat /\ q \in Nat
  OBVIOUS
<1>3. x + 38 * h = v + hz /\ v + 38 * d = u + dz
  BY <1>1
<1> HIDE DEF hz, dz, qz
<1>4. x + 38 * q = u + qz
  BY <1>2, <1>3
<1>5. QED
  BY <1>2, <1>4 DEF FoldsTo38, qz

\* What a product of words leaves, when the second fold carries nothing out.
LEMMA MulIs32 ==
  ASSUME NEW n, n = 8, NEW w, w = Widths.fed32, NEW pl, pl = Places(w, n),
         NEW a, Fits(a, w, n), NEW b, Fits(b, w, n), SecondFold(Schoolbook(a, b)).out = 0
  PROVE  /\ Fits(fed_mul(a, b), w, n)
         /\ Stands(a, pl, n) \in Nat /\ Stands(b, pl, n) \in Nat /\ Stands(fed_mul(a, b), pl, n) \in Nat
         /\ FoldsTo38(Stands(a, pl, n) * Stands(b, pl, n), Stands(fed_mul(a, b), pl, n), pl[n])
<1> DEFINE r == Schoolbook(a, b)
           lo == [i \in 0..n-1 |-> r[i]]
           hi == [i \in 0..n-1 |-> r[i + n]]
           t == [i \in 0..n-1 |-> r[i] + 38 * r[i + n]]
           c == CarriedAgain(t, w)
           A == Stands(a, pl, n)
           B == Stands(b, pl, n)
           AB == A * B
           L == Stands(lo, pl, n)
           H == Stands(hi, pl, n)
           T == Stands(t, pl, n)
           R == Stands(c.limbs, pl, n)
           Q == pl[n]
           D == Double(pl, n)
<1> HIDE DEF Pow2
<1>1. ArePlaces(pl, w, n) /\ AreWidths(w, n)
  BY Weighs32 DEF ArePlaces
<1>2. /\ AreNumbers(r, 2 * n) /\ A \in Nat /\ B \in Nat /\ Stands(r, D, 2 * n) = AB
  BY SchoolbookIs
<1>3. SecondFold(r) = c
  BY DEF SecondFold, CarriedAgain
<1> HIDE DEF r
<1>4. \A i \in 0..n-1 : lo[i] \in Nat /\ hi[i] \in Nat /\ t[i] = lo[i] + 38 * hi[i] /\ t[i] \in Nat
  <2>1. ASSUME NEW i \in 0..n-1 PROVE r[i] \in Nat /\ r[i + n] \in Nat
    <3>1. i \in 0..2*n-1 /\ i + n \in 0..2*n-1
      OBVIOUS
    <3>2. QED
      BY <1>2, <3>1 DEF AreNumbers
  <2>2. QED
    BY <2>1
<1>5. AreHalves(r, lo, hi, n)
  <2>1. n \in Nat /\ \A i \in 0..n-1 : lo[i] = r[i] /\ hi[i] = r[i + n]
    OBVIOUS
  <2> HIDE DEF lo, hi
  <2>2. QED
    BY <1>2, <2>1 DEF AreHalves
<1>6. IsLimbs(t, n)
  <2>1. t = [i \in 0..n-1 |-> t[i]]
    OBVIOUS
  <2>2. QED
    BY <1>4, <2>1 DEF IsLimbs
<1> HIDE DEF lo, hi, t
<1>7. L \in Nat /\ H \in Nat /\ Stands(r, Double(pl, n), 2 * n) = L + pl[n] * H
  BY <1>1, <1>5, HalvesStand
<1>8. T = L + 38 * H
  <2> DEFINE N == 0..n-1
             ct == Placed(t, pl, n)
             cl == Placed(lo, pl, n)
             ch == Placed(hi, pl, n)
  <2>1. AreNumbers(pl, n) /\ n \in Nat /\ AreNumbers(lo, n) /\ AreNumbers(hi, n)
    <3>1. \A i \in 0..n : pl[i] \in Nat
      BY <1>1 DEF ArePlaces
    <3>2. n \in Nat /\ \A i \in 0..n-1 : i \in 0..n
      OBVIOUS
    <3>3. QED
      BY <1>4, <3>1, <3>2 DEF AreNumbers
  <2>2. Summed(N, cl) /\ Summed(N, ch)
    BY <2>1, StandsIs
  <2>3. IsLinear(N, ct, cl, 38, ch)
    <3>1. ASSUME NEW i \in N PROVE ct[i] = cl[i] + 38 * ch[i]
      <4> DEFINE x == lo[i]
                 z == hi[i]
                 p == pl[i]
      <4>1. t[i] = x + 38 * z /\ x \in Nat /\ z \in Nat /\ p \in Nat
        BY <1>4, <2>1 DEF AreNumbers
      <4>2. ct[i] = t[i] * p /\ cl[i] = x * p /\ ch[i] = z * p
        BY DEF Placed
      <4> HIDE DEF x, z, p, ct, cl, ch
      <4>3. (x + 38 * z) * p = x * p + 38 * (z * p)
        BY <4>1
      <4>4. QED
        BY <4>1, <4>2, <4>3
    <3>2. QED
      BY <3>1 DEF IsLinear
  <2>4. T = SumOver(N, ct) /\ L = SumOver(N, cl) /\ H = SumOver(N, ch)
    BY DEF Stands
  <2> HIDE DEF N, ct, cl, ch, T, L, H
  <2>5. 38 \in Nat /\ SumOver(N, ct) = SumOver(N, cl) + 38 * SumOver(N, ch)
    BY <2>2, <2>3, SumLinear
  <2>6. QED
    BY <2>4, <2>5
<1>9. c.out = 0
  BY <1>3 DEF r
<1>10. Fits(c.limbs, w, n) /\ T \in Nat /\ R \in Nat /\ FoldsTo38(T, R, Q)
  BY <1>1, <1>6, <1>9, CarriedAgainIs
<1>11. fed_mul(a, b) = c.limbs
  <2> DEFINE e == c.limbs
  <2>1. fed_mul(a, b) = Ripple(Plus(e, 0, c.out), w).limbs
    BY <1>3 DEF fed_mul, fed32_reduce_wide, r
  <2>2. Fits(e, w, n)
    BY <1>10
  <2> HIDE DEF e
  <2>3. Plus(e, 0, 0) = e
    <3>1. e \in [0..n-1 -> Nat] /\ 0 \in 0..n-1
      BY <2>2 DEF Fits
    <3>2. e[0] + 0 = e[0]
      BY <3>1
    <3>3. QED
      BY <3>1, <3>2 DEF Plus
  <2>4. Ripple(e, w) = [limbs |-> e, out |-> 0]
    BY <1>1, <2>2, RippleFits
  <2>5. QED
    BY <1>9, <2>1, <2>3, <2>4 DEF e
<1>12. Q \in Nat
  <2>1. n \in 0..n
    OBVIOUS
  <2>2. QED
    BY <1>1, <2>1 DEF ArePlaces
<1>13. AB \in Nat
  BY <1>2
<1> HIDE DEF AB, L, H, T, R, Q
<1>14. AB + 38 * H = T + H * Q
  <2> DEFINE x == H * Q
             v == Q * H
  <2>1. AB = L + v
    BY <1>2, <1>7 DEF Q
  <2>2. x = v /\ x \in Nat
    BY <1>7, <1>12
  <2> HIDE DEF x, v
  <2>3. AB + 38 * H = T + x
    BY <1>7, <1>8, <2>1, <2>2
  <2>4. QED
    BY <2>3 DEF x
<1>15. FoldsTo38(AB, R, Q)
  BY <1>7, <1>10, <1>12, <1>13, <1>14, FoldsTwice38
<1>16. QED
  BY <1>2, <1>10, <1>11, <1>15 DEF AB, R, Q

\* A sum of words, when its fold carries nothing out.
LEMMA AddIs32 ==
  ASSUME NEW n, n = 8, NEW w, w = Widths.fed32, NEW pl, pl = Places(w, n),
         NEW a, Fits(a, w, n), NEW b, Fits(b, w, n), AddFold(a, b).out = 0
  PROVE  /\ Fits(fed_add(a, b), w, n)
         /\ Stands(a, pl, n) \in Nat /\ Stands(b, pl, n) \in Nat /\ Stands(fed_add(a, b), pl, n) \in Nat
         /\ FoldsTo38(Stands(a, pl, n) + Stands(b, pl, n), Stands(fed_add(a, b), pl, n), pl[n])
<1> DEFINE t == [i \in 0..n-1 |-> a[i] + b[i]]
           c == CarriedAgain(t, w)
<1> HIDE DEF Pow2
<1>1. ArePlaces(pl, w, n)
  BY Weighs32
<1>2. AreNumbers(pl, n) /\ n \in Nat
  <2>1. \A i \in 0..n : pl[i] \in Nat
    BY <1>1 DEF ArePlaces
  <2>2. n \in Nat /\ \A i \in 0..n-1 : i \in 0..n
    OBVIOUS
  <2>3. QED
    BY <2>1, <2>2 DEF AreNumbers
<1>3. AddFold(a, b) = c /\ fed_add(a, b) = c.limbs
  BY DEF AddFold, fed_add, CarriedAgain
<1>4. \A i \in 0..n-1 : a[i] \in Nat /\ b[i] \in Nat
  BY DEF Fits
<1>5. AreSums(t, a, b, n) /\ IsLimbs(t, n)
  BY <1>2, <1>4 DEF AreSums, AreNumbers, IsLimbs
<1> HIDE DEF t
<1>6. /\ Stands(a, pl, n) \in Nat /\ Stands(b, pl, n) \in Nat
      /\ Stands(t, pl, n) = Stands(a, pl, n) + Stands(b, pl, n)
  BY <1>2, <1>5, StandsSum
<1>7. c.out = 0
  BY <1>3
<1>8. /\ Fits(c.limbs, w, n) /\ Stands(c.limbs, pl, n) \in Nat
      /\ FoldsTo38(Stands(t, pl, n), Stands(c.limbs, pl, n), pl[n])
  BY <1>1, <1>5, <1>7, CarriedAgainIs
<1>9. QED
  BY <1>3, <1>6, <1>8

\* A difference of words, when the words are not borrowed from: 2p is added, or once it
\* is carried out, nothing.
LEMMA SubIs32 ==
  ASSUME NEW n, n = 8, NEW w, w = Widths.fed32, NEW pl, pl = Places(w, n),
         NEW a, Fits(a, w, n), NEW b, Fits(b, w, n), Biased(a, b).out >= 0
  PROVE  /\ Fits(fed_sub(a, b), w, n)
         /\ Stands(a, pl, n) \in Nat /\ Stands(b, pl, n) \in Nat /\ Stands(fed_sub(a, b), pl, n) \in Nat
         /\ pl[n] \in Nat
         /\ \/ Stands(fed_sub(a, b), pl, n) + Stands(b, pl, n) + 38 = Stands(a, pl, n) + pl[n]
            \/ Stands(fed_sub(a, b), pl, n) + Stands(b, pl, n) = Stands(a, pl, n)
<1> DEFINE p == [i \in 0..n-1 |-> Pow2[w[i]] - (IF i = 0 THEN 38 ELSE 1)]
           t == [i \in 0..n-1 |-> a[i] + p[i]]
           s == Ripple(t, w)
           f == s.limbs
           g == [i \in 0..n-1 |-> f[i] - b[i]]
           d == Ripple(g, w)
           e == d.limbs
           q == s.out + d.out
           u == Plus(e, 0, 38)
           v == Ripple(u, w)
           A == Stands(a, pl, n)
           B == Stands(b, pl, n)
           S == Stands(f, pl, n)
           T == Stands(t, pl, n)
           E == Stands(e, pl, n)
           U == Stands(u, pl, n)
           R == Stands(v.limbs, pl, n)
           Q == pl[n]
           pS == Stands(p, pl, n)
<1> HIDE DEF Pow2
<1>1. ArePlaces(pl, w, n)
  BY Weighs32
<1>2. AreNumbers(pl, n) /\ n \in Nat /\ Q \in Nat /\ 0 \in 0..n-1
  <2>1. \A i \in 0..n : pl[i] \in Nat
    BY <1>1 DEF ArePlaces
  <2>2. n \in 0..n /\ n \in Nat /\ 0 \in 0..n-1 /\ \A i \in 0..n-1 : i \in 0..n
    OBVIOUS
  <2>3. QED
    BY <2>1, <2>2 DEF AreNumbers
<1>3. \A i \in 0..n-1 : Pow2[w[i]] \in Nat /\ Pow2[w[i]] >= 38
  <2> DEFINE l == (5 * W + 1) \div 8
  <2>1. \A i \in 0..n-1 : w[i] = l
    BY Weighs32
  <2>2. l \in 0..W+13 /\ 7 \in 0..l /\ 7 \in 0..W+13
    BY WidthIs
  <2>3. Pow2[7] = 128
    <3>1. 6 \in 1..W+13 /\ 7 \in 1..W+13 /\ 6 - 1 = 5 /\ 7 - 1 = 6
      BY WidthIs
    <3>2. Pow2[6] = 2 * Pow2[5] /\ Pow2[7] = 2 * Pow2[6]
      BY <3>1, Powers
    <3>3. QED
      BY <3>2, SmallPowers
  <2> HIDE DEF l
  <2>4. Pow2[7] <= Pow2[l] /\ Pow2[l] \in Nat
    BY <2>2, PowersRise, Powers
  <2>5. QED
    BY <2>1, <2>3, <2>4
<1>4. \A i \in 0..n-1 : /\ p[i] \in Nat /\ (i = 0 => p[i] + 38 = 1 * Pow2[w[i]])
                        /\ (i # 0 => p[i] + 1 = 1 * Pow2[w[i]])
  BY <1>3
<1>5. IsTop(p, w, n, 1, 38)
  <2>1. p \in [0..n-1 -> Nat]
    BY <1>4
  <2>2. \A i \in 1..n-1 : i \in 0..n-1 /\ i # 0
    OBVIOUS
  <2> HIDE DEF p
  <2>3. QED
    BY <1>2, <1>4, <2>1, <2>2 DEF IsTop
<1>6. AreNumbers(a, n) /\ AreNumbers(b, n) /\ AreNumbers(p, n)
  BY <1>4 DEF Fits, AreNumbers
<1>7. Biased(a, b) = [limbs |-> e, out |-> q]
  <2> DEFINE t2 == [i \in 0..7 |-> a[i] + Pow2[w[i]] - (IF i = 0 THEN 38 ELSE 1)]
  <2>1. t2 = t
    <3>1. ASSUME NEW i \in 0..7 PROVE t2[i] = t[i]
      <4>1. i \in 0..n-1
        OBVIOUS
      <4>2. a[i] \in Nat /\ Pow2[w[i]] \in Nat
        BY <1>3, <1>6, <4>1 DEF AreNumbers
      <4>3. QED
        BY <4>2
    <3>2. QED
      BY <3>1
  <2>2. Biased(a, b) = LET s2 == Ripple(t2, w)
                           d2 == Ripple([i \in 0..7 |-> s2.limbs[i] - b[i]], w)
                       IN [limbs |-> d2.limbs, out |-> s2.out + d2.out]
    BY DEF Biased
  <2> HIDE DEF t2, t
  <2>3. QED
    BY <2>1, <2>2
<1>8. q >= 0 /\ fed_sub(a, b) = IF q = 0 THEN e ELSE v.limbs
  <2>1. fed_sub(a, b) = IF Biased(a, b).out = 0 THEN Biased(a, b).limbs
                        ELSE Ripple(Plus(Biased(a, b).limbs, 0, 38), w).limbs
    BY DEF fed_sub
  <2> HIDE DEF q, e
  <2>2. QED
    BY <1>7, <2>1
<1> HIDE DEF p
<1>9. AreSums(t, a, p, n) /\ IsLimbs(t, n)
  BY <1>2, <1>6 DEF AreSums, AreNumbers, IsLimbs
<1>10. pS \in Nat /\ pS + 38 = 1 * Q
  BY <1>1, <1>5, TopStands
<1> HIDE DEF t
<1>11. A \in Nat /\ T = A + pS
  BY <1>2, <1>9, StandsSum
<1>12. Fits(f, w, n) /\ s.out \in Nat /\ S \in Nat /\ T = S + s.out * Q
  BY <1>1, <1>9, RippleSum
<1> HIDE DEF s
<1>13. Less(g, f, b, n)
  <2>1. f \in [0..n-1 -> Nat]
    BY <1>12 DEF Fits
  <2>2. AreNumbers(f, n)
    BY <2>1 DEF AreNumbers
  <2> HIDE DEF f
  <2>3. \A i \in 0..n-1 : f[i] \in Nat /\ b[i] \in Nat /\ g[i] = f[i] - b[i]
    BY <1>6, <2>2 DEF AreNumbers
  <2>4. g \in [0..n-1 -> Int]
    BY <2>3
  <2> HIDE DEF g
  <2>5. QED
    BY <1>6, <2>2, <2>3, <2>4 DEF Less
<1> HIDE DEF g, f
<1>14. Fits(e, w, n) /\ d.out \in Int /\ S = B + E + d.out * Q
  BY <1>1, <1>13, RippleStands
<1> HIDE DEF d
<1>15. A < Q /\ B \in Nat /\ E \in Nat /\ E < Q
  <2>1. A < Q /\ B \in Nat
    BY <1>1, FitsBelow
  <2> HIDE DEF e
  <2>2. E \in Nat /\ E < Q
    BY <1>1, <1>14, FitsBelow
  <2>3. QED
    BY <2>1, <2>2
<1> DEFINE so == s.out
           do == d.out
<1>16. q = so + do /\ so \in Nat /\ do \in Int
  BY <1>12, <1>14
<1>17. T = S + so * Q /\ S = B + E + do * Q
  BY <1>12, <1>14
<1> HIDE DEF so, do, q, A, B, S, T, E, Q, pS
<1>18. A + Q = B + E + 38 + q * Q
  <2> DEFINE x == so * Q
             z == do * Q
             qQ == q * Q
  <2>1. qQ = x + z /\ x \in Nat /\ z \in Int /\ qQ \in Int
    BY <1>2, <1>16
  <2>2. T = S + x /\ S = B + E + z
    BY <1>17
  <2> HIDE DEF x, z, qQ
  <2>3. A + Q = B + E + 38 + qQ
    BY <1>2, <1>10, <1>11, <1>12, <1>15, <2>1, <2>2
  <2>4. QED
    BY <2>3 DEF qQ
<1>19. CASE q = 0
  <2>1. fed_sub(a, b) = e
    BY <1>8, <1>19
  <2>2. 0 * Q = 0
    BY <1>2
  <2>3. E + B + 38 = A + Q
    BY <1>2, <1>11, <1>15, <1>18, <1>19, <2>2
  <2>4. QED
    BY <1>2, <1>11, <1>14, <1>15, <2>1, <2>3 DEF A, B, E, Q
<1>20. CASE q # 0
  <2>1. q = 1
    <3>1. ASSUME q # 1 PROVE FALSE
      <4>1. PICK k \in Nat : q = k + 2
        <5>1. q - 2 \in Nat /\ q = (q - 2) + 2
          BY <1>8, <1>16, <1>20, <3>1
        <5>2. QED
          BY <5>1
      <4>2. (k + 2) * Q = k * Q + 2 * Q /\ k * Q \in Nat
        BY <1>2
      <4> DEFINE x == k * Q
                 z == q * Q
      <4>3. z = x + 2 * Q /\ x \in Nat /\ A + Q = B + E + 38 + z
        BY <1>18, <4>1, <4>2
      <4> HIDE DEF x, z
      <4>4. QED
        BY <1>2, <1>11, <1>15, <4>3
    <3>2. QED
      BY <3>1
  <2>2. 1 * Q = Q
    BY <1>2
  <2>3. A = B + E + 38
    BY <1>2, <1>11, <1>15, <1>18, <2>1, <2>2
  <2>4. fed_sub(a, b) = v.limbs
    BY <1>8, <1>20
  <2>5. IsLimbs(e, n) /\ 38 \in Nat
    BY <1>14 DEF Fits, IsLimbs
  <2> HIDE DEF e
  <2>6. IsLimbs(u, n) /\ U = E + 38
    BY <1>1, <2>5, StandsPlus DEF E
  <2> HIDE DEF u
  <2>7. /\ Fits(v.limbs, w, n) /\ v.out \in Nat /\ R \in Nat /\ U = R + v.out * pl[n]
    BY <1>1, <2>6, RippleSum
  <2> DEFINE vo == v.out
  <2>8. vo \in Nat /\ U = R + vo * Q
    BY <2>7 DEF Q
  <2>9. U \in Nat /\ U < Q
    BY <1>2, <1>11, <1>15, <2>3, <2>6
  <2> HIDE DEF vo, U, v
  <2>10. R \in Nat
    BY <2>7
  <2> HIDE DEF R
  <2>11. U = R
    BY <1>2, <2>8, <2>9, <2>10, NothingOut
  <2>12. R + B = A
    BY <1>15, <2>3, <2>6, <2>11
  <2>13. QED
    BY <1>2, <1>11, <1>15, <2>4, <2>7, <2>10, <2>12 DEF A, B, R, Q
<1>21. QED
  BY <1>19, <1>20

-----------------------------------------------------------------------------
(* The field operations are exact *)

\* What the field is counted modulo, and the number that the limbs of a form stand for.
Prime == Two[5 * W] - 19
ValueOf(f, t) == Stands(t, Places(Widths[f], Count[f]), Count[f])

\* What an operation may be given: limbs up to five times their width, or full words.
IsOperand(f, t) ==
  IF f = "fed32" THEN Fits(t, Widths[f], Count[f]) ELSE AreLoose(t, Widths[f], Count[f])

\* What a product, a square or a difference returns: up to one and a half times.
IsResult(f, t) ==
  IF f = "fed32" THEN Fits(t, Widths[f], Count[f]) ELSE AreSettled(t, Widths[f], Count[f])

LEMMA PrimeIs == Prime \in Nat \ {0} /\ Two[5 * W] = Prime + 19
<1>1. W \in Nat /\ W >= 11 /\ W + 4 * W = 5 * W /\ 4 * W \in 0..10*W+26 /\ W \in 0..W+13 /\ 5 * W \in 0..10*W+26
  BY WidthIs
<1> HIDE DEF Two, Pow2
<1>2. Two[W + 4 * W] = Two[W] * Two[4 * W]
  BY <1>1, TwoOfSum
<1>3. Two[W] = Pow2[W] /\ Pow2[W] \in Nat /\ Pow2[W] >= 2048
  BY <1>1, TwoIsPow2, WideEnough
<1> DEFINE x == Two[W]
           z == Two[4 * W]
           p == x * z
<1>4. x \in Nat /\ x >= 2048 /\ z \in Nat \ {0} /\ Two[5 * W] = p
  BY <1>1, <1>2, <1>3, TwoIs
<1> HIDE DEF x, z, p
<1>5. p \in Nat /\ p >= 2048
  <2>1. 2048 * 1 <= x * z /\ x * z \in Nat
    BY <1>4, ProductBelow
  <2>2. QED
    BY <2>1 DEF p
<1>6. QED
  BY <1>4, <1>5 DEF Prime

\* Multiples do not change a residue.
LEMMA SameResidue ==
  ASSUME NEW d \in Nat \ {0}, NEW v \in Nat, NEW q \in Nat
  PROVE  (v + q * d) % d = v % d
<1>1. PICK c \in Int, r \in Int : c = v \div d /\ r = v % d
  OBVIOUS
<1>2. v = d * c + r /\ r \in 0..d-1
  BY <1>1
<1>3. v + q * d = (c + q) * d + r
  BY <1>1, <1>2
<1>4. v + q * d \in Int /\ c + q \in Int
  OBVIOUS
<1>5. (v + q * d) % d = r
  BY <1>2, <1>3, <1>4, DivisionIs
<1>6. QED
  BY <1>1, <1>5

\* A fold at 2^(5W) or at 2^(5W+1) leaves the residue.
LEMMA FoldsResidue ==
  ASSUME NEW x \in Nat, NEW v \in Nat, NEW z \in Nat,
         \/ z = Prime + 19 /\ FoldsTo(x, v, z)
         \/ z = 2 * Prime + 38 /\ FoldsTo38(x, v, z)
  PROVE  v % Prime = x % Prime
<1> DEFINE d == Prime
<1>1. d \in Nat \ {0}
  BY PrimeIs
<1>2. CASE z = d + 19 /\ FoldsTo(x, v, z)
  <2>1. PICK q \in Nat : x + 19 * q = v + q * z
    BY <1>2 DEF FoldsTo
  <2> HIDE DEF d
  <2>2. q * (d + 19) = q * d + 19 * q /\ q * d \in Nat
    BY <1>1
  <2>3. x = v + q * d
    BY <1>2, <2>1, <2>2
  <2>4. (v + q * d) % d = v % d
    BY <1>1, SameResidue
  <2>5. QED
    BY <2>3, <2>4 DEF d
<1>3. CASE z = 2 * d + 38 /\ FoldsTo38(x, v, z)
  <2>1. PICK q \in Nat : x + 38 * q = v + q * z
    BY <1>3 DEF FoldsTo38
  <2> HIDE DEF d
  <2>2. q * (2 * d + 38) = (2 * q) * d + 38 * q /\ (2 * q) * d \in Nat /\ 2 * q \in Nat
    BY <1>1
  <2>3. x = v + (2 * q) * d
    BY <1>3, <2>1, <2>2
  <2>4. (v + (2 * q) * d) % d = v % d
    BY <1>1, <2>2, SameResidue
  <2>5. QED
    BY <2>3, <2>4 DEF d
<1>4. QED
  BY <1>2, <1>3 DEF d

\* Where the limbs of each form end.
LEMMA FormEnds ==
  /\ Count.fe51 = 5 /\ Count.fe4 = 10 /\ Count.fed32 = 8
  /\ Places(Widths.fe51, 5)[5] = Prime + 19
  /\ Places(Widths.fe4, 10)[10] = Prime + 19
  /\ Places(Widths.fed32, 8)[8] = 2 * Prime + 38
  /\ ArePlaces(Places(Widths.fe51, 5), Widths.fe51, 5)
  /\ ArePlaces(Places(Widths.fe4, 10), Widths.fe4, 10)
  /\ ArePlaces(Places(Widths.fed32, 8), Widths.fed32, 8)
<1> HIDE DEF Widths
<1>1. Two[5 * W] = Prime + 19 /\ Prime \in Nat
  BY PrimeIs
<1>2. Count.fe51 = 5 /\ Count.fe4 = 10 /\ Count.fed32 = 8
  BY DEF Count
<1>3. ASSUME NEW n, n = 5
      PROVE  Places(Widths.fe51, n)[n] = Two[5 * W] /\ ArePlaces(Places(Widths.fe51, n), Widths.fe51, n)
  BY <1>3, Weighs51
<1>4. ASSUME NEW n, n = 10
      PROVE  Places(Widths.fe4, n)[n] = Two[5 * W] /\ ArePlaces(Places(Widths.fe4, n), Widths.fe4, n)
  BY <1>4, Weighs4
<1>5. ASSUME NEW n, n = 8
      PROVE  Places(Widths.fed32, n)[n] = 2 * Two[5 * W] /\ ArePlaces(Places(Widths.fed32, n), Widths.fed32, n)
  BY <1>5, Weighs32
<1> HIDE DEF Prime, Two
<1>6. QED
  BY <1>1, <1>2, <1>3, <1>4, <1>5

\* The results of the three forms, each with the fold that it makes.
LEMMA ProductsFold ==
  ASSUME NEW f \in Forms, NEW a, IsOperand(f, a), NEW b, IsOperand(f, b),
         f = "fed32" => SecondFold(Schoolbook(a, b)).out = 0,
         NEW r, r = MulIn(f, a, b) \/ (a = b /\ r = SqIn(f, a))
  PROVE  /\ IsResult(f, r)
         /\ ValueOf(f, a) \in Nat /\ ValueOf(f, b) \in Nat /\ ValueOf(f, r) \in Nat
         /\ ValueOf(f, r) % Prime = (ValueOf(f, a) * ValueOf(f, b)) % Prime
<1> DEFINE A == ValueOf(f, a)
           B == ValueOf(f, b)
           R == ValueOf(f, r)
<1>1. f = "fe51" \/ f = "fe4" \/ f = "fed32"
  BY DEF Forms
<1>2. CASE f = "fe51"
  <2>1. r = fe_mul(a, b) \/ (a = b /\ r = fe_sq(a))
    BY <1>2 DEF MulIn, SqIn
  <2>2. ASSUME NEW n, n = 5
        PROVE  IsProduct(r, a, b, Widths.fe51, Places(Widths.fe51, n), n)
    <3>1. AreLoose(a, Widths.fe51, n) /\ AreLoose(b, Widths.fe51, n)
      BY <1>2, <2>2, FormEnds DEF IsOperand
    <3>2. QED
      BY <2>1, <2>2, <3>1, MulIs51, SqIs51
  <2>3. IsProduct(r, a, b, Widths.fe51, Places(Widths.fe51, 5), 5)
    BY <2>2
  <2>4. /\ AreSettled(r, Widths[f], Count[f]) /\ A \in Nat /\ B \in Nat /\ R \in Nat
        /\ FoldsTo(A * B, R, Places(Widths.fe51, 5)[5])
    BY <1>2, <2>3, FormEnds DEF IsProduct, ValueOf
  <2> HIDE DEF A, B, R
  <2>5. R % Prime = (A * B) % Prime
    <3>1. A * B \in Nat /\ Prime + 19 \in Nat
      BY <2>4, PrimeIs
    <3>2. FoldsTo(A * B, R, Prime + 19)
      BY <2>4, FormEnds
    <3>3. QED
      BY <2>4, <3>1, <3>2, FoldsResidue
  <2>6. QED
    BY <1>2, <2>4, <2>5 DEF IsResult, A, B, R
<1>3. CASE f = "fe4"
  <2>1. r = fe4_mul(a, b) \/ (a = b /\ r = fe4_sq(a))
    BY <1>3 DEF MulIn, SqIn
  <2>2. ASSUME NEW n, n = 10
        PROVE  IsProduct(r, a, b, Widths.fe4, Places(Widths.fe4, n), n)
    <3>1. AreLoose(a, Widths.fe4, n) /\ AreLoose(b, Widths.fe4, n)
      BY <1>3, <2>2, FormEnds DEF IsOperand
    <3>2. QED
      BY <2>1, <2>2, <3>1, MulIs4, SqIs4
  <2>3. IsProduct(r, a, b, Widths.fe4, Places(Widths.fe4, 10), 10)
    BY <2>2
  <2>4. /\ AreSettled(r, Widths[f], Count[f]) /\ A \in Nat /\ B \in Nat /\ R \in Nat
        /\ FoldsTo(A * B, R, Places(Widths.fe4, 10)[10])
    BY <1>3, <2>3, FormEnds DEF IsProduct, ValueOf
  <2> HIDE DEF A, B, R
  <2>5. R % Prime = (A * B) % Prime
    <3>1. A * B \in Nat /\ Prime + 19 \in Nat
      BY <2>4, PrimeIs
    <3>2. FoldsTo(A * B, R, Prime + 19)
      BY <2>4, FormEnds
    <3>3. QED
      BY <2>4, <3>1, <3>2, FoldsResidue
  <2>6. QED
    BY <1>3, <2>4, <2>5 DEF IsResult, A, B, R
<1>4. CASE f = "fed32"
  <2>1. r = fed_mul(a, b)
    BY <1>4 DEF MulIn, SqIn
  <2>2. ASSUME NEW n, n = 8
        PROVE  /\ Fits(fed_mul(a, b), Widths.fed32, n)
               /\ Stands(a, Places(Widths.fed32, n), n) \in Nat
               /\ Stands(b, Places(Widths.fed32, n), n) \in Nat
               /\ Stands(fed_mul(a, b), Places(Widths.fed32, n), n) \in Nat
               /\ FoldsTo38(Stands(a, Places(Widths.fed32, n), n) * Stands(b, Places(Widths.fed32, n), n),
                            Stands(fed_mul(a, b), Places(Widths.fed32, n), n), Places(Widths.fed32, n)[n])
    <3>1. Fits(a, Widths.fed32, n) /\ Fits(b, Widths.fed32, n)
      BY <1>4, <2>2, FormEnds DEF IsOperand
    <3>2. QED
      BY <1>4, <2>2, <3>1, MulIs32
  <2>3. /\ Fits(r, Widths[f], Count[f]) /\ A \in Nat /\ B \in Nat /\ R \in Nat
        /\ FoldsTo38(A * B, R, Places(Widths.fed32, 8)[8])
    BY <1>4, <2>1, <2>2, FormEnds DEF ValueOf
  <2> HIDE DEF A, B, R
  <2>4. R % Prime = (A * B) % Prime
    <3>1. A * B \in Nat /\ 2 * Prime + 38 \in Nat
      BY <2>3, PrimeIs
    <3>2. FoldsTo38(A * B, R, 2 * Prime + 38)
      BY <2>3, FormEnds
    <3>3. QED
      BY <2>3, <3>1, <3>2, FoldsResidue
  <2>5. QED
    BY <1>4, <2>3, <2>4 DEF IsResult, A, B, R
<1>5. QED
  BY <1>1, <1>2, <1>3, <1>4

\* fe_mul, fe4_mul and fed_mul: whatever the limbs, the number that the result
\* stands for is the product modulo p, and no word has overflowed; fed_mul if
\* its second fold carries nothing out.
THEOREM ProductIsExact ==
  ASSUME NEW f \in Forms, NEW a, IsOperand(f, a), NEW b, IsOperand(f, b),
         f = "fed32" => SecondFold(Schoolbook(a, b)).out = 0
  PROVE  /\ IsResult(f, MulIn(f, a, b))
         /\ ValueOf(f, MulIn(f, a, b)) % Prime = (ValueOf(f, a) * ValueOf(f, b)) % Prime
<1>1. QED
  BY ProductsFold

\* fe_sq, fe4_sq, and fed_mul of a number by itself.
THEOREM SquareIsExact ==
  ASSUME NEW f \in Forms, NEW a, IsOperand(f, a),
         f = "fed32" => SecondFold(Schoolbook(a, a)).out = 0
  PROVE  /\ IsResult(f, SqIn(f, a))
         /\ ValueOf(f, SqIn(f, a)) % Prime = (ValueOf(f, a) * ValueOf(f, a)) % Prime
<1>1. QED
  BY ProductsFold

\* fe_add, fe4_add and fed_add.  fe_add carries nothing: a sum of sums of up
\* to m and k halves of the width is one of up to m + k, so that three results
\* may be added before the next product.
THEOREM SumIsExact ==
  ASSUME NEW f \in Forms, NEW a, IsOperand(f, a), NEW b, IsOperand(f, b),
         f = "fed32" => AddFold(a, b).out = 0
  PROVE  /\ f = "fe51" => \A m \in Nat, k \in Nat :
              AreWithin(a, Widths[f], 5, m) /\ AreWithin(b, Widths[f], 5, k)
                => AreWithin(AddIn(f, a, b), Widths[f], 5, m + k)
         /\ f # "fe51" => IsResult(f, AddIn(f, a, b))
         /\ ValueOf(f, AddIn(f, a, b)) % Prime = (ValueOf(f, a) + ValueOf(f, b)) % Prime
<1> DEFINE r == AddIn(f, a, b)
           A == ValueOf(f, a)
           B == ValueOf(f, b)
           R == ValueOf(f, r)
<1>1. f = "fe51" \/ f = "fe4" \/ f = "fed32"
  BY DEF Forms
<1>2. CASE f = "fe51"
  <2>1. r = fe_add(a, b)
    BY <1>2 DEF AddIn
  <2>2. ASSUME NEW n, n = 5
        PROVE  /\ IsSum(fe_add(a, b), a, b, Widths.fe51, Places(Widths.fe51, n), n)
               /\ \A m \in Nat, k \in Nat :
                    AreWithin(a, Widths.fe51, n, m) /\ AreWithin(b, Widths.fe51, n, k)
                      => AreWithin(fe_add(a, b), Widths.fe51, n, m + k)
    <3>1. AreLoose(a, Widths.fe51, n) /\ AreLoose(b, Widths.fe51, n)
      BY <1>2, <2>2, FormEnds DEF IsOperand
    <3>2. QED
      BY <2>2, <3>1, AddIs51
  <2>3. /\ IsSum(r, a, b, Widths.fe51, Places(Widths.fe51, 5), 5)
        /\ \A m \in Nat, k \in Nat :
             AreWithin(a, Widths[f], 5, m) /\ AreWithin(b, Widths[f], 5, k)
               => AreWithin(r, Widths[f], 5, m + k)
    BY <1>2, <2>1, <2>2
  <2>4. /\ A \in Nat /\ B \in Nat /\ R \in Nat
        /\ FoldsTo(A + B, R, Places(Widths.fe51, 5)[5])
    BY <1>2, <2>3, FormEnds DEF IsSum, ValueOf
  <2> HIDE DEF A, B, R
  <2>5. R % Prime = (A + B) % Prime
    <3>1. A + B \in Nat /\ Prime + 19 \in Nat
      BY <2>4, PrimeIs
    <3>2. FoldsTo(A + B, R, Prime + 19)
      BY <2>4, FormEnds
    <3>3. QED
      BY <2>4, <3>1, <3>2, FoldsResidue
  <2>6. QED
    BY <1>2, <2>3, <2>5 DEF A, B, R
<1>3. CASE f = "fe4"
  <2>1. r = fe4_add(a, b)
    BY <1>3 DEF AddIn
  <2>2. ASSUME NEW n, n = 10
        PROVE  /\ IsSum(fe4_add(a, b), a, b, Widths.fe4, Places(Widths.fe4, n), n)
               /\ AreTight(fe4_add(a, b), Widths.fe4, n)
    <3>1. AreLoose(a, Widths.fe4, n) /\ AreLoose(b, Widths.fe4, n)
      BY <1>3, <2>2, FormEnds DEF IsOperand
    <3>2. QED
      BY <2>2, <3>1, AddIs4
  <2>3. IsSum(r, a, b, Widths.fe4, Places(Widths.fe4, 10), 10) /\ AreTight(r, Widths[f], Count[f])
    BY <1>3, <2>1, <2>2, FormEnds
  <2>4. /\ A \in Nat /\ B \in Nat /\ R \in Nat
        /\ FoldsTo(A + B, R, Places(Widths.fe4, 10)[10])
    BY <1>3, <2>3, FormEnds DEF IsSum, ValueOf
  <2>5. AreSettled(r, Widths[f], Count[f])
    BY <2>3 DEF AreSettled, AreTight
  <2> HIDE DEF A, B, R
  <2>6. R % Prime = (A + B) % Prime
    <3>1. A + B \in Nat /\ Prime + 19 \in Nat
      BY <2>4, PrimeIs
    <3>2. FoldsTo(A + B, R, Prime + 19)
      BY <2>4, FormEnds
    <3>3. QED
      BY <2>4, <3>1, <3>2, FoldsResidue
  <2>7. QED
    BY <1>3, <2>5, <2>6 DEF IsResult, A, B, R
<1>4. CASE f = "fed32"
  <2>1. r = fed_add(a, b)
    BY <1>4 DEF AddIn
  <2>2. ASSUME NEW n, n = 8
        PROVE  /\ Fits(fed_add(a, b), Widths.fed32, n)
               /\ Stands(a, Places(Widths.fed32, n), n) \in Nat
               /\ Stands(b, Places(Widths.fed32, n), n) \in Nat
               /\ Stands(fed_add(a, b), Places(Widths.fed32, n), n) \in Nat
               /\ FoldsTo38(Stands(a, Places(Widths.fed32, n), n) + Stands(b, Places(Widths.fed32, n), n),
                            Stands(fed_add(a, b), Places(Widths.fed32, n), n), Places(Widths.fed32, n)[n])
    <3>1. Fits(a, Widths.fed32, n) /\ Fits(b, Widths.fed32, n)
      BY <1>4, <2>2, FormEnds DEF IsOperand
    <3>2. QED
      BY <1>4, <2>2, <3>1, AddIs32
  <2>3. /\ Fits(r, Widths[f], Count[f]) /\ A \in Nat /\ B \in Nat /\ R \in Nat
        /\ FoldsTo38(A + B, R, Places(Widths.fed32, 8)[8])
    BY <1>4, <2>1, <2>2, FormEnds DEF ValueOf
  <2> HIDE DEF A, B, R
  <2>4. R % Prime = (A + B) % Prime
    <3>1. A + B \in Nat /\ 2 * Prime + 38 \in Nat
      BY <2>3, PrimeIs
    <3>2. FoldsTo38(A + B, R, 2 * Prime + 38)
      BY <2>3, FormEnds
    <3>3. QED
      BY <2>3, <3>1, <3>2, FoldsResidue
  <2>5. QED
    BY <1>4, <2>3, <2>4 DEF IsResult, A, B, R
<1>5. QED
  BY <1>1, <1>2, <1>3, <1>4

\* fe_sub, fe4_sub and fed_sub: what b and the difference stand for add up to
\* what a stands for; fed_sub if what it borrows is nothing.
THEOREM DifferenceIsExact ==
  ASSUME NEW f \in Forms, NEW a, IsOperand(f, a), NEW b, IsOperand(f, b),
         f = "fed32" => Biased(a, b).out >= 0
  PROVE  /\ IsResult(f, SubIn(f, a, b))
         /\ (ValueOf(f, SubIn(f, a, b)) + ValueOf(f, b)) % Prime = ValueOf(f, a) % Prime
<1> DEFINE r == SubIn(f, a, b)
           A == ValueOf(f, a)
           B == ValueOf(f, b)
           R == ValueOf(f, r)
           d == Prime
<1>1. f = "fed32" \/ f \in {"fe51", "fe4"}
  BY DEF Forms
<1>2. d \in Nat \ {0}
  BY PrimeIs
<1>3. CASE f \in {"fe51", "fe4"}
  <2>1. r = Difference(Widths[f], a, b)
    BY <1>3 DEF SubIn
  <2>2. /\ ArePlaces(Places(Widths[f], Count[f]), Widths[f], Count[f]) /\ IsWide(Widths[f], Count[f])
        /\ Places(Widths[f], Count[f])[Count[f]] = d + 19
    BY <1>3, FormEnds, AreWide
  <2>3. AreLoose(a, Widths[f], Count[f]) /\ AreLoose(b, Widths[f], Count[f])
    BY <1>3 DEF IsOperand
  <2>4. IsDifference(r, a, b, Widths[f], Places(Widths[f], Count[f]), Count[f])
    <3> HIDE DEF Widths, Count
    <3>1. QED
      BY <2>1, <2>2, <2>3, DifferenceIs
  <2>5. /\ AreTight(r, Widths[f], Count[f]) /\ A \in Nat /\ B \in Nat /\ R \in Nat
        /\ \E v \in Nat : v + B + 152 = A + 8 * (d + 19) /\ FoldsTo(v, R, d + 19)
    <3> HIDE DEF d, r
    <3>1. QED
      BY <2>2, <2>4 DEF IsDifference, ValueOf
  <2>6. AreSettled(r, Widths[f], Count[f])
    BY <2>5 DEF AreSettled, AreTight
  <2>7. PICK v \in Nat : v + B + 152 = A + 8 * (d + 19) /\ FoldsTo(v, R, d + 19)
    BY <2>5
  <2> HIDE DEF A, B, R, d
  <2>8. PICK q \in Nat : v + 19 * q = R + q * (d + 19)
    BY <2>7 DEF FoldsTo
  <2>9. q * (d + 19) = q * d + 19 * q /\ q * d \in Nat
    BY <1>2
  <2>10. v = R + q * d
    BY <1>2, <2>5, <2>8, <2>9
  <2>11. R + q * d + B = A + 8 * d
    BY <1>2, <2>5, <2>7, <2>9, <2>10
  <2>12. (R + B) % d = A % d
    <3>1. (R + B) + q * d = A + 8 * d /\ R + B \in Nat
      BY <1>2, <2>5, <2>9, <2>11
    <3>2. ((R + B) + q * d) % d = (R + B) % d
      BY <1>2, <3>1, SameResidue
    <3>3. (A + 8 * d) % d = A % d
      BY <1>2, <2>5, SameResidue
    <3>4. QED
      BY <3>1, <3>2, <3>3
  <2>13. QED
    BY <1>3, <2>6, <2>12 DEF IsResult, A, B, R, d
<1>4. CASE f = "fed32"
  <2>1. r = fed_sub(a, b)
    BY <1>4 DEF SubIn
  <2>2. ASSUME NEW n, n = 8, NEW pl, pl = Places(Widths.fed32, n)
        PROVE  /\ Fits(fed_sub(a, b), Widths.fed32, n)
               /\ Stands(a, pl, n) \in Nat /\ Stands(b, pl, n) \in Nat /\ Stands(fed_sub(a, b), pl, n) \in Nat
               /\ \/ Stands(fed_sub(a, b), pl, n) + Stands(b, pl, n) + 38 = Stands(a, pl, n) + pl[n]
                  \/ Stands(fed_sub(a, b), pl, n) + Stands(b, pl, n) = Stands(a, pl, n)
    <3>1. Fits(a, Widths.fed32, n) /\ Fits(b, Widths.fed32, n)
      BY <1>4, <2>2, FormEnds DEF IsOperand
    <3>2. QED
      BY <1>4, <2>2, <3>1, SubIs32
  <2>3. /\ Fits(r, Widths[f], Count[f]) /\ A \in Nat /\ B \in Nat /\ R \in Nat
        /\ R + B + 38 = A + (2 * d + 38) \/ R + B = A
    BY <1>4, <2>1, <2>2, FormEnds DEF ValueOf
  <2> HIDE DEF A, B, R, d
  <2>4. (R + B) % d = A % d
    <3>1. R + B = A + 2 * d \/ R + B = A
      BY <1>2, <2>3
    <3>2. (A + 2 * d) % d = A % d
      BY <1>2, <2>3, SameResidue
    <3>3. QED
      BY <3>1, <3>2
  <2>5. QED
    BY <1>4, <2>3, <2>4 DEF IsResult, A, B, R, d
<1>5. QED
  BY <1>1, <1>3, <1>4

-----------------------------------------------------------------------------
(* The inversion of the field *)

\* A bag without duplicates, squared n times: each of its bits moves up n.
LEMMA SquaredSet ==
  ASSUME NEW S \in SUBSET Nat, NEW n \in Nat
  PROVE  SqTimes(SetToBag(S), n) = SetToBag({c + n : c \in S})
<1> DEFINE e == SetToBag(S)
<1>1. DOMAIN e = S
  BY DEF SetToBag
<1>2. ASSUME NEW b \in {c + n : c \in S}
      PROVE  e[b - n] = 1
  <2>1. b - n \in S
    OBVIOUS
  <2>2. QED
    BY <2>1 DEF SetToBag
<1> HIDE DEF e
<1>3. SqTimes(e, n) = [b \in {c + n : c \in S} |-> 1]
  BY <1>1, <1>2 DEF SqTimes
<1>4. QED
  BY <1>3 DEF SetToBag, e

\* Exponents with no bit in common are multiplied by joining their bits.
LEMMA JoinedSets ==
  ASSUME NEW S, NEW T, S \cap T = {}
  PROVE  Multiplied(SetToBag(S), SetToBag(T)) = SetToBag(S \cup T)
<1>1. ASSUME NEW a, NEW b
      PROVE  Multiplied(a, b) = [e \in DOMAIN a \cup DOMAIN b |->
                                   (IF e \in DOMAIN a THEN a[e] ELSE 0)
                                     + (IF e \in DOMAIN b THEN b[e] ELSE 0)]
  <2>1. Multiplied(a, b) = a (+) b
    BY Zenon DEF Multiplied
  <2>2. a (+) b = [e \in DOMAIN a \cup DOMAIN b |->
                     (IF e \in DOMAIN a THEN a[e] ELSE 0) + (IF e \in DOMAIN b THEN b[e] ELSE 0)]
    BY Zenon DEF (+)
  <2>3. QED
    BY <2>1, <2>2, Zenon
<1> DEFINE A == SetToBag(S)
           B == SetToBag(T)
           C == SetToBag(S \cup T)
<1>2. DOMAIN A = S /\ DOMAIN B = T /\ (\A e \in S : A[e] = 1) /\ \A e \in T : B[e] = 1
  BY DEF SetToBag
<1>3. C = [e \in S \cup T |-> 1]
  BY DEF SetToBag
<1> HIDE DEF A, B, C
<1>4. Multiplied(A, B) = [e \in S \cup T |->
                   (IF e \in S THEN A[e] ELSE 0) + (IF e \in T THEN B[e] ELSE 0)]
  BY <1>1, <1>2
<1>5. Multiplied(A, B) = [e \in S \cup T |-> 1]
  BY <1>2, <1>4
<1>6. QED
  BY <1>3, <1>5 DEF A, B, C

\* n ones.
Ones(n) == SetToBag(0..n-1)

\* m ones, squared n times, leave room for n more.
LEMMA OnesJoined ==
  ASSUME NEW m \in Nat, NEW n \in Nat
  PROVE  Multiplied(SqTimes(Ones(m), n), Ones(n)) = Ones(m + n)
<1> DEFINE S == 0..m-1
           T == {c + n : c \in S}
           U == 0..n-1
<1>1. S \in SUBSET Nat
  OBVIOUS
<1>2. SqTimes(SetToBag(S), n) = SetToBag(T)
  <2> HIDE DEF S
  <2>1. QED
    BY <1>1, SquaredSet
<1>3. T = n..m+n-1
  <2>1. \A b \in n..m+n-1 : b - n \in 0..m-1 /\ b = (b - n) + n
    OBVIOUS
  <2>2. QED
    BY <2>1
<1>4. T \cap U = {} /\ T \cup U = 0..(m+n)-1
  <2> HIDE DEF T
  <2>1. QED
    BY <1>3
<1>5. Multiplied(SetToBag(T), SetToBag(U)) = SetToBag(T \cup U)
  <2> HIDE DEF T, U
  <2>1. QED
    BY <1>4, JoinedSets, Zenon
<1>6. Ones(m) = SetToBag(S) /\ Ones(n) = SetToBag(U) /\ Ones(m + n) = SetToBag(0..(m+n)-1)
  BY Zenon DEF Ones
<1> HIDE DEF S, T, U
<1>7. QED
  BY <1>2, <1>4, <1>5, <1>6

\* The chain at its real size.
LEMMA ChainIsFermat ==
  InversionExponent(SetToBag({0})) = SetToBag(0..254 \ {2, 4})
<1> DEFINE z == SetToBag({0})
           z2 == SqTimes(z, 1)
           z9 == Multiplied(SqTimes(z2, 2), z)
           z11 == Multiplied(z9, z2)
           z2_5_0 == Multiplied(SqTimes(z11, 1), z9)
           z2_10_0 == Multiplied(SqTimes(z2_5_0, 5), z2_5_0)
           z2_20_0 == Multiplied(SqTimes(z2_10_0, 10), z2_10_0)
           z2_40_0 == Multiplied(SqTimes(z2_20_0, 20), z2_20_0)
           z2_50_0 == Multiplied(SqTimes(z2_40_0, 10), z2_10_0)
           z2_100_0 == Multiplied(SqTimes(z2_50_0, 50), z2_50_0)
           z2_200_0 == Multiplied(SqTimes(z2_100_0, 100), z2_100_0)
           z2_250_0 == Multiplied(SqTimes(z2_200_0, 50), z2_50_0)
<1> HIDE DEF z, z2, z9, z11, z2_5_0, z2_10_0, z2_20_0, z2_40_0, z2_50_0, z2_100_0,
            z2_200_0, z2_250_0
<1>1. z2 = SetToBag({1})
  <2>1. {c + 1 : c \in {0}} = {1}
    OBVIOUS
  <2>2. QED
    BY <2>1, SquaredSet DEF z, z2
<1>2. z9 = SetToBag({0, 3})
  <2>1. SqTimes(z2, 2) = SetToBag({c + 2 : c \in {1}})
    BY <1>1, SquaredSet
  <2>2. {c + 2 : c \in {1}} = {3} /\ {3} \cap {0} = {} /\ {3} \cup {0} = {0, 3}
    OBVIOUS
  <2>3. QED
    BY <2>1, <2>2, JoinedSets DEF z, z9
<1>3. z11 = SetToBag({0, 1, 3})
  <2>1. {0, 3} \cap {1} = {} /\ {0, 3} \cup {1} = {0, 1, 3}
    OBVIOUS
  <2>2. QED
    BY <1>1, <1>2, <2>1, JoinedSets DEF z11
<1>4. z2_5_0 = Ones(5)
  <2>1. SqTimes(z11, 1) = SetToBag({c + 1 : c \in {0, 1, 3}})
    BY <1>3, SquaredSet
  <2>2. /\ {c + 1 : c \in {0, 1, 3}} = {1, 2, 4} /\ {1, 2, 4} \cap {0, 3} = {}
        /\ {1, 2, 4} \cup {0, 3} = 0..4
    OBVIOUS
  <2>3. QED
    BY <1>2, <2>1, <2>2, JoinedSets DEF Ones, z2_5_0
<1>5. z2_10_0 = Ones(10)
  BY <1>4, OnesJoined DEF z2_10_0
<1>6. z2_20_0 = Ones(20)
  BY <1>5, OnesJoined DEF z2_20_0
<1>7. z2_40_0 = Ones(40)
  BY <1>6, OnesJoined DEF z2_40_0
<1>8. z2_50_0 = Ones(50)
  BY <1>5, <1>7, OnesJoined DEF z2_50_0
<1>9. z2_100_0 = Ones(100)
  BY <1>8, OnesJoined DEF z2_100_0
<1>10. z2_200_0 = Ones(200)
  BY <1>9, OnesJoined DEF z2_200_0
<1>11. z2_250_0 = Ones(250)
  BY <1>8, <1>10, OnesJoined DEF z2_250_0
<1>12. Multiplied(SqTimes(z2_250_0, 5), z11) = SetToBag(0..254 \ {2, 4})
  <2>1. SqTimes(Ones(250), 5) = SetToBag({c + 5 : c \in 0..249})
    <3> DEFINE S == 0..249
    <3>1. S \in SUBSET Nat /\ Ones(250) = SetToBag(S)
      BY DEF Ones
    <3> HIDE DEF S
    <3>2. SqTimes(Ones(250), 5) = SetToBag({c + 5 : c \in S})
      BY <3>1, SquaredSet
    <3>3. QED
      BY <3>2 DEF S
  <2>2. {c + 5 : c \in 0..249} = 5..254
    <3>1. \A b \in 5..254 : b - 5 \in 0..249 /\ b = (b - 5) + 5
      OBVIOUS
    <3>2. QED
      BY <3>1
  <2>3. (5..254) \cap {0, 1, 3} = {} /\ (5..254) \cup {0, 1, 3} = 0..254 \ {2, 4}
    OBVIOUS
  <2>4. QED
    BY <1>3, <1>11, <2>1, <2>2, <2>3, JoinedSets
<1>13. InversionExponent(z) = Multiplied(SqTimes(z2_250_0, 5), z11)
  BY Zenon DEF InversionExponent, z2, z9, z11, z2_5_0, z2_10_0, z2_20_0, z2_40_0, z2_50_0,
               z2_100_0, z2_200_0, z2_250_0
<1>14. QED
  BY <1>12, <1>13 DEF z

\* Whatever is inverted is raised to 2^255 - 21, which is p - 2: Fermat's
\* exponent, at its real size.
THEOREM InversionAlwaysFermat == FieldSpec => []InversionIsFermat
<1>1. FieldInit => InversionIsFermat
  BY DEF FieldInit, InversionIsFermat
<1>2. InversionIsFermat /\ [FieldNext]_fieldVars => InversionIsFermat'
  <2> SUFFICES ASSUME InversionIsFermat, [FieldNext]_fieldVars PROVE InversionIsFermat'
    OBVIOUS
  <2>1. CASE Invert
    BY <2>1, ChainIsFermat DEF Invert, InversionIsFermat
  <2>2. CASE \/ \E x \in Loads : CallAdd(x) \/ CallSub(x) \/ CallSubFrom(x) \/ CallMul(x)
             \/ CallSq \/ (\E to \in Forms : Convert(to)) \/ UNCHANGED fieldVars
    <3>1. exponent' = exponent
      BY <2>2 DEF CallAdd, CallSub, CallSubFrom, CallMul, CallSq, Convert, Called, fieldVars
    <3>2. QED
      BY <3>1 DEF InversionIsFermat
  <2>3. QED
    BY <2>1, <2>2 DEF FieldNext
<1>3. QED
  BY <1>1, <1>2, PTL DEF FieldSpec
-----------------------------------------------------------------------------
(* Residues in two halves *)

\* The number that two halves are, and halves of which the low one has no bit too many.
ValOf(x) == x[1] + Base * x[2]
Halves == (0..Base-1) \X Nat
IsResidue(x) == x \in Halves /\ ValOf(x) < Prime

\* A number, divided.
LEMMA Divided ==
  ASSUME NEW d \in Nat \ {0}, NEW x \in Nat
  PROVE  x \div d \in Nat /\ x % d \in 0..d-1 /\ x = (x \div d) * d + (x % d)
<1>1. PICK u \in Int, v \in Int : u = x \div d /\ v = x % d
  OBVIOUS
<1>2. v \in 0..d-1 /\ x = u * d + v
  BY <1>1
<1>3. u >= 0
  <2> SUFFICES ASSUME u < 0 PROVE FALSE
    OBVIOUS
  <2>1. PICK k \in Nat : u = -1 - k
    <3>1. -1 - u \in Nat /\ u = -1 - (-1 - u)
      OBVIOUS
    <3>2. QED
      BY <3>1
  <2>2. u * d = 0 - d - k * d /\ k * d \in Nat
    BY <2>1
  <2>3. QED
    BY <1>2, <2>2
<1>4. QED
  BY <1>1, <1>2, <1>3

\* How many bits the halves have.
LEMMA HalfIs == HalfBits \in Nat /\ HalfBits >= 28 /\ 2 * HalfBits = 5 * W + 1
  BY WidthIs, LimbAssumption DEF HalfBits

\* The powers of the halves are those of the places.
LEMMA HalfPowIs == \A k \in 0..HalfBits : HalfPow[k] = Two[k]
<1>1. /\ HalfBits \in Nat /\ \A k \in 1..HalfBits : k \in 1..10*W+26
  BY WidthIs, HalfIs
<1>2. HalfPow = CHOOSE v : v = [k \in 0..HalfBits |-> IF k = 0 THEN 1 ELSE 2 * v[k - 1]]
  BY Zenon DEF HalfPow
<1> HIDE DEF Two, HalfPow, HalfBits
<1>3. AreDoubled(HalfPow, HalfBits)
  BY <1>1, <1>2, Doubled
<1>4. GoAlike(HalfPow, Two, HalfBits)
  BY <1>1, <1>3, TwoIs DEF GoAlike, AreDoubled
<1>5. QED
  BY <1>1, <1>4, Alike

\* Where the halves meet, and the prime in halves.
LEMMA HalvesAre ==
  /\ Base = Two[HalfBits] /\ Base \in Nat /\ Base >= 64
  /\ P \in Halves /\ ValOf(P) = Prime
<1> DEFINE T == HalfPow[5 * W - HalfBits]
<1>1. /\ W \in Nat /\ HalfBits \in Nat /\ HalfBits >= 28 /\ 5 * W = HalfBits + (HalfBits - 1)
      /\ 5 * W - HalfBits = HalfBits - 1 /\ 5 * W <= 10 * W + 26
  BY WidthIs, HalfIs
<1> HIDE DEF HalfBits, Two, HalfPow
<1>2. Base = Two[HalfBits] /\ T = Two[HalfBits - 1]
  BY <1>1, HalfPowIs DEF Base
<1>3. Base = 2 * T /\ T \in Nat
  <2>1. HalfBits \in 1..10*W+26 /\ HalfBits - 1 \in 0..10*W+26
    BY <1>1
  <2>2. QED
    BY <1>2, <2>1, TwoIs
<1>4. T >= 32
  <2>1. Two[HalfBits - 1] = Two[5] * Two[HalfBits - 6]
    <3>1. HalfBits - 6 \in Nat /\ 5 + (HalfBits - 6) = HalfBits - 1 /\ HalfBits - 1 <= 10 * W + 26
      BY <1>1
    <3>2. 5 \in Nat /\ 5 + (HalfBits - 6) <= 10 * W + 26
      BY <3>1
    <3>3. QED
      BY <3>1, <3>2, TwoOfSum
  <2>2. Two[5] = 32
    <3>1. 5 \in 0..W+13
      BY WidthIs
    <3>2. QED
      BY <3>1, TwoIsPow2, SmallPowers
  <2>3. Two[HalfBits - 6] \in Nat \ {0}
    BY <1>1, TwoIs
  <2>4. QED
    BY <1>2, <2>1, <2>2, <2>3
<1>5. Two[5 * W] = Base * T
  BY <1>1, <1>2, TwoOfSum
<1>6. P = <<Base - 19, T - 1>>
  BY DEF P
<1> HIDE DEF T, Base
<1>7. P \in Halves
  BY <1>3, <1>4, <1>6 DEF Halves
<1>8. ValOf(P) = Prime
  <2>1. ValOf(P) = (Base - 19) + Base * (T - 1)
    BY <1>6 DEF ValOf
  <2>2. Base * (T - 1) = Base * T - Base /\ Base * T \in Nat
    BY <1>3
  <2>3. QED
    BY <1>3, <1>5, <2>1, <2>2 DEF Prime
<1>9. QED
  BY <1>2, <1>3, <1>4, <1>7, <1>8

\* Two halves, one by one.
LEMMA HalvesIs ==
  ASSUME NEW x \in Halves
  PROVE  x[1] \in Nat /\ x[1] < Base /\ x[2] \in Nat /\ x = <<x[1], x[2]>> /\ ValOf(x) \in Nat
<1>1. Base \in Nat
  BY HalvesAre
<1> HIDE DEF Base
<1>2. x[1] \in Nat /\ x[1] < Base /\ x[2] \in Nat /\ x = <<x[1], x[2]>>
  BY <1>1 DEF Halves
<1>3. QED
  BY <1>1, <1>2 DEF ValOf

\* The higher halves decide, then the lower.
LEMMA AtLeastIs ==
  ASSUME NEW x \in Halves, NEW z \in Halves
  PROVE  AtLeast(x, z) <=> ValOf(x) >= ValOf(z)
<1> DEFINE b == Base
           x1 == x[1]
           x2 == x[2]
           z1 == z[1]
           z2 == z[2]
<1>1. b \in Nat /\ x1 \in Nat /\ x1 < b /\ x2 \in Nat /\ z1 \in Nat /\ z1 < b /\ z2 \in Nat
  BY HalvesAre, HalvesIs
<1>2. ValOf(x) = x1 + b * x2 /\ ValOf(z) = z1 + b * z2 /\ (AtLeast(x, z) <=> x2 > z2 \/ (x2 = z2 /\ x1 >= z1))
  BY DEF ValOf, AtLeast
<1> HIDE DEF b, x1, x2, z1, z2
<1>3. ASSUME NEW u \in Nat, NEW v \in Nat, u > v
      PROVE  b * u >= b * v + b
  <2>1. PICK k \in Nat : u = v + 1 + k
    <3>1. u - v - 1 \in Nat /\ u = v + 1 + (u - v - 1)
      BY <1>3
    <3>2. QED
      BY <3>1
  <2>2. b * u = b * v + b + b * k /\ b * k \in Nat /\ b * v \in Nat
    BY <1>1, <2>1
  <2>3. QED
    BY <1>1, <2>2
<1>4. b * x2 \in Nat /\ b * z2 \in Nat
  BY <1>1
<1>5. CASE x2 > z2
  <2>1. b * x2 >= b * z2 + b
    BY <1>1, <1>3, <1>5
  <2>2. QED
    BY <1>1, <1>2, <1>4, <1>5, <2>1
<1>6. CASE z2 > x2
  <2>1. b * z2 >= b * x2 + b
    BY <1>1, <1>3, <1>6
  <2>2. ~(x2 > z2 \/ (x2 = z2 /\ x1 >= z1))
    BY <1>1, <1>6
  <2>3. QED
    BY <1>1, <1>2, <1>4, <2>1, <2>2
<1>7. CASE x2 = z2
  BY <1>1, <1>2, <1>4, <1>7
<1>8. QED
  BY <1>1, <1>5, <1>6, <1>7

\* What the low half has too many is carried to the high one, or borrowed from it.
LEMMA CarriedHalf ==
  ASSUME NEW s \in Int, NEW t \in Int, NEW v \in Nat, v = s + Base * t,
         NEW x, x = <<s % Base, t + s \div Base>>
  PROVE  x \in Halves /\ ValOf(x) = v
<1> DEFINE b == Base
           r == s % b
           q == s \div b
<1>1. b \in Nat \ {0}
  BY HalvesAre
<1>2. r \in 0..b-1 /\ q \in Int /\ s = b * q + r
  BY <1>1
<1>3. v = s + b * t /\ x = <<r, t + q>>
  OBVIOUS
<1> HIDE DEF b, r, q
<1>4. b * (t + q) = b * t + b * q /\ b * t \in Int /\ b * q \in Int
  BY <1>1, <1>2
<1>5. r + b * (t + q) = v
  BY <1>1, <1>2, <1>3, <1>4
<1>6. t + q \in Nat
  <2> SUFFICES ASSUME t + q < 0 PROVE FALSE
    BY <1>2
  <2>1. PICK k \in Nat : t + q = -1 - k
    <3>1. -1 - (t + q) \in Nat /\ t + q = -1 - (-1 - (t + q))
      BY <1>2
    <3>2. QED
      BY <3>1
  <2>2. b * (t + q) = 0 - b - b * k /\ b * k \in Nat
    BY <1>1, <2>1
  <2>3. QED
    BY <1>1, <1>2, <1>5, <2>2
<1>7. QED
  BY <1>2, <1>3, <1>5, <1>6 DEF Halves, ValOf, b

\* A greater number less another.
LEMMA MinusIs ==
  ASSUME NEW x \in Halves, NEW z \in Halves, ValOf(x) >= ValOf(z)
  PROVE  Minus(x, z) \in Halves /\ ValOf(Minus(x, z)) = ValOf(x) - ValOf(z)
<1> DEFINE s == x[1] - z[1]
           t == x[2] - z[2]
           v == ValOf(x) - ValOf(z)
<1>1. /\ x[1] \in Nat /\ x[2] \in Nat /\ z[1] \in Nat /\ z[2] \in Nat
      /\ ValOf(x) \in Nat /\ ValOf(z) \in Nat /\ Base \in Nat
  BY HalvesIs, HalvesAre
<1> HIDE DEF Base
<1>2. s \in Int /\ t \in Int /\ v \in Nat
  BY <1>1
<1>3. v = s + Base * t
  <2>1. Base * t = Base * x[2] - Base * z[2] /\ Base * x[2] \in Nat /\ Base * z[2] \in Nat
    BY <1>1
  <2>2. QED
    BY <1>1, <2>1 DEF ValOf
<1>4. Minus(x, z) = <<s % Base, t + s \div Base>>
  BY DEF Minus
<1> HIDE DEF s, t, v
<1>5. QED
  BY <1>2, <1>3, <1>4, CarriedHalf DEF v

\* Once the prime is taken off, what is below twice the prime is a residue.
LEMMA ResidueIs ==
  ASSUME NEW x \in Halves, ValOf(x) < 2 * Prime
  PROVE  IsResidue(Residue(x)) /\ ValOf(Residue(x)) = ValOf(x) % Prime
<1> DEFINE d == Prime
           v == ValOf(x)
<1>1. d \in Nat \ {0} /\ v \in Nat /\ P \in Halves /\ ValOf(P) = d /\ v < 2 * d
  BY PrimeIs, HalvesAre, HalvesIs
<1>2. AtLeast(x, P) <=> v >= d
  BY <1>1, AtLeastIs
<1> HIDE DEF d, P
<1>3. CASE v >= d
  <2>1. Residue(x) = Minus(x, P)
    BY <1>2, <1>3 DEF Residue
  <2>2. Residue(x) \in Halves /\ ValOf(Residue(x)) = v - d
    BY <1>1, <1>3, <2>1, MinusIs
  <2> HIDE DEF v
  <2> DEFINE r == v - d
  <2>3. r \in 0..d-1 /\ v = 1 * d + r
    BY <1>1, <1>3
  <2> HIDE DEF r
  <2>4. v % d = r
    BY <1>1, <2>3, DivisionIs
  <2>5. r < d
    BY <1>1, <2>3
  <2>6. QED
    BY <2>2, <2>4, <2>5 DEF IsResidue, v, d, r
<1>4. CASE v < d
  <2>1. Residue(x) = x
    BY <1>1, <1>2, <1>4 DEF Residue
  <2> HIDE DEF v
  <2>2. v \in 0..d-1 /\ v = 0 * d + v
    BY <1>1, <1>4
  <2>3. v % d = v
    BY <1>1, <2>2, DivisionIs
  <2>4. QED
    BY <1>4, <2>1, <2>3 DEF IsResidue, v, d
<1>5. QED
  BY <1>1, <1>3, <1>4

\* A sum of residues.
LEMMA AddModIs ==
  ASSUME NEW x, IsResidue(x), NEW z, IsResidue(z)
  PROVE  IsResidue(AddMod(x, z)) /\ ValOf(AddMod(x, z)) = (ValOf(x) + ValOf(z)) % Prime
<1> DEFINE s == x[1] + z[1]
           t == x[2] + z[2]
           v == ValOf(x) + ValOf(z)
           u == <<s % Base, t + s \div Base>>
<1>1. /\ x \in Halves /\ z \in Halves /\ x[1] \in Nat /\ x[2] \in Nat /\ z[1] \in Nat /\ z[2] \in Nat
      /\ ValOf(x) \in Nat /\ ValOf(z) \in Nat /\ ValOf(x) < Prime /\ ValOf(z) < Prime
      /\ Base \in Nat /\ Prime \in Nat
  BY HalvesIs, HalvesAre, PrimeIs DEF IsResidue
<1> HIDE DEF Base, Prime
<1>2. s \in Int /\ t \in Int /\ v \in Nat /\ v < 2 * Prime
  BY <1>1
<1>3. v = s + Base * t
  <2>1. Base * t = Base * x[2] + Base * z[2] /\ Base * x[2] \in Nat /\ Base * z[2] \in Nat
    BY <1>1
  <2>2. QED
    BY <1>1, <2>1 DEF ValOf
<1>4. AddMod(x, z) = Residue(u)
  BY DEF AddMod
<1> HIDE DEF s, t, v
<1>5. u \in Halves /\ ValOf(u) = v
  BY <1>2, <1>3, CarriedHalf
<1> HIDE DEF u
<1>6. QED
  BY <1>2, <1>4, <1>5, ResidueIs DEF v

\* A difference, which z is added to.
LEMMA SubModIs ==
  ASSUME NEW x, IsResidue(x), NEW z, IsResidue(z)
  PROVE  IsResidue(SubMod(x, z)) /\ (ValOf(SubMod(x, z)) + ValOf(z)) % Prime = ValOf(x) % Prime
<1> DEFINE m == IF z = <<0, 0>> THEN z ELSE Minus(P, z)
           d == Prime
           a == ValOf(x)
           b == ValOf(z)
           c == ValOf(m)
<1>1. /\ z \in Halves /\ z[1] \in Nat /\ z[2] \in Nat /\ z = <<z[1], z[2]>> /\ Base \in Nat /\ Base >= 64
      /\ a \in Nat /\ b \in Nat /\ b < d /\ d \in Nat \ {0} /\ P \in Halves /\ ValOf(P) = d
  BY HalvesIs, HalvesAre, PrimeIs DEF IsResidue
<1> HIDE DEF Base, d, P
<1>2. IsResidue(m) /\ \E q \in Nat : c + b = q * d
  <2>1. CASE z = <<0, 0>>
    <3>1. b = 0 /\ m = z
      BY <1>1, <2>1 DEF ValOf
    <3>2. c + b = 0 * d
      BY <1>1, <3>1
    <3>3. QED
      BY <3>1, <3>2
  <2>2. CASE z # <<0, 0>>
    <3>1. m \in Halves /\ c = d - b
      <4>1. m = Minus(P, z) /\ d >= b
        BY <1>1, <2>2
      <4> HIDE DEF m
      <4>2. QED
        BY <1>1, <4>1, MinusIs
    <3>2. b # 0
      <4>1. Base * z[2] \in Nat /\ (z[2] # 0 => Base * z[2] # 0)
        BY <1>1
      <4>2. z[1] # 0 \/ z[2] # 0
        BY <1>1, <2>2
      <4>3. QED
        BY <1>1, <4>1, <4>2 DEF ValOf
    <3> HIDE DEF m
    <3>3. c < d /\ c + b = 1 * d
      <4> HIDE DEF a, b, c
      <4>1. QED
        BY <1>1, <3>1, <3>2
    <3>4. QED
      BY <3>1, <3>3 DEF IsResidue, d
  <2>3. QED
    BY <2>1, <2>2
<1>3. SubMod(x, z) = AddMod(x, m)
  BY DEF SubMod
<1> HIDE DEF m
<1>4. IsResidue(AddMod(x, m)) /\ ValOf(AddMod(x, m)) = (a + c) % d
  BY <1>2, AddModIs DEF d
<1>5. c \in Nat
  BY <1>2, HalvesIs DEF IsResidue
<1>6. PICK q \in Nat : c + b = q * d
  BY <1>2
<1> HIDE DEF a, b, c
<1>7. (((a + c) % d) + b) % d = a % d
  <2> DEFINE s == a + c
             k == s \div d
             r == s % d
  <2>1. s \in Nat
    BY <1>1, <1>5
  <2>2. s = a + c
    OBVIOUS
  <2> HIDE DEF s
  <2>3. k \in Nat /\ r \in Nat /\ s = k * d + r
    BY <1>1, <2>1, Divided
  <2> HIDE DEF k, r
  <2>4. k * d \in Nat /\ q * d \in Nat /\ r + b \in Nat
    BY <1>1, <2>3
  <2>5. (r + b) + k * d = a + q * d
    BY <1>1, <1>5, <1>6, <2>2, <2>3, <2>4
  <2>6. ((r + b) + k * d) % d = (r + b) % d /\ (a + q * d) % d = a % d
    BY <1>1, <2>3, <2>4, SameResidue
  <2>7. QED
    BY <2>5, <2>6 DEF r, s
<1>8. QED
  BY <1>3, <1>4, <1>7 DEF a, b, d
-----------------------------------------------------------------------------
(* Products of halves *)

\* Bit m of a number, and the bits of a number up to those of the field.
BitAt(v, m) == (v \div Two[m]) % 2 = 1
HasBits(v, bits) == v \in Nat /\ v < Two[5 * W] /\ \A m \in 0..5*W-1 : BitAt(v, m) <=> m \in bits

\* The residue of a sum is that of the sum of the residues.
LEMMA ResidueOfSum ==
  ASSUME NEW d \in Nat \ {0}, NEW x \in Nat, NEW z \in Nat
  PROVE  ((x % d) + z) % d = (x + z) % d /\ x % d \in Nat
<1> DEFINE k == x \div d
           r == x % d
<1>1. k \in Nat /\ r \in 0..d-1 /\ x = k * d + r
  BY Divided
<1> HIDE DEF k, r
<1>2. r \in Nat /\ k * d \in Nat /\ r + z \in Nat /\ x + z = (r + z) + k * d
  BY <1>1
<1>3. ((r + z) + k * d) % d = (r + z) % d
  BY <1>1, <1>2, SameResidue
<1>4. QED
  BY <1>2, <1>3 DEF r

\* One step of a product.
LEMMA StepIs ==
  ASSUME NEW x, IsResidue(x), NEW s, IsResidue(s), NEW bits, NEW n
  PROVE  /\ IsResidue(Step(x, bits, n)[s])
         /\ ValOf(Step(x, bits, n)[s])
              = (2 * ValOf(s) + (IF n \in bits THEN ValOf(x) ELSE 0)) % Prime
<1> DEFINE e == AddMod(s, s)
           a == ValOf(s)
           b == ValOf(x)
           d == Prime
<1>1. s \in Nat \X Nat /\ a \in Nat /\ b \in Nat /\ d \in Nat \ {0}
  <2>1. s \in Halves /\ x \in Halves /\ Base \in Nat
    BY HalvesAre DEF IsResidue
  <2>2. QED
    BY <2>1, HalvesIs, PrimeIs
<1>2. Step(x, bits, n)[s] = IF n \in bits THEN AddMod(e, x) ELSE e
  BY <1>1 DEF Step
<1>3. IsResidue(e) /\ ValOf(e) = (a + a) % d
  BY AddModIs
<1> HIDE DEF e
<1>4. IsResidue(AddMod(e, x)) /\ ValOf(AddMod(e, x)) = (ValOf(e) + b) % d
  BY <1>3, AddModIs
<1> HIDE DEF a, b, d
<1>5. a + a \in Nat /\ a + a = 2 * a
  BY <1>1
<1>6. (((a + a) % d) + b) % d = ((a + a) + b) % d
  BY <1>1, <1>5, ResidueOfSum
<1>7. CASE n \in bits
  <2>1. ValOf(AddMod(e, x)) = (2 * a + b) % d
    BY <1>3, <1>4, <1>5, <1>6
  <2>2. QED
    BY <1>2, <1>4, <1>7, <2>1 DEF a, b, d
<1>8. CASE n \notin bits
  <2>1. ValOf(e) = (2 * a + 0) % d
    BY <1>1, <1>3, <1>5
  <2>2. QED
    BY <1>2, <1>3, <1>8, <2>1 DEF a, b, d
<1>9. QED
  BY <1>7, <1>8

\* The bits above bit m, and bit m.
LEMMA NextBit ==
  ASSUME NEW v \in Nat, NEW m \in 0..10*W+25
  PROVE  /\ v \div Two[m] \in Nat /\ v \div Two[m + 1] \in Nat
         /\ v \div Two[m] = 2 * (v \div Two[m + 1]) + (IF BitAt(v, m) THEN 1 ELSE 0)
<1> DEFINE d == Two[m]
           q == v \div d
           r == v % d
           e == q \div 2
           b == q % 2
<1>1. d \in Nat \ {0} /\ Two[m + 1] = 2 * d /\ 2 * d \in Nat \ {0}
  <2>1. m \in 0..10*W+26 /\ m + 1 \in 1..10*W+26 /\ (m + 1) - 1 = m
    BY WidthIs
  <2> HIDE DEF Two
  <2>2. d \in Nat \ {0} /\ Two[m + 1] = 2 * d
    BY <2>1, TwoIs
  <2>3. QED
    BY <2>2
<1> HIDE DEF d
<1>2. q \in Nat /\ r \in 0..d-1 /\ v = q * d + r
  BY <1>1, Divided
<1>3. b = 1 <=> BitAt(v, m)
  BY DEF BitAt, d
<1> HIDE DEF q, r
<1>4. e \in Nat /\ b \in 0..1 /\ q = 2 * e + b
  BY <1>2
<1> HIDE DEF e, b
<1> DEFINE s == b * d + r
<1>5. s \in 0..2*d-1 /\ v = e * (2 * d) + s
  <2>1. b * d = (IF b = 1 THEN d ELSE 0)
    BY <1>1, <1>4
  <2>2. q * d = e * (2 * d) + b * d /\ e * (2 * d) \in Nat
    BY <1>1, <1>4
  <2>3. QED
    BY <1>1, <1>2, <1>4, <2>1, <2>2
<1> HIDE DEF s
<1>6. v \div (2 * d) = e
  <2> DEFINE u == 2 * d
  <2>1. u \in Nat \ {0} /\ s \in 0..u-1 /\ v = e * u + s
    BY <1>1, <1>5
  <2> HIDE DEF u
  <2>2. v \div u = e
    BY <1>4, <2>1, DivisionIs
  <2>3. QED
    BY <2>2 DEF u
<1>7. QED
  BY <1>1, <1>2, <1>3, <1>4, <1>6 DEF q, d

\* A number has no bits above what it is below.
LEMMA NoBitAbove ==
  ASSUME NEW v \in Nat, NEW m \in 0..10*W+26
  PROVE  v \div Two[m] = 0 <=> v < Two[m]
<1> DEFINE d == Two[m]
           q == v \div d
           r == v % d
<1>1. d \in Nat \ {0}
  BY TwoIs
<1> HIDE DEF d
<1>2. q \in Nat /\ r \in 0..d-1 /\ v = q * d + r
  BY <1>1, Divided
<1> HIDE DEF q, r
<1>3. q # 0 => q * d >= d
  BY <1>1, <1>2
<1>4. q = 0 => q * d = 0
  BY <1>1
<1>5. q = 0 <=> v < d
  BY <1>1, <1>2, <1>3, <1>4
<1>6. QED
  BY <1>5 DEF q, d

\* A residue times the number with those bits.
LEMMA TimesIs ==
  ASSUME NEW x, IsResidue(x), NEW bits, NEW v, HasBits(v, bits)
  PROVE  IsResidue(Times(x, bits)) /\ ValOf(Times(x, bits)) = (ValOf(x) * v) % Prime
<1> DEFINE N == 5 * W
           S == {s \in Halves : IsResidue(s)}
           h == [k \in Nat |-> Step(x, bits, N - k)]
           Defines(g) == g = [k \in 0..N |-> IF k = 0 THEN <<0, 0>> ELSE Step(x, bits, N - k)[g[k-1]]]
           C == CHOOSE g : Defines(g)
           a == ValOf(x)
           d == Prime
           top == [k \in 0..N |-> v \div Two[N - k]]
<1>1. N \in Nat /\ v \in Nat /\ v < Two[N] /\ a \in Nat /\ d \in Nat \ {0}
  BY WidthIs, HalvesIs, PrimeIs DEF HasBits, IsResidue
<1>2. Times(x, bits) = C[N]
  BY Zenon DEF Times
<1>3. <<0, 0>> \in S /\ ValOf(<<0, 0>>) = 0
  <2>1. <<0, 0>> \in Halves /\ ValOf(<<0, 0>>) = 0
    <3>1. Base \in Nat /\ Base >= 64
      BY HalvesAre
    <3> HIDE DEF Base
    <3>2. QED
      BY <3>1 DEF Halves, ValOf
  <2>2. QED
    BY <1>1, <2>1 DEF IsResidue, d
<1>4. \A k \in 1..N : \A s \in S : h[k][s] \in S
  <2> SUFFICES ASSUME NEW k \in 1..N, NEW s \in S PROVE h[k][s] \in S
    OBVIOUS
  <2>1. h[k] = Step(x, bits, N - k)
    BY <1>1
  <2>2. IsResidue(Step(x, bits, N - k)[s])
    BY StepIs
  <2>3. QED
    BY <2>1, <2>2 DEF IsResidue
<1>5. \A k \in 1..N : h[k] = Step(x, bits, N - k)
  BY <1>1
<1> HIDE DEF N, S, h, d, a, top
<1>6. PICK f \in [0..N -> S] : Iterates(f, <<0, 0>>, h, N)
  BY <1>1, <1>3, <1>4, IteratesExist
<1>7. f[0] = <<0, 0>> /\ \A k \in 1..N : f[k] = Step(x, bits, N - k)[f[k-1]]
  BY <1>5, <1>6 DEF Iterates
<1>8. Defines([k \in 0..N |-> f[k]])
  <2> DEFINE g == [k \in 0..N |-> f[k]]
  <2>1. ASSUME NEW k \in 0..N
        PROVE  g[k] = IF k = 0 THEN <<0, 0>> ELSE Step(x, bits, N - k)[g[k-1]]
    <3>1. CASE k = 0
      BY <1>7, <3>1
    <3>2. CASE k # 0
      <4>1. k \in 1..N /\ k - 1 \in 0..N
        BY <1>1, <3>2
      <4>2. g[k] = f[k] /\ g[k-1] = f[k-1]
        BY <4>1
      <4> HIDE DEF g
      <4>3. QED
        BY <1>7, <3>2, <4>1, <4>2
    <3>3. QED
      BY <3>1, <3>2
  <2>2. g = [k \in 0..N |-> g[k]]
    OBVIOUS
  <2> HIDE DEF g
  <2>3. g = [k \in 0..N |-> IF k = 0 THEN <<0, 0>> ELSE Step(x, bits, N - k)[g[k-1]]]
    BY <2>1, <2>2
  <2>4. QED
    BY <2>3 DEF g
<1>9. Defines(C)
  <2> HIDE DEF Defines
  <2>1. QED
    BY <1>8, Zenon
<1>10. C[0] = <<0, 0>> /\ \A k \in 1..N : C[k] = Step(x, bits, N - k)[C[k-1]]
  <2> HIDE DEF C
  <2>1. \A k \in 0..N : C[k] = IF k = 0 THEN <<0, 0>> ELSE Step(x, bits, N - k)[C[k-1]]
    BY <1>9, Zenon
  <2>2. QED
    BY <1>1, <2>1
<1> HIDE DEF C
<1>11. GoAlike(C, f, N)
  BY <1>7, <1>10 DEF GoAlike
<1>12. \A k \in 0..N : C[k] = f[k]
  BY <1>1, <1>11, Alike
<1> DEFINE I == {k \in 0..N : ValOf(f[k]) = (a * top[k]) % d}
<1>13. \A k \in 0..N : top[k] \in Nat
  <2>1. ASSUME NEW k \in 0..N PROVE top[k] \in Nat
    <3>1. N - k \in 0..10*W+25
      BY <1>1, WidthIs DEF N
    <3>2. v \div Two[N - k] \in Nat
      BY <1>1, <3>1, NextBit
    <3>3. QED
      BY <3>2 DEF top
  <2>2. QED
    BY <2>1
<1>14. top[0] = 0 /\ top[N] = v
  <2>1. top[0] = v \div Two[N] /\ top[N] = v \div Two[0]
    BY <1>1 DEF top
  <2>2. N \in 0..10*W+26
    BY <1>1, WidthIs DEF N
  <2>3. v \div Two[N] = 0
    BY <1>1, <2>2, NoBitAbove
  <2>4. Two[0] = 1
    BY TwoIs
  <2>5. v \div 1 = v
    BY <1>1
  <2>6. QED
    BY <2>1, <2>3, <2>4, <2>5
<1>15. 0 \in I
  <2>1. ValOf(f[0]) = 0 /\ a * top[0] = 0
    BY <1>1, <1>3, <1>7, <1>14
  <2>2. 0 % d = 0
    <3>1. 0 \in 0..d-1 /\ 0 = 0 * d + 0
      BY <1>1
    <3>2. QED
      BY <1>1, <3>1, DivisionIs
  <2>3. QED
    BY <1>1, <2>1, <2>2
<1>16. ASSUME NEW k \in 1..N, k - 1 \in I PROVE k \in I
  <2> DEFINE m == N - k
             t == top[k-1]
             e == IF m \in bits THEN 1 ELSE 0
             s == f[k-1]
  <2>1. m \in 0..5*W-1 /\ m \in 0..10*W+25 /\ m + 1 = N - (k - 1) /\ k - 1 \in 0..N /\ k \in 0..N
    BY <1>1, WidthIs DEF N
  <2>2. t \in Nat /\ top[k] \in Nat /\ e \in {0, 1}
    BY <1>13, <2>1
  <2>3. top[k] = 2 * t + e
    <3>1. top[k] = v \div Two[m] /\ t = v \div Two[m + 1]
      BY <2>1 DEF top
    <3>2. e = IF BitAt(v, m) THEN 1 ELSE 0
      BY <2>1 DEF HasBits
    <3>3. v \div Two[m] = 2 * (v \div Two[m + 1]) + (IF BitAt(v, m) THEN 1 ELSE 0)
      BY <1>1, <2>1, NextBit
    <3>4. QED
      BY <3>1, <3>2, <3>3
  <2>4. IsResidue(s) /\ ValOf(s) = (a * t) % d
    <3>1. s \in S
      BY <1>6, <2>1
    <3>2. QED
      BY <1>16, <3>1 DEF S
  <2>5. ValOf(f[k]) = (2 * ValOf(s) + (IF m \in bits THEN a ELSE 0)) % d
    <3>1. f[k] = Step(x, bits, m)[s]
      BY <1>7
    <3> HIDE DEF m, s
    <3>2. ValOf(Step(x, bits, m)[s]) = (2 * ValOf(s) + (IF m \in bits THEN ValOf(x) ELSE 0)) % Prime
      BY <2>4, StepIs
    <3>3. QED
      BY <3>1, <3>2 DEF a, d
  <2>6. (IF m \in bits THEN a ELSE 0) = a * e
    BY <1>1
  <2> HIDE DEF m, t, e, s
  <2> DEFINE y0 == a * t
             c == a * e
             r == y0 % d
  <2>7. y0 \in Nat /\ c \in Nat
    BY <1>1, <2>2
  <2>8. a * top[k] = y0 + (y0 + c)
    <3>1. a * (2 * t + e) = a * t + (a * t + a * e)
      BY <1>1, <2>2
    <3>2. QED
      BY <2>3, <3>1
  <2>9. ValOf(f[k]) = (2 * r + c) % d
    BY <2>4, <2>5, <2>6
  <2> HIDE DEF y0, c
  <2>10. (r + (y0 + c)) % d = (y0 + (y0 + c)) % d /\ r \in Nat
    <3>1. y0 + c \in Nat
      BY <2>7
    <3>2. QED
      BY <1>1, <2>7, <3>1, ResidueOfSum
  <2>11. (r + (r + c)) % d = (y0 + (r + c)) % d
    <3>1. r + c \in Nat
      BY <2>7, <2>10
    <3>2. QED
      BY <1>1, <2>7, <3>1, ResidueOfSum
  <2> HIDE DEF r
  <2>12. 2 * r + c = r + (r + c) /\ r + (y0 + c) = y0 + (r + c)
    BY <2>7, <2>10
  <2>13. ValOf(f[k]) = (y0 + (y0 + c)) % d
    BY <2>9, <2>10, <2>11, <2>12
  <2>14. QED
    BY <2>1, <2>8, <2>13
<1>17. N \in I /\ N \in 0..N
  <2> HIDE DEF I
  <2>1. \A k \in 0..N : k \in I
    BY <1>1, <1>15, <1>16, Induct
  <2>2. QED
    BY <1>1, <2>1
<1>18. ValOf(C[N]) = (a * v) % d /\ IsResidue(C[N])
  <2>1. f[N] \in S /\ C[N] = f[N] /\ ValOf(f[N]) = (a * v) % d
    BY <1>6, <1>12, <1>14, <1>17
  <2>2. QED
    BY <2>1 DEF S
<1>19. QED
  BY <1>2, <1>18 DEF a, d
-----------------------------------------------------------------------------
(* Bits of halves and of limbs *)

\* v is low, mid from bit o on, and high from bit u of mid on.
AreParts(v, low, o, mid, u, high) ==
  /\ o \in Nat /\ u \in Nat /\ o + u <= 10 * W + 26
  /\ low \in Nat /\ low < Two[o] /\ mid \in Nat /\ high \in Nat
  /\ v = low + Two[o] * (mid + Two[u] * high)

\* The bits of mid are bits of v.
LEMMA BitOfPart ==
  ASSUME NEW v, NEW low, NEW o, NEW mid, NEW u, NEW high, AreParts(v, low, o, mid, u, high),
         NEW b \in 0..u-1
  PROVE  BitAt(v, o + b) <=> BitAt(mid, b)
<1> DEFINE d == Two[b]
           e == Two[o]
           f == Two[u - b - 1]
           q == mid \div d
           r == mid % d
<1>1. W \in Nat /\ o \in Nat /\ u \in Nat /\ b \in Nat /\ low \in Nat /\ low < e /\ mid \in Nat /\ high \in Nat
  BY WidthIs DEF AreParts
<1>2. d \in Nat \ {0} /\ e \in Nat \ {0} /\ f \in Nat \ {0}
  <2>1. b \in 0..10*W+26 /\ o \in 0..10*W+26 /\ u - b - 1 \in 0..10*W+26
    BY <1>1 DEF AreParts
  <2> HIDE DEF Two
  <2>2. QED
    BY <2>1, TwoIs
<1>3. Two[o + b] = e * d /\ Two[u] = (2 * d) * f
  <2>1. o + b <= 10 * W + 26 /\ b + 1 \in Nat /\ u - b - 1 \in Nat /\ (b + 1) + (u - b - 1) = u
        /\ u <= 10 * W + 26 /\ b + 1 \in 1..10*W+26 /\ (b + 1) - 1 = b
    BY <1>1 DEF AreParts
  <2> HIDE DEF Two
  <2>2. Two[o + b] = Two[o] * Two[b]
    BY <1>1, <2>1, TwoOfSum
  <2>3. Two[(b + 1) + (u - b - 1)] = Two[b + 1] * Two[u - b - 1]
    <3> DEFINE k == b + 1
               l == u - b - 1
    <3>1. k \in Nat /\ l \in Nat /\ k + l <= 10 * W + 26
      BY <2>1
    <3> HIDE DEF k, l
    <3>2. Two[k + l] = Two[k] * Two[l]
      BY <3>1, TwoOfSum
    <3>3. QED
      BY <3>2 DEF k, l
  <2>4. Two[b + 1] = 2 * Two[b]
    BY <2>1, TwoIs
  <2>5. QED
    BY <2>1, <2>2, <2>3, <2>4
<1>4. v = low + e * (mid + Two[u] * high)
  BY DEF AreParts
<1> HIDE DEF d, e, f
<1>5. q \in Nat /\ r \in 0..d-1 /\ mid = q * d + r
  BY <1>1, <1>2, Divided
<1>6. BitAt(mid, b) <=> q % 2 = 1
  BY DEF BitAt, d
<1> HIDE DEF q, r
<1> DEFINE g == f * high
           m == q + 2 * g
           s == low + e * r
<1>7. g \in Nat
  BY <1>1, <1>2
<1>8. Two[u] * high = d * (2 * g)
  BY <1>1, <1>2, <1>3
<1> HIDE DEF g
<1>9. mid + Two[u] * high = d * m + r
  <2>1. d * (q + 2 * g) = d * q + d * (2 * g) /\ d * q \in Nat /\ d * (2 * g) \in Nat
    BY <1>2, <1>5, <1>7
  <2>2. QED
    BY <1>2, <1>5, <1>8, <2>1
<1>10. m \in Nat /\ m % 2 = q % 2
  BY <1>5, <1>7
<1> HIDE DEF m
<1>11. v = m * (e * d) + s
  <2>1. e * (d * m + r) = m * (e * d) + e * r /\ m * (e * d) \in Nat /\ e * r \in Nat
    BY <1>2, <1>5, <1>10
  <2>2. QED
    BY <1>1, <1>4, <1>9, <2>1
<1>12. s \in 0..(e*d)-1 /\ e * d \in Nat \ {0}
  <2>1. e * r <= e * d - e /\ e * r \in Nat /\ e * d \in Nat
    <3>1. PICK k \in Nat : d = r + 1 + k
      <4>1. d - r - 1 \in Nat /\ d = r + 1 + (d - r - 1)
        BY <1>2, <1>5
      <4>2. QED
        BY <4>1
    <3>2. e * d = e * r + e + e * k /\ e * k \in Nat /\ e * r \in Nat
      BY <1>2, <1>5, <3>1
    <3>3. QED
      BY <1>2, <3>2
  <2>2. QED
    BY <1>1, <1>2, <2>1
<1> DEFINE z == e * d
<1> HIDE DEF s
<1>13. v \div z = m
  <2>1. z \in Nat \ {0} /\ s \in 0..z-1 /\ v = m * z + s /\ v \in Int /\ m \in Int
    BY <1>10, <1>11, <1>12
  <2> HIDE DEF z
  <2>2. QED
    BY <2>1, DivisionIs
<1>14. BitAt(v, o + b) <=> m % 2 = 1
  BY <1>3, <1>13 DEF BitAt
<1>15. QED
  BY <1>6, <1>10, <1>14

\* SetBits are the bits of the number that the halves are.
LEMMA SetBitsAre ==
  ASSUME NEW x, IsResidue(x)
  PROVE  HasBits(ValOf(x), SetBits(x))
<1> DEFINE H == HalfBits
           v == ValOf(x)
<1>1. /\ W \in Nat /\ H \in Nat /\ H >= 28 /\ 2 * H = 5 * W + 1
      /\ x[1] \in Nat /\ x[1] < Two[H] /\ x[2] \in Nat /\ v \in Nat /\ v < Two[5 * W]
  BY WidthIs, HalfIs, HalvesAre, HalvesIs, PrimeIs DEF IsResidue
<1>2. v = x[1] + Two[H] * x[2]
  BY HalvesAre DEF ValOf
<1>3. \A k \in 0..H-1 : HalfPow[k] = Two[k]
  BY <1>1, HalfPowIs
<1> HIDE DEF H, v, Two, HalfPow
<1>4. ASSUME NEW m \in 0..5*W-1
      PROVE  (x[m \div H + 1] \div HalfPow[m % H]) % 2 = 1 <=> BitAt(v, m)
  <2>1. CASE m < H
    <3>1. 0 + 1 = 1 /\ m \in 0..H-1
      BY <1>1, <2>1
    <3>2. m \div H = 0 /\ m % H = m
      <4>1. H \in Nat \ {0} /\ m = 0 * H + m
        BY <1>1
      <4>2. QED
        BY <3>1, <4>1, DivisionIs
    <3>3. AreParts(v, 0, 0, x[1], H, x[2])
      <4>1. Two[0] = 1
        BY TwoIs
      <4>2. v = 0 + 1 * (x[1] + Two[H] * x[2])
        <5> DEFINE c == Two[H] * x[2]
        <5>1. H \in 0..10*W+26
          BY <1>1
        <5>2. Two[H] \in Nat
          BY <5>1, TwoIs
        <5>3. c \in Nat
          BY <1>1, <5>2
        <5> HIDE DEF c
        <5>4. x[1] + c = 0 + 1 * (x[1] + c)
          BY <1>1, <5>3
        <5>5. QED
          BY <1>2, <5>4 DEF c
      <4>3. 0 \in Nat /\ 0 + H <= 10 * W + 26 /\ 0 < 1
        BY <1>1
      <4>4. QED
        BY <1>1, <4>1, <4>2, <4>3 DEF AreParts
    <3>4. BitAt(v, 0 + m) <=> BitAt(x[1], m)
      BY <3>1, <3>3, BitOfPart
    <3>5. 0 + m = m
      OBVIOUS
    <3>6. QED
      BY <1>3, <3>1, <3>2, <3>4, <3>5 DEF BitAt
  <2>2. CASE m >= H
    <3> DEFINE b == m - H
    <3>1. b \in 0..H-1 /\ 1 + 1 = 2 /\ H + b = m /\ m = 1 * H + b
      BY <1>1, <2>2
    <3> HIDE DEF b
    <3>2. m \div H = 1 /\ m % H = b
      <4>1. H \in Nat \ {0}
        BY <1>1
      <4>2. QED
        BY <3>1, <4>1, DivisionIs
    <3>3. AreParts(v, x[1], H, x[2], H, 0)
      <4>1. v = x[1] + Two[H] * (x[2] + Two[H] * 0)
        <5>1. H \in 0..10*W+26
          BY <1>1
        <5>2. Two[H] \in Nat
          BY <5>1, TwoIs
        <5>3. Two[H] * 0 = 0 /\ x[2] + 0 = x[2]
          BY <1>1, <5>2
        <5>4. QED
          BY <1>2, <5>3
      <4>2. H + H <= 10 * W + 26
        BY <1>1
      <4>3. QED
        BY <1>1, <4>1, <4>2 DEF AreParts
    <3>4. BitAt(v, H + b) <=> BitAt(x[2], b)
      BY <3>1, <3>3, BitOfPart
    <3>5. QED
      BY <1>3, <3>1, <3>2, <3>4 DEF BitAt
  <2>3. QED
    BY <1>1, <2>1, <2>2
<1>5. \A m \in 0..5*W-1 : BitAt(v, m) <=> m \in SetBits(x)
  BY <1>4 DEF SetBits, H
<1>6. QED
  BY <1>1, <1>5 DEF HasBits, v

\* The limbs below a limb that fits, and those above it.
LEMMA LimbParts ==
  ASSUME NEW n, NEW w, NEW pl, ArePlaces(pl, w, n), NEW t, Fits(t, w, n), NEW i \in 0..n-1
  PROVE  /\ Stands(t, pl, i) \in Nat /\ Stands(t, pl, i) < pl[i]
         /\ \E q \in Nat : Stands(t, pl, n) = Stands(t, pl, i) + pl[i] * (t[i] + Pow2[w[i]] * q)
<1> DEFINE I == {m \in 0..i : Stands(t, pl, m) < pl[m]}
           low == Stands(t, pl, i)
           d == pl[i] * Pow2[w[i]]
           J == {k \in 0..n-i-1 : /\ \E q \in Nat : Stands(t, pl, i + 1 + k) = low + pl[i] * t[i] + d * q
                                  /\ \E e \in Nat : pl[i + 1 + k] = d * e}
<1>1. /\ n \in Nat \ {0} /\ AreNumbers(t, n) /\ AreNumbers(pl, n) /\ pl[0] = 1
      /\ i \in Nat /\ i \in 0..n /\ \A m \in 0..i : m \in 0..n
  BY DEF ArePlaces, AreWidths, AreNumbers, Fits
<1>2. ASSUME NEW m \in 0..n-1
      PROVE  /\ t[m] \in Nat /\ t[m] < Pow2[w[m]] /\ Pow2[w[m]] \in Nat \ {0} /\ pl[m] \in Nat \ {0}
             /\ pl[m + 1] = pl[m] * Pow2[w[m]]
             /\ Stands(t, pl, m) \in Nat /\ Stands(t, pl, m + 1) = Stands(t, pl, m) + t[m] * pl[m]
             /\ Stands(t, pl, m + 1) \in Nat /\ pl[m + 1] \in Nat
  <2>1. w[m] \in 0..W+13 /\ m \in 0..n /\ m + 1 \in 0..n
    BY <1>1 DEF ArePlaces, AreWidths
  <2> HIDE DEF Pow2
  <2>2. Pow2[w[m]] \in Nat \ {0}
    BY <2>1, Powers
  <2>3. t[m] \in Nat /\ t[m] < Pow2[w[m]] /\ pl[m] \in Nat \ {0} /\ pl[m + 1] = pl[m] * Pow2[w[m]] /\ pl[m + 1] \in Nat
    BY <2>1 DEF Fits, ArePlaces
  <2>4. QED
    BY <1>1, <2>1, <2>2, <2>3, StandsStep
<1> HIDE DEF Pow2
<1>3. 0 \in I
  BY <1>1, StandsStep
<1>4. ASSUME NEW m \in 1..i, m - 1 \in I PROVE m \in I
  <2> DEFINE l == m - 1
             s == Stands(t, pl, l)
             a == pl[l]
             x == t[l]
             c == Pow2[w[l]]
  <2>1. l \in 0..n-1 /\ l + 1 = m /\ m \in 0..i
    BY <1>1
  <2>2. s < a
    BY <1>4
  <2> HIDE DEF l
  <2>3. /\ s \in Nat /\ a \in Nat \ {0} /\ x \in Nat /\ c \in Nat /\ x < c
        /\ Stands(t, pl, l + 1) = s + x * a /\ pl[l + 1] = a * c
    BY <1>2, <2>1
  <2> HIDE DEF s, a, x, c
  <2>4. PICK k \in Nat : c = x + 1 + k
    <3>1. c - x - 1 \in Nat /\ c = x + 1 + (c - x - 1)
      BY <2>3
    <3>2. QED
      BY <3>1
  <2>5. a * c = x * a + a + a * k /\ a * k \in Nat /\ x * a \in Nat
    BY <2>3, <2>4
  <2>6. s + x * a < a * c
    BY <2>2, <2>3, <2>5
  <2>7. QED
    BY <2>1, <2>3, <2>6
<1>5. i \in I
  <2> HIDE DEF I
  <2>1. \A m \in 0..i : m \in I
    BY <1>1, <1>3, <1>4, Induct
  <2>2. QED
    BY <1>1, <2>1
<1>6. low \in Nat /\ d \in Nat /\ pl[i + 1] = d /\ Stands(t, pl, i + 1) = low + pl[i] * t[i]
      /\ pl[i] * t[i] \in Nat
  <2>1. t[i] * pl[i] = pl[i] * t[i] /\ pl[i] * t[i] \in Nat /\ pl[i] * Pow2[w[i]] \in Nat
    BY <1>2
  <2>2. QED
    BY <1>2, <2>1
<1> DEFINE u == pl[i] * t[i]
<1> HIDE DEF low, d, u
<1>7. 0 \in J
  <2>1. i + 1 + 0 = i + 1 /\ 0 \in 0..n-i-1 /\ d * 0 = 0 /\ d * 1 = d
    BY <1>1, <1>6
  <2>2. Stands(t, pl, i + 1 + 0) = low + pl[i] * t[i] + d * 0
    BY <1>6, <2>1 DEF u
  <2>3. pl[i + 1 + 0] = d * 1
    BY <1>6, <2>1
  <2>4. QED
    BY <2>1, <2>2, <2>3
<1>8. ASSUME NEW k \in 1..n-i-1, k - 1 \in J PROVE k \in J
  <2> DEFINE m == i + 1 + (k - 1)
  <2>1. m \in 0..n-1 /\ i + 1 + k = m + 1 /\ k \in 0..n-i-1
    BY <1>1
  <2>2. PICK q \in Nat, e \in Nat : Stands(t, pl, m) = low + u + d * q /\ pl[m] = d * e
    BY <1>8 DEF u
  <2> HIDE DEF m
  <2> DEFINE x == t[m]
             c == Pow2[w[m]]
  <2>3. x \in Nat /\ c \in Nat /\ Stands(t, pl, m + 1) = low + u + d * q + x * (d * e) /\ pl[m + 1] = (d * e) * c
    BY <1>2, <2>1, <2>2
  <2> HIDE DEF x, c
  <2>4. q + x * e \in Nat /\ e * c \in Nat /\ d * (q + x * e) = d * q + x * (d * e) /\ (d * e) * c = d * (e * c)
        /\ d * q \in Nat /\ x * (d * e) \in Nat
    BY <1>6, <2>3
  <2>5. Stands(t, pl, m + 1) = low + u + d * (q + x * e)
    BY <1>6, <2>3, <2>4 DEF u
  <2>6. pl[m + 1] = d * (e * c)
    BY <2>3, <2>4
  <2>7. QED
    BY <2>1, <2>4, <2>5, <2>6 DEF u
<1>9. n - i - 1 \in J
  <2> HIDE DEF J
  <2>1. n - i - 1 \in Nat /\ n - i - 1 \in 0..n-i-1
    BY <1>1
  <2>2. \A k \in 0..n-i-1 : k \in J
    BY <1>7, <1>8, <2>1, Induct
  <2>3. QED
    BY <2>1, <2>2
<1>10. i + 1 + (n - i - 1) = n
  BY <1>1
<1>11. PICK q \in Nat : Stands(t, pl, n) = low + u + d * q
  BY <1>9, <1>10 DEF u
<1>12. low + u + d * q = low + pl[i] * (t[i] + Pow2[w[i]] * q)
  <2> DEFINE a == pl[i]
             x == t[i]
             c == Pow2[w[i]]
  <2>1. a \in Nat /\ x \in Nat /\ c \in Nat
    BY <1>2
  <2>2. u = a * x /\ d = a * c
    BY DEF u, d
  <2> HIDE DEF a, x, c
  <2>3. a * (x + c * q) = a * x + (a * c) * q /\ a * x \in Nat /\ (a * c) * q \in Nat
    BY <2>1
  <2>4. low + u + d * q = low + a * (x + c * q)
    BY <1>6, <2>2, <2>3
  <2>5. QED
    BY <2>4 DEF a, x, c
<1>13. QED
  BY <1>5, <1>6, <1>11, <1>12 DEF low

\* The bits of a limb are bits of what the limbs stand for.
LEMMA BitOfLimb ==
  ASSUME NEW n, NEW w, AreWidths(w, n), Offset(w, n) <= 10 * W + 26, NEW t, Fits(t, w, n),
         NEW i \in 0..n-1, NEW b \in 0..w[i]-1, Offset(w, i) + w[i] <= 10 * W + 26
  PROVE  BitAt(Stands(t, Places(w, n), n), Offset(w, i) + b) <=> (t[i] \div Pow2[b]) % 2 = 1
<1> DEFINE pl == Places(w, n)
           o == Offset(w, i)
           u == w[i]
           low == Stands(t, pl, i)
<1>1. ArePlaces(pl, w, n)
  BY PlacesAre
<1>2. n \in Nat \ {0} /\ u \in 0..W+13 /\ i \in 0..n /\ W \in Nat /\ t[i] \in Nat
  BY WidthIs DEF AreWidths, Fits
<1>3. o \in Nat /\ pl[i] = Two[o]
  BY <1>2, OffsetStep DEF Places
<1> HIDE DEF pl, Two, Pow2
<1>4. Pow2[u] = Two[u] /\ Pow2[b] = Two[b]
  <2>1. b \in 0..W+13
    BY <1>2
  <2>2. QED
    BY <1>2, <2>1, TwoIsPow2
<1>5. low \in Nat /\ low < pl[i] /\ \E q \in Nat : Stands(t, pl, n) = low + pl[i] * (t[i] + Pow2[u] * q)
  BY <1>1, LimbParts
<1>6. PICK q \in Nat : Stands(t, pl, n) = low + pl[i] * (t[i] + Pow2[u] * q)
  BY <1>5
<1>7. AreParts(Stands(t, pl, n), low, o, t[i], u, q)
  <2>1. u \in Nat /\ o + u <= 10 * W + 26
    BY <1>2
  <2> HIDE DEF o, u, low
  <2>2. QED
    BY <1>2, <1>3, <1>4, <1>5, <1>6, <2>1 DEF AreParts
<1>8. BitAt(Stands(t, pl, n), o + b) <=> BitAt(t[i], b)
  <2> HIDE DEF o, low
  <2>1. b \in 0..u-1
    OBVIOUS
  <2> HIDE DEF u
  <2>2. QED
    BY <1>7, <2>1, BitOfPart
<1>9. QED
  BY <1>4, <1>8 DEF BitAt, pl

\* Where the limbs of a form end.
LEMMA CoverEnds ==
  ASSUME NEW n, NEW w, NEW u, Covers(w, u, n)
  PROVE  /\ AreWidths(w, n) /\ n \in Nat \ {0} /\ DOMAIN w = 0..n-1 /\ Offset(w, n) <= 10 * W + 26
         /\ \A i \in 0..n-1 : /\ Offset(w, i) \in Nat /\ u[i] \in Nat /\ w[i] \in Nat /\ u[i] <= w[i]
                              /\ Offset(w, i) + w[i] <= 5 * W + 1
                              /\ Offset(w, i) + w[i] <= 10 * W + 26
<1>1. W \in Nat /\ AreWidths(w, n) /\ n \in Nat \ {0} /\ DOMAIN w = 0..n-1
  BY WidthIs DEF Covers, AreWidths
<1>2. ASSUME NEW i \in 0..n-1
      PROVE  /\ Offset(w, i) \in Nat /\ u[i] \in Nat /\ w[i] \in Nat /\ u[i] <= w[i]
             /\ Offset(w, i) + w[i] <= 5 * W + 1
  <2>1. w[i] \in Nat
    BY <1>1 DEF AreWidths
  <2>2. /\ Offset(w, i) \in Nat /\ u[i] \in Nat /\ u[i] <= w[i] /\ Offset(w, i) + u[i] <= 5 * W
        /\ u[i] # w[i] => w[i] = u[i] + 1
    BY DEF Covers
  <2>3. QED
    BY <1>1, <2>1, <2>2
<1>3. Offset(w, n) <= 10 * W + 26
  <2>1. n - 1 \in 0..n-1 /\ (n - 1) + 1 = n
    BY <1>1
  <2>2. Offset(w, (n - 1) + 1) = Offset(w, n - 1) + w[n - 1]
    BY <1>1, <2>1, OffsetStep
  <2>3. QED
    BY <1>1, <1>2, <2>1, <2>2
<1>4. \A i \in 0..n-1 : Offset(w, i) + w[i] <= 10 * W + 26
  BY <1>1, <1>2
<1>5. QED
  BY <1>1, <1>2, <1>3, <1>4

\* What is stored of limbs that fit and stand for less than 2^(5W) are its bits.
LEMMA StoredBits ==
  ASSUME NEW n, NEW w, NEW u, Covers(w, u, n), NEW t, Fits(t, w, n),
         NEW v, v = Stands(t, Places(w, n), n), v < Two[5 * W]
  PROVE  HasBits(v, BitsOf(t, w)) /\ BitsOf(t, w) \in SUBSET (0..5*W-1)
<1> DEFINE OneBits(i) == {b \in 0..w[i]-1 : (t[i] \div Pow2[b]) % 2 = 1}
           Set(i) == {Offset(w, i) + b : b \in OneBits(i)}
<1>1. /\ W \in Nat /\ AreWidths(w, n) /\ DOMAIN w = 0..n-1 /\ Offset(w, n) <= 10 * W + 26
      /\ \A i \in 0..n-1 : /\ Offset(w, i) \in Nat /\ u[i] \in Nat /\ w[i] \in Nat /\ u[i] <= w[i]
                           /\ Offset(w, i) + w[i] <= 5 * W + 1
                           /\ Offset(w, i) + w[i] <= 10 * W + 26
  BY WidthIs, CoverEnds
<1>2. BitsOf(t, w) = UNION {Set(i) : i \in 0..n-1}
  BY <1>1, Zenon DEF BitsOf
<1>3. v \in Nat
  BY <1>1, PlacesAre, FitsBelow
<1>4. ASSUME NEW i \in 0..n-1, NEW b \in 0..w[i]-1
      PROVE  BitAt(v, Offset(w, i) + b) <=> b \in OneBits(i)
  <2>1. Offset(w, n) <= 10 * W + 26 /\ Offset(w, i) + w[i] <= 10 * W + 26 /\ AreWidths(w, n)
    BY <1>1
  <2> HIDE DEF Pow2, Two
  <2>2. BitAt(Stands(t, Places(w, n), n), Offset(w, i) + b) <=> (t[i] \div Pow2[b]) % 2 = 1
    BY <2>1, BitOfLimb
  <2>3. QED
    BY <2>2
<1> HIDE DEF OneBits, Pow2, Two
<1>5. ASSUME NEW m \in BitsOf(t, w) PROVE m \in 0..5*W-1 /\ BitAt(v, m)
  <2>1. PICK i \in 0..n-1 : m \in Set(i)
    BY <1>2, <1>5, Zenon
  <2>2. PICK b \in OneBits(i) : m = Offset(w, i) + b
    BY <2>1, Zenon
  <2>3. b \in 0..w[i]-1
    BY DEF OneBits
  <2>4. BitAt(v, m)
    BY <1>4, <2>2, <2>3
  <2>5. m \in Nat /\ m <= 5 * W
    BY <1>1, <2>2, <2>3
  <2>6. m # 5 * W
    <3> SUFFICES ASSUME m = 5 * W PROVE FALSE
      OBVIOUS
    <3>1. 5 * W \in 0..10*W+26
      BY <1>1
    <3>2. v \div Two[5 * W] = 0
      BY <1>3, <3>1, NoBitAbove
    <3>3. ~BitAt(v, 5 * W)
      BY <3>2 DEF BitAt
    <3>4. QED
      BY <2>4, <3>3
  <2>7. QED
    BY <1>1, <2>4, <2>5, <2>6
<1>6. ASSUME NEW m \in 0..5*W-1, BitAt(v, m) PROVE m \in BitsOf(t, w)
  <2>1. PICK i \in 0..n-1 : Offset(w, i) <= m /\ m < Offset(w, i) + u[i]
    BY DEF Covers
  <2> DEFINE b == m - Offset(w, i)
  <2>2. b \in 0..w[i]-1 /\ Offset(w, i) + b = m
    BY <1>1, <2>1
  <2> HIDE DEF b
  <2>3. b \in OneBits(i)
    BY <1>4, <1>6, <2>2
  <2>4. m \in Set(i)
    BY <2>2, <2>3
  <2> HIDE DEF Set
  <2>5. QED
    BY <1>2, <2>4, Zenon
<1>7. QED
  BY <1>3, <1>5, <1>6 DEF HasBits

\* The limbs that are loaded stand for less than 2^(5W): the topmost bit is not read.
LEMMA LoadedBelow ==
  ASSUME NEW f \in Forms, NEW Y, NEW t, AreLimbs(t, Widths[f], Used[f], Count[f], Y)
  PROVE  /\ Fits(t, Widths[f], Count[f])
         /\ ValueOf(f, t) \in Nat /\ ValueOf(f, t) < Two[5 * W]
<1> DEFINE w == Widths[f]
           u == Used[f]
           n == Count[f]
           pl == Places(w, n)
           v == Stands(t, pl, n)
<1>1. Covers(w, u, n) /\ W \in Nat
  BY FormCovers, WidthIs
<1>2. AreWidths(w, n) /\ Offset(w, n) <= 10 * W + 26 /\ Fits(t, w, n)
  <2>0. AreLimbs(t, w, u, n, Y)
    OBVIOUS
  <2> HIDE DEF w, u, n
  <2>1. AreWidths(w, n) /\ Offset(w, n) <= 10 * W + 26
    BY <1>1, CoverEnds
  <2>2. Fits(t, w, n)
    BY <1>1, <2>0, LimbsFit
  <2>3. QED
    BY <2>1, <2>2
<1>3. ArePlaces(pl, w, n) /\ v \in Nat /\ v < pl[n] /\ pl[n] \in Nat
  <2> HIDE DEF w, u, n
  <2>1. ArePlaces(pl, w, n)
    BY <1>2, PlacesAre
  <2> HIDE DEF pl
  <2>2. QED
    BY <1>2, <2>1, FitsBelow
<1>4. v < Two[5 * W]
  <2>1. CASE f # "fed32"
    <3>1. pl[n] = Two[5 * W]
      <4>1. f = "fe51" \/ f = "fe4"
        BY <2>1 DEF Forms
      <4>2. CASE f = "fe51"
        BY <4>2, FormEnds, PrimeIs
      <4>3. CASE f = "fe4"
        BY <4>3, FormEnds, PrimeIs
      <4>4. QED
        BY <4>1, <4>2, <4>3
    <3>2. QED
      BY <1>3, <3>1
  <2>2. CASE f = "fed32"
    <3>1. /\ n = 8 /\ w = Widths.fed32 /\ 7 \in 0..n-1 /\ u[7] = w[7] - 1
      BY <2>2, FormEnds DEF Used
    <3>2. pl[n] = 2 * Two[5 * W] /\ Two[5 * W] \in Nat
      BY <2>2, FormEnds, PrimeIs
    <3>3. /\ u[7] \in Nat /\ w[7] \in 0..W+13 /\ u[7] \in 0..w[7]-1 /\ Offset(w, 7) + u[7] = 5 * W
          /\ Offset(w, 7) + w[7] <= 10 * W + 26
      <4>1. /\ u[7] \in Nat /\ w[7] \in 0..W+13 /\ Offset(w, 7) \in Nat
            /\ u[7] # w[7] => Offset(w, 7) + u[7] = 5 * W
        <5> HIDE DEF w, u, n
        <5>1. QED
          BY <1>1, <1>2, <3>1 DEF Covers, AreWidths
      <4> HIDE DEF w, u, n
      <4>2. QED
        BY <1>1, <3>1, <4>1
    <3> HIDE DEF w, u, n
    <3>4. t[7] \in Nat /\ t[7] < Pow2[u[7]]
      <4>1. t[7] = SumOver(BitsIn(w, u, Y, 7), Pow2)
        BY <3>1 DEF AreLimbs, w, u, n
      <4> HIDE DEF Pow2
      <4>2. QED
        BY <1>1, <3>1, <4>1, LimbIs
    <3>5. ~BitAt(v, 5 * W)
      <4>1. BitAt(v, Offset(w, 7) + u[7]) <=> (t[7] \div Pow2[u[7]]) % 2 = 1
        <5> DEFINE i == 7
                   b == u[7]
        <5>1. i \in 0..n-1 /\ b \in 0..w[i]-1 /\ Offset(w, i) + w[i] <= 10 * W + 26
          BY <3>1, <3>3
        <5> HIDE DEF i, b, Pow2, Two
        <5>2. BitAt(Stands(t, Places(w, n), n), Offset(w, i) + b) <=> (t[i] \div Pow2[b]) % 2 = 1
          BY <1>2, <5>1, BitOfLimb
        <5>3. QED
          BY <5>2 DEF i, b
      <4>2. t[7] \div Pow2[u[7]] = 0
        <5> DEFINE d == Pow2[u[7]]
                   x == t[7]
        <5>1. d \in Nat \ {0} /\ x \in 0..d-1
          <6>1. u[7] \in 0..W+13
            <7>1. W \in Nat /\ u[7] \in Nat /\ w[7] \in 0..W+13 /\ u[7] \in 0..w[7]-1
              BY <1>1, <3>3
            <7>2. QED
              BY <7>1
          <6> HIDE DEF Pow2
          <6>2. QED
            BY <3>4, <6>1, Powers
        <5> HIDE DEF d, x
        <5>2. x = 0 * d + x /\ 0 \in Int /\ x \in Int
          BY <5>1
        <5>3. x \div d = 0
          BY <5>1, <5>2, DivisionIs
        <5>4. QED
          BY <5>3 DEF d, x
      <4>3. QED
        BY <3>3, <4>1, <4>2
    <3> HIDE DEF v, pl, Two
    <3>6. v \div Two[5 * W] = 2 * (v \div Two[5 * W + 1])
      <4>1. 5 * W \in 0..10*W+25
        BY <1>1
      <4>2. QED
        BY <1>3, <3>5, <4>1, NextBit
    <3>7. v \div Two[5 * W + 1] = 0
      <4>1. 5 * W + 1 \in 1..10*W+26 /\ 5 * W + 1 \in 0..10*W+26 /\ (5 * W + 1) - 1 = 5 * W
        BY <1>1
      <4>2. Two[5 * W + 1] = 2 * Two[5 * W]
        BY <4>1, TwoIs
      <4>3. v < Two[5 * W + 1]
        BY <1>3, <3>2, <4>2
      <4>4. QED
        BY <1>3, <4>1, <4>3, NoBitAbove
    <3>8. v \div Two[5 * W] = 0 /\ 5 * W \in 0..10*W+26
      BY <1>1, <3>6, <3>7
    <3>9. QED
      BY <1>3, <3>8, NoBitAbove
  <2>3. QED
    BY <2>1, <2>2
<1>5. QED
  BY <1>2, <1>3, <1>4 DEF ValueOf

\* The prime is far from the numbers that are folded.
LEMMA PrimeAboveOne == Prime \in Nat /\ Prime >= 1024
<1>1. W \in Nat /\ 11 + (5 * W - 11) = 5 * W /\ 5 * W - 11 \in Nat /\ 5 * W <= 10 * W + 26
      /\ 11 \in 0..W+13 /\ 5 * W - 11 \in 0..10*W+26
  BY WidthIs
<1> HIDE DEF Two, Pow2
<1>2. Two[5 * W] = Two[11] * Two[5 * W - 11]
  <2> DEFINE k == 11
             l == 5 * W - 11
  <2>1. k \in Nat /\ l \in Nat /\ k + l <= 10 * W + 26 /\ k + l = 5 * W
    BY <1>1
  <2> HIDE DEF k, l
  <2>2. Two[k + l] = Two[k] * Two[l]
    BY <2>1, TwoOfSum
  <2>3. QED
    BY <2>1, <2>2 DEF k, l
<1>3. Two[11] = 2048
  <2>1. \A k \in 1..11 : Two[k] = 2 * Two[k - 1]
    BY <1>1, TwoIs
  <2>2. /\ Two[1] = 2 * Two[0] /\ Two[2] = 2 * Two[1] /\ Two[3] = 2 * Two[2] /\ Two[4] = 2 * Two[3]
        /\ Two[5] = 2 * Two[4] /\ Two[6] = 2 * Two[5] /\ Two[7] = 2 * Two[6] /\ Two[8] = 2 * Two[7]
        /\ Two[9] = 2 * Two[8] /\ Two[10] = 2 * Two[9] /\ Two[11] = 2 * Two[10] /\ Two[0] = 1
    BY <2>1, TwoIs
  <2>3. QED
    BY <2>2
<1>4. Two[5 * W - 11] \in Nat \ {0}
  BY <1>1, TwoIs
<1>5. Two[5 * W] >= 2048
  BY <1>2, <1>3, <1>4
<1>6. QED
  BY <1>5, PrimeIs

\* Of the number that bits are, the residue.
LEMMA ResidueOfBits ==
  ASSUME NEW v, NEW Y, HasBits(v, Y)
  PROVE  IsResidue(ResidueOf(Y)) /\ ValOf(ResidueOf(Y)) = v % Prime
<1>1. IsResidue(<<1, 0>>) /\ ValOf(<<1, 0>>) = 1
  <2>1. Base \in Nat /\ Base >= 64 /\ Prime > 1
    BY HalvesAre, PrimeIs, PrimeAboveOne
  <2> HIDE DEF Base, Prime
  <2>2. <<1, 0>> \in Halves /\ ValOf(<<1, 0>>) = 1
    BY <2>1 DEF Halves, ValOf
  <2>3. QED
    BY <2>1, <2>2 DEF IsResidue
<1>2. IsResidue(ResidueOf(Y)) /\ ValOf(ResidueOf(Y)) = (1 * v) % Prime
  BY <1>1, TimesIs DEF ResidueOf
<1>3. 1 * v = v
  BY DEF HasBits
<1>4. QED
  BY <1>2, <1>3

\* An encoding, its limbs in a form, and the residue.
LEMMA LoadedIs ==
  ASSUME NEW f \in Forms, NEW Y \in SUBSET (0..5*W), NEW t, t = fe_from_bytes(f, Y)
  PROVE  /\ Fits(t, Widths[f], Count[f]) /\ ValueOf(f, t) \in Nat
         /\ IsResidue(ResidueOf(Y)) /\ ValOf(ResidueOf(Y)) = ValueOf(f, t) % Prime
<1> DEFINE Z == Y \ {5 * W}
           v == ValueOf(f, t)
<1>1. AreLimbs(t, Widths[f], Used[f], Count[f], Z) /\ Z \in SUBSET (0..5*W-1) /\ W \in Nat
  BY LoadIs, WidthIs
<1>2. Covers(Widths[f], Used[f], Count[f])
  BY FormCovers
<1>3. Fits(t, Widths[f], Count[f]) /\ v \in Nat /\ v < Two[5 * W]
  BY <1>1, LoadedBelow
<1>4. BitsOf(t, Widths[f]) = Z
  BY <1>1, <1>2, StoreIs
<1>5. HasBits(v, Z)
  BY <1>2, <1>3, <1>4, StoredBits DEF ValueOf
<1>6. HasBits(v, Y)
  BY <1>1, <1>5 DEF HasBits
<1> HIDE DEF v
<1>7. IsResidue(ResidueOf(Y)) /\ ValOf(ResidueOf(Y)) = v % Prime
  BY <1>6, ResidueOfBits
<1>8. QED
  BY <1>3, <1>7 DEF v
-----------------------------------------------------------------------------
(* The encoding of whatever an operation leaves *)

\* Beyond the first place they are no less than the width of the first limb.
LEMMA PlacesRise ==
  ASSUME NEW n, NEW w, NEW pl, ArePlaces(pl, w, n)
  PROVE  \A i \in 1..n : pl[i] \in Nat /\ pl[i] >= Pow2[w[0]]
<1> DEFINE I == {k \in Nat : k = 0 \/ (pl[k] \in Nat /\ pl[k] >= Pow2[w[0]])}
<1> HIDE DEF Pow2
<1>1. n \in Nat /\ pl[0] = 1 /\ \A i \in 0..n-1 : w[i] \in 0..W+13
  BY DEF ArePlaces, AreWidths
<1>2. ASSUME NEW k \in 1..n, k - 1 \in I PROVE k \in I
  <2> DEFINE i == k - 1
             d == Pow2[w[i]]
  <2>1. i \in 0..n-1 /\ i + 1 = k /\ k \in Nat
    BY <1>1
  <2> HIDE DEF i
  <2>2. d \in Nat \ {0} /\ pl[i] \in Nat \ {0} /\ pl[k] = pl[i] * d /\ i \in 0..n
    <3>1. w[i] \in 0..W+13 /\ i \in 0..n
      BY <1>1, <2>1
    <3>2. pl[i] \in Nat \ {0} /\ pl[i + 1] = pl[i] * Pow2[w[i]]
      BY <2>1, <3>1 DEF ArePlaces
    <3>3. QED
      BY <2>1, <3>1, <3>2, Powers
  <2>3. CASE i = 0
    <3>1. pl[k] = d /\ d = Pow2[w[0]]
      BY <1>1, <2>2, <2>3
    <3>2. QED
      BY <2>1, <2>2, <3>1
  <2>4. CASE i # 0
    <3>1. pl[i] >= Pow2[w[0]]
      BY <1>2, <2>4 DEF i
    <3> DEFINE z == pl[i]
               v == Pow2[w[0]]
    <3>2. z \in Nat /\ z >= v /\ v \in Nat
      <4>1. w[0] \in 0..W+13
        BY <1>1, <2>1
      <4>2. QED
        BY <2>2, <3>1, <4>1, Powers
    <3> HIDE DEF z, v, d
    <3>3. z * d >= v /\ z * d \in Nat
      BY <2>2, <3>2
    <3>4. QED
      BY <2>1, <2>2, <3>3 DEF z, v
  <2>5. QED
    BY <2>3, <2>4
<1>3. \A k \in 0..n : k \in I
  <2>1. 0 \in I
    OBVIOUS
  <2> HIDE DEF I
  <2>2. QED
    BY <1>1, <1>2, <2>1, Induct
<1>4. ASSUME NEW i \in 1..n PROVE pl[i] \in Nat /\ pl[i] >= Pow2[w[0]]
  <2>1. i \in I /\ i # 0
    BY <1>1, <1>3
  <2>2. QED
    BY <2>1
<1>5. QED
  BY <1>4

\* No limb stands for more than all of them.
LEMMA LimbAtMost ==
  ASSUME NEW n, NEW w, NEW pl, ArePlaces(pl, w, n), NEW t, Fits(t, w, n), NEW i \in 0..n-1
  PROVE  Stands(t, pl, n) \in Nat /\ t[i] * pl[i] \in Nat /\ t[i] * pl[i] <= Stands(t, pl, n)
<1> HIDE DEF Pow2
<1>1. n \in Nat /\ w[i] \in 0..W+13 /\ pl[i] \in Nat /\ t[i] \in Nat
  <2>1. n \in Nat /\ i \in 0..n /\ w[i] \in 0..W+13
    BY DEF ArePlaces, AreWidths
  <2>2. QED
    BY <2>1 DEF ArePlaces, Fits
<1>2. Pow2[w[i]] \in Nat
  BY <1>1, Powers
<1>3. PICK q \in Nat : Stands(t, pl, n) = Stands(t, pl, i) + pl[i] * (t[i] + Pow2[w[i]] * q)
  BY LimbParts
<1>4. Stands(t, pl, i) \in Nat
  BY LimbParts
<1> DEFINE d == Pow2[w[i]]
           a == Stands(t, pl, i)
           v == Stands(t, pl, n)
           x == t[i]
           z == pl[i]
<1>5. d \in Nat /\ a \in Nat /\ x \in Nat /\ z \in Nat /\ v = a + z * (x + d * q)
  BY <1>1, <1>2, <1>3, <1>4
<1> HIDE DEF d, a, v, x, z
<1>6. d * q \in Nat
  BY <1>5
<1> DEFINE h == d * q
<1>7. h \in Nat /\ v = a + z * (x + h)
  BY <1>5, <1>6
<1> HIDE DEF h
<1>8. z * (x + h) = x * z + z * h /\ z * h \in Nat /\ x * z \in Nat
  BY <1>5, <1>7
<1>9. v \in Nat /\ x * z \in Nat /\ x * z <= v
  BY <1>5, <1>7, <1>8
<1>10. QED
  BY <1>9 DEF v, x, z

\* A number that is less than twice another divides into it once at the most.
LEMMA OnceAtMost ==
  ASSUME NEW d \in Nat \ {0}, NEW v \in Nat, v < 2 * d, NEW q \in Nat, NEW r \in 0..d-1, v = r + q * d
  PROVE  IF v < d THEN q = 0 /\ r = v ELSE q = 1 /\ r + d = v
<1>1. v \div d = q /\ v % d = r
  BY DivisionIs
<1>2. CASE v < d
  <2>1. v = 0 * d + v /\ v \in 0..d-1
    BY <1>2
  <2>2. v \div d = 0 /\ v % d = v
    BY <2>1, DivisionIs
  <2>3. QED
    BY <1>1, <1>2, <2>2
<1>3. CASE ~(v < d)
  <2> DEFINE s == v - d
  <2>1. v = 1 * d + s /\ s \in 0..d-1 /\ v \in Int /\ s + d = v
    BY <1>3
  <2> HIDE DEF s
  <2>2. v \div d = 1 /\ v % d = s
    BY <2>1, DivisionIs
  <2>3. QED
    BY <1>1, <1>3, <2>1, <2>2
<1>4. QED
  BY <1>2, <1>3

\* Limbs that stand for little more than the place past the last.
IsLittle(t, w, pl, n, x) ==
  /\ IsLimbs(t, n) /\ x \in Nat /\ x <= pl[n] /\ x + 19 <= Pow2[w[0]] /\ Pow2[w[0]] <= Pow2[W]
  /\ Stands(t, pl, n) < pl[n] + x

\* One fold leaves limbs that fit.
LEMMA FoldedOnce ==
  ASSUME NEW n, NEW w, NEW pl, ArePlaces(pl, w, n), NEW t, NEW x, IsLittle(t, w, pl, n, x)
  PROVE  /\ Fits(Folded(t, w), w, n)
         /\ Stands(t, pl, n) \in Nat /\ Stands(Folded(t, w), pl, n) \in Nat /\ pl[n] \in Nat
         /\ IF Stands(t, pl, n) < pl[n]
            THEN Stands(Folded(t, w), pl, n) = Stands(t, pl, n)
            ELSE Stands(Folded(t, w), pl, n) + pl[n] = Stands(t, pl, n) + 19
<1> DEFINE e == Ripple(t, w).limbs
           q == Ripple(t, w).out
           T == Stands(t, pl, n)
           E == Stands(e, pl, n)
           Q == pl[n]
           u == Folded(t, w)
<1> HIDE DEF Pow2
<1>1. /\ Fits(e, w, n) /\ q \in Nat /\ T \in Nat /\ E \in 0..Q-1 /\ Q \in Nat \ {0} /\ T = E + q * Q
  BY RippleSum DEF IsLittle
<1>2. T < Q + x /\ x \in Nat /\ x <= Q /\ x + 19 <= Pow2[w[0]] /\ Pow2[w[0]] <= Pow2[W]
  BY DEF IsLittle
<1>3. u = [e EXCEPT ![0] = Word(e[0] + Word(19 * q))]
  BY DEF Folded
<1>4. n \in Nat /\ 0 \in 0..n-1 /\ w[0] \in 0..W+13 /\ pl[0] = 1 /\ W \in Nat
  BY WidthIs DEF ArePlaces, AreWidths
<1>5. e \in [0..n-1 -> Nat] /\ e[0] \in Nat /\ e[0] < Pow2[w[0]] /\ Pow2[w[0]] \in Nat
  BY <1>1, <1>4, Powers DEF Fits
<1>6. e[0] <= E
  <2> HIDE DEF e
  <2>1. e[0] * pl[0] <= Stands(e, pl, n)
    BY <1>1, <1>4, LimbAtMost
  <2>2. QED
    BY <1>4, <1>5, <2>1
<1> HIDE DEF e, q, T, E, Q, u
<1>7. IF T < Q THEN q = 0 /\ E = T ELSE q = 1 /\ E + Q = T
  <2>1. T < 2 * Q
    BY <1>1, <1>2
  <2>2. QED
    BY <1>1, <2>1, OnceAtMost
<1>8. CASE T < Q
  <2>1. q = 0 /\ E = T
    BY <1>7, <1>8
  <2>2. Word(19 * q) = 0
    <3>1. 19 * q = 0 /\ 0 \in Nat /\ 0 \in 0..W+13 /\ Pow2[0] = 1 /\ 0 < 1
      BY <1>4, <2>1, SmallPowers
    <3>2. QED
      BY <3>1, WordsHold
  <2>3. Word(e[0] + Word(19 * q)) = e[0]
    <3>1. e[0] + Word(19 * q) = e[0]
      BY <1>5, <2>2
    <3>2. Word(e[0]) = e[0]
      BY <1>4, <1>5, WordsHold
    <3>3. QED
      BY <3>1, <3>2
  <2>4. u = e
    BY <1>3, <1>4, <1>5, <2>3
  <2>5. Fits(u, w, n) /\ Stands(u, pl, n) = T
    BY <1>1, <2>1, <2>4 DEF E
  <2>6. QED
    BY <1>1, <1>8, <2>5 DEF u, T, Q
<1>9. CASE ~(T < Q)
  <2>1. q = 1 /\ E + Q = T
    BY <1>7, <1>9
  <2>2. E < x
    BY <1>1, <1>2, <2>1
  <2>3. e[0] + 19 < Pow2[w[0]] /\ 19 < Pow2[w[0]] /\ e[0] + 19 \in Nat
    BY <1>1, <1>2, <1>5, <1>6, <2>2
  <2>4. Word(19 * q) = 19
    <3>1. 19 * q = 19 /\ 19 \in Nat
      BY <2>1
    <3>2. Word(19) = 19
      BY <1>4, <2>3, <3>1, WordsHold
    <3>3. QED
      BY <3>1, <3>2
  <2>5. Word(e[0] + Word(19 * q)) = e[0] + 19
    <3>1. Word(e[0] + 19) = e[0] + 19
      BY <1>4, <2>3, WordsHold
    <3>2. QED
      BY <2>4, <3>1
  <2> DEFINE v == e[0] + 19
  <2>6. WithFirst(u, e, v, n)
    BY <1>3, <1>5, <2>3, <2>5 DEF WithFirst
  <2> HIDE DEF v
  <2>7. /\ u \in [0..n-1 -> Nat] /\ u[0] = v /\ \A i \in 1..n-1 : u[i] = e[i]
        /\ Stands(u, pl, n) + e[0] = E + v
    BY <2>6, StandsWithFirst DEF E
  <2>8. Fits(u, w, n)
    <3>1. ASSUME NEW i \in 0..n-1 PROVE u[i] < Pow2[w[i]]
      <4>1. CASE i = 0
        BY <2>3, <2>7, <4>1 DEF v
      <4>2. CASE i # 0
        <5>1. i \in 1..n-1 /\ e[i] < Pow2[w[i]]
          BY <1>1, <1>4, <4>2 DEF Fits
        <5>2. QED
          BY <2>7, <5>1
      <4>3. QED
        BY <4>1, <4>2
    <3>2. QED
      BY <2>7, <3>1 DEF Fits
  <2>9. Stands(u, pl, n) \in Nat
    BY <2>8, FitsBelow
  <2>10. Stands(u, pl, n) + Q = T + 19
    BY <1>1, <1>5, <2>1, <2>7, <2>9 DEF v
  <2>11. QED
    BY <1>1, <1>9, <2>8, <2>9, <2>10 DEF u, T, Q
<1>10. QED
  BY <1>8, <1>9

\* Limbs up to six times their width, of fe51 or of fe4.
IsHeld(t, w, pl, n) ==
  /\ ArePlaces(pl, w, n) /\ IsWide(w, n) /\ Pow2[w[0]] >= 16384 /\ AreWithin(t, w, n, 12)

\* Two folds leave limbs that fit.
LEMMA FoldedTwice ==
  ASSUME NEW n, NEW w, NEW pl, NEW t, IsHeld(t, w, pl, n), NEW h, h = Folded(Folded(t, w), w)
  PROVE  /\ Fits(h, w, n) /\ Stands(t, pl, n) \in Nat /\ Stands(h, pl, n) \in Nat
         /\ FoldsTo(Stands(t, pl, n), Stands(h, pl, n), pl[n])
<1> DEFINE g == Folded(t, w)
           T == Stands(t, pl, n)
           G == Stands(g, pl, n)
           H == Stands(h, pl, n)
           Q == pl[n]
           c == 7
           m == 6
<1> HIDE DEF Pow2
<1>1. /\ ArePlaces(pl, w, n) /\ n \in Nat /\ 0 \in 0..n-1 /\ n - 1 \in 0..n-1 /\ n \in 1..n
      /\ \A i \in 0..n-1 : Pow2[w[i]] \in Nat /\ Pow2[w[i]] >= 32 /\ Pow2[w[i]] <= Pow2[W]
      /\ Pow2[w[0]] >= 16384
  BY DEF IsWide, IsHeld
<1>2. Pow2[W] \in Nat /\ Pow2[W] >= 2048 /\ Pow2[W + 13] = 8192 * Pow2[W]
  BY WideEnough
<1>3. t \in [0..n-1 -> Nat] /\ \A i \in 0..n-1 : t[i] \in Nat /\ t[i] <= 6 * Pow2[w[i]]
  <2>1. t \in [0..n-1 -> Nat] /\ \A i \in 0..n-1 : 2 * t[i] <= 12 * Pow2[w[i]]
    BY DEF AreWithin, IsHeld
  <2>2. ASSUME NEW i \in 0..n-1 PROVE t[i] \in Nat /\ t[i] <= 6 * Pow2[w[i]]
    BY <1>1, <2>1
  <2>3. QED
    BY <2>1, <2>2
<1>4. Foldable(t, w, n, c, m)
  <2>1. \A i \in 0..n-1 : t[i] + c < (c + 1) * Pow2[w[i]] /\ t[i] + c < (m + 1) * Pow2[w[i]]
    <3>1. ASSUME NEW i \in 0..n-1
          PROVE  t[i] + c < (c + 1) * Pow2[w[i]] /\ t[i] + c < (m + 1) * Pow2[w[i]]
      <4> DEFINE d == Pow2[w[i]]
                 v == t[i]
      <4>1. v \in Nat /\ v <= 6 * d /\ d \in Nat /\ d >= 32
        BY <1>1, <1>3
      <4> HIDE DEF d, v
      <4>2. v + 7 < 8 * d /\ v + 7 < 7 * d
        BY <4>1
      <4>3. QED
        BY <4>2 DEF d, v
    <3>2. QED
      BY <3>1
  <2>2. Pow2[w[0]] + 19 * m <= Pow2[W + 13] /\ c \in Nat /\ m \in Nat
    BY <1>1, <1>2
  <2> HIDE DEF c, m
  <2>3. StaysBelow(t, w, n, c)
    BY <1>3, <2>1, <2>2 DEF StaysBelow
  <2>4. QED
    BY <1>1, <2>1, <2>2, <2>3 DEF Foldable
<1>5. /\ g \in [0..n-1 -> Nat]
      /\ g[0] < Pow2[w[0]] + 19 * m
      /\ \A i \in 1..n-1 : g[i] < Pow2[w[i]]
      /\ \E q \in Nat : T + 19 * q = G + q * Q
  <2> HIDE DEF c, m
  <2>1. /\ g \in [0..n-1 -> Nat]
        /\ g[0] < Pow2[w[0]] + 19 * m
        /\ \A i \in 1..n-1 : g[i] < Pow2[w[i]]
    BY <1>1, <1>4, FoldedIs
  <2>2. ArePlaces(pl, w, n) /\ Foldable(t, w, n, c, m)
    BY <1>1, <1>4
  <2>3. FoldsTo(Stands(t, pl, n), Stands(Folded(t, w), pl, n), pl[n])
    BY <2>2, FoldedIs, Zenon DEF FoldsTo
  <2>4. QED
    BY <2>1, <2>3 DEF FoldsTo
<1>6. T \in Nat /\ G \in Nat /\ Q \in Nat /\ Q >= 16384
  <2>1. IsLimbs(t, n) /\ IsLimbs(g, n)
    BY <1>3, <1>5 DEF IsLimbs
  <2> HIDE DEF g
  <2>2. T \in Nat /\ G \in Nat
    BY <1>1, <2>1, RippleSum
  <2>3. Q \in Nat /\ Q >= Pow2[w[0]]
    BY <1>1, PlacesRise
  <2>4. QED
    BY <1>1, <2>2, <2>3
<1> HIDE DEF g, T, G, H, Q
<1> DEFINE d == Pow2[w[0]]
           x == IF g[0] < d THEN g[0] ELSE d - 1
           e == [g EXCEPT ![0] = x]
<1>7. d \in Nat /\ d >= 16384 /\ g[0] \in Nat /\ g[0] < d + 114
  BY <1>1, <1>5
<1> HIDE DEF d
<1>8. x \in Nat /\ x < d /\ g[0] <= x + 114
  BY <1>7
<1> HIDE DEF x
<1>9. /\ e \in [0..n-1 -> Nat] /\ e[0] = x /\ \A i \in 1..n-1 : e[i] = g[i]
      /\ Stands(e, pl, n) + g[0] = G + x
  <2>1. WithFirst(e, g, x, n)
    BY <1>5, <1>8 DEF WithFirst
  <2> HIDE DEF e
  <2>2. QED
    BY <1>1, <2>1, StandsWithFirst DEF G
<1> HIDE DEF e
<1>10. Fits(e, w, n)
  <2>1. ASSUME NEW i \in 0..n-1 PROVE e[i] < Pow2[w[i]]
    <3>1. CASE i = 0
      BY <1>8, <1>9, <3>1 DEF d
    <3>2. CASE i # 0
      <4>1. i \in 1..n-1
        BY <1>1, <3>2
      <4>2. QED
        BY <1>5, <1>9, <4>1
    <3>3. QED
      BY <3>1, <3>2
  <2>2. QED
    BY <1>9, <2>1 DEF Fits
<1>11. G < Q + 114
  <2>1. Stands(e, pl, n) \in Nat /\ Stands(e, pl, n) < Q
    BY <1>1, <1>10, FitsBelow DEF Q
  <2>2. QED
    BY <1>6, <1>7, <1>8, <1>9, <2>1
<1>12. IsLittle(g, w, pl, n, 114)
  BY <1>1, <1>5, <1>6, <1>11 DEF IsLittle, IsLimbs, G, Q
<1>13. /\ Fits(h, w, n) /\ H \in Nat
       /\ IF G < Q THEN H = G ELSE H + Q = G + 19
  <2> DEFINE y == 114
  <2>1. IsLittle(g, w, pl, n, y)
    BY <1>12
  <2> HIDE DEF y
  <2>2. /\ Fits(Folded(g, w), w, n) /\ Stands(Folded(g, w), pl, n) \in Nat
        /\ IF Stands(g, pl, n) < pl[n]
           THEN Stands(Folded(g, w), pl, n) = Stands(g, pl, n)
           ELSE Stands(Folded(g, w), pl, n) + pl[n] = Stands(g, pl, n) + 19
    BY <1>1, <2>1, FoldedOnce
  <2>3. h = Folded(g, w)
    BY DEF g
  <2>4. QED
    BY <2>2, <2>3 DEF G, H, Q
<1>14. FoldsTo(G, H, Q)
  <2>1. CASE G < Q
    <3>1. G + 19 * 0 = H + 0 * Q /\ 0 \in Nat
      BY <1>6, <1>13, <2>1
    <3>2. QED
      BY <3>1 DEF FoldsTo
  <2>2. CASE ~(G < Q)
    <3>1. G + 19 * 1 = H + 1 * Q /\ 1 \in Nat
      BY <1>6, <1>13, <2>2
    <3>2. QED
      BY <3>1 DEF FoldsTo
  <2>3. QED
    BY <2>1, <2>2
<1>15. FoldsTo(T, H, Q)
  <2>1. FoldsTo(T, G, Q)
    BY <1>5 DEF FoldsTo
  <2>2. QED
    BY <1>6, <1>13, <1>14, <2>1, FoldsTwice
<1>16. QED
  BY <1>6, <1>13, <1>15 DEF T, H, Q

\* The limbs of p, and of what stands for 2^(5W) less 1.
LEMMA OneTimesP ==
  ASSUME NEW n, NEW w, NEW pl, ArePlaces(pl, w, n), \A i \in 0..n-1 : Pow2[w[i]] >= 32,
         NEW p, p = TimesP(1, w)
  PROVE  /\ p \in [0..n-1 -> Nat]
         /\ p[0] + 19 = Pow2[w[0]] /\ \A i \in 1..n-1 : p[i] + 1 = Pow2[w[i]]
         /\ Stands(p, pl, n) \in Nat /\ Stands(p, pl, n) + 19 = pl[n]
<1> HIDE DEF Pow2
<1>1. n \in Nat \ {0} /\ AreWidths(w, n) /\ 0 \in 0..n-1 /\ \A i \in 1..n-1 : i \in 0..n-1 /\ i # 0
  BY DEF ArePlaces, AreWidths
<1>2. \A i \in 0..n-1 : Pow2[w[i]] \in Nat \ {0}
  BY <1>1, Powers DEF AreWidths
<1>3. DOMAIN w = 0..n-1
  BY <1>1 DEF AreWidths
<1>4. \A i \in 0..n-1 : p[i] = 1 * (Pow2[w[i]] - (IF i = 0 THEN 19 ELSE 1))
  BY <1>3 DEF TimesP
<1>5. p = [i \in 0..n-1 |-> p[i]]
  BY <1>3 DEF TimesP
<1>6. \A i \in 0..n-1 : /\ p[i] \in Nat /\ (i # 0 => p[i] + 1 = Pow2[w[i]])
                        /\ (i = 0 => p[i] + 19 = Pow2[w[i]])
  <2>1. ASSUME NEW i \in 0..n-1
        PROVE  /\ p[i] \in Nat /\ (i # 0 => p[i] + 1 = Pow2[w[i]])
               /\ (i = 0 => p[i] + 19 = Pow2[w[i]])
    <3>1. p[i] = 1 * (Pow2[w[i]] - (IF i = 0 THEN 19 ELSE 1)) /\ Pow2[w[i]] \in Nat /\ Pow2[w[i]] >= 32
      BY <1>2, <1>4
    <3>2. QED
      BY <3>1
  <2>2. QED
    BY <2>1
<1>7. /\ p \in [0..n-1 -> Nat]
      /\ p[0] + 19 = Pow2[w[0]] /\ \A i \in 1..n-1 : p[i] + 1 = Pow2[w[i]]
  <2>1. p \in [0..n-1 -> Nat]
    BY <1>5, <1>6
  <2>2. QED
    BY <1>1, <1>6, <2>1
<1>8. IsTop(p, w, n, 1, 19)
  <2>1. p[0] + 19 = 1 * Pow2[w[0]] /\ \A i \in 1..n-1 : p[i] + 1 = 1 * Pow2[w[i]]
    BY <1>1, <1>2, <1>7
  <2>2. QED
    BY <1>7, <2>1 DEF IsTop
<1>9. Stands(p, pl, n) \in Nat /\ Stands(p, pl, n) + 19 = 1 * pl[n]
  <2> DEFINE m == 1
             c == 19
  <2>1. IsTop(p, w, n, m, c)
    BY <1>8
  <2> HIDE DEF m, c
  <2>2. Stands(p, pl, n) \in Nat /\ Stands(p, pl, n) + c = m * pl[n]
    BY <2>1, TopStands
  <2>3. QED
    BY <2>2 DEF m, c
<1>10. pl[n] \in Nat
  BY <1>1 DEF ArePlaces
<1>11. QED
  BY <1>7, <1>9, <1>10

\* A number below twice p, less p if it is not below it.
LEMMA OneLess ==
  ASSUME NEW v \in Nat, v < 2 * Prime
  PROVE  v % Prime \in Nat /\ v % Prime < Prime /\ IF v < Prime THEN v % Prime = v ELSE (v % Prime) + Prime = v
<1> DEFINE d == Prime
           r == v % d
           q == v \div d
<1>1. d \in Nat \ {0}
  BY PrimeIs
<1> HIDE DEF d
<1>2. q \in Nat /\ r \in 0..d-1 /\ v = q * d + r
  BY <1>1, Divided
<1> HIDE DEF q, r
<1>3. v = r + q * d
  <2>1. q * d \in Nat
    BY <1>1, <1>2
  <2>2. QED
    BY <1>2, <2>1
<1>4. v < 2 * d
  BY DEF d
<1>5. IF v < d THEN q = 0 /\ r = v ELSE q = 1 /\ r + d = v
  BY <1>1, <1>2, <1>3, <1>4, OnceAtMost
<1>6. r \in Nat /\ r < d /\ IF v < d THEN r = v ELSE r + d = v
  BY <1>1, <1>2, <1>5
<1>7. QED
  BY <1>6 DEF r, d

\* 19 added and folded, and p added: v modulo p is left.
LEMMA CanonicalIs ==
  ASSUME NEW n, NEW w, NEW pl, NEW t, IsHeld(t, w, pl, n), pl[n] = Prime + 19,
         NEW r, r = Canonical(t, w)
  PROVE  Fits(r, w, n) /\ Stands(t, pl, n) \in Nat /\ Stands(r, pl, n) = Stands(t, pl, n) % Prime
<1> DEFINE h == Folded(Folded(t, w), w)
           b == Plus(h, 0, 19)
           f == Folded(b, w)
           p == TimesP(1, w)
           s == [i \in 0..n-1 |-> f[i] + p[i]]
           T == Stands(t, pl, n)
           H == Stands(h, pl, n)
           F == Stands(f, pl, n)
           S == Stands(s, pl, n)
           Q == pl[n]
           d == Prime
           v == T % Prime
<1> HIDE DEF Pow2
<1>1. /\ ArePlaces(pl, w, n) /\ n \in Nat /\ 0 \in 0..n-1 /\ n \in 1..n
      /\ \A i \in 0..n-1 : Pow2[w[i]] \in Nat /\ Pow2[w[i]] >= 32 /\ Pow2[w[i]] <= Pow2[W]
      /\ Pow2[w[0]] >= 16384
  BY DEF IsWide, IsHeld
<1>2. DOMAIN t = 0..n-1
  BY DEF IsHeld, AreWithin
<1>3. r = Ripple(s, w).limbs
  BY <1>2 DEF Canonical
<1>4. Fits(h, w, n) /\ T \in Nat /\ H \in Nat /\ FoldsTo(T, H, Q)
  BY FoldedTwice
<1>5. d \in Nat \ {0} /\ Q = d + 19 /\ d >= 1024
  BY PrimeIs, PrimeAboveOne
<1> HIDE DEF h, T, Q, d
<1>6. H < Q /\ H % d = v
  <2>1. H < Q
    BY <1>1, <1>4, FitsBelow DEF Q
  <2>2. Q \in Nat /\ Q = Prime + 19
    BY <1>5 DEF d
  <2> HIDE DEF H
  <2>3. H % Prime = T % Prime
    BY <1>4, <2>2, FoldsResidue
  <2>4. QED
    BY <2>1, <2>3 DEF d
<1> HIDE DEF v
<1>7. v \in Nat /\ v < d /\ IF H < d THEN v = H ELSE v + d = H
  <2>1. H < 2 * Prime
    BY <1>4, <1>5, <1>6 DEF d
  <2> HIDE DEF H
  <2>2. H % Prime \in Nat /\ H % Prime < Prime /\ IF H < Prime THEN H % Prime = H ELSE (H % Prime) + Prime = H
    BY <1>4, <2>1, OneLess
  <2>3. QED
    BY <1>6, <2>2 DEF d
<1>8. IsLimbs(b, n) /\ Stands(b, pl, n) = H + 19
  <2> DEFINE k == 19
  <2>1. IsLimbs(h, n) /\ k \in Nat
    BY <1>4 DEF Fits, IsLimbs
  <2> HIDE DEF k
  <2>2. IsLimbs(Plus(h, 0, k), n) /\ Stands(Plus(h, 0, k), pl, n) = Stands(h, pl, n) + k
    <3>1. ArePlaces(pl, w, n)
      BY <1>1
    <3>2. QED
      BY <2>1, <3>1, StandsPlus
  <2>3. QED
    BY <2>2 DEF k
<1> HIDE DEF b, H
<1>9. IsLittle(b, w, pl, n, 19)
  <2>1. Stands(b, pl, n) < Q + 19 /\ 19 <= Q
    BY <1>4, <1>5, <1>6, <1>8
  <2>2. 19 \in Nat /\ 19 + 19 <= Pow2[w[0]] /\ Pow2[w[0]] <= Pow2[W]
    BY <1>1
  <2>3. QED
    BY <1>8, <2>1, <2>2 DEF IsLittle, Q
<1>10. Fits(f, w, n) /\ F = v + 19
  <2> DEFINE k == 19
  <2>1. IsLittle(b, w, pl, n, k)
    BY <1>9
  <2> HIDE DEF k
  <2>2. /\ Fits(Folded(b, w), w, n) /\ Stands(Folded(b, w), pl, n) \in Nat
        /\ IF Stands(b, pl, n) < pl[n]
           THEN Stands(Folded(b, w), pl, n) = Stands(b, pl, n)
           ELSE Stands(Folded(b, w), pl, n) + pl[n] = Stands(b, pl, n) + 19
    BY <1>1, <2>1, FoldedOnce
  <2>3. F \in Nat /\ IF H + 19 < Q THEN F = H + 19 ELSE F + Q = (H + 19) + 19
    BY <1>8, <2>2 DEF Q
  <2>4. F = v + 19
    <3> HIDE DEF F
    <3>1. QED
      BY <1>4, <1>5, <1>7, <2>3
  <2>5. QED
    BY <2>2, <2>4
<1> HIDE DEF f, F
<1>11. /\ p \in [0..n-1 -> Nat] /\ Stands(p, pl, n) \in Nat /\ Stands(p, pl, n) + 19 = Q
  <2>1. ArePlaces(pl, w, n) /\ \A i \in 0..n-1 : Pow2[w[i]] >= 32
    BY <1>1
  <2>2. p = TimesP(1, w)
    OBVIOUS
  <2> HIDE DEF p
  <2>3. /\ p \in [0..n-1 -> Nat] /\ Stands(p, pl, n) \in Nat /\ Stands(p, pl, n) + 19 = pl[n]
    BY <2>1, <2>2, OneTimesP
  <2>4. QED
    BY <2>3 DEF Q
<1> HIDE DEF p
<1>12. IsLimbs(s, n) /\ S = v + Q
  <2>1. f \in [0..n-1 -> Nat]
    BY <1>10 DEF Fits
  <2>2. s \in [0..n-1 -> Nat] /\ \A i \in 0..n-1 : s[i] = f[i] + p[i]
    BY <1>11, <2>1
  <2> HIDE DEF s
  <2>3. AreSums(s, f, p, n) /\ AreNumbers(pl, n)
    <3>1. \A i \in 0..n-1 : f[i] \in Nat /\ p[i] \in Nat
      BY <1>11, <2>1
    <3>2. \A i \in 0..n-1 : i \in 0..n /\ pl[i] \in Nat
      BY <1>1 DEF ArePlaces
    <3>3. QED
      BY <1>1, <2>2, <3>1, <3>2 DEF AreSums, AreNumbers
  <2>4. S = Stands(f, pl, n) + Stands(p, pl, n)
    BY <2>3, StandsSum
  <2>5. S = v + Q
    <3>1. Stands(f, pl, n) = v + 19
      BY <1>10 DEF F
    <3>2. QED
      BY <1>7, <1>11, <2>4, <3>1
  <2>6. QED
    BY <2>2, <2>5 DEF IsLimbs
<1> HIDE DEF s
<1>13. /\ Fits(r, w, n) /\ Stands(r, pl, n) \in Nat /\ Stands(r, pl, n) < Q
       /\ \E q \in Nat : S = Stands(r, pl, n) + q * Q
  <2>1. /\ Fits(Ripple(s, w).limbs, w, n) /\ Ripple(s, w).out \in Nat
        /\ Stands(Ripple(s, w).limbs, pl, n) \in Nat
        /\ Stands(Ripple(s, w).limbs, pl, n) < pl[n]
        /\ Stands(s, pl, n) = Stands(Ripple(s, w).limbs, pl, n) + Ripple(s, w).out * pl[n]
    BY <1>1, <1>12, RippleSum
  <2>2. QED
    BY <1>3, <2>1 DEF S, Q
<1>14. Stands(r, pl, n) = v
  <2> DEFINE x == Stands(r, pl, n)
  <2>1. PICK q \in Nat : S = x + q * Q
    BY <1>13
  <2>2. x \in 0..Q-1 /\ S = v + Q /\ Q \in Nat \ {0} /\ v < Q
    BY <1>5, <1>7, <1>12, <1>13
  <2> HIDE DEF x, S
  <2>3. IF S < Q THEN q = 0 /\ x = S ELSE q = 1 /\ x + Q = S
    <3>1. S \in Nat /\ S < 2 * Q
      BY <1>7, <2>2
    <3>2. QED
      BY <2>1, <2>2, <3>1, OnceAtMost
  <2>4. x = v
    BY <1>7, <2>2, <2>3
  <2>5. QED
    BY <2>4 DEF x
<1>15. QED
  BY <1>4, <1>13, <1>14 DEF v, T

\* Each limb of a number from p up that fits is at least that of p, and but for the first
\* is that of p.
LEMMA LimbsFromP ==
  ASSUME NEW n, NEW w, NEW pl, ArePlaces(pl, w, n), \A i \in 0..n-1 : Pow2[w[i]] >= 32,
         NEW t, Fits(t, w, n), Stands(t, pl, n) + 19 >= pl[n], NEW p, p = TimesP(1, w)
  PROVE  t[0] >= p[0] /\ \A i \in 1..n-1 : t[i] = p[i]
<1> DEFINE top == [i \in 0..n-1 |-> Pow2[w[i]] - 1]
           e == [i \in 0..n-1 |-> Pow2[w[i]] - 1 - t[i]]
           V == Stands(t, pl, n)
           E == Stands(e, pl, n)
           Q == pl[n]
<1> HIDE DEF Pow2
<1>1. /\ n \in Nat \ {0} /\ 0 \in 0..n-1 /\ Q \in Nat /\ pl[0] = 1
      /\ \A i \in 0..n-1 : Pow2[w[i]] \in Nat \ {0}
  <2>1. \A i \in 0..n-1 : w[i] \in 0..W+13
    BY DEF ArePlaces, AreWidths
  <2>2. QED
    BY <2>1, Powers DEF ArePlaces, AreWidths
<1>2. t \in [0..n-1 -> Nat] /\ \A i \in 0..n-1 : t[i] \in Nat /\ t[i] < Pow2[w[i]]
  BY DEF Fits
<1>3. /\ \A i \in 0..n-1 : /\ top[i] \in Nat /\ top[i] + 1 = Pow2[w[i]]
                           /\ e[i] \in Nat /\ top[i] = e[i] + t[i] /\ e[i] < Pow2[w[i]]
  <2>1. ASSUME NEW i \in 0..n-1
        PROVE  /\ top[i] \in Nat /\ top[i] + 1 = Pow2[w[i]]
               /\ e[i] \in Nat /\ top[i] = e[i] + t[i] /\ e[i] < Pow2[w[i]]
    <3>1. top[i] = Pow2[w[i]] - 1 /\ e[i] = Pow2[w[i]] - 1 - t[i]
      OBVIOUS
    <3>2. Pow2[w[i]] \in Nat \ {0} /\ t[i] \in Nat /\ t[i] < Pow2[w[i]]
      BY <1>1, <1>2
    <3> HIDE DEF top, e
    <3>3. QED
      BY <3>1, <3>2
  <2>2. QED
    BY <2>1
<1>4. top \in [0..n-1 -> Nat] /\ e \in [0..n-1 -> Nat]
  BY <1>3
<1> HIDE DEF top, e
<1>5. Stands(top, pl, n) \in Nat /\ Stands(top, pl, n) + 1 = Q
  <2> DEFINE m == 1
  <2>1. IsTop(top, w, n, m, m)
    <3>1. m \in Nat /\ \A i \in 0..n-1 : top[i] + m = m * Pow2[w[i]]
      BY <1>1, <1>3
    <3> HIDE DEF m
    <3>2. \A i \in 1..n-1 : i \in 0..n-1
      BY <1>1
    <3>3. QED
      BY <1>1, <1>4, <3>1, <3>2 DEF IsTop
  <2> HIDE DEF m
  <2>2. Stands(top, pl, n) \in Nat /\ Stands(top, pl, n) + m = m * pl[n]
    BY <2>1, TopStands
  <2>3. QED
    BY <1>1, <2>2 DEF m
<1>6. E \in Nat /\ V \in Nat /\ Stands(top, pl, n) = E + V
  <2>1. AreSums(top, e, t, n) /\ AreNumbers(pl, n)
    <3>1. \A i \in 0..n-1 : i \in 0..n /\ pl[i] \in Nat
      BY <1>1 DEF ArePlaces
    <3>2. QED
      BY <1>1, <1>2, <1>3, <3>1 DEF AreSums, AreNumbers
  <2>2. QED
    BY <2>1, StandsSum
<1>7. Fits(e, w, n) /\ E <= 18
  <2>1. Fits(e, w, n)
    BY <1>3, <1>4 DEF Fits
  <2>2. V + 19 >= Q
    OBVIOUS
  <2> HIDE DEF V, E, Q
  <2>3. E <= 18
    BY <1>1, <1>5, <1>6, <2>2
  <2>4. QED
    BY <2>1, <2>3
<1>8. \A i \in 0..n-1 : e[i] * pl[i] \in Nat /\ e[i] * pl[i] <= 18
  <2>1. ASSUME NEW i \in 0..n-1 PROVE e[i] * pl[i] \in Nat /\ e[i] * pl[i] <= 18
    <3>1. e[i] * pl[i] \in Nat /\ e[i] * pl[i] <= E
      BY <1>7, LimbAtMost
    <3> HIDE DEF E
    <3>2. QED
      BY <1>6, <1>7, <3>1
  <2>2. QED
    BY <2>1
<1>9. /\ p \in [0..n-1 -> Nat]
      /\ p[0] + 19 = Pow2[w[0]] /\ \A i \in 1..n-1 : p[i] + 1 = Pow2[w[i]]
  BY OneTimesP
<1>10. t[0] >= p[0]
  <2>1. e[0] <= 18 /\ e[0] \in Nat
    <3>1. e[0] * 1 <= 18 /\ e[0] \in Nat
      BY <1>1, <1>3, <1>8
    <3>2. QED
      BY <3>1
  <2>2. p[0] \in Nat
    BY <1>1, <1>9
  <2>3. QED
    BY <1>1, <1>2, <1>3, <1>9, <2>1, <2>2
<1>11. ASSUME NEW i \in 1..n-1 PROVE t[i] = p[i]
  <2>1. i \in 0..n-1 /\ i \in 1..n
    BY <1>1
  <2>2. pl[i] \in Nat /\ pl[i] >= 32
    <3>1. pl[i] \in Nat /\ pl[i] >= Pow2[w[0]]
      BY <2>1, PlacesRise
    <3>2. Pow2[w[0]] >= 32 /\ Pow2[w[0]] \in Nat
      BY <1>1
    <3>3. QED
      BY <3>1, <3>2
  <2>3. e[i] = 0
    <3> DEFINE x == e[i]
               z == pl[i]
    <3>1. x \in Nat /\ z \in Nat /\ z >= 32 /\ x * z <= 18
      BY <1>3, <1>8, <2>1, <2>2
    <3> HIDE DEF x, z
    <3>2. x = 0
      BY <3>1
    <3>3. QED
      BY <3>2 DEF x
  <2>4. p[i] \in Nat /\ p[i] + 1 = Pow2[w[i]]
    BY <1>9, <2>1
  <2>5. QED
    <3>1. top[i] + 1 = Pow2[w[i]] /\ top[i] = e[i] + t[i] /\ top[i] \in Nat /\ t[i] \in Nat
      BY <1>2, <1>3, <2>1
    <3>2. QED
      BY <2>3, <2>4, <3>1
<1>12. QED
  BY <1>10, <1>11

\* p is subtracted from a number from p up: v modulo p is left.
LEMMA ContractedIs ==
  ASSUME NEW n, NEW w, NEW pl, NEW t, IsHeld(t, w, pl, n), pl[n] = Prime + 19,
         NEW r, r = Contracted(t, w)
  PROVE  Fits(r, w, n) /\ Stands(t, pl, n) \in Nat /\ Stands(r, pl, n) = Stands(t, pl, n) % Prime
<1> DEFINE h == Folded(Folded(t, w), w)
           p == TimesP(1, w)
           s == [i \in 0..n-1 |-> h[i] - p[i]]
           reached == h[0] >= p[0] /\ \A i \in 1..n-1 : h[i] = p[i]
           T == Stands(t, pl, n)
           H == Stands(h, pl, n)
           Q == pl[n]
           d == Prime
           v == T % Prime
<1> HIDE DEF Pow2
<1>1. /\ ArePlaces(pl, w, n) /\ n \in Nat \ {0} /\ 0 \in 0..n-1
      /\ \A i \in 0..n-1 : Pow2[w[i]] \in Nat /\ Pow2[w[i]] >= 32
  <2>1. n \in Nat /\ 0 \in 0..n-1
    BY DEF IsWide, IsHeld
  <2>2. QED
    BY <2>1 DEF IsWide, IsHeld
<1>2. DOMAIN t = 0..n-1 /\ DOMAIN t \ {0} = 1..n-1
  <2>1. DOMAIN t = 0..n-1
    BY DEF IsHeld, AreWithin
  <2>2. (0..n-1) \ {0} = 1..n-1
    BY <1>1
  <2>3. QED
    BY <2>1, <2>2
<1>3. r = IF reached THEN s ELSE h
  BY <1>2 DEF Contracted
<1>4. Fits(h, w, n) /\ T \in Nat /\ H \in Nat /\ FoldsTo(T, H, Q)
  BY FoldedTwice
<1>5. d \in Nat \ {0} /\ Q = d + 19 /\ d >= 1024
  BY PrimeIs, PrimeAboveOne
<1>6. /\ p \in [0..n-1 -> Nat]
      /\ p[0] + 19 = Pow2[w[0]] /\ \A i \in 1..n-1 : p[i] + 1 = Pow2[w[i]]
      /\ Stands(p, pl, n) \in Nat /\ Stands(p, pl, n) + 19 = Q
  <2>1. ArePlaces(pl, w, n) /\ \A i \in 0..n-1 : Pow2[w[i]] >= 32
    BY <1>1
  <2>2. p = TimesP(1, w)
    OBVIOUS
  <2> HIDE DEF p
  <2>3. QED
    BY <2>1, <2>2, OneTimesP
<1> HIDE DEF h, T, Q, d
<1>7. H < Q /\ H % d = v
  <2>1. H < Q
    BY <1>1, <1>4, FitsBelow DEF Q
  <2>2. Q \in Nat /\ Q = Prime + 19
    BY <1>5 DEF d
  <2> HIDE DEF H
  <2>3. H % Prime = T % Prime
    BY <1>4, <2>2, FoldsResidue
  <2>4. QED
    BY <2>1, <2>3 DEF d
<1> HIDE DEF v
<1>8. v \in Nat /\ v < d /\ IF H < d THEN v = H ELSE v + d = H
  <2>1. H < 2 * Prime
    BY <1>4, <1>5, <1>7 DEF d
  <2> HIDE DEF H
  <2>2. H % Prime \in Nat /\ H % Prime < Prime /\ IF H < Prime THEN H % Prime = H ELSE (H % Prime) + Prime = H
    BY <1>4, <2>1, OneLess
  <2>3. QED
    BY <1>7, <2>2 DEF d
<1>9. H + 19 >= Q => reached
  <2>1. p = TimesP(1, w) /\ \A i \in 0..n-1 : Pow2[w[i]] >= 32
    BY <1>1
  <2> HIDE DEF p
  <2>2. QED
    BY <1>1, <1>4, <2>1, LimbsFromP DEF Q
<1>10. ASSUME reached PROVE Fits(s, w, n) /\ Stands(s, pl, n) + Stands(p, pl, n) = H
  <2> HIDE DEF p
  <2>1. ASSUME NEW i \in 0..n-1
        PROVE  s[i] \in Nat /\ s[i] < Pow2[w[i]] /\ h[i] = s[i] + p[i] /\ h[i] \in Nat /\ p[i] \in Nat
    <3>1. h[i] \in Nat /\ h[i] < Pow2[w[i]] /\ p[i] \in Nat /\ Pow2[w[i]] \in Nat
      BY <1>1, <1>4, <1>6 DEF Fits
    <3>2. h[i] >= p[i]
      <4>1. CASE i = 0
        BY <1>10, <4>1
      <4>2. CASE i # 0
        <5>1. i \in 1..n-1
          BY <1>1, <4>2
        <5>2. QED
          BY <1>10, <3>1, <5>1
      <4>3. QED
        BY <4>1, <4>2
    <3>3. QED
      BY <3>1, <3>2
  <2>2. s \in [0..n-1 -> Nat]
    BY <2>1
  <2> HIDE DEF s
  <2>3. Fits(s, w, n)
    BY <2>1, <2>2 DEF Fits
  <2>4. AreSums(h, s, p, n) /\ AreNumbers(pl, n)
    <3>1. \A i \in 0..n-1 : i \in 0..n /\ pl[i] \in Nat
      BY <1>1 DEF ArePlaces
    <3>2. QED
      BY <1>1, <2>1, <3>1 DEF AreSums, AreNumbers
  <2>5. Stands(h, pl, n) = Stands(s, pl, n) + Stands(p, pl, n)
    BY <2>4, StandsSum
  <2>6. QED
    BY <2>3, <2>5 DEF H
<1>11. CASE reached
  <2>1. r = s
    BY <1>3, <1>11
  <2>2. Fits(r, w, n) /\ Stands(r, pl, n) + Stands(p, pl, n) = H
    BY <1>10, <1>11, <2>1
  <2> HIDE DEF s, reached
  <2>3. Stands(r, pl, n) \in Nat
    BY <1>1, <2>2, FitsBelow
  <2> HIDE DEF H, p
  <2>4. Stands(r, pl, n) = v
    BY <1>4, <1>5, <1>6, <1>8, <2>2, <2>3
  <2>5. QED
    BY <1>4, <2>2, <2>4 DEF v, T
<1>12. CASE ~reached
  <2>1. r = h
    BY <1>3, <1>12
  <2> HIDE DEF reached, s, p
  <2>2. ~(H + 19 >= Q)
    BY <1>9, <1>12
  <2>3. H = v
    <3> HIDE DEF H
    <3>1. QED
      BY <1>4, <1>5, <1>8, <2>2
  <2>4. QED
    BY <1>4, <2>1, <2>3 DEF v, T, H
<1>13. QED
  BY <1>11, <1>12

\* Eight words, their places, and the limbs of p in them.
Is32(n, w, pl) == n = 8 /\ w = Widths.fed32 /\ pl = Places(w, n)
LEMMA P32Is ==
  ASSUME NEW n, NEW w, NEW pl, Is32(n, w, pl), NEW p, p = P32(w)
  PROVE  /\ ArePlaces(pl, w, n) /\ pl[n] = 2 * Prime + 38
         /\ AreNumbers(p, n) /\ Stands(p, pl, n) = Prime
<1> DEFINE top == [i \in 0..n-1 |-> Pow2[w[i]] - (IF i = 0 THEN 19 ELSE 1)]
           half == [i \in 0..n-1 |-> IF i = 7 THEN Pow2[w[7] - 1] ELSE 0]
           Q == pl[n]
           d == Prime
<1> HIDE DEF Pow2
<1>1. ArePlaces(pl, w, n) /\ Q = 2 * d + 38 /\ n = 8 /\ d \in Nat \ {0}
  BY FormEnds, PrimeIs DEF Is32
<1>2. \A i \in 0..n-1 : /\ w[i] \in 0..W+13 /\ 5 <= w[i] /\ Pow2[w[i]] \in Nat /\ Pow2[w[i]] >= 32
  <2>1. Covers(w, Used.fed32, n)
    BY Covers32 DEF Is32
  <2>2. ASSUME NEW i \in 0..n-1
        PROVE  w[i] \in 0..W+13 /\ 5 <= w[i] /\ Pow2[w[i]] \in Nat /\ Pow2[w[i]] >= 32
    <3>1. w[i] \in 0..W+13 /\ 5 <= w[i]
      <4>1. w[i] \in 0..W+13
        BY <1>1 DEF ArePlaces, AreWidths
      <4>2. Used.fed32[i] \in Nat /\ 5 <= Used.fed32[i] /\ Used.fed32[i] <= w[i]
        BY <2>1 DEF Covers
      <4>3. QED
        BY <4>1, <4>2, WidthIs
    <3>2. 5 \in 0..w[i] /\ Pow2[5] = 32
      BY <3>1, SmallPowers, WidthIs
    <3>3. QED
      BY <3>1, <3>2, Powers, PowersRise
  <2>3. QED
    BY <2>2
<1>3. Pow2[w[7]] = 2 * Pow2[w[7] - 1] /\ Pow2[w[7] - 1] \in Nat /\ Pow2[w[7] - 1] >= 1
  <2>1. w[7] \in 1..W+13 /\ w[7] - 1 \in 0..W+13
    <3>1. w[7] \in 0..W+13 /\ 5 <= w[7]
      BY <1>1, <1>2
    <3>2. QED
      BY <3>1, WidthIs
  <2>2. QED
    BY <2>1, Powers
<1>4. \A i \in 0..n-1 : /\ top[i] \in Nat /\ half[i] \in Nat /\ p[i] \in Nat /\ top[i] = p[i] + half[i]
                        /\ (i = 0 => top[i] + 19 = Pow2[w[i]]) /\ (i # 0 => top[i] + 1 = Pow2[w[i]])
  <2>1. ASSUME NEW i \in 0..n-1
        PROVE  /\ top[i] \in Nat /\ half[i] \in Nat /\ p[i] \in Nat /\ top[i] = p[i] + half[i]
               /\ (i = 0 => top[i] + 19 = Pow2[w[i]]) /\ (i # 0 => top[i] + 1 = Pow2[w[i]])
    <3>1. /\ top[i] = Pow2[w[i]] - (IF i = 0 THEN 19 ELSE 1)
          /\ half[i] = IF i = 7 THEN Pow2[w[7] - 1] ELSE 0
      OBVIOUS
    <3>2. p[i] = IF i = 7 THEN Pow2[w[7] - 1] - 1 ELSE Pow2[w[i]] - (IF i = 0 THEN 19 ELSE 1)
      BY <1>1 DEF P32
    <3>3. Pow2[w[i]] \in Nat /\ Pow2[w[i]] >= 32
      BY <1>2
    <3> HIDE DEF top, half
    <3>4. CASE i = 7
      BY <1>3, <3>1, <3>2, <3>3, <3>4
    <3>5. CASE i # 7
      BY <3>1, <3>2, <3>3, <3>5
    <3>6. QED
      BY <3>4, <3>5
  <2>2. QED
    BY <2>1
<1>5. top \in [0..n-1 -> Nat]
  BY <1>4
<1>6. half[7] = Pow2[w[7] - 1] /\ \A i \in 0..6 : half[i] = 0
  BY <1>1
<1> HIDE DEF top, half
<1>7. Stands(top, pl, n) \in Nat /\ Stands(top, pl, n) + 19 = Q
  <2> DEFINE m == 1
             c == 19
  <2>1. IsTop(top, w, n, m, c)
    <3>1. top[0] + c = m * Pow2[w[0]] /\ \A i \in 1..n-1 : top[i] + m = m * Pow2[w[i]]
      <4>1. 0 \in 0..n-1 /\ \A i \in 1..n-1 : i \in 0..n-1 /\ i # 0
        BY <1>1
      <4>2. QED
        BY <1>2, <1>4, <4>1
    <3>2. m \in Nat /\ c \in Nat
      OBVIOUS
    <3> HIDE DEF m, c
    <3>3. QED
      BY <1>5, <3>1, <3>2 DEF IsTop
  <2> HIDE DEF m, c
  <2>2. Stands(top, pl, n) \in Nat /\ Stands(top, pl, n) + c = m * pl[n]
    BY <1>1, <2>1, TopStands
  <2>3. QED
    BY <1>1, <2>2 DEF m, c
<1>8. AreNumbers(pl, n) /\ AreNumbers(p, n) /\ AreNumbers(half, n) /\ AreNumbers(top, n)
  <2>1. \A i \in 0..n-1 : i \in 0..n /\ pl[i] \in Nat
    BY <1>1 DEF ArePlaces
  <2>2. QED
    BY <1>4, <2>1 DEF AreNumbers
<1>9. Stands(half, pl, n) = d + 19
  <2> DEFINE k == 7
             z == pl[k]
             v == Pow2[w[7] - 1]
  <2>1. n \in Nat \ {0} /\ k \in 0..n-1 /\ k + 1 = n /\ k \in Nat
    BY <1>1
  <2>2. Stands(half, pl, k) = 0
    <3>1. AreNumbers(pl, k) /\ \A i \in 0..k-1 : half[i] = 0
      BY <1>6, <1>8, <2>1 DEF AreNumbers
    <3> HIDE DEF k
    <3>2. QED
      BY <2>1, <3>1, ZerosStand
  <2>3. Stands(half, pl, n) = Stands(half, pl, k) + half[k] * pl[k]
    <3> HIDE DEF k
    <3>1. Stands(half, pl, k + 1) = Stands(half, pl, k) + half[k] * pl[k]
      BY <1>8, <2>1, StandsStep
    <3>2. QED
      BY <2>1, <3>1
  <2>4. z \in Nat /\ Q = z * (2 * v) /\ v \in Nat /\ half[k] = v
    <3>1. k \in 0..n /\ pl[k] \in Nat /\ pl[k + 1] = pl[k] * Pow2[w[k]]
      BY <1>1, <2>1 DEF ArePlaces
    <3>2. QED
      BY <1>1, <1>3, <1>6, <3>1
  <2> HIDE DEF z, v, Q, d
  <2>5. z * (2 * v) = 2 * (v * z) /\ v * z \in Nat
    BY <2>4
  <2>6. v * z = d + 19
    BY <1>1, <2>4, <2>5
  <2>7. Stands(half, pl, n) = 0 + v * z
    BY <2>2, <2>3, <2>4 DEF z
  <2>8. QED
    BY <1>1, <2>6, <2>7
<1>10. /\ Stands(p, pl, n) \in Nat /\ Stands(half, pl, n) \in Nat
       /\ Stands(top, pl, n) = Stands(p, pl, n) + Stands(half, pl, n)
  <2>1. AreSums(top, p, half, n)
    BY <1>1, <1>4, <1>8 DEF AreSums
  <2>2. QED
    BY <1>8, <2>1, StandsSum
<1>11. Stands(p, pl, n) = d
  <2> HIDE DEF Q, d
  <2>1. QED
    BY <1>1, <1>7, <1>9, <1>10
<1>12. QED
  BY <1>1, <1>8, <1>11

\* One conditional subtraction: p is left out of a number that has it.
LEMMA WithoutPIs ==
  ASSUME NEW n, NEW w, NEW pl, Is32(n, w, pl), NEW t, Fits(t, w, n), NEW r, r = WithoutP(t, w)
  PROVE  /\ Fits(r, w, n) /\ Stands(t, pl, n) \in Nat /\ Stands(r, pl, n) \in Nat
         /\ IF Stands(t, pl, n) < Prime THEN Stands(r, pl, n) = Stands(t, pl, n)
            ELSE Stands(r, pl, n) + Prime = Stands(t, pl, n)
<1> DEFINE p == P32(w)
           x == [i \in 0..n-1 |-> t[i] - p[i]]
           e == Ripple(x, w).limbs
           q == Ripple(x, w).out
           T == Stands(t, pl, n)
           E == Stands(e, pl, n)
           Q == pl[n]
           d == Prime
<1> HIDE DEF Pow2
<1>1. /\ ArePlaces(pl, w, n) /\ Q = 2 * d + 38
      /\ AreNumbers(p, n) /\ Stands(p, pl, n) = d
  BY P32Is
<1>2. r = IF q = 0 THEN e ELSE t
  BY DEF WithoutP, Is32
<1>3. T \in Nat /\ T < Q /\ d \in Nat \ {0} /\ Q \in Nat \ {0}
  <2>1. T \in Nat /\ T < Q /\ Q \in Nat
    BY <1>1, FitsBelow
  <2>2. QED
    BY <2>1, PrimeIs
<1> HIDE DEF p
<1>4. Less(x, t, p, n)
  <2>1. ASSUME NEW i \in 0..n-1 PROVE t[i] \in Nat /\ p[i] \in Nat /\ x[i] = t[i] - p[i] /\ x[i] \in Int
    <3>1. t[i] \in Nat /\ p[i] \in Nat
      BY <1>1 DEF Fits, AreNumbers
    <3>2. QED
      BY <3>1
  <2>2. x \in [0..n-1 -> Int]
    BY <2>1
  <2> HIDE DEF x
  <2>3. QED
    BY <2>1, <2>2 DEF Less, AreNumbers
<1> HIDE DEF x
<1>5. Fits(e, w, n) /\ q \in Int /\ T = d + E + q * Q
  <2>1. /\ Fits(Ripple(x, w).limbs, w, n) /\ Ripple(x, w).out \in Int
        /\ Stands(t, pl, n) = Stands(p, pl, n) + Stands(Ripple(x, w).limbs, pl, n)
                              + Ripple(x, w).out * pl[n]
    BY <1>1, <1>4, RippleStands
  <2>2. QED
    BY <1>1, <2>1
<1> HIDE DEF e, q
<1>6. E \in Nat /\ E < Q
  BY <1>1, <1>5, FitsBelow
<1> HIDE DEF T, E, Q, d
<1>7. q = 0 <=> ~(T < d)
  <2> DEFINE z == T - d
  <2>1. z \in Int /\ z = q * Q + E /\ E \in 0..Q-1
    <3>1. q * Q \in Int
      BY <1>3, <1>5
    <3>2. QED
      BY <1>3, <1>5, <1>6, <3>1
  <2>2. z < 0 <=> T < d
    BY <1>3
  <2>3. z < Q
    BY <1>3
  <2> HIDE DEF z
  <2>4. q = 0 => ~(z < 0)
    <3> SUFFICES ASSUME q = 0 PROVE ~(z < 0)
      OBVIOUS
    <3>1. z = E
      BY <1>3, <1>6, <2>1
    <3>2. QED
      BY <1>6, <3>1
  <2>5. ~(z < 0) => q = 0
    <3> SUFFICES ASSUME ~(z < 0) PROVE q = 0
      OBVIOUS
    <3>1. z = 0 * Q + z /\ z \in 0..Q-1
      BY <1>3, <2>1, <2>3
    <3>2. z \div Q = 0
      BY <1>3, <2>1, <3>1, DivisionIs
    <3>3. z \div Q = q
      BY <1>3, <1>5, <2>1, DivisionIs
    <3>4. QED
      BY <3>2, <3>3
  <2>6. QED
    BY <2>2, <2>4, <2>5
<1>8. CASE T < d
  <2>1. r = t
    BY <1>2, <1>7, <1>8
  <2>2. QED
    BY <1>3, <1>8, <2>1 DEF T, d
<1>9. CASE ~(T < d)
  <2>1. r = e /\ q = 0
    BY <1>2, <1>7, <1>9
  <2>2. q * Q = 0
    BY <1>3, <2>1
  <2>3. T = E + d
    BY <1>3, <1>5, <1>6, <2>2
  <2>4. Fits(r, w, n) /\ Stands(r, pl, n) = E
    BY <1>5, <2>1 DEF E
  <2>5. QED
    BY <1>3, <1>6, <1>9, <2>3, <2>4 DEF T, d
<1>10. QED
  BY <1>8, <1>9

\* Three of them leave v modulo p of any eight words.
LEMMA ThriceWithoutP ==
  ASSUME NEW n, NEW w, NEW pl, Is32(n, w, pl), NEW t, Fits(t, w, n),
         NEW r, r = WithoutP(WithoutP(WithoutP(t, w), w), w)
  PROVE  Fits(r, w, n) /\ Stands(t, pl, n) \in Nat /\ Stands(r, pl, n) = Stands(t, pl, n) % Prime
<1> DEFINE a == WithoutP(t, w)
           b == WithoutP(a, w)
           T == Stands(t, pl, n)
           A == Stands(a, pl, n)
           B == Stands(b, pl, n)
           R == Stands(r, pl, n)
           d == Prime
<1>1. T \in Nat /\ T < 2 * d + 38 /\ d \in Nat \ {0} /\ d >= 1024
  <2>1. ArePlaces(pl, w, n) /\ pl[n] = 2 * Prime + 38
    BY P32Is
  <2>2. T \in Nat /\ T < pl[n]
    BY <2>1, FitsBelow
  <2>3. QED
    BY <2>1, <2>2, PrimeIs, PrimeAboveOne
<1>2. Fits(a, w, n) /\ A \in Nat /\ IF T < d THEN A = T ELSE A + d = T
  BY WithoutPIs
<1> HIDE DEF a
<1>3. Fits(b, w, n) /\ B \in Nat /\ IF A < d THEN B = A ELSE B + d = A
  BY <1>2, WithoutPIs
<1>4. r = WithoutP(b, w)
  BY DEF a
<1> HIDE DEF b
<1>5. Fits(r, w, n) /\ R \in Nat /\ IF B < d THEN R = B ELSE R + d = B
  BY <1>3, <1>4, WithoutPIs
<1> HIDE DEF T, A, B, R, d
<1>6. B < d /\ R = B
  BY <1>1, <1>2, <1>3, <1>5
<1>7. \E m \in 0..2 : T = m * d + R
  <2>1. T = 0 * d + R \/ T = 1 * d + R \/ T = 2 * d + R
    BY <1>1, <1>2, <1>3, <1>5, <1>6
  <2>2. QED
    BY <2>1
<1>8. T % d = R
  <2>1. PICK m \in 0..2 : T = m * d + R
    BY <1>7
  <2>2. R \in 0..d-1 /\ m \in Int /\ T \in Int
    BY <1>1, <1>3, <1>6
  <2>3. QED
    BY <1>1, <2>1, <2>2, DivisionIs
<1>9. QED
  BY <1>1, <1>5, <1>8 DEF T, R, d

\* What a chain of calls may leave in the limbs.
IsLeft(f, t) ==
  IF f = "fed32" THEN Fits(t, Widths[f], Count[f]) ELSE AreWithin(t, Widths[f], Count[f], 12)

\* At the width of the code the limbs of fe51 and fe4 are held.
LEMMA AreHeld ==
  ASSUME NEW f \in Forms, f # "fed32", W >= 29, NEW t, IsLeft(f, t)
  PROVE  /\ IsHeld(t, Widths[f], Places(Widths[f], Count[f]), Count[f])
         /\ Places(Widths[f], Count[f])[Count[f]] = Prime + 19
<1> HIDE DEF Pow2
<1>1. f = "fe51" \/ f = "fe4"
  BY DEF Forms
<1>2. Pow2[W] >= 16384 /\ Pow2[W \div 2] >= 16384 /\ Pow2[W \div 2 + 1] = 2 * Pow2[W \div 2]
      /\ Pow2[W \div 2] \in Nat
  BY WideEnough
<1>3. AreWithin(t, Widths[f], Count[f], 12)
  BY DEF IsLeft
<1>4. CASE f = "fe51"
  <2>1. Widths[f][0] = W
    BY <1>4 DEF Widths
  <2>2. IsWide(Widths[f], Count[f]) /\ ArePlaces(Places(Widths[f], Count[f]), Widths[f], Count[f])
        /\ Places(Widths[f], Count[f])[Count[f]] = Prime + 19
    BY <1>4, AreWide, FormEnds
  <2>3. QED
    BY <1>2, <1>3, <2>1, <2>2 DEF IsHeld
<1>5. CASE f = "fe4"
  <2>1. Pow2[Widths[f][0]] = 2 * Pow2[W \div 2]
    <3> DEFINE w == Widths.fe4
               l == W \div 2
    <3>1. 0 \in 0..9 /\ 0 % 2 = 0 /\ w = Widths.fe4 /\ l = W \div 2
      OBVIOUS
    <3> HIDE DEF w, l
    <3>2. Pow2[w[0]] = 2 * Pow2[l]
      BY <3>1, Widths4
    <3>3. QED
      BY <1>5, <3>1, <3>2
  <2>2. IsWide(Widths[f], Count[f]) /\ ArePlaces(Places(Widths[f], Count[f]), Widths[f], Count[f])
        /\ Places(Widths[f], Count[f])[Count[f]] = Prime + 19
    BY <1>5, AreWide, FormEnds
  <2>3. QED
    BY <1>2, <1>3, <2>1, <2>2 DEF IsHeld
<1>6. QED
  BY <1>1, <1>4, <1>5

\* fe_to_bytes, fe4_unpack and fed_to_bytes write the bits of the number modulo p.
LEMMA EncodedIs ==
  ASSUME NEW f \in Forms, W >= 29, NEW t, IsLeft(f, t)
  PROVE  /\ ValueOf(f, t) \in Nat
         /\ HasBits(ValueOf(f, t) % Prime, fe_to_bytes(f, t))
         /\ fe_to_bytes(f, t) \in SUBSET (0..5*W-1)
<1> DEFINE w == Widths[f]
           n == Count[f]
           pl == Places(w, n)
           r == CASE f = "fe51"  -> Canonical(t, w)
                  [] f = "fe4"   -> Contracted(t, w)
                  [] f = "fed32" -> WithoutP(WithoutP(WithoutP(t, w), w), w)
           v == Stands(r, pl, n)
<1>1. fe_to_bytes(f, t) = BitsOf(r, w)
  BY DEF fe_to_bytes
<1>2. Fits(r, w, n) /\ Stands(t, pl, n) \in Nat /\ v = Stands(t, pl, n) % Prime
  <2>1. CASE f = "fe51"
    <3>1. IsHeld(t, w, pl, n) /\ pl[n] = Prime + 19
      BY <2>1, AreHeld
    <3>2. r = Canonical(t, w)
      BY <2>1
    <3> HIDE DEF w, n, pl, r
    <3>3. QED
      BY <3>1, <3>2, CanonicalIs
  <2>2. CASE f = "fe4"
    <3>1. IsHeld(t, w, pl, n) /\ pl[n] = Prime + 19
      BY <2>2, AreHeld
    <3>2. r = Contracted(t, w)
      BY <2>2
    <3> HIDE DEF w, n, pl, r
    <3>3. QED
      BY <3>1, <3>2, ContractedIs
  <2>3. CASE f = "fed32"
    <3>1. Is32(n, w, pl) /\ Fits(t, w, n)
      BY <2>3, FormEnds DEF Is32, IsLeft
    <3>2. r = WithoutP(WithoutP(WithoutP(t, w), w), w)
      BY <2>3
    <3> HIDE DEF w, n, pl, r
    <3>3. QED
      BY <3>1, <3>2, ThriceWithoutP
  <2>4. QED
    BY <2>1, <2>2, <2>3 DEF Forms
<1>3. Covers(w, Used[f], n)
  BY FormCovers
<1> HIDE DEF r
<1>4. v \in Nat /\ v < Two[5 * W]
  <2> DEFINE T == Stands(t, pl, n)
             d == Prime
  <2>1. T \in Nat /\ v = T % d /\ d \in Nat \ {0} /\ Two[5 * W] = d + 19
    BY <1>2, PrimeIs
  <2> HIDE DEF T, d, v, Two
  <2>2. T % d \in 0..d-1
    BY <2>1, Divided
  <2>3. QED
    BY <2>1, <2>2
<1>5. HasBits(v, BitsOf(r, w)) /\ BitsOf(r, w) \in SUBSET (0..5*W-1)
  <2> DEFINE u == Used[f]
  <2>1. Covers(w, u, n) /\ Fits(r, w, n) /\ v = Stands(r, Places(w, n), n)
    BY <1>2, <1>3
  <2> HIDE DEF u, w, n, v
  <2>2. QED
    BY <1>4, <2>1, StoredBits
<1>6. QED
  BY <1>1, <1>2, <1>5 DEF ValueOf
-----------------------------------------------------------------------------
(* A chain of calls *)

\* The residue of a product is that of the product of the residues.
LEMMA ResidueOfProduct ==
  ASSUME NEW d \in Nat \ {0}, NEW x \in Nat, NEW z \in Nat
  PROVE  ((x % d) * (z % d)) % d = (x * z) % d
<1> DEFINE q == x \div d
           r == x % d
           h == z \div d
           s == z % d
<1>1. q \in Nat /\ r \in Nat /\ x = q * d + r /\ h \in Nat /\ s \in Nat /\ z = h * d + s
  BY Divided
<1> HIDE DEF q, r, h, s
<1> DEFINE m == q * z + r * h
           v == r * s
<1>2. m \in Nat /\ v \in Nat
  <2>1. q * z \in Nat /\ r * h \in Nat /\ r * s \in Nat
    BY <1>1
  <2>2. QED
    BY <2>1
<1>3. x * z = v + m * d
  <2>1. x * z = (q * z) * d + r * z
    <3> HIDE DEF m, v
    <3>1. x * z = (q * d + r) * z
      BY <1>1
    <3>2. (q * d + r) * z = (q * z) * d + r * z
      BY <1>1
    <3>3. QED
      BY <3>1, <3>2
  <2>2. r * z = (r * h) * d + r * s
    <3>1. r * z = r * (h * d + s)
      BY <1>1
    <3>2. r * (h * d + s) = (r * h) * d + r * s
      BY <1>1
    <3>3. QED
      BY <3>1, <3>2
  <2> DEFINE a == q * z
             b == r * h
  <2>3. a \in Nat /\ b \in Nat /\ x * z = a * d + (b * d + v) /\ m = a + b
    <3>1. a \in Nat /\ b \in Nat
      BY <1>1
    <3>2. QED
      BY <2>1, <2>2, <3>1
  <2> HIDE DEF a, b, v, m
  <2>4. (a + b) * d = a * d + b * d /\ a * d \in Nat /\ b * d \in Nat
    BY <2>3
  <2>5. QED
    BY <1>2, <2>3, <2>4
<1> HIDE DEF m, v
<1>4. (v + m * d) % d = v % d
  BY <1>2, SameResidue
<1>5. QED
  BY <1>3, <1>4 DEF v, r, s

\* A number may be taken off both sides.
LEMMA SameSummand ==
  ASSUME NEW d \in Nat \ {0}, NEW x \in 0..d-1, NEW v \in 0..d-1, NEW z \in Nat, (x + z) % d = (v + z) % d
  PROVE  x = v
<1> DEFINE a == x + z
           b == v + z
           q == a \div d
           r == a % d
           h == b \div d
<1>1. a \in Nat /\ b \in Nat
  OBVIOUS
<1>2. q \in Nat /\ r \in 0..d-1 /\ a = q * d + r /\ h \in Nat /\ b = h * d + r
  <2>1. r = b % d
    OBVIOUS
  <2> HIDE DEF a, b
  <2>2. q \in Nat /\ r \in 0..d-1 /\ a = q * d + r
    BY <1>1, Divided
  <2>3. h \in Nat /\ b = h * d + (b % d)
    BY <1>1, Divided
  <2>4. QED
    BY <2>1, <2>2, <2>3
<1> HIDE DEF q, r, h
<1> DEFINE k == q - h
<1>3. x = k * d + v /\ k \in Int
  <2>1. x + z = q * d + r /\ v + z = h * d + r
    BY <1>2
  <2>2. (q - h) * d = q * d - h * d /\ q * d \in Nat /\ h * d \in Nat
    BY <1>2
  <2>3. QED
    BY <1>2, <2>1, <2>2
<1> HIDE DEF k
<1>4. x % d = v
  BY <1>3, DivisionIs
<1>5. x = 0 * d + x
  OBVIOUS
<1>6. x % d = x
  BY <1>5, DivisionIs
<1>7. QED
  BY <1>4, <1>6

\* The limbs stand for the residue.
IsHolding(f, t, v) ==
  /\ f \in Forms /\ IsLeft(f, t) /\ IsResidue(v)
  /\ ValueOf(f, t) \in Nat /\ ValueOf(f, t) % Prime = ValOf(v)

\* Then what is written of them is the residue, bit for bit.
LEMMA HoldingIsExact ==
  ASSUME W >= 29, NEW f, NEW t, NEW v, IsHolding(f, t, v)
  PROVE  fe_to_bytes(f, t) = SetBits(v)
<1> DEFINE A == fe_to_bytes(f, t)
           B == SetBits(v)
           z == ValOf(v)
<1>1. f \in Forms /\ IsLeft(f, t) /\ IsResidue(v) /\ ValueOf(f, t) % Prime = z
  BY DEF IsHolding
<1>2. HasBits(ValueOf(f, t) % Prime, A) /\ A \in SUBSET (0..5*W-1)
  BY <1>1, EncodedIs
<1>3. HasBits(z, A)
  BY <1>1, <1>2
<1>4. HasBits(z, B)
  BY <1>1, SetBitsAre
<1>5. B \in SUBSET (0..5*W-1)
  BY DEF SetBits
<1> HIDE DEF A, B, z
<1>6. \A m \in 0..5*W-1 : m \in A <=> m \in B
  BY <1>3, <1>4 DEF HasBits
<1>7. A = B
  BY <1>2, <1>5, <1>6
<1>8. QED
  BY <1>7 DEF A, B

\* Limbs that fit are left so, and may be operands.
LEMMA FitsIs ==
  ASSUME NEW f \in Forms, NEW t, Fits(t, Widths[f], Count[f])
  PROVE  /\ IsLeft(f, t) /\ IsOperand(f, t)
         /\ AreWithin(t, Widths[f], Count[f], 2)
<1> DEFINE w == Widths[f]
           n == Count[f]
<1> HIDE DEF Pow2
<1>1. AreWidths(w, n)
  BY FormCovers DEF Covers
<1> HIDE DEF w, n
<1>2. t \in [0..n-1 -> Nat] /\ \A i \in 0..n-1 : t[i] < Pow2[w[i]]
  BY DEF Fits, w, n
<1>3. ASSUME NEW i \in 0..n-1
      PROVE  2 * t[i] <= 2 * Pow2[w[i]] /\ 2 * t[i] <= 12 * Pow2[w[i]] /\ t[i] <= 5 * Pow2[w[i]]
  <2>1. Pow2[w[i]] \in Nat
    BY <1>1, Powers DEF AreWidths
  <2>2. t[i] \in Nat /\ t[i] < Pow2[w[i]]
    BY <1>2
  <2>3. QED
    BY <2>1, <2>2
<1>4. AreWithin(t, w, n, 12) /\ AreWithin(t, w, n, 2) /\ AreLoose(t, w, n)
  BY <1>2, <1>3 DEF AreWithin, AreLoose
<1>5. QED
  BY <1>4 DEF IsLeft, IsOperand, w, n

\* What a product, a square or a difference returns is left so.
LEMMA ResultIs ==
  ASSUME NEW f \in Forms, W >= 29, NEW t, IsResult(f, t)
  PROVE  IsLeft(f, t)
<1> DEFINE w == Widths[f]
           n == Count[f]
<1> HIDE DEF Pow2
<1>1. AreWidths(w, n)
  BY FormCovers DEF Covers
<1>2. CASE f = "fed32"
  BY <1>2 DEF IsLeft, IsResult
<1>3. CASE f # "fed32"
  <2>1. AreTight(t, w, n)
    BY <1>3 DEF IsResult, AreSettled
  <2> HIDE DEF w, n
  <2>2. t \in [0..n-1 -> Nat] /\ \A i \in 0..n-1 : 2 * t[i] <= 3 * Pow2[w[i]]
    BY <2>1 DEF AreTight
  <2>3. ASSUME NEW i \in 0..n-1 PROVE 2 * t[i] <= 12 * Pow2[w[i]]
    <3>1. Pow2[w[i]] \in Nat
      BY <1>1, Powers DEF AreWidths
    <3>2. t[i] \in Nat /\ 2 * t[i] <= 3 * Pow2[w[i]]
      BY <2>2
    <3>3. QED
      BY <3>1, <3>2
  <2>4. AreWithin(t, w, n, 12)
    BY <2>2, <2>3 DEF AreWithin
  <2>5. QED
    BY <1>3, <2>4 DEF IsLeft, w, n
<1>4. QED
  BY <1>2, <1>3

\* What a call is made with: the spare widths leave room for one more operand.
LEMMA SmallIs ==
  ASSUME NEW t, IsLeft(form, t), form \in Forms, Small(t)
  PROVE  /\ IsOperand(form, t) /\ 2 * Spare \in Nat /\ 2 * Spare + 2 <= 12
         /\ form # "fed32" => AreWithin(t, Widths[form], Count[form], 2 * Spare)
<1> DEFINE w == Widths[form]
           n == Count[form]
<1> HIDE DEF Pow2
<1>1. AreWidths(w, n) /\ Spare \in 1..5
  BY FormCovers, CallAssumption DEF Covers
<1>2. 2 * Spare \in Nat /\ 2 * Spare + 2 <= 12
  BY <1>1
<1>3. CASE form = "fed32"
  BY <1>2, <1>3 DEF IsLeft, IsOperand
<1>4. CASE form # "fed32"
  <2>1. t \in [0..n-1 -> Nat]
    BY <1>4 DEF IsLeft, AreWithin
  <2>2. \A i \in 0..n-1 : t[i] < Spare * Pow2[w[i]]
    BY <2>1 DEF Small
  <2> HIDE DEF w, n
  <2>3. ASSUME NEW i \in 0..n-1
        PROVE  2 * t[i] <= (2 * Spare) * Pow2[w[i]] /\ t[i] <= 5 * Pow2[w[i]]
    <3> DEFINE d == Pow2[w[i]]
               x == t[i]
               m == Spare * d
    <3>1. d \in Nat /\ x \in Nat /\ x < m
      <4>1. d \in Nat
        BY <1>1, Powers DEF AreWidths
      <4>2. QED
        BY <2>1, <2>2, <4>1
    <3> HIDE DEF d, x
    <3>2. m \in Nat /\ m <= 5 * d /\ (2 * Spare) * d = 2 * m
      BY <1>1, <3>1
    <3> HIDE DEF m
    <3>3. 2 * x <= (2 * Spare) * d /\ x <= 5 * d
      BY <3>1, <3>2
    <3>4. QED
      BY <3>3 DEF d, x
  <2>4. AreWithin(t, w, n, 2 * Spare) /\ AreLoose(t, w, n)
    BY <2>1, <2>3 DEF AreWithin, AreLoose
  <2>5. QED
    BY <1>2, <1>4, <2>4 DEF IsOperand, w, n
<1>5. QED
  BY <1>3, <1>4

\* What is left stands for a number.
LEMMA LeftStands ==
  ASSUME NEW f \in Forms, NEW t, IsLeft(f, t)
  PROVE  ValueOf(f, t) \in Nat
<1> DEFINE w == Widths[f]
           n == Count[f]
           pl == Places(w, n)
<1>1. ArePlaces(pl, w, n)
  BY FormEnds DEF Forms
<1>2. IsLimbs(t, n)
  BY DEF IsLeft, Fits, AreWithin, IsLimbs
<1> HIDE DEF w, n, pl
<1>3. Stands(t, pl, n) \in Nat
  BY <1>1, <1>2, RippleSum
<1>4. QED
  BY <1>3 DEF ValueOf, w, n, pl

\* An operand that is loaded.
LEMMA OperandIs ==
  ASSUME NEW f \in Forms, NEW x \in Loads, NEW b, b = fe_from_bytes(f, x)
  PROVE  /\ IsHolding(f, b, ResidueOf(x)) /\ IsOperand(f, b)
         /\ AreWithin(b, Widths[f], Count[f], 2)
<1> DEFINE v == ValueOf(f, b)
           R == ResidueOf(x)
           d == Prime
<1>1. x \in SUBSET (0..5*W)
  BY CallAssumption
<1>2. Fits(b, Widths[f], Count[f]) /\ v \in Nat /\ IsResidue(R) /\ ValOf(R) = v % d
  BY <1>1, LoadedIs
<1>3. IsLeft(f, b) /\ IsOperand(f, b) /\ AreWithin(b, Widths[f], Count[f], 2)
  BY <1>2, FitsIs
<1>4. QED
  BY <1>2, <1>3 DEF IsHolding

\* A sum, a product and a difference of numbers have those of their residues.
LEMMA HoldsSum ==
  ASSUME NEW f, NEW a, NEW b, NEW r, NEW u, NEW v, IsHolding(f, a, u), IsHolding(f, b, v), IsLeft(f, r),
         ValueOf(f, r) % Prime = (ValueOf(f, a) + ValueOf(f, b)) % Prime
  PROVE  IsHolding(f, r, AddMod(u, v))
<1> DEFINE A == ValueOf(f, a)
           B == ValueOf(f, b)
           R == ValueOf(f, r)
           d == Prime
           s == ValOf(AddMod(u, v))
<1>1. /\ f \in Forms /\ A \in Nat /\ B \in Nat /\ R \in Nat /\ d \in Nat \ {0}
      /\ IsResidue(u) /\ IsResidue(v) /\ A % d = ValOf(u) /\ B % d = ValOf(v) /\ R % d = (A + B) % d
  BY LeftStands, PrimeIs DEF IsHolding
<1>2. IsResidue(AddMod(u, v)) /\ s = (ValOf(u) + ValOf(v)) % d
  BY <1>1, AddModIs
<1>3. s = ((A % d) + (B % d)) % d
  BY <1>1, <1>2
<1> HIDE DEF A, B, R, d, s
<1> DEFINE p == A % d
           q == B % d
<1>4. p \in Nat /\ q \in Nat /\ (p + B) % d = (A + B) % d
  <2>1. ((A % d) + B) % d = (A + B) % d /\ A % d \in Nat
    BY <1>1, ResidueOfSum
  <2>2. B % d \in Nat
    BY <1>1, ResidueOfSum
  <2>3. QED
    BY <2>1, <2>2
<1>5. (q + p) % d = (B + p) % d
  <2> HIDE DEF p
  <2>1. ((B % d) + p) % d = (B + p) % d
    BY <1>1, <1>4, ResidueOfSum
  <2>2. QED
    BY <2>1
<1>6. s = (p + q) % d
  BY <1>3
<1> HIDE DEF p, q
<1>7. p + q = q + p /\ B + p = p + B
  BY <1>1, <1>4
<1>8. s = R % d
  BY <1>1, <1>4, <1>5, <1>6, <1>7
<1>9. R % d = s /\ R \in Nat
  BY <1>1, <1>8
<1>10. QED
  BY <1>1, <1>2, <1>9 DEF IsHolding, R, d, s

LEMMA HoldsProduct ==
  ASSUME NEW f, NEW a, NEW b, NEW r, NEW u, NEW v, IsHolding(f, a, u), IsHolding(f, b, v), IsLeft(f, r),
         ValueOf(f, r) % Prime = (ValueOf(f, a) * ValueOf(f, b)) % Prime
  PROVE  IsHolding(f, r, MulMod(u, v))
<1> DEFINE A == ValueOf(f, a)
           B == ValueOf(f, b)
           R == ValueOf(f, r)
           d == Prime
           s == ValOf(MulMod(u, v))
<1>1. /\ f \in Forms /\ A \in Nat /\ B \in Nat /\ R \in Nat /\ d \in Nat \ {0}
      /\ IsResidue(u) /\ IsResidue(v) /\ A % d = ValOf(u) /\ B % d = ValOf(v) /\ R % d = (A * B) % d
  BY LeftStands, PrimeIs DEF IsHolding
<1>2. HasBits(ValOf(v), SetBits(v))
  BY <1>1, SetBitsAre
<1>3. IsResidue(MulMod(u, v)) /\ s = (ValOf(u) * ValOf(v)) % d
  BY <1>1, <1>2, TimesIs DEF MulMod
<1>4. s = ((A % d) * (B % d)) % d
  BY <1>1, <1>3
<1> HIDE DEF A, B, R, d, s
<1>5. ((A % d) * (B % d)) % d = (A * B) % d
  BY <1>1, ResidueOfProduct
<1>6. R % d = s
  BY <1>1, <1>4, <1>5
<1>7. QED
  BY <1>1, <1>3, <1>6 DEF IsHolding, R, d, s

LEMMA HoldsDifference ==
  ASSUME NEW f, NEW a, NEW b, NEW r, NEW u, NEW v, IsHolding(f, a, u), IsHolding(f, b, v), IsLeft(f, r),
         (ValueOf(f, r) + ValueOf(f, b)) % Prime = ValueOf(f, a) % Prime
  PROVE  IsHolding(f, r, SubMod(u, v))
<1> DEFINE A == ValueOf(f, a)
           B == ValueOf(f, b)
           R == ValueOf(f, r)
           d == Prime
           s == ValOf(SubMod(u, v))
           z == ValOf(v)
           y == R % d
<1>1. /\ f \in Forms /\ A \in Nat /\ B \in Nat /\ R \in Nat /\ d \in Nat \ {0}
      /\ IsResidue(u) /\ IsResidue(v) /\ A % d = ValOf(u) /\ B % d = z /\ (R + B) % d = A % d
  BY LeftStands, PrimeIs DEF IsHolding
<1>2. IsResidue(SubMod(u, v)) /\ (s + z) % d = ValOf(u) % d
  BY <1>1, SubModIs
<1>3. s \in 0..d-1 /\ z \in Nat
  <2>1. s \in Nat /\ z \in Nat /\ s < d
    BY <1>1, <1>2, HalvesIs DEF IsResidue
  <2> HIDE DEF s, z, d
  <2>2. QED
    BY <1>1, <2>1
<1> HIDE DEF A, B, R, d, s, z
<1>4. y \in 0..d-1
  BY <1>1, Divided
<1>5. (y + z) % d = (R + B) % d
  <2>1. ((R % d) + z) % d = (R + z) % d
    BY <1>1, <1>3, ResidueOfSum
  <2>2. ((B % d) + R) % d = (B + R) % d
    BY <1>1, ResidueOfSum
  <2>3. R + z = z + R /\ B + R = R + B
    BY <1>1, <1>3
  <2>4. QED
    BY <1>1, <2>1, <2>2, <2>3
<1>6. (s + z) % d = A % d
  <2>1. ((A % d) + 0) % d = (A + 0) % d /\ A % d \in Nat
    BY <1>1, ResidueOfSum
  <2>2. (A % d) + 0 = A % d /\ A + 0 = A
    BY <1>1, <2>1
  <2>3. QED
    BY <1>1, <1>2, <2>1, <2>2
<1>7. (y + z) % d = (s + z) % d
  BY <1>1, <1>5, <1>6
<1> HIDE DEF y
<1>8. y = s
  BY <1>1, <1>3, <1>4, <1>7, SameSummand
<1>9. QED
  BY <1>1, <1>2, <1>8 DEF IsHolding, R, d, s, y

\* What the calls keep: the limbs stand for the residue.
Holds == IsHolding(form, acc, value)

LEMMA AddHolds ==
  ASSUME W >= 29, ~Unsettled, Holds, NEW x \in Loads, CallAdd(x)
  PROVE  Holds'
<1> DEFINE b == fe_from_bytes(form, x)
           r == AddIn(form, acc, b)
<1>1. /\ form' = form /\ acc' = r /\ value' = AddMod(value, ResidueOf(x))
      /\ Small(acc) /\ form \in Forms /\ IsLeft(form, acc)
  BY DEF CallAdd, Called, Holds, IsHolding
<1>2. IsHolding(form, b, ResidueOf(x)) /\ IsOperand(form, b) /\ AreWithin(b, Widths[form], Count[form], 2)
  BY <1>1, OperandIs
<1>3. IsOperand(form, acc) /\ 2 * Spare \in Nat /\ 2 * Spare + 2 <= 12
      /\ (form # "fed32" => AreWithin(acc, Widths[form], Count[form], 2 * Spare))
  BY <1>1, SmallIs
<1>4. form = "fed32" => AddFold(acc, b).out = 0
  BY DEF CallAdd, AddSettles
<1> HIDE DEF b
<1>5. /\ form = "fe51" => \A m \in Nat, k \in Nat :
           AreWithin(acc, Widths[form], 5, m) /\ AreWithin(b, Widths[form], 5, k)
             => AreWithin(AddIn(form, acc, b), Widths[form], 5, m + k)
      /\ form # "fe51" => IsResult(form, r)
      /\ ValueOf(form, r) % Prime = (ValueOf(form, acc) + ValueOf(form, b)) % Prime
  BY <1>1, <1>2, <1>3, <1>4, SumIsExact
<1>6. IsLeft(form, r)
  <2>1. CASE form = "fe51"
    <3> DEFINE m == 2 * Spare
               k == 2
               w == Widths[form]
    <3>1. Count[form] = 5 /\ form # "fed32"
      BY <2>1, FormEnds
    <3>2. AreWithin(acc, w, 5, m) /\ AreWithin(b, w, 5, k) /\ m \in Nat /\ k \in Nat /\ m + k <= 12
      BY <1>2, <1>3, <3>1
    <3> HIDE DEF m, k, r
    <3>3. AreWithin(r, w, 5, m + k)
      BY <1>5, <2>1, <3>2 DEF r
    <3>4. AreWidths(w, 5)
      BY <1>1, <3>1, FormCovers DEF Covers
    <3> HIDE DEF w
    <3>5. ASSUME NEW i \in 0..5-1 PROVE 2 * r[i] <= 12 * Pow2[w[i]]
      <4> DEFINE d == Pow2[w[i]]
                 z == r[i]
      <4>1. d \in Nat /\ z \in Nat /\ 2 * z <= (m + k) * d
        <5> HIDE DEF Pow2
        <5>1. Pow2[w[i]] \in Nat
          BY <3>4, Powers DEF AreWidths
        <5>2. QED
          BY <3>3, <5>1 DEF AreWithin
      <4> HIDE DEF d, z
      <4>2. (m + k) * d <= 12 * d /\ (m + k) * d \in Nat
        BY <3>2, <4>1
      <4>3. 2 * z <= 12 * d
        BY <4>1, <4>2
      <4>4. QED
        BY <4>3 DEF d, z
    <3>6. AreWithin(r, w, 5, 12)
      BY <3>3, <3>5 DEF AreWithin
    <3>7. QED
      BY <3>1, <3>6 DEF IsLeft, w
  <2>2. CASE form # "fe51"
    <3> HIDE DEF r
    <3>1. IsResult(form, r)
      BY <1>5, <2>2
    <3>2. QED
      BY <1>1, <3>1, ResultIs
  <2>3. QED
    BY <2>1, <2>2
<1> HIDE DEF r
<1>7. IsHolding(form, r, AddMod(value, ResidueOf(x)))
  BY <1>2, <1>5, <1>6, HoldsSum DEF Holds
<1>8. QED
  BY <1>1, <1>7 DEF Holds

LEMMA SubHolds ==
  ASSUME W >= 29, ~Unsettled, Holds, NEW x \in Loads, CallSub(x)
  PROVE  Holds'
<1> DEFINE b == fe_from_bytes(form, x)
           r == SubIn(form, acc, b)
<1>1. /\ form' = form /\ acc' = r /\ value' = SubMod(value, ResidueOf(x))
      /\ Small(acc) /\ form \in Forms /\ IsLeft(form, acc)
  BY DEF CallSub, Called, Holds, IsHolding
<1>2. IsHolding(form, b, ResidueOf(x)) /\ IsOperand(form, b)
  BY <1>1, OperandIs
<1>3. IsOperand(form, acc)
  BY <1>1, SmallIs
<1>4. form = "fed32" => Biased(acc, b).out >= 0
  BY DEF CallSub, SubSettles
<1> HIDE DEF b
<1>5. /\ IsResult(form, r)
      /\ (ValueOf(form, r) + ValueOf(form, b)) % Prime = ValueOf(form, acc) % Prime
  BY <1>1, <1>2, <1>3, <1>4, DifferenceIsExact
<1> HIDE DEF r
<1>6. IsLeft(form, r)
  BY <1>1, <1>5, ResultIs
<1>7. IsHolding(form, r, SubMod(value, ResidueOf(x)))
  BY <1>2, <1>5, <1>6, HoldsDifference DEF Holds
<1>8. QED
  BY <1>1, <1>7 DEF Holds

LEMMA SubFromHolds ==
  ASSUME W >= 29, ~Unsettled, Holds, NEW x \in Loads, CallSubFrom(x)
  PROVE  Holds'
<1> DEFINE a == fe_from_bytes(form, x)
           r == SubIn(form, a, acc)
<1>1. /\ form' = form /\ acc' = r /\ value' = SubMod(ResidueOf(x), value)
      /\ Small(acc) /\ form \in Forms /\ IsLeft(form, acc)
  BY DEF CallSubFrom, Called, Holds, IsHolding
<1>2. IsHolding(form, a, ResidueOf(x)) /\ IsOperand(form, a)
  BY <1>1, OperandIs
<1>3. IsOperand(form, acc)
  BY <1>1, SmallIs
<1>4. form = "fed32" => Biased(a, acc).out >= 0
  BY DEF CallSubFrom, SubSettles
<1> HIDE DEF a
<1>5. /\ IsResult(form, r)
      /\ (ValueOf(form, r) + ValueOf(form, acc)) % Prime = ValueOf(form, a) % Prime
  BY <1>1, <1>2, <1>3, <1>4, DifferenceIsExact
<1> HIDE DEF r
<1>6. IsLeft(form, r)
  BY <1>1, <1>5, ResultIs
<1>7. IsHolding(form, r, SubMod(ResidueOf(x), value))
  BY <1>2, <1>5, <1>6, HoldsDifference DEF Holds
<1>8. QED
  BY <1>1, <1>7 DEF Holds

LEMMA MulHolds ==
  ASSUME W >= 29, ~Unsettled, Holds, NEW x \in Loads, CallMul(x)
  PROVE  Holds'
<1> DEFINE b == fe_from_bytes(form, x)
           r == MulIn(form, acc, b)
<1>1. /\ form' = form /\ acc' = r /\ value' = MulMod(value, ResidueOf(x))
      /\ Small(acc) /\ form \in Forms /\ IsLeft(form, acc)
  BY DEF CallMul, Called, Holds, IsHolding
<1>2. IsHolding(form, b, ResidueOf(x)) /\ IsOperand(form, b)
  BY <1>1, OperandIs
<1>3. IsOperand(form, acc)
  BY <1>1, SmallIs
<1>4. form = "fed32" => SecondFold(Schoolbook(acc, b)).out = 0
  BY DEF CallMul, MulSettles
<1> HIDE DEF b
<1>5. /\ IsResult(form, r)
      /\ ValueOf(form, r) % Prime = (ValueOf(form, acc) * ValueOf(form, b)) % Prime
  BY <1>1, <1>2, <1>3, <1>4, ProductIsExact
<1> HIDE DEF r
<1>6. IsLeft(form, r)
  BY <1>1, <1>5, ResultIs
<1>7. IsHolding(form, r, MulMod(value, ResidueOf(x)))
  BY <1>2, <1>5, <1>6, HoldsProduct DEF Holds
<1>8. QED
  BY <1>1, <1>7 DEF Holds

LEMMA SqHolds ==
  ASSUME W >= 29, ~Unsettled, Holds, CallSq
  PROVE  Holds'
<1> DEFINE r == SqIn(form, acc)
<1>1. /\ form' = form /\ acc' = r /\ value' = MulMod(value, value)
      /\ Small(acc) /\ form \in Forms /\ IsLeft(form, acc)
  BY DEF CallSq, Called, Holds, IsHolding
<1>2. IsOperand(form, acc)
  BY <1>1, SmallIs
<1>3. form = "fed32" => SecondFold(Schoolbook(acc, acc)).out = 0
  BY DEF CallSq, MulSettles
<1>4. /\ IsResult(form, r)
      /\ ValueOf(form, r) % Prime = (ValueOf(form, acc) * ValueOf(form, acc)) % Prime
  BY <1>1, <1>2, <1>3, SquareIsExact
<1> HIDE DEF r
<1>5. IsLeft(form, r)
  BY <1>1, <1>4, ResultIs
<1>6. IsHolding(form, r, MulMod(value, value))
  BY <1>4, <1>5, HoldsProduct DEF Holds
<1>7. QED
  BY <1>1, <1>6 DEF Holds

LEMMA ConvertHolds ==
  ASSUME W >= 29, Holds, NEW to \in Forms, Convert(to)
  PROVE  Holds'
<1> DEFINE Y == fe_to_bytes(form, acc)
           r == fe_from_bytes(to, Y)
           v == ValueOf(form, acc)
           d == Prime
<1>1. /\ form' = to /\ acc' = r /\ value' = value
      /\ form \in Forms /\ IsLeft(form, acc) /\ IsResidue(value) /\ v \in Nat /\ v % d = ValOf(value)
  BY DEF Convert, Converted, Holds, IsHolding
<1>2. HasBits(v % d, Y) /\ Y \in SUBSET (0..5*W)
  <2>1. HasBits(v % d, Y) /\ Y \in SUBSET (0..5*W-1)
    BY <1>1, EncodedIs
  <2>2. \A m \in 0..5*W-1 : m \in 0..5*W
    BY WidthIs
  <2>3. QED
    BY <2>1, <2>2
<1> HIDE DEF Y
<1>3. Fits(r, Widths[to], Count[to]) /\ ValueOf(to, r) \in Nat /\ ValOf(ResidueOf(Y)) = ValueOf(to, r) % d
  BY <1>2, LoadedIs
<1>4. IsLeft(to, r)
  <2> HIDE DEF r
  <2>1. QED
    BY <1>3, FitsIs
<1> HIDE DEF v, r
<1>5. ValOf(ResidueOf(Y)) = (v % d) % d
  BY <1>2, ResidueOfBits
<1>6. (v % d) % d = v % d
  <2>1. d \in Nat \ {0}
    BY PrimeIs
  <2> HIDE DEF d
  <2>2. v % d \in Nat /\ ((v % d) + 0) % d = (v + 0) % d
    BY <1>1, <2>1, ResidueOfSum
  <2>3. (v % d) + 0 = v % d /\ v + 0 = v
    BY <1>1, <2>2
  <2>4. QED
    BY <2>2, <2>3
<1>7. IsHolding(to, r, value)
  BY <1>1, <1>3, <1>4, <1>5, <1>6 DEF IsHolding
<1>8. QED
  BY <1>1, <1>7 DEF Holds

\* Whatever chain of calls the limbs come from, what is written of them is the residue
\* that the field has there, bit for bit and in each of the three forms; fed32 as far as
\* it completes every fold and has nothing to borrow.
THEOREM ResultAlwaysExact == W >= 29 /\ ~Unsettled => (FieldSpec => []ResultIsExact)
<1> SUFFICES ASSUME W >= 29, ~Unsettled PROVE FieldSpec => []ResultIsExact
  OBVIOUS
<1>1. FieldInit => Holds
  <2> SUFFICES ASSUME FieldInit PROVE Holds
    OBVIOUS
  <2>1. PICK x \in Loads : acc = fe_from_bytes(form, x) /\ value = ResidueOf(x)
    BY DEF FieldInit
  <2>2. form \in Forms
    BY DEF FieldInit
  <2>3. QED
    BY <2>1, <2>2, OperandIs DEF Holds
<1>2. Holds /\ [FieldNext]_fieldVars => Holds'
  <2> SUFFICES ASSUME Holds, [FieldNext]_fieldVars PROVE Holds'
    OBVIOUS
  <2>1. ASSUME NEW x \in Loads, CallAdd(x) PROVE Holds'
    BY <2>1, AddHolds
  <2>2. ASSUME NEW x \in Loads, CallSub(x) PROVE Holds'
    BY <2>2, SubHolds
  <2>3. ASSUME NEW x \in Loads, CallSubFrom(x) PROVE Holds'
    BY <2>3, SubFromHolds
  <2>4. ASSUME NEW x \in Loads, CallMul(x) PROVE Holds'
    BY <2>4, MulHolds
  <2>5. CASE CallSq
    BY <2>5, SqHolds
  <2>6. ASSUME NEW to \in Forms, Convert(to) PROVE Holds'
    BY <2>6, ConvertHolds
  <2>7. CASE Invert
    BY <2>7 DEF Invert, Holds
  <2>8. CASE UNCHANGED fieldVars
    BY <2>8 DEF fieldVars, Holds
  <2>9. QED
    BY <2>1, <2>2, <2>3, <2>4, <2>5, <2>6, <2>7, <2>8 DEF FieldNext
<1>3. Holds => ResultIsExact
  BY HoldingIsExact DEF Holds, ResultIsExact
<1>4. QED
  BY <1>1, <1>2, <1>3, PTL DEF FieldSpec
==============================================================================
