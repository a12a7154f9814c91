----------------------------- MODULE EdwardsPoint -----------------------------
(***************************************************************************)
(* crypto/ge25519.cpp: points of the curve -x^2 + y^2 = 1 + d x^2 y^2 in   *)
(* extended coordinates, x = X/Z, y = Y/Z, xy = T/Z; ge25519x4.cpp and the *)
(* device's ged_madd have the same formulas.  The field and the curve are  *)
(* parameters, and so is the width of a byte and of a scalar.              *)
(***************************************************************************)
EXTENDS Naturals, FieldElements

CONSTANTS D2,           \* kD2, twice the d of the curve
          Basepoint,    \* ge_basepoint()
          ByteBits,     \* 8
          ScalarBytes   \* 32

Radix == 2 ^ ByteBits
Bits == ByteBits * ScalarBytes
Scalars == [0..ScalarBytes-1 -> 0..Radix-1]

Points == [X : F, Y : F, Z : F, T : F]

Identity == [X |-> Zero, Y |-> One, Z |-> One, T |-> Zero]

ge_to_cached(p) ==
  [YplusX |-> Add(p.Y, p.X), YminusX |-> Sub(p.Y, p.X), Z |-> p.Z, T2d |-> Mul(p.T, D2)]

\* The addend with its Z brought to one.
ge_to_cached_affine(p) ==
  LET zinv == Inv(p.Z)
      x == Mul(p.X, zinv)
      y == Mul(p.Y, zinv)
  IN [YplusX |-> Add(y, x), YminusX |-> Sub(y, x), T2d |-> Mul(Mul(x, y), D2)]

\* The point with e, f, g and h as its factors.
FromFactors(e, f, g, h) ==
  [X |-> Mul(e, f), Y |-> Mul(g, h), Z |-> Mul(f, g), T |-> Mul(e, h)]

\* The unified addition; d is twice the product of the two Z.
Unified(p, q, d) ==
  LET a == Mul(Sub(p.Y, p.X), q.YminusX)
      b == Mul(Add(p.Y, p.X), q.YplusX)
      c == Mul(q.T2d, p.T)
  IN FromFactors(Sub(b, a), Sub(d, c), Add(d, c), Add(b, a))

ge_add(p, q) == LET zz == Mul(p.Z, q.Z) IN Unified(p, q, Add(zz, zz))

\* Mutant: Z is not doubled.
ge_madd_single(p, q) == Unified(p, q, p.Z)

\* The addend is affine: its Z is one.
ge_madd(p, q) == Unified(p, q, Add(p.Z, p.Z))

ge_double(p) ==
  LET A == Mul(p.X, p.X)
      B == Mul(p.Y, p.Y)
      C == Add(Mul(p.Z, p.Z), Mul(p.Z, p.Z))
      H == Add(A, B)
      s == Add(p.X, p.Y)
      G == Sub(A, B)
  IN FromFactors(Sub(H, Mul(s, s)), Add(C, G), G, H)

\* Bit n of a scalar, in little-endian order.
Bit(s, n) == (s[n \div ByteBits] \div 2 ^ (n % ByteBits)) % 2

\* Double and add from the top; the topmost bit is ignored.
ge_scalarmult_base(s) ==
  LET base == ge_to_cached(Basepoint)
      r[n \in 0..Bits] ==
        IF n = 0 THEN Identity
        ELSE LET d == ge_double(r[n - 1])
             IN IF n > 1 /\ Bit(s, Bits - n) = 1 THEN ge_add(d, base) ELSE d
  IN r[Bits]

-----------------------------------------------------------------------------
\* An extended point that stands for a point of the curve.
Valid(p) ==
  /\ p \in Points
  /\ p.Z # Zero
  /\ Mul(p.X, p.Y) = Mul(p.Z, p.T)
  /\ LET twice(a) == Add(a, a)
     IN twice(Sub(Mul(p.Y, p.Y), Mul(p.X, p.X)))
          = Add(twice(Mul(p.Z, p.Z)), Mul(D2, Mul(p.T, p.T)))

\* The sum of two points by the affine addition law.
AffineSum(p, q) ==
  LET xx == Mul(p.x, q.x)
      yy == Mul(p.y, q.y)
      half == Inv(Add(One, One))
      dxy == Mul(Mul(D2, half), Mul(xx, yy))
  IN [x |-> Mul(Add(Mul(p.x, q.y), Mul(p.y, q.x)), Inv(Add(One, dxy))),
      y |-> Mul(Add(yy, xx), Inv(Sub(One, dxy)))]

\* n times the base point.
Multiple[n \in Nat] ==
  IF n = 0 THEN [x |-> Zero, y |-> One]
  ELSE LET h == Multiple[n \div 2]
           even == AffineSum(h, h)
           z == Inv(Basepoint.Z)
       IN IF n % 2 = 0 THEN even
          ELSE AffineSum(even, [x |-> Mul(Basepoint.X, z), y |-> Mul(Basepoint.Y, z)])
=============================================================================
