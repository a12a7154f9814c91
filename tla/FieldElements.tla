----------------------------- MODULE FieldElements -----------------------------
(***************************************************************************)
(* The field the points of the curve are computed in: what the code above  *)
(* crypto/fe25519.hpp, fe25519x4.hpp and engine/cuda/device_field*.cuh     *)
(* relies on.  A field element is its residue: two limb representations of *)
(* one residue are the same element.                                       *)
(***************************************************************************)

CONSTANTS F, Zero, One,
          Add(_, _), Sub(_, _), Mul(_, _),
          Inv(_)        \* fe_invert; its value at Zero is not used

Units == F \ {Zero}

ASSUME FieldAssumption ==
  /\ Zero \in F /\ One \in Units
  /\ \A a, b \in F : Mul(a, b) \in F /\ Mul(a, b) = Mul(b, a)
  /\ \A a, b, c \in F : Mul(Mul(a, b), c) = Mul(a, Mul(b, c))
  /\ \A a \in F : Mul(a, One) = a
  /\ \A a, b \in Units : Mul(a, b) \in Units
  /\ \A a \in Units : Inv(a) \in Units /\ Mul(a, Inv(a)) = One
=============================================================================
