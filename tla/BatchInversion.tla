---------------------------- MODULE BatchInversion ----------------------------
(***************************************************************************)
(* Montgomery's batch inversion, as the steppers and the search kernel     *)
(* have it: one inversion serves a batch of points.  crypto/incremental    *)
(* and the kernel's fallback keep three arrays; the kernel's default form  *)
(* fuses Y into the prefix products and keeps two.                         *)
(*                                                                         *)
(* The points themselves are the environment's: any Y, and any Z but zero. *)
(* One turn of a loop is one step, so that what the scratch arrays hold    *)
(* from the batch before is there to be misread.                           *)
(***************************************************************************)
EXTENDS Integers, FieldElements

CONSTANTS Batch         \* n in next_batch_impl, kStepsPerThread in the kernel

ASSUME BatchAssumption == Batch \in Nat \ {0}

Indices == 0..Batch-1

VARIABLES fused,        \* the form of the kernel's default build
          phase, i,     \* which loop is running, and its index
          ys, zs,       \* Y and Z of the points collected
          prefix,       \* prefix_
          combo,        \* combo, in the fused form only
          pe,           \* the running product of the fused form
          inv,          \* inv, or run in the fused form
          out           \* the affine y of each point

arrays == <<ys, zs, prefix, combo, out>>
inversionVars == <<fused, phase, i, arrays, pe, inv>>

Phases == {"collect", "prefix", "invert", "recover", "done"}

\* The scratch arrays hold anything before the first batch.  The fused form
\* stores neither ys nor prefix: there they are history.
InversionInit ==
  /\ fused \in BOOLEAN
  /\ phase = "collect"
  /\ i = 0
  /\ ys \in [Indices -> F] /\ zs \in [Indices -> F]
  /\ prefix \in [Indices -> F] /\ combo \in [Indices -> F]
  /\ out \in [Indices -> F]
  /\ pe = One
  /\ inv = One

\* for (i = 0; i < n; ++i), and what follows the loop.
Up(next) ==
  IF i + 1 < Batch THEN i' = i + 1 /\ UNCHANGED phase ELSE i' = 0 /\ phase' = next

\* for (i = n; i-- > 0;), and what follows the loop.
Down(next) ==
  IF i > 0 THEN i' = i - 1 /\ UNCHANGED phase ELSE i' = 0 /\ phase' = next

\* The product of the Z before place k.
Before(k) == IF k = 0 THEN One ELSE prefix[k - 1]

\* The current point has the coordinates y and z.
CollectStored(y, z) ==
  /\ phase = "collect" /\ ~fused
  /\ ys' = [ys EXCEPT ![i] = y]
  /\ zs' = [zs EXCEPT ![i] = z]
  /\ Up("prefix")
  /\ UNCHANGED <<fused, prefix, combo, pe, inv, out>>

\* Mutant: the product passes over the first Z.
PrefixFromOne ==
  /\ phase = "prefix"
  /\ prefix' = [prefix EXCEPT ![i] = IF i = 0 THEN One ELSE Mul(prefix[i - 1], zs[i])]
  /\ Up("invert")
  /\ UNCHANGED <<fused, ys, zs, combo, pe, inv, out>>

PrefixProduct ==
  /\ phase = "prefix"
  /\ prefix' = [prefix EXCEPT ![i] = IF i = 0 THEN zs[0] ELSE Mul(prefix[i - 1], zs[i])]
  /\ Up("invert")
  /\ UNCHANGED <<fused, ys, zs, combo, pe, inv, out>>

\* One pass in the fused form: Y times the product so far, then the product.
CollectFused(y, z) ==
  /\ phase = "collect" /\ fused
  /\ combo' = [combo EXCEPT ![i] = Mul(y, pe)]
  /\ zs' = [zs EXCEPT ![i] = z]
  /\ pe' = Mul(pe, z)
  /\ ys' = [ys EXCEPT ![i] = y]
  /\ prefix' = [prefix EXCEPT ![i] = Mul(pe, z)]
  /\ Up("invert")
  /\ UNCHANGED <<fused, inv, out>>

\* The one inversion of the batch.
Invert ==
  /\ phase = "invert"
  /\ inv' = Inv(IF fused THEN pe ELSE prefix[Batch - 1])
  /\ i' = Batch - 1
  /\ phase' = "recover"
  /\ UNCHANGED <<fused, arrays, pe>>

\* inv is the inverse of the product up to place i; the product up to place
\* i - 1 is what is inverted next.
NextInverse == IF i = 0 THEN inv ELSE Mul(inv, zs[i])

RecoverStored ==
  /\ phase = "recover" /\ ~fused
  /\ out' = [out EXCEPT ![i] = Mul(ys[i], IF i = 0 THEN inv ELSE Mul(inv, prefix[i - 1]))]
  /\ inv' = NextInverse
  /\ Down("done")
  /\ UNCHANGED <<fused, ys, zs, prefix, combo, pe>>

RecoverFused ==
  /\ phase = "recover" /\ fused
  /\ out' = [out EXCEPT ![i] = Mul(inv, combo[i])]
  /\ inv' = NextInverse
  /\ Down("done")
  /\ UNCHANGED <<fused, ys, zs, prefix, combo, pe>>

\* The next call of next_batch, with the scratch of the one before.
NextCall ==
  /\ phase = "done"
  /\ phase' = "collect"
  /\ i' = 0
  /\ pe' = One
  /\ UNCHANGED <<fused, arrays, inv>>

InversionStep ==
  PrefixProduct \/ Invert \/ RecoverStored \/ RecoverFused

InversionNext ==
  \/ \E y \in F, z \in Units : CollectStored(y, z) \/ CollectFused(y, z)
  \/ InversionStep
  \/ NextCall

InversionSpec == InversionInit /\ [][InversionNext]_inversionVars

-----------------------------------------------------------------------------
(* Properties *)

\* Every variable has a value of its type.
InversionTypeOK ==
  /\ fused \in BOOLEAN /\ phase \in Phases /\ i \in Indices
  /\ ys \in [Indices -> F] /\ zs \in [Indices -> F]
  /\ prefix \in [Indices -> F] /\ combo \in [Indices -> F]
  /\ out \in [Indices -> F]
  /\ pe \in F /\ inv \in F

\* The places whose affine y has been recovered in this batch.
Done(k) == phase = "done" \/ (phase = "recover" /\ k > i)

\* Every recovered value is Y / Z of the very point at its place, in both
\* forms, although a single inversion was done and the scratch is reused.
YRecovered == \A k \in Indices : Done(k) => Mul(out[k], zs[k]) = ys[k]
=============================================================================
