------------------------------- MODULE KeyWalk -------------------------------
(***************************************************************************)
(* From a base scalar to the y every pattern is compared with, and back to *)
(* the scalar of a match: the walk of one epoch, by a CPU worker's stepper *)
(* (crypto/incremental.cpp) or by one thread of the search kernel, whose   *)
(* start points and big step cuda_engine.cu prepares.                      *)
(*                                                                         *)
(* A CPU walk takes a step of 8B from point to point and has as many       *)
(* batches as the epoch holds; thread t of the kernel begins at point t,   *)
(* takes steps of Threads * 8B, and has one batch.                         *)
(***************************************************************************)
EXTENDS BatchInversion, EdwardsPoint, FiniteSets

CONSTANTS BaseScalars,     \* the base scalars that can be drawn
          Threads,         \* knobs.threads
          EpochCandidates  \* points in an epoch of the CPU engine

\* What an epoch draws: random bytes with the low three bits clear, the
\* topmost bit clear and the next one set.
Clamped(s) ==
  /\ s \in Scalars
  /\ s[0] % 8 = 0
  /\ s[ScalarBytes - 1] \div (Radix \div 4) = 1

\* Of the radix, that it is a power of two with more than three bits; an epoch
\* with fewer candidates than a batch has no batch.
ASSUME WalkAssumption ==
  /\ ByteBits \in Nat /\ ByteBits > 3 /\ ScalarBytes \in Nat \ {0}
  /\ Radix \in Nat \ {0} /\ Radix % 8 = 0
  /\ \A s \in BaseScalars : Clamped(s)
  /\ Threads \in Nat \ {0}
  /\ EpochCandidates \in Nat /\ EpochCandidates >= Batch
  /\ Valid(Basepoint)

\* What the proofs use of the field and the curve beyond the laws of a field:
\* the residues of an odd prime, in which -1 is a square and d is not (four
\* times d, the sum below, is a square if and only if d is one).
ASSUME CurveAssumption ==
  LET p == Cardinality(F) IN
  /\ p \in Nat /\ p % 2 = 1
  /\ F = 0..p-1 /\ Zero = 0 /\ One = 1
  /\ \A a, b \in F :
       /\ Add(a, b) = (a + b) % p
       /\ Sub(a, b) = (a - b) % p
       /\ Mul(a, b) = (a * b) % p
  /\ \E s \in F : Mul(s, s) = p - 1
  /\ D2 \in F /\ \A s \in F : Mul(s, s) # Add(D2, D2)

VARIABLES gpu,          \* a kernel thread's walk
          a0,           \* the base scalar
          t,            \* the kernel thread
          cur,          \* cur_, cur
          step,         \* step8b_, or the big step
          consumed      \* consumed_, when the batch began

walkVars == <<gpu, a0, t, step, consumed>>
vars == <<walkVars, cur, inversionVars>>

Eight == [k \in 0..ScalarBytes-1 |-> IF k = 0 THEN 8 ELSE 0]

\* The point n steps from p.
Walked(p, q, n) ==
  LET w[k \in 0..n] == IF k = 0 THEN p ELSE ge_madd(w[k - 1], q) IN w[n]

Step8B == ge_to_cached_affine(ge_scalarmult_base(Eight))

\* Mutant: one step too many.
BigStepOneMore ==
  ge_to_cached_affine(Walked(ge_scalarmult_base(Eight), Step8B, Threads))

\* Threads * 8B: 8B and Threads - 1 steps from it.
BigStep ==
  ge_to_cached_affine(Walked(ge_scalarmult_base(Eight), Step8B, Threads - 1))

Scratch == [k \in Indices |-> Zero]

\* A stepper has been made for a fresh base scalar, or a kernel thread has
\* been given its start point.  The kernel comes in both forms, the stepper in
\* one.
Init ==
  /\ ys = Scratch /\ zs = Scratch /\ prefix = Scratch /\ combo = Scratch
  /\ out = Scratch
  /\ InversionInit
  /\ gpu \in BOOLEAN
  /\ fused => gpu
  /\ a0 \in BaseScalars
  /\ t \in IF gpu THEN 0..Threads-1 ELSE {0}
  /\ cur = Walked(ge_scalarmult_base(a0), Step8B, t)
  /\ step = IF gpu THEN BigStep ELSE Step8B
  /\ consumed = 0

\* Stash Y and Z of the current point and go on to the next.
Collect ==
  /\ CollectStored(cur.Y, cur.Z) \/ CollectFused(cur.Y, cur.Z)
  /\ cur' = ge_madd(cur, step)
  /\ UNCHANGED walkVars

\* The rest of next_batch, or of the kernel.
RecoverBatch ==
  /\ InversionStep
  /\ UNCHANGED <<walkVars, cur>>

\* A batch is over, and the worker asks for the next one.
NextBatch ==
  /\ ~gpu
  /\ consumed + 2 * Batch <= EpochCandidates
  /\ NextCall
  /\ consumed' = consumed + Batch
  /\ UNCHANGED <<gpu, a0, t, step, cur>>

EpochOver ==
  /\ phase = "done"
  /\ gpu \/ consumed + 2 * Batch > EpochCandidates
  /\ UNCHANGED vars

Next == Collect \/ RecoverBatch \/ NextBatch \/ EpochOver

Spec == Init /\ [][Next]_vars

-----------------------------------------------------------------------------
(* The scalar of a match *)

\* s + 8 * n, byte by byte and without any reduction.
scalar_add_8i(s, n) ==
  LET carry[k \in 0..ScalarBytes] ==
        IF k = 0 THEN 8 * n
        ELSE LET c == carry[k - 1]
             IN c \div Radix + (s[k - 1] + (c % Radix)) \div Radix
  IN [k \in 0..ScalarBytes-1 |-> (s[k] + (carry[k] % Radix)) % Radix]

\* The index the engine takes the point at place k of the batch to have.
Index(k) == IF gpu THEN t + k * Threads ELSE consumed + k

\* The scalar a match at place k is given.
Rebuilt(k) == scalar_add_8i(a0, Index(k))

\* What a byte counts for, and the number the bytes of s make.
Weight ==
  LET w[k \in 0..ScalarBytes] == IF k = 0 THEN 1 ELSE Radix * w[k - 1] IN w

Value(s) ==
  LET v[k \in 0..ScalarBytes] ==
        IF k = 0 THEN 0 ELSE v[k - 1] + s[k - 1] * Weight[k - 1]
  IN v[ScalarBytes]

\* libsodium's crypto_scalarmult_ed25519_base_noclamp, the y of it: the
\* topmost bit of the scalar is ignored.
PublicY(s) == Multiple[Value(s) % 2 ^ (Bits - 1)].y

-----------------------------------------------------------------------------
(* Properties *)

\* However long the walk, the current point is a point of the curve, with its
\* T in step and no zero Z: the formulas are complete, so that no point of a
\* batch makes the shared inversion fail for the others.
PointsStayValid == Valid(cur)

\* The y compared with the patterns is that of the public key libsodium
\* derives from the scalar a match would be given: index, walk, inversion and
\* byte-wise addition agree, on the CPU and in every thread of the kernel.
RebuiltKeyIsThePoint == \A k \in Indices : Done(k) => out[k] = PublicY(Rebuilt(k))

-----------------------------------------------------------------------------
\* docs/design.md, section 9: base scalars are drawn again when an epoch would
\* carry into bit 255, so that every scalar is clamped.
EveryScalarIsClamped == \A k \in Indices : Done(k) => Clamped(Rebuilt(k))
=============================================================================
