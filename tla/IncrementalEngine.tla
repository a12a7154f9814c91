--------------------------- MODULE IncrementalEngine ---------------------------
(***************************************************************************)
(* engine/cpu/incremental_engine.cpp (a pool with one lane) and            *)
(* incremental_engine_x4.cpp (with four): the workers of the CPU engine,   *)
(* the stepper each of them drives, and the StatsBoard main() reads.       *)
(*                                                                         *)
(* A base scalar a0 is fresh random bytes: it stands for itself as the     *)
(* number of the worker's epoch, and the scalar a0 + 8i as the pair of the *)
(* epoch (and lane) with the index i.  What the stepper computes for one   *)
(* index is abstracted to whether its point matches a pattern; which index *)
(* a point really has, and which index the engine believes it has, are     *)
(* kept apart.                                                             *)
(***************************************************************************)
EXTENDS Naturals, SequencesExt

CONSTANTS Pools,            \* what --engine and --threads may choose: num_threads_
                            \* workers, and the walks of each, 1 or 4 with AVX2
          Batch,            \* batch_: points per lane and batch
          EpochCandidates,  \* epoch_candidates_: points per lane and epoch
          NumPatterns,      \* patterns_.size()
          Degenerate,       \* the scalars, as <<worker, epoch, lane, index>>, that
                            \* pubkey_from_scalar derives no key from
          MaxEpochs,        \* bound: epochs a worker begins
          MaxHits(_)        \* bound: matches in one batch, for the lanes

ASSUME EngineAssumption ==
  /\ \A p \in Pools : p \in [workers : Nat \ {0}, lanes : Nat \ {0}]
  /\ Batch \in Nat \ {0} /\ NumPatterns \in Nat \ {0}
  /\ EpochCandidates \in Nat /\ MaxEpochs \in Nat
  /\ \A p \in Pools : MaxHits(p.lanes) \in Nat

VARIABLES pool,         \* the engine main() has built
          stop,         \* the stop token
          wpc,          \* where each worker is
          a0,           \* the base scalars of the worker's epoch
          epochs,       \* how many epochs it has begun
          b,            \* batches completed in this epoch
          cur,          \* the index of the stepper's current point
          consumed,     \* the stepper's consumed_
          base_index,   \* consumed() as the worker last read it
          ybase,        \* the index of the first point in ybatch
          found,        \* the matches in ybatch
          hits,         \* those the loops have not reached yet
          pushed,       \* history: the candidates pushed for this batch
          local_total,
          slots,        \* the StatsBoard: the values stored, oldest first
          scan          \* main()'s calls of total()

workerVars == <<wpc, a0, epochs, b, cur, consumed, base_index, ybase, found,
                hits, pushed, local_total>>
vars == <<pool, stop, workerVars, slots, scan>>

WorkerPc == {"checking", "epoch", "matching", "returned"}

Workers == 1..pool.workers
Lanes == pool.lanes

\* Where a match can be in ybatch: lane, place in the lane, pattern.
Places(lanes) == (0..lanes-1) \X (0..Batch-1) \X (0..NumPatterns-1)

\* What a batch can hold.
MatchSets ==
  [lanes \in {p.lanes : p \in Pools} |->
     UNION {kSubset(n, Places(lanes)) : n \in 0..MaxHits(lanes)}]

\* The order of the three nested loops.
Precedes(p, q) ==
  \/ p[1] < q[1]
  \/ p[1] = q[1] /\ p[2] < q[2]
  \/ p[1] = q[1] /\ p[2] = q[2] /\ p[3] <= q[3]

Wiped == 0              \* a0 after sodium_memzero: epochs count from 1

Init ==
  /\ pool \in Pools
  /\ stop = FALSE
  /\ wpc = [w \in Workers |-> "checking"]
  /\ a0 = [w \in Workers |-> Wiped]
  /\ epochs = [w \in Workers |-> 0]
  /\ b = [w \in Workers |-> 0]
  /\ cur = [w \in Workers |-> 0]
  /\ consumed = [w \in Workers |-> 0]
  /\ base_index = [w \in Workers |-> 0]
  /\ ybase = [w \in Workers |-> 0]
  /\ found = [w \in Workers |-> {}]
  /\ hits = [w \in Workers |-> {}]
  /\ pushed = [w \in Workers |-> <<>>]
  /\ local_total = [w \in Workers |-> 0]
  /\ slots = [w \in Workers |-> <<0>>]
  /\ scan = [next |-> 1, at |-> [w \in Workers |-> 1], sum |-> 0, total |-> 0]

-----------------------------------------------------------------------------
(* The worker *)

\* Mutant: the outer loop never looks at the stop token.
KeepSearchingAlways == TRUE

\* The condition of the outer while.
KeepSearching == ~stop

\* A fresh clamped base scalar, and a stepper at its point.
NewEpoch(w) ==
  /\ wpc[w] = "checking"
  /\ KeepSearching
  /\ epochs[w] < MaxEpochs
  /\ epochs' = [epochs EXCEPT ![w] = @ + 1]
  /\ a0' = [a0 EXCEPT ![w] = epochs[w] + 1]
  /\ cur' = [cur EXCEPT ![w] = 0]
  /\ consumed' = [consumed EXCEPT ![w] = 0]
  /\ b' = [b EXCEPT ![w] = 0]
  /\ wpc' = [wpc EXCEPT ![w] = "epoch"]
  /\ UNCHANGED <<stop, base_index, ybase, found, hits, pushed, local_total,
                 slots, scan>>

Return(w) ==
  /\ wpc[w] = "checking"
  /\ ~KeepSearching
  /\ wpc' = [wpc EXCEPT ![w] = "returned"]
  /\ UNCHANGED <<stop, a0, epochs, b, cur, consumed, base_index, ybase, found,
                 hits, pushed, local_total, slots, scan>>

\* Mutant: the last, incomplete batch is searched too.
BatchesRoundedUp == (EpochCandidates + Batch - 1) \div Batch

\* Mutant: no batch fits into an epoch.
BatchesSwapped == Batch \div EpochCandidates

\* The number of batches of an epoch, rounded down: none if batch_ is larger
\* than the epoch.
Batches == EpochCandidates \div Batch

\* The condition of the batch loop.
MoreBatches(w) == b[w] < Batches /\ ~stop

\* Mutant: consumed() is read after next_batch has advanced it.
BaseIndexLate(w) == consumed[w] + Batch

\* base_index = stepper.consumed(), before next_batch.
BaseIndex(w) == consumed[w]

\* next_batch: the y of the next Batch points of every lane, of which some
\* match; the stepper has moved past them.
NextBatch(w) ==
  /\ wpc[w] = "epoch"
  /\ MoreBatches(w)
  /\ base_index' = [base_index EXCEPT ![w] = BaseIndex(w)]
  /\ ybase' = [ybase EXCEPT ![w] = cur[w]]
  /\ cur' = [cur EXCEPT ![w] = @ + Batch]
  /\ consumed' = [consumed EXCEPT ![w] = @ + Batch]
  /\ \E h \in MatchSets[Lanes] :
       found' = [found EXCEPT ![w] = h] /\ hits' = [hits EXCEPT ![w] = h]
  /\ wpc' = [wpc EXCEPT ![w] = "matching"]
  /\ UNCHANGED <<stop, a0, epochs, b, pushed, local_total, slots, scan>>

\* The candidate the engine makes of a match: the scalar is rebuilt from the
\* base scalar and base_index + k, the public key from the scalar.
Rebuilt(w, p) ==
  [a0 |-> a0[w], lane |-> p[1], i |-> base_index[w] + p[2], pattern |-> p[3]]

\* pubkey_from_scalar has a key for the scalar of candidate c.
IsKey(w, c) == <<w, c.a0, c.lane, c.i>> \notin Degenerate

\* Mutant: one candidate per batch, and on to the next batch.
RestAfterOne(w, p) == {}

\* The loops go on with the next pattern and the next point.
RestAfter(w, p) == hits[w] \ {p}

\* The next match: its candidate is pushed if it is a key, else skipped.
PushHit(w) ==
  /\ wpc[w] = "matching"
  /\ \E p \in hits[w] :
       /\ \A q \in hits[w] : Precedes(p, q)
       /\ pushed' = IF IsKey(w, Rebuilt(w, p))
                    THEN [pushed EXCEPT ![w] = Append(@, Rebuilt(w, p))]
                    ELSE pushed
       /\ hits' = [hits EXCEPT ![w] = RestAfter(w, p)]
  /\ UNCHANGED <<stop, wpc, a0, epochs, b, cur, consumed, base_index, ybase,
                 found, local_total, slots, scan>>

\* Mutant: every test of a point against a pattern counts.
NextTotalPerPattern(w) == local_total[w] + Lanes * Batch * NumPatterns

\* Mutant: the counter is local to the epoch.
NextTotalPerEpoch(w) ==
  IF b[w] = 0 THEN Lanes * Batch ELSE local_total[w] + Lanes * Batch

NextTotal(w) == local_total[w] + Lanes * Batch

\* The batch is done: count it, publish the count, go round the loop.  The
\* contents of ybatch are dead, and its history is closed.
BatchDone(w) ==
  /\ wpc[w] = "matching"
  /\ hits[w] = {}
  /\ found' = [found EXCEPT ![w] = {}]
  /\ pushed' = [pushed EXCEPT ![w] = <<>>]
  /\ local_total' = [local_total EXCEPT ![w] = NextTotal(w)]
  /\ slots' = [slots EXCEPT ![w] = Append(@, NextTotal(w))]
  /\ b' = [b EXCEPT ![w] = @ + 1]
  /\ wpc' = [wpc EXCEPT ![w] = "epoch"]
  /\ UNCHANGED <<stop, a0, epochs, cur, consumed, base_index, ybase, hits, scan>>

\* The epoch is over, or the stop token has fired: wipe a0.
EndEpoch(w) ==
  /\ wpc[w] = "epoch"
  /\ ~MoreBatches(w)
  /\ a0' = [a0 EXCEPT ![w] = Wiped]
  /\ wpc' = [wpc EXCEPT ![w] = "checking"]
  /\ UNCHANGED <<stop, epochs, b, cur, consumed, base_index, ybase, found,
                 hits, pushed, local_total, slots, scan>>

Worker(w) ==
  /\ NewEpoch(w) \/ Return(w) \/ NextBatch(w) \/ PushHit(w) \/ BatchDone(w) \/ EndEpoch(w)
  /\ UNCHANGED pool

-----------------------------------------------------------------------------
(* main() *)

RequestStop ==
  /\ ~stop
  /\ stop' = TRUE
  /\ UNCHANGED <<pool, workerVars, slots, scan>>

\* total() loads the slots one after the other.  The loads are relaxed: one
\* may return any value stored since the value the last load of it returned.
ReadSlot ==
  LET w == scan.next IN
  /\ \E n \in scan.at[w]..Len(slots[w]) :
       LET sum == scan.sum + slots[w][n]
           last == w = pool.workers
       IN scan' = [next |-> IF last THEN 1 ELSE w + 1,
                   at |-> [scan.at EXCEPT ![w] = n],
                   sum |-> IF last THEN 0 ELSE sum,
                   total |-> IF last THEN sum ELSE scan.total]
  /\ UNCHANGED <<pool, stop, workerVars, slots>>

Next == (\E w \in Workers : Worker(w)) \/ RequestStop \/ ReadSlot

\* A worker that can run does; nothing makes main() ask for a stop.
Spec ==
  /\ Init /\ [][Next]_vars
  /\ \A w \in UNION {1..p.workers : p \in Pools} : WF_vars(w \in Workers /\ Worker(w))

-----------------------------------------------------------------------------
(* Properties *)

\* Every variable has a value of its type; no index leaves the epoch's window
\* 0..EpochCandidates, on which the bound of the scalars rests.
TypeOK ==
  /\ pool \in Pools
  /\ stop \in BOOLEAN
  /\ wpc \in [Workers -> WorkerPc]
  /\ epochs \in [Workers -> 0..MaxEpochs]
  /\ a0 \in [Workers -> 0..MaxEpochs]
  /\ b \in [Workers -> 0..Batches]
  /\ cur \in [Workers -> 0..EpochCandidates]
  /\ consumed \in [Workers -> 0..EpochCandidates]
  /\ base_index \in [Workers -> 0..EpochCandidates]
  /\ ybase \in [Workers -> 0..EpochCandidates]
  /\ \A w \in Workers : hits[w] \subseteq found[w] /\ found[w] \subseteq Places(Lanes)
  /\ local_total \in [Workers -> Nat]
  /\ \A w \in Workers : slots[w] \in Seq(Nat) /\ scan.at[w] \in 1..Len(slots[w])
  /\ scan.next \in Workers /\ scan.sum \in Nat /\ scan.total \in Nat

\* The point in ybatch behind a match.
Matched(w, p) ==
  [a0 |-> epochs[w], lane |-> p[1], i |-> ybase[w] + p[2], pattern |-> p[3]]

\* Every candidate carries the scalar of the very point that matched, in the
\* epoch and lane it was found in: the stepper's walk and the engine's
\* base_index never drift apart, and a0 is not wiped too early.
ScalarMatchesPoint ==
  \A w \in Workers : wpc[w] = "matching" =>
    \A n \in 1..Len(pushed[w]) :
      \E p \in found[w] : pushed[w][n] = Matched(w, p)

\* Those matches in S whose scalar libsodium derives a key from.
Due(w, S) == {p \in S : IsKey(w, Matched(w, p))}

\* Each match of a batch that has a key is pushed exactly once, and no other,
\* whatever else matched or was skipped in the batch; and the batches are the
\* consecutive stretches of the walk, so no point of the epoch is skipped or
\* searched twice.
EveryMatchPushedOnce ==
  \A w \in Workers : wpc[w] = "matching" =>
    /\ ybase[w] = b[w] * Batch
    /\ Len(pushed[w]) + Cardinality(Due(w, hits[w])) = Cardinality(Due(w, found[w]))
    /\ {pushed[w][n] : n \in 1..Len(pushed[w])} \cup {Matched(w, p) : p \in Due(w, hits[w])}
         = {Matched(w, p) : p \in Due(w, found[w])}

\* The points worker w has compared with every pattern: whole epochs, but for
\* the current one, because only a stop cuts an epoch short.
Compared(w) ==
  IF epochs[w] = 0 THEN 0
  ELSE ((epochs[w] - 1) * Batches + b[w]) * Lanes * Batch

\* total() never counts a point that has not been compared with every pattern
\* yet, although it reads the slots one by one and without any ordering.
TotalNeverOverstates ==
  scan.total <= MapThenSumSet(Compared, Workers)

\* Two calls of total() never go backwards.
TotalNeverFalls == [][scan'.total >= scan.total]_vars

\* After the stop every worker returns.
StopReturns == stop ~> \A w \in Workers : wpc[w] = "returned"

\* Nothing but the stop keeps a worker from publishing the count of every batch
\* of every epoch: as long as a batch fits into an epoch, no worker goes round
\* its loop for ever without searching.
EveryWorkerPublishes ==
  <>(stop \/ \A w \in Workers :
               /\ Last(slots[w]) > 0
               /\ Last(slots[w]) =
                    MaxEpochs * Lanes * (EpochCandidates - (EpochCandidates % Batch)))

-----------------------------------------------------------------------------
\* docs/design.md, section 17: a worker that emits a match immediately starts
\* a new epoch, so that at most one scalar is ever materialized per epoch.
OneScalarPerEpoch ==
  \A w \in Workers : \A m, n \in 1..Len(pushed[w]) :
    pushed[w][m].a0 = pushed[w][n].a0 /\ pushed[w][m].lane = pushed[w][n].lane
      => pushed[w][m].i = pushed[w][n].i
================================================================================
