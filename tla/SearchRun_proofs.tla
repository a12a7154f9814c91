--------------------------- MODULE SearchRun_proofs ---------------------------
(***************************************************************************)
(* Proofs about SearchRun, for any search threads, keys, patterns, values  *)
(* of --count, unreliable threads, refused keys and number of hit slots:   *)
(* the safety properties of a whole run.                                   *)
(*                                                                         *)
(* The inductive invariant has one part for each place where the threads   *)
(* meet.  Each part is preserved by the steps of main(), of the runner, of *)
(* a search thread and of Ctrl+C, given the whole invariant before.        *)
(***************************************************************************)
EXTENDS SearchRun, TorKeyWriter_proofs, SequenceTheorems, WellFoundedInduction

RunTypeOK ==
  /\ active \in {Cpu, Gpu, Cpu \cup Gpu} /\ bench \in BOOLEAN /\ count \in Nat
  /\ degenerate \in SUBSET Keys
  /\ pc \in MainPc /\ found \in Nat /\ exitCode \in {0, 2, 3, 4}
  /\ interrupted \in BOOLEAN /\ stop \in BOOLEAN /\ engineDone \in BOOLEAN
  /\ runner \in RunnerPc
  /\ thread \in [Threads -> ThreadPc] /\ live \in [Threads -> BOOLEAN]
  /\ pending \in [Threads -> SUBSET Candidates]
  /\ fresh \in SUBSET Keys
  /\ queue \in Seq(Candidates) /\ got \in Candidates \cup {Nothing, Waiting}

\* The monitor loop, and the sleep of --bench: no exit status is set yet.
Monitoring == {"benching", "loop", "popping", "popped", "writing"}

\* The stop token fires when main() has left the loop; a CPU worker returns
\* for no other reason, and run() only when every thread has.  A thread holds
\* candidates only while it pushes them.
ThreadsInv ==
  /\ runner = "starting" => \A t \in Threads : thread[t] = "new"
  /\ stop => pc \in {"joining", "exited"}
  /\ engineDone => runner = "done"
  /\ runner \in {"finishing", "done"} => \A t \in active : thread[t] = "returned"
  /\ \A t \in Cpu : live[t] /\ (thread[t] = "returned" => stop)
  /\ \A t \in Threads : thread[t] # "pushing" => pending[t] = {}
  /\ pc = "exited" => runner = "done"

\* Status 4 is given only when the engine has returned, which no CPU worker
\* can have done.
StatusFourInv == exitCode = 4 => engineDone /\ active \cap Cpu = {}

\* What main() has in its hands, and why it left the loop.
MainInv ==
  /\ pc \in Monitoring => exitCode = 0
  /\ pc = "benching" => bench
  /\ count # 0 => found <= count
  /\ count # 0 /\ pc \in {"popping", "popped", "writing"} => found < count
  /\ pc = "popped" => got \in Candidates \cup {Nothing}
  /\ pc = "writing" => got \in Candidates /\ Verifies(got) /\ wkey = got.secret
  /\ pc \notin Monitoring =>
       /\ exitCode = 0 => bench \/ interrupted \/ (count # 0 /\ found = count)
       /\ exitCode = 2 => got \in Candidates /\ ~Verifies(got)
       /\ exitCode = 3 => wpc \in Failed

\* No GPU epoch meets a key that an earlier one has met.
LossInv ==
  /\ IsFiniteSet(epochs)
  /\ \A K \in epochs : K \subseteq Keys \ fresh
  /\ dropped \in Nat /\ hit_overflow_events \in Nat

\* The count lags behind the disk for the moment between the return of
\* write_tor_keys and ++found.
DiskInv ==
  /\ IsFiniteSet(CompleteKeys)
  /\ Cardinality(CompleteKeys) = IF pc = "writing" /\ wpc = "ok" THEN found + 1 ELSE found

IInv ==
  /\ RunTypeOK /\ WriterInv
  /\ ThreadsInv /\ StatusFourInv /\ MainInv /\ DiskInv
  /\ FirewallHolds /\ LossInv /\ NoHitLost

-----------------------------------------------------------------------------
(* Operators *)

\* Less-than as the library's theorems on well-founded relations state it.
LEMMA LessThanIsRelated ==
  ASSUME NEW m \in Nat, NEW n \in Nat, m < n
  PROVE  <<m, n>> \in OpToRel(<, Nat)
BY Zenon DEF OpToRel

\* A set of natural numbers that is not empty has a least element.
LEMMA LeastElement ==
  ASSUME NEW T \in SUBSET Nat, T # {}
  PROVE  \E p \in T : \A q \in T : p <= q
<1> DEFINE R == OpToRel(<, Nat)
<1>1. IsWellFoundedOn(R, Nat)
  BY NatLessThanWellFounded, Zenon
<1>2. \A m, n \in Nat : m < n => <<m, n>> \in R
  BY LessThanIsRelated, Zenon
<1> HIDE DEF R
<1>3. PICK p \in T : \A q \in T : ~(<<q, p>> \in R)
  BY <1>1, WFMin
<1>4. ASSUME NEW q \in T, q < p
      PROVE  FALSE
  BY <1>2, <1>3, <1>4
<1>5. QED
  BY <1>4

\* Every candidate a thread reports carries the key it came upon, and of a key
\* that matches and is not refused it reports at least one.
LEMMA ReportsCarryTheKey ==
  ASSUME NEW t \in Threads, NEW k \in Keys, NEW hits \in Reports(t, k)
  PROVE  /\ hits \in SUBSET Candidates
         /\ Matching[k] # {} /\ k \notin degenerate => \E c \in hits : c.secret = k
<1> USE RunAssumption
<1>1. \A p \in 0..NumPatterns : Candidate(k, p) \in Candidates /\ Candidate(k, p).secret = k
  BY DEF Candidate, Candidates
<1>2. Matching[k] \subseteq Patterns /\ Patterns \subseteq 0..NumPatterns /\ Patterns \subseteq Nat
  BY DEF Patterns
<1>3. Matching[k] # {} => \E p \in Matching[k] : \A q \in Matching[k] : p <= q
  BY <1>2, LeastElement
<1>4. HitsFor(t, k) \subseteq Candidates
  BY <1>1, <1>2 DEF HitsFor
<1>5. Matching[k] # {} => \E c \in HitsFor(t, k) : c.secret = k
  BY <1>1, <1>2, <1>3 DEF HitsFor
<1>6. QED
  BY <1>1, <1>4, <1>5 DEF Reports

\* The candidates pushed for the recorded winners of an epoch: at least one for
\* each that matches and is not refused.
LEMMA HarvestsCarryTheKeys ==
  ASSUME NEW t \in Threads, NEW R \in SUBSET Keys, NEW hits \in Harvests(t, R)
  PROVE  /\ hits \in SUBSET Candidates
         /\ \A k \in R : Matching[k] # {} /\ k \notin degenerate =>
                            \E c \in hits : c.secret = k
<1>1. PICK report \in [R -> UNION {Reports(t, k) : k \in R}] :
        /\ \A k \in R : report[k] \in Reports(t, k)
        /\ hits = UNION {report[k] : k \in R}
  BY DEF Harvests
<1>2. \A k \in R : report[k] \in SUBSET Candidates
  BY <1>1, ReportsCarryTheKey
<1>3. \A k \in R : Matching[k] # {} /\ k \notin degenerate =>
                     \E c \in report[k] : c.secret = k
  BY <1>1, ReportsCarryTheKey
<1>4. \A k \in R : \A c \in report[k] : c \in hits
  BY <1>1
<1>5. QED
  BY <1>1, <1>2, <1>3, <1>4

\* Of an epoch whose winners fit the hit slots every one is recorded, and of
\* any epoch some of them.
LEMMA RecordedWinners ==
  ASSUME NEW K \in SUBSET Keys, NEW R \in Recorded(K)
  PROVE  /\ R \in SUBSET Keys
         /\ Overflow(K) \in {0, 1}
         /\ Overflow(K) = 0 => R = K
BY DEF Recorded, Overflow, kSubset

\* The epochs of E that hold a key of L.
Lossy(E, L) == {K \in E : K \cap L # {}}

\* When fewer keys are lost, no more epochs lose one.
LEMMA FewerLossyEpochs ==
  ASSUME NEW E, IsFiniteSet(E), NEW L, NEW M,
         \A K \in E : K \cap M \subseteq L
  PROVE  /\ Cardinality(Lossy(E, M)) \in Nat /\ Cardinality(Lossy(E, L)) \in Nat
         /\ Cardinality(Lossy(E, M)) <= Cardinality(Lossy(E, L))
<1>1. Lossy(E, M) \subseteq Lossy(E, L) /\ Lossy(E, L) \subseteq E
  BY DEF Lossy
<1>2. IsFiniteSet(Lossy(E, L)) /\ IsFiniteSet(Lossy(E, M))
  BY <1>1, FS_Subset
<1>3. QED
  BY <1>1, <1>2, FS_Subset, FS_CardinalityType

\* One more epoch is at most one more that loses a key.
LEMMA OneMoreLossyEpoch ==
  ASSUME NEW E, IsFiniteSet(E), NEW L, NEW M, NEW K0,
         \A K \in E : K \cap M \subseteq L
  PROVE  /\ Cardinality(Lossy(E \cup {K0}, M)) \in Nat /\ Cardinality(Lossy(E, L)) \in Nat
         /\ Cardinality(Lossy(E \cup {K0}, M)) <= Cardinality(Lossy(E, L)) + 1
<1> DEFINE A == Lossy(E, M)
           N == Lossy(E \cup {K0}, M)
<1>1. N \subseteq A \cup {K0} /\ A \subseteq E
  BY DEF Lossy
<1>2. /\ Cardinality(A) \in Nat /\ Cardinality(Lossy(E, L)) \in Nat
      /\ Cardinality(A) <= Cardinality(Lossy(E, L))
  BY FewerLossyEpochs, Zenon
<1> HIDE DEF N, A
<1>3. IsFiniteSet(A)
  BY <1>1, FS_Subset
<1>4. /\ IsFiniteSet(A \cup {K0})
      /\ Cardinality(A \cup {K0}) = Cardinality(A) \/ Cardinality(A \cup {K0}) = Cardinality(A) + 1
  BY <1>3, FS_AddElement
<1>5. IsFiniteSet(N) /\ Cardinality(N) <= Cardinality(A \cup {K0})
  BY <1>1, <1>4, FS_Subset
<1>6. Cardinality(N) \in Nat
  BY <1>5, FS_CardinalityType
<1>7. Cardinality(N) <= Cardinality(Lossy(E, L)) + 1
  BY <1>2, <1>4, <1>5, <1>6
<1>8. QED
  BY <1>2, <1>6, <1>7 DEF N

\* A step that meets no key and lets none go that is held loses nothing.
LEMMA NothingMoreLost ==
  ASSUME IInv, UNCHANGED <<degenerate, fresh, lossVars>>,
         pc' \in {"loop", "popping", "popped", "writing"} =>
           /\ pc \in {"loop", "popping", "popped", "writing"}
           /\ \A k \in Keys \ fresh : Held(k) => Held(k)'
  PROVE  LossInv' /\ NoHitLost'
<1> USE DEF lossVars
<1>1. LossInv'
  BY DEF IInv, LossInv
<1>2. ASSUME pc' \in {"loop", "popping", "popped", "writing"}
      PROVE  /\ (Lost \subseteq UNION epochs)'
             /\ (Cardinality({K \in epochs : K \cap Lost # {}}) <= dropped + hit_overflow_events)'
  <2>1. Lost' \subseteq Lost
    BY <1>2 DEF Lost
  <2>2. /\ Lost \subseteq UNION epochs
        /\ Cardinality({K \in epochs : K \cap Lost # {}}) <= dropped + hit_overflow_events
    BY <1>2 DEF IInv, NoHitLost
  <2> DEFINE c == Cardinality(Lossy(epochs, Lost))
             d == Cardinality(Lossy(epochs, Lost'))
  <2>3. c \in Nat /\ d \in Nat /\ d <= c
    BY <2>1, FewerLossyEpochs DEF IInv, LossInv
  <2>4. c <= dropped + hit_overflow_events /\ dropped \in Nat /\ hit_overflow_events \in Nat
    BY <2>2 DEF IInv, LossInv, Lossy
  <2> HIDE DEF c, d
  <2>5. d <= dropped + hit_overflow_events
    BY <2>3, <2>4
  <2>6. QED
    BY <2>1, <2>2, <2>5 DEF d, Lossy
<1>3. QED
  BY <1>1, <1>2 DEF NoHitLost

\* Between the steps of the writer the disk stays as it is.
LEMMA DiskFrame ==
  ASSUME IInv, UNCHANGED writerVars
  PROVE  WriterInv' /\ FirewallHolds' /\ CompleteKeys' = CompleteKeys
BY DEF IInv, WriterInv, WriterTypeOK, WriteCallInv, FilesInOrder, CompleteKeys, FirewallHolds,
   writerVars

-----------------------------------------------------------------------------
(* The initial states *)

\* Every command line starts a run in the inductive invariant.
LEMMA InitIInv == Init => IInv
<1> SUFFICES ASSUME Init PROVE IInv
  OBVIOUS
<1> USE RunAssumption DEF Init, Channel!Init
<1>1. WriterInv /\ CompleteKeys = {} /\ dirs = {}
  BY WriterInitInv DEF WriterInit
<1>2. RunTypeOK
  <2>1. queue \in Seq(Candidates) /\ got \in Candidates \cup {Nothing, Waiting}
    OBVIOUS
  <2>2. thread \in [Threads -> ThreadPc] /\ live \in [Threads -> BOOLEAN]
    BY DEF ThreadPc
  <2>3. pending \in [Threads -> SUBSET Candidates] /\ fresh \in SUBSET Keys
    OBVIOUS
  <2>4. pc \in MainPc /\ runner \in RunnerPc /\ count \in Nat /\ degenerate \in SUBSET Keys
    BY DEF MainPc, RunnerPc
  <2>5. QED
    BY <2>1, <2>2, <2>3, <2>4 DEF RunTypeOK
<1>3. ThreadsInv /\ StatusFourInv /\ FirewallHolds
  BY <1>1 DEF ThreadsInv, StatusFourInv, FirewallHolds, Threads
<1>4. MainInv
  BY DEF MainInv, Monitoring
<1>5. DiskInv
  BY <1>1, FS_EmptySet DEF DiskInv
<1>6. LossInv /\ NoHitLost
  <2>1. Lost = {} /\ {K \in epochs : K \cap Lost # {}} = {}
    BY DEF Lost
  <2>2. QED
    BY <2>1, FS_EmptySet DEF LossInv, NoHitLost
<1>7. QED
  BY <1>1, <1>2, <1>3, <1>4, <1>5, <1>6 DEF IInv

-----------------------------------------------------------------------------
(* The runner and the search threads *)

\* The steps of the runner thread preserve the inductive invariant.
LEMMA RunnerIInv ==
  ASSUME IInv, Runner
  PROVE  IInv'
<1> USE DEF Runner, RunnerStart, RunnerJoin, RunnerFinish, runnerOnly, options, mainVars,
            chanVars
<1>1. WriterInv' /\ FirewallHolds' /\ CompleteKeys' = CompleteKeys
  BY DiskFrame
<1>2. RunTypeOK'
  BY DEF IInv, RunTypeOK, RunnerPc, ThreadPc
<1>3. ThreadsInv'
  <2> USE DEF IInv, RunTypeOK, ThreadsInv
  <2>1. CASE RunnerStart
    BY <2>1, RunAssumption DEF Threads
  <2>2. CASE RunnerJoin
    BY <2>2
  <2>3. CASE RunnerFinish
    BY <2>3
  <2>4. QED
    BY <2>1, <2>2, <2>3
<1>4. StatusFourInv'
  BY DEF IInv, StatusFourInv, ThreadsInv
<1>5. MainInv' /\ DiskInv'
  BY <1>1 DEF IInv, MainInv, DiskInv, Verifies, writerVars
<1>6. LossInv' /\ NoHitLost'
  <2>1. \A k \in Keys : Held(k) => Held(k)'
    BY <1>1 DEF Held
  <2>2. QED
    BY <2>1, NothingMoreLost
<1>7. QED
  BY <1>1, <1>2, <1>3, <1>4, <1>5, <1>6 DEF IInv

\* A batch of a CPU worker: the key it comes upon is about to be pushed.
LEMMA SearchBatchLosesNothing ==
  ASSUME IInv, NEW t \in Threads, SearchBatch(t), CompleteKeys' = CompleteKeys
  PROVE  LossInv' /\ NoHitLost'
<1> USE DEF SearchBatch, threadOnly, options, mainVars, lossVars
<1>1. ASSUME NEW k \in Keys, Held(k)
      PROVE  Held(k)'
  <2>1. pending[t] = {} /\ \A s \in Threads \ {t} : pending'[s] = pending[s]
    BY DEF IInv, ThreadsInv, RunTypeOK
  <2>2. QED
    BY <1>1, <2>1 DEF Held
<1>2. CASE UNCHANGED <<pending, fresh>>
  BY <1>1, <1>2, NothingMoreLost
<1>3. CASE \E k \in Seeming(t) : \E hits \in Reports(t, k) :
             /\ pending' = [pending EXCEPT ![t] = hits]
             /\ fresh' = fresh \ {k}
  <2>1. PICK k \in Seeming(t) : \E hits \in Reports(t, k) :
               /\ pending' = [pending EXCEPT ![t] = hits]
               /\ fresh' = fresh \ {k}
    BY <1>3
  <2>2. k \in fresh /\ k \in Keys
    BY DEF Seeming, IInv, RunTypeOK
  <2>3. Matching[k] # {} /\ k \notin degenerate => Held(k)'
    <3>1. PICK hits \in Reports(t, k) : pending' = [pending EXCEPT ![t] = hits]
      BY <2>1
    <3>2. pending'[t] = hits
      BY <3>1 DEF IInv, RunTypeOK
    <3>3. QED
      BY <2>2, <3>2, ReportsCarryTheKey DEF Held
  <2>4. Lost' \subseteq Lost
    BY <1>1, <2>1, <2>2, <2>3 DEF Lost
  <2>5. LossInv'
    BY <2>1 DEF IInv, LossInv
  <2> DEFINE c == Cardinality(Lossy(epochs, Lost))
             d == Cardinality(Lossy(epochs, Lost'))
  <2>6. c \in Nat /\ d \in Nat /\ d <= c
    BY <2>4, FewerLossyEpochs DEF IInv, LossInv
  <2>7. dropped \in Nat /\ hit_overflow_events \in Nat
    BY DEF IInv, LossInv
  <2>8. pc \in {"loop", "popping", "popped", "writing"} =>
          Lost \subseteq UNION epochs /\ c <= dropped + hit_overflow_events
    BY DEF IInv, NoHitLost, Lossy
  <2> HIDE DEF c, d
  <2>9. pc \in {"loop", "popping", "popped", "writing"} =>
          Lost' \subseteq UNION epochs /\ d <= dropped + hit_overflow_events
    BY <2>4, <2>6, <2>7, <2>8
  <2>10. QED
    BY <2>5, <2>9 DEF d, NoHitLost, Lossy
<1>4. QED
  BY <1>2, <1>3

\* An epoch of the GPU: what its drain does not push is counted, once as a
\* failed drain or once as an overflow.
LEMMA SearchEpochCountsLosses ==
  ASSUME IInv, NEW t \in Threads, SearchEpoch(t), CompleteKeys' = CompleteKeys
  PROVE  LossInv' /\ NoHitLost'
<1> USE DEF threadOnly, options, mainVars
<1>1. PICK K0 \in SUBSET Seeming(t) : Meet(K0) /\ Drain(t, K0)
  BY DEF SearchEpoch
<1>2. UNCHANGED <<options, mainVars, queue, got>> /\ thread[t] = "searching"
  BY DEF SearchEpoch
<1>3. K0 \subseteq fresh /\ fresh \subseteq Keys /\ K0 \in SUBSET Keys
  BY DEF Seeming, IInv, RunTypeOK
<1>4. /\ fresh' = fresh \ K0
      /\ epochs' = IF K0 = {} THEN epochs ELSE epochs \cup {K0}
  BY <1>1 DEF Meet
<1>5. /\ IsFiniteSet(epochs) /\ \A K \in epochs : K \subseteq Keys \ fresh
      /\ dropped \in Nat /\ hit_overflow_events \in Nat
  BY DEF IInv, LossInv
<1>6. Overflow(K0) \in {0, 1}
  BY DEF Overflow
<1>7. \/ /\ K0 # {} /\ dropped' = dropped + 1
         /\ hit_overflow_events' \in {hit_overflow_events, hit_overflow_events + Overflow(K0)}
      \/ /\ dropped' = dropped /\ hit_overflow_events' = hit_overflow_events + 1
      \/ /\ K0 = {} /\ dropped' = dropped
         /\ hit_overflow_events' \in {hit_overflow_events, hit_overflow_events + Overflow(K0)}
      \/ /\ dropped' = dropped /\ hit_overflow_events' = hit_overflow_events
         /\ \E hits \in Harvests(t, K0) : pending' = [pending EXCEPT ![t] = hits]
  <2>1. CASE DrainFails(K0)
    BY <2>1 DEF DrainFails
  <2>2. CASE ~DrainFails(K0)
    <3>1. PICK R \in Recorded(K0) :
            \E hits \in Harvests(t, R) : pending' = [pending EXCEPT ![t] = hits]
      BY <1>1, <2>2 DEF Drain
    <3>2. Overflow(K0) = 0 => R = K0
      BY <1>3, RecordedWinners
    <3>3. dropped' = dropped /\ hit_overflow_events' = hit_overflow_events + Overflow(K0)
      BY <1>1, <2>2 DEF Drain
    <3>4. CASE Overflow(K0) = 1
      BY <3>3, <3>4
    <3>5. CASE Overflow(K0) = 0
      <4>1. \E hits \in Harvests(t, K0) : pending' = [pending EXCEPT ![t] = hits]
        BY <3>1, <3>2, <3>5, Zenon
      <4>2. dropped' = dropped /\ hit_overflow_events' = hit_overflow_events
        BY <1>5, <3>3, <3>5
      <4>3. QED
        BY <4>1, <4>2, Zenon
    <3>6. QED
      BY <1>6, <3>4, <3>5
  <2>3. QED
    BY <2>1, <2>2
<1>8. dropped' \in Nat /\ hit_overflow_events' \in Nat
  BY <1>5, <1>6, <1>7
<1>9. LossInv'
  <2>1. IsFiniteSet(epochs')
    BY <1>4, <1>5, FS_AddElement
  <2>2. \A K \in epochs' : K \subseteq Keys \ fresh'
    BY <1>3, <1>4, <1>5
  <2>3. QED
    BY <1>8, <2>1, <2>2 DEF LossInv
<1>10. ASSUME NEW k \in Keys, Held(k)
       PROVE  Held(k)'
  <2>1. pending[t] = {} /\ \A s \in Threads \ {t} : pending'[s] = pending[s]
    BY <1>1, <1>2 DEF IInv, ThreadsInv, RunTypeOK, Drain, DrainFails
  <2>2. QED
    BY <1>2, <1>10, <2>1 DEF Held
<1>11. Lost' \subseteq Lost \cup K0
  BY <1>2, <1>4, <1>10 DEF Lost
<1>12. \A K \in epochs : K \cap Lost' \subseteq Lost
  BY <1>3, <1>5, <1>11
<1> DEFINE c == Cardinality(Lossy(epochs, Lost))
           d == Cardinality(Lossy(epochs', Lost'))
<1>13. ASSUME pc \in {"loop", "popping", "popped", "writing"}
       PROVE  Lost' \subseteq UNION epochs' /\ d <= dropped' + hit_overflow_events'
  <2>1. Lost \subseteq UNION epochs /\ c <= dropped + hit_overflow_events
    BY <1>13 DEF IInv, NoHitLost, Lossy
  <2>2. Lost' \subseteq UNION epochs'
    BY <1>4, <1>11, <2>1
  <2>3. /\ c \in Nat /\ d \in Nat /\ d <= c + 1
        /\ K0 \cap Lost' = {} => d <= c
    <3>1. CASE K0 = {}
      BY <1>4, <1>5, <1>12, <3>1, FewerLossyEpochs
    <3>2. CASE K0 # {}
      <4>1. epochs' = epochs \cup {K0}
        BY <1>4, <3>2
      <4>2. c \in Nat /\ d \in Nat /\ d <= c + 1
        BY <1>5, <1>12, <4>1, OneMoreLossyEpoch
      <4>3. ASSUME K0 \cap Lost' = {}
            PROVE  d <= c
        <5>1. Lossy(epochs', Lost') = Lossy(epochs, Lost')
          BY <4>1, <4>3 DEF Lossy
        <5>2. QED
          BY <1>5, <1>12, <5>1, FewerLossyEpochs
      <4>4. QED
        BY <4>2, <4>3
    <3>3. QED
      BY <3>1, <3>2
  <2>4. ASSUME NEW hits \in Harvests(t, K0), pending' = [pending EXCEPT ![t] = hits]
        PROVE  K0 \cap Lost' = {}
    <3>1. pending'[t] = hits
      BY <2>4 DEF IInv, RunTypeOK
    <3>2. \A k \in K0 : Matching[k] # {} /\ k \notin degenerate => Held(k)'
      BY <1>3, <3>1, HarvestsCarryTheKeys DEF Held
    <3>3. QED
      BY <1>2, <3>2 DEF Lost
  <2> HIDE DEF c, d
  <2>5. d <= dropped' + hit_overflow_events'
    BY <1>5, <1>6, <1>7, <2>1, <2>3, <2>4
  <2>6. QED
    BY <2>2, <2>5
<1>14. QED
  BY <1>2, <1>9, <1>13 DEF NoHitLost, d, Lossy

\* The steps of search thread t preserve the inductive invariant.
LEMMA EngineIInv ==
  ASSUME IInv, NEW t \in Threads, Engine(t)
  PROVE  IInv'
<1> USE DEF Engine, CheckStop, SearchBatch, SearchEpoch, Push, threadOnly, options, mainVars
<1>1. WriterInv' /\ FirewallHolds' /\ CompleteKeys' = CompleteKeys
  BY DiskFrame
<1>2. RunTypeOK'
  <2> USE DEF IInv, RunTypeOK, ThreadPc
  <2>1. CASE CheckStop(t)
    <3>1. thread' \in [Threads -> ThreadPc]
      BY <2>1
    <3>2. UNCHANGED <<options, mainVars, interrupted, stop, engineDone, runner, live,
                      pending, fresh, queue, got>>
      BY <2>1
    <3>3. QED
      BY <3>1, <3>2
  <2>2. CASE SearchBatch(t)
    <3>1. pending' \in [Threads -> SUBSET Candidates] /\ fresh' \in SUBSET Keys
      BY <2>2, ReportsCarryTheKey DEF Seeming
    <3>2. thread' \in [Threads -> ThreadPc]
      BY <2>2
    <3>3. UNCHANGED <<options, mainVars, interrupted, stop, engineDone, runner, live, queue, got>>
      BY <2>2
    <3>4. QED
      BY <3>1, <3>2, <3>3
  <2>3. CASE SearchEpoch(t)
    <3>1. PICK K \in SUBSET Seeming(t) : Meet(K) /\ Drain(t, K)
      BY <2>3
    <3>2. K \in SUBSET Keys /\ fresh' \in SUBSET Keys
      BY <3>1 DEF Seeming, Meet
    <3>3. pending' \in [Threads -> SUBSET Candidates]
      <4>1. CASE UNCHANGED pending
        BY <4>1
      <4>2. CASE \E R \in Recorded(K) : \E hits \in Harvests(t, R) :
                   pending' = [pending EXCEPT ![t] = hits]
        BY <3>2, <4>2, RecordedWinners, HarvestsCarryTheKeys
      <4>3. QED
        BY <3>1, <4>1, <4>2 DEF Drain, DrainFails
    <3>4. thread' \in [Threads -> ThreadPc] /\ live' \in [Threads -> BOOLEAN]
      BY <2>3
    <3>5. UNCHANGED <<options, mainVars, interrupted, stop, engineDone, runner, queue, got>>
      BY <2>3
    <3>6. QED
      BY <3>2, <3>3, <3>4, <3>5
  <2>4. CASE Push(t)
    <3>1. PICK c \in pending[t] :
            queue' = Append(queue, c) /\ pending' = [pending EXCEPT ![t] = @ \ {c}]
      BY <2>4 DEF Channel!Push
    <3>2. queue' \in Seq(Candidates)
      BY <3>1, AppendProperties
    <3>3. QED
      BY <2>4, <3>1, <3>2
  <2>5. QED
    BY <2>1, <2>2, <2>3, <2>4
<1>3. ThreadsInv'
  <2> USE DEF IInv, RunTypeOK, ThreadsInv
  <2>1. CASE CheckStop(t)
    BY <2>1, RunAssumption DEF Threads
  <2>2. CASE SearchBatch(t)
    BY <2>2, ZenonT(30) DEF Threads
  <2>3. CASE SearchEpoch(t)
    <3>1. \A s \in Threads \ {t} : pending'[s] = pending[s] /\ live'[s] = live[s]
      BY <2>3 DEF Drain, DrainFails
    <3>2. /\ thread' = [thread EXCEPT ![t] = "pushing"] /\ t \notin Cpu
          /\ thread[t] = "searching"
      BY <2>3, RunAssumption
    <3>3. UNCHANGED <<options, mainVars, stop, engineDone, runner>>
      BY <2>3
    <3>4. QED
      BY <3>1, <3>2, <3>3 DEF Threads
  <2>4. CASE Push(t)
    BY <2>4 DEF Threads
  <2>5. QED
    BY <2>1, <2>2, <2>3, <2>4
<1>4. StatusFourInv' /\ MainInv' /\ DiskInv'
  <2>1. UNCHANGED <<options, mainVars, interrupted, engineDone, got, wpc, wkey>>
    BY DEF writerVars
  <2>2. QED
    BY <1>1, <2>1 DEF IInv, StatusFourInv, MainInv, DiskInv, Verifies, writerVars
<1>5. LossInv' /\ NoHitLost'
  <2>1. CASE CheckStop(t)
    <3>1. \A k \in Keys : Held(k) => Held(k)'
      BY <1>1, <2>1 DEF Held
    <3>2. QED
      BY <2>1, <3>1, NothingMoreLost
  <2>2. CASE SearchBatch(t)
    BY <1>1, <2>2, SearchBatchLosesNothing
  <2>3. CASE SearchEpoch(t)
    BY <1>1, <2>3, SearchEpochCountsLosses
  <2>4. CASE Push(t)
    <3>1. PICK c \in pending[t] :
            queue' = Append(queue, c) /\ pending' = [pending EXCEPT ![t] = @ \ {c}]
      BY <2>4 DEF Channel!Push
    <3>2. /\ Len(queue') = Len(queue) + 1 /\ queue'[Len(queue) + 1] = c
          /\ \A i \in 1..Len(queue) : queue'[i] = queue[i]
      BY <3>1, AppendProperties DEF IInv, RunTypeOK
    <3>3. \A k \in Keys : Held(k) => Held(k)'
      BY <1>1, <2>4, <3>1, <3>2, LenProperties DEF Held, IInv, RunTypeOK
    <3>4. QED
      BY <2>4, <3>3, NothingMoreLost
  <2>5. QED
    BY <2>1, <2>2, <2>3, <2>4
<1>6. QED
  BY <1>1, <1>2, <1>3, <1>4, <1>5 DEF IInv

-----------------------------------------------------------------------------
(* main() *)

\* The steps of the monitor loop that have no candidate in hand.
LEMMA LoopIInv ==
  ASSUME IInv, BenchEnds \/ LoopTest \/ PopReturns \/ NoCandidate
  PROVE  IInv'
<1> USE DEF BenchEnds, LoopTest, PopReturns, NoCandidate, mainOnly, options, engineVars,
            Channel!PopStart, Channel!Pop, Channel!PopTimeout, chanVars
<1>1. /\ WriterInv' /\ FirewallHolds' /\ CompleteKeys' = CompleteKeys
      /\ UNCHANGED <<wpc, wkey>>
  BY DiskFrame DEF writerVars
<1>2. RunTypeOK'
  <2> USE DEF IInv, RunTypeOK, MainPc
  <2>1. CASE Channel!Pop /\ PopReturns
    <3>1. Head(queue) \in Candidates /\ Tail(queue) \in Seq(Candidates)
      BY <2>1, HeadTailProperties
    <3>2. QED
      BY <2>1, <3>1
  <2>2. CASE BenchEnds \/ LoopTest \/ (PopReturns /\ Channel!PopTimeout) \/ NoCandidate
    BY <2>2
  <2>3. QED
    BY <2>1, <2>2
<1>3. ThreadsInv'
  BY DEF IInv, RunTypeOK, ThreadsInv
<1>4. StatusFourInv'
  BY RunAssumption DEF IInv, RunTypeOK, StatusFourInv, ThreadsInv, Threads, MainInv, Monitoring
<1>5. MainInv'
  <2> USE DEF IInv, RunTypeOK, MainInv, Monitoring, Verifies
  <2>1. CASE BenchEnds \/ LoopTest
    BY <1>1, <2>1
  <2>2. CASE PopReturns
    <3>1. got' \in Candidates \cup {Nothing}
      BY <2>2, HeadTailProperties
    <3>2. QED
      BY <1>1, <2>2, <3>1
  <2>3. CASE NoCandidate
    BY <1>1, <2>3
  <2>4. QED
    BY <2>1, <2>2, <2>3
<1>6. DiskInv'
  BY <1>1 DEF IInv, DiskInv
<1>7. LossInv' /\ NoHitLost'
  <2> SUFFICES ASSUME pc' \in {"loop", "popping", "popped", "writing"},
                      NEW k \in Keys, Held(k)
               PROVE  Held(k)'
    BY NothingMoreLost
  <2>1. Held(k)
    OBVIOUS
  <2>2. CASE PopReturns /\ Channel!Pop
    <3>1. /\ got' = queue[1] /\ Len(queue') = Len(queue) - 1
          /\ \A i \in 2..Len(queue) : queue[i] = queue'[i - 1]
          /\ Len(queue) \in Nat \ {0} /\ got' \in Candidates
      BY <2>2, HeadTailProperties, LenProperties DEF IInv, RunTypeOK
    <3>2. CASE queue[1].secret = k
      BY <2>2, <3>1, <3>2 DEF Held
    <3>3. ASSUME NEW i \in 2..Len(queue), queue[i].secret = k
          PROVE  Held(k)'
      <4>1. i - 1 \in 1..Len(queue') /\ queue'[i - 1].secret = k
        BY <3>1, <3>3
      <4>2. QED
        BY <4>1 DEF Held
    <3>4. CASE ~ \E i \in 1..Len(queue) : queue[i].secret = k
      <4>1. UNCHANGED pending /\ pc = "popping"
        BY <2>2
      <4>2. QED
        BY <1>1, <2>1, <3>4, <4>1 DEF Held
    <3>5. QED
      BY <3>1, <3>2, <3>3, <3>4
  <2>3. CASE BenchEnds \/ LoopTest \/ (PopReturns /\ Channel!PopTimeout) \/ NoCandidate
    <3>1. UNCHANGED <<pending, queue>> /\ pc # "writing" /\ (pc = "popped" => got = Nothing)
      BY <2>3
    <3>2. QED
      BY <1>1, <2>1, <3>1, ResultAssumption DEF Held
  <2>4. QED
    BY <2>2, <2>3
<1>8. QED
  BY <1>1, <1>2, <1>3, <1>4, <1>5, <1>6, <1>7 DEF IInv

\* The firewall: a candidate goes to the writer if it verifies, and ends the
\* run if it does not.
LEMMA CandidateIInv ==
  ASSUME IInv, HandleCandidate \/ RejectCandidate
  PROVE  IInv'
<1> USE DEF mainOnly, options, engineVars, chanVars
<1>1. CASE HandleCandidate
  <2> USE <1>1 DEF HandleCandidate
  <2>1. /\ got.secret \in Keys /\ WriteTorKeys(got.secret) /\ UNCHANGED dirs
        /\ wpc' = "directory" /\ wkey' = got.secret
    BY DEF Candidates, WriteTorKeys
  <2>2. WriterInv' /\ CompleteKeys' = CompleteKeys
    BY <2>1, WriterCallInv DEF IInv
  <2>3. RunTypeOK' /\ ThreadsInv' /\ StatusFourInv'
    BY DEF IInv, RunTypeOK, ThreadsInv, StatusFourInv, MainPc
  <2>4. MainInv' /\ FirewallHolds'
    BY <2>1 DEF IInv, MainInv, Monitoring, Verifies, FirewallHolds
  <2>5. DiskInv'
    BY <2>1, <2>2 DEF IInv, DiskInv
  <2>6. LossInv' /\ NoHitLost'
    <3>1. \A k \in Keys : Held(k) => Held(k)'
      BY <2>2 DEF Held
    <3>2. QED
      BY <3>1, NothingMoreLost
  <2>7. QED
    BY <2>2, <2>3, <2>4, <2>5, <2>6 DEF IInv
<1>2. CASE RejectCandidate
  <2> USE <1>2 DEF RejectCandidate
  <2>1. /\ WriterInv' /\ FirewallHolds' /\ CompleteKeys' = CompleteKeys
        /\ UNCHANGED <<wpc, wkey>>
    BY DiskFrame DEF writerVars
  <2>2. RunTypeOK' /\ ThreadsInv' /\ StatusFourInv'
    BY DEF IInv, RunTypeOK, ThreadsInv, StatusFourInv, MainPc
  <2>3. MainInv'
    BY <2>1 DEF IInv, RunTypeOK, MainInv, Monitoring, Verifies
  <2>4. DiskInv'
    BY <2>1 DEF IInv, DiskInv
  <2>5. LossInv' /\ NoHitLost'
    BY NothingMoreLost
  <2>6. QED
    BY <2>1, <2>2, <2>3, <2>4, <2>5 DEF IInv
<1>3. QED
  BY <1>1, <1>2

\* A step of write_tor_keys: the set of usable keys grows, by one key, exactly
\* when the call returns "ok".
LEMMA WriteIInv ==
  ASSUME IInv, Write
  PROVE  IInv'
<1> USE DEF Write, mainOnly, mainVars, options, engineVars, chanVars
<1>1. /\ WriterInv' /\ UNCHANGED wkey /\ wpc \notin Returned
      /\ \/ /\ wpc' = "ok" /\ wkey \in Keys \ CompleteKeys
            /\ CompleteKeys' = CompleteKeys \cup {wkey}
         \/ wpc' # "ok" /\ CompleteKeys' = CompleteKeys
  <2> USE DEF IInv, Returned, Failed
  <2>1. CASE MakeDirectory
    BY <2>1, MakeDirectoryInv DEF MakeDirectory
  <2>2. CASE OpenFile
    BY <2>2, OpenFileInv DEF OpenFile
  <2>3. CASE WriteFile
    BY <2>3, WriteFileInv DEF WriteFile
  <2>4. QED
    BY <2>1, <2>2, <2>3 DEF WriterStep
<1>2. RunTypeOK' /\ ThreadsInv' /\ StatusFourInv'
  BY DEF IInv, RunTypeOK, ThreadsInv, StatusFourInv
<1>3. MainInv'
  BY <1>1 DEF IInv, MainInv, Monitoring, Verifies
<1>4. FirewallHolds'
  <2>1. Matching[wkey] # {}
    BY DEF IInv, MainInv, Verifies
  <2>2. dirs' \in {dirs, dirs \cup {wkey}}
    BY DEF WriterStep, MakeDirectory, OpenFile, WriteFile
  <2>3. QED
    BY <2>1, <2>2 DEF IInv, FirewallHolds
<1>5. DiskInv'
  BY <1>1, FS_AddElement DEF IInv, DiskInv, Returned
<1>6. LossInv' /\ NoHitLost'
  <2>1. \A k \in Keys : Held(k) => Held(k)'
    BY <1>1 DEF Held
  <2>2. QED
    BY <2>1, NothingMoreLost
<1>7. QED
  BY <1>1, <1>2, <1>3, <1>4, <1>5, <1>6 DEF IInv

\* What main() does with the result of write_tor_keys.
LEMMA WrittenIInv ==
  ASSUME IInv, Written
  PROVE  IInv'
<1> USE DEF Written, mainOnly, options, engineVars, chanVars
<1>1. /\ WriterInv' /\ FirewallHolds' /\ CompleteKeys' = CompleteKeys
      /\ UNCHANGED <<wpc, wkey>>
  BY DiskFrame DEF writerVars
<1>2. RunTypeOK' /\ ThreadsInv' /\ StatusFourInv'
  BY DEF IInv, RunTypeOK, ThreadsInv, StatusFourInv, MainPc
<1>3. MainInv'
  BY <1>1 DEF IInv, RunTypeOK, MainInv, Monitoring, Verifies
<1>4. DiskInv'
  BY <1>1 DEF IInv, DiskInv, Failed
<1>5. LossInv' /\ NoHitLost'
  <2>1. pc' = "loop" => \A k \in Keys : Held(k) => Held(k)'
    BY <1>1 DEF IInv, Held, MainInv, WriterInv, WriteCallInv
  <2>2. QED
    BY <2>1, NothingMoreLost
<1>6. QED
  BY <1>1, <1>2, <1>3, <1>4, <1>5 DEF IInv

\* Leaving main(): the stop is asked for, then the runner is joined.
LEMMA LeaveIInv ==
  ASSUME IInv, RequestStop \/ Join
  PROVE  IInv'
<1> USE DEF RequestStop, Join, mainOnly, options, engineVars, chanVars
<1>1. /\ WriterInv' /\ FirewallHolds' /\ CompleteKeys' = CompleteKeys
      /\ UNCHANGED <<wpc, wkey>>
  BY DiskFrame DEF writerVars
<1>2. RunTypeOK' /\ StatusFourInv'
  BY DEF IInv, RunTypeOK, StatusFourInv, MainPc
<1>3. ThreadsInv'
  <2> USE DEF IInv, ThreadsInv
  <2>1. CASE RequestStop
    BY <2>1
  <2>2. CASE Join
    BY <2>2
  <2>3. QED
    BY <2>1, <2>2
<1>4. MainInv' /\ DiskInv'
  BY <1>1 DEF IInv, MainInv, Monitoring, Verifies, DiskInv
<1>5. LossInv' /\ NoHitLost'
  BY NothingMoreLost
<1>6. QED
  BY <1>1, <1>2, <1>3, <1>4, <1>5 DEF IInv

\* Ctrl+C at any time, and a step in which nothing happens.
LEMMA QuietIInv ==
  ASSUME IInv, Sigint \/ UNCHANGED vars
  PROVE  IInv'
<1> USE DEF Sigint, vars, mainVars, options, engineVars, chanVars
<1>1. /\ WriterInv' /\ FirewallHolds' /\ CompleteKeys' = CompleteKeys
      /\ UNCHANGED <<wpc, wkey>>
  BY DiskFrame DEF writerVars
<1>2. /\ UNCHANGED <<options, mainVars, stop, engineDone, runner, engineVars, chanVars>>
      /\ interrupted' \in BOOLEAN /\ (interrupted => interrupted')
  BY DEF IInv, RunTypeOK
<1>3. RunTypeOK' /\ ThreadsInv' /\ StatusFourInv'
  BY <1>2 DEF IInv, RunTypeOK, ThreadsInv, StatusFourInv
<1>4. MainInv' /\ DiskInv'
  BY <1>1, <1>2 DEF IInv, MainInv, Monitoring, Verifies, DiskInv
<1>5. LossInv' /\ NoHitLost'
  <2>1. \A k \in Keys : Held(k) => Held(k)'
    BY <1>1, <1>2 DEF Held
  <2>2. QED
    BY <1>2, <2>1, NothingMoreLost
<1>6. QED
  BY <1>1, <1>3, <1>4, <1>5 DEF IInv

-----------------------------------------------------------------------------

\* The inductive invariant holds in every state of a run.
THEOREM RunInvariance == Spec => []IInv
<1>1. IInv /\ [Next]_vars => IInv'
  BY LoopIInv, CandidateIInv, WriteIInv, WrittenIInv, LeaveIInv, RunnerIInv, EngineIInv,
     QuietIInv DEF Next, Main, Exited
<1>2. QED
  BY InitIInv, <1>1, PTL DEF Spec

\* Whatever an engine pushes, a directory is created only for a key that
\* matches one of the prefixes (io::verify before write_tor_keys).
THEOREM FirewallAlwaysHolds == Spec => []FirewallHolds
<1>1. IInv => FirewallHolds
  BY DEF IInv
<1>2. QED
  BY RunInvariance, <1>1, PTL

\* main()'s count of keys found is the number of usable directories on disk,
\* whatever the engines report twice and whichever system call fails.
THEOREM FoundIsAlwaysOnDisk == Spec => []FoundIsOnDisk
<1>1. IInv => FoundIsOnDisk
  BY DEF IInv, DiskInv, FoundIsOnDisk
<1>2. QED
  BY RunInvariance, <1>1, PTL

\* While the run goes on, no matching key that libsodium derives is lost but in
\* an epoch of the GPU, and each epoch that loses one is counted, as a failed
\* drain (dropped_epoch_errors) or as an overflow of the hit slots.
THEOREM HitsAreNeverLost == Spec => []NoHitLost
<1>1. IInv => NoHitLost
  BY DEF IInv
<1>2. QED
  BY RunInvariance, <1>1, PTL

\* The exit status main() returns is the reason it left the loop for.
THEOREM ExitStatusIsAlwaysTrue == Spec => []ExitStatusIsTrue
<1>1. IInv => ExitStatusIsTrue
  BY DEF IInv, MainInv, Monitoring, ExitStatusIsTrue
<1>2. QED
  BY RunInvariance, <1>1, PTL

\* CompositeEngine: one engine that dies never ends the run while the threads
\* of another search.
THEOREM DegradesGracefullyAlways == Spec => []DegradesGracefully
<1>1. IInv => DegradesGracefully
  BY DEF IInv, StatusFourInv, ThreadsInv, DegradesGracefully
<1>2. QED
  BY RunInvariance, <1>1, PTL

\* The runner and every search thread have returned when main() does.
THEOREM ThreadsEndBeforeMain == Spec => []NoThreadOutlivesMain
<1>1. IInv => NoThreadOutlivesMain
  BY DEF IInv, ThreadsInv, NoThreadOutlivesMain
<1>2. QED
  BY RunInvariance, <1>1, PTL

\* A second result for the same address, and a failed write, never change a
\* key file that is whole (O_EXCL in write_tor_keys).
THEOREM FilesAreNeverOverwritten == Spec => NeverOverwritten
<1>1. ASSUME IInv, [Next]_vars
      PROVE  [\A k \in Keys : \A i \in 1..Len(Files) :
                file[k][i] = Complete => file'[k][i] = Complete]_writerVars
  <2> DEFINE Kept == \A k \in Keys : \A i \in 1..Len(Files) :
                       file[k][i] = Complete => file'[k][i] = Complete
  <2> SUFFICES Kept \/ UNCHANGED writerVars
    OBVIOUS
  <2> HIDE DEF Kept
  <2>1. CASE Write
    <3>1. WriterInv /\ WriterStep
      BY <1>1, <2>1 DEF Write, IInv
    <3>2. QED
      BY <3>1, StepKeepsWholeFiles DEF Kept
  <2>2. CASE HandleCandidate
    BY <2>2 DEF HandleCandidate, WriteTorKeys, Kept
  <2>3. CASE UNCHANGED writerVars
    BY <2>3
  <2>4. ASSUME Main
        PROVE  Write \/ HandleCandidate \/ UNCHANGED writerVars
    BY <2>4 DEF Main, BenchEnds, LoopTest, PopReturns, RejectCandidate, NoCandidate,
                Written, RequestStop, Join
  <2>5. ASSUME Runner \/ Sigint \/ UNCHANGED vars
        PROVE  UNCHANGED writerVars
    BY <2>5 DEF Runner, RunnerStart, RunnerJoin, RunnerFinish, runnerOnly, Sigint, vars
  <2>6. ASSUME NEW t \in Threads, Engine(t)
        PROVE  UNCHANGED writerVars
    BY <2>6 DEF Engine, CheckStop, SearchBatch, SearchEpoch, Push, threadOnly
  <2>7. QED
    BY <1>1, <2>1, <2>2, <2>3, <2>4, <2>5, <2>6 DEF Next, Exited
<1>2. QED
  BY RunInvariance, <1>1, PTL DEF Spec, NeverOverwritten
================================================================================
