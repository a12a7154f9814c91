----------------------- MODULE IncrementalEngine_proofs -----------------------
(***************************************************************************)
(* Proofs about IncrementalEngine, for every pool, batch and epoch length, *)
(* number of patterns and of matches, and set of scalars without a key:    *)
(* the variables keep their types, and no index leaves the window of the   *)
(* epoch; each match of a batch that has a key is pushed once, with the    *)
(* scalar of the point that matched; and total() neither falls nor counts  *)
(* a point that has not been compared.                                     *)
(***************************************************************************)
EXTENDS IncrementalEngine, SequenceTheorems, FiniteSetTheorems, NaturalsInduction, TLAPS

\* Division with remainder: the batches of an epoch fit into it.
LEMMA BatchesFit ==
  /\ Batches \in Nat
  /\ Batches * Batch <= EpochCandidates
<1> USE EngineAssumption
<1>1. /\ EpochCandidates % Batch \in 0..Batch-1
      /\ EpochCandidates = Batch * (EpochCandidates \div Batch) + (EpochCandidates % Batch)
  OBVIOUS
<1>2. PICK q \in Int, r \in 0..Batch-1 :
        q = EpochCandidates \div Batch /\ EpochCandidates = Batch * q + r
  BY <1>1
<1>3. ~(q < 0)
  <2>1. ASSUME q < 0
        PROVE  Batch * q <= -Batch
    BY <2>1
  <2>2. QED
    BY <2>1, <1>2
<1>4. q * Batch = Batch * q
  BY <1>2
<1>5. QED
  BY <1>2, <1>3, <1>4 DEF Batches

\* Whatever batch is next, its points lie in the epoch.
LEMMA BatchInEpoch ==
  ASSUME NEW n \in Nat, n < Batches
  PROVE  n + 1 \in 0..Batches /\ n * Batch \in 0..EpochCandidates
           /\ (n + 1) * Batch \in 0..EpochCandidates /\ (n + 1) * Batch = n * Batch + Batch
<1> USE EngineAssumption
<1>1. PICK m \in Nat : m = Batches /\ m * Batch <= EpochCandidates
  BY BatchesFit
<1>2. PICK d \in Nat : m = n + 1 + d
  <2>1. m - (n + 1) \in Nat /\ m = n + 1 + (m - (n + 1))
    BY <1>1
  <2>2. QED
    BY <2>1
<1>3. m * Batch = n * Batch + Batch + d * Batch
  BY <1>2
<1>4. n * Batch \in Nat /\ d * Batch \in Nat
  BY <1>1, <1>2
<1>5. (n + 1) * Batch = n * Batch + Batch
  OBVIOUS
<1>6. QED
  BY <1>1, <1>2, <1>3, <1>4, <1>5

\* There are only so many places for a match.
LEMMA PlacesFinite ==
  ASSUME NEW l \in Nat
  PROVE  IsFiniteSet(Places(l))
<1> USE EngineAssumption
<1> DEFINE A == 0..l-1
           B == 0..Batch-1
           C == 0..NumPatterns-1
           f == [t \in A \X B \X C |-> <<<<t[1], t[2]>>, t[3]>>]
<1>1. IsFiniteSet(A) /\ IsFiniteSet(B) /\ IsFiniteSet(C)
  BY FS_Interval
<1>2. IsFiniteSet((A \X B) \X C)
  BY <1>1, FS_Product
<1> HIDE DEF A, B, C
<1>3. f \in Injection(A \X B \X C, (A \X B) \X C)
  BY DEF Injection, IsInjective
<1>4. QED
  BY <1>2, <1>3, FS_Injection DEF Places, A, B, C

\* A batch's matches are a finite set of places.
LEMMA FoundIsFinite ==
  ASSUME pool \in Pools, NEW h \in MatchSets[Lanes]
  PROVE  h \subseteq Places(Lanes) /\ IsFiniteSet(h)
<1> USE EngineAssumption
<1>1. Lanes \in Nat /\ Lanes \in {p.lanes : p \in Pools}
  BY DEF Lanes
<1>2. h \subseteq Places(Lanes)
  BY <1>1 DEF MatchSets, kSubset
<1>3. QED
  BY <1>1, <1>2, PlacesFinite, FS_Subset

-----------------------------------------------------------------------------
(* The inductive invariant of the workers *)

\* What a worker pushes.
Candidates == [a0 : Nat, lane : Nat, i : Nat, pattern : Nat]

\* TypeOK, but for the counting; found and hits lie in the batch.
SearchTypeOK ==
  /\ pool \in Pools /\ stop \in BOOLEAN
  /\ wpc \in [Workers -> WorkerPc]
  /\ epochs \in [Workers -> 0..MaxEpochs] /\ a0 \in [Workers -> 0..MaxEpochs]
  /\ b \in [Workers -> 0..Batches]
  /\ cur \in [Workers -> 0..EpochCandidates] /\ consumed \in [Workers -> 0..EpochCandidates]
  /\ base_index \in [Workers -> 0..EpochCandidates] /\ ybase \in [Workers -> 0..EpochCandidates]
  /\ found \in [Workers -> SUBSET Places(Lanes)] /\ hits \in [Workers -> SUBSET Places(Lanes)]
  /\ pushed \in [Workers -> Seq(Candidates)]

\* How far the walk of worker w has got: the stepper's index and the engine's
\* agree, both follow from the number of batches, and a0 is the epoch's.
Walk(w) ==
  /\ wpc[w] \in {"epoch", "matching"} => a0[w] = epochs[w] /\ epochs[w] > 0
  /\ consumed[w] = cur[w]
  /\ wpc[w] = "matching" =>
       b[w] < Batches /\ ybase[w] = b[w] * Batch /\ base_index[w] = ybase[w]
         /\ cur[w] = (b[w] + 1) * Batch
  /\ wpc[w] # "matching" =>
       cur[w] = b[w] * Batch /\ found[w] = {} /\ hits[w] = {} /\ pushed[w] = <<>>
  /\ epochs[w] = 0 => b[w] = 0

\* The matches of w's batch that have a key are those still to push and those
\* pushed.
Pushed(w) == {pushed[w][n] : n \in 1..Len(pushed[w])}
DueHits(w) == Due(w, hits[w])
DueFound(w) == Due(w, found[w])
Delivered(w) ==
  /\ IsFiniteSet(found[w]) /\ hits[w] \subseteq found[w]
  /\ Len(pushed[w]) + Cardinality(DueHits(w)) = Cardinality(DueFound(w))
  /\ Pushed(w) \cup {Matched(w, p) : p \in DueHits(w)} = {Matched(w, p) : p \in DueFound(w)}

SearchInv == SearchTypeOK /\ \A w \in Workers : Walk(w) /\ Delivered(w)

\* Before the first epoch nothing has been searched.
LEMMA InitSearchInv == Init => SearchInv
<1> SUFFICES ASSUME Init
             PROVE  SearchInv
  OBVIOUS
<1> USE EngineAssumption DEF Init
<1>1. SearchTypeOK
  <2>1. 0 \in 0..Batches /\ 0 \in 0..EpochCandidates /\ 0 \in 0..MaxEpochs
    BY BatchesFit
  <2>2. "checking" \in WorkerPc
    BY DEF WorkerPc
  <2>3. <<>> \in Seq(Candidates)
    OBVIOUS
  <2>4. QED
    BY <2>1, <2>2, <2>3 DEF SearchTypeOK, Wiped
<1>2. ASSUME NEW w \in Workers
      PROVE  Walk(w) /\ Delivered(w)
  <2>1. 0 * Batch = 0
    OBVIOUS
  <2>2. Walk(w)
    BY <2>1 DEF Walk
  <2>3. found[w] = {} /\ hits[w] = {} /\ pushed[w] = <<>>
    OBVIOUS
  <2>4. QED
    BY <2>2, <2>3, FS_EmptySet DEF Delivered, Pushed, DueHits, DueFound, Due
<1>3. QED
  BY <1>1, <1>2 DEF SearchInv

\* What a step of one worker leaves alone.
LEMMA OtherWorkers ==
  ASSUME NEW w \in Workers, pool' = pool,
         wpc'[w] = wpc[w], a0'[w] = a0[w], epochs'[w] = epochs[w], b'[w] = b[w],
         cur'[w] = cur[w], consumed'[w] = consumed[w], base_index'[w] = base_index[w],
         ybase'[w] = ybase[w], found'[w] = found[w], hits'[w] = hits[w],
         pushed'[w] = pushed[w]
  PROVE  (Walk(w) => Walk(w)') /\ (Delivered(w) => Delivered(w)')
<1>1. Walk(w) => Walk(w)'
  BY DEF Walk
<1>2. \A p : Matched(w, p)' = Matched(w, p)
  BY DEF Matched
<1>3. Pushed(w)' = Pushed(w)
  BY DEF Pushed
<1>4. DueHits(w)' = DueHits(w) /\ DueFound(w)' = DueFound(w)
  BY <1>2 DEF DueHits, DueFound, Due, IsKey
<1>5. Delivered(w) => Delivered(w)'
  BY <1>2, <1>3, <1>4 DEF Delivered
<1>6. QED
  BY <1>1, <1>5

-----------------------------------------------------------------------------
(* The workers' steps *)

\* A new epoch starts at index 0, with a base scalar of its own.
LEMMA NewEpochSearchInv ==
  ASSUME SearchInv, NEW w \in Workers, NewEpoch(w), pool' = pool
  PROVE  SearchInv'
<1> USE EngineAssumption
<1>1. SearchTypeOK'
  <2>1. epochs[w] + 1 \in 0..MaxEpochs
    BY DEF NewEpoch, SearchInv, SearchTypeOK
  <2>2. 0 \in 0..Batches /\ 0 \in 0..EpochCandidates /\ "epoch" \in WorkerPc
    BY BatchesFit DEF WorkerPc
  <2>3. QED
    BY <2>1, <2>2 DEF NewEpoch, SearchInv, SearchTypeOK, Workers, Lanes
<1>2. ASSUME NEW v \in Workers, v # w
      PROVE  Walk(v)' /\ Delivered(v)'
  BY <1>2, OtherWorkers DEF NewEpoch, SearchInv, SearchTypeOK
<1>3. Walk(w)' /\ Delivered(w)'
  <2>1. /\ wpc[w] = "checking" /\ wpc'[w] = "epoch" /\ cur'[w] = 0 /\ consumed'[w] = 0 /\ b'[w] = 0
        /\ a0'[w] = epochs'[w] /\ epochs'[w] > 0
        /\ found'[w] = {} /\ hits'[w] = {} /\ pushed'[w] = <<>>
    BY DEF NewEpoch, SearchInv, SearchTypeOK, Walk
  <2>2. 0 * Batch = 0
    OBVIOUS
  <2>3. QED
    BY <2>1, <2>2, FS_EmptySet DEF Walk, Delivered, Pushed, DueHits, DueFound, Due
<1>4. QED
  BY <1>1, <1>2, <1>3 DEF SearchInv, Workers

\* The end of an epoch, and of the worker, changes where it is, and wipes a0.
LEMMA LeaveSearchInv ==
  ASSUME SearchInv, NEW w \in Workers, Return(w) \/ EndEpoch(w), pool' = pool
  PROVE  SearchInv'
<1> USE EngineAssumption
<1>1. UNCHANGED <<stop, epochs, b, cur, consumed, base_index, ybase, found, hits, pushed>>
  BY DEF Return, EndEpoch
<1>2. \E x \in {"checking", "returned"}, y \in {a0[w], Wiped} :
        wpc' = [wpc EXCEPT ![w] = x] /\ a0' = [a0 EXCEPT ![w] = y]
  BY DEF Return, EndEpoch, SearchInv, SearchTypeOK
<1>3. SearchTypeOK'
  <2>1. Wiped \in 0..MaxEpochs /\ {"checking", "returned"} \subseteq WorkerPc
    BY DEF Wiped, WorkerPc
  <2>2. a0[w] \in 0..MaxEpochs
    BY DEF SearchInv, SearchTypeOK
  <2>3. wpc' \in [Workers -> WorkerPc] /\ a0' \in [Workers -> 0..MaxEpochs]
    BY <1>2, <2>1, <2>2 DEF SearchInv, SearchTypeOK
  <2>4. QED
    BY <1>1, <2>3 DEF SearchInv, SearchTypeOK, Workers, Lanes
<1>4. ASSUME NEW v \in Workers, v # w
      PROVE  Walk(v)' /\ Delivered(v)'
  BY <1>1, <1>2, <1>4, OtherWorkers DEF SearchInv, SearchTypeOK
<1>5. Walk(w)' /\ Delivered(w)'
  <2>1. wpc[w] # "matching" /\ wpc'[w] \in {"checking", "returned"}
    BY <1>2 DEF Return, EndEpoch, SearchInv, SearchTypeOK
  <2>2. Walk(w)'
    BY <1>1, <2>1 DEF SearchInv, Walk
  <2>3. found'[w] = {} /\ hits'[w] = {} /\ pushed'[w] = <<>>
    BY <1>1, <2>1 DEF SearchInv, Walk
  <2>4. QED
    BY <2>2, <2>3, FS_EmptySet DEF Delivered, Pushed, DueHits, DueFound, Due
<1>6. QED
  BY <1>3, <1>4, <1>5 DEF SearchInv, Workers

\* next_batch and consumed() read the walk at the same index.
LEMMA NextBatchSearchInv ==
  ASSUME SearchInv, NEW w \in Workers, NextBatch(w), pool' = pool
  PROVE  SearchInv'
<1> USE EngineAssumption
<1>1. PICK h \in MatchSets[Lanes] :
        found' = [found EXCEPT ![w] = h] /\ hits' = [hits EXCEPT ![w] = h]
  BY DEF NextBatch
<1>2. h \subseteq Places(Lanes) /\ IsFiniteSet(h)
  BY FoundIsFinite DEF SearchInv, SearchTypeOK
<1>3. /\ b[w] \in Nat /\ b[w] < Batches /\ cur[w] = b[w] * Batch /\ consumed[w] = cur[w]
      /\ wpc[w] = "epoch" /\ a0[w] = epochs[w] /\ epochs[w] > 0
      /\ pushed[w] = <<>>
  BY BatchesFit DEF NextBatch, MoreBatches, SearchInv, SearchTypeOK, Walk
<1>4. cur[w] \in 0..EpochCandidates /\ cur[w] + Batch \in 0..EpochCandidates
        /\ cur[w] + Batch = (b[w] + 1) * Batch
  BY <1>3, BatchInEpoch
<1>5. SearchTypeOK'
  <2>1. "matching" \in WorkerPc
    BY DEF WorkerPc
  <2>2. /\ found' \in [Workers -> SUBSET Places(Lanes)]
        /\ hits' \in [Workers -> SUBSET Places(Lanes)]
    BY <1>1, <1>2 DEF SearchInv, SearchTypeOK
  <2>3. /\ cur' \in [Workers -> 0..EpochCandidates]
        /\ consumed' \in [Workers -> 0..EpochCandidates]
        /\ base_index' \in [Workers -> 0..EpochCandidates]
        /\ ybase' \in [Workers -> 0..EpochCandidates]
    BY <1>3, <1>4 DEF NextBatch, BaseIndex, SearchInv, SearchTypeOK
  <2>4. QED
    BY <2>1, <2>2, <2>3 DEF NextBatch, SearchInv, SearchTypeOK, Workers, Lanes
<1>6. ASSUME NEW v \in Workers, v # w
      PROVE  Walk(v)' /\ Delivered(v)'
  BY <1>6, OtherWorkers DEF NextBatch, SearchInv, SearchTypeOK
<1>7. /\ wpc'[w] = "matching" /\ cur'[w] = cur[w] + Batch /\ consumed'[w] = cur[w] + Batch
      /\ ybase'[w] = cur[w] /\ base_index'[w] = cur[w] /\ found'[w] = h /\ hits'[w] = h
      /\ pushed'[w] = <<>> /\ UNCHANGED <<a0, epochs, b>>
  BY <1>1, <1>3 DEF NextBatch, BaseIndex, SearchInv, SearchTypeOK
<1>8. Walk(w)'
  BY <1>3, <1>4, <1>7 DEF Walk
<1>9. Delivered(w)'
  <2>1. Pushed(w)' = {} /\ Len(pushed'[w]) = 0
    BY <1>7 DEF Pushed
  <2>2. DueHits(w)' = DueFound(w)' /\ DueFound(w)' \subseteq h
    BY <1>7 DEF DueHits, DueFound, Due
  <2>3. IsFiniteSet(DueFound(w)')
    BY <1>2, <2>2, FS_Subset
  <2>4. Cardinality(DueFound(w)') \in Nat
    BY <2>3, FS_CardinalityType
  <2>5. QED
    BY <1>2, <1>7, <2>1, <2>2, <2>4 DEF Delivered
<1>10. QED
  BY <1>5, <1>6, <1>8, <1>9 DEF SearchInv, Workers

\* A match taken from those left is the one whose candidate is pushed, if it
\* has a key.
LEMMA PushHitSearchInv ==
  ASSUME SearchInv, NEW w \in Workers, PushHit(w), pool' = pool
  PROVE  SearchInv'
<1> USE EngineAssumption
<1>1. PICK p \in hits[w] :
        /\ pushed' = IF IsKey(w, Rebuilt(w, p))
                     THEN [pushed EXCEPT ![w] = Append(@, Rebuilt(w, p))]
                     ELSE pushed
        /\ hits' = [hits EXCEPT ![w] = hits[w] \ {p}]
  BY DEF PushHit, RestAfter
<1>2. UNCHANGED <<stop, wpc, a0, epochs, b, cur, consumed, base_index, ybase, found>>
  BY DEF PushHit
<1>3. /\ wpc[w] = "matching" /\ a0[w] = epochs[w] /\ base_index[w] = ybase[w]
  BY DEF PushHit, SearchInv, Walk
<1>4. Rebuilt(w, p) = Matched(w, p)
  BY <1>3 DEF Rebuilt, Matched
<1>5. Matched(w, p) \in Candidates
  <2>1. p \in Places(Lanes)
    BY DEF SearchInv, SearchTypeOK
  <2>2. p[1] \in Nat /\ p[2] \in Nat /\ p[3] \in Nat
    BY <2>1 DEF Places
  <2>3. epochs[w] \in Nat /\ ybase[w] \in Nat
    BY DEF SearchInv, SearchTypeOK
  <2>4. QED
    BY <2>2, <2>3 DEF Matched, Candidates
<1> DEFINE c == Matched(w, p)
           s == pushed[w]
<1> HIDE DEF c
<1>6. /\ s \in Seq(Candidates) /\ c \in Candidates /\ hits'[w] = hits[w] \ {p}
      /\ pushed'[w] = IF IsKey(w, c) THEN Append(s, c) ELSE s
  BY <1>1, <1>4, <1>5 DEF c, SearchInv, SearchTypeOK
<1> HIDE DEF s
<1>7. /\ Append(s, c) \in Seq(Candidates) /\ Len(Append(s, c)) = Len(s) + 1
      /\ \A i \in 1..Len(s) : Append(s, c)[i] = s[i]
      /\ Append(s, c)[Len(s) + 1] = c
      /\ Len(s) \in Nat
  BY <1>6, AppendProperties
<1>8. SearchTypeOK'
  <2>1. pushed' \in [Workers -> Seq(Candidates)]
    <3>1. CASE IsKey(w, c)
      BY <1>1, <1>4, <1>6, <1>7, <3>1 DEF c, s, SearchInv, SearchTypeOK
    <3>2. CASE ~IsKey(w, c)
      BY <1>1, <1>4, <3>2 DEF c, SearchInv, SearchTypeOK
    <3>3. QED
      BY <3>1, <3>2
  <2>2. hits' \in [Workers -> SUBSET Places(Lanes)]
    BY <1>1 DEF SearchInv, SearchTypeOK
  <2>3. QED
    BY <1>2, <2>1, <2>2 DEF SearchInv, SearchTypeOK, Workers, Lanes
<1>9. ASSUME NEW v \in Workers, v # w
      PROVE  Walk(v)' /\ Delivered(v)'
  <2>1. pushed'[v] = pushed[v] /\ hits'[v] = hits[v]
    BY <1>1, <1>9 DEF SearchInv, SearchTypeOK
  <2>2. QED
    BY <1>2, <2>1, OtherWorkers DEF SearchInv
<1>10. Walk(w)'
  BY <1>2, <1>3 DEF SearchInv, Walk
<1>11. Delivered(w)'
  <2>1. \A q : Matched(w, q)' = Matched(w, q)
    BY <1>2 DEF Matched
  <2>2. \A q : IsKey(w, Matched(w, q))' <=> IsKey(w, Matched(w, q))
    BY <2>1 DEF IsKey
  <2>3. /\ DueHits(w)' = {q \in DueHits(w) : q # p}
        /\ DueFound(w)' = DueFound(w)
    BY <1>2, <1>6, <2>2 DEF DueHits, DueFound, Due
  <2> DEFINE D == DueHits(w)
             F == DueFound(w)
  <2> HIDE DEF D, F
  <2>4. /\ IsFiniteSet(found[w]) /\ hits[w] \subseteq found[w] /\ IsFiniteSet(D)
        /\ Len(s) + Cardinality(D) = Cardinality(F)
        /\ Pushed(w) \cup {Matched(w, q) : q \in D} = {Matched(w, q) : q \in F}
    <3>1. D \subseteq hits[w]
      BY DEF D, DueHits, Due
    <3>2. QED
      BY <3>1, FS_Subset DEF SearchInv, Delivered, D, F, s
  <2>5. \A n \in Nat : Cardinality(D) = n + 1 => Len(s) + 1 + n = Cardinality(F)
    BY <1>7, <2>4
  <2>6. CASE IsKey(w, c)
    <3>1. Pushed(w)' = Pushed(w) \cup {c}
      <4>1. Pushed(w) = {s[n] : n \in 1..Len(s)} /\ Pushed(w)' = {Append(s, c)[n] : n \in 1..Len(s)+1}
        BY <1>6, <1>7, <2>6 DEF Pushed, s
      <4>2. QED
        BY <1>7, <4>1
    <3>2. DueHits(w)' = D \ {p} /\ p \in D /\ DueFound(w)' = F
      BY <2>3, <2>6 DEF DueHits, Due, c, D, F
    <3>3. Cardinality(D) = Cardinality(D \ {p}) + 1 /\ Cardinality(D \ {p}) \in Nat
      <4>1. IsFiniteSet(D \ {p}) /\ Cardinality(D \ {p}) = Cardinality(D) - 1
        BY <2>4, <3>2, FS_RemoveElement
      <4>2. Cardinality(D) \in Nat /\ Cardinality(D \ {p}) \in Nat
        BY <2>4, <4>1, FS_CardinalityType
      <4>3. QED
        BY <4>1, <4>2
    <3>4. {Matched(w, q) : q \in D} = {Matched(w, q) : q \in D \ {p}} \cup {c}
      BY <3>2 DEF c
    <3>5. Len(pushed'[w]) + Cardinality(D \ {p}) = Cardinality(F)
      BY <1>6, <1>7, <2>5, <2>6, <3>3
    <3>6. Pushed(w)' \cup {Matched(w, q) : q \in D \ {p}} = {Matched(w, q) : q \in F}
      BY <2>4, <3>1, <3>4
    <3>7. QED
      BY <1>2, <1>6, <2>1, <2>4, <3>2, <3>5, <3>6 DEF Delivered
  <2>7. CASE ~IsKey(w, c)
    <3>1. Pushed(w)' = Pushed(w) /\ pushed'[w] = s
      BY <1>6, <2>7 DEF Pushed, s
    <3>2. DueHits(w)' = D /\ DueFound(w)' = F
      BY <2>3, <2>7 DEF DueHits, Due, c, D, F
    <3>3. Len(pushed'[w]) + Cardinality(D) = Cardinality(F)
      BY <2>4, <3>1
    <3>4. Pushed(w)' \cup {Matched(w, q) : q \in D} = {Matched(w, q) : q \in F}
      BY <2>4, <3>1
    <3>5. (IsFiniteSet(found[w]) /\ hits[w] \subseteq found[w])'
      BY <1>2, <1>6, <2>4
    <3>6. {Matched(w, q)' : q \in DueHits(w)'} = {Matched(w, q) : q \in D}
      BY <2>1, <3>2
    <3>7. {Matched(w, q)' : q \in DueFound(w)'} = {Matched(w, q) : q \in F}
      BY <2>1, <3>2
    <3>8. QED
      BY <3>2, <3>3, <3>4, <3>5, <3>6, <3>7 DEF Delivered
  <2>8. QED
    BY <2>6, <2>7
<1>12. QED
  BY <1>8, <1>9, <1>10, <1>11 DEF SearchInv, Workers

\* The batch is done when every match of it has been pushed.
LEMMA BatchDoneSearchInv ==
  ASSUME SearchInv, NEW w \in Workers, BatchDone(w), pool' = pool
  PROVE  SearchInv'
<1> USE EngineAssumption
<1>1. /\ wpc[w] = "matching" /\ hits[w] = {} /\ b[w] \in Nat /\ b[w] < Batches
      /\ a0[w] = epochs[w] /\ epochs[w] > 0
      /\ cur[w] = (b[w] + 1) * Batch /\ consumed[w] = cur[w]
  BY BatchesFit DEF BatchDone, SearchInv, SearchTypeOK, Walk
<1>2. b[w] + 1 \in 0..Batches
  BY <1>1, BatchInEpoch
<1>3. SearchTypeOK'
  <2>1. "epoch" \in WorkerPc
    BY DEF WorkerPc
  <2>2. <<>> \in Seq(Candidates)
    OBVIOUS
  <2>3. found' \in [Workers -> SUBSET Places(Lanes)] /\ pushed' \in [Workers -> Seq(Candidates)]
    BY <2>2 DEF BatchDone, SearchInv, SearchTypeOK
  <2>4. b' \in [Workers -> 0..Batches]
    BY <1>2 DEF BatchDone, SearchInv, SearchTypeOK
  <2>5. QED
    BY <2>1, <2>3, <2>4 DEF BatchDone, SearchInv, SearchTypeOK, Workers, Lanes
<1>4. ASSUME NEW v \in Workers, v # w
      PROVE  Walk(v)' /\ Delivered(v)'
  BY <1>4, OtherWorkers DEF BatchDone, SearchInv, SearchTypeOK
<1>5. /\ wpc'[w] = "epoch" /\ b'[w] = b[w] + 1 /\ found'[w] = {} /\ hits'[w] = {}
      /\ pushed'[w] = <<>> /\ UNCHANGED <<a0, epochs, cur, consumed>>
  BY <1>1 DEF BatchDone, SearchInv, SearchTypeOK
<1>6. Walk(w)'
  BY <1>1, <1>5 DEF Walk
<1>7. Delivered(w)'
  BY <1>5, FS_EmptySet DEF Delivered, Pushed, DueHits, DueFound, Due
<1>8. QED
  BY <1>3, <1>4, <1>6, <1>7 DEF SearchInv, Workers

\* Every step keeps the invariant of the workers.
LEMMA SearchStep ==
  ASSUME SearchInv, [Next]_vars
  PROVE  SearchInv'
<1>1. CASE \E w \in Workers : Worker(w)
  <2>1. PICK w \in Workers : Worker(w)
    BY <1>1
  <2>2. pool' = pool
    BY <2>1 DEF Worker
  <2>3. QED
    BY <2>1, <2>2, NewEpochSearchInv, LeaveSearchInv, NextBatchSearchInv, PushHitSearchInv,
       BatchDoneSearchInv DEF Worker
<1>2. CASE UNCHANGED <<pool, workerVars>> /\ stop' \in BOOLEAN
  <2>1. UNCHANGED <<pool, wpc, a0, epochs, b, cur, consumed, base_index, ybase, found, hits,
                    pushed>>
    BY <1>2 DEF workerVars
  <2>2. SearchTypeOK'
    BY <1>2, <2>1 DEF SearchInv, SearchTypeOK, Workers, Lanes
  <2>3. ASSUME NEW v \in Workers
        PROVE  Walk(v)' /\ Delivered(v)'
    BY <2>1, OtherWorkers DEF SearchInv
  <2>4. QED
    BY <2>1, <2>2, <2>3 DEF SearchInv, Workers
<1>3. CASE RequestStop \/ ReadSlot \/ UNCHANGED vars
  BY <1>2, <1>3 DEF RequestStop, ReadSlot, vars, SearchInv, SearchTypeOK
<1>4. QED
  BY <1>1, <1>3 DEF Next

-----------------------------------------------------------------------------
(* Sums *)

\* p[k] is the sum of the first k of the n values of f.
Sums(p, f, n) ==
  /\ p \in [0..n -> Nat] /\ p[0] = 0
  /\ \A k \in 1..n : p[k] = p[k-1] + f[k]

\* A set of natural numbers that is not empty has a least element.
LEMMA LeastElement ==
  ASSUME NEW T \in SUBSET Nat, T # {}
  PROVE  \E p \in T : \A q \in T : p <= q
<1> DEFINE R == OpToRel(<, Nat)
<1>1. IsWellFoundedOn(R, Nat)
  BY NatLessThanWellFounded, Zenon
<1>2. \A m, n \in Nat : m < n => <<m, n>> \in R
  <2>1. ASSUME NEW m \in Nat, NEW n \in Nat, m < n
        PROVE  <<m, n>> \in R
    BY <2>1, Zenon DEF OpToRel
  <2>2. QED
    BY <2>1, Zenon
<1> HIDE DEF R
<1>3. PICK p \in T : \A q \in T : ~(<<q, p>> \in R)
  BY <1>1, WFMin
<1>4. ASSUME NEW q \in T, q < p
      PROVE  FALSE
  BY <1>2, <1>3, <1>4
<1>5. QED
  BY <1>4

\* There are such sums.
LEMMA SumsExist ==
  ASSUME NEW n \in Nat, NEW f, \A k \in 1..n : f[k] \in Nat
  PROVE  \E p : Sums(p, f, n)
<1> DEFINE T == {m \in 0..n : ~\E p : Sums(p, f, m)}
<1> SUFFICES ASSUME T # {}
             PROVE  FALSE
  OBVIOUS
<1>1. PICK m \in T : \A q \in T : m <= q
  <2>1. T \in SUBSET Nat
    OBVIOUS
  <2>2. QED
    BY <2>1, LeastElement, Zenon
<1>2. m # 0
  <2>1. Sums([k \in 0..0 |-> 0], f, 0)
    BY DEF Sums
  <2>2. QED
    BY <1>1, <2>1
<1>3. m-1 \in 0..n /\ m \in 1..n /\ m-1 \notin T
  BY <1>1, <1>2
<1>4. PICK p : Sums(p, f, m-1)
  BY <1>3
<1> DEFINE r == [k \in 0..m |-> IF k = m THEN p[m-1] + f[m] ELSE p[k]]
<1>5. Sums(r, f, m)
  <2>1. p \in [0..m-1 -> Nat] /\ p[0] = 0 /\ \A k \in 1..m-1 : p[k] = p[k-1] + f[k]
    BY <1>4 DEF Sums
  <2>2. r \in [0..m -> Nat] /\ r[0] = 0
    BY <1>3, <2>1
  <2>3. ASSUME NEW k \in 1..m
        PROVE  r[k] = r[k-1] + f[k]
    BY <1>3, <2>1
  <2>4. QED
    BY <2>2, <2>3 DEF Sums
<1>6. QED
  BY <1>1, <1>5

\* The sum of smaller values is smaller; only the values summed matter.
LEMMA SumsMonotone ==
  ASSUME NEW m \in Nat, NEW n \in Nat, NEW p, NEW q, NEW f, NEW g,
         Sums(p, f, m), Sums(q, g, n), NEW l \in Nat, l <= m, l <= n,
         \A k \in 1..l : f[k] \in Nat /\ g[k] \in Nat /\ f[k] <= g[k]
  PROVE  p[l] <= q[l]
<1> DEFINE T == {k \in 0..l : ~(p[k] <= q[k])}
<1> SUFFICES ASSUME T # {}
             PROVE  FALSE
  BY DEF T
<1>1. PICK k \in T : \A j \in T : k <= j
  <2>1. T \in SUBSET Nat
    OBVIOUS
  <2>2. QED
    BY <2>1, LeastElement, Zenon
<1>2. k # 0
  BY <1>1 DEF Sums
<1>3. k-1 \in 0..l /\ k \in 1..l /\ k-1 \notin T
  BY <1>1, <1>2
<1>4. p[k-1] <= q[k-1] /\ p[k-1] \in Nat /\ q[k-1] \in Nat
  BY <1>3 DEF Sums
<1>5. p[k] = p[k-1] + f[k] /\ q[k] = q[k-1] + g[k]
  BY <1>3 DEF Sums
<1>6. QED
  BY <1>1, <1>3, <1>4, <1>5

-----------------------------------------------------------------------------
(* The counters *)

\* What total() last read of each worker's counter.
Read == [w \in Workers |-> slots[w][scan.at[w]]]

\* A worker's counter only rises, and counts no more than it has compared.
Counted(w) ==
  /\ slots[w] \in Seq(Nat) /\ Len(slots[w]) > 0
  /\ local_total[w] \in Nat /\ local_total[w] <= Compared(w)
  /\ \A n \in 1..Len(slots[w]) : slots[w][n] <= local_total[w]
  /\ \A m, n \in 1..Len(slots[w]) : m <= n => slots[w][m] <= slots[w][n]

\* The sum so far is that of the values read, and the last total does not
\* exceed the sum of all.
ScanInv ==
  /\ scan.next \in Workers /\ scan.sum \in Nat /\ scan.total \in Nat
  /\ \A w \in Workers : scan.at[w] \in 1..Len(slots[w])
  /\ \A p : Sums(p, Read, pool.workers) =>
       scan.sum = p[scan.next - 1] /\ scan.total <= p[pool.workers]

CountInv ==
  /\ local_total \in [Workers -> Nat] /\ DOMAIN slots = Workers
  /\ scan.at \in [Workers -> Nat]
  /\ ScanInv /\ \A w \in Workers : Counted(w)

\* The number of points in so many batches.
LEMMA PointsMonotone ==
  ASSUME NEW m \in Nat, NEW n \in Nat, m <= n, NEW k \in Nat, NEW l \in Nat
  PROVE  m * k * l \in Nat /\ m * k * l <= n * k * l /\ (m + 1) * k * l = m * k * l + k * l
<1>1. PICK d \in Nat : n = m + d
  <2>1. n - m \in Nat /\ n = m + (n - m)
    OBVIOUS
  <2>2. QED
    BY <2>1
<1>2. n * k = m * k + d * k /\ m * k \in Nat /\ d * k \in Nat /\ (m + 1) * k = m * k + k
  BY <1>1
<1>3. PICK a \in Nat, c \in Nat : a = m * k /\ c = d * k
  BY <1>2
<1>4. n * k * l = a * l + c * l /\ a * l \in Nat /\ c * l \in Nat /\ (a + k) * l = a * l + k * l
  BY <1>2, <1>3
<1>5. QED
  BY <1>2, <1>3, <1>4

\* The batches a worker has completed, in all of its epochs.
BatchesDone(w) == IF epochs[w] = 0 THEN 0 ELSE (epochs[w] - 1) * Batches + b[w]

\* Their number tells how much has been compared.
LEMMA ComparedIsBatches ==
  ASSUME SearchInv, NEW w \in Workers
  PROVE  /\ BatchesDone(w) \in Nat /\ Lanes \in Nat /\ Batch \in Nat
         /\ Compared(w) = BatchesDone(w) * Lanes * Batch
         /\ Compared(w) \in Nat
<1> USE EngineAssumption
<1>1. Lanes \in Nat /\ Batch \in Nat
  BY DEF SearchInv, SearchTypeOK, Lanes
<1>2. BatchesDone(w) \in Nat
  <2>1. epochs[w] \in Nat /\ b[w] \in Nat
    BY BatchesFit DEF SearchInv, SearchTypeOK
  <2>2. CASE epochs[w] = 0
    BY <2>2 DEF BatchesDone
  <2>3. CASE epochs[w] # 0
    <3>1. (epochs[w] - 1) * Batches \in Nat
      BY <2>1, <2>3, BatchesFit
    <3>2. QED
      BY <2>1, <2>3, <3>1 DEF BatchesDone
  <2>4. QED
    BY <2>2, <2>3
<1>3. Compared(w) = BatchesDone(w) * Lanes * Batch
  <2>1. 0 * Lanes * Batch = 0
    BY <1>1
  <2>2. QED
    BY <2>1 DEF Compared, BatchesDone
<1>4. QED
  BY <1>1, <1>2, <1>3, PointsMonotone

\* A new epoch begins after at most all batches of the one before.
LEMMA NewEpochCompares ==
  ASSUME SearchInv, NEW w \in Workers, NewEpoch(w), pool' = pool
  PROVE  Compared(w) <= Compared(w)' /\ Compared(w)' \in Nat
<1> USE EngineAssumption
<1>1. Lanes' = Lanes
  BY DEF Lanes
<1>2. /\ epochs[w] \in Nat /\ b[w] \in 0..Batches /\ Batches \in Nat
      /\ epochs'[w] = epochs[w] + 1 /\ b'[w] = 0
  BY BatchesFit DEF SearchInv, SearchTypeOK, NewEpoch
<1>3. BatchesDone(w) <= BatchesDone(w)'
  <2>1. BatchesDone(w)' = epochs[w] * Batches
    BY <1>2 DEF BatchesDone
  <2>2. epochs[w] * Batches = (epochs[w] - 1) * Batches + Batches
    BY <1>2
  <2>3. CASE epochs[w] = 0
    BY <1>2, <2>1, <2>3 DEF BatchesDone
  <2>4. CASE epochs[w] # 0
    <3>1. BatchesDone(w) = (epochs[w] - 1) * Batches + b[w] /\ (epochs[w] - 1) * Batches \in Nat
      BY <1>2, <2>4 DEF BatchesDone
    <3>2. QED
      BY <1>2, <2>1, <2>2, <3>1
  <2>5. QED
    BY <2>3, <2>4
<1>4. /\ BatchesDone(w) \in Nat /\ Lanes \in Nat /\ Batch \in Nat
      /\ Compared(w) = BatchesDone(w) * Lanes * Batch
  BY ComparedIsBatches
<1>5. BatchesDone(w)' \in Nat /\ Compared(w)' = BatchesDone(w)' * Lanes * Batch
  BY <1>1, <1>2 DEF Compared, BatchesDone
<1>6. \A m, n \in Nat : m <= n => m * Lanes * Batch <= n * Lanes * Batch /\ n * Lanes * Batch \in Nat
  BY <1>4, PointsMonotone
<1>7. QED
  BY <1>3, <1>4, <1>5, <1>6

\* A batch adds its points of every lane.
LEMMA BatchDoneCompares ==
  ASSUME SearchInv, NEW w \in Workers, BatchDone(w), pool' = pool
  PROVE  Compared(w)' = Compared(w) + Lanes * Batch
<1> USE EngineAssumption
<1>1. /\ epochs[w] \in Nat /\ epochs[w] # 0 /\ b[w] \in Nat /\ Batches \in Nat
      /\ epochs'[w] = epochs[w] /\ b'[w] = b[w] + 1
  BY BatchesFit DEF SearchInv, SearchTypeOK, BatchDone, Walk
<1>2. BatchesDone(w)' = BatchesDone(w) + 1
  <2>1. (epochs[w] - 1) * Batches \in Nat
    BY <1>1
  <2>2. QED
    BY <1>1, <2>1 DEF BatchesDone
<1>3. Lanes' = Lanes
  BY DEF Lanes
<1>4. /\ BatchesDone(w) \in Nat /\ Lanes \in Nat /\ Batch \in Nat
      /\ Compared(w) = BatchesDone(w) * Lanes * Batch
  BY ComparedIsBatches
<1>5. Compared(w)' = BatchesDone(w)' * Lanes * Batch
  BY <1>1, <1>3 DEF Compared, BatchesDone
<1>6. \A m \in Nat : (m + 1) * Lanes * Batch = m * Lanes * Batch + Lanes * Batch
  BY <1>4, PointsMonotone
<1>7. QED
  BY <1>2, <1>4, <1>5, <1>6

\* What one worker does changes nothing for the counters of another.
LEMMA OtherCounters ==
  ASSUME NEW w \in Workers, pool' = pool, epochs'[w] = epochs[w], b'[w] = b[w],
         slots'[w] = slots[w], local_total'[w] = local_total[w]
  PROVE  Compared(w)' = Compared(w) /\ (Counted(w) => Counted(w)')
<1>1. Compared(w)' = Compared(w)
  BY DEF Compared, Lanes, Batches
<1>2. QED
  BY <1>1 DEF Counted

\* A worker's step keeps the counters, and what it has compared does not fall.
LEMMA WorkerCounts ==
  ASSUME SearchInv, CountInv, NEW w \in Workers, Worker(w)
  PROVE  /\ \A v \in Workers : Counted(v)' /\ Compared(v) <= Compared(v)'
         /\ local_total' \in [Workers -> Nat] /\ DOMAIN slots' = Workers
         /\ \A v \in Workers : /\ Len(slots[v]) <= Len(slots'[v])
                               /\ \A n \in 1..Len(slots[v]) : slots'[v][n] = slots[v][n]
<1> USE EngineAssumption
<1>1. pool' = pool /\ Workers' = Workers
  BY DEF Worker, Workers
<1>2. \A v \in Workers : Compared(v) \in Nat
  BY ComparedIsBatches
<1>3. ASSUME NEW v \in Workers, epochs'[v] = epochs[v], b'[v] = b[v], slots'[v] = slots[v],
             local_total'[v] = local_total[v]
      PROVE  Counted(v)' /\ Compared(v) <= Compared(v)'
  BY <1>1, <1>2, <1>3, OtherCounters DEF CountInv
<1>4. CASE NewEpoch(w)
  <2>1. UNCHANGED <<slots, local_total>> /\ \A v \in Workers : v # w =>
          epochs'[v] = epochs[v] /\ b'[v] = b[v]
    BY <1>4 DEF NewEpoch, SearchInv, SearchTypeOK
  <2>2. Counted(w)' /\ Compared(w) <= Compared(w)'
    <3>1. Compared(w) <= Compared(w)' /\ Compared(w)' \in Nat
      BY <1>1, <1>4, NewEpochCompares
    <3>2. Counted(w)
      BY DEF CountInv
    <3>3. local_total[w] <= Compared(w)'
      BY <1>2, <3>1, <3>2 DEF Counted
    <3>4. QED
      BY <2>1, <3>1, <3>2, <3>3 DEF Counted
  <2>3. QED
    BY <1>3, <2>1, <2>2 DEF CountInv
<1>5. CASE BatchDone(w)
  <2> DEFINE new == local_total[w] + Lanes * Batch
             s == slots[w]
  <2>1. /\ slots'[w] = Append(s, new) /\ local_total'[w] = new
        /\ \A v \in Workers : v # w =>
             epochs'[v] = epochs[v] /\ b'[v] = b[v] /\ slots'[v] = slots[v]
               /\ local_total'[v] = local_total[v]
    BY <1>5 DEF BatchDone, NextTotal, CountInv, SearchInv, SearchTypeOK
  <2>2. /\ local_total[w] \in Nat /\ Lanes * Batch \in Nat /\ new \in Nat /\ local_total[w] <= new
        /\ s \in Seq(Nat) /\ Len(s) \in Nat
    <3>1. Lanes * Batch \in Nat
      BY ComparedIsBatches
    <3>2. QED
      BY <3>1, LenProperties DEF CountInv, Counted
  <2>3. Compared(w)' = Compared(w) + Lanes * Batch
    BY <1>1, <1>5, BatchDoneCompares
  <2>4. new <= Compared(w)' /\ Compared(w) <= Compared(w)'
    BY <1>2, <2>2, <2>3 DEF CountInv, Counted
  <2> HIDE DEF new, s
  <2>5. /\ Append(s, new) \in Seq(Nat) /\ Len(Append(s, new)) = Len(s) + 1
        /\ \A n \in 1..Len(s) : Append(s, new)[n] = s[n]
        /\ Append(s, new)[Len(s) + 1] = new
    BY <2>2, AppendProperties
  <2>6. /\ \A n \in 1..Len(s) : s[n] \in Nat /\ s[n] <= local_total[w]
        /\ \A m, n \in 1..Len(s) : m <= n => s[m] <= s[n]
    <3>1. \A n \in 1..Len(s) : s[n] \in Nat
      BY <2>2
    <3>2. QED
      BY <3>1 DEF CountInv, Counted, s
  <2>7. \A n \in 1..Len(s)+1 : Append(s, new)[n] <= new
    BY <2>2, <2>5, <2>6
  <2>8. \A m, n \in 1..Len(s)+1 : m <= n => Append(s, new)[m] <= Append(s, new)[n]
    BY <2>2, <2>5, <2>6, <2>7
  <2>9. Counted(w)'
    BY <2>1, <2>2, <2>4, <2>5, <2>7, <2>8 DEF Counted
  <2>10. local_total' \in [Workers -> Nat] /\ DOMAIN slots' = Workers
    BY <1>5, <2>2 DEF BatchDone, NextTotal, CountInv, new
  <2>11. Len(slots[w]) <= Len(slots'[w]) /\ \A n \in 1..Len(slots[w]) : slots'[w][n] = slots[w][n]
    BY <2>1, <2>2, <2>5 DEF s
  <2>12. ASSUME NEW v \in Workers
         PROVE  /\ Counted(v)' /\ Compared(v) <= Compared(v)'
                /\ Len(slots[v]) <= Len(slots'[v])
                /\ \A n \in 1..Len(slots[v]) : slots'[v][n] = slots[v][n]
    <3>1. CASE v = w
      BY <2>4, <2>9, <2>11, <3>1
    <3>2. CASE v # w
      <4>1. Len(slots[v]) \in Nat
        BY LenProperties DEF CountInv, Counted
      <4>2. QED
        BY <1>3, <2>1, <3>2, <4>1
    <3>3. QED
      BY <3>1, <3>2
  <2>13. QED
    BY <2>10, <2>12
<1>6. CASE Return(w) \/ NextBatch(w) \/ PushHit(w) \/ EndEpoch(w)
  <2>1. UNCHANGED <<epochs, b, slots, local_total>>
    BY <1>6 DEF Return, NextBatch, PushHit, EndEpoch
  <2>2. QED
    BY <1>3, <2>1 DEF CountInv
<1>7. QED
  BY <1>4, <1>5, <1>6 DEF Worker

-----------------------------------------------------------------------------
(* total() *)

\* The pool has workers, and what total() last read of each is a number.
LEMMA ReadType ==
  ASSUME SearchInv, CountInv
  PROVE  /\ pool.workers \in Nat \ {0} /\ Workers = 1..pool.workers
         /\ \A w \in Workers : Read[w] \in Nat /\ Read[w] <= local_total[w]
         /\ \E p : Sums(p, Read, pool.workers)
<1> USE EngineAssumption
<1>1. pool.workers \in Nat \ {0} /\ Workers = 1..pool.workers
  BY DEF SearchInv, SearchTypeOK, Workers
<1>2. ASSUME NEW w \in Workers
      PROVE  Read[w] \in Nat /\ Read[w] <= local_total[w]
  <2>1. slots[w] \in Seq(Nat) /\ scan.at[w] \in 1..Len(slots[w])
    BY DEF CountInv, Counted, ScanInv
  <2>2. QED
    BY <2>1 DEF CountInv, Counted, Read
<1>3. \E p : Sums(p, Read, pool.workers)
  BY <1>1, <1>2, SumsExist
<1>4. QED
  BY <1>1, <1>2, <1>3

\* At first the counters are zero, and so is the total.
LEMMA InitCountInv == Init => CountInv
<1> SUFFICES ASSUME Init
             PROVE  CountInv
  OBVIOUS
<1> USE EngineAssumption DEF Init
<1>1. pool.workers \in Nat \ {0} /\ Workers = 1..pool.workers
  BY DEF Workers
<1>2. ASSUME NEW w \in Workers
      PROVE  Counted(w) /\ scan.at[w] \in 1..Len(slots[w])
  <2>1. slots[w] = <<0>> /\ local_total[w] = 0 /\ Compared(w) = 0 /\ scan.at[w] = 1
    BY DEF Compared
  <2>2. <<0>> \in Seq(Nat) /\ Len(<<0>>) = 1 /\ <<0>>[1] = 0
    OBVIOUS
  <2>3. QED
    BY <2>1, <2>2 DEF Counted
<1>3. ScanInv
  <2>1. scan.next = 1 /\ scan.sum = 0 /\ scan.total = 0 /\ scan.next \in Workers
    BY <1>1
  <2>2. ASSUME NEW p, Sums(p, Read, pool.workers)
        PROVE  0 = p[0] /\ 0 <= p[pool.workers]
    BY <1>1, <2>2 DEF Sums
  <2>3. QED
    BY <1>2, <2>1, <2>2 DEF ScanInv
<1>4. QED
  BY <1>2, <1>3 DEF CountInv

\* What total() has read stays what it was while the counters go on.
LEMMA ScanFrame ==
  ASSUME SearchInv, CountInv, pool' = pool, scan' = scan, DOMAIN slots' = Workers,
         \A v \in Workers : /\ Len(slots[v]) \in Nat /\ Len(slots'[v]) \in Nat
                            /\ Len(slots[v]) <= Len(slots'[v])
                            /\ \A n \in 1..Len(slots[v]) : slots'[v][n] = slots[v][n]
  PROVE  ScanInv'
<1>1. Workers' = Workers
  BY DEF Workers
<1>2. \A w \in Workers : scan.at[w] \in 1..Len(slots[w])
  BY DEF CountInv, ScanInv
<1>3. Read' = Read
  BY <1>1, <1>2 DEF Read
<1>4. \A w \in Workers : scan.at[w] \in 1..Len(slots'[w])
  BY <1>2
<1>5. QED
  BY <1>1, <1>3, <1>4 DEF CountInv, ScanInv

\* One load of total(): the counter may have risen since the last one, so the
\* sum of all that was read does not fall; and the last load makes it the total.
LEMMA ReadSlotCounts ==
  ASSUME SearchInv, CountInv, ReadSlot
  PROVE  CountInv' /\ scan.total <= scan'.total
<1> USE EngineAssumption
<1> DEFINE w == scan.next
           W == pool.workers
<1>1. PICK n \in scan.at[w]..Len(slots[w]) :
        scan' = [next |-> IF w = W THEN 1 ELSE w + 1,
                 at |-> [scan.at EXCEPT ![w] = n],
                 sum |-> IF w = W THEN 0 ELSE scan.sum + slots[w][n],
                 total |-> IF w = W THEN scan.sum + slots[w][n] ELSE scan.total]
  BY DEF ReadSlot
<1>2. UNCHANGED <<pool, slots, local_total, epochs, b>> /\ Workers' = Workers
  BY DEF ReadSlot, workerVars, Workers
<1> DEFINE x == slots[w][n]
<1>3. /\ W \in Nat \ {0} /\ Workers = 1..W /\ w \in 1..W
      /\ \A v \in 1..W : Read[v] \in Nat
      /\ scan.sum \in Nat /\ scan.total \in Nat
  BY ReadType DEF CountInv, ScanInv
<1>4. x \in Nat /\ Read[w] <= x /\ n \in 1..Len(slots[w]) /\ n \in Nat
  <2>1. slots[w] \in Seq(Nat) /\ scan.at[w] \in 1..Len(slots[w]) /\ Len(slots[w]) \in Nat
    BY <1>3, LenProperties DEF CountInv, Counted, ScanInv
  <2>2. n \in 1..Len(slots[w]) /\ n \in Nat /\ scan.at[w] <= n
    BY <2>1
  <2>3. slots[w][scan.at[w]] <= x
    BY <1>3, <2>1, <2>2 DEF CountInv, Counted
  <2>4. QED
    BY <1>3, <2>1, <2>2, <2>3, SMTT(30) DEF Read
<1> HIDE DEF x
<1>5. /\ \A v \in Workers : scan'.at[v] \in 1..Len(slots[v])
      /\ scan'.at \in [Workers -> Nat]
      /\ Read'[w] = x /\ \A v \in 1..W : v # w => Read'[v] = Read[v]
  <2>1. scan'.at = [scan.at EXCEPT ![w] = n]
    BY <1>1
  <2>2. scan'.at[w] = n /\ \A v \in 1..W : v # w => scan'.at[v] = scan.at[v]
    BY <1>3, <2>1 DEF CountInv
  <2>3. QED
    BY <1>2, <1>3, <1>4, <2>1, <2>2, SMTT(30) DEF CountInv, ScanInv, Read, x
<1>6. PICK p : Sums(p, Read, W)
  BY ReadType
<1>7. scan.sum = p[w-1] /\ scan.total <= p[W]
  BY <1>6 DEF CountInv, ScanInv
<1> HIDE DEF w, W
<1>8. p[W] \in Nat /\ p[w-1] \in Nat /\ p[w] = p[w-1] + Read[w]
  <2>1. p \in [0..W -> Nat] /\ \A k \in 1..W : p[k] = p[k-1] + Read[k]
    BY <1>6 DEF Sums
  <2>2. w \in 1..W /\ w-1 \in 0..W /\ W \in 0..W
    BY <1>3
  <2>3. QED
    BY <2>1, <2>2
<1>9. ASSUME NEW q, Sums(q, Read', W)
      PROVE  q[0] = 0 /\ q[w] = scan.sum + x /\ scan.total <= q[W]
  <2>1. ASSUME NEW v \in 1..W
        PROVE  Read'[v] \in Nat /\ Read[v] \in Nat /\ Read[v] <= Read'[v]
    <3>1. Read[v] \in Nat /\ (v # w => Read'[v] = Read[v])
      BY <1>3, <1>5
    <3>2. CASE v = w
      BY <1>4, <1>5, <3>1, <3>2
    <3>3. CASE v # w
      BY <3>1, <3>3
    <3>4. QED
      BY <3>2, <3>3
  <2>2. \A v \in 1..w-1 : Read'[v] = Read[v] /\ v \in 1..W
    BY <1>3, <1>5
  <2>3. w-1 \in Nat /\ w-1 <= W /\ W \in Nat /\ W <= W
    BY <1>3
  <2>4. p[w-1] <= q[w-1] /\ q[w-1] <= p[w-1]
    <3>1. \A v \in 1..w-1 : /\ Read[v] \in Nat /\ Read'[v] \in Nat
                            /\ Read[v] <= Read'[v] /\ Read'[v] <= Read[v]
      BY <1>3, <2>2
    <3>2. QED
      BY <1>6, <1>9, <2>3, <3>1, SumsMonotone
  <2>5. p[W] <= q[W]
    <3>1. \A v \in 1..W : Read[v] \in Nat /\ Read'[v] \in Nat /\ Read[v] <= Read'[v]
      BY <2>1
    <3>2. QED
      BY <1>6, <1>9, <2>3, <3>1, SumsMonotone
  <2>6. q[w-1] \in Nat /\ q[w] = q[w-1] + x /\ q[0] = 0 /\ q[W] \in Nat
    BY <1>3, <1>5, <1>9, <2>3 DEF Sums
  <2>7. q[w-1] = scan.sum
    BY <1>7, <1>8, <2>4, <2>6
  <2>8. QED
    BY <1>3, <1>7, <1>8, <2>5, <2>6, <2>7
<1>10. ScanInv'
  <2>1. scan'.next \in Workers
    BY <1>1, <1>3 DEF w, W
  <2>2. scan'.sum \in Nat /\ scan'.total \in Nat
    BY <1>1, <1>3, <1>4 DEF w, W, x
  <2>3. ASSUME NEW q, Sums(q, Read', W)
        PROVE  scan'.sum = q[scan'.next - 1] /\ scan'.total <= q[W]
    <3>1. q[0] = 0 /\ q[w] = scan.sum + x /\ scan.total <= q[W]
      BY <1>9, <2>3
    <3>2. CASE w = W
      <4>1. scan'.next = 1 /\ scan'.sum = 0 /\ scan'.total = scan.sum + x
        BY <1>1, <3>2 DEF w, W, x
      <4>2. QED
        BY <1>3, <1>4, <3>1, <3>2, <4>1
    <3>3. CASE w # W
      <4>1. scan'.next = w + 1 /\ scan'.sum = scan.sum + x /\ scan'.total = scan.total
        BY <1>1, <3>3 DEF w, W, x
      <4>2. QED
        BY <1>3, <3>1, <4>1
    <3>4. QED
      BY <3>2, <3>3
  <2>4. QED
    BY <1>2, <1>5, <2>1, <2>2, <2>3 DEF ScanInv, W
<1>11. scan.total <= scan'.total
  <2>1. CASE w = W
    <3>1. scan'.total = scan.sum + x
      BY <1>1, <2>1 DEF w, W, x
    <3>2. QED
      BY <1>3, <1>4, <1>7, <1>8, <2>1, <3>1
  <2>2. CASE w # W
    BY <1>1, <1>3, <2>2 DEF w, W
  <2>3. QED
    BY <2>1, <2>2
<1>12. \A v \in Workers : Counted(v)'
  BY <1>2, OtherCounters DEF CountInv
<1>13. QED
  BY <1>2, <1>5, <1>10, <1>11, <1>12 DEF CountInv

\* Every step keeps the counters' invariant, and no total is less than the last.
LEMMA CountStep ==
  ASSUME SearchInv, CountInv, [Next]_vars
  PROVE  CountInv' /\ scan.total <= scan'.total
<1>1. \A v \in Workers : Len(slots[v]) \in Nat
  BY LenProperties DEF CountInv, Counted
<1>2. CASE \E w \in Workers : Worker(w)
  <2>1. PICK w \in Workers : Worker(w)
    BY <1>2
  <2>2. pool' = pool /\ scan' = scan /\ Workers' = Workers
    BY <2>1 DEF Worker, NewEpoch, Return, NextBatch, PushHit, BatchDone, EndEpoch, Workers
  <2>3. /\ \A v \in Workers : Counted(v)'
        /\ local_total' \in [Workers -> Nat] /\ DOMAIN slots' = Workers
        /\ \A v \in Workers : /\ Len(slots[v]) <= Len(slots'[v])
                              /\ \A n \in 1..Len(slots[v]) : slots'[v][n] = slots[v][n]
    BY <2>1, WorkerCounts
  <2>4. \A v \in Workers : Len(slots'[v]) \in Nat
    BY <2>3, LenProperties DEF Counted
  <2>5. ScanInv'
    BY <1>1, <2>2, <2>3, <2>4, ScanFrame
  <2>6. scan.total <= scan'.total
    BY <2>2 DEF CountInv, ScanInv
  <2>7. QED
    BY <2>2, <2>3, <2>5, <2>6 DEF CountInv
<1>3. CASE RequestStop \/ UNCHANGED vars
  <2>1. UNCHANGED <<pool, slots, scan, local_total, epochs, b>> /\ Workers' = Workers
    BY <1>3 DEF RequestStop, vars, workerVars, Workers
  <2>2. \A v \in Workers : Counted(v)'
    BY <2>1, OtherCounters DEF CountInv
  <2>3. DOMAIN slots' = Workers
    BY <2>1 DEF CountInv
  <2>4. ScanInv'
    BY <1>1, <2>1, <2>3, ScanFrame
  <2>5. scan.total <= scan'.total
    BY <2>1 DEF CountInv, ScanInv
  <2>6. QED
    BY <2>1, <2>2, <2>4, <2>5 DEF CountInv
<1>4. CASE ReadSlot
  BY <1>4, ReadSlotCounts
<1>5. QED
  BY <1>2, <1>3, <1>4 DEF Next

-----------------------------------------------------------------------------
(* The sum over all workers, as TotalNeverOverstates writes it *)

\* The element a fold takes out of a set next.
Pick(s) == CHOOSE x \in s : TRUE

\* One step of the fold: the sum of c over s, if that over smaller sets is g.
SumStep(c, g, s) == IF s = {} THEN 0 ELSE c[Pick(s)] + g[s \ {Pick(s)}]

\* g is the sum of c over every subset of S.
IsFold(c, g, S) == g = [s \in SUBSET S |-> SumStep(c, g, s)]

\* What is left of a subset when an element is taken out of it.
LEMMA Remainder ==
  ASSUME NEW S, IsFiniteSet(S), NEW s \in SUBSET S
  PROVE  /\ Cardinality(s) \in Nat /\ Cardinality(s) <= Cardinality(S)
         /\ Cardinality(s) = 0 <=> s = {}
         /\ \A x \in s : s \ {x} \in SUBSET S /\ Cardinality(s \ {x}) = Cardinality(s) - 1
         /\ s # {} => Pick(s) \in s
<1>1. IsFiniteSet(s) /\ Cardinality(s) <= Cardinality(S)
  BY FS_Subset
<1>2. Cardinality(s) \in Nat
  BY <1>1, FS_CardinalityType
<1>3. Cardinality(s) = 0 <=> s = {}
  BY <1>1, FS_EmptySet
<1>4. \A x \in s : Cardinality(s \ {x}) = Cardinality(s) - 1
  BY <1>1, FS_RemoveElement
<1>5. s # {} => Pick(s) \in s
  BY DEF Pick
<1>6. QED
  BY <1>1, <1>2, <1>3, <1>4, <1>5

\* The recursion of the fold has a solution.
LEMMA FoldExists ==
  ASSUME NEW S, IsFiniteSet(S), NEW c, \A x \in S : c[x] \in Nat
  PROVE  \E g : IsFold(c, g, S)
<1> DEFINE N == Cardinality(S)
           Upto(g, n) == \A s \in SUBSET S : Cardinality(s) <= n => g[s] = SumStep(c, g, s)
           T == {n \in 0..N : ~\E g : DOMAIN g = SUBSET S /\ Upto(g, n)}
<1>1. N \in Nat
  BY FS_CardinalityType
<1>2. ASSUME T # {}
      PROVE  FALSE
  <2>1. PICK m \in T : \A q \in T : m <= q
    <3>1. T \in SUBSET Nat
      BY <1>1
    <3>2. QED
      BY <1>2, <3>1, LeastElement, Zenon
  <2>2. m # 0
    <3> DEFINE z == [s \in SUBSET S |-> 0]
    <3>1. \A s \in SUBSET S : Cardinality(s) <= 0 => s = {}
      BY Remainder
    <3>2. DOMAIN z = SUBSET S /\ Upto(z, 0)
      BY <3>1 DEF SumStep
    <3>3. QED
      BY <2>1, <3>2
  <2>3. m \in Nat /\ m-1 \in 0..N /\ m-1 \notin T
    <3>1. m \in 0..N
      BY <2>1
    <3>2. m \in Nat /\ m-1 \in 0..N /\ ~(m <= m-1)
      BY <1>1, <2>2, <3>1
    <3> HIDE DEF T
    <3>3. QED
      BY <2>1, <3>2
  <2>4. PICK g : DOMAIN g = SUBSET S /\ Upto(g, m-1)
    BY <2>3
  <2> DEFINE r == [s \in SUBSET S |-> IF Cardinality(s) = m THEN SumStep(c, g, s) ELSE g[s]]
  <2>5. ASSUME NEW s \in SUBSET S, Cardinality(s) <= m
        PROVE  r[s] = SumStep(c, r, s)
    <3>1. /\ Cardinality(s) \in Nat /\ (s # {} => Pick(s) \in s)
          /\ \A x \in s : s \ {x} \in SUBSET S /\ Cardinality(s \ {x}) = Cardinality(s) - 1
      BY Remainder
    <3>2. s # {} => r[s \ {Pick(s)}] = g[s \ {Pick(s)}]
      BY <2>3, <2>5, <3>1
    <3>3. SumStep(c, r, s) = SumStep(c, g, s)
      BY <3>2 DEF SumStep
    <3>4. r[s] = SumStep(c, g, s)
      <4>1. CASE Cardinality(s) = m
        BY <4>1
      <4>2. CASE Cardinality(s) # m
        <5>1. Cardinality(s) <= m-1
          BY <2>3, <2>5, <3>1, <4>2
        <5>2. QED
          BY <2>4, <4>2, <5>1
      <4>3. QED
        BY <4>1, <4>2
    <3>5. QED
      BY <3>3, <3>4
  <2>6. DOMAIN r = SUBSET S /\ Upto(r, m)
    BY <2>5
  <2>7. QED
    BY <2>1, <2>6
<1>3. PICK g : DOMAIN g = SUBSET S /\ Upto(g, N)
  <2>1. N \in 0..N
    BY <1>1
  <2> HIDE DEF N, Upto
  <2>2. QED
    BY <1>2, <2>1
<1> DEFINE h == [s \in SUBSET S |-> g[s]]
<1>4. ASSUME NEW s \in SUBSET S
      PROVE  h[s] = SumStep(c, h, s)
  <2>1. Cardinality(s) <= N /\ (s # {} => Pick(s) \in s)
    BY Remainder
  <2>2. g[s] = SumStep(c, g, s)
    BY <1>3, <2>1
  <2>3. s # {} => h[s \ {Pick(s)}] = g[s \ {Pick(s)}]
    OBVIOUS
  <2>4. QED
    BY <2>2, <2>3 DEF SumStep
<1>5. h = [s \in SUBSET S |-> SumStep(c, h, s)]
  <2>1. h = [s \in SUBSET S |-> h[s]]
    OBVIOUS
  <2> HIDE DEF h
  <2>2. QED
    BY <1>4, <2>1
<1>6. QED
  BY <1>5 DEF IsFold

\* The sum is a number, and whichever element is taken out first, it is the
\* same.
LEMMA FoldAnyOrder ==
  ASSUME NEW S, IsFiniteSet(S), NEW c, \A x \in S : c[x] \in Nat, NEW g, IsFold(c, g, S)
  PROVE  /\ g[{}] = 0
         /\ \A s \in SUBSET S : g[s] \in Nat /\ \A x \in s : g[s] = c[x] + g[s \ {x}]
<1> DEFINE Good(s) == g[s] \in Nat /\ \A x \in s : g[s] = c[x] + g[s \ {x}]
           T == {n \in Nat : \E s \in SUBSET S : Cardinality(s) = n /\ ~Good(s)}
<1>1. \A s \in SUBSET S : g[s] = SumStep(c, g, s)
  BY DEF IsFold
<1>2. g[{}] = 0
  BY <1>1 DEF SumStep
<1>3. ASSUME T # {}
      PROVE  FALSE
  <2>1. PICK m \in T : \A q \in T : m <= q
    <3>1. T \in SUBSET Nat
      OBVIOUS
    <3>2. QED
      BY <1>3, <3>1, LeastElement, Zenon
  <2>2. PICK s \in SUBSET S : Cardinality(s) = m /\ ~Good(s)
    BY <2>1
  <2>3. s # {}
    BY <1>2, <2>2
  <2> DEFINE y == Pick(s)
  <2>4. y \in s /\ g[s] = c[y] + g[s \ {y}]
    <3>1. y \in s
      BY <2>3, Remainder
    <3>2. QED
      BY <1>1, <2>3, <3>1 DEF SumStep
  <2> HIDE DEF y
  <2>5. ASSUME NEW t \in SUBSET S, Cardinality(t) \in Nat, Cardinality(t) < m
        PROVE  Good(t)
    BY <2>1, <2>5
  <2>6. \A x \in s : s \ {x} \in SUBSET S /\ Cardinality(s \ {x}) \in Nat /\ Cardinality(s \ {x}) < m
    <3>1. ASSUME NEW x \in s
          PROVE  s \ {x} \in SUBSET S /\ Cardinality(s \ {x}) = m - 1
      BY <2>2, Remainder
    <3>2. \A x \in s : Cardinality(s \ {x}) \in Nat
      BY Remainder
    <3>3. QED
      BY <2>1, <3>1, <3>2
  <2>7. \A x \in s : Good(s \ {x})
    BY <2>5, <2>6
  <2>8. g[s] \in Nat
    <3>1. c[y] \in Nat /\ g[s \ {y}] \in Nat
      BY <2>4, <2>7
    <3>2. QED
      BY <2>4, <3>1
  <2>9. ASSUME NEW x \in s, x # y
        PROVE  g[s] = c[x] + g[s \ {x}]
    <3>1. x \in s \ {y} /\ y \in s \ {x} /\ (s \ {y}) \ {x} = (s \ {x}) \ {y}
      BY <2>4, <2>9
    <3>2. g[s \ {y}] = c[x] + g[(s \ {y}) \ {x}]
      BY <2>4, <2>7, <3>1
    <3>3. g[s \ {x}] = c[y] + g[(s \ {x}) \ {y}]
      BY <2>7, <3>1
    <3>4. (s \ {x}) \ {y} \in SUBSET S /\ g[(s \ {x}) \ {y}] \in Nat
      <4>1. (s \ {x}) \ {y} \in SUBSET S
        OBVIOUS
      <4>2. Cardinality((s \ {x}) \ {y}) \in Nat /\ Cardinality((s \ {x}) \ {y}) < m
        <5>1. Cardinality((s \ {x}) \ {y}) = Cardinality(s \ {x}) - 1
          BY <2>6, <3>1, Remainder, SMTT(30)
        <5>2. Cardinality((s \ {x}) \ {y}) \in Nat
          BY <4>1, Remainder
        <5>3. QED
          BY <2>1, <2>6, <5>1, <5>2
      <4>3. QED
        BY <2>5, <4>1, <4>2
    <3>5. c[x] \in Nat /\ c[y] \in Nat
      BY <2>4
    <3>6. PICK i \in Nat, j \in Nat, k \in Nat :
            i = c[x] /\ j = c[y] /\ k = g[(s \ {x}) \ {y}]
      BY <3>4, <3>5
    <3>7. g[s] = j + (i + k) /\ g[s \ {x}] = j + k
      BY <2>4, <3>1, <3>2, <3>3, <3>6
    <3>8. QED
      BY <3>6, <3>7
  <2>10. QED
    BY <2>2, <2>4, <2>8, <2>9
<1>4. ASSUME NEW s \in SUBSET S
      PROVE  Good(s)
  <2>1. Cardinality(s) \in Nat
    BY Remainder
  <2>2. QED
    BY <1>3, <2>1
<1>5. QED
  BY <1>2, <1>4

\* What all workers have compared is a sum over their numbers.
LEMMA AllCompared ==
  ASSUME SearchInv
  PROVE  \E p : /\ Sums(p, [w \in Workers |-> Compared(w)], pool.workers)
                /\ p[pool.workers] = MapThenSumSet(Compared, Workers)
<1> USE EngineAssumption
<1> DEFINE c == [w \in Workers |-> Compared(w)]
           F(g) == g = [s \in SUBSET Workers |->
                          IF s = {} THEN 0 ELSE Compared(Pick(s)) + g[s \ {Pick(s)}]]
<1>1. pool.workers \in Nat \ {0} /\ Workers = 1..pool.workers
  BY DEF SearchInv, SearchTypeOK, Workers
<1>2. IsFiniteSet(Workers) /\ \A w \in Workers : c[w] \in Nat
  BY <1>1, FS_Interval, ComparedIsBatches
<1>3. \A s \in SUBSET Workers : s # {} => c[Pick(s)] = Compared(Pick(s))
  BY DEF Pick
<1>4. \A g : IsFold(c, g, Workers) <=> F(g)
  <2>1. ASSUME NEW g
        PROVE  [s \in SUBSET Workers |-> SumStep(c, g, s)]
                 = [s \in SUBSET Workers |->
                      IF s = {} THEN 0 ELSE Compared(Pick(s)) + g[s \ {Pick(s)}]]
    <3>1. ASSUME NEW s \in SUBSET Workers
          PROVE  SumStep(c, g, s) = IF s = {} THEN 0 ELSE Compared(Pick(s)) + g[s \ {Pick(s)}]
      BY <1>3 DEF SumStep
    <3> HIDE DEF c
    <3>2. QED
      BY <3>1
  <2> HIDE DEF c
  <2>2. QED
    BY <2>1 DEF IsFold
<1> HIDE DEF c
<1>5. \E g : F(g)
  BY <1>2, <1>4, FoldExists
<1>6. F(CHOOSE g : F(g))
  BY <1>5, Zenon
<1>7. MapThenSumSet(Compared, Workers) = (CHOOSE g : F(g))[Workers]
  BY Zenon DEF MapThenSumSet, MapThenFoldSet, Pick
<1> HIDE DEF F
<1>8. PICK g : F(g) /\ MapThenSumSet(Compared, Workers) = g[Workers]
  BY <1>6, <1>7, Zenon
<1>9. /\ g[{}] = 0
      /\ \A s \in SUBSET Workers : g[s] \in Nat /\ \A x \in s : g[s] = c[x] + g[s \ {x}]
  BY <1>2, <1>4, <1>8, FoldAnyOrder
<1> DEFINE p == [k \in 0..pool.workers |-> g[1..k]]
<1>10. Sums(p, c, pool.workers)
  <2>1. \A k \in 0..pool.workers : 1..k \in SUBSET Workers
    BY <1>1
  <2>2. p \in [0..pool.workers -> Nat]
    BY <1>9, <2>1
  <2>3. p[0] = 0
    <3>1. 1..0 = {} /\ 0 \in 0..pool.workers
      BY <1>1
    <3>2. QED
      BY <1>9, <3>1
  <2>4. ASSUME NEW k \in 1..pool.workers
        PROVE  p[k] = p[k-1] + c[k]
    <3>1. k \in 1..k /\ (1..k) \ {k} = 1..k-1 /\ k \in 0..pool.workers /\ k-1 \in 0..pool.workers
      BY <1>1
    <3>2. g[1..k] = c[k] + g[1..k-1]
      <4>1. 1..k \in SUBSET Workers /\ k \in 1..k
        BY <2>1, <3>1
      <4>2. g[1..k] = c[k] + g[(1..k) \ {k}]
        BY <1>9, <4>1
      <4>3. (1..k) \ {k} = 1..k-1
        BY <3>1
      <4>4. QED
        BY <4>2, <4>3, Zenon
    <3>3. c[k] \in Nat /\ g[1..k-1] \in Nat
      BY <1>1, <1>2, <1>9, <2>1, <3>1
    <3>4. QED
      BY <3>1, <3>2, <3>3
  <2>5. QED
    BY <2>2, <2>3, <2>4 DEF Sums
<1>11. p[pool.workers] = g[Workers]
  BY <1>1
<1>12. QED
  BY <1>8, <1>10, <1>11 DEF c

-----------------------------------------------------------------------------
(* The theorems *)

\* The invariant of the workers and of the counters, for any pool of workers,
\* any batch and epoch length and any number of matches in a batch.
THEOREM IncrementalInvariance == Spec => [](SearchInv /\ CountInv)
<1>1. Init => SearchInv /\ CountInv
  BY InitSearchInv, InitCountInv
<1>2. SearchInv /\ CountInv /\ [Next]_vars => (SearchInv /\ CountInv)'
  BY SearchStep, CountStep
<1>3. QED
  BY <1>1, <1>2, PTL DEF Spec

\* Every variable keeps its type; in particular no index leaves the window of
\* the epoch, whatever the length of a batch.
THEOREM IndicesStayInTheEpoch == Spec => []TypeOK
<1>1. SearchInv /\ CountInv => TypeOK
  BY DEF SearchInv, SearchTypeOK, Delivered, CountInv, ScanInv, Counted, TypeOK
<1>2. QED
  BY IncrementalInvariance, <1>1, PTL

\* Each match of a batch is pushed exactly once unless pubkey_from_scalar has no
\* key for its scalar, and then it is not; and the batches follow each other
\* without a gap.
THEOREM MatchesArePushedOnce == Spec => []EveryMatchPushedOnce
<1>1. SearchInv => EveryMatchPushedOnce
  BY DEF SearchInv, Walk, Delivered, Pushed, DueHits, DueFound, EveryMatchPushedOnce
<1>2. QED
  BY IncrementalInvariance, <1>1, PTL

\* Every candidate carries the scalar of the point that matched.
THEOREM ScalarsMatchTheirPoints == Spec => []ScalarMatchesPoint
<1>1. SearchInv => ScalarMatchesPoint
  <2> SUFFICES ASSUME SearchInv, NEW w \in Workers, NEW n \in 1..Len(pushed[w])
               PROVE  \E p \in found[w] : pushed[w][n] = Matched(w, p)
    BY DEF ScalarMatchesPoint
  <2>1. pushed[w][n] \in Pushed(w)
    BY DEF Pushed
  <2>2. Pushed(w) \subseteq {Matched(w, p) : p \in found[w]}
    BY DEF SearchInv, Delivered, DueFound, Due
  <2>3. QED
    BY <2>1, <2>2
<1>2. QED
  BY IncrementalInvariance, <1>1, PTL

\* total() counts no point that has not been compared with every pattern.
THEOREM TotalsNeverOverstate == Spec => []TotalNeverOverstates
<1>1. SearchInv /\ CountInv => TotalNeverOverstates
  <2> SUFFICES ASSUME SearchInv, CountInv
               PROVE  TotalNeverOverstates
    OBVIOUS
  <2> DEFINE c == [w \in Workers |-> Compared(w)]
             W == pool.workers
  <2>1. PICK q : Sums(q, c, W) /\ q[W] = MapThenSumSet(Compared, Workers)
    BY AllCompared
  <2>2. /\ W \in Nat \ {0} /\ Workers = 1..W
        /\ \A w \in Workers : Read[w] \in Nat /\ Read[w] <= local_total[w]
    BY ReadType
  <2>3. PICK p : Sums(p, Read, W)
    BY ReadType
  <2>4. \A w \in Workers : local_total[w] \in Nat /\ local_total[w] <= Compared(w)
                             /\ Compared(w) \in Nat
    BY ComparedIsBatches DEF CountInv, Counted
  <2>5. scan.total <= p[W] /\ scan.total \in Nat
    BY <2>3 DEF CountInv, ScanInv
  <2>6. \A w \in 1..W : Read[w] \in Nat /\ c[w] \in Nat /\ Read[w] <= c[w]
    BY <2>2, <2>4
  <2> HIDE DEF c, W
  <2>7. p[W] <= q[W]
    BY <2>1, <2>2, <2>3, <2>6, SumsMonotone
  <2>8. p[W] \in Nat /\ q[W] \in Nat
    BY <2>1, <2>2, <2>3 DEF Sums
  <2>9. QED
    BY <2>1, <2>5, <2>7, <2>8 DEF TotalNeverOverstates
<1>2. QED
  BY IncrementalInvariance, <1>1, PTL

\* Two calls of total() never go backwards.
THEOREM TotalsNeverFall == Spec => TotalNeverFalls
<1>1. SearchInv /\ CountInv /\ [Next]_vars => [scan'.total >= scan.total]_vars
  <2> SUFFICES ASSUME SearchInv, CountInv, [Next]_vars
               PROVE  scan'.total >= scan.total
    OBVIOUS
  <2>1. scan.total <= scan'.total /\ scan.total \in Nat /\ scan'.total \in Nat
    BY CountStep DEF CountInv, ScanInv
  <2>2. QED
    BY <2>1
<1>2. QED
  BY IncrementalInvariance, <1>1, PTL DEF Spec, TotalNeverFalls
===============================================================================
