-------------------------- MODULE ResultQueue_proofs --------------------------
(***************************************************************************)
(* Proofs about the queue and the smaller machines around it.              *)
(*                                                                         *)
(* ResultQueue, for any number of search threads and any candidates: its   *)
(* types, mutual exclusion, the absence of lost wake-ups, and that the     *)
(* locking protocol implements the FIFO channel.  NaiveEngine: every match *)
(* of its workers reaches main() through the queue, and the queue's        *)
(* theorems hold of the one they share.  CommandLine: which slots of the   *)
(* StatsBoard are written.  DurableWriter: the writer's files survive a    *)
(* loss of power.                                                          *)
(***************************************************************************)
EXTENDS NaiveEngine, CommandLine, DurableWriter, TorKeyWriter_proofs, SequenceTheorems,
        WellFoundedInduction

\* The consumer's steps that run with mutex_ held.
PopCritical == {"testing", "taking", "sleeping", "giving up"}

\* mutex_ names exactly the thread that is inside a critical section.
MutexInv ==
  /\ \A p \in Producers : (pushing[p] = "locked") <=> (mutex = p)
  /\ (popping \in PopCritical) <=> (mutex = Main)

\* What the consumer concluded from the predicate is still true when it acts.
DecisionInv ==
  /\ popping = "taking" => queue # <<>>
  /\ popping \in {"sleeping", "giving up"} => queue = <<>>

\* The call in progress has no result yet.
CallInv == (popping # "idle") <=> (got = Waiting)

IInv == TypeOK /\ MutexInv /\ DecisionInv /\ CallInv /\ NoLostWakeup

-----------------------------------------------------------------------------

\* The inductive invariant holds initially.
LEMMA InitIInv == Init => IInv
<1> SUFFICES ASSUME Init PROVE IInv
  OBVIOUS
<1> USE QueueAssumption DEF Init
<1>1. TypeOK
  <2>1. queue \in Seq(Items)
    OBVIOUS
  <2>2. mutex \in Producers \cup {Main, Free} /\ got \in Items \cup {Nothing, Waiting}
    OBVIOUS
  <2>3. pushing \in [Producers -> PushPc] /\ arg \in [Producers -> Items]
    BY DEF PushPc
  <2>4. popping \in PopPc /\ timedOut \in BOOLEAN
    BY DEF PopPc
  <2>5. QED
    BY <2>1, <2>2, <2>3, <2>4 DEF TypeOK
<1>2. MutexInv
  BY DEF MutexInv, PopCritical
<1>3. DecisionInv /\ CallInv /\ NoLostWakeup
  BY DEF DecisionInv, CallInv, NoLostWakeup
<1>4. QED
  BY <1>1, <1>2, <1>3 DEF IInv

\* Every step of push(), by any producer, preserves the inductive invariant.
LEMMA PushIInv ==
  ASSUME IInv, NEW p \in Producers, Push(p)
  PROVE  IInv'
<1> USE QueueAssumption
    DEF IInv, TypeOK, MutexInv, DecisionInv, CallInv, NoLostWakeup,
        PushPc, PopPc, PopCritical
<1>1. CASE \E c \in Items : PushCall(p, c)
  BY <1>1 DEF PushCall
<1>2. CASE PushLock(p)
  BY <1>2 DEF PushLock
<1>3. CASE PushBack(p)
  <2>1. TypeOK'
    <3>1. arg[p] \in Items
      OBVIOUS
    <3>2. Append(queue, arg[p]) \in Seq(Items)
      BY <3>1, AppendProperties
    <3>3. QED
      BY <1>3, <3>2 DEF PushBack
  <2>2. MutexInv'
    BY <1>3 DEF PushBack
  <2>3. DecisionInv' /\ CallInv'
    BY <1>3 DEF PushBack
  <2>4. NoLostWakeup'
    BY <1>3 DEF PushBack
  <2>5. QED
    BY <2>1, <2>2, <2>3, <2>4
<1>4. CASE NotifyOne(p)
  BY <1>4 DEF NotifyOne
<1>5. QED
  BY <1>1, <1>2, <1>3, <1>4 DEF Push

\* Every step of pop_wait_for() preserves the inductive invariant.
LEMMA PopIInv ==
  ASSUME IInv, PopStep
  PROVE  IInv'
<1> USE QueueAssumption
    DEF IInv, TypeOK, MutexInv, DecisionInv, CallInv, NoLostWakeup,
        PushPc, PopPc, PopCritical
<1>1. CASE PopCall
  BY <1>1 DEF PopCall
<1>2. CASE PopLock
  BY <1>2 DEF PopLock
<1>3. CASE PopTest
  BY <1>3 DEF PopTest
<1>4. CASE PopSleep
  BY <1>4 DEF PopSleep
<1>5. CASE PopTake
  BY <1>5 DEF PopTake
<1>6. CASE PopGiveUp
  BY <1>6 DEF PopGiveUp
<1>7. CASE SpuriousWake
  BY <1>7 DEF SpuriousWake
<1>8. CASE DeadlinePasses
  BY <1>8 DEF DeadlinePasses
<1>9. QED
  BY <1>1, <1>2, <1>3, <1>4, <1>5, <1>6, <1>7, <1>8 DEF PopStep

\* A step that changes nothing preserves it too.
LEMMA StutterIInv ==
  ASSUME IInv, UNCHANGED vars
  PROVE  IInv'
BY DEF IInv, TypeOK, MutexInv, DecisionInv, CallInv, NoLostWakeup, vars

\* The inductive invariant holds in every reachable state.
THEOREM Invariance == Spec => []IInv
<1>1. IInv /\ [Next]_vars => IInv'
  BY PushIInv, PopIInv, StutterIInv DEF Next
<1>2. QED
  BY InitIInv, <1>1, PTL DEF Spec

\* Every variable of the queue keeps its type, whatever the interleaving of
\* the search threads and main().
THEOREM TypeCorrect == Spec => []TypeOK
<1>1. IInv => TypeOK
  BY DEF IInv
<1>2. QED
  BY Invariance, <1>1, PTL

\* push()'s unlock-then-notify order never leaves the consumer asleep on a
\* non-empty queue with no notification on its way.
THEOREM NoWakeupIsLost == Spec => []NoLostWakeup
<1>1. IInv => NoLostWakeup
  BY DEF IInv
<1>2. QED
  BY Invariance, <1>1, PTL

-----------------------------------------------------------------------------

\* Every step of the locking protocol is a step of the channel, or changes
\* neither its queue nor its result.
LEMMA StepRefines ==
  ASSUME IInv, [Next]_vars
  PROVE  [Ch!Next]_(Ch!vars)
<1> USE QueueAssumption DEF Ch!vars
<1>1. ASSUME NEW p \in Producers, Push(p)
      PROVE  [Ch!Next]_(Ch!vars)
  <2>1. CASE PushBack(p)
    <3>1. Ch!Push(arg[p])
      BY <2>1 DEF PushBack, Ch!Push
    <3>2. arg[p] \in Items
      BY DEF IInv, TypeOK
    <3>3. QED
      BY <3>1, <3>2 DEF Ch!Next
  <2>2. CASE (\E c \in Items : PushCall(p, c)) \/ PushLock(p) \/ NotifyOne(p)
    BY <2>2 DEF PushCall, PushLock, NotifyOne
  <2>3. QED
    BY <1>1, <2>1, <2>2 DEF Push
<1>2. ASSUME PopStep
      PROVE  [Ch!Next]_(Ch!vars)
  <2>1. CASE PopCall
    BY <2>1 DEF PopCall, Ch!Next, Ch!PopStart, IInv, CallInv
  <2>2. CASE PopTake
    BY <2>2 DEF PopTake, Ch!Next, Ch!Pop, IInv, CallInv, DecisionInv
  <2>3. CASE PopGiveUp
    BY <2>3 DEF PopGiveUp, Ch!Next, Ch!PopTimeout, IInv, CallInv, DecisionInv
  <2>4. CASE PopLock \/ PopTest \/ PopSleep \/ SpuriousWake \/ DeadlinePasses
    BY <2>4 DEF PopLock, PopTest, PopSleep, SpuriousWake, DeadlinePasses
  <2>5. QED
    BY <1>2, <2>1, <2>2, <2>3, <2>4 DEF PopStep
<1>3. CASE UNCHANGED vars
  BY <1>3 DEF vars
<1>4. QED
  BY <1>1, <1>2, <1>3 DEF Next

\* The mutex-and-condition-variable queue implements the FIFO channel: a
\* candidate is neither lost, duplicated nor reordered between push() and
\* pop_wait_for(), and nullopt is returned only for an empty queue.
THEOREM QueueIsChannel == Spec => RefinesChannel
<1>1. Init => Ch!Init
  BY DEF Init, Ch!Init
<1>2. IInv /\ [Next]_vars => [Ch!Next]_(Ch!vars)
  BY StepRefines
<1>3. QED
  BY Invariance, <1>1, <1>2, PTL DEF Spec, RefinesChannel, Ch!Spec

-----------------------------------------------------------------------------
(* The naive engine *)

\* Each worker's variables have their types; a candidate is of a draw made.
NaiveTypeOK ==
  /\ work \in [Producers -> {"checking", "drawing", "matching", "returned"}]
  /\ turn \in [Producers -> Nat] /\ draws \in [Producers -> Nat]
  /\ left \in [Producers -> SUBSET Patterns]
  /\ met \in [Producers -> SUBSET Items]
  /\ delivered \in Seq(Items)

\* The draws of a round stay within the bound.
RoundInv ==
  \A p \in Producers :
    /\ work[p] = "drawing" =>
         turn[p] <= Interval /\ draws[p] + Interval <= MaxDraws + turn[p]
    /\ work[p] = "matching" =>
         /\ turn[p] < Interval /\ draws[p] + Interval <= MaxDraws + turn[p] + 1
         /\ draws[p] > 0

\* A worker is in push() only between two draws, with the key it has drawn.
HandsInv ==
  \A p \in Producers :
    /\ work[p] # "matching" => left[p] = {} /\ pushing[p] = "idle"
    /\ pushing[p] \in {"locking", "locked"} => arg[p].worker = p /\ arg[p].draw = draws[p]
    /\ \A c \in met[p] : c.worker = p /\ c.draw <= draws[p]

NaiveInv == IInv /\ NaiveTypeOK /\ RoundInv /\ HandsInv /\ EveryMatchDelivered

\* A set of natural numbers that is not empty has a least element.
LEMMA LeastElement ==
  ASSUME NEW T \in SUBSET Nat, T # {}
  PROVE  \E p \in T : \A q \in T : p <= q
<1> DEFINE R == OpToRel(<, Nat)
<1>1. IsWellFoundedOn(R, Nat)
  BY NatLessThanWellFounded, Zenon
<1>2. \A m, n \in Nat : m < n => <<m, n>> \in R
  <2>1. ASSUME NEW m \in Nat, NEW n \in Nat, m < n
        PROVE  <<m, n>> \in R
    BY <2>1, Zenon DEF OpToRel
  <2>2. QED
    BY <2>1, Zenon
<1> HIDE DEF R
<1>3. PICK p \in T : \A q \in T : ~(<<q, p>> \in R)
  BY <1>1, WFMin
<1>4. ASSUME NEW q \in T, q < p
      PROVE  FALSE
  BY <1>2, <1>3, <1>4
<1>5. QED
  BY <1>4

\* The pattern a worker pushes for next is the first of those left.
LEMMA FirstPattern ==
  ASSUME NEW S \in SUBSET Patterns, S # {}
  PROVE  /\ Min(S) \in S
         /\ \A n \in S \ {Min(S)} : Min(S) < n
<1>1. S \in SUBSET Nat
  BY NaiveAssumption DEF Patterns
<1>2. \E x \in S : \A y \in S : x <= y
  BY <1>1, LeastElement, Zenon
<1> DEFINE m == Min(S)
<1>3. m \in S /\ \A y \in S : m <= y
  BY <1>2 DEF Min
<1> HIDE DEF m
<1>4. \A n \in S \ {m} : m < n
  BY <1>1, <1>3
<1>5. QED
  BY <1>3, <1>4 DEF m

\* A worker's step changes nothing of the queue, or is one of push()'s.
LEMMA WorkerPushes ==
  ASSUME NaiveInv, NEW p \in Producers, Worker(p)
  PROVE  UNCHANGED vars \/ Push(p)
<1>1. CASE PushMatch(p)
  <2> DEFINE n == Min(left[p])
  <2>1. n \in Patterns
    BY <1>1, FirstPattern DEF PushMatch, NaiveInv, NaiveTypeOK
  <2>2. draws[p] \in 1..MaxDraws
    BY <1>1, NaiveAssumption DEF PushMatch, NaiveInv, NaiveTypeOK, RoundInv
  <2>3. [worker |-> p, draw |-> draws[p], pattern |-> n] \in Items
    BY <2>1, <2>2, NaiveAssumption
  <2>4. QED
    BY <1>1, <2>3 DEF PushMatch, Push
<1>2. CASE Pushing(p)
  BY <1>2 DEF Pushing, Push
<1>3. CASE SodiumBegins(p) \/ SodiumReturns(p) \/ Check(p) \/ Draw(p) \/ NextDraw(p)
             \/ Publish(p)
  BY <1>3 DEF SodiumBegins, SodiumReturns, Check, Draw, NextDraw, Publish
<1>4. QED
  BY <1>1, <1>2, <1>3 DEF Worker

\* So is main()'s: whatever the engine does is a step of the queue's own
\* specification, and keeps its invariant.
LEMMA NaiveQueueStep ==
  ASSUME NaiveInv, [NaiveNext]_naiveVars
  PROVE  [Next]_vars /\ IInv'
<1>1. CASE \E p \in Producers : Worker(p)
  BY <1>1, WorkerPushes, PushIInv, StutterIInv DEF NaiveInv, Next
<1>2. CASE Popping
  BY <1>2, PopIInv DEF Popping, NaiveInv, Next
<1>3. CASE RequestStop \/ Over \/ UNCHANGED naiveVars
  BY <1>3, StutterIInv DEF RequestStop, Over, naiveVars, NaiveInv
<1>4. QED
  BY <1>1, <1>2, <1>3 DEF NaiveNext

\* The types and the bounds of the draws are kept.
LEMMA NaiveTypeStep ==
  ASSUME NaiveInv, IInv', [NaiveNext]_naiveVars
  PROVE  NaiveTypeOK' /\ RoundInv'
<1> USE NaiveAssumption DEF NaiveInv, NaiveTypeOK, RoundInv
<1>1. ASSUME NEW p \in Producers, SodiumBegins(p) \/ SodiumReturns(p) \/ Pushing(p)
      PROVE  NaiveTypeOK' /\ RoundInv'
  BY <1>1 DEF SodiumBegins, SodiumReturns, Pushing, naiveOnly
<1>2. ASSUME NEW p \in Producers, Check(p) \/ NextDraw(p) \/ Publish(p)
      PROVE  NaiveTypeOK' /\ RoundInv'
  <2>1. NaiveTypeOK'
    <3>1. UNCHANGED <<draws, left, met, delivered>>
      BY <1>2 DEF Check, NextDraw, Publish
    <3>2. turn' \in [Producers -> Nat]
      <4>1. turn' = turn \/ turn' = [turn EXCEPT ![p] = 0] \/ turn' = [turn EXCEPT ![p] = @ + 1]
        BY <1>2 DEF Check, NextDraw, Publish
      <4>2. turn \in [Producers -> Nat] /\ 0 \in Nat /\ turn[p] + 1 \in Nat
        OBVIOUS
      <4>3. \A n \in Nat : [turn EXCEPT ![p] = n] \in [Producers -> Nat]
        BY <4>2, Zenon
      <4>4. QED
        BY <4>1, <4>2, <4>3
    <3>3. work' \in [Producers -> {"checking", "drawing", "matching", "returned"}]
      BY <1>2 DEF Check, NextDraw, Publish
    <3>4. QED
      BY <3>1, <3>2, <3>3
  <2>2. RoundInv'
    BY <1>2, SMTT(30) DEF Check, NextDraw, Publish
  <2>3. QED
    BY <2>1, <2>2
<1>3. ASSUME NEW p \in Producers, Draw(p)
      PROVE  NaiveTypeOK' /\ RoundInv'
  <2>1. /\ draws' = [draws EXCEPT ![p] = @ + 1] /\ draws[p] + 1 \in 1..MaxDraws
        /\ UNCHANGED delivered
    BY <1>3 DEF Draw
  <2>2. CASE Refused(p)
    BY <1>3, <2>1, <2>2 DEF Draw, Refused
  <2>3. CASE Derived(p)
    <3>1. PICK S \in SUBSET Patterns :
            /\ left' = [left EXCEPT ![p] = S]
            /\ met' = [met EXCEPT ![p] = @ \cup Candidates(p, draws'[p], S)]
            /\ work' = [work EXCEPT ![p] = "matching"]
            /\ UNCHANGED turn
      BY <2>3 DEF Derived
    <3>2. Candidates(p, draws'[p], S) \subseteq Items
      BY <2>1 DEF Candidates
    <3>3. NaiveTypeOK'
      BY <2>1, <3>1, <3>2
    <3>4. RoundInv'
      BY <1>3, <2>1, <3>1 DEF Draw
    <3>5. QED
      BY <3>3, <3>4
  <2>4. QED
    BY <1>3, <2>2, <2>3 DEF Draw
<1>4. ASSUME NEW p \in Producers, PushMatch(p)
      PROVE  NaiveTypeOK' /\ RoundInv'
  BY <1>4 DEF PushMatch
<1>5. CASE Popping
  <2>1. popping = "taking" => got' \in Items
    <3>1. ASSUME popping = "taking"
          PROVE  queue # <<>> /\ PopTake /\ queue \in Seq(Items)
      BY <1>5, <3>1 DEF Popping, PopStep, PopCall, PopLock, PopTest, PopSleep, PopGiveUp,
                        SpuriousWake, DeadlinePasses, IInv, DecisionInv, TypeOK
    <3>2. \A q \in Seq(Items) : q # <<>> => Head(q) \in Items
      BY HeadTailProperties
    <3>3. QED
      BY <3>1, <3>2 DEF PopTake
  <2>2. delivered' \in Seq(Items)
    BY <1>5, <2>1, AppendProperties DEF Popping
  <2>3. QED
    BY <1>5, <2>2 DEF Popping, naiveOnly
<1>6. CASE RequestStop \/ Over \/ UNCHANGED naiveVars
  BY <1>6 DEF RequestStop, Over, naiveVars, naiveOnly
<1>7. QED
  BY <1>1, <1>2, <1>3, <1>4, <1>5, <1>6 DEF NaiveNext, Worker

\* A worker's hands stay as the code has them.
LEMMA HandsStep ==
  ASSUME NaiveInv, [NaiveNext]_naiveVars
  PROVE  HandsInv'
<1> USE NaiveAssumption DEF NaiveInv, NaiveTypeOK, HandsInv
<1>1. ASSUME NEW p \in Producers,
             SodiumBegins(p) \/ SodiumReturns(p) \/ Check(p) \/ NextDraw(p) \/ Publish(p)
      PROVE  HandsInv'
  BY <1>1 DEF SodiumBegins, SodiumReturns, Check, NextDraw, Publish, vars
<1>2. ASSUME NEW p \in Producers, Draw(p)
      PROVE  HandsInv'
  <2>1. /\ draws' = [draws EXCEPT ![p] = @ + 1] /\ work[p] = "drawing"
        /\ UNCHANGED <<pushing, arg>>
    BY <1>2 DEF Draw, vars
  <2>2. CASE Refused(p)
    BY <2>1, <2>2 DEF Refused
  <2>3. CASE Derived(p)
    <3>1. PICK S \in SUBSET Patterns :
            /\ left' = [left EXCEPT ![p] = S]
            /\ met' = [met EXCEPT ![p] = @ \cup Candidates(p, draws'[p], S)]
            /\ work' = [work EXCEPT ![p] = "matching"]
      BY <2>3 DEF Derived
    <3>2. \A c \in met'[p] : c.worker = p /\ c.draw <= draws'[p]
      <4>1. \A c \in met[p] : c.worker = p /\ c.draw <= draws'[p]
        <5>1. ASSUME NEW c \in met[p]
              PROVE  c.draw <= draws[p] + 1
          <6>1. c.draw \in Nat /\ draws[p] \in Nat /\ c.draw <= draws[p]
            OBVIOUS
          <6>2. QED
            BY <6>1
        <5>2. QED
          BY <2>1, <5>1
      <4>2. \A c \in Candidates(p, draws'[p], S) : c.worker = p /\ c.draw <= draws'[p]
        BY <2>1 DEF Candidates
      <4>3. met'[p] = met[p] \cup Candidates(p, draws'[p], S)
        BY <3>1
      <4>4. QED
        BY <4>1, <4>2, <4>3
    <3>3. \A q \in Producers : q # p => met'[q] = met[q] /\ draws'[q] = draws[q]
      BY <2>1, <3>1
    <3>4. \A q \in Producers :
            /\ work'[q] # "matching" => left'[q] = {} /\ pushing'[q] = "idle"
            /\ pushing'[q] \in {"locking", "locked"} =>
                 arg'[q].worker = q /\ arg'[q].draw = draws'[q]
      BY <2>1, <3>1
    <3>5. QED
      BY <3>2, <3>3, <3>4, ZenonT(30)
  <2>4. QED
    BY <1>2, <2>2, <2>3 DEF Draw
<1>3. ASSUME NEW p \in Producers, PushMatch(p)
      PROVE  HandsInv'
  BY <1>3 DEF PushMatch, PushCall, IInv, TypeOK
<1>4. ASSUME NEW p \in Producers, Pushing(p)
      PROVE  HandsInv'
  BY <1>4, SMTT(30) DEF Pushing, PushLock, PushBack, NotifyOne, IInv, TypeOK, naiveOnly
<1>5. CASE Popping
  BY <1>5 DEF Popping, PopStep, PopCall, PopLock, PopTest, PopSleep, PopTake, PopGiveUp,
              SpuriousWake, DeadlinePasses, naiveOnly
<1>6. CASE RequestStop \/ Over \/ UNCHANGED naiveVars
  BY <1>6 DEF RequestStop, Over, naiveVars, naiveOnly, vars
<1>7. QED
  BY <1>1, <1>2, <1>3, <1>4, <1>5, <1>6 DEF NaiveNext, Worker
\* Sent, InPush and ToPush say where the matches of one worker are.
InOrder ==
  \A j \in 1..Len(Out) : \A i \in 1..j-1 :
    Out[i].worker = Out[j].worker => Before(Out[i], Out[j])

Placed(p) ==
  /\ met[p] = Sent(p) \cup InPush(p) \cup ToPush(p)
  /\ \A a \in Sent(p) : \A b \in InPush(p) \cup ToPush(p) : Before(a, b)
  /\ \A a \in InPush(p) : \A b \in ToPush(p) : Before(a, b)

\* The property is these two.
LEMMA DeliveredParts == EveryMatchDelivered <=> InOrder /\ \A p \in Producers : Placed(p)
BY DEF EveryMatchDelivered, InOrder, Placed

\* A worker keeps its matches in order while none of its own moves.
LEMMA StaysPlaced ==
  ASSUME NEW q \in Producers, Placed(q),
         Sent(q)' = Sent(q), met'[q] = met[q], InPush(q)' = InPush(q), ToPush(q)' = ToPush(q)
  PROVE  Placed(q)'
BY DEF Placed, Before

\* As long as nothing moves everything stays in order.
LEMMA OutStays ==
  ASSUME Out' = Out
  PROVE  (InOrder => InOrder') /\ \A q : Sent(q)' = Sent(q)
BY DEF InOrder, Sent, Before

\* A candidate that main() takes is at the front of the queue.
LEMMA TakenInOrder ==
  ASSUME NEW d \in Seq(Items), NEW q \in Seq(Items), q # <<>>
  PROVE  Append(d, Head(q)) \o Tail(q) = d \o q
<1>1. /\ Tail(q) \in Seq(Items) /\ Head(q) = q[1] /\ Head(q) \in Items
      /\ Len(Tail(q)) = Len(q) - 1 /\ Len(q) \in Nat /\ Len(q) > 0
      /\ \A i \in 1..Len(Tail(q)) : Tail(q)[i] = q[i+1]
  BY HeadTailProperties
<1> DEFINE a == Append(d, Head(q))
<1>2. /\ a \in Seq(Items) /\ Len(a) = Len(d) + 1 /\ Len(d) \in Nat
      /\ \A i \in 1..Len(d) : a[i] = d[i]
      /\ a[Len(d) + 1] = q[1]
  BY <1>1, AppendProperties
<1> HIDE DEF a
<1> DEFINE l == a \o Tail(q)
           r == d \o q
<1>3. /\ l \in Seq(Items) /\ Len(l) = Len(a) + Len(Tail(q))
      /\ \A i \in 1..Len(a)+Len(Tail(q)) : l[i] = IF i <= Len(a) THEN a[i] ELSE Tail(q)[i - Len(a)]
  <2>1. Tail(q) \in Seq(Items) /\ a \in Seq(Items)
    BY <1>1, <1>2
  <2>2. QED
    BY <2>1, ConcatProperties
<1>4. /\ r \in Seq(Items) /\ Len(r) = Len(d) + Len(q)
      /\ \A i \in 1..Len(r) : r[i] = IF i <= Len(d) THEN d[i] ELSE q[i - Len(d)]
  BY ConcatProperties
<1> HIDE DEF l, r
<1>5. Len(l) = Len(r)
  BY <1>1, <1>2, <1>3, <1>4
<1>6. ASSUME NEW i \in 1..Len(l)
      PROVE  l[i] = r[i]
  <2>1. CASE i <= Len(d)
    BY <1>1, <1>2, <1>3, <1>4, <1>5, <2>1
  <2>2. CASE i = Len(d) + 1
    BY <1>1, <1>2, <1>3, <1>4, <1>5, <2>2
  <2>3. CASE i > Len(d) + 1
    <3>1. i - Len(a) \in 1..Len(Tail(q)) /\ (i - Len(a)) + 1 = i - Len(d)
      BY <1>1, <1>2, <1>3, <2>3
    <3>2. l[i] = Tail(q)[i - Len(a)] /\ r[i] = q[i - Len(d)]
      BY <1>1, <1>2, <1>3, <1>4, <1>5, <2>3
    <3>3. QED
      BY <1>1, <3>1, <3>2
  <2>4. QED
    BY <1>2, <1>3, <2>1, <2>2, <2>3
<1>7. l = r
  BY <1>3, <1>4, <1>5, <1>6, SeqEqual
<1>8. QED
  BY <1>7 DEF l, r, a
\* A step that leaves the matches and where they are alone.
LEMMA NothingMoves ==
  ASSUME NaiveInv, UNCHANGED <<Out, arg, draws, left, met>>,
         \A q \in Producers :
           (pushing'[q] \in {"locking", "locked"}) <=> (pushing[q] \in {"locking", "locked"})
  PROVE  InOrder' /\ \A q \in Producers : Placed(q)'
<1>1. InOrder /\ \A q \in Producers : Placed(q)
  BY DeliveredParts DEF NaiveInv
<1>2. ASSUME NEW q \in Producers
      PROVE  Placed(q)'
  <2>1. InPush(q)' = InPush(q) /\ ToPush(q)' = ToPush(q)
    BY DEF InPush, ToPush
  <2>2. QED
    BY <1>1, <2>1, OutStays, StaysPlaced
<1>3. QED
  BY <1>1, <1>2, OutStays

\* The matches of a new key come after those the worker has come upon before.
LEMMA DerivedPlaced ==
  ASSUME NaiveInv, NEW p \in Producers, Draw(p), Derived(p)
  PROVE  InOrder' /\ \A q \in Producers : Placed(q)'
<1>1. InOrder /\ \A q \in Producers : Placed(q)
  BY DeliveredParts DEF NaiveInv
<1>2. PICK S \in SUBSET Patterns :
        /\ left' = [left EXCEPT ![p] = S]
        /\ met' = [met EXCEPT ![p] = @ \cup Candidates(p, draws'[p], S)]
  BY DEF Derived
<1>3. /\ draws' = [draws EXCEPT ![p] = @ + 1] /\ work[p] = "drawing"
      /\ UNCHANGED <<pushing, arg, queue, delivered>>
  BY DEF Draw, vars
<1>4. Out' = Out
  BY <1>3 DEF Out
<1>5. /\ left[p] = {} /\ pushing[p] = "idle" /\ draws[p] \in Nat
      /\ \A c \in met[p] : c.worker = p /\ c.draw <= draws[p] /\ c.draw \in Nat
  BY <1>3, NaiveAssumption DEF NaiveInv, HandsInv, NaiveTypeOK
<1>6. InPush(p)' = {} /\ InPush(p) = {} /\ ToPush(p) = {}
  BY <1>3, <1>5 DEF InPush, ToPush, Candidates
<1>7. ToPush(p)' = Candidates(p, draws[p] + 1, S) /\ met'[p] = met[p] \cup ToPush(p)'
  BY <1>2, <1>3 DEF ToPush, NaiveInv, NaiveTypeOK
<1>8. Sent(p) = met[p] /\ Sent(p)' = met[p]
  BY <1>1, <1>4, <1>6, OutStays DEF Placed
<1>9. \A a \in met[p] : \A b \in Candidates(p, draws[p] + 1, S) : Before(a, b)
  <2>1. \A b \in Candidates(p, draws[p] + 1, S) : b.draw = draws[p] + 1
    BY DEF Candidates
  <2>2. \A a \in met[p] : a.draw < draws[p] + 1
    BY <1>5
  <2>3. QED
    BY <2>1, <2>2 DEF Before
<1>10. Placed(p)'
  <2>1. met'[p] = (Sent(p)' \cup InPush(p)') \cup ToPush(p)'
    BY <1>6, <1>7, <1>8, Zenon
  <2>2. \A a \in Sent(p)' : \A b \in InPush(p)' \cup ToPush(p)' : Before(a, b)
    BY <1>6, <1>7, <1>8, <1>9, Zenon
  <2>3. \A a \in InPush(p)' : \A b \in ToPush(p)' : Before(a, b)
    BY <1>6, Zenon
  <2>4. QED
    BY <2>1, <2>2, <2>3 DEF Placed, Before
<1>11. ASSUME NEW q \in Producers, q # p
       PROVE  Placed(q)'
  <2>1. InPush(q)' = InPush(q) /\ ToPush(q)' = ToPush(q) /\ met'[q] = met[q]
    BY <1>2, <1>3, <1>11 DEF InPush, ToPush, NaiveInv, NaiveTypeOK
  <2>2. QED
    BY <1>1, <1>4, <2>1, OutStays, StaysPlaced
<1>12. QED
  BY <1>1, <1>4, <1>10, <1>11, OutStays

\* The pattern that goes into push()'s hands is the first of those left.
LEMMA PushMatchPlaced ==
  ASSUME NaiveInv, NEW p \in Producers, PushMatch(p)
  PROVE  InOrder' /\ \A q \in Producers : Placed(q)'
<1>1. InOrder /\ \A q \in Producers : Placed(q)
  BY DeliveredParts DEF NaiveInv
<1> DEFINE n == Min(left[p])
           c == [worker |-> p, draw |-> draws[p], pattern |-> n]
<1>2. /\ pushing[p] = "idle" /\ left[p] # {} /\ left[p] \in SUBSET Patterns
      /\ pushing' = [pushing EXCEPT ![p] = "locking"] /\ arg' = [arg EXCEPT ![p] = c]
      /\ left' = [left EXCEPT ![p] = @ \ {n}]
      /\ UNCHANGED <<queue, delivered, met, draws>>
  BY DEF PushMatch, PushCall, NaiveInv, NaiveTypeOK
<1>3. n \in left[p] /\ \A k \in left[p] \ {n} : n < k
  BY <1>2, FirstPattern
<1>4. pushing'[p] = "locking" /\ arg'[p] = c /\ left'[p] = left[p] \ {n}
  BY <1>2 DEF NaiveInv, IInv, TypeOK, NaiveTypeOK
<1> HIDE DEF n
<1>5. Out' = Out /\ Sent(p)' = Sent(p)
  BY <1>2, OutStays DEF Out
<1>6. InPush(p) = {} /\ InPush(p)' = {c}
  BY <1>2, <1>4 DEF InPush
<1>7. /\ ToPush(p) = {c} \cup ToPush(p)'
      /\ ToPush(p)' = Candidates(p, draws[p], left[p] \ {n})
  BY <1>2, <1>3, <1>4 DEF ToPush, Candidates
<1>8. \A b \in ToPush(p)' : Before(c, b)
  BY <1>3, <1>7 DEF Candidates, Before
<1> HIDE DEF c
<1>9. Placed(p)'
  <2>1. met'[p] = (Sent(p)' \cup InPush(p)') \cup ToPush(p)'
    BY <1>1, <1>2, <1>5, <1>6, <1>7 DEF Placed
  <2>2. \A a \in Sent(p)' : \A b \in InPush(p)' \cup ToPush(p)' : Before(a, b)
    BY <1>1, <1>5, <1>6, <1>7 DEF Placed
  <2>3. \A a \in InPush(p)' : \A b \in ToPush(p)' : Before(a, b)
    BY <1>6, <1>8
  <2>4. QED
    BY <2>1, <2>2, <2>3 DEF Placed, Before
<1>10. ASSUME NEW q \in Producers, q # p
       PROVE  Placed(q)'
  <2>1. InPush(q)' = InPush(q) /\ ToPush(q)' = ToPush(q) /\ met'[q] = met[q]
    BY <1>2, <1>10 DEF InPush, ToPush, NaiveInv, NaiveTypeOK, IInv, TypeOK
  <2>2. QED
    BY <1>1, <1>5, <2>1, OutStays, StaysPlaced
<1>11. QED
  BY <1>1, <1>5, <1>9, <1>10, OutStays
\* A candidate leaves push()'s hands for the end of the queue.
LEMMA PushBackPlaced ==
  ASSUME NaiveInv, NEW p \in Producers, PushBack(p), UNCHANGED <<naiveOnly, delivered>>
  PROVE  InOrder' /\ \A q \in Producers : Placed(q)'
<1>1. InOrder /\ \A q \in Producers : Placed(q)
  BY DeliveredParts DEF NaiveInv
<1> DEFINE c == arg[p]
           l == Len(Out)
<1>2. /\ pushing[p] = "locked" /\ c \in Items /\ c.worker = p
      /\ queue \in Seq(Items) /\ delivered \in Seq(Items)
      /\ pushing' = [pushing EXCEPT ![p] = "notifying"] /\ pushing'[p] = "notifying"
      /\ queue' = Append(queue, c)
      /\ UNCHANGED <<delivered, arg, met, draws, left>>
  BY DEF PushBack, NaiveInv, NaiveTypeOK, HandsInv, IInv, TypeOK, naiveOnly
<1>3. Out \in Seq(Items) /\ Out' = Append(Out, c)
  <2>1. delivered \o Append(queue, c) = Append(delivered \o queue, c)
    <3>1. c \in Items /\ queue \in Seq(Items) /\ delivered \in Seq(Items)
      BY <1>2
    <3>2. QED
      BY <3>1, AppendIsConcat, ConcatAssociative, ConcatProperties
  <2>2. QED
    BY <1>2, <2>1, ConcatProperties DEF Out
<1>4. /\ l \in Nat /\ Len(Out') = l + 1 /\ Out'[l + 1] = c
      /\ \A i \in 1..l : Out'[i] = Out[i]
      /\ Out' \in Seq(Items)
  BY <1>2, <1>3, AppendProperties
<1>5. InPush(p) = {c} /\ InPush(p)' = {} /\ ToPush(p)' = ToPush(p)
  BY <1>2 DEF InPush, ToPush
<1> HIDE DEF c, l
<1>6. \A i \in 1..l : Out[i].worker = p => Out[i] \in Sent(p)
  BY <1>3 DEF Sent, Range, l
<1>7. \A a \in Sent(p) : Before(a, c)
  BY <1>1, <1>5 DEF Placed
<1>8. InOrder'
  <2> SUFFICES ASSUME NEW j \in 1..l+1, NEW i \in 1..j-1, Out'[i].worker = Out'[j].worker
               PROVE  Before(Out'[i], Out'[j])
    BY <1>4 DEF InOrder, Before
  <2>1. CASE j = l + 1
    BY <1>2, <1>4, <1>6, <1>7, <2>1
  <2>2. CASE j \in 1..l
    <3>1. i \in 1..l /\ Out'[i] = Out[i] /\ Out'[j] = Out[j]
      BY <1>4, <2>2
    <3>2. QED
      BY <1>1, <2>2, <3>1 DEF InOrder, l
  <2>3. QED
    BY <1>4, <2>1, <2>2
<1>9. Range(Out') = Range(Out) \cup {c}
  <2>1. DOMAIN Out' = 1..l+1 /\ DOMAIN Out = 1..l
    BY <1>3, <1>4 DEF l
  <2>2. QED
    BY <1>4, <2>1 DEF Range
<1>10. \A q \in Producers : Sent(q)' = {x \in Range(Out') : x.worker = q}
  BY DEF Sent, Range
<1>11. Placed(p)'
  <2>1. Sent(p)' = Sent(p) \cup {c}
    BY <1>2, <1>9, <1>10 DEF Sent
  <2>2. met'[p] = (Sent(p)' \cup InPush(p)') \cup ToPush(p)'
    BY <1>1, <1>2, <1>5, <2>1 DEF Placed
  <2>3. \A a \in Sent(p)' : \A b \in InPush(p)' \cup ToPush(p)' : Before(a, b)
    BY <1>1, <1>5, <2>1 DEF Placed
  <2>4. \A a \in InPush(p)' : \A b \in ToPush(p)' : Before(a, b)
    BY <1>5
  <2>5. QED
    BY <2>2, <2>3, <2>4 DEF Placed, Before
<1>12. ASSUME NEW q \in Producers, q # p
       PROVE  Placed(q)'
  <2>1. Sent(q)' = Sent(q)
    BY <1>2, <1>9, <1>10, <1>12 DEF Sent
  <2>2. InPush(q)' = InPush(q) /\ ToPush(q)' = ToPush(q) /\ met'[q] = met[q]
    BY <1>2, <1>12 DEF InPush, ToPush, NaiveInv, IInv, TypeOK
  <2>3. QED
    BY <1>1, <2>1, <2>2, StaysPlaced
<1>13. QED
  BY <1>8, <1>11, <1>12

\* Every step keeps each match in exactly one place, and all in order.
LEMMA DeliveredStep ==
  ASSUME NaiveInv, [NaiveNext]_naiveVars
  PROVE  EveryMatchDelivered'
<1> SUFFICES InOrder' /\ \A q \in Producers : Placed(q)'
  BY DEF EveryMatchDelivered, InOrder, Placed
<1>1. ASSUME NEW p \in Producers,
             SodiumBegins(p) \/ SodiumReturns(p) \/ Check(p) \/ NextDraw(p) \/ Publish(p)
      PROVE  InOrder' /\ \A q \in Producers : Placed(q)'
  <2>1. UNCHANGED <<Out, arg, draws, left, met, pushing>>
    BY <1>1 DEF SodiumBegins, SodiumReturns, Check, NextDraw, Publish, vars, Out
  <2>2. QED
    BY <2>1, NothingMoves
<1>2. ASSUME NEW p \in Producers, Draw(p)
      PROVE  InOrder' /\ \A q \in Producers : Placed(q)'
  <2>1. CASE Refused(p)
    <3>1. InOrder /\ \A q \in Producers : Placed(q)
      BY DeliveredParts DEF NaiveInv
    <3>2. /\ work[p] = "drawing" /\ draws' = [draws EXCEPT ![p] = @ + 1]
          /\ UNCHANGED <<Out, arg, left, met, pushing>>
      BY <1>2, <2>1 DEF Draw, Refused, vars, Out
    <3>3. ASSUME NEW q \in Producers
          PROVE  ToPush(q)' = ToPush(q) /\ InPush(q)' = InPush(q)
      <4>1. CASE q = p
        <5>1. left[p] = {}
          BY <3>2 DEF NaiveInv, HandsInv
        <5>2. QED
          BY <3>2, <4>1, <5>1 DEF ToPush, InPush, Candidates
      <4>2. CASE q # p
        BY <3>2, <4>2 DEF ToPush, InPush, NaiveInv, NaiveTypeOK
      <4>3. QED
        BY <4>1, <4>2
    <3>4. QED
      BY <3>1, <3>2, <3>3, OutStays, StaysPlaced
  <2>2. CASE Derived(p)
    BY <1>2, <2>2, DerivedPlaced
  <2>3. QED
    BY <1>2, <2>1, <2>2 DEF Draw
<1>3. ASSUME NEW p \in Producers, PushMatch(p)
      PROVE  InOrder' /\ \A q \in Producers : Placed(q)'
  BY <1>3, PushMatchPlaced
<1>4. ASSUME NEW p \in Producers, Pushing(p)
      PROVE  InOrder' /\ \A q \in Producers : Placed(q)'
  <2>1. CASE PushBack(p)
    BY <1>4, <2>1, PushBackPlaced DEF Pushing
  <2>2. CASE PushLock(p) \/ NotifyOne(p)
    <3>1. UNCHANGED <<Out, arg, draws, left, met>>
      BY <1>4, <2>2 DEF Pushing, PushLock, NotifyOne, naiveOnly, Out
    <3>2. \A q \in Producers :
            (pushing'[q] \in {"locking", "locked"}) <=> (pushing[q] \in {"locking", "locked"})
      BY <2>2 DEF PushLock, NotifyOne, NaiveInv, IInv, TypeOK
    <3>3. QED
      BY <3>1, <3>2, NothingMoves
  <2>3. QED
    BY <1>4, <2>1, <2>2 DEF Pushing
<1>5. CASE Popping
  <2>1. UNCHANGED <<arg, draws, left, met, pushing>>
    BY <1>5 DEF Popping, naiveOnly, PopStep, PopCall, PopLock, PopTest, PopSleep, PopTake,
                PopGiveUp, SpuriousWake, DeadlinePasses
  <2>2. Out' = Out
    <3>1. CASE popping = "taking"
      <4>1. /\ queue # <<>> /\ queue \in Seq(Items) /\ delivered \in Seq(Items)
            /\ queue' = Tail(queue) /\ delivered' = Append(delivered, Head(queue))
        BY <1>5, <3>1 DEF Popping, PopStep, PopCall, PopLock, PopTest, PopSleep, PopTake,
                          PopGiveUp, SpuriousWake, DeadlinePasses, NaiveInv, NaiveTypeOK,
                          IInv, DecisionInv, TypeOK
      <4>2. QED
        BY <4>1, TakenInOrder DEF Out
    <3>2. CASE popping # "taking"
      BY <1>5, <3>2 DEF Popping, PopStep, PopCall, PopLock, PopTest, PopSleep, PopTake,
                        PopGiveUp, SpuriousWake, DeadlinePasses, Out
    <3>3. QED
      BY <3>1, <3>2
  <2>3. QED
    BY <2>1, <2>2, NothingMoves
<1>6. CASE RequestStop \/ Over \/ UNCHANGED naiveVars
  <2>1. UNCHANGED <<Out, arg, draws, left, met, pushing>>
    BY <1>6 DEF RequestStop, Over, naiveVars, naiveOnly, vars, Out
  <2>2. QED
    BY <2>1, NothingMoves
<1>7. QED
  BY <1>1, <1>2, <1>3, <1>4, <1>5, <1>6 DEF NaiveNext, Worker

\* At the start nothing has been matched.
LEMMA NaiveStart == NaiveInit => NaiveInv
<1> SUFFICES ASSUME NaiveInit
             PROVE  NaiveInv
  OBVIOUS
<1>1. IInv
  BY InitIInv DEF NaiveInit
<1>2. /\ queue = <<>> /\ delivered = <<>>
      /\ \A p \in Producers :
           pushing[p] = "idle" /\ met[p] = {} /\ left[p] = {} /\ work[p] = "checking"
  BY DEF NaiveInit, Init
<1>3. NaiveTypeOK
  BY DEF NaiveInit, NaiveTypeOK
<1>4. RoundInv /\ HandsInv
  BY <1>2 DEF RoundInv, HandsInv
<1>5. Out = <<>> /\ Len(Out) = 0 /\ Range(Out) = {}
  BY <1>2 DEF Out, Range
<1>6. InOrder
  BY <1>5 DEF InOrder
<1>7. \A p \in Producers : Placed(p)
  BY <1>2, <1>5 DEF Placed, Sent, InPush, ToPush, Candidates
<1>8. QED
  BY <1>1, <1>3, <1>4, <1>6, <1>7, DeliveredParts DEF NaiveInv

\* The invariant of the naive engine and of the queue below it.
THEOREM NaiveInvariance == NaiveSpec => []NaiveInv
<1>1. NaiveInv /\ [NaiveNext]_naiveVars => NaiveInv'
  <2> SUFFICES ASSUME NaiveInv, [NaiveNext]_naiveVars
               PROVE  NaiveInv'
    OBVIOUS
  <2>1. IInv'
    BY NaiveQueueStep
  <2>2. QED
    BY <2>1, NaiveTypeStep, HandsStep, DeliveredStep DEF NaiveInv
<1>2. QED
  BY NaiveStart, <1>1, PTL DEF NaiveSpec

\* Every pattern a naive worker's keys match reaches main() once and in order,
\* for any number of workers, patterns and draws, however their pushes
\* interleave with one another and with main()'s waits.
THEOREM EveryMatchIsDelivered == NaiveSpec => []EveryMatchDelivered
<1>1. NaiveInv => EveryMatchDelivered
  BY DEF NaiveInv
<1>2. QED
  BY NaiveInvariance, <1>1, PTL

\* What ResultQueue_proofs shows of the queue holds of the one the naive
\* engine's workers and main() share: no wake-up is lost, and it is the channel.
THEOREM WorkersKeepTheQueue == NaiveSpec => [](TypeOK /\ NoLostWakeup) /\ RefinesChannel
<1>1. NaiveInv => TypeOK /\ NoLostWakeup
  BY DEF NaiveInv, IInv
<1>2. NaiveInit => Ch!Init
  BY DEF NaiveInit, Init, Ch!Init
<1>3. NaiveInv /\ [NaiveNext]_naiveVars => [Ch!Next]_(Ch!vars)
  BY NaiveQueueStep, StepRefines DEF NaiveInv
<1>4. QED
  BY NaiveInvariance, <1>1, <1>2, <1>3, PTL DEF NaiveSpec, RefinesChannel, Ch!Spec

-----------------------------------------------------------------------------
(* The command line *)

\* Each option has its effect on threads, and then on the board, before an
\* engine is made; a refused command line leaves none.
CliInv ==
  /\ cpc \in {"options", "prefixes", "engine", "running", "exited"}
  /\ threads \in Nat /\ args \in Arguments
  /\ cpc = "engine" => board = IF args.engine = "cpu+gpu" THEN threads + 1 ELSE threads
  /\ cpc \in {"prefixes", "engine"} => threads > 0
  /\ cpc # "running" => engines = {}
  /\ cpc # "exited" => status = 0
  /\ SlotsWithinBoard

\* The invariant of the command line.
LEMMA CliStep ==
  ASSUME CliInv, [CliNext]_cliVars
  PROVE  CliInv'
<1> USE CommandLineAssumption
<1>1. CASE SetThreads
  <2>1. \A n \in Nat : AtLeastOne(n) \in Nat /\ AtLeastOne(n) > 0
    BY DEF AtLeastOne
  <2>2. threads' \in Nat /\ threads' > 0
    <3>1. args.hw \in Nat /\ args.t \in {NotGiven} \cup Nat
      BY DEF CliInv, Arguments
    <3>2. args.hw \div 2 \in Nat
      BY <3>1
    <3>3. CASE args.t # NotGiven
      BY <1>1, <2>1, <3>1, <3>3 DEF SetThreads
    <3>4. CASE args.t = NotGiven /\ args.engine = "cpu+gpu" /\ args.hw > 0
      BY <1>1, <3>1, <3>4 DEF SetThreads
    <3>5. CASE args.t = NotGiven /\ ~(args.engine = "cpu+gpu" /\ args.hw > 0)
      BY <1>1, <2>1, <3>2, <3>5 DEF SetThreads
    <3>6. QED
      BY <3>3, <3>4, <3>5
  <2>3. UNCHANGED <<args, board, engines, status>> /\ cpc = "options" /\ cpc' = "prefixes"
    BY <1>1 DEF SetThreads
  <2>4. QED
    BY <2>2, <2>3 DEF CliInv, SlotsWithinBoard
<1>2. CASE CompilePrefix
  <2>1. UNCHANGED <<args, threads, board, engines>> /\ cpc = "prefixes"
    BY <1>2 DEF CompilePrefix
  <2>2. \/ cpc' = cpc /\ status' = status
        \/ cpc' = "exited" /\ status' = 1
    BY <1>2 DEF CompilePrefix, Exit
  <2>3. engines = {}
    BY <2>1 DEF CliInv
  <2>4. QED
    BY <2>1, <2>2, <2>3 DEF CliInv, SlotsWithinBoard
<1>3. CASE MakeBoard
  <2>1. UNCHANGED <<args, threads, engines, status>> /\ cpc = "prefixes" /\ cpc' = "engine"
    BY <1>3 DEF MakeBoard
  <2>2. board' = IF args.engine = "cpu+gpu" THEN threads + 1 ELSE threads
    BY <1>3 DEF MakeBoard
  <2>3. engines = {}
    BY <2>1 DEF CliInv
  <2>4. QED
    BY <2>1, <2>2, <2>3 DEF CliInv, SlotsWithinBoard
<1>4. CASE SelectEngine
  <2>1. UNCHANGED <<args, threads, board>> /\ cpc = "engine" /\ engines = {} /\ status = 0
    BY <1>4 DEF SelectEngine, CliInv
  <2>2. CASE Exit(1) /\ UNCHANGED engines
    BY <2>1, <2>2 DEF Exit, CliInv, SlotsWithinBoard
  <2>3. CASE engines' = Chosen /\ cpc' = "running" /\ UNCHANGED status
    <3>1. threads \in Nat /\ threads > 0
      BY <2>1 DEF CliInv
    <3>2. board = IF args.engine = "cpu+gpu" THEN threads + 1 ELSE threads
      BY <2>1 DEF CliInv
    <3>3. CASE args.engine = "cpu+gpu"
      <4>1. engines' = {CpuEngine("incremental"), GpuEngine(threads)}
        BY <2>3, <3>3 DEF Chosen
      <4>2. SlotsOf(CpuEngine("incremental")) = 0..threads-1 /\ SlotsOf(GpuEngine(threads)) = threads..threads
        BY <3>1 DEF SlotsOf, CpuEngine, GpuEngine
      <4>3. \A e \in engines' : SlotsOf(e) \subseteq 0..board-1
        BY <3>1, <3>2, <3>3, <4>1, <4>2
      <4>4. \A e, f \in engines' : e # f => SlotsOf(e) \cap SlotsOf(f) = {}
        BY <3>1, <4>1, <4>2
      <4>5. QED
        BY <2>1, <2>3, <4>3, <4>4 DEF CliInv, SlotsWithinBoard
    <3>4. CASE args.engine # "cpu+gpu"
      <4>1. \E e : engines' = {e} /\ SlotsOf(e) \subseteq 0..board-1
        <5>1. CASE args.engine = "cuda"
          <6>1. engines' = {GpuEngine(0)} /\ SlotsOf(GpuEngine(0)) = 0..0
            BY <2>3, <5>1 DEF Chosen, SlotsOf, GpuEngine
          <6>2. QED
            BY <3>1, <3>2, <3>4, <6>1
        <5>2. CASE args.engine # "cuda"
          <6>1. \E kind : engines' = {CpuEngine(kind)}
            BY <2>3, <3>4, <5>2 DEF Chosen
          <6>2. \A kind : SlotsOf(CpuEngine(kind)) = 0..threads-1
            BY <3>1 DEF SlotsOf, CpuEngine
          <6>3. QED
            BY <3>2, <3>4, <6>1, <6>2
        <5>3. QED
          BY <5>1, <5>2
      <4>2. QED
        BY <2>1, <2>3, <4>1 DEF CliInv, SlotsWithinBoard
    <3>5. QED
      BY <3>3, <3>4
  <2>4. QED
    BY <1>4, <2>2, <2>3 DEF SelectEngine
<1>5. CASE CliOver \/ UNCHANGED cliVars
  BY <1>5 DEF CliOver, cliVars, CliInv, SlotsWithinBoard, SlotsOf
<1>6. QED
  BY <1>1, <1>2, <1>3, <1>4, <1>5 DEF CliNext

\* For every command line, number of threads and machine, the threads of a run
\* write slots the board has, and no slot is written by two.
THEOREM SlotsAlwaysWithinBoard == CliInit /\ [][CliNext]_cliVars => []SlotsWithinBoard
<1>1. CliInit => CliInv
  BY DEF CliInit, CliInv, SlotsWithinBoard
<1>2. CliInv /\ [CliNext]_cliVars => CliInv'
  BY CliStep
<1>3. CliInv => SlotsWithinBoard
  BY DEF CliInv
<1>4. QED
  BY <1>1, <1>2, <1>3, PTL

-----------------------------------------------------------------------------
(* The writer and the loss of power *)

\* A file is left unfinished only by the call that is writing it, or whose
\* write has failed; main() makes no further call after that.
OneUnfinished ==
  \A k \in Keys : \A i \in 1..Len(Files) : file[k][i] = Partial =>
    wpc \in {"write", "write_failed"} /\ k = wkey /\ i = wfile

\* As long as the power is on, a whole file is on the medium unless its fsync
\* failed, and a key that was reported is whole.
OnInv ==
  /\ WriterInv /\ OneUnfinished
  /\ \A k \in Keys : \A i \in 1..Len(Files) :
       file[k][i] = Complete => <<k, i>> \in synced \cup unsynced
  /\ reported \subseteq CompleteKeys

\* Afterwards a file is torn only if it was unfinished.
LostInv == \E x : Torn \subseteq {x} /\ \A f \in Torn : f[1] \notin reported

DurableInv ==
  /\ power \in {"on", "lost"}
  /\ power = "on" => OnInv
  /\ power = "lost" => LostInv

\* Of the states the writer keeps, one file at the most is unfinished, and it
\* is none of a key that was reported.
LEMMA UnfinishedIsUnreported ==
  ASSUME OnInv
  PROVE  \A f \in Torn : f = <<wkey, wfile>> /\ f[1] \notin reported
<1> SUFFICES ASSUME NEW f \in Torn
             PROVE  f = <<wkey, wfile>> /\ f[1] \notin reported
  OBVIOUS
<1>1. PICK k \in Keys, i \in 1..Len(Files) : f = <<k, i>> /\ file[k][i] = Partial
  BY DEF Torn
<1>2. f = <<wkey, wfile>>
  BY <1>1 DEF OnInv, OneUnfinished
<1>3. k \notin CompleteKeys
  BY <1>1 DEF CompleteKeys, Partial, Complete
<1>4. QED
  BY <1>1, <1>2, <1>3 DEF OnInv

\* A new call finds no file unfinished.
LEMMA GiveOnInv ==
  ASSUME OnInv, NEW k \in Keys, Give(k)
  PROVE  OnInv'
<1>1. WriterInv' /\ CompleteKeys' = CompleteKeys
  BY WriterCallInv DEF OnInv, Give
<1>2. UNCHANGED <<file, synced, unsynced, reported>> /\ wpc \notin {"write", "write_failed"}
  BY DEF Give, WriteTorKeys, Returned, Failed
<1>3. QED
  BY <1>1, <1>2 DEF OnInv, OneUnfinished

\* Making the directory and opening a file finish none.
LEMMA PrepareOnInv ==
  ASSUME OnInv, Prepare
  PROVE  OnInv'
<1>1. WriterInv' /\ CompleteKeys' = CompleteKeys
  BY MakeDirectoryInv, OpenFileInv DEF OnInv, Prepare
<1>2. UNCHANGED <<synced, unsynced, reported>> /\ wpc \notin {"write", "write_failed"}
  BY DEF Prepare, MakeDirectory, OpenFile
<1>3. \A k \in Keys : \A i \in 1..Len(Files) : file[k][i] # Partial
  BY <1>2 DEF OnInv, OneUnfinished
<1>4. CASE UNCHANGED file
  BY <1>1, <1>2, <1>3, <1>4 DEF OnInv, OneUnfinished
<1>5. CASE /\ file' = [file EXCEPT ![wkey][wfile] = Partial] /\ wpc' = "write"
           /\ UNCHANGED <<wkey, wfile>>
  <2>1. \A k \in Keys : \A i \in 1..Len(Files) :
          file'[k][i] = IF k = wkey /\ i = wfile THEN Partial ELSE file[k][i]
    BY <1>5 DEF OnInv, WriterInv, WriterTypeOK
  <2>2. OneUnfinished'
    BY <1>3, <1>5, <2>1 DEF OneUnfinished
  <2>3. \A k \in Keys : \A i \in 1..Len(Files) :
          file'[k][i] = Complete => file[k][i] = Complete
    BY <2>1 DEF Partial, Complete
  <2>4. QED
    BY <1>1, <1>2, <2>2, <2>3 DEF OnInv
<1>6. QED
  BY <1>4, <1>5 DEF Prepare, MakeDirectory, OpenFile

\* A file is whole when its write loop and its fsync are over.
LEMMA WriteOnInv ==
  ASSUME OnInv, WriteAndSync
  PROVE  OnInv'
<1>1. WriteFile
  BY DEF WriteAndSync
<1>2. /\ WriterInv'
      /\ wpc' = "ok" => CompleteKeys' = CompleteKeys \cup {wkey}
      /\ wpc' # "ok" => CompleteKeys' = CompleteKeys
  BY <1>1, WriteFileInv DEF OnInv
<1>3. wkey \in Keys /\ wfile \in 1..Len(Files) /\ wkey' = wkey
  BY <1>1 DEF OnInv, WriterInv, WriterTypeOK, WriteCallInv, WriteFile
<1>4. reported' \subseteq CompleteKeys'
  BY <1>2 DEF OnInv, WriteAndSync, Reported
<1>5. CASE file' = [file EXCEPT ![wkey][wfile] = Complete]
  <2>1. \A k \in Keys : \A i \in 1..Len(Files) :
          file'[k][i] = IF k = wkey /\ i = wfile THEN Complete ELSE file[k][i]
    BY <1>5 DEF OnInv, WriterInv, WriterTypeOK
  <2>2. \A k \in Keys : \A i \in 1..Len(Files) : file'[k][i] # Partial
    BY <2>1 DEF OnInv, OneUnfinished, Partial, Complete
  <2>3. synced \cup unsynced \cup {<<wkey, wfile>>} \subseteq synced' \cup unsynced'
    BY <1>3, <2>1 DEF WriteAndSync
  <2>4. QED
    BY <1>2, <1>4, <2>1, <2>2, <2>3 DEF OnInv, OneUnfinished
<1>6. CASE file' = file /\ wpc' = "write_failed" /\ UNCHANGED <<wkey, wfile>>
  <2>1. synced \cup unsynced \subseteq synced' \cup unsynced'
    BY DEF WriteAndSync
  <2>2. OneUnfinished'
    BY <1>6 DEF OnInv, OneUnfinished
  <2>3. QED
    BY <1>2, <1>4, <1>6, <2>1, <2>2 DEF OnInv
<1>7. QED
  BY <1>1, <1>3, <1>5, <1>6 DEF WriteFile

\* The loss of power tears no file but one that was unfinished, or whose fsync
\* had failed.
LEMMA PowerLossInv ==
  ASSUME OnInv, PowerLoss
  PROVE  LostInv'
<1>1. \A k \in Keys : \A i \in 1..Len(Files) : file'[k][i] \in Found(k, i)
  BY DEF PowerLoss
<1>2. ASSUME NEW k \in Keys, NEW i \in 1..Len(Files), file'[k][i] = Partial
      PROVE  file[k][i] = Partial \/ <<k, i>> \in unsynced
  <2>1. file[k][i] \in {Absent, Partial, Complete}
    BY DEF OnInv, WriterInv, WriterTypeOK
  <2>2. file[k][i] # Absent /\ <<k, i>> \notin synced
    BY <1>1, <1>2 DEF Found, Absent, Partial, Complete
  <2>3. QED
    BY <2>1, <2>2 DEF OnInv
<1>3. Torn' \subseteq Torn
  BY <1>2 DEF Torn, PowerLoss
<1>4. reported' = reported
  BY DEF PowerLoss
<1>5. QED
  BY <1>3, <1>4, UnfinishedIsUnreported DEF LostInv

\* Wherever the power fails, one file at the most is torn, and of a key that
\* was reported none is unless its fsync had failed unnoticed; for any keys.
THEOREM FilesAreTornOnlyWhileWritten ==
  DurableInit /\ [][DurableNext]_durableVars => []TornOnlyWhileWritten
<1>1. DurableInit => DurableInv
  <2> SUFFICES ASSUME DurableInit
               PROVE  DurableInv
    OBVIOUS
  <2>1. WriterInv /\ CompleteKeys = {}
    BY WriterInitInv DEF DurableInit
  <2>2. \A k \in Keys : \A i \in 1..Len(Files) : file[k][i] = Absent
    BY DEF DurableInit, WriterInit
  <2>3. OnInv
    BY <2>1, <2>2 DEF OnInv, OneUnfinished, DurableInit, Absent, Partial, Complete
  <2>4. QED
    BY <2>3 DEF DurableInv, DurableInit
<1>2. DurableInv /\ [DurableNext]_durableVars => DurableInv'
  <2> SUFFICES ASSUME DurableInv, [DurableNext]_durableVars
               PROVE  DurableInv'
    OBVIOUS
  <2>1. ASSUME (\E k \in Keys : Give(k)) \/ Prepare \/ WriteAndSync
        PROVE  power = "on" /\ power' = power /\ OnInv'
    <3>1. power = "on" /\ power' = power
      BY <2>1 DEF Give, Prepare, WriteAndSync
    <3>2. QED
      BY <2>1, <3>1, GiveOnInv, PrepareOnInv, WriteOnInv DEF DurableInv
  <2>2. CASE PowerLoss
    <3>1. power = "on" /\ power' = "lost"
      BY <2>2 DEF PowerLoss
    <3>2. QED
      BY <2>2, <3>1, PowerLossInv DEF DurableInv
  <2>3. CASE UNCHANGED durableVars
    BY <2>3 DEF DurableInv, OnInv, OneUnfinished, LostInv, Torn, durableVars,
                             writerVars, WriterInv, WriterTypeOK, WriteCallInv, FilesInOrder,
                             CompleteKeys
  <2>4. QED
    BY <2>1, <2>2, <2>3 DEF DurableNext, DurableOver, DurableInv
<1>3. DurableInv => TornOnlyWhileWritten
  <2> SUFFICES ASSUME DurableInv
               PROVE  TornOnlyWhileWritten
    OBVIOUS
  <2>1. \E x : Torn \subseteq {x} /\ \A f \in Torn : f[1] \notin reported
    BY UnfinishedIsUnreported DEF DurableInv, LostInv
  <2>2. Cardinality(Torn) <= 1
    <3>1. PICK x : Torn \subseteq {x}
      BY <2>1
    <3>2. IsFiniteSet({x}) /\ Cardinality({x}) = 1
      BY FS_Singleton
    <3>3. QED
      BY <3>1, <3>2, FS_Subset
  <2>3. QED
    BY <2>1, <2>2 DEF TornOnlyWhileWritten, DurableInv, OnInv, WriterInv
<1>4. QED
  BY <1>1, <1>2, <1>3, PTL

===============================================================================
