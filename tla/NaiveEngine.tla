----------------------------- MODULE NaiveEngine -----------------------------
(***************************************************************************)
(* engine/cpu/naive_engine.cpp: the reference engine's workers, each with  *)
(* its own seed, which derive keys with libsodium through crypto/keys.cpp  *)
(* and push a candidate for every pattern a key matches, through the real  *)
(* steps of ResultQueue.  main() asks for the stop when it is between two  *)
(* calls of pop_wait_for, and makes none afterwards.                       *)
(*                                                                         *)
(* A key is its worker and the number of its draw; what is drawn of it is  *)
(* which patterns it matches, or that libsodium refuses its scalar.        *)
(***************************************************************************)
EXTENDS ResultQueue, FiniteSetsExt, Functions

CONSTANTS NumPatterns,
          Interval,     \* kCheckInterval
          MaxDraws,     \* bound: seeds drawn by a worker
          MaxMatches    \* bound: matches of all workers together

Patterns == 1..NumPatterns

ASSUME NaiveAssumption ==
  /\ NumPatterns \in Nat /\ Interval \in Nat \ {0} /\ MaxDraws \in Nat
  /\ MaxMatches \in Nat /\ MaxLen >= MaxMatches
  /\ Items = [worker : Producers, draw : 1..MaxDraws, pattern : Patterns]

VARIABLES stop,         \* the stop token
          sodium,       \* the guard of the static in ensure_sodium
          first,        \* who came to it first
          work,         \* where each worker is
          turn,         \* i
          draws,        \* seeds it has drawn
          left,         \* the patterns a key matches and was not pushed for yet
          local_total,
          slots,        \* the StatsBoard's slots
          met,          \* history: the matches each worker came upon
          delivered     \* history: what main() was given

naiveOnly == <<stop, sodium, first, work, turn, draws, left, local_total, slots, met>>
naiveVars == <<naiveOnly, delivered, vars>>

NaiveInit ==
  /\ Init
  /\ stop = FALSE
  /\ sodium = "unset" /\ first = Main
  /\ work = [p \in Producers |-> "checking"]
  /\ turn = [p \in Producers |-> 0]
  /\ draws = [p \in Producers |-> 0]
  /\ left = [p \in Producers |-> {}]
  /\ local_total = [p \in Producers |-> 0]
  /\ slots = [p \in Producers |-> 0]
  /\ met = [p \in Producers |-> {}]
  /\ delivered = <<>>

-----------------------------------------------------------------------------
(* ensure_sodium *)

\* The first thread to come to the static initialises it; the others wait.
SodiumBegins(p) ==
  /\ work[p] = "drawing" /\ sodium = "unset"
  /\ sodium' = "running" /\ first' = p
  /\ UNCHANGED <<vars, stop, work, turn, draws, left, local_total, slots, met, delivered>>

\* sodium_init returns; without a source of entropy the process aborts.
SodiumReturns(p) ==
  /\ sodium = "running" /\ first = p
  /\ sodium' \in {"set", "aborted"}
  /\ UNCHANGED <<vars, stop, first, work, turn, draws, left, local_total, slots, met,
                 delivered>>

-----------------------------------------------------------------------------
(* The worker *)

\* Mutant: the worker goes round whatever the stop token says.
CheckAlways(p) ==
  /\ work[p] = "checking"
  /\ draws[p] + Interval <= MaxDraws
  /\ work' = [work EXCEPT ![p] = "drawing"]
  /\ turn' = [turn EXCEPT ![p] = 0]
  /\ UNCHANGED <<vars, stop, sodium, first, draws, left, local_total, slots, met, delivered>>

\* The while condition; a worker that leaves wipes its seed.
Check(p) ==
  /\ work[p] = "checking"
  /\ \/ /\ ~stop /\ draws[p] + Interval <= MaxDraws
        /\ work' = [work EXCEPT ![p] = "drawing"]
     \/ /\ stop
        /\ work' = [work EXCEPT ![p] = "returned"]
  /\ turn' = [turn EXCEPT ![p] = 0]
  /\ UNCHANGED <<vars, stop, sodium, first, draws, left, local_total, slots, met, delivered>>

Matches == MapThenSumSet(LAMBDA p : Cardinality(met[p]), Producers)

\* The candidates for the patterns of S.
Candidates(p, draw, S) ==
  {[worker |-> p, draw |-> draw, pattern |-> n] : n \in S}

\* pubkey_from_scalar has no key for the scalar: it is skipped.
Refused(p) ==
  /\ turn' = [turn EXCEPT ![p] = @ + 1]
  /\ UNCHANGED <<work, left, local_total, met>>

\* The key is compared with every pattern.
Derived(p) ==
  \E S \in SUBSET Patterns :
    /\ Matches + Cardinality(S) <= MaxMatches
    /\ left' = [left EXCEPT ![p] = S]
    /\ met' = [met EXCEPT ![p] = @ \cup Candidates(p, draws'[p], S)]
    /\ local_total' = [local_total EXCEPT ![p] = @ + 1]
    /\ work' = [work EXCEPT ![p] = "matching"]
    /\ UNCHANGED turn

\* A fresh seed, the secret expanded from it, and its public key.
Draw(p) ==
  /\ work[p] = "drawing" /\ sodium = "set"
  /\ turn[p] < Interval
  /\ draws' = [draws EXCEPT ![p] = @ + 1]
  /\ Refused(p) \/ Derived(p)
  /\ UNCHANGED <<vars, stop, sodium, first, slots, delivered>>

\* Mutant: one match is enough.
PushFirstOnly(p) ==
  /\ work[p] = "matching" /\ left[p] # {}
  /\ PushCall(p, [worker |-> p, draw |-> draws[p], pattern |-> Min(left[p])])
  /\ left' = [left EXCEPT ![p] = {}]
  /\ UNCHANGED <<stop, sodium, first, work, turn, draws, local_total, slots, met, delivered>>

\* results_.push for the next pattern the key matches.
PushMatch(p) ==
  /\ work[p] = "matching" /\ left[p] # {}
  /\ PushCall(p, [worker |-> p, draw |-> draws[p], pattern |-> Min(left[p])])
  /\ left' = [left EXCEPT ![p] = @ \ {Min(@)}]
  /\ UNCHANGED <<stop, sodium, first, work, turn, draws, local_total, slots, met, delivered>>

\* The steps of push() itself.
Pushing(p) ==
  /\ PushLock(p) \/ PushBack(p) \/ NotifyOne(p)
  /\ UNCHANGED <<naiveOnly, delivered>>

NextDraw(p) ==
  /\ work[p] = "matching" /\ left[p] = {} /\ pushing[p] = "idle"
  /\ work' = [work EXCEPT ![p] = "drawing"]
  /\ turn' = [turn EXCEPT ![p] = @ + 1]
  /\ UNCHANGED <<vars, stop, sodium, first, draws, left, local_total, slots, met, delivered>>

\* stats_.set, once in kCheckInterval candidates.
Publish(p) ==
  /\ work[p] = "drawing" /\ turn[p] = Interval
  /\ slots' = [slots EXCEPT ![p] = local_total[p]]
  /\ work' = [work EXCEPT ![p] = "checking"]
  /\ UNCHANGED <<vars, stop, sodium, first, turn, draws, left, local_total, met, delivered>>

Worker(p) ==
  SodiumBegins(p) \/ SodiumReturns(p) \/ Check(p) \/ Draw(p) \/ PushMatch(p)
    \/ Pushing(p) \/ NextDraw(p) \/ Publish(p)

-----------------------------------------------------------------------------
(* main *)

Popping ==
  /\ PopStep
  /\ popping = "idle" => ~stop
  /\ delivered' = IF popping = "taking" THEN Append(delivered, got') ELSE delivered
  /\ UNCHANGED naiveOnly

RequestStop ==
  /\ popping = "idle" /\ ~stop
  /\ stop' = TRUE
  /\ UNCHANGED <<vars, sodium, first, work, turn, draws, left, local_total, slots, met,
                 delivered>>

Over ==
  /\ sodium = "aborted" \/ \A p \in Producers : work[p] = "returned"
  /\ UNCHANGED naiveVars

NaiveNext ==
  \/ /\ sodium # "aborted"
     /\ (\E p \in Producers : Worker(p)) \/ Popping \/ RequestStop
  \/ Over

\* The workers run.  Nothing is assumed of main(), of the deadline or of who
\* wins the mutex: when main() asks for the stop it is outside pop_wait_for.
NaiveFairness == \A p \in Producers : WF_naiveVars(sodium # "aborted" /\ Worker(p))

NaiveSpec == NaiveInit /\ [][NaiveNext]_naiveVars /\ NaiveFairness

-----------------------------------------------------------------------------
(* Properties *)

\* What main() was given and is still to be given, in order.
Out == delivered \o queue

\* Where a match of worker p can be: put into the queue, in push()'s hands on
\* the way there, or to be pushed yet.
Sent(p) == {c \in Range(Out) : c.worker = p}
InPush(p) == IF pushing[p] \in {"locking", "locked"} THEN {arg[p]} ELSE {}
ToPush(p) == Candidates(p, draws[p], left[p])

\* The order in which a worker comes upon its matches.
Before(a, b) == a.draw < b.draw \/ (a.draw = b.draw /\ a.pattern < b.pattern)

\* Every pattern a worker's keys matched is in exactly one place, and reaches
\* main() once and in order, however the pushes of the workers interleave.
EveryMatchDelivered ==
  /\ \A j \in 1..Len(Out) : \A i \in 1..j-1 :
       Out[i].worker = Out[j].worker => Before(Out[i], Out[j])
  /\ \A p \in Producers :
       /\ met[p] = Sent(p) \cup InPush(p) \cup ToPush(p)
       /\ \A a \in Sent(p) : \A b \in InPush(p) \cup ToPush(p) : Before(a, b)
       /\ \A a \in InPush(p) : \A b \in ToPush(p) : Before(a, b)

\* After the stop every worker returns, whatever is in the queue and whoever
\* has the mutex or initialises libsodium, so that run() returns.
NaiveStops ==
  stop ~> (sodium = "aborted" \/ \A p \in Producers : work[p] = "returned")
==============================================================================
