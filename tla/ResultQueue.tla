----------------------------- MODULE ResultQueue -----------------------------
(***************************************************************************)
(* engine/engine.hpp, class ResultQueue: the mutex and condition variable  *)
(* between the search threads (push) and main() (pop_wait_for).            *)
(*                                                                         *)
(* The critical sections are not atomic: the consumer tests the queue in   *)
(* one step and acts on the answer in the next, so only the mutex keeps a  *)
(* push from falling between the two.  condition_variable::wait_for(lock,  *)
(* timeout, pred) is the loop the standard gives it:                       *)
(*    while (!pred()) if (wait_until(lock, deadline) == timeout)           *)
(*        return pred();                                                   *)
(* where a wait ends by a notification, spuriously, or at the deadline.    *)
(***************************************************************************)
EXTENDS Naturals, Sequences

CONSTANTS Producers,  \* the search threads
          Main,       \* the consumer
          Items, Nothing, Waiting,
          MaxLen      \* bound: no push begins while MaxLen items are queued

Free == "free"        \* the mutex is not held

ASSUME QueueAssumption ==
  /\ Main \notin Producers
  /\ Free \notin Producers \cup {Main}
  /\ Nothing \notin Items /\ Waiting \notin Items /\ Nothing # Waiting
  /\ MaxLen \in Nat

VARIABLES queue,      \* queue_
          mutex,      \* who holds mutex_
          pushing,    \* where each producer is in push()
          arg,        \* the candidate each producer is pushing
          popping,    \* where the consumer is in pop_wait_for()
          timedOut,   \* the deadline of the current call has passed
          got         \* the result of the latest pop_wait_for

vars == <<queue, mutex, pushing, arg, popping, timedOut, got>>

PushPc == {"idle", "locking", "locked", "notifying"}

\* "testing" evaluates the predicate; "taking", "sleeping" and "giving up"
\* are its three outcomes; "blocked" is inside the wait, without the mutex;
\* "relocking" has been woken and waits for the mutex.
PopPc == {"idle", "locking", "testing", "taking", "sleeping", "giving up",
          "blocked", "relocking"}

Init ==
  /\ queue = <<>>
  /\ mutex = Free
  /\ pushing = [p \in Producers |-> "idle"]
  /\ arg \in [Producers -> Items]
  /\ popping = "idle"
  /\ timedOut = FALSE
  /\ got = Nothing

-----------------------------------------------------------------------------
(* push *)

PushCall(p, c) ==
  /\ pushing[p] = "idle"
  /\ Len(queue) < MaxLen
  /\ pushing' = [pushing EXCEPT ![p] = "locking"]
  /\ arg' = [arg EXCEPT ![p] = c]
  /\ UNCHANGED <<queue, mutex, popping, timedOut, got>>

\* Mutant: push() does not take the mutex.
PushUnlocked(p) ==
  /\ pushing[p] = "locking"
  /\ pushing' = [pushing EXCEPT ![p] = "locked"]
  /\ UNCHANGED <<queue, mutex, arg, popping, timedOut, got>>

PushLock(p) ==
  /\ pushing[p] = "locking"
  /\ mutex = Free
  /\ mutex' = p
  /\ pushing' = [pushing EXCEPT ![p] = "locked"]
  /\ UNCHANGED <<queue, arg, popping, timedOut, got>>

\* Mutant: the candidate is moved out before it is queued.
PushBackMovedFrom(p) ==
  /\ pushing[p] = "locked"
  /\ queue' = Append(queue, Nothing)
  /\ mutex' = Free
  /\ pushing' = [pushing EXCEPT ![p] = "notifying"]
  /\ UNCHANGED <<arg, popping, timedOut, got>>

\* push_back, and the lock_guard's release at the end of its block.
PushBack(p) ==
  /\ pushing[p] = "locked"
  /\ queue' = Append(queue, arg[p])
  /\ mutex' = Free
  /\ pushing' = [pushing EXCEPT ![p] = "notifying"]
  /\ UNCHANGED <<arg, popping, timedOut, got>>

\* Mutant: push() returns without notifying.
NotifyNobody(p) ==
  /\ pushing[p] = "notifying"
  /\ pushing' = [pushing EXCEPT ![p] = "idle"]
  /\ UNCHANGED <<queue, mutex, arg, popping, timedOut, got>>

\* notify_one, after the unlock: lost unless the consumer is in the wait.
NotifyOne(p) ==
  /\ pushing[p] = "notifying"
  /\ pushing' = [pushing EXCEPT ![p] = "idle"]
  /\ popping' = IF popping = "blocked" THEN "relocking" ELSE popping
  /\ UNCHANGED <<queue, mutex, arg, timedOut, got>>

-----------------------------------------------------------------------------
(* pop_wait_for *)

PopCall ==
  /\ popping = "idle"
  /\ popping' = "locking"
  /\ timedOut' = FALSE
  /\ got' = Waiting
  /\ UNCHANGED <<queue, mutex, pushing, arg>>

\* The unique_lock's constructor, or the re-acquisition that ends a wait.
PopLock ==
  /\ popping \in {"locking", "relocking"}
  /\ mutex = Free
  /\ mutex' = Main
  /\ popping' = "testing"
  /\ UNCHANGED <<queue, pushing, arg, timedOut, got>>

\* Mutant: a wait that timed out gives up without testing the predicate again.
PopTestDeadlineFirst ==
  /\ popping = "testing"
  /\ popping' = IF timedOut THEN "giving up"
                ELSE IF queue # <<>> THEN "taking" ELSE "sleeping"
  /\ UNCHANGED <<queue, mutex, pushing, arg, timedOut, got>>

\* The predicate, and where each of its outcomes leads.
PopTest ==
  /\ popping = "testing"
  /\ popping' = IF queue # <<>> THEN "taking"
                ELSE IF timedOut THEN "giving up" ELSE "sleeping"
  /\ UNCHANGED <<queue, mutex, pushing, arg, timedOut, got>>

\* The wait releases the mutex and blocks in one step.
PopSleep ==
  /\ popping = "sleeping"
  /\ mutex' = Free
  /\ popping' = "blocked"
  /\ UNCHANGED <<queue, pushing, arg, timedOut, got>>

\* Move the front out, pop it, and release the mutex on return.
PopTake ==
  /\ popping = "taking"
  /\ got' = Head(queue)
  /\ queue' = Tail(queue)
  /\ mutex' = Free
  /\ popping' = "idle"
  /\ UNCHANGED <<pushing, arg, timedOut>>

\* wait_for returned false: nullopt.
PopGiveUp ==
  /\ popping = "giving up"
  /\ got' = Nothing
  /\ mutex' = Free
  /\ popping' = "idle"
  /\ UNCHANGED <<queue, pushing, arg, timedOut>>

SpuriousWake ==
  /\ popping = "blocked"
  /\ popping' = "relocking"
  /\ UNCHANGED <<queue, mutex, pushing, arg, timedOut, got>>

\* The deadline ends the wait, or passes while a woken consumer waits for
\* the mutex: wait_until reads the clock only once it holds it again.
DeadlinePasses ==
  /\ popping \in {"blocked", "relocking"}
  /\ timedOut' = TRUE
  /\ popping' = "relocking"
  /\ UNCHANGED <<queue, mutex, pushing, arg, got>>

-----------------------------------------------------------------------------
Push(p) ==
  (\E c \in Items : PushCall(p, c)) \/ PushLock(p) \/ PushBack(p) \/ NotifyOne(p)

PopStep ==
  PopCall \/ PopLock \/ PopTest \/ PopSleep \/ PopTake \/ PopGiveUp
    \/ SpuriousWake \/ DeadlinePasses

Next == (\E p \in Producers : Push(p)) \/ PopStep

\* A thread that has entered notify_one returns from it.  Nothing is assumed
\* of the deadline, of spurious wake-ups, or of who wins the mutex.
Spec == Init /\ [][Next]_vars /\ \A p \in Producers : WF_vars(NotifyOne(p))

-----------------------------------------------------------------------------
(* Properties *)

\* Every variable has a value of its type.
TypeOK ==
  /\ queue \in Seq(Items)
  /\ mutex \in Producers \cup {Main, Free}
  /\ pushing \in [Producers -> PushPc]
  /\ arg \in [Producers -> Items]
  /\ popping \in PopPc
  /\ timedOut \in BOOLEAN
  /\ got \in Items \cup {Nothing, Waiting}

\* The consumer never sleeps on a non-empty queue unless some producer is
\* still about to notify it: a push can not slip between the predicate and
\* the wait, although notify_one is called after the mutex is released.
NoLostWakeup ==
  popping = "blocked" /\ queue # <<>> =>
    \E p \in Producers : pushing[p] = "notifying"

\* A push wakes a sleeping consumer by itself, without the 500 ms deadline or
\* a spurious wake-up coming to its help.
PushWakesConsumer ==
  (popping = "blocked" /\ queue # <<>>) ~> (popping # "blocked")

Ch == INSTANCE Channel

\* The locking protocol implements the FIFO channel: nothing is lost,
\* duplicated or reordered, and a pop that gives up found the queue empty.
RefinesChannel == Ch!Spec
=============================================================================
