------------------------------- MODULE Channel -------------------------------
(***************************************************************************)
(* What engine/engine.hpp's ResultQueue promises its users: a FIFO channel *)
(* from the search threads to the one consumer, main().  push() never      *)
(* fails and never blocks on the consumer; pop_wait_for() returns the      *)
(* oldest candidate, or nothing, and nothing only when the queue was empty *)
(* at the moment it gave up.                                               *)
(***************************************************************************)
EXTENDS Sequences

CONSTANTS Items,      \* what is sent: MatchCandidate values
          Nothing,    \* std::nullopt, and the result before the first pop
          Waiting     \* a pop_wait_for call is in progress

VARIABLES queue,      \* the pushed items not yet popped, oldest first
          got         \* the result of the latest pop_wait_for

vars == <<queue, got>>

Init == queue = <<>> /\ got = Nothing

\* A search thread sends item c.
Push(c) == queue' = Append(queue, c) /\ UNCHANGED got

\* The consumer calls pop_wait_for; the previous result is consumed.
PopStart == got # Waiting /\ got' = Waiting /\ UNCHANGED queue

\* The call returns the oldest item.
Pop ==
  /\ got = Waiting
  /\ queue # <<>>
  /\ got' = Head(queue)
  /\ queue' = Tail(queue)

\* The call gives up: its deadline has passed and there is nothing to return.
PopTimeout ==
  /\ got = Waiting
  /\ queue = <<>>
  /\ got' = Nothing
  /\ UNCHANGED queue

Next == (\E c \in Items : Push(c)) \/ PopStart \/ Pop \/ PopTimeout

Spec == Init /\ [][Next]_vars
=============================================================================
