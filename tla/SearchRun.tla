------------------------------ MODULE SearchRun ------------------------------
(***************************************************************************)
(* One run of the program: main()'s monitor loop, the runner thread with   *)
(* the engine (a CompositeEngine of a CPU engine and a GPU engine, or one  *)
(* of them), the engines' search threads, the result channel between them, *)
(* and the key files (TorKeyWriter).                                       *)
(*                                                                         *)
(* The threads meet in four places: the stop token, the channel, the flag  *)
(* engine_done and the joins.  What a search thread computes is abstracted *)
(* to the fresh keys it comes upon and the candidates it pushes for them:  *)
(* those of the patterns a key matches, or, from a thread in Unreliable,   *)
(* of a key that matches nothing; and none where libsodium derives no key, *)
(* where a drain fails, or where the hit slots have run out.               *)
(***************************************************************************)
EXTENDS TorKeyWriter, FiniteSetsExt

CONSTANTS Cpu, Gpu,     \* the search threads of each engine
          Unreliable,   \* the threads whose arithmetic can not be relied on
          Refusals,     \* the sets of keys pubkey_from_scalar may not derive
          MaxHitSlots,  \* kMaxHitSlots
          MaxWinners,   \* bound: winners in one epoch
          NumPatterns,  \* how many prefixes were compiled
          Matching,     \* Matching[k]: the patterns the public key k matches
          Counts,       \* the values of --count the user may give; 0 = forever
          Nothing, Waiting

Threads == Cpu \cup Gpu
Patterns == 0..(NumPatterns - 1)

ASSUME RunAssumption ==
  /\ Cpu \cap Gpu = {}
  /\ Unreliable \subseteq Threads
  /\ Refusals \subseteq SUBSET Keys
  /\ MaxHitSlots \in Nat \ {0} /\ MaxWinners \in Nat
  /\ NumPatterns \in Nat \ {0}
  /\ Matching \in [Keys -> SUBSET Patterns]
  /\ Counts \subseteq Nat

\* A MatchCandidate: the secret it carries, the public key it claims and the
\* index of the pattern it is said to match, which may be out of range.
Candidates == [secret : Keys, claimed : Keys, pattern : 0..NumPatterns]

ASSUME ResultAssumption == Nothing \notin Candidates /\ Waiting \notin Candidates

VARIABLES pc,           \* where main() is
          active,       \* --engine: the threads of the engines it selects
          bench,        \* --bench was given
          count,        \* --count
          degenerate,   \* the keys pubkey_from_scalar does not derive
          found, exitCode,
          interrupted,  \* g_interrupted
          stop,         \* the stop_source every engine observes
          engineDone,   \* engine_done
          runner,       \* where the runner thread is
          thread,       \* where each search thread is
          live,         \* FALSE: the thread's engine has given up (GPU only)
          pending,      \* the candidates a thread has yet to push
          fresh,        \* the keys no thread has come upon yet
          epochs,       \* history: the winners of each GPU epoch that had some
          dropped,      \* dropped_epoch_errors, as far as it counts the failed
                        \* drains of epochs that had winners
          hit_overflow_events,
          queue, got    \* the channel

options == <<active, bench, count, degenerate>>
mainVars == <<pc, found, exitCode>>
lossVars == <<epochs, dropped, hit_overflow_events>>
engineVars == <<thread, live, pending, fresh, lossVars>>
chanVars == <<queue, got>>
vars == <<options, mainVars, interrupted, stop, engineDone, runner, engineVars,
          chanVars, writerVars>>

Channel == INSTANCE Channel WITH Items <- Candidates

MainPc == {"benching", "loop", "popping", "popped", "writing", "leaving",
           "joining", "exited"}
RunnerPc == {"starting", "joining", "finishing", "done"}

\* A thread that is pushing has what its last batch found, if anything, to push
\* before it comes to the head of its loop.
ThreadPc == {"new", "pushing", "searching", "returned"}

\* --engine incremental, cuda or cpu+gpu.  A GPU engine whose init() failed in
\* its constructor, or that can not start its first epoch, has nothing to run.
Init ==
  /\ WriterInit
  /\ Channel!Init
  /\ active \in {Cpu, Gpu, Cpu \cup Gpu}
  /\ count \in Counts
  /\ degenerate \in Refusals
  /\ bench \in BOOLEAN
  /\ pc = IF bench THEN "benching" ELSE "loop"
  /\ found = 0
  /\ exitCode = 0
  /\ interrupted = FALSE
  /\ stop = FALSE
  /\ engineDone = FALSE
  /\ runner = "starting"
  /\ thread = [t \in Threads |-> "new"]
  /\ live \in {l \in [Threads -> BOOLEAN] : \A t \in Threads \ (active \cap Gpu) : l[t]}
  /\ pending = [t \in Threads |-> {}]
  /\ fresh = Keys
  /\ epochs = {}
  /\ dropped = 0
  /\ hit_overflow_events = 0

-----------------------------------------------------------------------------
(* The runner thread: engine->run(), then the flag. *)

runnerOnly == <<options, mainVars, interrupted, stop, chanVars, writerVars,
                live, pending, fresh, lossVars>>

\* run() starts a thread for each child engine, which starts its workers.
RunnerStart ==
  /\ runner = "starting"
  /\ runner' = "joining"
  /\ thread' = [t \in Threads |-> IF t \in active THEN "pushing" ELSE "new"]
  /\ UNCHANGED <<runnerOnly, engineDone>>

\* Mutant: run() returns as soon as one child has returned.
RunnerJoinFirst ==
  /\ runner = "joining"
  /\ \E t \in active : thread[t] = "returned"
  /\ runner' = "finishing"
  /\ UNCHANGED <<runnerOnly, engineDone, thread>>

\* The jthreads of the children, and of their workers, join at scope exit.
RunnerJoin ==
  /\ runner = "joining"
  /\ \A t \in active : thread[t] = "returned"
  /\ runner' = "finishing"
  /\ UNCHANGED <<runnerOnly, engineDone, thread>>

\* engine_done.store(true), after run() has returned.
RunnerFinish ==
  /\ runner = "finishing"
  /\ engineDone' = TRUE
  /\ runner' = "done"
  /\ UNCHANGED <<runnerOnly, thread>>

Runner == RunnerStart \/ RunnerJoin \/ RunnerFinish

-----------------------------------------------------------------------------
(* The search threads. *)

threadOnly == <<options, mainVars, interrupted, stop, engineDone, runner, got,
                writerVars>>

\* Mutant: a search thread does not look at the stop token.
CheckLiveOnly(t) ==
  /\ thread[t] = "pushing" /\ pending[t] = {}
  /\ thread' = [thread EXCEPT ![t] = IF live[t] THEN "searching" ELSE "returned"]
  /\ UNCHANGED <<threadOnly, live, pending, fresh, lossVars, queue>>

\* The head of a CPU worker's batch loop, or of the CUDA epoch loop, when every
\* hit has been pushed.
CheckStop(t) ==
  /\ thread[t] = "pushing" /\ pending[t] = {}
  /\ thread' = [thread EXCEPT ![t] = IF live[t] /\ ~stop THEN "searching"
                                     ELSE "returned"]
  /\ UNCHANGED <<threadOnly, live, pending, fresh, lossVars, queue>>

\* claimed_pubkey is derived from the scalar the candidate carries.
Candidate(k, p) == [secret |-> k, claimed |-> k, pattern |-> p]

\* What thread t reports of a matching key: a CPU worker pushes one candidate
\* for each pattern, the kernel records the first pattern only.
HitsFor(t, k) ==
  {Candidate(k, p) : p \in
     IF t \in Cpu THEN Matching[k]
     ELSE {p \in Matching[k] : \A q \in Matching[k] : p <= q}}

\* What thread t may report of key k: nothing if libsodium refuses its scalar;
\* to an unreliable thread a key that matches no prefix may look like a match,
\* of any pattern or of none.
Reports(t, k) ==
  IF k \in degenerate THEN {{}}
  ELSE IF Matching[k] # {} THEN {HitsFor(t, k)}
  ELSE {{Candidate(k, p)} : p \in 0..NumPatterns}

\* The fresh keys thread t may take for matches.
Seeming(t) == {k \in fresh : Matching[k] # {} \/ t \in Unreliable}

\* One batch of a CPU worker: no match, or one.
SearchBatch(t) ==
  /\ t \in Cpu
  /\ thread[t] = "searching"
  /\ \/ UNCHANGED <<pending, fresh>>
     \/ \E k \in Seeming(t) : \E hits \in Reports(t, k) :
          /\ pending' = [pending EXCEPT ![t] = hits]
          /\ fresh' = fresh \ {k}
  /\ thread' = [thread EXCEPT ![t] = "pushing"]
  /\ UNCHANGED <<threadOnly, live, lossVars, queue>>

\* The kernel of the epoch has met the winners K.
Meet(K) ==
  /\ Cardinality(K) <= MaxWinners
  /\ fresh' = fresh \ K
  /\ epochs' = IF K = {} THEN epochs ELSE epochs \cup {K}

\* The hit slots hold the winners that came first.
Recorded(K) ==
  IF Cardinality(K) <= MaxHitSlots THEN {K} ELSE kSubset(MaxHitSlots, K)

\* The candidates thread t may push for the winners R.
Harvests(t, R) ==
  {UNION {report[k] : k \in R} :
     report \in {f \in [R -> UNION {Reports(t, k) : k \in R}] :
                   \A k \in R : f[k] \in Reports(t, k)}}

\* ++hit_overflow_events when the surplus is not recorded.
Overflow(K) == IF Cardinality(K) <= MaxHitSlots THEN 0 ELSE 1

\* drain_epoch fails: the stream can not be synchronized, or the hits can not
\* be copied, which it only tries when there are some and after it has counted
\* an overflow.  The epoch's hits are lost, and it is counted as dropped.
DrainFails(K) ==
  /\ dropped' = IF K = {} THEN dropped ELSE dropped + 1
  /\ hit_overflow_events' \in {hit_overflow_events, hit_overflow_events + Overflow(K)}
  /\ UNCHANGED pending

\* drain_epoch for the winners K: the recorded ones are pushed, the surplus is
\* counted as an overflow and lost.
Drain(t, K) ==
  \/ DrainFails(K)
  \/ /\ \E R \in Recorded(K) : \E hits \in Harvests(t, R) :
          pending' = [pending EXCEPT ![t] = hits]
     /\ hit_overflow_events' = hit_overflow_events + Overflow(K)
     /\ UNCHANGED dropped

\* Mutant: an error in the set-up of the next epoch drops this one's hits.
SearchEpochBreaks(t) ==
  /\ t \in Gpu
  /\ thread[t] = "searching"
  /\ \E ok \in IF stop THEN {FALSE} ELSE BOOLEAN :
       /\ live' = [live EXCEPT ![t] = ok]
       /\ \E K \in SUBSET Seeming(t) :
            /\ Meet(K)
            /\ IF ok THEN Drain(t, K)
               ELSE UNCHANGED <<pending, dropped, hit_overflow_events>>
  /\ thread' = [thread EXCEPT ![t] = "pushing"]
  /\ UNCHANGED <<threadOnly, queue>>

\* One round of the CUDA loop: the next epoch is started, unless a stop has
\* been asked for, and this one is drained.  Without a next epoch the loop
\* ends, but only after this epoch's hits have been pushed.  What the kernel of
\* an epoch meets that could not be started is nobody's (CudaPipeline).
SearchEpoch(t) ==
  /\ t \in Gpu
  /\ thread[t] = "searching"
  /\ \E ok \in IF stop THEN {FALSE} ELSE BOOLEAN : live' = [live EXCEPT ![t] = ok]
  /\ \E K \in SUBSET Seeming(t) : Meet(K) /\ Drain(t, K)
  /\ thread' = [thread EXCEPT ![t] = "pushing"]
  /\ UNCHANGED <<threadOnly, queue>>

\* results_.push: a worker's candidates in pattern order, an epoch's in that of
\* the hit slots, which is any.
Push(t) ==
  /\ thread[t] = "pushing"
  /\ \E c \in pending[t] :
       /\ t \in Cpu => \A d \in pending[t] : c.pattern <= d.pattern
       /\ Channel!Push(c)
       /\ pending' = [pending EXCEPT ![t] = @ \ {c}]
  /\ UNCHANGED <<threadOnly, thread, live, fresh, lossVars>>

Engine(t) == CheckStop(t) \/ SearchBatch(t) \/ SearchEpoch(t) \/ Push(t)

-----------------------------------------------------------------------------
(* main(): the monitor loop. *)

mainOnly == <<options, interrupted, engineDone, runner, engineVars>>

\* --bench: sleep, report, stop.
BenchEnds ==
  /\ pc = "benching"
  /\ pc' = "leaving"
  /\ UNCHANGED <<mainOnly, found, exitCode, stop, chanVars, writerVars>>

\* Mutant: the loop runs once more after the last key asked for.
LoopTestOneMore ==
  /\ pc = "loop"
  /\ IF (count = 0 \/ found <= count) /\ ~interrupted
     THEN Channel!PopStart /\ pc' = "popping"
     ELSE pc' = "leaving" /\ UNCHANGED chanVars
  /\ UNCHANGED <<mainOnly, found, exitCode, stop, writerVars>>

\* The while condition, and the call of pop_wait_for.
LoopTest ==
  /\ pc = "loop"
  /\ IF (count = 0 \/ found < count) /\ ~interrupted
     THEN Channel!PopStart /\ pc' = "popping"
     ELSE pc' = "leaving" /\ UNCHANGED chanVars
  /\ UNCHANGED <<mainOnly, found, exitCode, stop, writerVars>>

\* pop_wait_for returns a candidate, or nothing after 500 ms.
PopReturns ==
  /\ pc = "popping"
  /\ Channel!Pop \/ Channel!PopTimeout
  /\ pc' = "popped"
  /\ UNCHANGED <<mainOnly, found, exitCode, stop, writerVars>>

\* Mutant: the verifier believes the engine about the pattern.
VerifiesKeyOnly(c) == c.claimed = c.secret

\* io::verify: the public key is derived again, the index is in range and the
\* key matches that pattern.  The address is a function of the key, and its
\* text starts with the prefix exactly when the bits match the pattern.
Verifies(c) ==
  /\ c.secret \notin degenerate
  /\ c.claimed = c.secret
  /\ c.pattern \in Patterns
  /\ c.pattern \in Matching[c.secret]

\* A verified candidate goes to write_tor_keys.
HandleCandidate ==
  /\ pc = "popped"
  /\ got \in Candidates
  /\ Verifies(got)
  /\ WriteTorKeys(got.secret)
  /\ pc' = "writing"
  /\ UNCHANGED <<mainOnly, found, exitCode, stop, chanVars>>

\* FATAL: verification failed.
RejectCandidate ==
  /\ pc = "popped"
  /\ got \in Candidates
  /\ ~Verifies(got)
  /\ exitCode' = 2
  /\ pc' = "leaving"
  /\ UNCHANGED <<mainOnly, found, stop, chanVars, writerVars>>

\* Mutant: main() waits for a candidate whatever became of the engine.
NoCandidateWaitOn ==
  /\ pc = "popped"
  /\ got = Nothing
  /\ pc' = "loop"
  /\ UNCHANGED <<mainOnly, exitCode, found, stop, chanVars, writerVars>>

\* No candidate in time: leave if the engine has returned, else go round.
NoCandidate ==
  /\ pc = "popped"
  /\ got = Nothing
  /\ IF engineDone
     THEN exitCode' = 4 /\ pc' = "leaving"
     ELSE pc' = "loop" /\ UNCHANGED exitCode
  /\ UNCHANGED <<mainOnly, found, stop, chanVars, writerVars>>

Write ==
  /\ pc = "writing"
  /\ WriterStep
  /\ UNCHANGED <<mainOnly, mainVars, stop, chanVars>>

\* write_tor_keys has returned.
Written ==
  /\ pc = "writing"
  /\ \/ wpc = "ok" /\ found' = found + 1 /\ pc' = "loop" /\ UNCHANGED exitCode
     \/ wpc \in Failed /\ exitCode' = 3 /\ pc' = "leaving" /\ UNCHANGED found
  /\ UNCHANGED <<mainOnly, stop, chanVars, writerVars>>

RequestStop ==
  /\ pc = "leaving"
  /\ stop' = TRUE
  /\ pc' = "joining"
  /\ UNCHANGED <<mainOnly, found, exitCode, chanVars, writerVars>>

\* Mutant: the runner is not joined.
LeaveDetached ==
  /\ pc = "joining"
  /\ pc' = "exited"
  /\ UNCHANGED <<mainOnly, found, exitCode, stop, chanVars, writerVars>>

\* The runner jthread joins when main() returns.
Join ==
  /\ pc = "joining"
  /\ runner = "done"
  /\ pc' = "exited"
  /\ UNCHANGED <<mainOnly, found, exitCode, stop, chanVars, writerVars>>

Main ==
  BenchEnds \/ LoopTest \/ PopReturns \/ HandleCandidate \/ RejectCandidate
    \/ NoCandidate \/ Write \/ Written \/ RequestStop \/ Join

-----------------------------------------------------------------------------
\* Ctrl+C, at any time.
Sigint ==
  /\ pc # "exited"
  /\ ~interrupted
  /\ interrupted' = TRUE
  /\ UNCHANGED <<options, mainVars, stop, engineDone, runner, engineVars,
                 chanVars, writerVars>>

Exited == pc = "exited" /\ UNCHANGED vars

Next == Main \/ Runner \/ (\E t \in Threads : Engine(t)) \/ Sigint \/ Exited

\* Every thread that can run does: a wait in pop_wait_for lasts at most 500 ms,
\* a batch or an epoch ends, and so does the sleep of --bench.
Spec ==
  /\ Init /\ [][Next]_vars
  /\ WF_vars(Main)
  /\ WF_vars(Runner)
  /\ \A t \in Threads : WF_vars(Engine(t))

-----------------------------------------------------------------------------
(* Properties *)

\* Match is not result: whatever an engine pushes, a directory is created only
\* for a key that really matches one of the prefixes.
FirewallHolds == \A k \in dirs : Matching[k] # {}

\* What main() says it found is what is on disk: as many different usable
\* directories as `found`, whatever the engines reported twice.
FoundIsOnDisk == pc # "writing" => found = Cardinality(CompleteKeys)

\* Key k is about to be pushed, in the channel, in main()'s hands or on disk.
Held(k) ==
  \/ \E t \in Threads : \E c \in pending[t] : c.secret = k
  \/ \E i \in 1..Len(queue) : queue[i].secret = k
  \/ pc \in {"popped", "writing"} /\ got \in Candidates /\ got.secret = k
  \/ k \in CompleteKeys

\* The matching keys that an engine came upon and that no one holds.
Lost == {k \in Keys \ (fresh \cup degenerate) : Matching[k] # {} /\ ~Held(k)}

\* While the run goes on, no key is lost but in an epoch of the GPU, and no
\* more epochs lose one than drains have failed or hit slots have overflown: no
\* interleaving, no time-out, no death of an engine and no failure to start the
\* next epoch loses one, and what is lost is counted.
NoHitLost ==
  pc \in {"loop", "popping", "popped", "writing"} =>
    /\ Lost \subseteq UNION epochs
    /\ Cardinality({K \in epochs : K \cap Lost # {}}) <= dropped + hit_overflow_events

\* The exit status tells the truth: 0 after exactly the keys asked for, or
\* Ctrl+C, or --bench; 2 with a rejected candidate in hand; 3 after
\* write_tor_keys failed.
ExitStatusIsTrue ==
  pc = "exited" =>
    CASE exitCode = 0 -> bench \/ interrupted \/ (count # 0 /\ found = count)
      [] exitCode = 2 -> got \in Candidates /\ ~Verifies(got)
      [] exitCode = 3 -> wpc \in Failed
      [] OTHER -> TRUE

\* A child engine that dies on its own never ends the run while another one
\* searches: status 4 means every thread returned, and no CPU worker does so
\* before it is told to stop.
DegradesGracefully ==
  exitCode = 4 => /\ active \cap Cpu = {}
                  /\ \A t \in active : thread[t] = "returned"

\* main() never returns, and so never destroys the queue, the statistics and
\* the patterns, while a search thread may still use them.
NoThreadOutlivesMain ==
  pc = "exited" => runner = "done" /\ \A t \in active : thread[t] = "returned"

\* Ctrl+C, the last key asked for, or the death of every engine ends the run.
RunEnds ==
  (interrupted \/ engineDone \/ (count # 0 /\ found = count)) ~> (pc = "exited")

-----------------------------------------------------------------------------
(* What the comments say and the code does not do. *)

\* cli/main.cpp stops "waiting for a candidate that will never arrive": no
\* candidate is in the queue when it leaves with status 4.
NothingLeftBehind == exitCode = 4 => queue = <<>>

\* `--count 0` is documented to run forever, until Ctrl+C: main() leaves with
\* status 3 only because a system call failed.
WriteFailsOnlyOnIoError == exitCode = 3 => ioFault
=============================================================================
