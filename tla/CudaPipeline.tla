----------------------------- MODULE CudaPipeline -----------------------------
(***************************************************************************)
(* engine/cuda/cuda_engine.cu: the epoch pipeline of the GPU engine.  One  *)
(* host thread prepares and launches epochs and harvests their hits; each  *)
(* pipeline slot has its own buffers and its own CUDA stream, whose        *)
(* operations run in order, some time after they were enqueued, and        *)
(* independently of the other streams.                                     *)
(*                                                                         *)
(* An asynchronous copy reads or writes its host buffer when it runs, not  *)
(* when it is enqueued.  A buffer's contents are abstracted to the epoch   *)
(* they belong to: h_starts with h_bigstep, and d_starts with d_bigstep,   *)
(* are one buffer each.  A hit is the epoch and a number: which of the     *)
(* epoch's winners it is.                                                  *)
(***************************************************************************)
EXTENDS Naturals, Sequences, FiniteSets

CONSTANTS Depth,        \* kPipelineDepth
          MaxHitSlots,  \* kMaxHitSlots
          Degenerate,   \* which of an epoch's winners have no public key
          MaxWinners,   \* bound: winners in one epoch
          MaxEpochs     \* bound: epochs begun

ASSUME PipelineAssumption ==
  Depth \in Nat \ {0} /\ MaxHitSlots \in Nat \ {0} /\ MaxWinners \in Nat
    /\ MaxEpochs \in Nat

Slots == 0..Depth-1
NoEpoch == 0            \* what a buffer holds at first; epochs count from 1
Epochs == 1..MaxEpochs
Hits == [epoch : 0..MaxEpochs, id : 0..MaxWinners]
NoHit == [epoch |-> NoEpoch, id |-> 0]

VARIABLES stop,         \* the stop token
          pc,           \* where the host thread is
          cur, nxt,     \* the slot to drain, and the slot being started
          cur_live, nxt_live,
          priming,      \* the first epoch is being started, before the loop
          epochs,       \* how many base scalars have been drawn
          slot_a0,      \* per slot, on the host: the epoch whose a0 is retained
          h_starts,     \* ... the epoch in the pinned start points
          h_hit_count,  \* ... the pinned hit count
          d_starts,     \* per slot, on the device: the epoch in the start points
          d_hit_count,  \* ... the hit counter
          d_slots,      \* ... the hit slots, never cleared
          stream,       \* per slot: the operations enqueued and not yet run
          broken,       \* a fault on the device: every call fails from now on
          last_error,   \* the host thread's: what cudaGetLastError would return
          total,        \* launches counted in the StatsBoard
          dropped,      \* dropped_epoch_errors
          hit_overflow_events,
          dropped_degenerate,
          winners,      \* history: how many winners each epoch's kernel met
          launched,     \* history: the epochs start_epoch succeeded for
          harvests      \* history: the epoch and the hits of each drain

hostBuffers == <<slot_a0, h_starts>>
deviceVars == <<d_starts, d_hit_count, d_slots, winners>>
loopVars == <<cur, nxt, cur_live, nxt_live, priming>>
hitCounts == <<hit_overflow_events, dropped_degenerate>>
vars == <<stop, pc, loopVars, epochs, hostBuffers, h_hit_count, deviceVars, stream,
          broken, last_error, total, dropped, hitCounts, launched, harvests>>

Pc == {"start", "setup", "upload", "reset", "launch", "readback", "loop",
       "drain", "harvest", "swap", "final", "returned"}
Ops == {"upload", "reset", "kernel", "readback"}

\* run() begins by starting an epoch in slot 0.
Init ==
  /\ stop = FALSE
  /\ pc = "start"
  /\ cur = 0 /\ nxt = 0
  /\ cur_live = FALSE /\ nxt_live = FALSE /\ priming = TRUE
  /\ epochs = 0
  /\ slot_a0 = [s \in Slots |-> NoEpoch]
  /\ h_starts = [s \in Slots |-> NoEpoch]
  /\ h_hit_count = [s \in Slots |-> 0]
  /\ d_starts = [s \in Slots |-> NoEpoch]
  /\ d_hit_count = [s \in Slots |-> 0]
  /\ d_slots = [s \in Slots |-> [i \in 1..MaxHitSlots |-> NoHit]]
  /\ stream = [s \in Slots |-> <<>>]
  /\ broken = FALSE /\ last_error = FALSE
  /\ total = 0 /\ dropped = 0
  /\ hit_overflow_events = 0 /\ dropped_degenerate = 0
  /\ winners = [e \in Epochs |-> 0]
  /\ launched = {}
  /\ harvests = <<>>

-----------------------------------------------------------------------------
(* start_epoch: set-up and launch of an epoch in slot nxt. *)

startOnly == <<stop, cur, nxt, deviceVars, broken, total, hitCounts, harvests>>

\* Mutant: an error leaves the loop at once.
StartReturnsOrBreaks(ok) ==
  /\ priming' = FALSE
  /\ pc' = IF priming THEN "loop" ELSE IF ok THEN "drain" ELSE "final"
  /\ cur_live' = IF priming THEN ok ELSE cur_live
  /\ nxt_live' = IF priming THEN nxt_live ELSE ok
  /\ launched' = IF ok THEN launched \cup {epochs} ELSE launched
  /\ dropped' = IF ok \/ stop THEN dropped ELSE dropped + 1

\* start_epoch returns ok, to the priming or to the loop; a failure is counted
\* as a dropped epoch, unless a stop has been requested.
StartReturns(ok) ==
  /\ priming' = FALSE
  /\ pc' = IF priming THEN "loop" ELSE "drain"
  /\ cur_live' = IF priming THEN ok ELSE cur_live
  /\ nxt_live' = IF priming THEN nxt_live ELSE ok
  /\ launched' = IF ok THEN launched \cup {epochs} ELSE launched
  /\ dropped' = IF ok \/ stop THEN dropped ELSE dropped + 1

\* No epoch is started once a stop has been requested.
SkipStart ==
  /\ pc = "start"
  /\ stop
  /\ StartReturns(FALSE)
  /\ UNCHANGED <<startOnly, epochs, hostBuffers, h_hit_count, stream, last_error>>

\* A fresh clamped base scalar.
DrawEpoch ==
  /\ pc = "start"
  /\ ~stop
  /\ epochs < MaxEpochs
  /\ epochs' = epochs + 1
  /\ pc' = "setup"
  /\ UNCHANGED <<startOnly, cur_live, nxt_live, priming, hostBuffers,
                 h_hit_count, stream, last_error, dropped, launched>>

\* setup_epoch on the host: retain a0, write the start points and the bigstep.
Setup ==
  /\ pc = "setup"
  /\ slot_a0' = [slot_a0 EXCEPT ![nxt] = epochs]
  /\ h_starts' = [h_starts EXCEPT ![nxt] = epochs]
  /\ pc' = "upload"
  /\ UNCHANGED <<startOnly, cur_live, nxt_live, priming, epochs, h_hit_count,
                 stream, last_error, dropped, launched>>

Enqueue(op) == ~broken /\ stream' = [stream EXCEPT ![nxt] = Append(@, op)]

GoOn(then) ==
  pc' = then /\ UNCHANGED <<cur_live, nxt_live, priming, launched, dropped>>

\* Enqueue an operation on nxt's stream and go on, or return the CUDA error,
\* which the runtime remembers.
EnqueueThen(op, then) ==
  \/ /\ Enqueue(op)
     /\ IF then = "returns" THEN StartReturns(TRUE) ELSE GoOn(then)
     /\ UNCHANGED last_error
  \/ /\ StartReturns(FALSE)
     /\ last_error' = TRUE
     /\ UNCHANGED stream

\* The asynchronous copies of the start points and the bigstep.
Upload ==
  /\ pc = "upload"
  /\ EnqueueThen("upload", "reset")
  /\ UNCHANGED <<startOnly, epochs, hostBuffers, h_hit_count>>

\* Mutant: the device's hit counter is not reset.
ResetHostOnly ==
  /\ pc = "reset"
  /\ h_hit_count' = [h_hit_count EXCEPT ![nxt] = 0]
  /\ pc' = "launch"
  /\ UNCHANGED <<startOnly, cur_live, nxt_live, priming, stream, last_error,
                 launched, dropped, epochs, hostBuffers>>

\* Zero the pinned hit count and enqueue its copy to the device.
Reset ==
  /\ pc = "reset"
  /\ h_hit_count' = [h_hit_count EXCEPT ![nxt] = 0]
  /\ EnqueueThen("reset", "launch")
  /\ UNCHANGED <<startOnly, epochs, hostBuffers>>

\* The launch returns nothing: its success is what cudaGetLastError says, and
\* that may be the error of an earlier call, when the kernel runs after all.
Launch ==
  /\ pc = "launch"
  /\ \/ Enqueue("kernel") /\ ~last_error /\ GoOn("readback")
     \/ Enqueue("kernel") /\ last_error /\ StartReturns(FALSE)
     \/ UNCHANGED stream /\ StartReturns(FALSE)
  /\ last_error' = FALSE
  /\ UNCHANGED <<startOnly, epochs, hostBuffers, h_hit_count>>

\* The copy of the hit counter into the pinned hit count.
Readback ==
  /\ pc = "readback"
  /\ EnqueueThen("readback", "returns")
  /\ UNCHANGED <<startOnly, epochs, hostBuffers, h_hit_count>>

-----------------------------------------------------------------------------
(* run() and drain_epoch *)

runOnly == <<stop, epochs, hostBuffers, h_hit_count, deviceVars, stream, broken,
             priming, launched>>

\* Mutant: the next epoch goes into the slot that is still in flight.
SameSlot == cur

\* Mutant: the ping-pong index is not wrapped.
UnwrappedSlot == cur + 1

NextSlot == (cur + 1) % Depth

\* The while condition.
Loop ==
  /\ pc = "loop"
  /\ IF cur_live /\ ~stop
     THEN pc' = "start" /\ nxt' = NextSlot
     ELSE pc' = "final" /\ UNCHANGED nxt
  /\ UNCHANGED <<runOnly, cur, cur_live, nxt_live, last_error, total, dropped,
                 hitCounts, harvests>>

\* Mutant: a failed synchronization is tried again.
SyncRetries ==
  /\ pc = "drain"
  /\ IF broken
     THEN pc' = "drain" /\ UNCHANGED dropped
     ELSE stream[cur] = <<>> /\ pc' = "harvest" /\ UNCHANGED dropped
  /\ UNCHANGED <<runOnly, cur, nxt, cur_live, nxt_live, last_error, total, hitCounts,
                 harvests>>

\* cudaStreamSynchronize waits for the whole stream, or reports the fault.
Sync ==
  /\ pc = "drain"
  /\ IF broken
     THEN pc' = "swap" /\ dropped' = dropped + 1
     ELSE stream[cur] = <<>> /\ pc' = "harvest" /\ UNCHANGED dropped
  /\ UNCHANGED <<runOnly, cur, nxt, cur_live, nxt_live, last_error, total, hitCounts,
                 harvests>>

Recorded(n) == IF n < MaxHitSlots THEN n ELSE MaxHitSlots

\* The hits drain_epoch reads: the first hit_count slots.
HitsRead == [i \in 1..Recorded(h_hit_count[cur]) |-> d_slots[cur][i]]

IsKey(hit) == hit.id \notin Degenerate

\* The hits of seq for which a candidate is pushed.
KeysOf(seq) ==
  LET keys[n \in 0..Len(seq)] ==
        IF n = 0 THEN <<>>
        ELSE IF IsKey(seq[n]) THEN Append(keys[n - 1], seq[n]) ELSE keys[n - 1]
  IN keys[Len(seq)]

\* Read the hit count, copy the hits, rebuild their scalars from the retained
\* a0 and push a candidate for each that is a key; the copy may fail, and then
\* the epoch is dropped.
Harvest ==
  /\ pc = "harvest"
  /\ hit_overflow_events' =
       IF h_hit_count[cur] > MaxHitSlots THEN hit_overflow_events + 1
       ELSE hit_overflow_events
  /\ \/ /\ h_hit_count[cur] = 0 \/ ~broken
        /\ harvests' = Append(harvests, [epoch |-> slot_a0[cur],
                                        hits |-> KeysOf(HitsRead)])
        /\ dropped_degenerate' =
             dropped_degenerate + Cardinality({i \in DOMAIN HitsRead : ~IsKey(HitsRead[i])})
        /\ UNCHANGED <<dropped, last_error>>
     \/ /\ h_hit_count[cur] # 0
        /\ dropped' = dropped + 1
        /\ last_error' = TRUE
        /\ UNCHANGED <<harvests, dropped_degenerate>>
  /\ pc' = "swap"
  /\ UNCHANGED <<runOnly, cur, nxt, cur_live, nxt_live, total>>

\* Mutant: cur keeps naming the slot that was drained.
SwapLiveOnly ==
  /\ pc = "swap"
  /\ total' = total + 1
  /\ cur_live' = nxt_live
  /\ pc' = "loop"
  /\ UNCHANGED <<runOnly, cur, nxt, nxt_live, last_error, dropped, hitCounts, harvests>>

\* Publish the total, and go on with the epoch that was started.
Swap ==
  /\ pc = "swap"
  /\ total' = total + 1
  /\ cur' = nxt
  /\ cur_live' = nxt_live
  /\ pc' = "loop"
  /\ UNCHANGED <<runOnly, nxt, nxt_live, last_error, dropped, hitCounts, harvests>>

\* Mutant: run() returns with work in flight.
FinishUnsynced ==
  /\ pc = "final"
  /\ pc' = "returned"
  /\ UNCHANGED <<runOnly, cur, nxt, cur_live, nxt_live, last_error, total, dropped,
                 hitCounts, harvests>>

\* Synchronize every slot, then return; the buffers are freed later.
Finish ==
  /\ pc = "final"
  /\ \A s \in Slots : stream[s] = <<>>
  /\ pc' = "returned"
  /\ UNCHANGED <<runOnly, cur, nxt, cur_live, nxt_live, last_error, total, dropped,
                 hitCounts, harvests>>

Host ==
  SkipStart \/ DrawEpoch \/ Setup \/ Upload \/ Reset \/ Launch \/ Readback
    \/ Loop \/ Sync \/ Harvest \/ Swap \/ Finish

-----------------------------------------------------------------------------
(* The device *)

deviceOnly == <<stop, pc, loopVars, epochs, hostBuffers, broken, last_error, total,
                dropped, hitCounts, launched, harvests>>

Run(s, op) ==
  /\ stream[s] # <<>>
  /\ Head(stream[s]) = op
  /\ stream' = [stream EXCEPT ![s] = Tail(@)]
  /\ UNCHANGED deviceOnly

RunUpload(s) ==
  /\ Run(s, "upload")
  /\ d_starts' = [d_starts EXCEPT ![s] = h_starts[s]]
  /\ UNCHANGED <<d_hit_count, d_slots, winners, h_hit_count>>

RunReset(s) ==
  /\ Run(s, "reset")
  /\ d_hit_count' = [d_hit_count EXCEPT ![s] = h_hit_count[s]]
  /\ UNCHANGED <<d_starts, d_slots, winners, h_hit_count>>

\* The search kernel: each winner takes the next hit slot by atomicAdd, and
\* writes it unless the slots have run out.
RunKernel(s) ==
  /\ Run(s, "kernel")
  /\ \E n \in 0..MaxWinners :
       LET e == d_starts[s]
           first == d_hit_count[s]
       IN /\ winners' = [winners EXCEPT ![e] = n]
          /\ d_hit_count' = [d_hit_count EXCEPT ![s] = first + n]
          /\ d_slots' = [d_slots EXCEPT ![s] = [i \in 1..MaxHitSlots |->
               IF i \in first+1..first+n THEN [epoch |-> e, id |-> i - first]
               ELSE d_slots[s][i]]]
  /\ UNCHANGED <<d_starts, h_hit_count>>

RunReadback(s) ==
  /\ Run(s, "readback")
  /\ h_hit_count' = [h_hit_count EXCEPT ![s] = d_hit_count[s]]
  /\ UNCHANGED deviceVars

Device(s) == RunUpload(s) \/ RunReset(s) \/ RunKernel(s) \/ RunReadback(s)

\* An asynchronous error destroys the context: nothing enqueued runs any more.
DeviceFault ==
  /\ ~broken
  /\ \E s \in Slots : stream[s] # <<>>
  /\ broken' = TRUE
  /\ stream' = [s \in Slots |-> <<>>]
  /\ UNCHANGED <<stop, pc, loopVars, epochs, hostBuffers, h_hit_count, deviceVars,
                 last_error, total, dropped, hitCounts, launched, harvests>>

RequestStop ==
  /\ ~stop
  /\ stop' = TRUE
  /\ UNCHANGED <<pc, loopVars, epochs, hostBuffers, h_hit_count, deviceVars, stream,
                 broken, last_error, total, dropped, hitCounts, launched, harvests>>

Returned == pc = "returned" /\ stop /\ UNCHANGED vars

Next ==
  Host \/ (\E s \in Slots : Device(s)) \/ DeviceFault \/ RequestStop \/ Returned

\* The host thread runs, and so does whatever is enqueued on the device.
Spec ==
  Init /\ [][Next]_vars /\ WF_vars(Host) /\ \A s \in Slots : WF_vars(Device(s))

-----------------------------------------------------------------------------
(* Properties *)

\* Every variable has a value of its type.
TypeOK ==
  /\ stop \in BOOLEAN /\ pc \in Pc
  /\ cur \in Slots /\ nxt \in Slots
  /\ cur_live \in BOOLEAN /\ nxt_live \in BOOLEAN /\ priming \in BOOLEAN
  /\ epochs \in 0..MaxEpochs
  /\ slot_a0 \in [Slots -> 0..MaxEpochs]
  /\ h_starts \in [Slots -> 0..MaxEpochs]
  /\ d_starts \in [Slots -> 0..MaxEpochs]
  /\ h_hit_count \in [Slots -> Nat]
  /\ d_hit_count \in [Slots -> Nat]
  /\ \A s \in Slots : d_slots[s] \in [1..MaxHitSlots -> Hits]
  /\ stream \in [Slots -> Seq(Ops)]
  /\ broken \in BOOLEAN /\ last_error \in BOOLEAN
  /\ total \in Nat /\ dropped \in Nat
  /\ hit_overflow_events \in Nat /\ dropped_degenerate \in Nat
  /\ winners \in [Epochs -> 0..MaxWinners]
  /\ launched \subseteq Epochs
  /\ \A i \in 1..Len(harvests) :
       harvests[i].epoch \in 0..MaxEpochs /\ harvests[i].hits \in Seq(Hits)

\* op is enqueued on the stream of slot s and has not run yet.
InFlight(s, op) == \E i \in 1..Len(stream[s]) : stream[s][i] = op

\* The host never writes a pinned buffer that an enqueued copy has still to
\* read or to fill, and never reads the hit count, the retained a0 or the hits
\* of a slot whose stream has work left.
NoHostRace ==
  /\ pc = "setup" => ~InFlight(nxt, "upload")
  /\ pc = "reset" => ~InFlight(nxt, "reset") /\ ~InFlight(nxt, "readback")
  /\ pc = "harvest" => stream[cur] = <<>>

\* A drained epoch yields exactly its own hits, those of the first kMaxHitSlots
\* that are keys, with the base scalar they were found under: no hit is read
\* twice, taken from an older epoch, or rebuilt from the other slot's base
\* scalar.
HarvestsExact ==
  \A i \in 1..Len(harvests) :
    LET e == harvests[i].epoch IN
      harvests[i].hits =
        KeysOf([k \in 1..Recorded(winners[e]) |-> [epoch |-> e, id |-> k]])

\* Epochs are harvested in the order they were launched, each at most once.
HarvestedInOrder ==
  \A i \in 1..Len(harvests) :
    /\ harvests[i].epoch \in launched
    /\ \A j \in 1..i-1 : harvests[j].epoch < harvests[i].epoch

\* Whatever is lost is counted: when run() returns, every epoch it drew a base
\* scalar for was harvested or counted as dropped, but for one a stop may
\* discard; the total claims no more epochs than those; and every launch with
\* more winners than slots was counted, even if the copy of its hits failed.
NoSilentLoss ==
  LET missing == epochs - Len(harvests) - dropped
      overflowing ==
        Cardinality({i \in 1..Len(harvests) : winners[harvests[i].epoch] > MaxHitSlots})
  IN /\ pc = "returned" => missing = 0 \/ (missing = 1 /\ stop)
     /\ total <= Len(harvests) + dropped
     /\ hit_overflow_events \in overflowing..overflowing+dropped

\* run() returns only when the device has nothing left to do with the buffers.
ReturnsIdle == pc = "returned" => \A s \in Slots : stream[s] = <<>>

\* After the stop run() returns, whatever the device did; and after a fault of
\* the device it returns without one, instead of trying again for ever.  (At
\* MaxEpochs, a bound, no further epoch can be tried that would fail.)
StopReturns == (stop \/ (broken /\ epochs < MaxEpochs)) ~> (pc = "returned")
=============================================================================
