-------------------------- MODULE CudaEngine_proofs --------------------------
(***************************************************************************)
(* Proofs about CudaEngine.  First its run(), which is CudaPipeline, for   *)
(* every number of hit slots, winners and epochs, and every pipeline depth *)
(* of two or more: the host thread never races the device for a slot's     *)
(* buffers and leaves the device idle, each harvest is exactly what its    *)
(* epoch found, epochs are harvested in the order of their launch, and     *)
(* whatever is lost is counted.  Then the whole life of an engine: all     *)
(* this holds whatever its constructor manages to acquire, and whatever is *)
(* enqueued finds the buffers, the patterns and the grid it needs.         *)
(***************************************************************************)
EXTENDS CudaEngine, SequenceTheorems, FiniteSetTheorems, WellFoundedInduction, TLAPS

\* The part of the types the argument needs.
SlotTypeOK ==
  /\ cur \in Slots /\ nxt \in Slots
  /\ stream \in [Slots -> Seq(Ops)]
  /\ pc \in Pc
  /\ priming \in BOOLEAN

\* The steps of start_epoch.
StartPc == {"start", "setup", "upload", "reset", "launch", "readback"}

\* At most two slots have work: the one to drain and the one being started.
\* Between two iterations, and while the first epoch is started, they are the
\* same.
TwoSlotsBusy ==
  /\ \A s \in Slots : s # cur /\ s # nxt => stream[s] = <<>>
  /\ pc = "loop" => nxt = cur
  /\ priming => nxt = cur /\ pc \in StartPc \cup {"returned"}

\* The slot being started was idle, and holds only what start_epoch has
\* enqueued since.
StartedFromIdle ==
  /\ pc \in {"start", "setup", "upload"} => stream[nxt] = <<>>
  /\ pc = "reset" => stream[nxt] \in {<<>>, <<"upload">>}

\* The slot that is harvested has been synchronized.
HarvestedIdle == pc \in {"harvest", "swap"} => stream[cur] = <<>>

\* After a fault nothing is in flight and nothing can be enqueued.
BrokenIdle == broken => \A s \in Slots : stream[s] = <<>>

IInv ==
  SlotTypeOK /\ TwoSlotsBusy /\ StartedFromIdle /\ HarvestedIdle /\ BrokenIdle
    /\ ReturnsIdle

-----------------------------------------------------------------------------

\* With two slots or more, the next slot is another one.
LEMMA NextSlotDiffers ==
  ASSUME Depth > 1, cur \in Slots
  PROVE  NextSlot \in Slots /\ NextSlot # cur
BY PipelineAssumption DEF Slots, NextSlot

\* The inductive invariant holds initially.
LEMMA InitIInv == Init => IInv
<1> SUFFICES ASSUME Init PROVE IInv
  OBVIOUS
<1> USE PipelineAssumption DEF Init
<1>1. SlotTypeOK
  <2>1. 0 \in Slots
    BY DEF Slots
  <2>2. stream \in [Slots -> Seq(Ops)]
    OBVIOUS
  <2>3. QED
    BY <2>1, <2>2 DEF SlotTypeOK, Pc
<1>2. TwoSlotsBusy /\ StartedFromIdle /\ HarvestedIdle /\ BrokenIdle /\ ReturnsIdle
  BY <1>1 DEF SlotTypeOK, StartPc, TwoSlotsBusy, StartedFromIdle, HarvestedIdle, BrokenIdle, ReturnsIdle
<1>3. QED
  BY <1>1, <1>2 DEF IInv

\* What enqueuing an operation in slot nxt, or failing to, does to the streams.
LEMMA EnqueueStreams ==
  ASSUME IInv, NEW op \in Ops, Enqueue(op) \/ UNCHANGED stream
  PROVE  /\ stream' \in [Slots -> Seq(Ops)]
         /\ \A s \in Slots : s # nxt => stream'[s] = stream[s]
         /\ stream'[nxt] \in {stream[nxt], Append(stream[nxt], op)}
         /\ broken => stream' = stream
<1>1. nxt \in Slots /\ stream \in [Slots -> Seq(Ops)] /\ stream[nxt] \in Seq(Ops)
  BY DEF IInv, SlotTypeOK
<1>2. Append(stream[nxt], op) \in Seq(Ops)
  BY <1>1, AppendProperties
<1>3. QED
  BY <1>1, <1>2 DEF Enqueue

\* A step of the start of an epoch, or of the run loop, preserves the
\* inductive invariant.
LEMMA HostIInv ==
  ASSUME Depth > 1, IInv, Host
  PROVE  IInv'
<1> USE DEF IInv, StartPc, TwoSlotsBusy, StartedFromIdle, HarvestedIdle, BrokenIdle,
            ReturnsIdle
<1>1. CASE SkipStart
  BY <1>1 DEF SkipStart, StartReturns, startOnly, hostBuffers, deviceVars,
              SlotTypeOK, Pc
<1>2. CASE DrawEpoch
  BY <1>2 DEF DrawEpoch, startOnly, hostBuffers, deviceVars, SlotTypeOK, Pc
<1>3. CASE Setup
  BY <1>3 DEF Setup, startOnly, deviceVars, SlotTypeOK, Pc
<1>4. CASE Upload
  <2>1. nxt' = nxt /\ cur' = cur /\ broken' = broken
    BY <1>4 DEF Upload, startOnly
  <2>2. /\ stream' \in [Slots -> Seq(Ops)]
        /\ \A s \in Slots : s # nxt => stream'[s] = stream[s]
        /\ stream'[nxt] \in {<<>>, <<"upload">>}
        /\ broken => stream' = stream
    <3>1. /\ stream[nxt] = <<>> /\ "upload" \in Ops
          /\ Enqueue("upload") \/ UNCHANGED stream
      BY <1>4 DEF Upload, Ops, EnqueueThen
    <3>2. Append(<<>>, "upload") = <<"upload">>
      OBVIOUS
    <3>3. QED
      BY <2>1, <3>1, <3>2, EnqueueStreams
  <2>3. /\ pc' \in {"loop", "drain", "reset"} /\ priming' \in BOOLEAN
        /\ pc' = "loop" => priming
        /\ priming' => priming /\ pc' = "reset"
    BY <1>4 DEF Upload, EnqueueThen, GoOn, StartReturns, SlotTypeOK
  <2>4. QED
    BY <2>1, <2>2, <2>3, <1>4 DEF Upload, SlotTypeOK, Pc
<1>5. CASE Reset
  <2>1. nxt' = nxt /\ cur' = cur /\ broken' = broken
    BY <1>5 DEF Reset, startOnly
  <2>2. /\ stream' \in [Slots -> Seq(Ops)]
        /\ \A s \in Slots : s # nxt => stream'[s] = stream[s]
        /\ broken => stream' = stream
    BY <1>5, EnqueueStreams DEF Reset, Ops, EnqueueThen
  <2>3. /\ pc' \in {"loop", "drain", "launch"} /\ priming' \in BOOLEAN
        /\ pc' = "loop" => priming
        /\ priming' => priming /\ pc' = "launch"
    BY <1>5 DEF Reset, EnqueueThen, GoOn, StartReturns, SlotTypeOK
  <2>4. QED
    BY <2>1, <2>2, <2>3 DEF SlotTypeOK, Pc
<1>6. CASE Launch
  <2>1. nxt' = nxt /\ cur' = cur /\ broken' = broken
    BY <1>6 DEF Launch, startOnly
  <2>2. /\ stream' \in [Slots -> Seq(Ops)]
        /\ \A s \in Slots : s # nxt => stream'[s] = stream[s]
        /\ broken => stream' = stream
    BY <1>6, EnqueueStreams DEF Launch, Ops
  <2>3. /\ pc' \in {"loop", "drain", "readback"} /\ priming' \in BOOLEAN
        /\ pc' = "loop" => priming
        /\ priming' => priming /\ pc' = "readback"
    <3>1. CASE GoOn("readback")
      BY <1>6, <3>1 DEF Launch, GoOn, SlotTypeOK
    <3>2. CASE StartReturns(FALSE)
      BY <3>2 DEF StartReturns
    <3>3. QED
      BY <1>6, <3>1, <3>2 DEF Launch
  <2>4. QED
    BY <2>1, <2>2, <2>3 DEF SlotTypeOK, Pc
<1>7. CASE Readback
  <2>1. nxt' = nxt /\ cur' = cur /\ broken' = broken
    BY <1>7 DEF Readback, startOnly
  <2>2. /\ stream' \in [Slots -> Seq(Ops)]
        /\ \A s \in Slots : s # nxt => stream'[s] = stream[s]
        /\ broken => stream' = stream
    BY <1>7, EnqueueStreams DEF Readback, Ops, EnqueueThen
  <2>3. pc' \in {"loop", "drain"} /\ priming' = FALSE /\ (pc' = "loop" => priming)
    BY <1>7 DEF Readback, EnqueueThen, StartReturns
  <2>4. QED
    BY <2>1, <2>2, <2>3 DEF SlotTypeOK, Pc
<1>8. CASE Loop
  <2>1. NextSlot \in Slots /\ NextSlot # cur
    BY NextSlotDiffers DEF SlotTypeOK
  <2>2. stream' = stream /\ cur' = cur /\ broken' = broken /\ priming' = priming
    BY <1>8 DEF Loop, runOnly
  <2>3. ~priming
    BY <1>8 DEF Loop
  <2>4. QED
    BY <1>8, <2>1, <2>2 DEF Loop, SlotTypeOK, Pc
<1>9. CASE Sync
  BY <1>9 DEF Sync, runOnly, SlotTypeOK, Pc
<1>10. CASE Harvest
  BY <1>10 DEF Harvest, runOnly, SlotTypeOK, Pc
<1>11. CASE Swap
  BY <1>11 DEF Swap, runOnly, SlotTypeOK, Pc
<1>12. CASE Finish
  BY <1>12 DEF Finish, runOnly, SlotTypeOK, Pc
<1>13. QED
  BY <1>1, <1>2, <1>3, <1>4, <1>5, <1>6, <1>7, <1>8, <1>9, <1>10, <1>11, <1>12
     DEF Host

\* An operation that runs only shortens its stream.
LEMMA DeviceIInv ==
  ASSUME IInv, NEW s \in Slots, Device(s)
  PROVE  IInv'
<1>1. PICK op \in Ops : Run(s, op)
  BY DEF Device, RunUpload, RunReset, RunKernel, RunReadback, Ops
<1>2. UNCHANGED deviceOnly
  BY <1>1 DEF Run
<1>3. stream[s] \in Seq(Ops) /\ stream[s] # <<>>
  BY <1>1 DEF Run, IInv, SlotTypeOK
<1>4. Tail(stream[s]) \in Seq(Ops)
  BY <1>3, HeadTailProperties
<1>5. stream' = [stream EXCEPT ![s] = Tail(stream[s])]
  BY <1>1 DEF Run
<1>6. SlotTypeOK'
  BY <1>2, <1>4, <1>5 DEF IInv, SlotTypeOK, deviceOnly, loopVars
<1>7. \A r \in Slots : stream[r] = <<>> => stream'[r] = <<>>
  BY <1>3, <1>5 DEF IInv, SlotTypeOK
<1>8. StartedFromIdle'
  <2>1. Tail(<<"upload">>) = <<>>
    OBVIOUS
  <2>2. nxt \in Slots /\ pc' = pc /\ nxt' = nxt
    BY <1>2 DEF IInv, SlotTypeOK, deviceOnly, loopVars
  <2>3. ASSUME stream[nxt] \in {<<>>, <<"upload">>}
        PROVE  stream'[nxt] \in {<<>>, <<"upload">>}
    BY <2>1, <2>2, <2>3, <1>3, <1>5 DEF IInv, SlotTypeOK
  <2>4. QED
    BY <1>7, <2>2, <2>3 DEF IInv, StartedFromIdle
<1>9. TwoSlotsBusy' /\ HarvestedIdle' /\ BrokenIdle' /\ ReturnsIdle'
  BY <1>2, <1>7 DEF IInv, SlotTypeOK, TwoSlotsBusy, HarvestedIdle, BrokenIdle,
                    ReturnsIdle, deviceOnly, loopVars
<1>10. QED
  BY <1>6, <1>8, <1>9 DEF IInv

\* A fault on the device empties every stream.
LEMMA FaultIInv ==
  ASSUME IInv, DeviceFault
  PROVE  IInv'
<1>1. stream' = [r \in Slots |-> <<>>]
  BY DEF DeviceFault
<1>2. UNCHANGED <<pc, loopVars>>
  BY DEF DeviceFault
<1>3. <<>> \in Seq(Ops)
  OBVIOUS
<1>4. SlotTypeOK'
  BY <1>1, <1>2, <1>3 DEF IInv, SlotTypeOK, loopVars
<1>5. (TwoSlotsBusy /\ StartedFromIdle /\ HarvestedIdle /\ BrokenIdle /\ ReturnsIdle)'
  BY <1>1, <1>2, <1>4 DEF IInv, SlotTypeOK, TwoSlotsBusy, StartedFromIdle,
                          HarvestedIdle, BrokenIdle, ReturnsIdle, loopVars
<1>6. QED
  BY <1>4, <1>5 DEF IInv

\* The steps that touch neither the streams nor the host thread.
LEMMA OtherIInv ==
  ASSUME IInv, RequestStop \/ Returned \/ UNCHANGED vars
  PROVE  IInv'
<1>1. UNCHANGED <<pc, loopVars, stream, broken>>
  BY DEF RequestStop, Returned, vars
<1>2. QED
  BY <1>1 DEF IInv, SlotTypeOK, TwoSlotsBusy, StartedFromIdle, HarvestedIdle,
              BrokenIdle, ReturnsIdle, loopVars

\* The inductive invariant holds in every reachable state, for every pipeline
\* of two slots or more.
THEOREM Invariance ==
  ASSUME Depth > 1
  PROVE  Spec => []IInv
<1>1. IInv /\ [Next]_vars => IInv'
  BY HostIInv, DeviceIInv, FaultIInv, OtherIInv DEF Next
<1>2. QED
  BY InitIInv, <1>1, PTL DEF Spec

\* The inductive invariant rules out a race.
LEMMA RaceFree == IInv => NoHostRace
<1> SUFFICES ASSUME IInv PROVE NoHostRace
  OBVIOUS
<1>1. pc = "setup" => ~InFlight(nxt, "upload")
  BY DEF IInv, StartedFromIdle, InFlight
<1>2. pc = "reset" => ~InFlight(nxt, "reset") /\ ~InFlight(nxt, "readback")
  <2>1. \A i \in 1..Len(<<"upload">>) : <<"upload">>[i] = "upload"
    OBVIOUS
  <2>2. QED
    BY <2>1 DEF IInv, StartedFromIdle, InFlight
<1>3. pc = "harvest" => stream[cur] = <<>>
  BY DEF IInv, HarvestedIdle
<1>4. QED
  BY <1>1, <1>2, <1>3 DEF NoHostRace

\* With two slots or more, the host thread never overwrites a pinned buffer
\* an enqueued copy still needs, and never reads one the device may still
\* write: the comment in setup_epoch is right whatever the number of slots,
\* of epochs and of hits, and wherever a CUDA error or a stop falls.
THEOREM HostNeverRaces ==
  ASSUME Depth > 1
  PROVE  Spec => []NoHostRace
BY Invariance, RaceFree, PTL

\* run() never returns, so the engine's buffers are never freed, while the
\* device has work enqueued on them.
THEOREM DeviceIdleOnReturn ==
  ASSUME Depth > 1
  PROVE  Spec => []ReturnsIdle
<1>1. IInv => ReturnsIdle
  BY DEF IInv
<1>2. QED
  BY Invariance, <1>1, PTL

-----------------------------------------------------------------------------
(* What is harvested *)

\* The first half of the argument said who may touch a buffer; from here on
\* it is what the buffers hold.

HarvestType == [epoch : 0..MaxEpochs, hits : {KeysOf(seq) : seq \in Seq(Hits)}]

DataTypeOK ==
  /\ stop \in BOOLEAN /\ broken \in BOOLEAN
  /\ cur_live \in BOOLEAN /\ nxt_live \in BOOLEAN
  /\ epochs \in 0..MaxEpochs
  /\ slot_a0 \in [Slots -> 0..MaxEpochs] /\ h_starts = slot_a0
  /\ d_starts \in [Slots -> 0..MaxEpochs]
  /\ h_hit_count \in [Slots -> Nat] /\ d_hit_count \in [Slots -> Nat]
  /\ d_slots \in [Slots -> [1..MaxHitSlots -> Hits]]
  /\ winners \in [Epochs -> 0..MaxWinners]
  /\ total \in Nat /\ dropped \in Nat /\ hit_overflow_events \in Nat
  /\ launched \in SUBSET Epochs
  /\ harvests \in Seq(HarvestType)

\* The places where the slot cur waits to be drained, and where nxt does.
CurPc == {"loop", "drain", "harvest"} \cup StartPc
NxtPc == {"drain", "harvest", "swap"}

\* The first epoch is started alone; later ones while another is in flight in
\* another slot.
ControlInv ==
  /\ priming => ~cur_live /\ harvests = <<>>
  /\ ~priming /\ pc \in StartPc \cup {"drain", "harvest"} => cur_live
  /\ ~priming /\ pc \in StartPc \cup NxtPc => nxt # cur

\* Each slot retains an epoch of its own, younger than all that were
\* harvested as long as the slot is in flight.
Unharvested(e) == e # NoEpoch /\ \A i \in 1..Len(harvests) : harvests[i].epoch < e

EpochInv ==
  /\ \A s \in Slots : slot_a0[s] <= epochs /\ (pc = "setup" => slot_a0[s] < epochs)
  /\ \A s, r \in Slots : s # r /\ slot_a0[s] = slot_a0[r] => slot_a0[s] = NoEpoch
  /\ \A s \in Slots : stream[s] # <<>> => Unharvested(slot_a0[s])
  /\ pc \in StartPc \ {"start"} => epochs # NoEpoch
  /\ pc \in StartPc \ {"start", "setup"} => slot_a0[nxt] = epochs
  /\ cur_live /\ pc \in CurPc => slot_a0[cur] \in launched /\ Unharvested(slot_a0[cur])
  /\ nxt_live /\ pc \in NxtPc => slot_a0[nxt] \in launched /\ Unharvested(slot_a0[nxt])
  /\ pc \in {"drain", "harvest"} /\ (nxt_live \/ stream[nxt] # <<>>) =>
       slot_a0[cur] < slot_a0[nxt]

\* What start_epoch enqueues, in this order.
Program == <<"upload", "reset", "kernel", "readback">>

\* The hits of the epoch a slot retains are in its hit slots.
HitsInPlace(s) ==
  \A i \in 1..Recorded(winners[slot_a0[s]]) :
    d_slots[s][i] = [epoch |-> slot_a0[s], id |-> i]

Harvestable(s) == h_hit_count[s] = winners[slot_a0[s]] /\ HitsInPlace(s)

\* The first m operations of the program have been enqueued in slot s, and the
\* buffers hold what those that have run left.
Flow(s, m) ==
  LET n == m - Len(stream[s])
  IN /\ n >= 0
     /\ \A i \in 1..Len(stream[s]) : stream[s][i] = Program[n + i]
     /\ m >= 2 /\ n <= 1 => h_hit_count[s] = 0
     /\ n >= 1 => d_starts[s] = slot_a0[s]
     /\ n = 2 => d_hit_count[s] = 0
     /\ n >= 3 => d_hit_count[s] = winners[slot_a0[s]] /\ HitsInPlace(s)
     /\ n = 4 => Harvestable(s)

\* Every slot is somewhere in the program; a live one has all of it enqueued.
FlowInv ==
  /\ \A s \in Slots : \E m \in 0..4 : Flow(s, m)
  /\ ~broken =>
       \A s \in Slots : /\ s = nxt /\ pc = "reset" => Flow(s, 1)
                        /\ s = nxt /\ pc = "launch" => Flow(s, 2)
                        /\ s = nxt /\ pc = "readback" => Flow(s, 3)
                        /\ s = cur /\ cur_live /\ pc \in CurPc => Flow(s, 4)
                        /\ s = nxt /\ nxt_live /\ pc \in NxtPc => Flow(s, 4)
  /\ \A s \in Slots : s = cur /\ pc = "harvest" => Harvestable(s)

HarvestInv ==
  DataTypeOK /\ ControlInv /\ EpochInv /\ FlowInv /\ HarvestsExact /\ HarvestedInOrder

-----------------------------------------------------------------------------
(* What is lost *)

\* The epochs drawn of which it is still open what becomes of them.
Open ==
  (IF pc \in StartPc \ {"start"} THEN 1 ELSE 0)
    + (IF cur_live /\ pc \in CurPc THEN 1 ELSE 0)
    + (IF nxt_live /\ pc \in NxtPc THEN 1 ELSE 0)

\* Every epoch drawn is open, harvested or dropped, but for one that a stop
\* may discard, after which no other is started.
LedgerInv ==
  /\ \/ epochs = Len(harvests) + dropped + Open
     \/ /\ epochs = Len(harvests) + dropped + Open + 1
        /\ stop
        /\ \/ pc \in NxtPc /\ ~nxt_live
           \/ pc = "loop" /\ ~cur_live
           \/ pc \in {"final", "returned"}
  /\ total + (IF pc = "swap" THEN 1 ELSE 0) <= Len(harvests) + dropped

Overflowing == {i \in 1..Len(harvests) : winners[harvests[i].epoch] > MaxHitSlots}

OverflowInv ==
  hit_overflow_events \in Cardinality(Overflowing)..Cardinality(Overflowing)+dropped

-----------------------------------------------------------------------------

\* The empty pipeline satisfies the invariants of what is harvested and lost.
LEMMA InitHarvestInv == Init => HarvestInv /\ LedgerInv /\ OverflowInv
<1> SUFFICES ASSUME Init PROVE HarvestInv /\ LedgerInv /\ OverflowInv
  OBVIOUS
<1> USE PipelineAssumption DEF Init
<1>1. DataTypeOK
  <2>1. NoHit \in Hits
    BY DEF NoHit, Hits, NoEpoch
  <2>2. d_slots \in [Slots -> [1..MaxHitSlots -> Hits]]
    BY <2>1
  <2>3. harvests \in Seq(HarvestType)
    OBVIOUS
  <2>4. /\ slot_a0 \in [Slots -> 0..MaxEpochs] /\ d_starts \in [Slots -> 0..MaxEpochs]
        /\ h_hit_count \in [Slots -> Nat] /\ d_hit_count \in [Slots -> Nat]
        /\ winners \in [Epochs -> 0..MaxWinners]
    BY DEF NoEpoch
  <2>5. /\ stop \in BOOLEAN /\ broken \in BOOLEAN /\ cur_live \in BOOLEAN
        /\ nxt_live \in BOOLEAN
    OBVIOUS
  <2>6. h_starts = slot_a0 /\ launched \in SUBSET Epochs
    OBVIOUS
  <2>7. /\ epochs \in 0..MaxEpochs /\ total \in Nat /\ dropped \in Nat
        /\ hit_overflow_events \in Nat
    OBVIOUS
  <2>8. QED
    BY <2>2, <2>3, <2>4, <2>5, <2>6, <2>7 DEF DataTypeOK
<1>2. ControlInv
  BY DEF ControlInv, StartPc, NxtPc
<1>3. EpochInv
  BY DEF EpochInv, StartPc, NxtPc, CurPc, NoEpoch
<1>4. FlowInv
  <2>1. ASSUME NEW s \in Slots
        PROVE  Flow(s, 0)
    BY <2>1 DEF Flow
  <2>2. QED
    BY <2>1 DEF FlowInv
<1>5. HarvestsExact /\ HarvestedInOrder
  BY DEF HarvestsExact, HarvestedInOrder
<1>6. LedgerInv
  BY DEF LedgerInv, Open, StartPc, NxtPc, CurPc
<1>7. OverflowInv
  <2>1. Overflowing = {}
    BY DEF Overflowing
  <2>2. QED
    BY <2>1, FS_EmptySet DEF OverflowInv
<1>8. QED
  BY <1>1, <1>2, <1>3, <1>4, <1>5, <1>6, <1>7 DEF HarvestInv

\* Every harvest is of some epoch.
LEMMA HarvestEpochs ==
  ASSUME DataTypeOK
  PROVE  \A i \in 1..Len(harvests) : harvests[i].epoch \in 0..MaxEpochs /\ harvests[i].epoch \in Nat
<1>1. \A i \in 1..Len(harvests) : harvests[i] \in HarvestType
  BY DEF DataTypeOK
<1>2. QED
  BY <1>1, PipelineAssumption DEF HarvestType

buffers == <<slot_a0, h_hit_count, deviceVars, stream>>

\* The place of a slot in the program depends on its buffers and its stream.
LEMMA FlowFrame ==
  ASSUME UNCHANGED buffers, NEW s \in Slots
  PROVE  /\ \A m \in 0..4 : Flow(s, m)' <=> Flow(s, m)
         /\ Harvestable(s)' <=> Harvestable(s)
BY DEF buffers, deviceVars, Flow, Harvestable, HitsInPlace

\* A step that harvests nothing and runs no kernel leaves the harvests as they
\* are.
LEMMA HarvestsFrame ==
  ASSUME HarvestsExact, HarvestedInOrder,
         UNCHANGED <<harvests, winners>>, launched \subseteq launched'
  PROVE  HarvestsExact' /\ HarvestedInOrder'
<1>1. HarvestsExact'
  BY DEF HarvestsExact
<1>2. HarvestedInOrder'
  BY DEF HarvestedInOrder
<1>3. QED
  BY <1>1, <1>2

\* The steps of the host that touch no buffer and no stream.
LEMMA LoopHarvestInv ==
  ASSUME Depth > 1, IInv, IInv', HarvestInv,
         SkipStart \/ DrawEpoch \/ Loop \/ Sync \/ Swap \/ Finish
  PROVE  HarvestInv'
<1> USE PipelineAssumption
<1>1. /\ UNCHANGED <<buffers, h_starts, harvests, broken, stop>>
      /\ launched' = launched
  BY DEF SkipStart, DrawEpoch, Loop, Sync, Swap, Finish, StartReturns, startOnly, runOnly,
         hostBuffers, deviceVars, buffers
<1>2. /\ priming \in BOOLEAN /\ cur_live \in BOOLEAN /\ nxt_live \in BOOLEAN
      /\ epochs \in Nat /\ total \in Nat /\ dropped \in Nat
      /\ cur \in Slots /\ nxt \in Slots /\ slot_a0 \in [Slots -> Nat]
  BY DEF IInv, SlotTypeOK, HarvestInv, DataTypeOK
<1>3. HarvestsExact' /\ HarvestedInOrder'
  BY <1>1, HarvestsFrame DEF HarvestInv, buffers, deviceVars
<1>4. /\ \A s \in Slots, m \in 0..4 : Flow(s, m)' <=> Flow(s, m)
      /\ \A s \in Slots : Harvestable(s)' <=> Harvestable(s)
      /\ \A e : Unharvested(e)' <=> Unharvested(e)
  BY <1>1, FlowFrame DEF Unharvested
<1>5. DataTypeOK' <=>
        /\ cur_live' \in BOOLEAN /\ nxt_live' \in BOOLEAN
        /\ epochs' \in 0..MaxEpochs
        /\ total' \in Nat /\ dropped' \in Nat /\ hit_overflow_events' \in Nat
  BY <1>1 DEF HarvestInv, DataTypeOK, buffers, deviceVars
<1> DEFINE Rest == DataTypeOK' /\ ControlInv' /\ EpochInv' /\ FlowInv'
<1> SUFFICES Rest
  BY <1>3 DEF HarvestInv
<1> USE DEF StartPc, NxtPc, CurPc, NoEpoch, buffers, ControlInv, EpochInv, FlowInv
<1>6. CASE SkipStart
  <2>1. /\ pc = "start" /\ pc' = IF priming THEN "loop" ELSE "drain"
        /\ ~priming' /\ cur_live' = (~priming /\ cur_live) /\ nxt_live' = (priming /\ nxt_live)
        /\ UNCHANGED <<cur, nxt, epochs, total, hit_overflow_events>> /\ dropped' \in Nat
    BY <1>2, <1>6 DEF SkipStart, StartReturns, startOnly, hitCounts
  <2>2. DataTypeOK'
    BY <1>2, <1>5, <2>1 DEF HarvestInv, DataTypeOK
  <2>3. ControlInv' /\ EpochInv'
    BY <1>1, <1>2, <1>4, <2>1 DEF HarvestInv, IInv, StartedFromIdle
  <2>4. FlowInv'
    BY <1>1, <1>2, <1>4, <2>1 DEF HarvestInv
  <2>5. QED
    BY <2>2, <2>3, <2>4
<1>7. CASE DrawEpoch
  <2>1. /\ pc = "start" /\ pc' = "setup" /\ epochs' = epochs + 1 /\ epochs' \in 0..MaxEpochs
        /\ UNCHANGED <<cur, nxt, cur_live, nxt_live, priming, total, dropped, hit_overflow_events>>
    BY <1>2, <1>7 DEF DrawEpoch, startOnly, hitCounts
  <2>2. DataTypeOK'
    BY <1>2, <1>5, <2>1 DEF HarvestInv, DataTypeOK
  <2>3. ControlInv' /\ EpochInv'
    BY <1>1, <1>2, <1>4, <2>1 DEF HarvestInv
  <2>4. FlowInv'
    BY <1>1, <1>2, <1>4, <2>1 DEF HarvestInv
  <2>5. QED
    BY <2>2, <2>3, <2>4
<1>8. CASE Loop
  <2>1. /\ pc = "loop" /\ UNCHANGED <<cur, epochs, cur_live, nxt_live, priming, total, dropped, hit_overflow_events>>
        /\ \/ cur_live /\ pc' = "start" /\ nxt' = NextSlot
           \/ pc' = "final" /\ nxt' = nxt
    BY <1>8 DEF Loop, runOnly, hitCounts
  <2>2. NextSlot \in Slots /\ NextSlot # cur /\ ~priming
    BY <1>2, <2>1, NextSlotDiffers DEF IInv, TwoSlotsBusy
  <2>3. DataTypeOK'
    BY <1>2, <1>5, <2>1 DEF HarvestInv, DataTypeOK
  <2>4. ControlInv' /\ EpochInv'
    BY <1>1, <1>2, <1>4, <2>1, <2>2 DEF HarvestInv
  <2>5. FlowInv'
    BY <1>1, <1>2, <1>4, <2>1, <2>2 DEF HarvestInv
  <2>6. QED
    BY <2>3, <2>4, <2>5
<1>9. CASE Sync
  <2>1. /\ pc = "drain" /\ UNCHANGED <<cur, nxt, epochs, cur_live, nxt_live, priming, total, hit_overflow_events>>
        /\ dropped' \in Nat
        /\ \/ broken /\ pc' = "swap"
           \/ ~broken /\ stream[cur] = <<>> /\ pc' = "harvest"
    BY <1>2, <1>9 DEF Sync, runOnly, hitCounts
  <2>2. DataTypeOK'
    BY <1>2, <1>5, <2>1 DEF HarvestInv, DataTypeOK
  <2>3. ControlInv' /\ EpochInv'
    BY <1>1, <1>2, <1>4, <2>1 DEF HarvestInv, IInv, TwoSlotsBusy
  <2>4. ASSUME NEW s \in Slots, s = cur, ~broken
        PROVE  Harvestable(s)
    <3>1. cur_live
      BY <2>1 DEF HarvestInv, IInv, TwoSlotsBusy
    <3>2. Flow(s, 4)
      BY <2>1, <2>4, <3>1 DEF HarvestInv
    <3>3. Len(stream[s]) = 0
      BY <2>1, <2>4
    <3>4. QED
      BY <3>2, <3>3 DEF Flow
  <2>5. FlowInv'
    BY <1>1, <1>2, <1>4, <2>1, <2>4 DEF HarvestInv
  <2>6. QED
    BY <2>2, <2>3, <2>5
<1>10. CASE Swap
  <2>1. /\ pc = "swap" /\ pc' = "loop" /\ cur' = nxt /\ cur_live' = nxt_live
        /\ cur_live' \in BOOLEAN /\ nxt_live' \in BOOLEAN /\ total' \in Nat
        /\ UNCHANGED <<nxt, epochs, nxt_live, priming, dropped, hit_overflow_events>>
    BY <1>2, <1>10 DEF Swap, runOnly, hitCounts
  <2>2. DataTypeOK'
    BY <1>2, <1>5, <2>1 DEF HarvestInv, DataTypeOK
  <2>3. ControlInv' /\ EpochInv'
    BY <1>1, <1>2, <1>4, <2>1 DEF HarvestInv, IInv, TwoSlotsBusy
  <2>4. FlowInv'
    BY <1>1, <1>2, <1>4, <2>1 DEF HarvestInv
  <2>5. QED
    BY <2>2, <2>3, <2>4
<1>11. CASE Finish
  <2>1. /\ pc = "final" /\ pc' = "returned"
        /\ UNCHANGED <<cur, nxt, cur_live, epochs, nxt_live, priming, total, dropped, hit_overflow_events>>
    BY <1>11 DEF Finish, runOnly, hitCounts
  <2>2. DataTypeOK'
    BY <1>2, <1>5, <2>1 DEF HarvestInv, DataTypeOK
  <2>3. ControlInv' /\ EpochInv'
    BY <1>1, <1>2, <1>4, <2>1 DEF HarvestInv, IInv, TwoSlotsBusy
  <2>4. FlowInv'
    BY <1>1, <1>2, <1>4, <2>1 DEF HarvestInv
  <2>5. QED
    BY <2>2, <2>3, <2>4
<1>12. QED
  BY <1>6, <1>7, <1>8, <1>9, <1>10, <1>11

\* An idle slot is at the beginning of the program.
LEMMA IdleFlow ==
  ASSUME NEW s \in Slots, stream[s] = <<>>
  PROVE  Flow(s, 0)
BY DEF Flow

\* setup_epoch retains the epoch just drawn, the youngest, in a slot that is
\* idle.
LEMMA SetupHarvestInv ==
  ASSUME IInv, HarvestInv, Setup
  PROVE  HarvestInv'
<1> USE PipelineAssumption
<1>1. /\ pc = "setup" /\ pc' = "upload"
      /\ slot_a0' = [slot_a0 EXCEPT ![nxt] = epochs]
      /\ h_starts' = [h_starts EXCEPT ![nxt] = epochs]
      /\ UNCHANGED <<stop, cur, nxt, cur_live, nxt_live, priming, epochs, h_hit_count, stream,
                     deviceVars, broken, total, dropped, hit_overflow_events, launched,
                     harvests>>
  BY DEF Setup, startOnly, hitCounts
<1>2. /\ nxt \in Slots /\ cur \in Slots /\ stream[nxt] = <<>> /\ stream'[nxt] = <<>>
      /\ priming \in BOOLEAN /\ cur_live \in BOOLEAN /\ nxt_live \in BOOLEAN
      /\ epochs \in 0..MaxEpochs /\ slot_a0 \in [Slots -> 0..MaxEpochs]
      /\ slot_a0' \in [Slots -> 0..MaxEpochs] /\ h_starts' = slot_a0'
  BY <1>1 DEF IInv, SlotTypeOK, StartedFromIdle, HarvestInv, DataTypeOK
<1>3. DataTypeOK'
  BY <1>1, <1>2 DEF HarvestInv, DataTypeOK, deviceVars
<1>4. ControlInv'
  BY <1>1 DEF HarvestInv, ControlInv, StartPc, NxtPc
<1>5. EpochInv'
  BY <1>1, <1>2 DEF HarvestInv, ControlInv, EpochInv, Unharvested, StartPc, NxtPc, CurPc, NoEpoch
<1>6. FlowInv'
  <2>1. ASSUME NEW s \in Slots, s # nxt
        PROVE  \A m \in 0..4 : Flow(s, m) => Flow(s, m)'
    BY <1>1, <1>2, <2>1 DEF Flow, Harvestable, HitsInPlace, deviceVars
  <2>2. ASSUME NEW s \in Slots, s = nxt
        PROVE  Flow(s, 0)'
    BY <1>1, <1>2, <2>2 DEF Flow
  <2>3. ASSUME NEW s \in Slots
        PROVE  \E m \in 0..4 : Flow(s, m)'
    <3>1. CASE s = nxt
      BY <2>2, <3>1
    <3>2. CASE s # nxt
      <4>1. PICK m \in 0..4 : Flow(s, m)
        BY DEF HarvestInv, FlowInv
      <4>2. QED
        BY <2>1, <3>2, <4>1
    <3>3. QED
      BY <3>1, <3>2
  <2>4. cur_live => cur # nxt
    BY <1>1, <1>2 DEF HarvestInv, ControlInv, StartPc
  <2>5. QED
    <3>1. broken' = broken /\ pc' = "upload" /\ cur_live' = cur_live /\ cur' = cur /\ pc = "setup"
      BY <1>1
    <3>2. ASSUME NEW s \in Slots, s = cur, ~broken, cur_live
          PROVE  Flow(s, 4)'
      <4>1. Flow(s, 4)
        BY <3>1, <3>2 DEF HarvestInv, FlowInv, CurPc, StartPc
      <4>2. QED
        BY <2>1, <2>4, <3>2, <4>1
    <3>3. QED
      BY <2>3, <3>1, <3>2 DEF FlowInv, NxtPc
<1>7. HarvestsExact' /\ HarvestedInOrder'
  BY <1>1, HarvestsFrame DEF HarvestInv, deviceVars
<1>8. QED
  BY <1>3, <1>4, <1>5, <1>6, <1>7 DEF HarvestInv

\* Enqueuing the next operation of the program advances it by one.
LEMMA EnqueueFlow ==
  ASSUME NEW s \in Slots, stream[s] \in Seq(Ops), NEW m \in 0..3, Flow(s, m),
         stream'[s] = Append(stream[s], Program[m + 1]),
         h_hit_count'[s] = (IF m = 1 THEN 0 ELSE h_hit_count[s]),
         UNCHANGED <<slot_a0, deviceVars>>
  PROVE  Flow(s, m + 1)'
<1> DEFINE q == stream[s]
           p == stream'[s]
           L == Len(q)
           n == m - L
<1>1. L \in Nat /\ Program[m + 1] \in Ops
  BY DEF Program, Ops
<1>2. /\ Len(p) = L + 1
      /\ \A i \in 1..L : p[i] = q[i]
      /\ p[L + 1] = Program[m + 1]
  BY <1>1, AppendProperties
<1>3. n >= 0 /\ \A i \in 1..L : q[i] = Program[n + i]
  BY DEF Flow
<1>4. /\ m + 1 >= 2 /\ n <= 1 => h_hit_count'[s] = 0
      /\ n >= 1 => d_starts'[s] = slot_a0'[s]
      /\ n = 2 => d_hit_count'[s] = 0
      /\ n >= 3 => d_hit_count'[s] = winners'[slot_a0'[s]] /\ HitsInPlace(s)'
  BY DEF Flow, HitsInPlace, deviceVars
<1> HIDE DEF q, p, L
<1>5. n \in 0..3 /\ Len(p) \in Nat /\ (m + 1) - Len(p) = n
  BY <1>1, <1>2, <1>3
<1>6. \A i \in 1..Len(p) : p[i] = Program[n + i]
  <2>1. n + (L + 1) = m + 1
    BY <1>1
  <2>2. QED
    BY <1>1, <1>2, <1>3, <2>1
<1> HIDE DEF n
<1>7. ASSUME NEW k \in 1..4, k = m + 1
      PROVE  Flow(s, k)'
  <2>1. k - Len(p) = n
    <3>1. (m + 1) - Len(p) = n
      BY <1>5
    <3>2. QED
      BY <3>1, <1>7
  <2>2. n >= 0 /\ n # 4
    BY <1>5
  <2>3. k - Len(stream'[s]) = n
    BY <2>1, Zenon DEF p
  <2>4. \A i \in 1..Len(stream'[s]) : stream'[s][i] = Program[n + i]
    BY <1>6 DEF p
  <2>5. k >= 2 /\ n <= 1 => h_hit_count'[s] = 0
    BY <1>4, <1>7
  <2>6. QED
    BY <1>4, <2>2, <2>3, <2>4, <2>5 DEF Flow
<1>8. QED
  BY <1>7

\* Where start_epoch enqueues the operations of the program.
EnqueuePc == <<"upload", "reset", "launch", "readback">>

Goes == UNCHANGED <<cur_live, nxt_live, priming, launched, dropped>>

Enqueues(m) ==
  /\ pc = EnqueuePc[m + 1]
  /\ \/ Enqueue(Program[m + 1]) /\ m # 3 /\ Goes /\ pc' = EnqueuePc[m + 2]
     \/ Enqueue(Program[m + 1]) /\ m = 3 /\ StartReturns(TRUE)
     \/ (Enqueue(Program[m + 1]) \/ UNCHANGED stream) /\ StartReturns(FALSE)
  /\ h_hit_count' = IF m = 1 THEN [h_hit_count EXCEPT ![nxt] = 0] ELSE h_hit_count
  /\ UNCHANGED <<stop, cur, nxt, epochs, slot_a0, h_starts, d_starts, d_hit_count, d_slots,
                 winners, broken, total, hit_overflow_events, harvests>>

\* Each of the four steps that enqueue an operation enqueues the one whose
\* turn it is, or fails.
LEMMA EnqueueSteps ==
  ASSUME Upload \/ Reset \/ Launch \/ Readback
  PROVE  \E m \in 0..3 : Enqueues(m)
<1>1. /\ Program[0 + 1] = "upload" /\ Program[1 + 1] = "reset"
      /\ Program[2 + 1] = "kernel" /\ Program[3 + 1] = "readback"
      /\ EnqueuePc[0 + 1] = "upload" /\ EnqueuePc[1 + 1] = "reset" /\ EnqueuePc[0 + 2] = "reset"
      /\ EnqueuePc[2 + 1] = "launch" /\ EnqueuePc[1 + 2] = "launch"
      /\ EnqueuePc[3 + 1] = "readback" /\ EnqueuePc[2 + 2] = "readback"
  BY DEF Program, EnqueuePc
<1>2. CASE Upload
  <2>1. /\ pc = "upload"
        /\ \/ Enqueue("upload") /\ Goes /\ pc' = "reset"
           \/ (Enqueue("upload") \/ UNCHANGED stream) /\ StartReturns(FALSE)
    BY <1>2 DEF Upload, EnqueueThen, GoOn, Goes
  <2>2. /\ h_hit_count' = h_hit_count
        /\ UNCHANGED <<stop, cur, nxt, epochs, slot_a0, h_starts, d_starts, d_hit_count, d_slots,
                       winners, broken, total, hit_overflow_events, harvests>>
    BY <1>2 DEF Upload, startOnly, hostBuffers, hitCounts, deviceVars
  <2>3. Enqueue(Program[0 + 1]) <=> Enqueue("upload")
    BY <1>1 DEF Enqueue
  <2>4. Enqueues(0)
    BY <1>1, <2>1, <2>2, <2>3 DEF Enqueues, Goes
  <2>5. QED
    BY <2>4
<1>3. CASE Reset
  <2>1. /\ pc = "reset"
        /\ \/ Enqueue("reset") /\ Goes /\ pc' = "launch"
           \/ (Enqueue("reset") \/ UNCHANGED stream) /\ StartReturns(FALSE)
    BY <1>3 DEF Reset, EnqueueThen, GoOn, Goes
  <2>2. /\ h_hit_count' = [h_hit_count EXCEPT ![nxt] = 0]
        /\ UNCHANGED <<stop, cur, nxt, epochs, slot_a0, h_starts, d_starts, d_hit_count, d_slots,
                       winners, broken, total, hit_overflow_events, harvests>>
    BY <1>3 DEF Reset, startOnly, hostBuffers, hitCounts, deviceVars
  <2>3. Enqueue(Program[1 + 1]) <=> Enqueue("reset")
    BY <1>1 DEF Enqueue
  <2>4. Enqueues(1)
    BY <1>1, <2>1, <2>2, <2>3 DEF Enqueues, Goes
  <2>5. QED
    BY <2>4
<1>4. CASE Launch
  <2>1. /\ pc = "launch"
        /\ \/ Enqueue("kernel") /\ Goes /\ pc' = "readback"
           \/ (Enqueue("kernel") \/ UNCHANGED stream) /\ StartReturns(FALSE)
    BY <1>4 DEF Launch, GoOn, Goes
  <2>2. /\ h_hit_count' = h_hit_count
        /\ UNCHANGED <<stop, cur, nxt, epochs, slot_a0, h_starts, d_starts, d_hit_count, d_slots,
                       winners, broken, total, hit_overflow_events, harvests>>
    BY <1>4 DEF Launch, startOnly, hostBuffers, hitCounts, deviceVars
  <2>3. Enqueue(Program[2 + 1]) <=> Enqueue("kernel")
    BY <1>1 DEF Enqueue
  <2>4. Enqueues(2)
    BY <1>1, <2>1, <2>2, <2>3 DEF Enqueues, Goes
  <2>5. QED
    BY <2>4
<1>5. CASE Readback
  <2>1. /\ pc = "readback"
        /\ \/ Enqueue("readback") /\ StartReturns(TRUE)
           \/ (Enqueue("readback") \/ UNCHANGED stream) /\ StartReturns(FALSE)
    BY <1>5 DEF Readback, EnqueueThen
  <2>2. /\ h_hit_count' = h_hit_count
        /\ UNCHANGED <<stop, cur, nxt, epochs, slot_a0, h_starts, d_starts, d_hit_count, d_slots,
                       winners, broken, total, hit_overflow_events, harvests>>
    BY <1>5 DEF Readback, startOnly, hostBuffers, hitCounts, deviceVars
  <2>3. Enqueue(Program[3 + 1]) <=> Enqueue("readback")
    BY <1>1 DEF Enqueue
  <2>4. Enqueues(3)
    BY <1>1, <2>1, <2>2, <2>3 DEF Enqueues, Goes
  <2>5. QED
    BY <2>4
<1>6. QED
  BY <1>2, <1>3, <1>4, <1>5

\* The place of slot nxt after such a step.
LEMMA EnqueuePlace ==
  ASSUME IInv, HarvestInv, NEW m \in 0..3, Enqueues(m), NEW s \in Slots, s = nxt
  PROVE  /\ \E k \in 0..4 : Flow(s, k)'
         /\ \A k \in 1..4 : k = m + 1 /\ Enqueue(Program[m + 1]) => Flow(s, k)'
<1>1. /\ stream \in [Slots -> Seq(Ops)] /\ stream[s] \in Seq(Ops)
      /\ h_hit_count \in [Slots -> Nat] /\ nxt' = nxt /\ broken' = broken
      /\ UNCHANGED <<slot_a0, deviceVars>>
      /\ h_hit_count'[s] = IF m = 1 THEN 0 ELSE h_hit_count[s]
  BY DEF IInv, SlotTypeOK, HarvestInv, DataTypeOK, Enqueues, deviceVars
<1>2. CASE broken
  <2>1. stream'[s] = <<>>
    BY <1>1, <1>2 DEF IInv, BrokenIdle, Enqueues, Enqueue
  <2>2. Flow(s, 0)'
    BY <2>1 DEF Flow
  <2>3. QED
    BY <1>2, <2>2 DEF Enqueue
<1>3. CASE ~broken
  <2>1. Flow(s, m)
    <3>1. CASE m = 0
      BY <3>1, IdleFlow DEF Enqueues, EnqueuePc, IInv, StartedFromIdle
    <3>2. CASE m \in 1..3
      <4>1. /\ m = 1 => pc = "reset"
            /\ m = 2 => pc = "launch"
            /\ m = 3 => pc = "readback"
        BY <3>2 DEF Enqueues, EnqueuePc
      <4>2. /\ pc = "reset" => Flow(s, 1)
            /\ pc = "launch" => Flow(s, 2)
            /\ pc = "readback" => Flow(s, 3)
        BY <1>3 DEF HarvestInv, FlowInv
      <4>3. QED
        BY <3>2, <4>1, <4>2
    <3>3. QED
      BY <3>1, <3>2
  <2>2. CASE Enqueue(Program[m + 1])
    <3>1. stream'[s] = Append(stream[s], Program[m + 1])
      BY <1>1, <2>2 DEF Enqueue
    <3>2. Flow(s, m + 1)'
      BY <1>1, <2>1, <3>1, EnqueueFlow
    <3>3. \A k \in 1..4 : k = m + 1 => Flow(s, k)'
      BY <3>2
    <3>4. QED
      BY <3>2, <3>3
  <2>3. CASE UNCHANGED stream
    <3>1. Flow(s, m)'
      <4>1. CASE m = 1
        BY <1>1, <2>1, <2>3, <4>1 DEF Flow, deviceVars
      <4>2. CASE m # 1
        BY <1>1, <2>1, <2>3, <4>2 DEF Flow, HitsInPlace, Harvestable, deviceVars
      <4>3. QED
        BY <4>1, <4>2
    <3>2. CASE Enqueue(Program[m + 1])
      BY <2>2, <3>2
    <3>3. CASE ~Enqueue(Program[m + 1])
      BY <3>1, <3>3
    <3>4. QED
      BY <3>2, <3>3
  <2>4. QED
    BY <2>2, <2>3 DEF Enqueues
<1>4. QED
  BY <1>2, <1>3

\* The steps of start_epoch that enqueue the operations of an epoch.
LEMMA EnqueueHarvestInv ==
  ASSUME IInv, IInv', HarvestInv, Upload \/ Reset \/ Launch \/ Readback
  PROVE  HarvestInv'
<1> USE PipelineAssumption
<1>1. PICK m \in 0..3 : Enqueues(m)
  BY EnqueueSteps
<1>2. pc \in StartPc \ {"start", "setup"}
  BY <1>1 DEF Enqueues, EnqueuePc, StartPc
<1>3. /\ UNCHANGED <<stop, cur, nxt, epochs, slot_a0, h_starts, d_starts, d_hit_count, d_slots,
                     winners, broken, total, hit_overflow_events, harvests>>
      /\ stream \in [Slots -> Seq(Ops)] /\ h_hit_count' \in [Slots -> Nat]
      /\ \A s \in Slots : s # nxt =>
           stream'[s] = stream[s] /\ h_hit_count'[s] = h_hit_count[s]
  BY <1>1 DEF Enqueues, Enqueue, IInv, SlotTypeOK, HarvestInv, DataTypeOK
<1>4. /\ nxt \in Slots /\ cur \in Slots /\ priming \in BOOLEAN
      /\ cur_live \in BOOLEAN /\ nxt_live \in BOOLEAN
      /\ epochs \in Nat /\ dropped \in Nat /\ slot_a0 \in [Slots -> Nat]
      /\ epochs \in Epochs /\ slot_a0[nxt] = epochs
      /\ launched \in SUBSET Epochs
  <2>1. epochs \in 0..MaxEpochs /\ epochs # NoEpoch /\ slot_a0[nxt] = epochs
    BY <1>2 DEF HarvestInv, DataTypeOK, EpochInv
  <2>2. epochs \in Nat /\ epochs \in Epochs
    BY <2>1 DEF Epochs, NoEpoch
  <2>3. priming \in BOOLEAN /\ cur_live \in BOOLEAN /\ nxt_live \in BOOLEAN
    BY DEF IInv, SlotTypeOK, HarvestInv, DataTypeOK
  <2>4. dropped \in Nat /\ slot_a0 \in [Slots -> Nat] /\ launched \in SUBSET Epochs
    BY DEF HarvestInv, DataTypeOK
  <2>5. QED
    BY <2>1, <2>2, <2>3, <2>4 DEF IInv, SlotTypeOK
<1>5. \A s \in Slots : \E k \in 0..4 : Flow(s, k)'
  <2>1. ASSUME NEW s \in Slots
        PROVE  \E k \in 0..4 : Flow(s, k)'
    <3>1. CASE s = nxt
      BY <1>1, <3>1, EnqueuePlace
    <3>2. CASE s # nxt
      <4>1. PICK k \in 0..4 : Flow(s, k)
        BY DEF HarvestInv, FlowInv
      <4>2. Flow(s, k)'
        BY <1>3, <3>2, <4>1 DEF Flow, HitsInPlace, Harvestable
      <4>3. QED
        BY <4>2
    <3>3. QED
      BY <3>1, <3>2
  <2>2. QED
    BY <2>1
<1>6. \A s \in Slots : s # nxt /\ Flow(s, 4) => Flow(s, 4)'
  BY <1>3, ZenonT(30) DEF Flow, HitsInPlace, Harvestable
<1>7. \A i \in 1..Len(harvests) : harvests[i].epoch < epochs
  <2>1. CASE priming
    BY <2>1 DEF HarvestInv, ControlInv
  <2>2. CASE ~priming
    <3>1. Unharvested(slot_a0[cur]) /\ slot_a0[cur] <= epochs
      BY <1>2, <1>4, <2>2 DEF HarvestInv, ControlInv, EpochInv, CurPc, StartPc
    <3>2. \A i \in 1..Len(harvests) : harvests[i].epoch < slot_a0[cur] /\ harvests[i].epoch \in Nat
      BY <3>1, HarvestEpochs DEF Unharvested, HarvestInv
    <3>3. QED
      BY <1>4, <3>1, <3>2
  <2>3. QED
    BY <1>4, <2>1, <2>2
<1>8. \A e : Unharvested(e)' <=> Unharvested(e)
  BY <1>3 DEF Unharvested
<1>9. Unharvested(epochs)
  BY <1>4, <1>7 DEF Unharvested, Epochs, NoEpoch
<1>10. ASSUME pc' = EnqueuePc[m + 2], m # 3, ~broken, Goes,
              \A s \in Slots, k \in 1..4 : s = nxt /\ k = m + 1 => Flow(s, k)'
       PROVE  HarvestInv'
  <2>1. DataTypeOK'
    BY <1>3, <1>10 DEF HarvestInv, DataTypeOK, Goes
  <2>2. pc' \in {"reset", "launch", "readback"}
    BY <1>10 DEF EnqueuePc
  <2>3. UNCHANGED <<cur_live, nxt_live, priming, launched, dropped>>
    BY <1>10 DEF Goes
  <2>4. ControlInv'
    BY <1>2, <1>3, <2>2, <2>3 DEF HarvestInv, ControlInv, StartPc, NxtPc
  <2>5. EpochInv'
    BY <1>2, <1>3, <1>4, <1>8, <1>9, <2>2, <2>3
    DEF HarvestInv, EpochInv, StartPc, NxtPc, CurPc, NoEpoch
  <2>6. FlowInv'
    <3>1. /\ pc' = "reset" => m = 0
          /\ pc' = "launch" => m = 1
          /\ pc' = "readback" => m = 2
      BY <1>10 DEF EnqueuePc
    <3>2. \A s \in Slots : /\ s = nxt' /\ pc' = "reset" => Flow(s, 1)'
                           /\ s = nxt' /\ pc' = "launch" => Flow(s, 2)'
                           /\ s = nxt' /\ pc' = "readback" => Flow(s, 3)'
      BY <1>3, <1>10, <3>1
    <3>3. ASSUME NEW s \in Slots, s = cur, cur_live
          PROVE  Flow(s, 4)'
      <4>1. s # nxt /\ pc \in CurPc
        BY <1>2, <3>3 DEF HarvestInv, ControlInv, CurPc
      <4>2. Flow(s, 4)
        BY <1>10, <3>3, <4>1 DEF HarvestInv, FlowInv
      <4>3. QED
        BY <1>6, <4>1, <4>2
    <3>4. QED
      BY <1>3, <1>5, <2>2, <2>3, <3>2, <3>3 DEF FlowInv, NxtPc
  <2>7. HarvestsExact' /\ HarvestedInOrder'
    BY <1>3, <2>3, HarvestsFrame DEF HarvestInv
  <2>8. QED
    BY <2>1, <2>4, <2>5, <2>6, <2>7 DEF HarvestInv
<1>11. ASSUME NEW up \in BOOLEAN, StartReturns(up),
              up => ~broken /\ \A s \in Slots : s = nxt => Flow(s, 4)'
       PROVE  HarvestInv'
  <2>1. /\ pc' = (IF priming THEN "loop" ELSE "drain") /\ priming' = FALSE
        /\ cur_live' = (IF priming THEN up ELSE cur_live)
        /\ nxt_live' = (IF priming THEN nxt_live ELSE up)
        /\ launched' = (IF up THEN launched \cup {epochs} ELSE launched)
        /\ cur_live' \in BOOLEAN /\ nxt_live' \in BOOLEAN /\ dropped' \in Nat
    BY <1>4, <1>11 DEF StartReturns
  <2>2. launched' \in SUBSET Epochs /\ launched \subseteq launched'
    BY <1>4, <2>1
  <2>3. DataTypeOK'
    BY <1>3, <2>1, <2>2 DEF HarvestInv, DataTypeOK
  <2>4. /\ priming => nxt = cur /\ ~cur_live
        /\ ~priming => cur_live /\ nxt # cur
    BY <1>2 DEF HarvestInv, ControlInv, IInv, TwoSlotsBusy
  <2>5. ControlInv'
    BY <1>3, <1>4, <2>1, <2>4 DEF ControlInv, StartPc, NxtPc
  <2>6. EpochInv'
    <3>1. /\ \A s \in Slots : slot_a0[s] <= epochs
          /\ \A s, r \in Slots : s # r /\ slot_a0[s] = slot_a0[r] => slot_a0[s] = NoEpoch
          /\ \A s \in Slots : stream[s] # <<>> => Unharvested(slot_a0[s])
          /\ ~priming => slot_a0[cur] \in launched /\ Unharvested(slot_a0[cur])
      BY <1>2, <2>4 DEF HarvestInv, EpochInv, CurPc
    <3>2. ~priming => slot_a0[cur] < slot_a0[nxt]
      BY <1>4, <2>4, <3>1 DEF Epochs, NoEpoch
    <3>3. pc' \notin StartPc /\ pc' # "setup" /\ pc' # "swap"
      BY <2>1 DEF StartPc
    <3>4. \A s \in Slots : stream'[s] # <<>> => Unharvested(slot_a0[s])
      BY <1>3, <1>4, <1>9, <3>1
    <3>5. cur_live' /\ pc' \in CurPc =>
            slot_a0[cur] \in launched' /\ Unharvested(slot_a0[cur])
      BY <1>4, <1>9, <2>1, <2>2, <2>4, <3>1
    <3>6. nxt_live' /\ pc' \in NxtPc =>
            slot_a0[nxt] \in launched' /\ Unharvested(slot_a0[nxt])
      BY <1>4, <1>9, <2>1, <2>2, <2>4, <3>1 DEF NxtPc
    <3>7. pc' \in {"drain", "harvest"} => slot_a0[cur] < slot_a0[nxt]
      BY <2>1, <3>2
    <3>8. QED
      BY <1>3, <1>8, <3>1, <3>3, <3>4, <3>5, <3>6, <3>7 DEF EpochInv
  <2>7. FlowInv'
    <3>1. ASSUME NEW s \in Slots, ~broken
          PROVE  /\ s = cur /\ cur_live' => Flow(s, 4)'
                 /\ s = nxt /\ nxt_live' /\ pc' = "drain" => Flow(s, 4)'
      <4>1. CASE priming
        BY <1>11, <2>1, <2>4, <4>1
      <4>2. CASE ~priming
        <5>1. s = cur => Flow(s, 4)
          BY <1>2, <2>4, <3>1, <4>2 DEF HarvestInv, FlowInv, CurPc
        <5>2. QED
          BY <1>6, <1>11, <2>1, <2>4, <4>2, <5>1
      <4>3. QED
        BY <4>1, <4>2
    <3>2. pc' \in {"loop", "drain"}
      BY <2>1
    <3>3. QED
      BY <1>3, <1>5, <3>1, <3>2 DEF FlowInv, NxtPc
  <2>8. HarvestsExact' /\ HarvestedInOrder'
    BY <1>3, <2>2, HarvestsFrame DEF HarvestInv
  <2>9. QED
    BY <2>3, <2>5, <2>6, <2>7, <2>8 DEF HarvestInv
<1>12. CASE Enqueue(Program[m + 1]) /\ m # 3 /\ Goes /\ pc' = EnqueuePc[m + 2]
  <2>1. ~broken
    BY <1>12 DEF Enqueue
  <2>2. \A s \in Slots, k \in 1..4 : s = nxt /\ k = m + 1 => Flow(s, k)'
    BY <1>1, <1>12, EnqueuePlace
  <2>3. QED
    BY <1>10, <1>12, <2>1, <2>2
<1>13. CASE Enqueue(Program[m + 1]) /\ m = 3 /\ StartReturns(TRUE)
  <2>1. ~broken
    BY <1>13 DEF Enqueue
  <2>2. \A s \in Slots : s = nxt => Flow(s, 4)'
    BY <1>1, <1>13, EnqueuePlace
  <2>3. QED
    BY <1>11, <1>13, <2>1, <2>2
<1>14. CASE StartReturns(FALSE)
  BY <1>11, <1>14
<1>15. QED
  BY <1>1, <1>12, <1>13, <1>14 DEF Enqueues

\* The hits of an epoch that is harvested, or not.
Harvested == [epoch |-> slot_a0[cur], hits |-> KeysOf(HitsRead)]

\* The step that harvests leaves everything else as it was.
LEMMA HarvestEffect ==
  ASSUME IInv, HarvestInv, Harvest
  PROVE  /\ pc = "harvest" /\ pc' = "swap" /\ ~priming /\ cur_live /\ nxt # cur
         /\ UNCHANGED <<stop, cur, nxt, cur_live, nxt_live, priming, epochs, slot_a0, h_starts,
                        h_hit_count, d_starts, d_hit_count, d_slots, winners, stream, broken,
                        total, launched>>
         /\ dropped' \in Nat /\ hit_overflow_events' \in Nat
         /\ \/ harvests' = Append(harvests, Harvested) /\ dropped' = dropped
            \/ harvests' = harvests /\ dropped' = dropped + 1
<1>1. pc = "harvest" /\ pc' = "swap"
  BY DEF Harvest
<1>2. ~priming /\ cur_live /\ nxt # cur
  BY <1>1 DEF IInv, TwoSlotsBusy, StartPc, HarvestInv, ControlInv, NxtPc
<1>3. UNCHANGED <<stop, cur, nxt, cur_live, nxt_live, priming, epochs, slot_a0, h_starts,
                  h_hit_count, d_starts, d_hit_count, d_slots, winners, stream, broken,
                  total, launched>>
  BY DEF Harvest, runOnly, hostBuffers, deviceVars
<1>4. \/ harvests' = Append(harvests, Harvested) /\ dropped' = dropped
      \/ harvests' = harvests /\ dropped' = dropped + 1
  BY DEF Harvest, Harvested
<1>5. dropped \in Nat /\ hit_overflow_events \in Nat
  BY DEF HarvestInv, DataTypeOK
<1>6. dropped' \in Nat /\ hit_overflow_events' \in Nat
  BY <1>4, <1>5 DEF Harvest
<1>7. QED
  BY <1>1, <1>2, <1>3, <1>4, <1>6

\* The hits read from a slot are those of the epoch it retains.
LEMMA HarvestedIsExact ==
  ASSUME IInv, HarvestInv, pc = "harvest", cur_live
  PROVE  /\ Harvested \in HarvestType /\ Harvested.epoch = slot_a0[cur]
         /\ Harvested.hits = KeysOf([k \in 1..Recorded(winners[slot_a0[cur]]) |->
                                      [epoch |-> slot_a0[cur], id |-> k]])
<1> USE PipelineAssumption
<1>1. /\ cur \in Slots /\ slot_a0[cur] \in 0..MaxEpochs /\ h_hit_count[cur] \in Nat
      /\ d_slots[cur] \in [1..MaxHitSlots -> Hits]
  BY DEF IInv, SlotTypeOK, HarvestInv, DataTypeOK
<1>2. Harvestable(cur)
  BY <1>1 DEF HarvestInv, FlowInv
<1>3. HitsRead = [k \in 1..Recorded(winners[slot_a0[cur]]) |->
                   [epoch |-> slot_a0[cur], id |-> k]]
  BY <1>2 DEF Harvestable, HitsInPlace, HitsRead
<1>4. HitsRead \in Seq(Hits)
  <2>1. Recorded(h_hit_count[cur]) \in 0..MaxHitSlots
    BY <1>1 DEF Recorded
  <2>2. \A i \in 1..Recorded(h_hit_count[cur]) : d_slots[cur][i] \in Hits
    BY <1>1, <2>1
  <2>3. QED
    BY <2>1, <2>2 DEF HitsRead
<1>5. QED
  BY <1>1, <1>3, <1>4 DEF Harvested, HarvestType

\* Harvesting yields what the epoch found, after all that was harvested before.
LEMMA HarvestHarvestInv ==
  ASSUME IInv, IInv', HarvestInv, Harvest
  PROVE  HarvestInv'
<1> USE PipelineAssumption
<1>1. /\ pc = "harvest" /\ pc' = "swap" /\ ~priming /\ cur_live /\ nxt # cur
      /\ UNCHANGED <<stop, cur, nxt, cur_live, nxt_live, priming, epochs, slot_a0, h_starts,
                     h_hit_count, d_starts, d_hit_count, d_slots, winners, stream, broken,
                     total, launched>>
      /\ dropped' \in Nat /\ hit_overflow_events' \in Nat
      /\ harvests' = Append(harvests, Harvested) \/ harvests' = harvests
  BY HarvestEffect
<1>2. /\ cur \in Slots /\ nxt \in Slots /\ slot_a0 \in [Slots -> Nat]
      /\ harvests \in Seq(HarvestType)
  BY DEF IInv, SlotTypeOK, HarvestInv, DataTypeOK
<1>3. /\ Harvested \in HarvestType /\ Harvested.epoch = slot_a0[cur]
      /\ Harvested.hits = KeysOf([k \in 1..Recorded(winners[slot_a0[cur]]) |->
                                   [epoch |-> slot_a0[cur], id |-> k]])
  BY <1>1, HarvestedIsExact
<1>4. /\ slot_a0[cur] \in launched
      /\ \A i \in 1..Len(harvests) : harvests[i].epoch < slot_a0[cur]
  BY <1>1 DEF HarvestInv, EpochInv, CurPc, Unharvested
<1>5. ASSUME NEW i \in 1..Len(harvests')
      PROVE  \/ i \in 1..Len(harvests) /\ harvests'[i] = harvests[i]
             \/ i \notin 1..Len(harvests) /\ harvests'[i] = Harvested
                  /\ \A j \in 1..i-1 : j \in 1..Len(harvests) /\ harvests'[j] = harvests[j]
  <2>1. CASE harvests' = harvests
    BY <2>1
  <2>2. CASE harvests' = Append(harvests, Harvested)
    <3>1. /\ Len(harvests') = Len(harvests) + 1 /\ Len(harvests) \in Nat
          /\ \A j \in 1..Len(harvests) : harvests'[j] = harvests[j]
          /\ harvests'[Len(harvests) + 1] = Harvested
      BY <1>2, <1>3, <2>2, AppendProperties
    <3>2. QED
      BY <3>1
  <2>3. QED
    BY <1>1, <2>1, <2>2
<1>6. DataTypeOK'
  <2>1. harvests' \in Seq(HarvestType)
    BY <1>1, <1>2, <1>3, AppendProperties, SMTT(30)
  <2>2. QED
    BY <1>1, <2>1 DEF HarvestInv, DataTypeOK
<1>7. ControlInv'
  BY <1>1 DEF ControlInv, StartPc
<1>8. EpochInv'
  <2>1. ASSUME NEW s \in Slots, Unharvested(slot_a0[s]), slot_a0[cur] < slot_a0[s]
        PROVE  Unharvested(slot_a0[s])'
    <3>1. slot_a0'[s] = slot_a0[s]
      BY <1>1
    <3>2. ASSUME NEW i \in 1..Len(harvests')
          PROVE  harvests'[i].epoch < slot_a0[s]
      BY <1>3, <1>5, <2>1 DEF Unharvested
    <3>3. QED
      BY <2>1, <3>1, <3>2 DEF Unharvested
  <2>2. \A s \in Slots : stream[s] # <<>> => s = nxt /\ Unharvested(slot_a0[s])
    BY <1>1 DEF IInv, TwoSlotsBusy, HarvestedIdle, HarvestInv, EpochInv
  <2>3. nxt_live \/ stream[nxt] # <<>> => slot_a0[cur] < slot_a0[nxt]
    BY <1>1 DEF HarvestInv, EpochInv
  <2>4. \A s \in Slots : stream[s] # <<>> => Unharvested(slot_a0[s])'
    BY <1>2, <2>1, <2>2, <2>3
  <2>5. ASSUME NEW s \in Slots, s = nxt, nxt_live
        PROVE  slot_a0[s] \in launched /\ Unharvested(slot_a0[s])'
    BY <1>1, <2>1, <2>3, <2>5 DEF HarvestInv, EpochInv, NxtPc
  <2>6. QED
    BY <1>1, <1>2, <2>4, <2>5 DEF HarvestInv, EpochInv, StartPc, CurPc, Unharvested
<1>9. FlowInv'
  <2>1. \A s \in Slots, m \in 0..4 : Flow(s, m)' <=> Flow(s, m)
    BY <1>1, FlowFrame DEF buffers, deviceVars
  <2>2. QED
    BY <1>1, <1>2, <2>1 DEF HarvestInv, FlowInv, CurPc, NxtPc
<1>10. HarvestsExact'
  <2>1. ASSUME NEW i \in 1..Len(harvests')
        PROVE  harvests'[i].hits =
                 KeysOf([k \in 1..Recorded(winners'[harvests'[i].epoch]) |->
                          [epoch |-> harvests'[i].epoch, id |-> k]])
    <3>1. CASE i \in 1..Len(harvests) /\ harvests'[i] = harvests[i]
      BY <1>1, <3>1 DEF HarvestInv, HarvestsExact
    <3>2. CASE harvests'[i] = Harvested
      BY <1>1, <1>3, <3>2
    <3>3. QED
      BY <1>5, <3>1, <3>2
  <2>2. QED
    BY <2>1 DEF HarvestsExact
<1>11. HarvestedInOrder'
  <2>1. ASSUME NEW i \in 1..Len(harvests')
        PROVE  /\ harvests'[i].epoch \in launched'
               /\ \A j \in 1..i-1 : harvests'[j].epoch < harvests'[i].epoch
    <3>1. CASE i \in 1..Len(harvests) /\ harvests'[i] = harvests[i]
      <4>1. \A j \in 1..i-1 : j \in 1..Len(harvests) /\ harvests'[j] = harvests[j]
        BY <1>1, <1>2, <1>3, <3>1, AppendProperties, SMTT(30)
      <4>2. QED
        BY <1>1, <3>1, <4>1 DEF HarvestInv, HarvestedInOrder
    <3>2. CASE /\ harvests'[i] = Harvested
               /\ \A j \in 1..i-1 : j \in 1..Len(harvests) /\ harvests'[j] = harvests[j]
      BY <1>1, <1>3, <1>4, <3>2
    <3>3. QED
      BY <1>5, <3>1, <3>2
  <2>2. QED
    BY <2>1 DEF HarvestedInOrder
<1>12. QED
  BY <1>6, <1>7, <1>8, <1>9, <1>10, <1>11 DEF HarvestInv

\* What running the operation whose turn it is does to a slot's buffers, n
\* operations having run before it.
Runs(s, n, op) ==
  /\ stream[s] # <<>> /\ op = Program[n + 1]
  /\ stream' = [stream EXCEPT ![s] = Tail(@)]
  /\ UNCHANGED <<stop, pc, cur, nxt, cur_live, nxt_live, priming, epochs, slot_a0, h_starts,
                 broken, total, dropped, hit_overflow_events, launched, harvests>>

\* The operation that runs is the next of the program.
LEMMA DeviceRuns ==
  ASSUME IInv, HarvestInv, NEW s \in Slots, NEW op \in Ops, Run(s, op)
  PROVE  \E m \in 0..4, n \in 0..3 : Flow(s, m) /\ n = m - Len(stream[s]) /\ Runs(s, n, op)
<1>1. /\ stream[s] \in Seq(Ops) /\ stream[s] # <<>> /\ Head(stream[s]) = op
      /\ stream' = [stream EXCEPT ![s] = Tail(@)]
  BY DEF Run, IInv, SlotTypeOK
<1>2. UNCHANGED <<stop, pc, cur, nxt, cur_live, nxt_live, priming, epochs, slot_a0, h_starts,
                  broken, total, dropped, hit_overflow_events, launched, harvests>>
  BY DEF Run, deviceOnly, loopVars, hostBuffers, hitCounts
<1>3. PICK m \in 0..4 : Flow(s, m)
  BY DEF HarvestInv, FlowInv
<1>4. PICK n : n = m - Len(stream[s])
  OBVIOUS
<1>5. Len(stream[s]) \in Nat /\ Len(stream[s]) >= 1 /\ stream[s][1] = op
  BY <1>1, HeadTailProperties
<1>6. n >= 0 /\ stream[s][1] = Program[n + 1]
  <2>1. n >= 0 /\ \A i \in 1..Len(stream[s]) : stream[s][i] = Program[n + i]
    BY <1>3, <1>4, Zenon DEF Flow
  <2>2. 1 \in 1..Len(stream[s])
    BY <1>5
  <2>3. QED
    BY <2>1, <2>2
<1>7. n \in 0..3
  BY <1>4, <1>5, <1>6
<1>8. Runs(s, n, op)
  BY <1>1, <1>2, <1>5, <1>6 DEF Runs
<1>9. QED
  BY <1>3, <1>4, <1>7, <1>8

\* After it, one more operation has run.
LEMMA TailFlow ==
  ASSUME NEW s \in Slots, stream[s] \in Seq(Ops), stream[s] # <<>>,
         stream'[s] = Tail(stream[s]),
         NEW m \in 0..4, Flow(s, m), NEW n \in 0..3, n = m - Len(stream[s])
  PROVE  /\ m - Len(stream'[s]) = n + 1 /\ m >= n + 1
         /\ \A i \in 1..Len(stream'[s]) : stream'[s][i] = Program[(n + 1) + i]
<1> DEFINE q == stream[s]
           p == stream'[s]
<1>1. /\ Len(q) \in Nat /\ Len(q) >= 1 /\ Len(p) = Len(q) - 1
      /\ \A i \in 1..Len(p) : p[i] = q[i + 1]
  BY HeadTailProperties
<1>2. \A i \in 1..Len(q) : q[i] = Program[n + i]
  BY DEF Flow
<1>3. n = m - Len(q)
  OBVIOUS
<1> HIDE DEF p, q
<1>4. \A i \in 1..Len(p) : p[i] = Program[(n + 1) + i]
  <2>1. ASSUME NEW i \in 1..Len(p)
        PROVE  p[i] = Program[(n + 1) + i]
    <3>1. i + 1 \in 1..Len(q) /\ n + (i + 1) = (n + 1) + i
      <4>1. Len(q) \in Nat /\ Len(p) = Len(q) - 1
        BY <1>1
      <4>2. QED
        BY <4>1
    <3>2. QED
      BY <1>1, <1>2, <3>1
  <2>2. QED
    BY <2>1
<1>5. m - Len(p) = n + 1 /\ m >= n + 1
  <2>1. \A a, b, c, d \in Int : b = a - 1 /\ d = c - a /\ a >= 1 => c - b = d + 1 /\ c >= d + 1
    OBVIOUS
  <2>2. m \in Int /\ n \in Int /\ Len(p) \in Int /\ Len(q) \in Int
    BY <1>1
  <2>3. QED
    BY <1>1, <1>3, <2>1, <2>2
<1>6. QED
  BY <1>4, <1>5 DEF p

\* What an operation does to the buffers of its slot, and to the count of
\* winners of the epoch the slot retains.
DeviceEffect(s, n) ==
  /\ n = 0 => /\ d_starts' = [d_starts EXCEPT ![s] = h_starts[s]]
              /\ UNCHANGED <<d_hit_count, d_slots, winners, h_hit_count>>
  /\ n = 1 => /\ d_hit_count' = [d_hit_count EXCEPT ![s] = h_hit_count[s]]
              /\ UNCHANGED <<d_starts, d_slots, winners, h_hit_count>>
  /\ n = 2 => \E w \in 0..MaxWinners :
       /\ winners' = [winners EXCEPT ![slot_a0[s]] = w]
       /\ d_hit_count' = [d_hit_count EXCEPT ![s] = w]
       /\ d_slots' = [d_slots EXCEPT ![s] = [i \in 1..MaxHitSlots |->
            IF i \in 1..w THEN [epoch |-> slot_a0[s], id |-> i] ELSE d_slots[s][i]]]
       /\ UNCHANGED <<d_starts, h_hit_count>>
  /\ n = 3 => /\ h_hit_count' = [h_hit_count EXCEPT ![s] = d_hit_count[s]]
              /\ UNCHANGED <<d_starts, d_hit_count, d_slots, winners>>

\* The device runs the operation whose turn it is.
LEMMA DeviceSteps ==
  ASSUME IInv, HarvestInv, NEW s \in Slots, Device(s)
  PROVE  \E op \in Ops, m \in 0..4, n \in 0..3 :
           /\ Flow(s, m) /\ n = m - Len(stream[s]) /\ Runs(s, n, op)
           /\ DeviceEffect(s, n)
<1>1. PICK op \in Ops :
        /\ Run(s, op)
        /\ \/ op = "upload" /\ RunUpload(s)
           \/ op = "reset" /\ RunReset(s)
           \/ op = "kernel" /\ RunKernel(s)
           \/ op = "readback" /\ RunReadback(s)
  BY DEF Device, RunUpload, RunReset, RunKernel, RunReadback, Ops
<1>2. PICK m \in 0..4, n \in 0..3 :
        Flow(s, m) /\ n = m - Len(stream[s]) /\ Runs(s, n, op)
  BY <1>1, DeviceRuns
<1>3. op = Program[n + 1]
  BY <1>2 DEF Runs
<1>4. /\ op = "upload" => n = 0
      /\ op = "reset" => n = 1
      /\ op = "kernel" => n = 2
      /\ op = "readback" => n = 3
  BY <1>3 DEF Program
<1>5. DeviceEffect(s, n)
  <2>1. CASE op = "upload" /\ RunUpload(s)
    <3>1. n = 0
      BY <1>4, <2>1
    <3>2. QED
      BY <2>1, <3>1 DEF DeviceEffect, RunUpload
  <2>2. CASE op = "reset" /\ RunReset(s)
    <3>1. n = 1
      BY <1>4, <2>2
    <3>2. QED
      BY <2>2, <3>1 DEF DeviceEffect, RunReset
  <2>3. CASE op = "kernel" /\ RunKernel(s)
    <3>1. n = 2 /\ d_starts[s] = slot_a0[s] /\ d_hit_count[s] = 0
      BY <1>2, <1>4, <2>3 DEF Flow
    <3>2. PICK w \in 0..MaxWinners :
            /\ winners' = [winners EXCEPT ![slot_a0[s]] = w]
            /\ d_hit_count' = [d_hit_count EXCEPT ![s] = 0 + w]
            /\ d_slots' = [d_slots EXCEPT ![s] = [i \in 1..MaxHitSlots |->
                 IF i \in 0+1..0+w THEN [epoch |-> slot_a0[s], id |-> i - 0]
                 ELSE d_slots[s][i]]]
            /\ UNCHANGED <<d_starts, h_hit_count>>
      BY <2>3, <3>1 DEF RunKernel
    <3>3. 0 + w = w
      BY PipelineAssumption
    <3>4. d_slots' = [d_slots EXCEPT ![s] = [i \in 1..MaxHitSlots |->
            IF i \in 1..w THEN [epoch |-> slot_a0[s], id |-> i] ELSE d_slots[s][i]]]
      BY <3>2, <3>3, PipelineAssumption
    <3>5. \E v \in 0..MaxWinners :
            /\ winners' = [winners EXCEPT ![slot_a0[s]] = v]
            /\ d_hit_count' = [d_hit_count EXCEPT ![s] = v]
            /\ d_slots' = [d_slots EXCEPT ![s] = [i \in 1..MaxHitSlots |->
                 IF i \in 1..v THEN [epoch |-> slot_a0[s], id |-> i] ELSE d_slots[s][i]]]
            /\ UNCHANGED <<d_starts, h_hit_count>>
      BY <3>2, <3>3, <3>4
    <3>6. n # 0 /\ n # 1 /\ n # 3
      BY <3>1
    <3>7. QED
      BY <3>5, <3>6, Zenon DEF DeviceEffect
  <2>4. CASE op = "readback" /\ RunReadback(s)
    <3>1. n = 3
      BY <1>4, <2>4
    <3>2. QED
      BY <2>4, <3>1 DEF DeviceEffect, RunReadback, deviceVars
  <2>5. QED
    BY <1>1, <2>1, <2>2, <2>3, <2>4
<1>6. QED
  BY <1>2, <1>5

\* A slot is in flight only under an epoch of its own.
LEMMA InFlightEpoch ==
  ASSUME IInv, HarvestInv, NEW s \in Slots, stream[s] # <<>>
  PROVE  /\ slot_a0[s] \in Epochs /\ Unharvested(slot_a0[s])
         /\ \A r \in Slots : r # s => slot_a0[r] # slot_a0[s]
<1>1. Unharvested(slot_a0[s]) /\ slot_a0[s] # NoEpoch /\ slot_a0[s] \in 0..MaxEpochs
  BY DEF HarvestInv, DataTypeOK, EpochInv, Unharvested
<1>2. slot_a0[s] \in Epochs
  BY <1>1, PipelineAssumption DEF Epochs, NoEpoch
<1>3. QED
  BY <1>1, <1>2 DEF HarvestInv, EpochInv

\* The device changes what is on record of no slot but its own, and of no
\* epoch but the one in flight there.
LEMMA DeviceFrame ==
  ASSUME IInv, HarvestInv, NEW s \in Slots, NEW n \in 0..3, NEW op \in Ops,
         Runs(s, n, op), DeviceEffect(s, n)
  PROVE  /\ \A r \in Slots : r # s =>
               /\ stream'[r] = stream[r] /\ d_starts'[r] = d_starts[r]
               /\ d_hit_count'[r] = d_hit_count[r] /\ h_hit_count'[r] = h_hit_count[r]
               /\ d_slots'[r] = d_slots[r]
         /\ \A e \in Epochs : e # slot_a0[s] => winners'[e] = winners[e]
         /\ stream'[s] = Tail(stream[s]) /\ slot_a0' = slot_a0
         /\ DataTypeOK'
<1> USE PipelineAssumption
<1>1. /\ stream \in [Slots -> Seq(Ops)] /\ d_starts \in [Slots -> 0..MaxEpochs]
      /\ d_hit_count \in [Slots -> Nat] /\ h_hit_count \in [Slots -> Nat]
      /\ d_slots \in [Slots -> [1..MaxHitSlots -> Hits]]
      /\ winners \in [Epochs -> 0..MaxWinners] /\ slot_a0 \in [Slots -> 0..MaxEpochs]
      /\ h_starts = slot_a0
  BY DEF IInv, SlotTypeOK, HarvestInv, DataTypeOK
<1>2. stream[s] # <<>> /\ slot_a0[s] \in Epochs
  BY InFlightEpoch DEF Runs
<1>3. \A r \in Slots : r # s => stream'[r] = stream[r]
  BY <1>1 DEF Runs
<1>4. stream'[s] = Tail(stream[s]) /\ slot_a0' = slot_a0
  BY <1>1 DEF Runs
<1>5. DataTypeOK' <=> /\ d_starts' \in [Slots -> 0..MaxEpochs]
                      /\ h_hit_count' \in [Slots -> Nat] /\ d_hit_count' \in [Slots -> Nat]
                      /\ d_slots' \in [Slots -> [1..MaxHitSlots -> Hits]]
                      /\ winners' \in [Epochs -> 0..MaxWinners]
  BY DEF Runs, HarvestInv, DataTypeOK
<1>6. CASE n = 0
  BY <1>1, <1>3, <1>4, <1>5, <1>6 DEF DeviceEffect
<1>7. CASE n = 1
  BY <1>1, <1>3, <1>4, <1>5, <1>7, ZenonT(30) DEF DeviceEffect
<1>8. CASE n = 2
  <2>1. PICK w \in 0..MaxWinners :
       /\ winners' = [winners EXCEPT ![slot_a0[s]] = w]
       /\ d_hit_count' = [d_hit_count EXCEPT ![s] = w]
       /\ d_slots' = [d_slots EXCEPT ![s] = [i \in 1..MaxHitSlots |->
            IF i \in 1..w THEN [epoch |-> slot_a0[s], id |-> i] ELSE d_slots[s][i]]]
       /\ UNCHANGED <<d_starts, h_hit_count>>
    BY <1>8 DEF DeviceEffect
  <2>2. w \in Nat /\ winners' \in [Epochs -> 0..MaxWinners] /\ d_hit_count' \in [Slots -> Nat]
    BY <1>1, <1>2, <2>1
  <2>3. \A i \in 1..w : [epoch |-> slot_a0[s], id |-> i] \in Hits
    BY <1>1, <2>1 DEF Hits
  <2>4. d_slots' \in [Slots -> [1..MaxHitSlots -> Hits]]
    BY <1>1, <2>1, <2>3
  <2>5. /\ \A r \in Slots : r # s => d_hit_count'[r] = d_hit_count[r] /\ d_slots'[r] = d_slots[r]
        /\ \A e \in Epochs : e # slot_a0[s] => winners'[e] = winners[e]
    BY <1>1, <1>2, <2>1
  <2>6. QED
    BY <1>1, <1>3, <1>4, <1>5, <2>1, <2>2, <2>4, <2>5
<1>9. CASE n = 3
  BY <1>1, <1>3, <1>4, <1>5, <1>9 DEF DeviceEffect
<1>10. QED
  BY <1>6, <1>7, <1>8, <1>9

\* The slot of the operation is one further in the program.
LEMMA DeviceFlow ==
  ASSUME IInv, HarvestInv, NEW s \in Slots, NEW n \in 0..3, NEW op \in Ops,
         Runs(s, n, op), DeviceEffect(s, n),
         NEW m \in 0..4, Flow(s, m), n = m - Len(stream[s])
  PROVE  Flow(s, m)'
<1> USE PipelineAssumption
<1>1. /\ m - Len(stream'[s]) = n + 1 /\ m >= n + 1
      /\ \A i \in 1..Len(stream'[s]) : stream'[s][i] = Program[(n + 1) + i]
  <2>1. stream[s] \in Seq(Ops) /\ stream[s] # <<>> /\ stream'[s] = Tail(stream[s])
    BY DEF IInv, SlotTypeOK, Runs
  <2>2. QED
    BY <2>1, TailFlow
<1>2. /\ d_starts \in [Slots -> 0..MaxEpochs] /\ slot_a0 \in [Slots -> 0..MaxEpochs]
      /\ d_hit_count \in [Slots -> Nat] /\ h_hit_count \in [Slots -> Nat]
      /\ d_slots \in [Slots -> [1..MaxHitSlots -> Hits]]
      /\ winners \in [Epochs -> 0..MaxWinners] /\ slot_a0[s] \in Epochs
      /\ slot_a0' = slot_a0 /\ h_starts = slot_a0
  BY InFlightEpoch DEF Runs, HarvestInv, DataTypeOK
<1>3. /\ m >= 2 /\ n <= 1 => h_hit_count[s] = 0
      /\ n >= 1 => d_starts[s] = slot_a0[s]
      /\ n = 2 => d_hit_count[s] = 0
      /\ n >= 3 => d_hit_count[s] = winners[slot_a0[s]] /\ HitsInPlace(s)
  BY DEF Flow
<1> SUFFICES ASSUME NEW k \in 1..4, k = n + 1
             PROVE  /\ m >= 2 /\ k = 1 => h_hit_count'[s] = 0
                    /\ d_starts'[s] = slot_a0'[s]
                    /\ k = 2 => d_hit_count'[s] = 0
                    /\ k \in {3, 4} => d_hit_count'[s] = winners'[slot_a0'[s]] /\ HitsInPlace(s)'
                    /\ k = 4 => h_hit_count'[s] = winners'[slot_a0'[s]]
  <2>1. PICK k \in 1..4 : k = n + 1
    OBVIOUS
  <2>2. m - Len(stream'[s]) = k /\ \A i \in 1..Len(stream'[s]) : stream'[s][i] = Program[k + i]
    BY <1>1, <2>1
  <2>3. /\ k >= 0 /\ k >= 1
        /\ k <= 1 <=> k = 1
        /\ k >= 3 <=> k \in {3, 4}
    OBVIOUS
  <2>4. QED
    BY <2>1, <2>2, <2>3 DEF Flow, Harvestable
<1>4. CASE n = 0
  <2>1. d_starts'[s] = slot_a0'[s] /\ h_hit_count' = h_hit_count
    BY <1>2, <1>4 DEF DeviceEffect
  <2>2. k # 2 /\ k \notin {3, 4} /\ k # 4
    BY <1>4
  <2>3. m >= 2 => h_hit_count'[s] = 0
    <3>1. n <= 1
      BY <1>4
    <3>2. QED
      BY <1>3, <2>1, <3>1
  <2>4. QED
    BY <2>1, <2>2, <2>3
<1>5. CASE n = 1
  <2>1. d_starts'[s] = slot_a0'[s] /\ d_hit_count'[s] = 0
    BY <1>1, <1>2, <1>3, <1>5, SMTT(30) DEF DeviceEffect
  <2>2. k # 1 /\ k \notin {3, 4} /\ k # 4
    BY <1>5
  <2>3. QED
    BY <2>1, <2>2
<1>6. CASE n = 2
  <2>1. PICK w \in 0..MaxWinners :
       /\ winners' = [winners EXCEPT ![slot_a0[s]] = w]
       /\ d_hit_count' = [d_hit_count EXCEPT ![s] = w]
       /\ d_slots' = [d_slots EXCEPT ![s] = [i \in 1..MaxHitSlots |->
            IF i \in 1..w THEN [epoch |-> slot_a0[s], id |-> i] ELSE d_slots[s][i]]]
       /\ UNCHANGED <<d_starts, h_hit_count>>
    BY <1>6 DEF DeviceEffect
  <2>2. /\ d_starts'[s] = slot_a0'[s] /\ winners'[slot_a0'[s]] = w
        /\ d_hit_count'[s] = winners'[slot_a0'[s]]
    BY <1>2, <1>3, <1>6, <2>1
  <2>3. \A i \in 1..Recorded(w) : i \in 1..w /\ i \in 1..MaxHitSlots
    BY <2>1 DEF Recorded
  <2>4. HitsInPlace(s)'
    <3>1. ASSUME NEW i \in 1..Recorded(w)
          PROVE  d_slots'[s][i] = [epoch |-> slot_a0'[s], id |-> i]
      BY <1>2, <2>1, <2>3
    <3>2. QED
      BY <2>2, <3>1 DEF HitsInPlace
  <2>5. k = 3
    BY <1>6
  <2>6. k >= 1 /\ ~(k <= 1) /\ k # 1 /\ k # 2 /\ k \in {3, 4} /\ k # 4
    BY <2>5
  <2>7. QED
    BY <2>2, <2>4, <2>6, Zenon
<1>7. CASE n = 3
  <2>1. /\ d_starts'[s] = slot_a0'[s] /\ h_hit_count'[s] = winners'[slot_a0'[s]]
        /\ d_hit_count'[s] = winners'[slot_a0'[s]]
    BY <1>2, <1>3, <1>7, SMTT(30) DEF DeviceEffect
  <2>2. HitsInPlace(s)'
    BY <1>2, <1>3, <1>7, SMTT(30) DEF DeviceEffect, HitsInPlace
  <2>3. k = 4
    BY <1>7
  <2>4. QED
    BY <2>1, <2>2, <2>3
<1>8. QED
  BY <1>4, <1>5, <1>6, <1>7

\* A slot with work left is in one place of the program.
LEMMA OnePlace ==
  ASSUME IInv, NEW s \in Slots, stream[s] # <<>>,
         NEW m \in 0..4, Flow(s, m), NEW j \in 0..4, Flow(s, j)
  PROVE  j = m
<1>1. Len(stream[s]) \in Nat /\ Len(stream[s]) >= 1
  BY HeadTailProperties DEF IInv, SlotTypeOK
<1>2. PICK l \in Nat : l = Len(stream[s]) /\ l >= 1
  BY <1>1
<1>3. m - l >= 0 /\ j - l >= 0
  BY <1>2 DEF Flow
<1>4. stream[s][1] = Program[(m - l) + 1] /\ stream[s][1] = Program[(j - l) + 1]
  <2>1. /\ \A i \in 1..l : stream[s][i] = Program[(m - l) + i]
        /\ \A i \in 1..l : stream[s][i] = Program[(j - l) + i]
    BY <1>2 DEF Flow
  <2>2. 1 \in 1..l
    BY <1>2
  <2>3. QED
    BY <2>1, <2>2
<1>5. m - l \in 0..3 /\ j - l \in 0..3
  BY <1>2, <1>3
<1>6. \A a, b \in 0..3 : Program[a + 1] = Program[b + 1] => a = b
  BY DEF Program
<1>7. m - l = j - l
  BY <1>4, <1>5, <1>6
<1>8. QED
  BY <1>2, <1>7

\* An operation of the device preserves the invariants of what is harvested.
LEMMA DeviceHarvestInv ==
  ASSUME IInv, HarvestInv, NEW s \in Slots, Device(s)
  PROVE  /\ HarvestInv'
         /\ \A i \in 1..Len(harvests) :
              winners'[harvests[i].epoch] = winners[harvests[i].epoch]
         /\ UNCHANGED <<stop, pc, cur_live, nxt_live, epochs, total, dropped,
                        hit_overflow_events, harvests>>
<1> USE PipelineAssumption
<1>1. PICK op \in Ops, m \in 0..4, n \in 0..3 :
        /\ Flow(s, m) /\ n = m - Len(stream[s]) /\ Runs(s, n, op)
        /\ DeviceEffect(s, n)
  BY DeviceSteps
<1>2. UNCHANGED <<stop, pc, cur, nxt, cur_live, nxt_live, priming, epochs, slot_a0, h_starts,
                  broken, total, dropped, hit_overflow_events, launched, harvests>>
  BY <1>1 DEF Runs
<1>3. /\ \A r \in Slots : r # s =>
           /\ stream'[r] = stream[r] /\ d_starts'[r] = d_starts[r]
           /\ d_hit_count'[r] = d_hit_count[r] /\ h_hit_count'[r] = h_hit_count[r]
           /\ d_slots'[r] = d_slots[r]
      /\ \A e \in Epochs : e # slot_a0[s] => winners'[e] = winners[e]
      /\ DataTypeOK'
  BY <1>1, DeviceFrame
<1>4. /\ stream[s] # <<>> /\ slot_a0[s] \in Epochs /\ Unharvested(slot_a0[s])
      /\ \A r \in Slots : r # s => slot_a0[r] # slot_a0[s]
  BY <1>1, InFlightEpoch DEF Runs
<1>5. slot_a0 \in [Slots -> 0..MaxEpochs]
  BY DEF HarvestInv, DataTypeOK
<1>6. \A i \in 1..Len(harvests) : winners'[harvests[i].epoch] = winners[harvests[i].epoch]
  <2>1. ASSUME NEW i \in 1..Len(harvests)
        PROVE  winners'[harvests[i].epoch] = winners[harvests[i].epoch]
    <3>1. harvests[i].epoch \in Epochs
      BY DEF HarvestInv, HarvestedInOrder, DataTypeOK
    <3>2. harvests[i].epoch # slot_a0[s]
      BY <1>4, <3>1 DEF Unharvested, Epochs
    <3>3. QED
      BY <1>3, <3>1, <3>2
  <2>2. QED
    BY <2>1
<1>7. HarvestsExact'
  <2>1. ASSUME NEW i \in 1..Len(harvests')
        PROVE  harvests'[i].hits =
                 KeysOf([k \in 1..Recorded(winners'[harvests'[i].epoch]) |->
                          [epoch |-> harvests'[i].epoch, id |-> k]])
    BY <1>2, <1>6 DEF HarvestInv, HarvestsExact
  <2>2. QED
    BY <2>1 DEF HarvestsExact
<1>8. HarvestedInOrder' /\ ControlInv'
  BY <1>2 DEF HarvestInv, HarvestedInOrder, ControlInv
<1>9. ASSUME NEW r \in Slots
      PROVE  stream'[r] # <<>> => stream[r] # <<>>
  BY <1>3, <1>4
<1>10. EpochInv'
  <2>1. \A e : Unharvested(e)' <=> Unharvested(e)
    BY <1>2 DEF Unharvested
  <2>2. nxt \in Slots
    BY DEF IInv, SlotTypeOK
  <2>3. QED
    BY <1>2, <1>9, <2>1, <2>2 DEF HarvestInv, EpochInv
<1>11. ASSUME NEW r \in Slots, r # s, slot_a0[r] # NoEpoch
       PROVE  /\ \A j \in 0..4 : Flow(r, j) => Flow(r, j)'
              /\ Harvestable(r) => Harvestable(r)'
  <2>1. slot_a0[r] \in Epochs /\ slot_a0[r] # slot_a0[s]
    BY <1>4, <1>5, <1>11 DEF Epochs, NoEpoch
  <2>2. winners'[slot_a0[r]] = winners[slot_a0[r]]
    BY <1>3, <2>1
  <2>3. QED
    BY <1>2, <1>3, <1>11, <2>2 DEF Flow, Harvestable, HitsInPlace
<1>12. ASSUME NEW r \in Slots, NEW j \in 0..4, slot_a0[r] # NoEpoch, Flow(r, j)
       PROVE  Flow(r, j)'
  <2>1. CASE r = s
    <3>1. j = m
      BY <1>1, <1>4, <1>12, <2>1, OnePlace
    <3>2. QED
      BY <1>1, <2>1, <3>1, DeviceFlow
  <2>2. CASE r # s
    BY <1>11, <1>12, <2>2
  <2>3. QED
    BY <2>1, <2>2
<1>13. FlowInv'
  <2>1. ASSUME NEW r \in Slots
        PROVE  \E j \in 0..4 : Flow(r, j)'
    <3>1. CASE slot_a0[r] = NoEpoch
      <4>1. stream'[r] = <<>>
        BY <1>3, <1>4, <3>1 DEF HarvestInv, EpochInv, Unharvested, Epochs, NoEpoch
      <4>2. Flow(r, 0)'
        BY <4>1 DEF Flow
      <4>3. QED
        BY <4>2
    <3>2. CASE slot_a0[r] # NoEpoch
      BY <1>12, <3>2 DEF HarvestInv, FlowInv
    <3>3. QED
      BY <3>1, <3>2
  <2>2. ASSUME NEW r \in Slots, ~broken
        PROVE  /\ r = nxt /\ pc = "reset" => Flow(r, 1)'
               /\ r = nxt /\ pc = "launch" => Flow(r, 2)'
               /\ r = nxt /\ pc = "readback" => Flow(r, 3)'
               /\ r = cur /\ cur_live /\ pc \in CurPc => Flow(r, 4)'
               /\ r = nxt /\ nxt_live /\ pc \in NxtPc => Flow(r, 4)'
    <3>1. /\ r = nxt /\ pc \in {"reset", "launch", "readback"} => slot_a0[r] # NoEpoch
          /\ r = cur /\ cur_live /\ pc \in CurPc => slot_a0[r] # NoEpoch
          /\ r = nxt /\ nxt_live /\ pc \in NxtPc => slot_a0[r] # NoEpoch
      BY DEF HarvestInv, EpochInv, Unharvested, StartPc
    <3>2. /\ r = nxt /\ pc = "reset" => Flow(r, 1)
          /\ r = nxt /\ pc = "launch" => Flow(r, 2)
          /\ r = nxt /\ pc = "readback" => Flow(r, 3)
          /\ r = cur /\ cur_live /\ pc \in CurPc => Flow(r, 4)
          /\ r = nxt /\ nxt_live /\ pc \in NxtPc => Flow(r, 4)
      BY <2>2 DEF HarvestInv, FlowInv
    <3>3. QED
      BY <1>12, <3>1, <3>2
  <2>3. ASSUME NEW r \in Slots, r = cur, pc = "harvest"
        PROVE  Harvestable(r)'
    <3>1. r # s
      BY <1>4, <2>3 DEF IInv, HarvestedIdle
    <3>2. slot_a0[r] # NoEpoch
      BY <2>3 DEF IInv, TwoSlotsBusy, StartPc, HarvestInv, ControlInv, EpochInv, CurPc,
                  Unharvested
    <3>3. Harvestable(r)
      BY <2>3 DEF HarvestInv, FlowInv
    <3>4. QED
      BY <1>11, <3>1, <3>2, <3>3
  <2>4. QED
    BY <1>2, <2>1, <2>2, <2>3 DEF FlowInv
<1>14. QED
  BY <1>2, <1>3, <1>6, <1>7, <1>8, <1>10, <1>13 DEF HarvestInv

\* A fault leaves the buffers as they are and every slot idle.
LEMMA FaultHarvestInv ==
  ASSUME IInv, HarvestInv, DeviceFault
  PROVE  HarvestInv'
<1>1. /\ stream' = [s \in Slots |-> <<>>] /\ broken' = TRUE
      /\ UNCHANGED <<stop, pc, cur, nxt, cur_live, nxt_live, priming, epochs, slot_a0,
                     h_starts, h_hit_count, d_starts, d_hit_count, d_slots, winners, total,
                     dropped, hit_overflow_events, launched, harvests>>
  BY DEF DeviceFault, loopVars, hostBuffers, deviceVars, hitCounts
<1>2. DataTypeOK'
  BY <1>1 DEF HarvestInv, DataTypeOK
<1>3. ControlInv' /\ EpochInv'
  BY <1>1 DEF IInv, SlotTypeOK, HarvestInv, ControlInv, EpochInv, Unharvested
<1>4. FlowInv'
  <2>1. ASSUME NEW s \in Slots
        PROVE  Flow(s, 0)' /\ (Harvestable(s)' <=> Harvestable(s))
    BY <1>1 DEF Flow, Harvestable, HitsInPlace
  <2>2. QED
    BY <1>1, <2>1 DEF HarvestInv, FlowInv
<1>5. HarvestsExact' /\ HarvestedInOrder'
  BY <1>1, HarvestsFrame DEF HarvestInv
<1>6. QED
  BY <1>2, <1>3, <1>4, <1>5 DEF HarvestInv

\* The steps that touch neither the slots nor the host thread.
LEMMA OtherHarvestInv ==
  ASSUME HarvestInv, RequestStop \/ Returned \/ UNCHANGED vars
  PROVE  HarvestInv'
<1>1. /\ stop' \in BOOLEAN
      /\ UNCHANGED <<pc, cur, nxt, cur_live, nxt_live, priming, epochs, slot_a0,
                     h_starts, h_hit_count, d_starts, d_hit_count, d_slots, winners, stream,
                     broken, total, dropped, hit_overflow_events, launched, harvests>>
  BY DEF RequestStop, Returned, vars, loopVars, hostBuffers, deviceVars, hitCounts,
         HarvestInv, DataTypeOK
<1>2. DataTypeOK'
  BY <1>1 DEF HarvestInv, DataTypeOK
<1>3. ControlInv' /\ EpochInv'
  BY <1>1 DEF HarvestInv, ControlInv, EpochInv, Unharvested
<1>4. FlowInv'
  <2>1. ASSUME NEW s \in Slots
        PROVE  /\ \A m \in 0..4 : Flow(s, m)' <=> Flow(s, m)
               /\ Harvestable(s)' <=> Harvestable(s)
    BY <1>1, FlowFrame DEF buffers, deviceVars
  <2>2. QED
    BY <1>1, <2>1 DEF HarvestInv, FlowInv
<1>5. HarvestsExact' /\ HarvestedInOrder'
  BY <1>1, HarvestsFrame DEF HarvestInv
<1>6. QED
  BY <1>2, <1>3, <1>4, <1>5 DEF HarvestInv

\* The invariants of what is harvested hold in every reachable state.
THEOREM HarvestInvariance ==
  ASSUME Depth > 1
  PROVE  Spec => [](IInv /\ HarvestInv)
<1>1. IInv /\ HarvestInv /\ [Next]_vars => (IInv /\ HarvestInv)'
  <2> SUFFICES ASSUME IInv, HarvestInv, [Next]_vars
               PROVE  (IInv /\ HarvestInv)'
    OBVIOUS
  <2>1. IInv'
    BY HostIInv, DeviceIInv, FaultIInv, OtherIInv DEF Next
  <2>2. Host => HarvestInv'
    BY <2>1, LoopHarvestInv, SetupHarvestInv, EnqueueHarvestInv, HarvestHarvestInv DEF Host
  <2>3. QED
    BY <2>1, <2>2, DeviceHarvestInv, FaultHarvestInv, OtherHarvestInv DEF Next
<1>2. QED
  BY InitIInv, InitHarvestInv, <1>1, PTL DEF Spec

\* Whatever the number of slots, winners and epochs, and wherever an error, a
\* fault or a stop falls, a drained epoch yields exactly its own recorded
\* hits, with the base scalar they were found under: the ping-pong between the
\* slots never mixes two epochs.
THEOREM HarvestsAlwaysExact ==
  ASSUME Depth > 1
  PROVE  Spec => []HarvestsExact
<1>1. HarvestInv => HarvestsExact
  BY DEF HarvestInv
<1>2. QED
  BY HarvestInvariance, <1>1, PTL

\* Epochs are harvested in the order they were launched, each at most once,
\* and none that was not launched.
THEOREM HarvestedAlwaysInOrder ==
  ASSUME Depth > 1
  PROVE  Spec => []HarvestedInOrder
<1>1. HarvestInv => HarvestedInOrder
  BY DEF HarvestInv
<1>2. QED
  BY HarvestInvariance, <1>1, PTL

-----------------------------------------------------------------------------

\* Numbers, for the sums of the ledger.
LEMMA LedgerTypes ==
  ASSUME IInv, HarvestInv
  PROVE  /\ epochs \in Nat /\ dropped \in Nat /\ total \in Nat /\ Len(harvests) \in Nat
         /\ priming \in BOOLEAN /\ cur_live \in BOOLEAN /\ nxt_live \in BOOLEAN
         /\ stop \in BOOLEAN
<1>1. epochs \in Nat /\ dropped \in Nat /\ total \in Nat /\ Len(harvests) \in Nat
  BY DEF HarvestInv, DataTypeOK
<1>2. /\ priming \in BOOLEAN /\ cur_live \in BOOLEAN /\ nxt_live \in BOOLEAN
      /\ stop \in BOOLEAN
  BY DEF IInv, SlotTypeOK, HarvestInv, DataTypeOK
<1>3. QED
  BY <1>1, <1>2

\* Starting an epoch, or failing to, moves it from the open ones to the live
\* or to the dropped.
LEMMA StartLedgerInv ==
  ASSUME IInv, HarvestInv, LedgerInv,
         SkipStart \/ DrawEpoch \/ Setup \/ Upload \/ Reset \/ Launch \/ Readback
  PROVE  LedgerInv'
<1>1. /\ epochs \in Nat /\ dropped \in Nat /\ total \in Nat /\ Len(harvests) \in Nat
      /\ priming \in BOOLEAN /\ cur_live \in BOOLEAN /\ nxt_live \in BOOLEAN
      /\ stop \in BOOLEAN
  BY LedgerTypes
<1>2. /\ pc \in StartPc /\ UNCHANGED <<stop, total, harvests>>
      /\ priming => ~cur_live
      /\ ~priming => cur_live
  <2>1. pc \in StartPc /\ UNCHANGED <<stop, total, harvests>>
    BY DEF SkipStart, DrawEpoch, Setup, Upload, Reset, Launch, Readback, startOnly, StartPc
  <2>2. QED
    BY <2>1 DEF HarvestInv, ControlInv
<1>3. /\ epochs = Len(harvests) + dropped + Open
      /\ total <= Len(harvests) + dropped
  BY <1>1, <1>2 DEF LedgerInv, StartPc, NxtPc
<1>4. Open = (IF pc = "start" THEN 0 ELSE 1) + (IF priming THEN 0 ELSE 1)
  BY <1>2 DEF Open, StartPc, CurPc, NxtPc
<1>5. ASSUME NEW up \in BOOLEAN, StartReturns(up), epochs' = epochs,
             pc = "start" => stop /\ ~up
      PROVE  LedgerInv'
  <2>1. /\ pc' = IF priming THEN "loop" ELSE "drain"
        /\ cur_live' = IF priming THEN up ELSE cur_live
        /\ nxt_live' = IF priming THEN nxt_live ELSE up
        /\ dropped' = IF up \/ stop THEN dropped ELSE dropped + 1
    BY <1>5 DEF StartReturns
  <2>2. Open' = (IF up THEN 1 ELSE 0) + (IF priming THEN 0 ELSE 1)
    BY <1>1, <1>2, <2>1 DEF Open, StartPc, CurPc, NxtPc
  <2>3. \/ epochs = Len(harvests) + dropped' + Open'
        \/ epochs = Len(harvests) + dropped' + Open' + 1 /\ stop /\ ~up
    <3>1. CASE pc = "start"
      BY <1>1, <1>3, <1>4, <1>5, <2>1, <2>2, <3>1
    <3>2. CASE pc # "start"
      <4> DEFINE live == IF priming THEN 0 ELSE 1
      <4>1. live \in Nat /\ epochs = Len(harvests) + dropped + (1 + live)
        BY <1>3, <1>4, <3>2
      <4>2. up => dropped' = dropped /\ Open' = 1 + live
        BY <2>1, <2>2
      <4>3. ~up /\ stop => dropped' = dropped /\ Open' = 0 + live
        BY <2>1, <2>2
      <4>4. ~up /\ ~stop => dropped' = dropped + 1 /\ Open' = 0 + live
        BY <2>1, <2>2
      <4> HIDE DEF live
      <4>5. QED
        BY <1>1, <4>1, <4>2, <4>3, <4>4
    <3>3. QED
      BY <3>1, <3>2
  <2>4. ~up => (pc' \in NxtPc /\ ~nxt_live') \/ (pc' = "loop" /\ ~cur_live')
    BY <1>1, <2>1 DEF NxtPc
  <2>5. total' + (IF pc' = "swap" THEN 1 ELSE 0) <= Len(harvests) + dropped'
    BY <1>1, <1>2, <1>3, <2>1
  <2>6. QED
    BY <1>2, <1>5, <2>3, <2>4, <2>5 DEF LedgerInv
<1>6. ASSUME pc' \in StartPc \ {"start"}, UNCHANGED <<cur_live, nxt_live, dropped>>,
             \/ pc = "start" /\ epochs' = epochs + 1
             \/ pc # "start" /\ epochs' = epochs
      PROVE  LedgerInv'
  <2>1. Open' = 1 + (IF priming THEN 0 ELSE 1)
    BY <1>2, <1>6 DEF Open, StartPc, CurPc, NxtPc
  <2>2. QED
    BY <1>1, <1>2, <1>3, <1>4, <1>6, <2>1 DEF LedgerInv, StartPc
<1>7. CASE SkipStart
  BY <1>5, <1>7 DEF SkipStart
<1>8. CASE DrawEpoch
  BY <1>6, <1>8 DEF DrawEpoch, StartPc
<1>9. CASE Setup
  BY <1>6, <1>9 DEF Setup, StartPc
<1>10. CASE Upload \/ Reset \/ Launch \/ Readback
  <2>1. PICK m \in 0..3 : Enqueues(m)
    BY <1>10, EnqueueSteps
  <2>2. pc # "start" /\ epochs' = epochs
    BY <2>1 DEF Enqueues, EnqueuePc
  <2>3. CASE m # 3 /\ Goes /\ pc' = EnqueuePc[m + 2]
    BY <1>6, <2>2, <2>3 DEF Goes, EnqueuePc, StartPc
  <2>4. QED
    BY <1>5, <2>1, <2>2, <2>3 DEF Enqueues
<1>11. QED
  BY <1>7, <1>8, <1>9, <1>10

\* The loop closes an epoch by harvesting or dropping it, or leaves the one a
\* stop discards.
LEMMA RunLedgerInv ==
  ASSUME IInv, HarvestInv, LedgerInv, Loop \/ Sync \/ Harvest \/ Swap \/ Finish
  PROVE  LedgerInv'
<1>1. /\ epochs \in Nat /\ dropped \in Nat /\ total \in Nat /\ Len(harvests) \in Nat
      /\ priming \in BOOLEAN /\ cur_live \in BOOLEAN /\ nxt_live \in BOOLEAN
      /\ stop \in BOOLEAN
  BY LedgerTypes
<1>2. UNCHANGED <<stop, epochs>>
  BY DEF Loop, Sync, Harvest, Swap, Finish, runOnly
<1>3. CASE Loop
  <2>1. /\ pc = "loop" /\ UNCHANGED <<cur_live, nxt_live, total, dropped, harvests>>
        /\ \/ cur_live /\ ~stop /\ pc' = "start"
           \/ (~cur_live \/ stop) /\ pc' = "final"
    BY <1>1, <1>3 DEF Loop
  <2>2. Open = IF cur_live THEN 1 ELSE 0
    BY <2>1 DEF Open, StartPc, CurPc, NxtPc
  <2>3. Open' = IF pc' = "start" THEN 1 ELSE 0
    BY <2>1 DEF Open, StartPc, CurPc, NxtPc
  <2>4. QED
    BY <1>1, <1>2, <2>1, <2>2, <2>3 DEF LedgerInv, NxtPc
<1>4. CASE Sync \/ Harvest
  <2>1. /\ pc \in {"drain", "harvest"} /\ UNCHANGED <<cur_live, nxt_live, total>> /\ cur_live
        /\ \/ pc' = "harvest" /\ UNCHANGED <<dropped, harvests>>
           \/ pc' = "swap" /\ dropped' = dropped + 1 /\ harvests' = harvests
           \/ pc' = "swap" /\ dropped' = dropped /\ Len(harvests') = Len(harvests) + 1
    <3>1. CASE Sync
      BY <3>1 DEF Sync, IInv, TwoSlotsBusy, StartPc, HarvestInv, ControlInv
    <3>2. CASE Harvest
      <4>1. harvests \in Seq(HarvestType) /\ Harvested \in HarvestType
        BY <3>2, HarvestEffect, HarvestedIsExact DEF HarvestInv, DataTypeOK
      <4>2. QED
        BY <3>2, <4>1, HarvestEffect, AppendProperties
    <3>3. QED
      BY <1>4, <3>1, <3>2
  <2>2. Open = 1 + (IF nxt_live THEN 1 ELSE 0)
    BY <2>1 DEF Open, StartPc, CurPc, NxtPc
  <2>3. Open' = (IF pc' = "harvest" THEN 1 ELSE 0) + (IF nxt_live THEN 1 ELSE 0)
    BY <2>1 DEF Open, StartPc, CurPc, NxtPc
  <2>4. pc \in NxtPc /\ pc' \in NxtPc /\ pc \notin {"swap", "loop", "final", "returned"}
    BY <2>1 DEF NxtPc
  <2>5. /\ \/ epochs = Len(harvests) + dropped + Open
           \/ epochs = Len(harvests) + dropped + Open + 1 /\ stop /\ ~nxt_live
        /\ total <= Len(harvests) + dropped
    BY <1>1, <2>4 DEF LedgerInv
  <2>6. CASE pc' = "harvest" /\ UNCHANGED <<dropped, harvests>>
    <3>1. Open' = Open
      BY <2>2, <2>3, <2>6
    <3>2. QED
      BY <1>1, <1>2, <2>1, <2>4, <2>5, <2>6, <3>1 DEF LedgerInv
  <2>7. CASE pc' = "swap" /\ Len(harvests') + dropped' = Len(harvests) + dropped + 1
    <3>1. Open' = (IF nxt_live THEN 1 ELSE 0) /\ Open = Open' + 1 /\ Open' \in Nat
      BY <2>2, <2>3, <2>7
    <3>2. \/ epochs = Len(harvests') + dropped' + Open'
          \/ epochs = Len(harvests') + dropped' + Open' + 1 /\ stop /\ ~nxt_live
      BY <1>1, <2>5, <2>7, <3>1
    <3>3. total + 1 <= Len(harvests') + dropped'
      BY <1>1, <2>5, <2>7
    <3>4. QED
      BY <1>2, <2>1, <2>4, <2>7, <3>2, <3>3 DEF LedgerInv
  <2>8. QED
    BY <1>1, <2>1, <2>6, <2>7
<1>5. CASE Swap
  <2>1. /\ pc = "swap" /\ pc' = "loop" /\ total' = total + 1 /\ cur_live' = nxt_live
        /\ UNCHANGED <<nxt_live, dropped, harvests>>
    BY <1>5 DEF Swap
  <2>2. Open = (IF nxt_live THEN 1 ELSE 0) /\ Open' = (IF nxt_live THEN 1 ELSE 0)
    BY <2>1 DEF Open, StartPc, CurPc, NxtPc
  <2>3. QED
    BY <1>1, <1>2, <2>1, <2>2 DEF LedgerInv, NxtPc
<1>6. CASE Finish
  <2>1. /\ pc = "final" /\ pc' = "returned"
        /\ UNCHANGED <<cur_live, nxt_live, total, dropped, harvests>>
    BY <1>6 DEF Finish
  <2>2. Open = 0 /\ Open' = 0
    BY <2>1 DEF Open, StartPc, CurPc, NxtPc
  <2>3. QED
    BY <1>1, <1>2, <2>1, <2>2 DEF LedgerInv, NxtPc
<1>7. QED
  BY <1>3, <1>4, <1>5, <1>6

\* The other steps neither open nor close an epoch.
LEMMA OtherLedgerInv ==
  ASSUME HarvestInv, LedgerInv, stop => stop', stop' \in BOOLEAN,
         UNCHANGED <<pc, cur_live, nxt_live, epochs, total, dropped, harvests>>
  PROVE  LedgerInv'
<1>1. Open' = Open
  BY DEF Open
<1>2. QED
  BY <1>1 DEF LedgerInv

\* The overflows can be counted.
LEMMA OverflowingFinite ==
  ASSUME HarvestInv
  PROVE  IsFiniteSet(Overflowing) /\ Cardinality(Overflowing) \in Nat
<1>1. Len(harvests) \in Nat
  BY DEF HarvestInv, DataTypeOK
<1>2. IsFiniteSet(1..Len(harvests))
  BY <1>1, FS_Interval
<1>3. Overflowing \subseteq 1..Len(harvests)
  BY DEF Overflowing
<1>4. QED
  BY <1>2, <1>3, FS_Subset, FS_CardinalityType

\* A harvest adds one to the overflows if its epoch had more winners than
\* slots.
LEMMA HarvestOverflows ==
  ASSUME HarvestInv, winners' = winners, harvests' = Append(harvests, Harvested),
         Harvested \in HarvestType
  PROVE  /\ IsFiniteSet(Overflowing) /\ Cardinality(Overflowing) \in Nat
         /\ Cardinality(Overflowing') =
              Cardinality(Overflowing)
                + (IF winners[Harvested.epoch] > MaxHitSlots THEN 1 ELSE 0)
<1> DEFINE l == Len(harvests)
<1>1. /\ harvests \in Seq(HarvestType) /\ l \in Nat
      /\ Len(harvests') = l + 1 /\ harvests'[l + 1] = Harvested
      /\ \A i \in 1..l : harvests'[i] = harvests[i]
  BY AppendProperties DEF HarvestInv, DataTypeOK
<1>2. IsFiniteSet(Overflowing) /\ Cardinality(Overflowing) \in Nat
  BY OverflowingFinite
<1>3. CASE winners[Harvested.epoch] > MaxHitSlots
  <2>1. Overflowing' = Overflowing \cup {l + 1} /\ l + 1 \notin Overflowing
    BY <1>1, <1>3 DEF Overflowing
  <2>2. QED
    BY <1>2, <1>3, <2>1, FS_AddElement
<1>4. CASE ~(winners[Harvested.epoch] > MaxHitSlots)
  <2>1. Overflowing' = Overflowing
    BY <1>1, <1>4 DEF Overflowing
  <2>2. QED
    BY <1>2, <1>4, <2>1
<1>5. QED
  BY <1>2, <1>3, <1>4

\* The count of overflows follows the harvests, but for the epochs whose hits
\* could not be copied.
LEMMA HarvestOverflowInv ==
  ASSUME IInv, HarvestInv, OverflowInv, Harvest
  PROVE  OverflowInv'
<1> USE PipelineAssumption
<1>1. /\ winners' = winners /\ pc = "harvest" /\ cur_live
      /\ \/ harvests' = Append(harvests, Harvested) /\ dropped' = dropped
         \/ harvests' = harvests /\ dropped' = dropped + 1
  BY HarvestEffect
<1>2. /\ Harvested \in HarvestType /\ Harvested.epoch = slot_a0[cur]
      /\ cur \in Slots /\ h_hit_count[cur] \in Nat
      /\ h_hit_count[cur] = winners[slot_a0[cur]]
  BY <1>1, HarvestedIsExact DEF IInv, SlotTypeOK, HarvestInv, DataTypeOK, FlowInv, Harvestable
<1>3. hit_overflow_events' =
        hit_overflow_events + (IF winners[Harvested.epoch] > MaxHitSlots THEN 1 ELSE 0)
  BY <1>2 DEF Harvest, HarvestInv, DataTypeOK
<1>4. hit_overflow_events \in Nat /\ dropped \in Nat
  BY DEF HarvestInv, DataTypeOK
<1>5. CASE harvests' = Append(harvests, Harvested) /\ dropped' = dropped
  BY <1>1, <1>2, <1>3, <1>4, <1>5, HarvestOverflows DEF OverflowInv
<1>6. CASE harvests' = harvests /\ dropped' = dropped + 1
  <2>1. Overflowing' = Overflowing /\ Cardinality(Overflowing) \in Nat
    BY <1>1, <1>6, OverflowingFinite DEF Overflowing
  <2>2. QED
    BY <1>3, <1>4, <1>6, <2>1 DEF OverflowInv
<1>7. QED
  BY <1>1, <1>5, <1>6

\* Steps that harvest nothing.
LEMMA OtherOverflowInv ==
  ASSUME HarvestInv, OverflowInv, dropped' \in {dropped, dropped + 1},
         \A i \in 1..Len(harvests) : winners'[harvests[i].epoch] = winners[harvests[i].epoch],
         UNCHANGED <<harvests, hit_overflow_events>>
  PROVE  OverflowInv'
<1>1. Overflowing' = Overflowing
  BY DEF Overflowing
<1>2. Cardinality(Overflowing) \in Nat
  BY OverflowingFinite
<1>3. hit_overflow_events \in Nat /\ dropped \in Nat
  BY DEF HarvestInv, DataTypeOK
<1>4. QED
  BY <1>1, <1>2, <1>3 DEF OverflowInv

\* The ledger is kept by every step.
LEMMA LossStep ==
  ASSUME IInv, HarvestInv, LedgerInv, OverflowInv, [Next]_vars
  PROVE  LedgerInv' /\ OverflowInv'
<1>1. CASE Host
  <2>1. LedgerInv'
    BY <1>1, StartLedgerInv, RunLedgerInv DEF Host
  <2>2. CASE Harvest
    BY <2>1, <2>2, HarvestOverflowInv
  <2>3. CASE Host /\ ~Harvest
    <3>1. /\ UNCHANGED <<harvests, hit_overflow_events, winners>>
          /\ dropped' \in {dropped, dropped + 1}
      <4>1. CASE SkipStart \/ DrawEpoch \/ Setup
        BY <4>1 DEF SkipStart, DrawEpoch, Setup, StartReturns, startOnly, deviceVars,
                    hitCounts
      <4>2. CASE Upload \/ Reset \/ Launch \/ Readback
        <5>1. PICK m \in 0..3 : Enqueues(m)
          BY <4>2, EnqueueSteps
        <5>2. QED
          BY <5>1 DEF Enqueues, Goes, StartReturns
      <4>3. CASE Loop \/ Sync \/ Swap \/ Finish
        BY <4>3 DEF Loop, Sync, Swap, Finish, runOnly, deviceVars, hitCounts
      <4>4. QED
        BY <2>3, <4>1, <4>2, <4>3 DEF Host
    <3>2. QED
      BY <2>1, <3>1, OtherOverflowInv
  <2>4. QED
    BY <1>1, <2>2, <2>3
<1>2. CASE \E s \in Slots : Device(s)
  <2>1. PICK s \in Slots : Device(s)
    BY <1>2
  <2>2. /\ \A i \in 1..Len(harvests) :
             winners'[harvests[i].epoch] = winners[harvests[i].epoch]
        /\ UNCHANGED <<stop, pc, cur_live, nxt_live, epochs, total, dropped,
                       hit_overflow_events, harvests>>
        /\ stop \in BOOLEAN
    BY <2>1, DeviceHarvestInv DEF HarvestInv, DataTypeOK
  <2>3. QED
    BY <2>2, OtherLedgerInv, OtherOverflowInv
<1>3. CASE DeviceFault \/ RequestStop \/ Returned \/ UNCHANGED vars
  <2>1. /\ UNCHANGED <<pc, cur_live, nxt_live, epochs, total, dropped,
                       hit_overflow_events, harvests, winners>>
        /\ stop' \in BOOLEAN /\ (stop => stop')
    BY <1>3 DEF DeviceFault, RequestStop, Returned, vars, loopVars, deviceVars, hitCounts,
                HarvestInv, DataTypeOK
  <2>2. QED
    BY <2>1, OtherLedgerInv, OtherOverflowInv
<1>4. QED
  BY <1>1, <1>2, <1>3 DEF Next

\* The ledger of the epochs is right in every reachable state.
THEOREM LossInvariance ==
  ASSUME Depth > 1
  PROVE  Spec => [](IInv /\ HarvestInv /\ LedgerInv /\ OverflowInv)
<1>1. Init => LedgerInv /\ OverflowInv
  BY InitHarvestInv
<1>2. (IInv /\ HarvestInv) /\ (LedgerInv /\ OverflowInv) /\ [Next]_vars
        => (LedgerInv /\ OverflowInv)'
  BY LossStep
<1>3. QED
  BY HarvestInvariance, <1>1, <1>2, PTL DEF Spec

\* When run() returns no epoch is open, so that the ledger shows what became
\* of each.
LEMMA LossFree ==
  IInv /\ HarvestInv /\ LedgerInv /\ OverflowInv => NoSilentLoss
<1> SUFFICES ASSUME IInv, HarvestInv, LedgerInv, OverflowInv
             PROVE  NoSilentLoss
  OBVIOUS
<1>1. /\ epochs \in Nat /\ dropped \in Nat /\ total \in Nat /\ Len(harvests) \in Nat
  BY LedgerTypes
<1>2. pc = "returned" => Open = 0
  BY DEF Open, StartPc, CurPc, NxtPc
<1>3. ASSUME pc = "returned"
      PROVE  \/ epochs - Len(harvests) - dropped = 0
             \/ epochs - Len(harvests) - dropped = 1 /\ stop
  BY <1>1, <1>2, <1>3 DEF LedgerInv
<1>4. total <= Len(harvests) + dropped
  BY <1>1 DEF LedgerInv
<1>5. QED
  BY <1>3, <1>4 DEF NoSilentLoss, OverflowInv, Overflowing

\* Nothing is lost uncounted, whatever goes wrong: when run() returns every
\* epoch drawn was harvested or dropped but for one a stop discards, the total
\* never claims more, and every overflow of the hit slots was counted.
THEOREM NothingLostSilently ==
  ASSUME Depth > 1
  PROVE  Spec => []NoSilentLoss
BY LossInvariance, LossFree, PTL

-----------------------------------------------------------------------------
(* Types *)

\* A set of natural numbers that is not empty has a least element.
LEMMA LeastElement ==
  ASSUME NEW T \in SUBSET Nat, T # {}
  PROVE  \E p \in T : \A q \in T : p <= q
<1> DEFINE R == OpToRel(<, Nat)
<1>1. IsWellFoundedOn(R, Nat)
  BY NatLessThanWellFounded, Zenon
<1>2. \A m, n \in Nat : m < n => <<m, n>> \in R
  <2>1. ASSUME NEW m \in Nat, NEW n \in Nat, m < n
        PROVE  <<m, n>> \in R
    BY <2>1, Zenon DEF OpToRel
  <2>2. QED
    BY <2>1, Zenon
<1> HIDE DEF R
<1>3. PICK p \in T : \A q \in T : ~(<<q, p>> \in R)
  BY <1>1, WFMin
<1>4. ASSUME NEW q \in T, q < p
      PROVE  FALSE
  BY <1>2, <1>3, <1>4
<1>5. QED
  BY <1>4


\* The keys of a sequence of hits are a sequence of hits.
LEMMA KeysOfHits ==
  ASSUME NEW seq \in Seq(Hits)
  PROVE  KeysOf(seq) \in Seq(Hits)
<1> DEFINE N == Len(seq)
           Go(k, n) == IF n = 0 THEN <<>>
                       ELSE IF IsKey(seq[n]) THEN Append(k[n - 1], seq[n]) ELSE k[n - 1]
           Upto(k, m) == k = [n \in 0..m |-> Go(k, n)]
           Good(m) == \E k \in [0..m -> Seq(Hits)] : Upto(k, m)
           T == {m \in 0..N : ~Good(m)}
<1>1. N \in Nat
  OBVIOUS
<1>2. T = {}
  <2> SUFFICES ASSUME T # {} PROVE FALSE
    OBVIOUS
  <2>1. PICK m \in T : \A l \in T : m <= l
    <3>1. T \in SUBSET Nat
      BY <1>1
    <3>2. QED
      BY <3>1, LeastElement, Zenon
  <2>2. m # 0
    <3> DEFINE k == [n \in 0..0 |-> <<>>]
    <3>1. k \in [0..0 -> Seq(Hits)] /\ Upto(k, 0)
      OBVIOUS
    <3>2. Good(0)
      BY <3>1, Zenon
    <3>3. QED
      BY <2>1, <3>2
  <2>3. m \in 1..N /\ m - 1 \in 0..N /\ m - 1 \notin T
    <3> HIDE DEF Good
    <3>1. m \in 0..N
      BY <2>1
    <3>2. m - 1 \notin T
      <4> HIDE DEF T
      <4>1. QED
        BY <1>1, <2>1, <3>1
    <3>3. QED
      BY <1>1, <2>2, <3>1, <3>2
  <2>4. PICK f : f \in [0..m-1 -> Seq(Hits)] /\ Upto(f, m - 1)
    <3>1. Good(m - 1)
      <4> HIDE DEF Good
      <4>1. QED
        BY <2>3
    <3>2. QED
      BY <3>1, Zenon
  <2>5. \A n \in 0..m-1 : f[n] = Go(f, n)
    <3> HIDE DEF Go
    <3>1. QED
      BY <2>4
  <2>6. f \in [0..m-1 -> Seq(Hits)]
    BY <2>4
  <2> DEFINE last == IF IsKey(seq[m]) THEN Append(f[m - 1], seq[m]) ELSE f[m - 1]
             g == [n \in 0..m |-> IF n = m THEN last ELSE f[n]]
  <2>7. last \in Seq(Hits)
    <3>1. f[m - 1] \in Seq(Hits) /\ seq[m] \in Hits
      BY <2>3, <2>6
    <3>2. QED
      BY <3>1
  <2>8. g \in [0..m -> Seq(Hits)]
    <3> HIDE DEF last
    <3>1. QED
      BY <2>3, <2>6, <2>7
  <2>9. ASSUME NEW n \in 0..m
        PROVE  g[n] = Go(g, n)
    <3>1. CASE n = m
      BY <2>3, <3>1
    <3>2. CASE n # m
      <4> HIDE DEF last
      <4>1. n \in 0..m-1 /\ g[n] = f[n] /\ (n # 0 => g[n - 1] = f[n - 1])
        BY <2>3, <3>2
      <4>2. f[n] = Go(f, n)
        BY <2>5, <4>1
      <4> HIDE DEF g
      <4>3. Go(f, n) = Go(g, n)
        BY <4>1
      <4>4. QED
        BY <4>1, <4>2, <4>3, Zenon
    <3>3. QED
      BY <3>1, <3>2
  <2>10. Upto(g, m)
    <3> HIDE DEF Go
    <3>1. QED
      BY <2>9
  <2>11. Good(m)
    BY <2>8, <2>10, Zenon
  <2>12. QED
    BY <2>1, <2>11
<1>3. PICK f : f \in [0..N -> Seq(Hits)] /\ Upto(f, N)
  <2> HIDE DEF Upto
  <2>1. N \in 0..N /\ N \notin T
    BY <1>1, <1>2
  <2>2. QED
    BY <2>1
<1> DEFINE keys == CHOOSE k : Upto(k, N)
<1>4. Upto(keys, N)
  <2> HIDE DEF Upto
  <2>1. QED
    BY <1>3, Zenon
<1>5. KeysOf(seq) = keys[N]
  BY Zenon DEF KeysOf
<1> HIDE DEF keys
<1>6. \A n \in 0..N : keys[n] = Go(keys, n) /\ f[n] = Go(f, n)
  <2> HIDE DEF Go
  <2>1. QED
    BY <1>3, <1>4
<1> DEFINE D == {n \in 0..N : ~(keys[n] = f[n])}
<1>7. D = {}
  <2> SUFFICES ASSUME D # {} PROVE FALSE
    OBVIOUS
  <2>1. PICK n \in D : \A l \in D : n <= l
    <3>1. D \in SUBSET Nat
      BY <1>1
    <3>2. QED
      BY <3>1, LeastElement, Zenon
  <2>2. keys[n] = Go(keys, n) /\ f[n] = Go(f, n)
    <3> HIDE DEF Go
    <3>1. QED
      BY <1>6, <2>1
  <2>3. n # 0 => keys[n - 1] = f[n - 1]
    BY <1>1, <2>1
  <2>4. Go(keys, n) = Go(f, n)
    BY <2>3
  <2>5. keys[n] = f[n]
    <3> HIDE DEF Go
    <3>1. QED
      BY <2>2, <2>4
  <2>6. QED
    BY <2>1, <2>5
<1>8. N \in 0..N /\ f[N] \in Seq(Hits)
  BY <1>1, <1>3
<1>9. keys[N] = f[N]
  BY <1>7, <1>8
<1>10. QED
  BY <1>5, <1>8, <1>9

\* What a harvest counts is a number, and an error is remembered or is not.
CountInv == dropped_degenerate \in Nat /\ last_error \in BOOLEAN

\* With the invariants these are the types.
LEMMA TypesHold ==
  ASSUME IInv, HarvestInv, CountInv
  PROVE  TypeOK
<1>1. ASSUME NEW i \in 1..Len(harvests)
      PROVE  harvests[i].epoch \in 0..MaxEpochs /\ harvests[i].hits \in Seq(Hits)
  <2>1. harvests[i] \in HarvestType
    BY DEF HarvestInv, DataTypeOK
  <2>2. PICK seq \in Seq(Hits) : harvests[i].hits = KeysOf(seq)
    BY <2>1 DEF HarvestType
  <2>3. QED
    BY <2>1, <2>2, KeysOfHits DEF HarvestType
<1>2. QED
  BY <1>1 DEF TypeOK, IInv, SlotTypeOK, HarvestInv, DataTypeOK, CountInv

LEMMA InitCountInv == Init => CountInv
<1> SUFFICES ASSUME Init PROVE CountInv
  OBVIOUS
<1>1. dropped_degenerate = 0 /\ last_error = FALSE
  BY DEF Init
<1>2. QED
  BY <1>1 DEF CountInv

\* Every step leaves a count and a flag.
LEMMA StepCountInv ==
  ASSUME IInv, HarvestInv, CountInv, [Next]_vars
  PROVE  CountInv'
<1> USE DEF CountInv
<1>1. CASE SkipStart \/ DrawEpoch \/ Setup \/ Loop \/ Sync \/ Swap \/ Finish
  BY <1>1 DEF SkipStart, DrawEpoch, Setup, Loop, Sync, Swap, Finish, startOnly, hitCounts
<1>2. CASE Upload \/ Reset \/ Readback
  BY <1>2 DEF Upload, Reset, Readback, EnqueueThen, startOnly, hitCounts
<1>3. CASE Launch
  BY <1>3 DEF Launch, startOnly, hitCounts
<1>4. CASE Harvest
  <2> DEFINE d == {i \in DOMAIN HitsRead : ~IsKey(HitsRead[i])}
  <2>1. Cardinality(d) \in Nat
    <3>1. cur \in Slots /\ h_hit_count[cur] \in Nat
      BY DEF IInv, SlotTypeOK, HarvestInv, DataTypeOK
    <3>2. Recorded(h_hit_count[cur]) \in Nat
      BY <3>1, PipelineAssumption DEF Recorded
    <3>3. DOMAIN HitsRead = 1..Recorded(h_hit_count[cur])
      BY DEF HitsRead
    <3>4. IsFiniteSet(1..Recorded(h_hit_count[cur]))
      BY <3>2, FS_Interval
    <3>5. IsFiniteSet(d)
      BY <3>3, <3>4, FS_Subset
    <3>6. QED
      BY <3>5, FS_CardinalityType
  <2>2. dropped_degenerate' \in {dropped_degenerate, dropped_degenerate + Cardinality(d)}
    BY <1>4 DEF Harvest
  <2>3. last_error' \in BOOLEAN
    BY <1>4 DEF Harvest
  <2> HIDE DEF d
  <2>4. QED
    BY <2>1, <2>2, <2>3
<1>5. CASE (\E s \in Slots : Device(s)) \/ DeviceFault \/ RequestStop
  BY <1>5 DEF Device, RunUpload, RunReset, RunKernel, RunReadback, Run, deviceOnly,
              DeviceFault, RequestStop, hitCounts
<1>6. CASE Returned \/ UNCHANGED vars
  BY <1>6 DEF Returned, vars, hitCounts
<1>7. QED
  BY <1>1, <1>2, <1>3, <1>4, <1>5, <1>6 DEF Next, Host

\* Every variable keeps its type: a buffer holds an epoch that was drawn, a
\* stream operations of the pipeline, a harvest hits that a kernel can record.
THEOREM PipelineTypeCorrect ==
  ASSUME Depth > 1
  PROVE  Spec => []TypeOK
<1>1. Init => CountInv
  BY InitCountInv
<1>2. IInv /\ HarvestInv /\ CountInv => TypeOK
  BY TypesHold
<1>3. IInv /\ HarvestInv /\ CountInv /\ [Next]_vars => CountInv'
  BY StepCountInv
<1>4. QED
  BY <1>1, <1>2, <1>3, HarvestInvariance, PTL DEF Spec

-----------------------------------------------------------------------------
(* The engine *)

PipelineInv == IInv /\ HarvestInv /\ LedgerInv /\ OverflowInv /\ CountInv

\* An engine that is not ok has never started an epoch.
IdleInv == ~ok => priming /\ pc \in {"start", "returned"} /\ \A s \in Slots : stream[s] = <<>>

-----------------------------------------------------------------------------

\* The run() of an engine whose init failed returns at once, and leaves the
\* pipeline as it was.
LEMMA RunIdleInv ==
  ASSUME PipelineInv, IdleInv, RunIdle
  PROVE  PipelineInv' /\ IdleInv'
<1>1. /\ pc = "start" /\ pc' = "returned" /\ ~ok /\ ok' = ok
      /\ UNCHANGED <<stop, cur, nxt, cur_live, nxt_live, priming, epochs, slot_a0, h_starts,
                     h_hit_count, d_starts, d_hit_count, d_slots, winners, stream, broken,
                     total, dropped, hit_overflow_events, launched, harvests>>
  BY DEF RunIdle, initVars, loopVars, hostBuffers, deviceVars, hitCounts
<1>2. priming /\ nxt = cur /\ ~cur_live /\ \A s \in Slots : stream[s] = <<>>
  BY <1>1 DEF IdleInv, PipelineInv, IInv, TwoSlotsBusy, HarvestInv, ControlInv
<1>3. IInv' /\ IdleInv'
  BY <1>1, <1>2 DEF PipelineInv, IInv, SlotTypeOK, Pc, TwoSlotsBusy, StartPc, StartedFromIdle,
                    HarvestedIdle, BrokenIdle, ReturnsIdle, IdleInv
<1>4. HarvestInv'
  <2>1. DataTypeOK'
    BY <1>1 DEF PipelineInv, HarvestInv, DataTypeOK
  <2>2. ControlInv' /\ EpochInv'
    BY <1>1, <1>2 DEF PipelineInv, HarvestInv, ControlInv, EpochInv, Unharvested, StartPc,
                      NxtPc, CurPc
  <2>3. FlowInv'
    <3>1. ASSUME NEW s \in Slots
          PROVE  \A m \in 0..4 : Flow(s, m)' <=> Flow(s, m)
      BY <1>1, FlowFrame DEF buffers, deviceVars
    <3>2. QED
      BY <1>1, <1>2, <3>1 DEF PipelineInv, HarvestInv, FlowInv, NxtPc
  <2>4. HarvestsExact' /\ HarvestedInOrder'
    BY <1>1, HarvestsFrame DEF PipelineInv, HarvestInv
  <2>5. QED
    BY <2>1, <2>2, <2>3, <2>4 DEF HarvestInv
<1>5. LedgerInv'
  <2>1. Open = 0 /\ Open' = 0
    BY <1>1, <1>2 DEF Open, StartPc, CurPc, NxtPc
  <2>2. QED
    BY <1>1, <2>1 DEF PipelineInv, LedgerInv, NxtPc
<1>6. OverflowInv'
  BY <1>1, OtherOverflowInv DEF PipelineInv
<1>7. CountInv'
  BY DEF RunIdle, hitCounts, PipelineInv, CountInv
<1>8. QED
  BY <1>3, <1>4, <1>5, <1>6, <1>7 DEF PipelineInv

\* A step of the pipeline itself.
LEMMA PipelineStep ==
  ASSUME Depth > 1, PipelineInv, [Next]_vars
  PROVE  PipelineInv'
<1>1. IInv'
  BY HostIInv, DeviceIInv, FaultIInv, OtherIInv DEF Next, PipelineInv
<1>2. Host => HarvestInv'
  BY <1>1, LoopHarvestInv, SetupHarvestInv, EnqueueHarvestInv, HarvestHarvestInv
     DEF Host, PipelineInv
<1>3. HarvestInv'
  BY <1>1, <1>2, DeviceHarvestInv, FaultHarvestInv, OtherHarvestInv DEF Next, PipelineInv
<1>4. QED
  BY <1>1, <1>3, LossStep, StepCountInv DEF PipelineInv

\* The pipeline's invariants hold throughout the life of an engine.
THEOREM EnginePipeline ==
  ASSUME Depth > 1
  PROVE  EngineSpec => [](PipelineInv /\ IdleInv)
<1>1. EngineInit => PipelineInv /\ IdleInv
  <2>1. Init => IdleInv
    BY DEF Init, IdleInv
  <2>2. QED
    BY <2>1, InitIInv, InitHarvestInv, InitCountInv DEF EngineInit, PipelineInv
<1>2. PipelineInv /\ IdleInv /\ [EngineNext]_engineVars => (PipelineInv /\ IdleInv)'
  <2> SUFFICES ASSUME PipelineInv, IdleInv, [EngineNext]_engineVars
               PROVE  PipelineInv' /\ IdleInv'
    OBVIOUS
  <2>1. CASE RunIdle
    BY <2>1, RunIdleInv
  <2>2. CASE Construct \/ Destroy \/ Destroyed \/ UNCHANGED engineVars
    <3>1. UNCHANGED vars /\ (ok => ok')
      BY <2>2 DEF Construct, CheckPatterns, SetKnobs, UploadPatterns, Acquire, Built, InitFails,
                  Destroy, Destroyed, engineVars, initVars
    <3>2. PipelineInv'
      BY <3>1, PipelineStep
    <3>3. UNCHANGED <<priming, pc, stream>>
      BY <3>1 DEF vars, loopVars
    <3>4. QED
      BY <3>1, <3>2, <3>3 DEF IdleInv
  <2>3. CASE RunHost \/ (\E s \in Slots : RunDevice(s)) \/ Happens
    <3>1. Next /\ ok' = ok
      BY <2>3 DEF RunHost, RunDevice, Happens, Next, initVars
    <3>2. ok \/ RequestStop
      <4>1. CASE RunHost
        BY <4>1 DEF RunHost
      <4>2. CASE \E s \in Slots : stream[s] # <<>>
        BY <4>2 DEF IdleInv
      <4>3. QED
        BY <2>3, <4>1, <4>2 DEF RunDevice, Device, RunUpload, RunReset, RunKernel, RunReadback,
                                Run, Happens, DeviceFault
    <3>3. RequestStop => UNCHANGED <<priming, pc, stream>>
      BY DEF RequestStop, loopVars
    <3>4. IdleInv'
      BY <3>1, <3>2, <3>3 DEF IdleInv
    <3>5. QED
      BY <3>1, <3>4, PipelineStep
  <2>4. QED
    BY <2>1, <2>2, <2>3 DEF EngineNext
<1>3. QED
  BY <1>1, <1>2, PTL DEF EngineSpec

\* What is proved of run() on its own holds of an engine: the types, the host never
\* races the device, the device is idle when run() returns, harvests are exact
\* and in order, and nothing is lost silently.
THEOREM EngineKeepsThePipeline ==
  ASSUME Depth > 1
  PROVE  EngineSpec => [](TypeOK /\ NoHostRace /\ ReturnsIdle /\ HarvestsExact
                            /\ HarvestedInOrder /\ NoSilentLoss)
<1>1. PipelineInv => TypeOK /\ NoHostRace /\ ReturnsIdle /\ HarvestsExact
                       /\ HarvestedInOrder /\ NoSilentLoss
  BY RaceFree, LossFree, TypesHold DEF PipelineInv, IInv, HarvestInv
<1>2. QED
  BY EnginePipeline, <1>1, PTL

-----------------------------------------------------------------------------
(* The grid *)

\* Division with remainder is unique.
LEMMA DivisionUnique ==
  ASSUME NEW n \in Nat \ {0}, NEW q \in Nat, NEW r \in 0..n-1, NEW p \in Nat, NEW s \in 0..n-1,
         q * n + r = p * n + s
  PROVE  q = p /\ r = s
<1>1. ASSUME NEW a \in Nat, NEW c \in 0..n-1, NEW b \in Nat, NEW d \in 0..n-1, a < b
      PROVE  a * n + c < b * n + d
  <2>1. PICK e \in Nat : b = a + 1 + e
    <3>1. b - a - 1 \in Nat /\ b = a + 1 + (b - a - 1)
      BY <1>1
    <3>2. QED
      BY <3>1
  <2>2. b * n = a * n + n + e * n
    BY <2>1
  <2>3. e * n \in Nat /\ a * n \in Nat
    OBVIOUS
  <2>4. QED
    BY <2>2, <2>3
<1>2. ~(q < p) /\ ~(p < q)
  <2>1. q * n \in Nat /\ p * n \in Nat
    OBVIOUS
  <2>2. QED
    BY <1>1, <2>1
<1>3. q = p
  BY <1>2
<1>4. QED
  BY <1>3

\* A number in its quotient and its remainder.
LEMMA DivisionExists ==
  ASSUME NEW n \in Nat \ {0}, NEW t \in Nat
  PROVE  t \div n \in Nat /\ t % n \in 0..n-1 /\ t = n * (t \div n) + (t % n)
<1>1. t % n \in 0..n-1
  OBVIOUS
<1>2. t = n * (t \div n) + (t % n)
  OBVIOUS
<1>3. PICK q \in Int, r \in Int : q = t \div n /\ r = t % n
  OBVIOUS
<1>4. t = n * q + r /\ r < n
  BY <1>1, <1>2, <1>3
<1>5. ~(q < 0)
  <2>1. ASSUME q < 0
        PROVE  n * q <= -n
    BY <2>1
  <2>2. QED
    BY <2>1, <1>4
<1>6. QED
  BY <1>1, <1>2, <1>3, <1>5

\* Whatever the block size, and also if it does not divide the number of
\* threads, the grid covers every start point and no two of its threads share
\* one: thread t % block of block t \div block is the only one to walk from t.
LEMMA GridCovers ==
  ASSUME knobs.threads \in Nat, knobs.block \in Nat \ {0}, NEW t \in 0..knobs.threads-1
  PROVE  Walkers(t) = 1
<1> DEFINE n == knobs.block
           q == t \div n
           r == t % n
<1>1. q \in Nat /\ r \in 0..n-1 /\ t = n * q + r /\ t \in Nat /\ t < knobs.threads
  <2>1. t \in Nat /\ t < knobs.threads
    OBVIOUS
  <2>2. q \in Nat /\ r \in 0..n-1 /\ t = n * q + r
    BY <2>1, DivisionExists
  <2>3. QED
    BY <2>1, <2>2
<1> HIDE DEF q, r
<1>2. Grid \in Nat /\ q \in 0..Grid-1
  <2> DEFINE m == knobs.threads + n - 1
  <2>1. m \in Nat
    OBVIOUS
  <2>2. Grid \in Nat /\ m % n \in 0..n-1 /\ m = n * Grid + (m % n)
    BY <2>1, DivisionExists DEF Grid
  <2>3. PICK g \in Nat, e \in 0..n-1 : g = Grid /\ m = n * g + e
    BY <2>2
  <2>4. n * q < n * g
    BY <1>1, <2>3
  <2>5. q < g
    <3>1. CASE g <= q
      <4>1. PICK d \in Nat : q = g + d
        <5>1. q - g \in Nat /\ q = g + (q - g)
          BY <1>1, <3>1
        <5>2. QED
          BY <5>1
      <4>2. n * q = n * g + n * d /\ n * d \in Nat /\ n * g \in Nat
        BY <4>1
      <4>3. QED
        BY <2>4, <4>2
    <3>2. QED
      BY <1>1, <3>1
  <2>6. QED
    BY <1>1, <2>3, <2>5
<1> DEFINE B == {bt \in (0..Grid-1) \X (0..knobs.block-1) :
                   StartOf(bt[1], bt[2]) < knobs.threads /\ StartOf(bt[1], bt[2]) = t}
<1>3. StartOf(q, r) = t
  BY <1>1 DEF StartOf
<1>4. <<q, r>> \in B
  BY <1>1, <1>2, <1>3
<1>5. ASSUME NEW bt \in B
      PROVE  bt = <<q, r>>
  <2>1. PICK b \in 0..Grid-1, c \in 0..n-1 : bt = <<b, c>>
    OBVIOUS
  <2>2. b * n + c = t
    BY <2>1 DEF StartOf
  <2>3. q * n + r = t
    BY <1>1
  <2>4. b \in Nat /\ b * n + c = q * n + r
    BY <1>2, <2>2, <2>3
  <2>5. b = q /\ c = r
    <3>1. \A i, j \in Nat, k, l \in 0..n-1 : i * n + k = j * n + l => i = j /\ k = l
      BY DivisionUnique
    <3>2. QED
      BY <1>1, <2>1, <2>4, <3>1
  <2>6. QED
    BY <2>1, <2>5
<1>6. B = {<<q, r>>}
  BY <1>4, <1>5
<1>7. QED
  BY <1>6, FS_Singleton DEF Walkers

-----------------------------------------------------------------------------
(* What the constructor leaves *)

\* The n-th resource has been allocated, with the size asked for.
ResourceOf(n) == Resources[(n % 9) + 1]
Has(n) == held[n \div 9][ResourceOf(n)] = Size(ResourceOf(n))

ConstructInv ==
  /\ epc \in {"init", "knobs", "upload", "acquire", "built", "destroyed"}
  /\ knobs \in [threads : Nat \ {0}, block : Nat \ {0}]
  /\ acquired \in 0..Depth * 9
  /\ held \in [Slots -> [Range(Resources) -> Nat]]
  /\ ok \in BOOLEAN
  /\ epc \in {"init", "knobs", "upload"} => acquired = 0
  /\ epc \in {"init", "knobs", "upload", "acquire"} => ~ok
  /\ epc = "acquire" \/ ok => c_patterns = patterns /\ c_num_patterns = patterns
  /\ ok => acquired = Depth * 9
  /\ epc # "destroyed" => \A n \in 0..acquired-1 : Has(n)
  /\ epc = "destroyed" => pc = "returned"

\* There are nine resources, and they are different.
LEMMA NineResources ==
  /\ Len(Resources) = 9
  /\ Range(Resources) = {Resources[i] : i \in 1..9}
  /\ \A i, j \in 1..9 : Resources[i] = Resources[j] => i = j
<1>1. Len(Resources) = 9 /\ DOMAIN Resources = 1..9
  BY DEF Resources
<1>2. \A i, j \in 1..9 : Resources[i] = Resources[j] => i = j
  BY DEF Resources
<1>3. QED
  BY <1>1, <1>2 DEF Range

\* The n-th resource of the acquisition belongs to a slot; two of them are
\* never the same resource of the same slot.
LEMMA ResourceIndex ==
  /\ \A n \in 0..Depth*9-1 : n \div 9 \in Slots /\ (n % 9) + 1 \in 1..9
  /\ \A m, n \in Nat : m \div 9 = n \div 9 /\ ResourceOf(m) = ResourceOf(n) => m = n
<1>1. \A n \in Nat : n \div 9 \in Nat /\ (n % 9) \in 0..8 /\ n = 9 * (n \div 9) + (n % 9)
  OBVIOUS
<1>2. ASSUME NEW n \in 0..Depth*9-1
      PROVE  n \div 9 \in Slots /\ (n % 9) + 1 \in 1..9
  BY <1>1, PipelineAssumption DEF Slots
<1>3. ASSUME NEW m \in Nat, NEW n \in Nat, m \div 9 = n \div 9, ResourceOf(m) = ResourceOf(n)
      PROVE  m = n
  <2>1. m % 9 = n % 9
    BY <1>1, <1>3, NineResources DEF ResourceOf
  <2>2. QED
    BY <1>1, <1>3, <2>1
<1>4. QED
  BY <1>2, <1>3

\* Where the constructor begins.
LEMMA InitConstructInv ==
  ASSUME EngineInit
  PROVE  ConstructInv
<1>1. held \in [Slots -> [Range(Resources) -> Nat]]
  BY DEF EngineInit, Nothing
<1>2. acquired \in 0..Depth * 9
  BY PipelineAssumption DEF EngineInit
<1>3. knobs \in [threads : Nat \ {0}, block : Nat \ {0}]
  BY EngineAssumption DEF EngineInit
<1>4. epc = "init" /\ acquired = 0 /\ ~ok /\ ok \in BOOLEAN
  BY DEF EngineInit
<1>5. \A n \in 0..acquired-1 : Has(n)
  BY <1>4
<1>6. QED
  BY <1>1, <1>2, <1>3, <1>4, <1>5 DEF ConstructInv

\* What has been acquired stays so if neither the owners nor the knobs change.
LEMMA HasFrame ==
  ASSUME held' = held, knobs' = knobs, NEW n \in Nat
  PROVE  Has(n)' <=> Has(n)
BY DEF Has, ResourceOf, Size

\* Acquiring a resource keeps those acquired before it.
LEMMA AcquireConstructInv ==
  ASSUME ConstructInv, Acquire
  PROVE  ConstructInv'
<1>1. epc = "acquire" /\ acquired \in 0..Depth*9-1 /\ acquired \in Nat /\ Depth * 9 \in Nat
  BY NineResources, PipelineAssumption DEF ConstructInv, Acquire
<1>2. UNCHANGED <<knobs, patterns, c_patterns, c_num_patterns, pc, ok>>
  BY DEF Acquire, InitFails, vars
<1>3. CASE UNCHANGED <<acquired, held>> /\ epc' = "built"
  BY <1>1, <1>2, <1>3, HasFrame DEF ConstructInv
<1>4. CASE held' = Allocated(acquired) /\ acquired' = acquired + 1 /\ UNCHANGED epc
  <2> DEFINE i == acquired \div 9
             r == ResourceOf(acquired)
  <2>1. i \in Slots /\ (acquired % 9) + 1 \in 1..9 /\ r \in Range(Resources)
    BY <1>1, ResourceIndex, NineResources DEF ResourceOf
  <2>2. held' = [held EXCEPT ![i][r] = Size(r)]
    BY <1>4, NineResources DEF Allocated, ResourceOf
  <2>3. Size(r) \in Nat
    BY PipelineAssumption DEF ConstructInv, Size
  <2> HIDE DEF i, r
  <2>4. held \in [Slots -> [Range(Resources) -> Nat]]
    BY DEF ConstructInv
  <2>5. held' \in [Slots -> [Range(Resources) -> Nat]]
    BY <2>1, <2>2, <2>3, <2>4
  <2>6. ASSUME NEW n \in 0..acquired'-1
        PROVE  Has(n)'
    <3>1. n \in Nat /\ n \in 0..Depth*9-1 /\ (n = acquired \/ n \in 0..acquired-1)
      BY <1>1, <1>4
    <3>2. n \div 9 \in Slots /\ ResourceOf(n) \in Range(Resources)
      BY <3>1, ResourceIndex, NineResources DEF ResourceOf
    <3>3. ResourceOf(n)' = ResourceOf(n) /\ Size(ResourceOf(n))' = Size(ResourceOf(n))
      BY <1>2 DEF ResourceOf, Size
    <3>4. CASE n = acquired
      <4>1. held'[i][r] = Size(r)
        BY <2>1, <2>2, <2>4
      <4>2. QED
        BY <3>3, <3>4, <4>1 DEF i, r, Has
    <3>5. CASE n \in 0..acquired-1
      <4>1. ~(n \div 9 = i /\ ResourceOf(n) = r)
        BY <1>1, <3>1, <3>5, ResourceIndex DEF i, r
      <4>2. held'[n \div 9][ResourceOf(n)] = held[n \div 9][ResourceOf(n)]
        BY <2>1, <2>2, <2>4, <3>2, <4>1
      <4>3. Has(n)
        BY <1>1, <3>5 DEF ConstructInv
      <4>4. QED
        BY <3>3, <4>2, <4>3 DEF Has
    <3>6. QED
      BY <3>1, <3>4, <3>5
  <2>7. acquired' \in 0..Depth*9
    BY <1>1, <1>4
  <2>8. QED
    BY <1>1, <1>2, <1>4, <2>5, <2>6, <2>7 DEF ConstructInv
<1>5. QED
  BY <1>3, <1>4 DEF Acquire, InitFails

\* Any step of an engine keeps the invariant of the constructor.
LEMMA ConstructStep ==
  ASSUME ConstructInv, [EngineNext]_engineVars
  PROVE  ConstructInv'
<1>1. CASE CheckPatterns
  <2>1. UNCHANGED <<knobs, patterns, c_patterns, c_num_patterns, acquired, held, ok>>
    BY <1>1 DEF CheckPatterns, InitFails
  <2>2. epc = "init" /\ epc' \in {"knobs", "built"}
    BY <1>1 DEF CheckPatterns, InitFails
  <2>3. QED
    BY <2>1, <2>2, HasFrame DEF ConstructInv
<1>2. CASE SetKnobs
  <2>1. UNCHANGED <<patterns, c_patterns, c_num_patterns, acquired, held, ok>>
    BY <1>2 DEF SetKnobs
  <2>2. epc = "knobs" /\ epc' = "upload" /\ acquired = 0
    BY <1>2 DEF SetKnobs, ConstructInv
  <2>3. knobs' \in [threads : Nat \ {0}, block : Nat \ {0}]
    BY <1>2, EngineAssumption DEF SetKnobs
  <2>4. QED
    BY <2>1, <2>2, <2>3 DEF ConstructInv
<1>3. CASE UploadPatterns
  <2>1. UNCHANGED <<knobs, patterns, acquired, held, ok>>
    BY <1>3 DEF UploadPatterns, InitFails
  <2>2. epc = "upload" /\ epc' \in {"acquire", "built"} /\ acquired = 0
    BY <1>3 DEF UploadPatterns, InitFails, ConstructInv
  <2>3. epc' = "acquire" => c_patterns' = patterns /\ c_num_patterns' = patterns
    BY <1>3 DEF UploadPatterns, InitFails
  <2>4. QED
    BY <2>1, <2>2, <2>3 DEF ConstructInv
<1>4. CASE Acquire
  BY <1>4, AcquireConstructInv
<1>5. CASE Built
  <2>1. UNCHANGED <<knobs, patterns, c_patterns, c_num_patterns, acquired, held>>
    BY <1>5 DEF Built
  <2>2. epc = "acquire" /\ epc' = "built" /\ ok' = TRUE /\ acquired = Depth * 9
    BY <1>5, NineResources DEF Built
  <2>3. QED
    BY <2>1, <2>2, HasFrame DEF ConstructInv
<1>6. CASE Destroy
  <2>1. UNCHANGED <<knobs, patterns, c_patterns, c_num_patterns, acquired, ok, pc>>
    BY <1>6 DEF Destroy, vars
  <2>2. epc' = "destroyed" /\ pc = "returned"
    BY <1>6 DEF Destroy
  <2>3. held' \in [Slots -> [Range(Resources) -> Nat]]
    BY <1>6 DEF Destroy, Nothing
  <2>4. QED
    BY <2>1, <2>2, <2>3 DEF ConstructInv
<1>7. CASE UNCHANGED <<epc, initVars>> /\ (epc # "destroyed" \/ UNCHANGED pc)
  <2>1. UNCHANGED <<epc, knobs, patterns, c_patterns, c_num_patterns, acquired, held, ok>>
    BY <1>7 DEF initVars
  <2>2. QED
    BY <1>7, <2>1, HasFrame DEF ConstructInv
<1>8. CASE RunHost \/ RunIdle \/ (\E s \in Slots : RunDevice(s)) \/ Happens
  <2>1. UNCHANGED <<epc, initVars>>
    BY <1>8 DEF RunHost, RunIdle, RunDevice, Happens
  <2>2. CASE RunHost \/ RunIdle
    BY <1>7, <2>1, <2>2 DEF RunHost, RunIdle
  <2>3. CASE (\E s \in Slots : RunDevice(s)) \/ Happens
    BY <1>7, <2>1, <2>3 DEF RunDevice, Device, RunUpload, RunReset, RunKernel, RunReadback,
                            Run, deviceOnly, Happens, DeviceFault, RequestStop
  <2>4. QED
    BY <1>8, <2>2, <2>3
<1>9. CASE Destroyed \/ UNCHANGED engineVars
  BY <1>7, <1>9 DEF Destroyed, engineVars, vars
<1>10. QED
  BY <1>1, <1>2, <1>3, <1>4, <1>5, <1>6, <1>8, <1>9 DEF EngineNext, Construct

\* While work is left, the engine is ok and not destroyed: everything has been
\* acquired and nothing freed.
LEMMA ResourcesHeld ==
  ASSUME ConstructInv, IdleInv, ReturnsIdle
  PROVE  WorkHasResources
<1> SUFFICES ASSUME NEW s \in Slots, stream[s] # <<>>
             PROVE  /\ \A r \in Range(Resources) : held[s][r] = Size(r)
                    /\ c_patterns = patterns /\ c_num_patterns = patterns
                    /\ \A t \in 0..knobs.threads-1 : Walkers(t) = 1
  BY DEF WorkHasResources
<1>1. ok /\ epc # "destroyed"
  BY DEF IdleInv, ReturnsIdle, ConstructInv
<1>2. ASSUME NEW r \in Range(Resources)
      PROVE  held[s][r] = Size(r)
  <2>1. PICK i \in 1..9 : r = Resources[i]
    BY NineResources
  <2> DEFINE n == 9 * s + (i - 1)
  <2>2. n \in 0..Depth*9-1
    BY PipelineAssumption DEF Slots
  <2>3. n \div 9 = s /\ (n % 9) + 1 = i
    BY DEF Slots
  <2>4. Has(n)
    BY <1>1, <2>2 DEF ConstructInv
  <2>5. QED
    BY <2>1, <2>3, <2>4 DEF Has, ResourceOf
<1>3. c_patterns = patterns /\ c_num_patterns = patterns
  BY <1>1 DEF ConstructInv
<1>4. ASSUME NEW t \in 0..knobs.threads-1
      PROVE  Walkers(t) = 1
  <2>1. knobs.threads \in Nat /\ knobs.block \in Nat \ {0}
    BY DEF ConstructInv
  <2>2. QED
    BY <2>1, GridCovers
<1>5. QED
  BY <1>2, <1>3, <1>4

\* WorkHasResources, for any depth of the pipeline, any knobs and any number of
\* patterns, and whichever call of init fails.
THEOREM EnqueuedWorkHasResources ==
  ASSUME Depth > 1
  PROVE  EngineSpec => []WorkHasResources
<1>1. EngineInit => ConstructInv
  BY InitConstructInv
<1>2. ConstructInv /\ [EngineNext]_engineVars => ConstructInv'
  BY ConstructStep
<1>3. EngineSpec => []ConstructInv
  BY <1>1, <1>2, PTL DEF EngineSpec
<1>4. ConstructInv /\ PipelineInv /\ IdleInv => WorkHasResources
  BY ResourcesHeld DEF PipelineInv, IInv
<1>5. QED
  BY <1>3, <1>4, EnginePipeline, PTL
===============================================================================
