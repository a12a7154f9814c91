------------------------------ MODULE CudaEngine ------------------------------
(***************************************************************************)
(* engine/cuda/cuda_engine.cu: the life of a CudaEngine.  Its constructor  *)
(* settles the launch knobs, puts the patterns on the device and acquires  *)
(* the buffers and the stream of each slot; run() is CudaPipeline; the     *)
(* destructor frees what was acquired.  The constructor runs on main's     *)
(* thread and run() on another, so that the errors of the one are not what *)
(* the other's cudaGetLastError returns.                                   *)
(*                                                                         *)
(* With it the grid of a launch (search_kernel.cu): which start points its *)
(* threads read.                                                           *)
(***************************************************************************)
EXTENDS CudaPipeline, Functions

CONSTANTS MaxConstPatterns,   \* kMaxConstPatterns
          PatternCounts,      \* how many patterns the engine may be given
          DefaultThreads, DefaultBlock,  \* of CudaKnobs
          EnvThreads,         \* what ONION_CUDA_THREADS may be; 0: unset
          EnvBlock            \* what ONION_CUDA_BLOCK may be; 0: unset

ASSUME EngineAssumption ==
  /\ MaxConstPatterns \in Nat /\ PatternCounts \subseteq Nat
  /\ DefaultThreads \in Nat \ {0} /\ DefaultBlock \in Nat \ {0}
  /\ EnvThreads \subseteq Nat /\ EnvBlock \subseteq Nat

VARIABLES epc,            \* where main's thread is
          patterns,       \* how many patterns there are
          knobs,          \* threads and block
          c_patterns,     \* on the device: the patterns uploaded
          c_num_patterns, \* ... and their number
          acquired,       \* how many resources init has acquired
          held,           \* per slot and resource: its size, or 0
          ok

initVars == <<patterns, knobs, c_patterns, c_num_patterns, acquired, held, ok>>
engineVars == <<epc, initVars, vars>>

\* What init acquires for each slot, in this order.
Resources == <<"d_starts", "d_bigstep", "d_slots", "d_hit_count", "h_starts",
               "h_bigstep", "h_hit_count", "h_slots", "stream">>

\* How many elements it asks for.
Size(r) ==
  CASE r \in {"d_starts", "h_starts"} -> knobs.threads
    [] r \in {"d_slots", "h_slots"} -> MaxHitSlots
    [] OTHER -> 1

\* An owner is empty until it allocates, and after reset.
Nothing == [s \in Slots |-> [r \in Range(Resources) |-> 0]]

\* alloc or create of the n-th resource: the owner knows a size, if it is told
\* that the call succeeded.
Allocated(n) ==
  LET r == Resources[(n % Len(Resources)) + 1]
  IN [held EXCEPT ![n \div Len(Resources)][r] = Size(r)]

EngineInit ==
  /\ Init
  /\ epc = "init"
  /\ patterns \in PatternCounts
  /\ knobs = [threads |-> DefaultThreads, block |-> DefaultBlock]
  /\ c_patterns = 0 /\ c_num_patterns = 0
  /\ acquired = 0 /\ held = Nothing
  /\ ok = FALSE

-----------------------------------------------------------------------------
(* The constructor *)

\* init returns false, and its caller leaves ok false.
InitFails ==
  /\ epc' = "built"
  /\ UNCHANGED ok

CheckPatterns ==
  /\ epc = "init"
  /\ IF patterns \in 1..MaxConstPatterns THEN epc' = "knobs" /\ UNCHANGED ok ELSE InitFails
  /\ UNCHANGED <<vars, patterns, knobs, c_patterns, c_num_patterns, acquired, held>>

\* The 32-bit field doubles the default; the environment overrides it with
\* what is positive.  The hint to sleep while the device works is never fatal.
SetKnobs ==
  /\ epc = "knobs"
  /\ \E field32 \in BOOLEAN, t \in EnvThreads, b \in EnvBlock :
       knobs' = [threads |-> IF t > 0 THEN t
                             ELSE IF field32 THEN 2 * DefaultThreads ELSE DefaultThreads,
                 block |-> IF b > 0 THEN b ELSE DefaultBlock]
  /\ epc' = "upload"
  /\ UNCHANGED <<vars, patterns, c_patterns, c_num_patterns, acquired, held, ok>>

\* upload_patterns: two copies, each of which may fail.
UploadPatterns ==
  /\ epc = "upload"
  /\ \/ c_patterns' = patterns /\ c_num_patterns' = patterns /\ epc' = "acquire" /\ UNCHANGED ok
     \/ c_patterns' = patterns /\ UNCHANGED c_num_patterns /\ InitFails
     \/ UNCHANGED <<c_patterns, c_num_patterns>> /\ InitFails
  /\ UNCHANGED <<vars, patterns, knobs, acquired, held>>

\* Mutant: the result of creating a stream is not looked at.
AcquireUnchecked ==
  /\ epc = "acquire" /\ acquired < Depth * Len(Resources)
  /\ \/ /\ held' = Allocated(acquired)
        /\ acquired' = acquired + 1
        /\ UNCHANGED <<epc, ok>>
     \/ /\ Resources[(acquired % Len(Resources)) + 1] = "stream"
        /\ acquired' = acquired + 1
        /\ UNCHANGED <<epc, ok, held>>
     \/ InitFails /\ UNCHANGED <<acquired, held>>
  /\ UNCHANGED <<vars, patterns, knobs, c_patterns, c_num_patterns>>

\* The next buffer or stream of the next slot.
Acquire ==
  /\ epc = "acquire" /\ acquired < Depth * Len(Resources)
  /\ \/ /\ held' = Allocated(acquired)
        /\ acquired' = acquired + 1
        /\ UNCHANGED <<epc, ok>>
     \/ InitFails /\ UNCHANGED <<acquired, held>>
  /\ UNCHANGED <<vars, patterns, knobs, c_patterns, c_num_patterns>>

Built ==
  /\ epc = "acquire" /\ acquired = Depth * Len(Resources)
  /\ ok' = TRUE
  /\ epc' = "built"
  /\ UNCHANGED <<vars, patterns, knobs, c_patterns, c_num_patterns, acquired, held>>

Construct == CheckPatterns \/ SetKnobs \/ UploadPatterns \/ Acquire \/ Built

-----------------------------------------------------------------------------
(* run and the destructor *)

\* An engine whose init failed is idle: what it acquired stays until it is
\* destroyed.
RunIdle ==
  /\ epc = "built" /\ ~ok /\ pc = "start"
  /\ pc' = "returned"
  /\ UNCHANGED <<epc, initVars, stop, loopVars, epochs, hostBuffers, h_hit_count,
                 deviceVars, stream, broken, last_error, total, dropped, hitCounts,
                 launched, harvests>>

RunHost == epc = "built" /\ ok /\ Host /\ UNCHANGED <<epc, initVars>>

RunDevice(s) == Device(s) /\ UNCHANGED <<epc, initVars>>

\* What happens to the engine: a fault, or the stop.
Happens == (DeviceFault \/ RequestStop) /\ UNCHANGED <<epc, initVars>>

\* The members free what they own.
Destroy ==
  /\ epc = "built" /\ pc = "returned" /\ stop
  /\ held' = Nothing
  /\ epc' = "destroyed"
  /\ UNCHANGED <<vars, patterns, knobs, c_patterns, c_num_patterns, acquired, ok>>

Destroyed == epc = "destroyed" /\ UNCHANGED engineVars

EngineNext ==
  \/ Construct \/ RunIdle \/ RunHost \/ (\E s \in Slots : RunDevice(s)) \/ Happens
  \/ Destroy \/ Destroyed

\* Main's thread, the host thread and whatever is enqueued run.
EngineSpec ==
  /\ EngineInit /\ [][EngineNext]_engineVars
  /\ WF_engineVars(Construct \/ RunIdle \/ RunHost \/ Destroy)
  /\ \A s \in Slots : WF_engineVars(RunDevice(s))

-----------------------------------------------------------------------------
(* The grid of a launch *)

Grid == (knobs.threads + knobs.block - 1) \div knobs.block

\* The start point a thread of the grid walks from, if any.
StartOf(block, thread) == block * knobs.block + thread

\* How many threads of the grid walk from start point t.
Walkers(t) ==
  Cardinality({bt \in (0..Grid-1) \X (0..knobs.block-1) :
                 StartOf(bt[1], bt[2]) < knobs.threads /\ StartOf(bt[1], bt[2]) = t})

-----------------------------------------------------------------------------
(* Properties *)

\* Whatever is enqueued finds everything it needs: no buffer or stream of its
\* slot is missing or smaller than the knobs in force, or freed while work is
\* left; all patterns are on the device with their number; and the grid walks
\* once from every start point, also when the blocks do not divide them.
WorkHasResources ==
  \A s \in Slots : stream[s] # <<>> =>
    /\ \A r \in Range(Resources) : held[s][r] = Size(r)
    /\ c_patterns = patterns /\ c_num_patterns = patterns
    /\ \A t \in 0..knobs.threads-1 : Walkers(t) = 1
===============================================================================
