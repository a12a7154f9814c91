# A verification project for cpp_onion

cpp_onion searches for Tor v3 onion addresses with a chosen prefix. Engines on the CPU and
the GPU walk along points of edwards25519, compare the bits of each y with compiled
prefixes, and hand a scalar that seems to match to `main()`, which derives the key again,
verifies it and writes the three files of a hidden service. The modules here model that
program; TLC checks them on small instances and TLAPS proves the theorems listed below.

Paths are relative to `src/src/` unless they begin with `src/docs`.

## 1. Inventory

| Component (code) | State | Operations | What is hard | What makes it correct |
|---|---|---|---|---|
| Result queue (`engine/engine.hpp`) | deque, mutex, condition variable | `push`, `pop_wait_for` | several producers, notification after the unlock, spurious wake-ups, the deadline | no wake-up lost; first in, first out; nothing given back twice or not at all |
| StatsBoard (`engine/engine.hpp`) | one atomic per worker | `add`, `total` | relaxed loads one after the other while workers store | never counts work not done; never falls |
| Command line (`cli/main.cpp`) | options, threads, patterns, board size, engine | options, `compile_prefix`, choice of the engine | defaults that depend on one another, a slot number handed to the GPU | every thread has a slot of its own, a refused line starts nothing |
| Monitor loop (`cli/main.cpp`) | found, exit status, `engine_done`, `g_interrupted` | loop, `--bench`, SIGINT, stop, join | four actors; time-out against a late candidate; engines that die | exit status is true, no hit lost but where a loss is counted, no thread outlives the locals it uses, the run ends |
| CompositeEngine (`engine/composite_engine.hpp`) | one thread per child | `run` | a child that returns early | the others go on |
| TorKeyWriter (`io/tor_key_writer.cpp`) | directory and three files | `write_tor_keys` | each system call may fail, the process may be killed between two, the power may go, `fsync` may fail unnoticed | files in order, never overwritten, one torn file at most |
| Verifier (`io/verifier.cpp`) | none | `verify` | must not believe the engine | only matching keys reach the disk |
| Naive engine (`engine/cpu/naive_engine.cpp`) | seed, local total | `run`, `worker` | several pushes for one key among other workers' | every match reaches main once and in order |
| Incremental engines (`engine/cpu/incremental_engine*.cpp`) | epoch, batch, `base_index`, local total | `run`, `worker` | an index kept in two places, scalars without a public key, stop | a candidate's scalar belongs to its point, each match that has a key is pushed once |
| Stepper (`crypto/incremental*.cpp`) | current point, `consumed_`, scratch arrays | `next_batch`, `scalar_add_8i` | one inversion for a batch, scratch reused, carries between bytes | each y is that of its own index |
| CUDA engine (`engine/cuda/cuda_engine.cu`) | knobs, two slots with pinned and device buffers, a stream each, loss counters | `init`, `run`, `setup_epoch`, `launch_epoch`, `drain_epoch` | asynchronous copies, double buffering, errors half-way, errors remembered by the runtime, device faults | no race with a copy, each epoch harvested once, losses counted, idle on return, never run on a part of its buffers |
| Search kernel (`engine/cuda/search_kernel.cu`) | hit counter, hit slots | walk, inversion, compare, record | more winners than slots, fused inversion | index `t + j*T`, bounded hits |
| Matcher, base32, address (`core/*`) | none | `compile_prefix`, `matches`, codecs | bits compared where the user gave text, bits left over | the comparison is exactly "the address starts with" |
| Points (`crypto/ge25519*.cpp`) | X, Y, Z, T | add, mixed add, double, base multiple | completeness, T in step | the point stays valid |
| Field (`crypto/fe25519*.cpp`, `engine/cuda/device_field*.cuh`) | limbs in three forms | add, sub, mul, square, invert, load, store | carries, folds, non-canonical values | limbs stand for the residue, one encoding |
| libsodium wrappers (`crypto/keys.cpp`) | the guard of a static | `ensure_sodium`, derive, random | first use by many threads, no entropy | initialised once; degenerate scalars skipped |
| SHA3-256 (`crypto/sha3.cpp`) | 25 lanes, a block and its length | `update`, `finalize` | data in pieces, padding at the end of a block, tables walked in place | it is FIPS 202's function |

The search threads call `push` on the queue; `main()` pops, verifies and writes. `main()`
tells the engines to stop through one stop token, and learns that they have all returned
through `engine_done`, which the runner thread sets after `engine->run()`. An engine's worker
asks its stepper for batches of y and rebuilds a scalar from base scalar and index; the GPU
engine retains the base scalar of an epoch in the slot that carries it. Nothing else is shared.

## 2. Modules

| Module | Models | Extends or uses |
|---|---|---|
| `Channel` | abstract FIFO with a time-out | |
| `ResultQueue` | the queue, at the mutex and the condition variable | refines `Channel` |
| `TorKeyWriter` | `write_tor_keys`, one system call a step | |
| `DurableWriter` | `fsync` and a loss of power | `TorKeyWriter` |
| `CommandLine` | main up to the runner thread | |
| `NaiveEngine` | the naive engine, `ensure_sodium`, main's pops | `ResultQueue` |
| `SearchRun` | main, runner, composite, search threads, verifier | `TorKeyWriter`, `Channel` |
| `IncrementalEngine` | the CPU engines, one lane or four, and the StatsBoard | |
| `CudaPipeline` | host loop, streams, device, faults | |
| `CudaEngine` | constructor, knobs, resources, destructor, the grid of a launch | `CudaPipeline` |
| `FieldElements` | the field as assumptions | |
| `BatchInversion` | both forms of the batch inversion | `FieldElements` |
| `EdwardsPoint` | the point formulas | `FieldElements` |
| `KeyWalk` | the walk of an epoch, on a CPU and in a kernel thread, `scalar_add_8i` | both; refines `BatchInversion` (a theorem) |
| `FieldLimbs` | add, sub, mul, square, load, store and invert in the three limb forms | |
| `FieldCalls` | chains of those calls beside the residue they should have | `FieldLimbs` |
| `Sha3` | the incremental hash beside FIPS 202 | |
| `Base32`, `PrefixMatch` | the codecs; from a y in limbs to the match of a prefix | `FieldLimbs` |

Each `MC…` module gives the constants of one of these values for TLC; each `…_proofs`
module holds the theorems of one. `ResultQueue_proofs` also has those of the machines its run
composes with it (`NaiveEngine`, `CommandLine`, `DurableWriter`), `KeyWalk_proofs` those of `Sha3`,
`PrefixMatch_proofs`, which builds on `FieldCalls_proofs`, those of `Base32`. `SearchRun_proofs` and `ResultQueue_proofs` build on
`TorKeyWriter_proofs`; `CudaEngine_proofs` holds those of `CudaPipeline` too.

**How state and actions correspond to the code.** A variable has the name of the variable or
member it stands for where there is one (`slot_a0`, `h_hit_count`, `base_index`, `consumed`,
`prefix`); a `pc` says between which two statements a thread is. A step is the longest piece
of code in which no other thread can take notice: one critical section, one atomic access,
one system call, one CUDA call, one batch. Variables marked *history* are not in the code;
they remember what a property needs.
Scalars, keys and points are themselves only where arithmetic is the subject (`KeyWalk`,
`FieldLimbs`, `PrefixMatch`); elsewhere a key is a model value and an epoch's base scalar is
the epoch's number.

Choices a reader should know:

- `SearchRun` has one candidate pipeline for all engines. A GPU thread may give up (a CUDA
  error, `init()` failed) and may report keys that match nothing; a CPU worker may not. Nested
  joins are flattened: the children's workers have returned before `run()` does.
- A GPU step of `SearchRun` is one round of the CUDA loop: the kernel meets any set of keys, and
  the drain then pushes the recorded ones, or fails and loses them all (a synchronization or a copy
  that reports an error), or loses those for which there was no hit slot; the loop goes on or ends
  either way. `epochs` remembers what each epoch met, `dropped` and `hit_overflow_events` are the
  code's counters, the first only as far as it counts drains of epochs that had met something. An
  epoch that could not be started meets nothing here; `CudaPipeline` has those, the streams and the
  remaining counters. So `NoHitLost` does not say that no hit is lost: it says that nothing but such a
  drain or such an overflow loses one, and that there are no fewer counted than epochs that lost one.
- libsodium derives no key from some scalars, and no engine pushes a match with such a one:
  `degenerate` in `SearchRun`, `Degenerate` in `IncrementalEngine` and `CudaPipeline`, `Refused` in
  `NaiveEngine`. Which scalars they are is left open; libsodium ignores the topmost bit, so
  2^255 is one that a walk out of the clamped range (run `carry_into_bit_255`) meets.
- `TorKeyWriter` may fail at every call. A kill is not an action: what holds of the disk in
  every state holds of what a kill leaves. A loss of power is one, in `DurableWriter`: it may
  take any file or directory entry, since no directory is synchronized, and leaves any part of a
  file whose `fsync` has not succeeded. What can be stated then is `TornOnlyWhileWritten`.
- `NaiveEngine` uses the very steps of `ResultQueue`, so that a worker can be overtaken inside
  `push`; `main()` is its pops and the stop between two of them. `SearchRun` uses `Channel`
  instead, which the queue implements.
- `CommandLine` and `SearchRun` share no variable: what the one ends with (an engine's kind, its
  workers, a compiled prefix list) is what the other's `Init` allows.
- `CudaPipeline` runs an enqueued operation later, in the order of its stream, and reads the
  host buffer *then*. A fault destroys the context: enqueued work never runs and each later
  call fails. `last_error` is the runtime's record per thread: a launch returns nothing, and
  `cudaGetLastError` after it also returns the error of an earlier call. So after a copy of hits
  that failed without a fault the next epoch counts as failed although its kernel runs.
- `CudaEngine` lets each of its constructor's calls fail; the errors of main's thread are not
  those `last_error` records.
- `Sha3` has bytes and lanes as sets of one bits; its reference is the text of FIPS 202 (lanes
  with coordinates, rho's walk, the shift register, a padded bit string), not the tables.
- `IncrementalEngine` keeps each StatsBoard slot as the sequence of values stored; a relaxed
  load returns any value not older than the last one this reader saw in that slot.
- `FieldLimbs` writes a carry chain as one function (`Ripple`), which folds and settles share;
  an encoding is the set of its one bits. 128-bit intermediate sums are exact, as they are in
  the code; 64-bit words wrap (`Word`), and the vector product reads half a word (`Half`). A cast
  of a 128-bit value to 64 bits is taken not to lose anything, which holds within the bounds proved. The
  signed carry passes of `fe4_store_y` leave limbs that are not negative alone and are left out.
- `PrefixMatch` recovers the y of a point whose Z is one: its product passes through each form, but
  products of other numbers are the subject of `FieldCalls`, and of any Z that of `KeyWalk`.

## 3. Runs

| Run | Bounds | Distinct states | Shows |
|---|---|---|---|
| `result_queue` | 2 workers, 2 keys each, 2 patterns, 2 matches in all, `kCheckInterval` 2; thread counts 0 to 3, 0 to 6 hardware threads, prefix lists of 1 and 2; 2 keys to write | 678,294 | command line, naive engine through the queue's own steps, refinement of `Channel`; files after a loss of power |
| `search_run` | 1 CPU thread, 1 unreliable GPU thread, 3 keys of which 1 may be refused, 2 patterns, 1 hit slot, at most 2 winners in an epoch, `--count` 0 or 1 | 1,076,988 | what reaches the disk, what may be lost, exit status, end of the run |
| `incremental_pool` | 2 workers of 1 lane or 1 of 4; batches of 2, epochs of 5 points, 2 epochs, 2 patterns, 2 scalars without a key | 115,909 | scalars, pushes, statistics, stop |
| `cuda_pipeline` | 2 slots, 2 hit slots, at most 3 winners of which the second has no key, 4 epochs; 0 to 3 patterns of at most 2; 3 to 8 threads in blocks of 2 or 3 | 197,391 | construction, no race, exact harvests, losses counted |
| `key_walk` | field of 53, curve with d = 3, base point of order 7, scalars of 2 bytes of 5 bits, batches of 3, 3 kernel threads, epochs of 7; up to 4 updates of 1, 15, 32 or 88 bytes | 4,235 | y, index and scalar agree; SHA3 is FIPS 202's |
| `prefix_match` | keys of 7 bytes, 18 keys, every prefix of their addresses up to 11 characters and wrong ones, texts up to 4; 11-bit limbs, chains of 2 field calls from 7 loads | 21,219 | matching, codecs, limbs, the inversion's exponent |

and the six that show a disagreement, each in its own configuration: `late_candidate`,
`overlapping_prefixes`, `one_scalar_per_epoch`, `cuda_serial`, `carry_into_bit_255`,
`lost_carry`.

Why the bounds are enough:

- *result_queue*: two workers overlap in every order with one consumer, and one key that
  matches both patterns is pushed twice while the other worker is anywhere; the queue's theorems
  hold for any number. The command lines are all combinations of engine, `--simd`, `-t`,
  hardware threads, build and prefixes; those that choose two naive workers go on as
  `NaiveEngine`. Two keys show that a file torn is that of the key being written.
- *search_run*: one thread of each engine shows one dying while the other searches; one key
  matches both patterns, one matches one and one neither, so double reports, false reports and
  honest hits all occur; a count of 1 is met and over-run, 0 never ends by itself. Two winners
  overflow one hit slot; up to three epochs meet something, and their drains fail or not in every
  combination.
- *incremental_pool*: an epoch of 5 is not a multiple of a batch of 2, so rounding shows;
  two epochs show what is carried over; two lanes' matches of one batch meet in one loop. One
  scalar without a key lies in the middle of a lane's second batch, the other in a second lane.
- *cuda_pipeline*: four epochs use each slot twice, and three winners overflow two hit slots. Blocks
  of 2 and 3 divide some of the thread counts and not others. An engine with other knobs or
  patterns than the default ones starts one epoch only (`MCNext`): they touch no decision of the loop.
- *key_walk*: an epoch of 7 holds two batches of 3 and a rest, scratch is used twice, an
  addition of 8i carries across the byte border, the curve has a non-square d as
  edwards25519 does, so that the formulas are complete (section 5 proves that they are). TLC
  enumerates every base scalar. The hash has no smaller instance: pieces of 15, 32 and 88 leave
  one byte of a block, and others end a block in the middle of a piece or exactly.
- *prefix_match*: 7 bytes are 56 bits, which with one byte of version and two of checksum
  need no padding, as 32 do not; `MaxPrefixLen` is 11 and ends right before the sign bit as 49
  does. With W = 11 the three limb forms keep the proportions of the code (five limbs of W bits
  in words of W+13, ten of W/2, eight that fill theirs), and the multiples 19 and 38 are
  the code's. Two of the keys have p-1 as their y. The loads are 0, 1, 37, p-1, p, 2^(5W)-1 and a number with no two limbs alike.
  A call is given limbs below `Spare = 2` times their width; at full width every result is such,
  at this width some products of the ten-limb form are not, and end their chain, and five times
  would not fit a word (the theorem about chains allows them, from 29 bits on). 32-bit calls
  that lose a carry are left out of this run (`Unsettled = FALSE`) and are what `lost_carry` is about.

`CHECK_DEADLOCK FALSE` is set where the modelled call simply ends.

The properties, by what they protect (each has its statement beside its definition):
`NoLostWakeup`, `PushWakesConsumer`, `RefinesChannel`, `EveryMatchDelivered`, `NaiveStops`;
`SlotsWithinBoard`; `FirewallHolds`, `FoundIsOnDisk`, `TornOnlyWhileWritten`, `NoHitLost`,
`ExitStatusIsTrue`, `DegradesGracefully`, `NoThreadOutlivesMain`, `NeverOverwritten`, `RunEnds`;
`ScalarMatchesPoint`, `EveryMatchPushedOnce`, `TotalNeverOverstates`, `TotalNeverFalls`,
`EveryWorkerPublishes`; `NoHostRace`, `HarvestsExact`, `HarvestedInOrder`, `NoSilentLoss`,
`ReturnsIdle`, `WorkHasResources`; `PointsStayValid`, `YRecovered`, `RebuiltKeyIsThePoint`;
`HashIsFips202`; `MatchIsPrefix`, `TextIsCanonical`, `AddressIsExact`, `ResultIsExact`,
`InversionIsFermat`; and `StopReturns` for two engines, of which the CUDA engine's also says that a
fault of the device ends `run()` without a stop. Every one has a mutant of the code in
`PROJECT.json` that breaks it.

### Fairness

- `SearchRun`: weak fairness of main, of the runner and of each search thread. `pop_wait_for`
  returns after at most 500 ms, `--bench` sleeps for a given time, a batch or an epoch is a
  bounded loop, and a system call is taken to return. Nothing is assumed of SIGINT.
- `IncrementalEngine` and `NaiveEngine`: weak fairness of each worker, for the same reason.
  Nothing makes `main()` ask for a stop, nor does anything make it wake: it asks when it is
  outside `pop_wait_for`, and so does not hold the mutex that a worker may wait for. A process
  that libsodium aborts does nothing more.
- `CudaPipeline`: weak fairness of the host and of each stream; `cudaStreamSynchronize`
  returns when the stream has run or the context has failed. `CudaEngine` adds the constructor and
  the destructor on main's thread.
- `ResultQueue`: a producer that has entered `notify_one` returns from it, which the workers'
  fairness implies; nothing of the deadline. The other modules state safety only.

## 4. What disagrees with its documentation

1. `late_candidate`: `main()` looks at `engine_done` after its wait gave up, and not at the queue
   again; a candidate pushed in between is abandoned with status 4.
2. `overlapping_prefixes`: a key that matches two prefixes is pushed twice by a CPU engine; the
   second write finds the files of the first, and the run ends with status 3.
3. `one_scalar_per_epoch`: `src/docs/design.md` says a match starts a new epoch; the workers go
   on in the old one.
4. `carry_into_bit_255`: the same document says a base scalar is drawn again if the epoch would
   carry into bit 255; nothing does so.
5. `cuda_serial`: built with a pipeline of one slot, the first epoch is overwritten before it is
   drained.
6. `lost_carry`: the 32-bit device field says its representatives below 2^256 are closed under
   its operations. They are not. `fed32_reduce_wide` adds the carry of its second fold as 1
   where it is worth 38, and `fed_sub` adds 38 where it has borrowed 2^256. The run has limbs of
   7 bits; the same two calls at full width, compiled for the host, give 1259 for (1 - 37)^2
   and 1 for 0 - (37 - 0). Operands that are close to 2^256 arise from a difference below 38,
   so a random walk meets one with a chance of about 2^-245, and `verify` would reject the result.

Two more are too small for a run of their own, and the passing runs state what is so instead.
`search_kernel.cuh:50-52` and `cuda_engine.cu:393-396` say that the winners an overflowing launch
drops are found again in the next epoch; that epoch has a fresh base scalar and covers other
keys. `NoSilentLoss` says that each such launch is counted; the count alone is never printed
(`cuda_engine.cu:519`), whatever the comment at line 194 says of losses being surfaced. And a copy
of hits that fails (`cuda_engine.cu:402`) is meant to cost one epoch: by way of `cudaGetLastError`
at line 318 it makes the next launch fail as well, which ends the GPU engine.

## 5. Proofs

The safety properties of the concurrent parts are theorems, for every number of threads, keys,
patterns and steps: the queue and its use by the naive engine, a whole run, the incremental
engines, the CUDA engine, the writer's files; so is the part of the arithmetic that every match rests on: the
completeness of the addition law, the batch inversion and the exponent of the inversion, the
index and the scalar, the codecs of the address, its hash, the masked comparison and any chain of field operations.
What remains model-checked is listed below.

| Theorem | For every | Argument |
|---|---|---|
| `TypeCorrect`, `NoWakeupIsLost` (`ResultQueue_proofs`) | set of producers and items | inductive invariant of five parts: types; the mutex has the owner its holder believes (`MutexInv`); what the consumer decided under the mutex is still so (`DecisionInv`); a call in progress has no result yet (`CallInv`); and that a consumer asleep on a non-empty queue has a notification on its way (`NoLostWakeup`). The last is not inductive alone: it needs to know that a producer which has left the critical section has not notified yet. |
| `QueueIsChannel` | the same | initial states map to initial states; each step maps to `Push`, `PopStart`, `Pop`, `PopTimeout` or a stutter under the same invariant |
| `EveryMatchIsDelivered`, `WorkersKeepTheQueue` (`ResultQueue_proofs`) | set of workers, patterns, draws, interval | the engine's steps are steps of the queue (`NaiveQueueStep`), so its invariant stays; a worker is in `push` only between two draws and with its latest key (`HandsInv`), so the matches of a new key come after all it sent; `HandsInv` in turn needs the draws to stay in bounds (`RoundInv`), or the items would have no type |
| `FirewallAlwaysHolds`, `FoundIsAlwaysOnDisk`, `HitsAreNeverLost`, `ExitStatusIsAlwaysTrue`, `DegradesGracefullyAlways`, `ThreadsEndBeforeMain`, `FilesAreNeverOverwritten` (`SearchRun_proofs`) | threads of each kind, unreliable or not, keys, refused ones, patterns, hit slots, `--count` | one invariant, one part for each place where threads meet: what the stop token, `engine_done` and the joins imply of one another (`ThreadsInv`); that a candidate in flight carries the key its thread came upon; what main() has in hand and what the exit status says of it (`MainInv`, `StatusFourInv`); that `found` and the complete directories differ by one only while a write has just returned (`DiskInv`). `HitsAreNeverLost` is not inductive alone: it needs `MainInv` and the writer's invariant, by which a candidate leaves main()'s hands, and the loop goes on, only when its directory is complete (no step but an epoch of the GPU adds to what is lost: `NothingMoreLost`); and that no two epochs meet the same key (`LossInv`), so that an epoch that loses keys is one more at most (`OneMoreLossyEpoch`), when one of the counters has risen (`SearchEpochCountsLosses`). |
| lemmas of `TorKeyWriter_proofs` | keys, order of calls | what one system call does to the invariant of the files: those before the current one are whole, the current one is being written |
| `FilesAreTornOnlyWhileWritten` (`ResultQueue_proofs`) | set of keys, any part of the disk lost | the writer's invariant, and that a file synchronized is not among those a loss of power may tear |
| `SlotsAlwaysWithinBoard` (`ResultQueue_proofs`) | any thread counts, hardware threads, prefix lists | the board is made after the threads are counted and with the engine's name in hand; division by cases of the engines |
| `HostNeverRaces`, `DeviceIdleOnReturn` (`CudaEngine_proofs`) | depth of 2 or more, any bounds | a busy slot is the current or the next one (`TwoSlotsBusy`), a slot is started from idle (`StartedFromIdle`), harvested idle, a broken context has empty streams; `NoHostRace` follows from which of them holds at each place |
| `HarvestsAlwaysExact`, `HarvestedAlwaysInOrder` | the same | a slot is always somewhere in one program of four operations: what is left in its stream and what has been run are the two halves of it (`FlowInv`), so that a slot that is synchronized has run all four for the epoch it retains; the epochs of the slots and of the harvests are ordered (`EpochInv`) |
| `NothingLostSilently` | the same | a ledger: epochs drawn = harvested + dropped + in flight, at each place of the loop (`LedgerInv`), and the overflows among the harvested ones with those of failed copies (`OverflowInv`) |
| `PipelineTypeCorrect` | the same | all follows from the invariants above (`TypesHold`) but for two variables (`CountInv`) and for the hits of a harvest: a filter keeps only what it was given, shown of a recursive function by a minimal counterexample (`KeysOfHits`) |
| `EngineKeepsThePipeline`, `EnqueuedWorkHasResources` (`CudaEngine_proofs`) | depth of 2 or more, any knobs and patterns | an engine that is not ok never starts an epoch (`IdleInv`), every other step is the pipeline's; nine resources of each slot are acquired in order (`ConstructInv`), and the grid covers each thread once by division with remainder (`GridCovers`) |
| `IndicesStayInTheEpoch`, `ScalarsMatchTheirPoints`, `MatchesArePushedOnce` (`IncrementalEngine_proofs`) | pool, lanes, batch, epoch, patterns | the stepper's index and the engine's `base_index` both follow from the number of batches (`Walk`), which fit into the epoch; the matches of a batch that have a key are those still to push and those pushed, none twice (`Delivered`), whatever set of scalars has none |
| `TotalsNeverOverstate`, `TotalsNeverFall` | the same | a slot's values only rise and none exceeds what its worker has compared (`Counted`); the sum of a scan is that of the values it has read, and the total before it no greater (`ScanInv`) |
| `EveryYIsRecovered` (`KeyWalk_proofs`) | field, batch size, contents of the scratch arrays | prefixes are products of the Zs that came before (`PrefixInv`, `FusedInv`), the running inverse is that of the prefix still to be undone (`InverseInv`); products of units are units (`ZsAreUnits`) |
| `WalkStaysOnCurve` | prime field, curve, base point, base scalars, threads, epoch | over the integers modulo p, the sum the unified formulas compute satisfies the curve's equation when its operands do (`UnifiedOnCurve`, polynomial identities); were one of its denominators zero, 4d would be a square (`UnifiedSquares`, `NoDenominatorVanishes`), so Z is never zero; `ge_madd` with an affine addend and `ge_double` give a multiple of the same coordinates (`StepValid`, `DoubleValid`); hence every point that double-and-add and the steps reach, whatever the number of steps (`ScalarmultOnCurve`, `WalkedOnCurve`) |
| `WalkUsesBatchInversion`, `WalkRecoversY` | the same, and batch size | the current point is on the curve (`WalkInv`), so each step of the walk is a step of `InversionNext`, which takes no Z that is zero; the rest is `EveryYIsRecovered` |
| `EveryYHasItsPlace` | the same | `cur` is the point `consumed` plus what is collected steps from the origin, and the scratch holds the coordinates of the places before it (`PlaceInv`) |
| `MatchScalarIsExact` | radix that is a multiple of eight, number of bytes, epoch, threads, batch | at each byte, what is stored and what is carried on are the sum (`ByteOfAdd`); so at each place of the scalar, what is below it and what is carried to it are what was below it and 8n (`SumOfAdd`); a clamped scalar is below what its topmost bit counts for (`ClampedValue`), so nothing is carried out of the topmost byte (`AddIsExact`). The index is one of the epoch's since a batch begins only when the epoch holds it (`IndexInv`) |
| `ThreadsShareOutTheEpoch` | threads, batch | division with remainder, and that there is only one |
| `InversionAlwaysFermat` (`FieldCalls_proofs`) | sequence of calls, encodings loaded, limb width | an exponent is the bag of its bits: when no bit is there twice, a square moves them up (`SquaredSet`) and a product of two with none in common joins them (`JoinedSets`); m ones squared n times and multiplied by n ones are m + n ones (`OnesJoined`), which is every line of the chain but its first four and its last (`ChainIsFermat`) |
| `TextAlwaysCanonical` (`PrefixMatch_proofs`) | set of keys and texts, accumulator of 12 bits or more | a codec without its loop: each five bits of the stream lie in two bytes in a row (`CharOf`), each eight in two or three characters (`ByteOf`). Each loop keeps that what it has put out is that, and that its accumulator ends with what it took last (`Encoded`, `Decoded`); the twelve last bits, which no shift loses (`ShiftedKeepsTwelve`), are all it reads (`Windows`, `CharWindows`). The padding is zero exactly when the byte after the last would be (`PaddingIsClean`), so accepted text and its bytes determine each other, block by block of five bytes and eight characters (`BytesOfChars`, `CharsOfBytes`) |
| `AddressAlwaysExact` | the same, and any checksums of two bytes | the bytes of an accepted text are a key, its checksum and the version, and no others (`KeyOfAddress`, `AddressOfKey`); the text is then that of `TextAlwaysCanonical` |
| `MaskedComparisonIsPrefix` | the same, and requests | comparing masked bytes is comparing the bits of the mask (`MatchesBitByBit`), all of them below the sign of x (`CompiledIs`); there a bit of the key is one of a character of its address (`AddressBit`), and five bits are one character (`CharIsItsBits`) |
| `EncodingIsExact` (`FieldCalls_proofs`) | limb width, form, number below p | the limbs that are read are sums of distinct powers of two (`AreLimbs`, for limbs that cover the bits: `FormCovers`), and a bit of such a sum is one when its power is in it (`BitsOfSum`), so the limbs alone give the bits back (`StoreIs`). Where each limb fits its width nothing is carried (`RippleFits`): fe4 compares with p and subtracts nothing, fed32 subtracts p and borrows from the last limb, so keeps what it has (`NothingToContract`, `NothingToSubtract`). fe51 adds 19 and then p, which together are 2^(5W): out of each limb one of the two additions carries and the other does not, and the last carry is dropped (`WrappedAndBack`). A number is below p when one of its bits from the sixth on is zero or what the first five count for is below 13 (`NotAllOfP`) |
| `ProductIsExact`, `SquareIsExact`, `SumIsExact`, `DifferenceIsExact` (`FieldCalls_proofs`) | limb width, form, operands up to five times the width of a limb (ge25519 multiplies sums of three results, each up to one and a half) | limbs stand for the sum of each times its place (`Stands`). The coefficients of a product stand for the product of what its operands stand for (`ProductStands`; of ten limbs, for odd places lie half a bit low; of a square, because its pairs come twice); a carry leaves what limbs stand for but what passes the last limb (`CarriedStands`), and what is folded back 19 or 38 times changes it by a multiple of p (`FoldsTo`, `FoldsResidue`). Bounds on each coefficient (`ProductBelow`, `Weighed4`) show that no word overflows and that one more carry is enough (`Foldable`, `CarriedOnce`, `ProductReduced`). For fed32 the theorems ask for what its comments take for granted, and run *lost_carry* refutes |
| `ResultAlwaysExact` (`FieldCalls_proofs`) | encodings, number of calls, limb width of 29 or more, spare widths of an operand up to five | the invariant (`Holds`) says that the limbs are within six times their width (`IsLeft`) and stand for a number of the residue in `value`. Each call keeps it by the four theorems above and the arithmetic of the reference (`AddModIs`, `SubModIs`, `TimesIs`: double-and-add over the bits of the multiplier). It implies the property by what `fe_to_bytes` does to limbs that are not reduced: two folds leave limbs that fit (`FoldedTwice`); adding 19 and then p leaves v mod p in fe51 (`CanonicalIs`); fe4 recognises a number from p up by its limbs alone (`LimbsFromP`, `ContractedIs`); three conditional subtractions are enough for any eight words (`ThriceWithoutP`); and the bits that are stored are those of the number (`StoredBits`, `BitOfLimb`) |
| `MatchAlwaysPrefix` (`PrefixMatch_proofs`) | keys, requests, limb width | the product of those limbs and one carries and folds nothing (`DegreeByOne`, `MulByOne51`, `MulByOne4`, `MulByOne32`), so y has the key's bits but the sign of x (`RecoveredAgrees`), which no later call disturbs (`StillRecovered`); the rest is `MaskedComparisonIsPrefix` |
| `HashSpecIsFips202` (`KeyWalk_proofs`) | byte stream, lengths of the parts it is hashed in | the state of the incremental hash is the FIPS 202 sponge over what has been absorbed, and its buffer the rest (`HashInv`). Theta, chi and iota are the same sets written twice; the permutation of lanes that the code does in place with one temporary (`kRotc`, `kPiln`) is rho and pi taken together, since the walk of FIPS 202 visits each lane but one once; the round constants are the shift register's, all 7 * 24 bits; the last block is the padded one whatever is left over, and `update` absorbs the same blocks however the bytes are cut |

The assumptions are those named in the modules: a field is commutative, associative, has a one,
and its units have inverses (`FieldAssumption`); `Batch` is positive (`BatchAssumption`); the
depth and the slots are positive (`PipelineAssumption`; the theorems about the pipeline also
state `Depth > 1`, and run `cuda_serial` shows what happens without it); keys, threads and
sentinels are what they are called (`RunAssumption`, `QueueAssumption`, `NaiveAssumption`,
`CommandLineAssumption`, `EngineAssumption`, `MatchAssumption`); an accumulator has twelve bits
or more (`AccAssumption`; 32 in the code). `CallAssumption` lets an
operand have up to five widths per limb: `ge_double` multiplies a sum of three results, which is
four and a half. `WalkStaysOnCurve` and what follows from it also
use `CurveAssumption`: the field is that of the residues of an odd prime, -1 is a square in it
and d is not. Of 2^255 - 19 and the d of `kD2` (`ge25519.cpp:7`) both are so, which Euler's
criterion decides outside the project; the curve of run *key_walk* satisfies it.
`WalkAssumption` says of the radix that it is a multiple of eight, since the provers do not
expand a power of two, and of an epoch that it holds a batch (an engine whose epoch does not
never compares a key). `MatchScalarIsExact` states its condition in its conclusion: eight times
the epoch is no more than the topmost bit of a scalar counts for (`EpochFits`: 2^255, and a CPU
epoch has 2^22 candidates). Each assumption is evaluated by TLC in a run of a module that
extends it. `KeyAssumption` says of a public key that the y in it is below p: it is what `ge_encode`
or libsodium writes, and both reduce. `HashSpecIsFips202` assumes of the stream that each of its
bytes is a set of the bits 0 to 7. The bounds of the model (`MaxLen`, `MaxDraws`, `MaxEpochs`, `MaxMatches`...) are
constants like the others: the theorems hold for every value of them.

Where a proof needs induction over data it has a minimal counterexample instead: a set of
natural numbers that is not empty has a least element (`LeastElement`, from the library's
well-founded induction, applied to a set), which is how the sum over the workers' slots
(a fold over a set) is shown to have a value, the same in any order (`FoldExists`,
`FoldAnyOrder`), and how a recursive function that stays in a set is shown to exist and to be the
only one (`IteratesExist`, `Alike`), as double-and-add, the walk and the loops of base32 are.

*Only model-checked*:

- every liveness property (`RunEnds`, `StopReturns`, `NaiveStops`, `EveryWorkerPublishes`,
  `PushWakesConsumer`), since the proof system does not reason about fairness or ENABLED;
- `KeyWalk`'s `RebuiltKeyIsThePoint`: that `t + j*T` steps of 8B, j big steps from point t and a
  scalar multiplication meet in one point is the associativity of the curve's addition, which is
  beyond the provers; what is proved is that each y is that of the point the walk has at its place.

## 6. Not modelled

- CLI11's own parsing, the progress output and its rates; `--batch 0`, which divides by zero;
- libsodium's functions (SHA-512, the scalar multiplication, random bytes), which are external;
  the hash of an address's checksum is a parameter of `PrefixMatch` and a subject of `Sha3`;
- a thread that cannot be created or memory that runs out on the host: the exception ends the
  process, with nothing to keep in order;
- file modes;
- limbs at their full width by TLC, whose integers have 32 bits; the theorems of `FieldCalls_proofs` are about any width, that on chains of calls about 29 bits or more;
- tests, tools, packaging, `xval_kernel.cu`.

## 7. Plan

The order of writing was: queue, run and writer, CPU engine, CUDA pipeline, arithmetic,
matching, limbs, then the command line, the naive engine, the CUDA engine's life, durability and
the hash; then the proofs, in the same order. What is left is the liveness and the associativity
that section 5 lists, which need other provers.
