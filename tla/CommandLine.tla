----------------------------- MODULE CommandLine -----------------------------
(***************************************************************************)
(* cli/main.cpp up to the start of the runner thread: the options, the     *)
(* compilation of the prefixes, the size of the statistics board and the   *)
(* choice of the engine, which decides who writes which slot of the board. *)
(* --count, --bench and what follows are in SearchRun.                     *)
(***************************************************************************)
EXTENDS Naturals, Sequences, FiniteSets

CONSTANTS ThreadCounts,  \* values of -t
          NotGiven,      \* ... and no -t
          Concurrencies, \* what hardware_concurrency may return; 0: unknown
          PrefixLists    \* the prefixes given: of each, whether it is valid

EngineNames == {"incremental", "naive", "cuda", "cpu+gpu", "other"}

ASSUME CommandLineAssumption ==
  /\ ThreadCounts \subseteq Nat /\ NotGiven \notin ThreadCounts
  /\ Concurrencies \subseteq Nat
  /\ \A l \in PrefixLists : l \in Seq(BOOLEAN) /\ l # <<>>

VARIABLES cpc,        \* where main() is
          args,       \* the options, the machine and the build
          threads,
          patterns,   \* how many prefixes have been compiled
          board,      \* slots of the StatsBoard
          engines,    \* the engines made: kind, workers, first slot written
          status

cliVars == <<cpc, args, threads, patterns, board, engines, status>>

Arguments ==
  [engine : EngineNames, simd : {"on", "auto"}, t : {NotGiven} \cup ThreadCounts,
   prefixes : PrefixLists, hw : Concurrencies, cuda : BOOLEAN]

CliInit ==
  /\ cpc = "options"
  /\ args \in Arguments
  /\ threads = 0 /\ patterns = 0 /\ board = 0
  /\ engines = {}
  /\ status = 0

AtLeastOne(n) == IF n = 0 THEN 1 ELSE n

\* Half of the hardware threads by default, and all of them for cpu+gpu.
SetThreads ==
  /\ cpc = "options"
  /\ threads' =
       CASE args.t # NotGiven -> AtLeastOne(args.t)
         [] args.t = NotGiven /\ args.engine = "cpu+gpu" /\ args.hw > 0 -> args.hw
         [] OTHER -> AtLeastOne(args.hw \div 2)
  /\ cpc' = "prefixes"
  /\ UNCHANGED <<args, patterns, board, engines, status>>

Exit(n) == cpc' = "exited" /\ status' = n

\* The next prefix; the first invalid one ends the program.
CompilePrefix ==
  /\ cpc = "prefixes"
  /\ patterns < Len(args.prefixes)
  /\ IF args.prefixes[patterns + 1]
     THEN patterns' = patterns + 1 /\ UNCHANGED <<cpc, status>>
     ELSE Exit(1) /\ UNCHANGED patterns
  /\ UNCHANGED <<args, threads, board, engines>>

\* Mutant: no slot for the GPU.
BoardOfWorkers ==
  /\ cpc = "prefixes"
  /\ patterns = Len(args.prefixes)
  /\ board' = threads
  /\ cpc' = "engine"
  /\ UNCHANGED <<args, threads, patterns, engines, status>>

MakeBoard ==
  /\ cpc = "prefixes"
  /\ patterns = Len(args.prefixes)
  /\ board' = IF args.engine = "cpu+gpu" THEN threads + 1 ELSE threads
  /\ cpc' = "engine"
  /\ UNCHANGED <<args, threads, patterns, engines, status>>

\* A CPU engine, whose worker i writes slot i, and the GPU engine, which
\* writes one slot.
CpuEngine(kind) == [kind |-> kind, workers |-> threads, slot |-> 0]
GpuEngine(slot) == [kind |-> "cuda", workers |-> 1, slot |-> slot]

UsesX4 == args.simd = "on" /\ args.engine \notin {"naive", "cuda", "cpu+gpu"}

\* The engines --engine names; an unknown name stands for the default.
Chosen ==
  CASE args.engine = "cpu+gpu" -> {CpuEngine("incremental"), GpuEngine(threads)}
    [] args.engine = "cuda" -> {GpuEngine(0)}
    [] args.engine = "naive" -> {CpuEngine("naive")}
    [] OTHER -> {CpuEngine(IF UsesX4 THEN "x4" ELSE "incremental")}

\* Without CUDA in the build the GPU's engines are refused.
SelectEngine ==
  /\ cpc = "engine"
  /\ IF args.engine \in {"cuda", "cpu+gpu"} /\ ~args.cuda
     THEN Exit(1) /\ UNCHANGED engines
     ELSE engines' = Chosen /\ cpc' = "running" /\ UNCHANGED status
  /\ UNCHANGED <<args, threads, patterns, board>>

CliOver == cpc \in {"running", "exited"} /\ UNCHANGED cliVars

CliNext == SetThreads \/ CompilePrefix \/ MakeBoard \/ SelectEngine \/ CliOver

-----------------------------------------------------------------------------
(* Properties *)

SlotsOf(e) == e.slot..e.slot+e.workers-1

\* Every thread a run starts writes a slot the board has, and no two the same
\* one, so that total() counts each once; and nothing runs for a command line
\* that is refused.
SlotsWithinBoard ==
  /\ \A e \in engines : SlotsOf(e) \subseteq 0..board-1
  /\ \A e, f \in engines : e # f => SlotsOf(e) \cap SlotsOf(f) = {}
  /\ status # 0 => engines = {}
===============================================================================
