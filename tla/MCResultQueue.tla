--------------------------- MODULE MCResultQueue ---------------------------
(***************************************************************************)
(* A command line that selects the naive engine with two workers starts    *)
(* them; they draw two keys each, of two patterns, and come upon up to two *)
(* matches, which main() takes from the queue.  The other command lines    *)
(* are checked up to the start of the engine.                              *)
(*                                                                         *)
(* Beside them DurableWriter writes the files of two keys until the power  *)
(* is lost.  A state of it or one of the others changes, never both.       *)
(***************************************************************************)
EXTENDS NaiveEngine, CommandLine, DurableWriter

MCItems == [worker : Producers, draw : 1..MaxDraws, pattern : Patterns]
MCPrefixLists == {<<TRUE>>, <<FALSE>>, <<TRUE, FALSE>>, <<TRUE, TRUE>>}

MCArgs ==
  [engine |-> "naive", simd |-> "auto", t |-> Cardinality(Producers),
   prefixes |-> <<TRUE>>, hw |-> 0, cuda |-> FALSE]

Launched ==
  /\ args = MCArgs /\ cpc = "running"
  /\ \E e \in engines : e.kind = "naive" /\ e.workers = Cardinality(Producers)

MCInit ==
  /\ NaiveInit /\ CliInit /\ DurableInit
  /\ \A p \in Producers : arg[p].worker = p /\ arg[p].draw = 1 /\ arg[p].pattern = 1

Writing == args = MCArgs /\ cpc = "options"
Idle == dirs = {} /\ wpc = "idle" /\ power = "on"

MCNext ==
  \/ Launched /\ NaiveNext /\ UNCHANGED <<cliVars, durableVars>>
  \/ Idle /\ CliNext /\ UNCHANGED <<naiveVars, durableVars>>
  \/ Writing /\ DurableNext /\ UNCHANGED <<naiveVars, cliVars>>

MCSpec == MCInit /\ [][MCNext]_<<naiveVars, cliVars, durableVars>> /\ NaiveFairness
============================================================================
