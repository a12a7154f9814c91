----------------------------- MODULE MCSearchRun -----------------------------
(***************************************************************************)
(* SearchRun with one CPU worker and a GPU: two prefixes, of which one     *)
(* extends the other, so that k2 matches both; k3 matches neither and can  *)
(* only be reported by the unreliable GPU.                                 *)
(***************************************************************************)
EXTENDS SearchRun, TLC

CONSTANTS k1, k2, k3

MCMatching == (k1 :> {0}) @@ (k2 :> {0, 1}) @@ (k3 :> {})
==============================================================================
