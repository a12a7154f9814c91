------------------------- MODULE MCIncrementalEngine -------------------------
(***************************************************************************)
(* IncrementalEngine with two workers of one lane, or one worker of four:  *)
(* two epochs of two batches, with a point left over at the end of each,   *)
(* and two patterns.  One scalar of the first worker's first epoch, and    *)
(* one of the second lane of its second, have no public key.               *)
(***************************************************************************)
EXTENDS IncrementalEngine

MCPools == {[workers |-> 2, lanes |-> 1], [workers |-> 1, lanes |-> 4]}
MCOneWorker == {[workers |-> 1, lanes |-> 1]}

MCDegenerate == {<<1, 1, 0, 3>>, <<1, 2, 1, 1>>}

MCMaxHits(lanes) == IF lanes = 1 THEN 1 ELSE 2
MCTwoHits(lanes) == 2
==============================================================================
