---------------------------- MODULE MCCudaPipeline ----------------------------
(***************************************************************************)
(* CudaEngine with two hit slots and up to three winners an epoch, so that *)
(* an epoch can overflow and the next one, with fewer winners, leaves      *)
(* stale entries behind; four epochs reuse both slots.  Three to eight     *)
(* threads come in blocks of two or three.  An engine whose knobs are not  *)
(* the default ones starts one epoch only.                                 *)
(***************************************************************************)
EXTENDS CudaEngine

Tuned == knobs # [threads |-> DefaultThreads, block |-> DefaultBlock] \/ patterns # 1

MCNext == EngineNext /\ (Tuned => epochs' < 2)

MCSpec ==
  /\ EngineInit /\ [][MCNext]_engineVars
  /\ WF_engineVars(Construct \/ RunIdle \/ RunHost \/ Destroy)
  /\ \A s \in Slots : WF_engineVars(RunDevice(s))
===============================================================================
