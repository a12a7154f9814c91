------------------------------ MODULE MCKeyWalk ------------------------------
(***************************************************************************)
(* KeyWalk over the field of 53 elements and the curve with d = 3, which   *)
(* has 56 points and, as 3 is not a square, a complete addition law; the   *)
(* base point has order 7.  Two bytes of five bits make a scalar, so that  *)
(* the addition of 8i carries from the one to the other.                   *)
(*                                                                         *)
(* Beside it Sha3, at its real width, over data that come in pieces of 1,  *)
(* 15, 32 and 88 bytes: an address's checksum is made of 15, 32 and 1, and *)
(* 15 + 32 + 88 leaves one byte of a block.  A state of KeyWalk or one of  *)
(* Sha3 changes, never both.                                               *)
(***************************************************************************)
EXTENDS KeyWalk, Sha3

MCPrime == 53
MCField == 0..MCPrime-1
MCAdd(a, b) == (a + b) % MCPrime
MCSub(a, b) == (MCPrime + a - b) % MCPrime
MCMul(a, b) == (a * b) % MCPrime
MCInverses == [a \in MCField |->
  IF a = 0 THEN 0 ELSE CHOOSE b \in MCField : (a * b) % MCPrime = 1]
MCInv(a) == MCInverses[a]

MCBasepoint == [X |-> 4, Y |-> 43, Z |-> 1, T |-> 13]

\* The base scalars from which an epoch does not reach the topmost bit, and
\* all of them.
MCEarlyScalars ==
  {s \in Scalars : Clamped(s) /\ Value(s) + 8 * (EpochCandidates + 3) < 2 ^ (Bits - 1)}
MCAllScalars == {s \in Scalars : Clamped(s)}

MCByteAt(n) == {b \in 0..7 : ((37 * n + 11) \div 2 ^ b) % 2 = 1}

Walking == hpc = "ready" /\ updates = 0
Hashing == ~gpu /\ phase = "collect" /\ i = 0 /\ consumed = 0
             /\ a0 = CHOOSE s \in BaseScalars : TRUE

MCInit == Init /\ HashInit
MCNext == \/ Walking /\ Next /\ UNCHANGED hashVars
          \/ Hashing /\ HashNext /\ UNCHANGED vars
MCSpec == MCInit /\ [][MCNext]_<<vars, hashVars>>
==============================================================================
