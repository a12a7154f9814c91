---------------------------- MODULE MCPrefixMatch ----------------------------
(***************************************************************************)
(* PrefixMatch with keys of 7 bytes: an address has 16 characters and no   *)
(* padding, as with 32 bytes it has 56, and the longest prefix ends in the *)
(* byte before the sign of x.  Elements of the field are 55 bits.  A state  *)
(* of PrefixMatch or one of FieldCalls changes, never both.                *)
(***************************************************************************)
EXTENDS PrefixMatch, FieldCalls

\* The last two have p - 1 as their y.
MCKeys ==
  {<<a, b, 170, b, 85, a, c>> : a \in {0, 203}, b \in {1, 254}, c \in {0, 127, 128, 255}}
    \cup {<<236, 255, 255, 255, 255, 255, c>> : c \in {127, 255}}

MCChecksum(k) ==
  LET s == FoldLeft(LAMBDA x, b : (7 * x + b) % 65536, 1, k) IN <<s \div 256, s % 256>>

\* The prefixes of every address, and those with another last character.
MCPrefixes ==
  LET own == {SubSeq(onion_address_from_pubkey(k), 1, n) : k \in MCKeys, n \in 0..11}
  IN own \cup {Append(Front(p), c) : p \in own \ {<<>>}, c \in {31, Other}}

MCTexts == UNION {[1..n -> {0, 1, 4, 31, Other}] : n \in 0..4}

\* 0, 1, 37, p - 1, p, all ones, and a number with every limb different.
MCLoads ==
  LET ones == 0..54
  IN {{}, {0}, {0, 2, 5}, ones \ {0, 1, 4}, ones \ {1, 4}, ones,
      {0, 3, 4, 9, 13, 14, 20, 22, 29, 33, 37, 41, 47, 48, 54}}

Matching == form = "fe51" /\ value = <<0, 0>> /\ acc = fe_from_bytes("fe51", {}) /\ calls = 0
Calling == pc = "idle" /\ key = <<0, 1, 170, 1, 85, 0, 0>>

MCInit == Init /\ FieldInit /\ (Matching \/ Calling)
MCNext == \/ Matching /\ Next /\ UNCHANGED fieldVars
          \/ Calling /\ FieldNext /\ UNCHANGED vars
MCSpec == MCInit /\ [][MCNext]_<<vars, fieldVars>>
==============================================================================
