--------------------------------- MODULE Sha3 ---------------------------------
(***************************************************************************)
(* crypto/sha3.cpp: the incremental SHA3-256 behind the checksum of an     *)
(* address.  A caller makes any calls of update and one of finalize; a     *)
(* block that is full is absorbed in the middle of a call.                 *)
(*                                                                         *)
(* A byte, a lane and a block are the sets of their one bits, so that ^ is *)
(* the symmetric difference.  Beside the 25 lanes, the buffer and the two  *)
(* tables of the code runs the hash as FIPS 202 defines it: on the padded  *)
(* message, cut into blocks, and on lanes with coordinates.                *)
(***************************************************************************)
EXTENDS Naturals, Sequences

CONSTANTS ByteAt(_),    \* the bits of the n-th byte of the data to be hashed
          Pieces,       \* how many bytes a call of update may be given
          MaxUpdates    \* bound: calls of update

Rate == 136
LaneBits == 64
Lanes == 0..24
LaneBit == 0..LaneBits-1
Coordinates == (0..4) \X (0..4)   \* of a lane of FIPS 202

ASSUME HashAssumption ==
  Pieces \subseteq Nat /\ MaxUpdates \in Nat /\ \A n \in 0..2*Rate : ByteAt(n) \subseteq 0..7

VARIABLES hpc,          \* where the caller is
          state,        \* state_
          buf, buf_len, \* buf_, buf_len_
          data,         \* how much of the data has been taken, and is to be
          padded,       \* finalize has been called
          round,        \* of keccakf
          updates,
          fips          \* the state array of FIPS 202

hashVars == <<hpc, state, buf, buf_len, data, padded, round, updates, fips>>

Xor(a, b) == (a \ b) \cup (b \ a)

HashInit ==
  /\ hpc = "ready"
  /\ state = [l \in Lanes |-> {}]
  /\ buf = [n \in 0..Rate-1 |-> {}] /\ buf_len = 0
  /\ data = [taken |-> 0, given |-> 0]
  /\ padded = FALSE /\ round = 0 /\ updates = 0
  /\ fips = [c \in Coordinates |-> {}]

-----------------------------------------------------------------------------
(* keccakf *)

rotl64(a, n) == {(b + n) % LaneBits : b \in a}

kRoundConstants == <<
  {0}, {1, 7, 15}, {1, 3, 7, 15, 63}, {15, 31, 63}, {0, 1, 3, 7, 15}, {0, 31},
  {0, 7, 15, 31, 63}, {0, 3, 15, 63}, {1, 3, 7}, {3, 7}, {0, 3, 15, 31},
  {1, 3, 31}, {0, 1, 3, 7, 15, 31}, {0, 1, 3, 7, 63}, {0, 3, 7, 15, 63},
  {0, 1, 15, 63}, {1, 15, 63}, {7, 63}, {1, 3, 15}, {1, 3, 31, 63},
  {0, 7, 15, 31, 63}, {7, 15, 63}, {0, 31}, {3, 15, 31, 63}>>

kRotc == <<1, 3, 6, 10, 15, 21, 28, 36, 45, 55, 2, 14,
           27, 41, 56, 8, 25, 43, 62, 18, 39, 61, 20, 44>>

kPiln == <<10, 7, 11, 17, 18, 3, 5, 16, 8, 21, 24, 4,
           15, 23, 19, 13, 12, 2, 20, 14, 22, 9, 6, 1>>

Theta(s) ==
  LET bc == [i \in 0..4 |->
        Xor(s[i], Xor(s[i + 5], Xor(s[i + 10], Xor(s[i + 15], s[i + 20]))))]
  IN [l \in Lanes |->
        Xor(s[l], Xor(bc[(l + 4) % 5], rotl64(bc[(l + 1) % 5], 1)))]

\* A turn of the loop that moves the lanes in place: t is the lane the turn before
\* moved out.
Moved(w, i) ==
  [s |-> [w.s EXCEPT ![kPiln[i]] = rotl64(w.t, kRotc[i])], t |-> w.s[kPiln[i]]]

RhoPi(s) ==
  LET walk[i \in 0..24] ==
        IF i = 0 THEN [s |-> s, t |-> s[1]] ELSE Moved(walk[i - 1], i)
  IN walk[24].s

Chi(s) ==
  [l \in Lanes |-> LET j == l - (l % 5)
                   IN Xor(s[l], s[j + ((l + 2) % 5)] \ s[j + ((l + 1) % 5)])]

\* One turn of keccakf's loop.
KeccakRound(s, n) == [Chi(RhoPi(Theta(s))) EXCEPT ![0] = Xor(@, kRoundConstants[n + 1])]

-----------------------------------------------------------------------------
(* FIPS 202 *)

\* pad10*1 after the suffix 01: the one bits of len bytes of data made into
\* whole blocks.
Padded(len) ==
  (UNION {{8 * n + b : b \in ByteAt(n)} : n \in 0..len-1})
    \cup {8 * len + 1, 8 * len + 2, 8 * Rate * ((len \div Rate) + 1) - 1}

\* A with the k-th block of the string p added to it.
Absorbed(A, p, k) ==
  LET first(c) == 8 * Rate * k + LaneBits * (5 * c[2] + c[1])
  IN [c \in Coordinates |->
        IF 5 * c[2] + c[1] < Rate \div 8
        THEN Xor(A[c], {b \in LaneBit : first(c) + b \in p})
        ELSE A[c]]

\* Where rho's walk over the lanes is after n steps.
RhoPlace[n \in 0..23] ==
  IF n = 0 THEN <<1, 0>>
  ELSE LET p == RhoPlace[n - 1] IN <<p[2], (2 * p[1] + 3 * p[2]) % 5>>

RhoOffset(c) ==
  IF c = <<0, 0>> THEN 0
  ELSE LET n == CHOOSE m \in 0..23 : RhoPlace[m] = c IN ((n + 1) * (n + 2)) \div 2

\* The shift register behind the round constants.
Register[n \in 0..7*24] ==
  IF n = 0 THEN {0}
  ELSE LET r == {b + 1 : b \in Register[n - 1]}
       IN IF 8 \in r THEN Xor(r \ {8}, {0, 4, 5, 6}) ELSE r

FipsRound(A, n) ==
  LET C == [x \in 0..4 |-> Xor(A[<<x, 0>>], Xor(A[<<x, 1>>],
                         Xor(A[<<x, 2>>], Xor(A[<<x, 3>>], A[<<x, 4>>]))))]
      theta == [c \in Coordinates |-> Xor(A[c], Xor(C[(c[1] + 4) % 5],
                                                  rotl64(C[(c[1] + 1) % 5], 1)))]
      rho == [c \in Coordinates |-> rotl64(theta[c], RhoOffset(c))]
      pi == [c \in Coordinates |-> rho[<<(c[1] + 3 * c[2]) % 5, c[1]>>]]
      chi == [c \in Coordinates |->
                Xor(pi[c], pi[<<(c[1] + 2) % 5, c[2]>>] \ pi[<<(c[1] + 1) % 5, c[2]>>])]
      RC == {2 ^ j - 1 : j \in {m \in 0..6 : 0 \in Register[m + 7 * n]}}
  IN [chi EXCEPT ![<<0, 0>>] = Xor(@, RC)]

-----------------------------------------------------------------------------
(* update and finalize *)

\* A call of update.
Update ==
  /\ hpc = "ready" /\ updates < MaxUpdates
  /\ \E n \in Pieces : data' = [data EXCEPT !.given = @ + n]
  /\ updates' = updates + 1
  /\ hpc' = "taking"
  /\ UNCHANGED <<state, buf, buf_len, padded, round, fips>>

\* Its loop, up to a block that is full or to the end of the data.
Take ==
  /\ hpc = "taking"
  /\ LET left == data.given - data.taken
         n == IF left < Rate - buf_len THEN left ELSE Rate - buf_len
     IN /\ buf' = [m \in 0..Rate-1 |->
                     IF m \in buf_len..buf_len+n-1 THEN ByteAt(data.taken + m - buf_len)
                     ELSE buf[m]]
        /\ buf_len' = buf_len + n
        /\ data' = [data EXCEPT !.taken = @ + n]
  /\ hpc' = IF buf_len' = Rate THEN "absorbing" ELSE "ready"
  /\ UNCHANGED <<state, padded, round, updates, fips>>

\* Mutant: the last byte is assigned its bit.
PaddedBlockAssigned ==
  [m \in 0..Rate-1 |-> IF m = Rate - 1 THEN {7}
                       ELSE IF m < buf_len THEN buf[m]
                       ELSE IF m = buf_len THEN {1, 2} ELSE {}]

\* The rest of the block is zeroed; 06 begins the padding and 80 ends it, in
\* one byte when there is one byte left.
PaddedBlock ==
  [m \in 0..Rate-1 |->
     (IF m < buf_len THEN buf[m] ELSE IF m = buf_len THEN {1, 2} ELSE {})
       \cup (IF m = Rate - 1 THEN {7} ELSE {})]

Finalize ==
  /\ hpc = "ready"
  /\ buf' = PaddedBlock
  /\ padded' = TRUE
  /\ hpc' = "absorbing"
  /\ UNCHANGED <<state, buf_len, data, round, updates, fips>>

\* absorb_block: the bytes of the buffer, eight to a lane, the first one last.
Absorb ==
  /\ hpc = "absorbing"
  /\ state' = [l \in Lanes |->
       IF l < Rate \div 8
       THEN Xor(state[l], UNION {{8 * j + b : b \in buf[8 * l + j]} : j \in 0..7})
       ELSE state[l]]
  /\ fips' = Absorbed(fips, Padded(data.given), (data.taken - buf_len) \div Rate)
  /\ round' = 0
  /\ hpc' = "permuting"
  /\ UNCHANGED <<buf, buf_len, data, padded, updates>>

\* A turn of keccakf; after the last one update goes on with an empty buffer.
Permute ==
  /\ hpc = "permuting"
  /\ state' = KeccakRound(state, round)
  /\ fips' = FipsRound(fips, round)
  /\ round' = round + 1
  /\ hpc' = IF round < 23 THEN "permuting" ELSE IF padded THEN "done" ELSE "taking"
  /\ buf_len' = IF round < 23 \/ padded THEN buf_len ELSE 0
  /\ UNCHANGED <<buf, data, padded, updates>>

\* The digest: the first four lanes, the low byte of each first.
Digest == [n \in 0..31 |-> {b \in 0..7 : 8 * (n % 8) + b \in state[n \div 8]}]

HashOver == hpc = "done" /\ UNCHANGED hashVars

HashNext == Update \/ Take \/ Finalize \/ Absorb \/ Permute \/ HashOver

HashSpec == HashInit /\ [][HashNext]_hashVars

-----------------------------------------------------------------------------
(* Properties *)

\* The first 256 bits of the string FIPS 202 makes of its lanes.
FipsDigest ==
  [n \in 0..31 |->
     {b \in 0..7 : (8 * n + b) % LaneBits \in fips[<<(8 * n + b) \div LaneBits, 0>>]}]

\* Whatever the pieces in which the data arrive, the lanes are those of FIPS
\* 202 at every round, and the digest is its digest: nothing a block before
\* left in the buffer is absorbed again, the padding is right when one byte is
\* left or none, and the two tables walked in place are rho and pi.
HashIsFips202 ==
  /\ \A c \in Coordinates : state[5 * c[2] + c[1]] = fips[c]
  /\ hpc = "done" => Digest = FipsDigest
===============================================================================
