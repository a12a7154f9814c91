-------------------------------- MODULE Base32 --------------------------------
(***************************************************************************)
(* core/base32.cpp.  A byte is a number below 256 and a character its      *)
(* place in the alphabet, or Other when it has none; both codecs go        *)
(* through the text with an accumulator that keeps its low AccBits bits.   *)
(***************************************************************************)
EXTENDS Naturals, Sequences, SequencesExt

CONSTANTS AccBits       \* 32 in the code; 12 is the least that is enough

ASSUME AccAssumption == AccBits \in Nat /\ AccBits >= 12

AlphabetSize == 32
Other == AlphabetSize   \* a character that is not in the alphabet

\* What a shift by n places multiplies or divides with.
Shift[n \in 0..AccBits] == IF n = 0 THEN 1 ELSE 2 * Shift[n - 1]

\* acc << shift | value, in AccBits bits.
Shifted(acc, shift, value) == (acc * Shift[shift] + value) % Shift[AccBits]

\* The bits left over after the last byte, with zeros behind them.
LastChar(acc, bits) == (acc * Shift[5 - bits]) % 32

\* The state of either loop: the accumulator, how many of its bits are still to
\* be put out, and what has been.
Start == [acc |-> 0, bits |-> 0, out |-> <<>>]

TakeByte(s, b) ==
  LET acc == Shifted(s.acc, 8, b)
      bits == s.bits + 8
      n == bits \div 5
  IN [acc |-> acc, bits |-> bits % 5,
      out |-> s.out \o [j \in 1..n |-> (acc \div Shift[bits - 5 * j]) % 32]]

base32_encode(in) ==
  LET after[n \in 0..Len(in)] == IF n = 0 THEN Start ELSE TakeByte(after[n - 1], in[n])
      last == after[Len(in)]
  IN IF last.bits > 0 THEN Append(last.out, LastChar(last.acc, last.bits)) ELSE last.out

Unexpected(error) == [ok |-> FALSE, error |-> error]
Expected(value) == [ok |-> TRUE, value |-> value]

\* Mutant: what is left of the last character is not looked at.
PaddingIgnored(acc, bits) == TRUE

\* What is left of the last character is zero.
PaddingIsZero(acc, bits) == bits = 0 \/ acc % Shift[bits] = 0

TakeChar(s, c) ==
  LET acc == Shifted(s.acc, 5, c)
      bits == s.bits + 5
  IN IF bits >= 8
     THEN [acc |-> acc, bits |-> bits - 8,
           out |-> Append(s.out, (acc \div Shift[bits - 8]) % 256)]
     ELSE [acc |-> acc, bits |-> bits, out |-> s.out]

base32_decode(s) ==
  LET after[n \in 0..Len(s)] == IF n = 0 THEN Start ELSE TakeChar(after[n - 1], s[n])
      last == after[Len(s)]
  IN IF Len(s) % 8 \notin {0, 2, 4, 5, 7} THEN Unexpected("invalid_length")
     ELSE IF \E n \in 1..Len(s) : s[n] = Other THEN Unexpected("invalid_char")
     ELSE IF ~PaddingIsZero(last.acc, last.bits) THEN Unexpected("nonzero_padding")
     ELSE Expected(last.out)
=============================================================================
