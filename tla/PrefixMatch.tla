----------------------------- MODULE PrefixMatch -----------------------------
(***************************************************************************)
(* core/matcher.cpp and core/onion_address.cpp: a prefix of the address is *)
(* compiled to a mask over the public key, so that the engines compare     *)
(* bits of a key, or of its y alone, where the user asked for text.        *)
(*                                                                         *)
(* Stream bit n of a sequence of bytes is bit n in the order base32 reads  *)
(* them.  The two arrays of a CompiledPattern are the sets of the stream   *)
(* bits that are one in them.                                              *)
(***************************************************************************)
EXTENDS Base32, FieldLimbs

CONSTANTS KeyBytes,     \* 32
          Checksum(_),  \* the first two bytes of SHA3-256 over the tagged key
          Keys,         \* public keys
          Requests,     \* what the user may ask for
          Texts         \* what base32_decode may be given

Version == 3
SignBit == 8 * (KeyBytes - 1)  \* where ge_encode keeps the sign of x

\* Mutant: one character more, which has the sign of x in it.
MaxPrefixLenOneMore == SignBit \div 5 + 1

\* kMaxPrefixLen, 49: the characters that lie before the sign of x.
MaxPrefixLen == SignBit \div 5

ASSUME MatchAssumption ==
  /\ KeyBytes \in Nat \ {0} /\ 8 * KeyBytes = 5 * W + 1
  /\ \A k \in Keys : k \in Seq(0..255) /\ Len(k) = KeyBytes
  /\ \A k \in Keys : Checksum(k) \in Seq(0..255) /\ Len(Checksum(k)) = 2
  /\ \A p \in Requests \cup Texts : p \in Seq(0..Other)

VARIABLES pc,           \* which call has returned last
          prefix, pattern,  \* compile_prefix: its argument and its result
          key, y, matched,  \* matches: the key, the bits of its y, the result
          text, parsed      \* a decoding call: its argument and its result

vars == <<pc, prefix, pattern, key, y, matched, text, parsed>>

StreamBits(bytes) ==
  {n \in 0..8 * Len(bytes) - 1 : (bytes[n \div 8 + 1] \div Shift[7 - (n % 8)]) % 2 = 1}

\* The stream reads each byte from its highest bit, an encoding of the field from
\* its lowest: bit n of one is this bit of the other.
StreamBit(n) == 8 * (n \div 8) + 7 - (n % 8)

\* The bits of an encoding of the field.
FieldBits(k) == {StreamBit(n) : n \in StreamBits(k)}

\* A public key is what ge_encode writes: a y that is below p, and the sign of x.
ASSUME KeyAssumption == \A k \in Keys : BelowP(FieldBits(k))

\* Bit j of character c, the highest one first.
CharBit(c, j) == (c \div Shift[4 - j]) % 2

compile_prefix(p) ==
  IF Len(p) = 0 THEN Unexpected("empty")
  ELSE IF Len(p) > MaxPrefixLen THEN Unexpected("too_long")
  ELSE IF \E n \in 1..Len(p) : p[n] = Other THEN Unexpected("invalid_char")
  ELSE LET mask == 0..5 * Len(p) - 1
       IN Expected([mask |-> mask,
                    bytes |-> {n \in mask : CharBit(p[n \div 5 + 1], n % 5) = 1},
                    nbytes |-> (5 * Len(p) + 7) \div 8])

\* The masked comparison, byte by byte of the first nbytes.
matches(p, bits) ==
  \A b \in 0..p.nbytes-1 :
    (8*b .. 8*b+7) \cap bits \cap p.mask = (8*b .. 8*b+7) \cap p.bytes

onion_address_from_pubkey(k) == base32_encode(k \o Checksum(k) \o <<Version>>)

\* Mutant: the checksum is not compared.
ChecksumIgnored(bytes) == TRUE

ChecksumHolds(bytes) ==
  SubSeq(bytes, KeyBytes + 1, KeyBytes + 2) = Checksum(SubSeq(bytes, 1, KeyBytes))

\* The body of the address; the suffix .onion has been taken off.
pubkey_from_onion_address(s) ==
  LET decoded == base32_decode(s) IN
  IF Len(s) * 5 # 8 * (KeyBytes + 3) THEN Unexpected("bad_length")
  ELSE IF ~decoded.ok THEN Unexpected("bad_base32")
  ELSE IF decoded.value[KeyBytes + 3] # Version THEN Unexpected("bad_version")
  ELSE IF ~ChecksumHolds(decoded.value) THEN Unexpected("bad_checksum")
  ELSE Expected(SubSeq(decoded.value, 1, KeyBytes))

-----------------------------------------------------------------------------
Init ==
  /\ pc = "idle"
  /\ prefix = <<>> /\ pattern = compile_prefix(<<>>)
  /\ key \in Keys /\ y = {} /\ matched = FALSE
  /\ text = <<>> /\ parsed = Unexpected("bad_length")

\* main() compiles the prefix the user asked for.
Compile ==
  /\ pc = "recovered"
  /\ \E p \in Requests : prefix' = p /\ pattern' = compile_prefix(p)
  /\ pc' = "compiled"
  /\ UNCHANGED <<key, y, matched, text, parsed>>

\* An engine recovers the y of a key: the encoding of the product of Y and the
\* inverse of Z in one of the forms.
Recover ==
  /\ pc = "idle"
  /\ \E form \in Forms :
       LET Y == fe_from_bytes(form, FieldBits(key))
           zinv == fe_from_bytes(form, {0})
       IN y' = {StreamBit(n) : n \in fe_to_bytes(form, MulIn(form, Y, zinv))}
  /\ pc' = "recovered"
  /\ UNCHANGED <<prefix, pattern, key, matched, text, parsed>>

\* The prefix the user asked for, which main() has compiled, is compared with
\* the y alone, without the sign of x.
Match ==
  /\ pc = "compiled" /\ pattern.ok
  /\ matched' = matches(pattern.value, y)
  /\ pc' = "matched"
  /\ UNCHANGED <<prefix, pattern, key, y, text, parsed>>

Decode ==
  /\ pc = "idle"
  /\ \E s \in Texts \cup {base32_encode(SubSeq(key, 1, n)) : n \in 0..KeyBytes} :
       text' = s /\ parsed' = base32_decode(s)
  /\ pc' = "decoded"
  /\ UNCHANGED <<prefix, pattern, key, y, matched>>

\* An address is read, the key's own or one with a character replaced or left
\* out.
ParseAddress ==
  /\ pc = "idle"
  /\ LET own == onion_address_from_pubkey(key)
     IN \E s \in {own, Front(own)}
               \cup {ReplaceAt(own, n, c) : n \in 1..Len(own), c \in {0, 1, 16, Other}} :
          text' = s /\ parsed' = pubkey_from_onion_address(s)
  /\ pc' = "parsed"
  /\ UNCHANGED <<prefix, pattern, key, y, matched>>

Next == Recover \/ Compile \/ Match \/ Decode \/ ParseAddress

Spec == Init /\ [][Next]_vars

-----------------------------------------------------------------------------
(* Properties *)

\* The masked comparison of the y says exactly whether the address of the key
\* starts with the prefix, for every prefix that compiles: the engines neither
\* miss a key nor report one io::verify would refuse, and the sign of x, which
\* they do not know, never matters.
MatchIsPrefix ==
  pc = "matched" =>
    (matched <=> IsPrefix(prefix, onion_address_from_pubkey(key)))

\* base32_decode accepts the encoding of every sequence of bytes and gives the
\* bytes back, and accepts no other text: one key has one address.
TextIsCanonical ==
  pc = "decoded" =>
    /\ parsed.ok => base32_encode(parsed.value) = text
    /\ \A n \in 0..KeyBytes :
         text = base32_encode(SubSeq(key, 1, n)) => parsed = Expected(SubSeq(key, 1, n))

\* An address is accepted only if it is the address of the key that is
\* returned, and the address of a key always is.
AddressIsExact ==
  pc = "parsed" =>
    /\ parsed.ok => onion_address_from_pubkey(parsed.value) = text
    /\ text = onion_address_from_pubkey(key) => parsed = Expected(key)
=============================================================================
