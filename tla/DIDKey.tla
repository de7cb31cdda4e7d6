------------------------------- MODULE DIDKey -------------------------------
(***************************************************************************)
(* EncodeDIDKey and DecodeDIDKey of internal/did/didkey.go as pure         *)
(* operators over byte sequences, with the base58btc coding of the        *)
(* mr-tron/base58 library that both call modelled by what it computes: a  *)
(* leading zero byte is the character "1", and the rest of the bytes, read *)
(* as one big-endian number, is written in base 58, most significant      *)
(* digit first.  The number is kept as a digit sequence, never as one     *)
(* integer, as it has 34 bytes in the code.                               *)
(*                                                                         *)
(* A character of a base58btc string is its index in the alphabet         *)
(* "123456789ABC...xyz" ("1" is 0, "z" is 57), or Bad for any character   *)
(* outside it.  A DID string is split at the literal "did:key:z" that     *)
(* DecodeDIDKey tests with strings.HasPrefix: prefix is "did:key:z" when  *)
(* the string starts with it and "other" when it does not, and body is    *)
(* the rest.  PublicKeySize is ed25519.PublicKeySize (32 in the code).    *)
(***************************************************************************)
EXTENDS Integers, Sequences, SequencesExt

CONSTANTS
  PublicKeySize,  \* ed25519.PublicKeySize
  Bad             \* model value: a character outside the alphabet

ASSUME PublicKeySize \in Nat \ {0}

Bytes == 0..255
Chars == (0..57) \cup {Bad}

(* ed25519MulticodecPrefix: 0xed 0x01.                                     *)
Ed25519MulticodecPrefix == <<237, 1>>

RECURSIVE LeadingZeros(_)
LeadingZeros(s) == IF s # <<>> /\ Head(s) = 0 THEN 1 + LeadingZeros(Tail(s)) ELSE 0

Zeros(k) == [i \in 1..k |-> 0]

(* The big-endian digits of n in base b, without leading zeros.           *)
RECURSIVE DigitsOf(_, _)
DigitsOf(n, b) == IF n = 0 THEN <<>> ELSE Append(DigitsOf(n \div b, b), n % b)

(* num * m + carry, with num and the result big-endian digits in base c:  *)
(* one pass of the carry from the least significant digit up.             *)
RECURSIVE MulAdd(_, _, _, _)
MulAdd(num, m, carry, c) ==
  IF num = <<>> THEN DigitsOf(carry, c)
  ELSE LET t == Last(num) * m + carry
       IN Append(MulAdd(Front(num), m, t \div c, c), t % c)

(* The digits in base c of the number the base-b digits s stand for,       *)
(* without leading zeros: each digit of s multiplied in, most significant  *)
(* first, as the library does over its arrays of limbs.                    *)
RECURSIVE Convert(_, _, _)
Convert(s, b, c) ==
  IF s = <<>> THEN <<>> ELSE MulAdd(Convert(Front(s), b, c), b, Last(s), c)

(* base58.Encode.                                                          *)
Base58Encode(bytes) ==
  Zeros(LeadingZeros(bytes)) \o Convert(bytes, 256, 58)

(* Mutant: leading "1" characters not turned back into zero bytes.         *)
Base58DecodeDropsZeros(s) ==
  IF \E i \in DOMAIN s : s[i] = Bad
    THEN [ok |-> FALSE, bytes |-> <<>>]
    ELSE [ok |-> TRUE, bytes |-> Convert(s, 58, 256)]

(* base58.Decode: an error on a character outside the alphabet.  The      *)
(* empty body decodes to no bytes, or to an error; DecodeDIDKey rejects   *)
(* it either way.                                                          *)
Base58Decode(s) ==
  IF \E i \in DOMAIN s : s[i] = Bad
    THEN [ok |-> FALSE, bytes |-> <<>>]
    ELSE [ok |-> TRUE, bytes |-> Zeros(LeadingZeros(s)) \o Convert(s, 58, 256)]

(* EncodeDIDKey: "did:key:z" and the base58btc of prefix and key.          *)
EncodeDIDKey(pub) ==
  [prefix |-> "did:key:z", body |-> Base58Encode(Ed25519MulticodecPrefix \o pub)]

Fail(reason) == [err |-> reason, key |-> <<>>]

(* Mutant: the multicodec prefix stripped one byte short.                  *)
DecodeDIDKeyStripsShort(did) ==
  LET dec == Base58Decode(did.body)
      b == dec.bytes
  IN CASE did.prefix # "did:key:z"                    -> Fail("invalid_format")
       [] ~dec.ok                                     -> Fail("base58")
       [] Len(b) < Len(Ed25519MulticodecPrefix)       -> Fail("too_short")
       [] SubSeq(b, 1, 2) # Ed25519MulticodecPrefix   -> Fail("invalid_multicodec")
       [] Len(b) - 1 # PublicKeySize                  -> Fail("invalid_length")
       [] OTHER -> [err |-> "none", key |-> SubSeq(b, 2, Len(b))]

(* DecodeDIDKey: each check in the order of the code, the first failing   *)
(* one returning its error.                                                *)
DecodeDIDKey(did) ==
  LET dec == Base58Decode(did.body)
      b == dec.bytes
  IN CASE did.prefix # "did:key:z"                    -> Fail("invalid_format")
       [] ~dec.ok                                     -> Fail("base58")
       [] Len(b) < Len(Ed25519MulticodecPrefix)       -> Fail("too_short")
       [] SubSeq(b, 1, 2) # Ed25519MulticodecPrefix   -> Fail("invalid_multicodec")
       [] Len(b) - 2 # PublicKeySize                  -> Fail("invalid_length")
       [] OTHER -> [err |-> "none", key |-> SubSeq(b, 3, Len(b))]

=============================================================================
