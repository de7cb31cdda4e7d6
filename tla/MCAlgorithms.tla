---------------------------- MODULE MCAlgorithms ----------------------------
(***************************************************************************)
(* Checks the pure operators of MerkleTree and DIDKey over bounded inputs. *)
(* A behaviour builds one input: either a leaf sequence over a small       *)
(* alphabet, one line at a time up to MaxLeaves lines (the day-file grows  *)
(* one line at a time, and every prefix is a leaf sequence BuildBatch may  *)
(* read), or a public key of PublicKeySize bytes, any byte value.          *)
(***************************************************************************)
EXTENDS MerkleTree, DIDKey, TLC

CONSTANTS Data, MaxLeaves

VARIABLES leaves, key

vars == <<leaves, key>>

AppendLine ==
  /\ key = <<>> /\ Len(leaves) < MaxLeaves
  /\ \E d \in Data : leaves' = Append(leaves, d)
  /\ UNCHANGED key

DrawKey ==
  /\ key = <<>> /\ leaves = <<>>
  /\ \E k \in [1..PublicKeySize -> Bytes] : key' = k
  /\ UNCHANGED leaves

Finished == (Len(leaves) = MaxLeaves \/ key # <<>>) /\ UNCHANGED vars

Init == leaves = <<>> /\ key = <<>>
Next == AppendLine \/ DrawKey \/ Finished
Spec == Init /\ [][Next]_vars

TypeOK == leaves \in Seq(Data) /\ Len(leaves) <= MaxLeaves

Tree == NewTree(leaves)

(* NewTree's bottom-up construction with promotion of the odd last node    *)
(* yields the RFC 6962 tree hash, which splits at the largest power of two *)
(* below the leaf count, for every leaf count.                             *)
RootMatchesReference ==
  leaves # <<>> => Tree.root = ReferenceRoot(leaves)

(* Tree.Proof(i) checked with VerifyProof accepts the i-th line and no     *)
(* other data, at every index, including nodes promoted over a level.      *)
InclusionSoundAndComplete ==
  leaves # <<>> =>
    \A i \in 0..(Len(leaves) - 1), d \in Data :
      VerifyInclusion(d, InclusionPath(leaves, i), Tree.root) <=> d = leaves[i + 1]

(* DID strings near the encoding of a key: another scheme, an empty body,  *)
(* one character replaced, inserted or removed (a leading "1" among them), *)
(* and the encodings of a key one byte short or one byte long.             *)
Variants(d) ==
  LET b == d.body IN
  {[d EXCEPT !.prefix = "other"], [d EXCEPT !.body = <<>>],
   EncodeDIDKey(Front(key)), EncodeDIDKey(key \o <<0>>)}
  \cup {[d EXCEPT !.body = ReplaceAt(b, i, c)] : i \in DOMAIN b, c \in Chars}
  \cup {[d EXCEPT !.body = InsertAt(b, i, c)] : i \in 1..(Len(b) + 1), c \in Chars}
  \cup {[d EXCEPT !.body = RemoveAt(b, i)] : i \in DOMAIN b}

(* DecodeDIDKey gives back every key EncodeDIDKey wrote (users add and     *)
(* install store the DID of the key they generate, and Verify resolves the *)
(* signing key from that DID), whatever its byte values.                   *)
DIDKeyRoundTrip ==
  key # <<>> => DecodeDIDKey(EncodeDIDKey(key)) = [err |-> "none", key |-> key]

(* A DID string DecodeDIDKey accepts is exactly the string EncodeDIDKey    *)
(* writes for the key it returns: no second spelling of a key gets past    *)
(* the base58, multicodec and length checks (a leading "1" is a zero byte, *)
(* a wrong digit another number).                                          *)
DIDKeyAcceptsOnlyCanonical ==
  key # <<>> =>
    \A d \in Variants(EncodeDIDKey(key)) :
      LET r == DecodeDIDKey(d) IN r.err = "none" => EncodeDIDKey(r.key) = d
=============================================================================
