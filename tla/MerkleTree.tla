----------------------------- MODULE MerkleTree -----------------------------
(***************************************************************************)
(* The binary SHA3-256 Merkle tree of internal/merkle/tree.go: tree        *)
(* construction with odd-node promotion, inclusion proofs and their        *)
(* verification, as pure operators over a sequence of leaves.  SHA3-256 is *)
(* abstracted by free constructors: a leaf hash is <<"leaf", data>> and a  *)
(* node hash <<"node", left, right>>, so two hashes are equal exactly when *)
(* their inputs are (collision resistance; the 0x00 / 0x01 prefixes keep   *)
(* leaf and node hashes apart).  Indexes are 0-based, as in the code.      *)
(***************************************************************************)
EXTENDS Integers, Sequences, SequencesExt

(* hashLeaf: SHA3-256(0x00 || data).                                       *)
HashLeaf(data) == <<"leaf", data>>

(* hashNode: SHA3-256(0x01 || left || right).                              *)
HashNode(left, right) == <<"node", left, right>>

(* Mutant: an odd last node paired with itself instead of promoted.        *)
NextLevelDuplicateOdd(level) ==
  [i \in 1..((Len(level) + 1) \div 2) |->
     IF 2 * i <= Len(level) THEN HashNode(level[2 * i - 1], level[2 * i])
     ELSE HashNode(level[2 * i - 1], level[2 * i - 1])]

(* One pass of the bottom-up loop: pairs are hashed, an unpaired last node *)
(* is promoted unchanged.                                                  *)
NextLevel(level) ==
  [i \in 1..((Len(level) + 1) \div 2) |->
     IF 2 * i <= Len(level) THEN HashNode(level[2 * i - 1], level[2 * i])
     ELSE level[2 * i - 1]]

LeafLevel(leaves) == [i \in 1..Len(leaves) |-> HashLeaf(leaves[i])]

(* The `for len(currentLevel) > 1` loop of NewTree.                        *)
RECURSIVE BuildFrom(_, _)
BuildFrom(level, height) ==
  IF Len(level) = 1 THEN [root |-> level[1], height |-> height]
  ELSE BuildFrom(NextLevel(level), height + 1)

(* NewTree on a non-empty leaf sequence: its root and its height.  An      *)
(* empty sequence is an error in the code and has no tree here.            *)
NewTree(leaves) == BuildFrom(LeafLevel(leaves), 0)

(* Mutant: the index not halved when moving up a level.                   *)
RECURSIVE PathStepsNoHalve(_, _)
PathStepsNoHalve(level, idx) ==
  IF Len(level) <= 1 THEN <<>>
  ELSE LET step == IF idx % 2 = 0
                     THEN IF idx + 1 < Len(level)
                            THEN <<[hash |-> level[idx + 2], isRight |-> TRUE]>>
                            ELSE <<>>
                     ELSE <<[hash |-> level[idx], isRight |-> FALSE]>>
       IN step \o PathStepsNoHalve(NextLevel(level), idx)

(* The loop of Tree.Proof from one level up: a left child takes its right  *)
(* sibling if there is one, a right child its left sibling; a promoted     *)
(* node contributes no step.                                               *)
RECURSIVE PathSteps(_, _)
PathSteps(level, idx) ==
  IF Len(level) <= 1 THEN <<>>
  ELSE LET step == IF idx % 2 = 0
                     THEN IF idx + 1 < Len(level)
                            THEN <<[hash |-> level[idx + 2], isRight |-> TRUE]>>
                            ELSE <<>>
                     ELSE <<[hash |-> level[idx], isRight |-> FALSE]>>
       IN step \o PathSteps(NextLevel(level), idx \div 2)

(* Tree.Proof(index), for 0 <= index < number of leaves.                   *)
InclusionPath(leaves, index) == PathSteps(LeafLevel(leaves), index)

(* VerifyProof: fold the path into the leaf hash and compare with root.    *)
VerifyInclusion(leafData, path, root) ==
  LET Climb(current, p) == IF p.isRight THEN HashNode(current, p.hash)
                           ELSE HashNode(p.hash, current)
  IN FoldLeft(Climb, HashLeaf(leafData), path) = root

-----------------------------------------------------------------------------
(* Reference definitions, written independently of the code.              *)

(* The Certificate Transparency tree hash (RFC 6962, 2.1): split at the    *)
(* largest power of two below the number of leaves.                        *)
RECURSIVE PowerBelow(_, _)
PowerBelow(n, k) == IF 2 * k < n THEN PowerBelow(n, 2 * k) ELSE k

RECURSIVE ReferenceRoot(_)
ReferenceRoot(leaves) ==
  IF Len(leaves) = 1 THEN HashLeaf(leaves[1])
  ELSE LET k == PowerBelow(Len(leaves), 1)
       IN HashNode(ReferenceRoot(SubSeq(leaves, 1, k)),
                   ReferenceRoot(SubSeq(leaves, k + 1, Len(leaves))))

=============================================================================
