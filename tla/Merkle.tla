------------------------------- MODULE Merkle -------------------------------
(***************************************************************************)
(* The Merkle tree over the audit log's entries and its inclusion proofs   *)
(* (src/covenant/merkle.py). SHA-256 is taken to be injective and leaves   *)
(* and nodes are hashed with different prefixes, so a hash is a term: the  *)
(* entry, or the pair of hashes, that it was computed from.                *)
(***************************************************************************)
EXTENDS Integers, Sequences, SequencesExt

LeafHash(entry) == [leaf |-> entry]
NodeHash(left, right) == [left |-> left, right |-> right]

Leaves(entries) == [i \in DOMAIN entries |-> LeafHash(entries[i])]

(* The last node of an odd level is paired with itself. Nodes are counted  *)
(* from 0, as the code counts them.                                        *)
NodeAt(level, i) == level[i + 1]
PairedWith(level, i) == IF i + 1 < Len(level) THEN i + 1 ELSE i

LevelAbove(level) ==
    [n \in 1..((Len(level) + 1) \div 2) |->
        LET i == 2 * (n - 1)
        IN  NodeHash(NodeAt(level, i), NodeAt(level, PairedWith(level, i)))]

(* One level after the other is built, until there is one of a single node.*)
Built(leaves) ==
    LET level[k \in 0..Len(leaves)] ==
            IF k = 0 THEN leaves ELSE LevelAbove(level[k - 1])
    IN  level

Height(leaves) == CHOOSE h \in 0..Len(leaves) :
    /\ Len(Built(leaves)[h]) <= 1
    /\ \A k \in 0..(h - 1) : Len(Built(leaves)[k]) > 1

Levels(leaves) == [k \in 0..Height(leaves) |-> Built(leaves)[k]]

Root(leaves) == Levels(leaves)[Height(leaves)][1]

(* The sibling a proof names at a level, and the side it stands on.        *)
SiblingPastTheEnd(level, i) ==      \* wrong on purpose: the last node has none
    IF i % 2 = 1 THEN i - 1 ELSE IF i + 1 < Len(level) THEN i + 1 ELSE i - 1

Sibling(level, i) == IF i % 2 = 1 THEN i - 1 ELSE PairedWith(level, i)

(* The place of the leaf, or of the node above it, at every level.         *)
Places(leaves, index) ==
    LET place[k \in 0..Height(leaves)] == IF k = 0 THEN index ELSE place[k - 1] \div 2
    IN  place

InclusionProof(leaves, index) ==
    [k \in 1..Height(leaves) |->
        LET level == Levels(leaves)[k - 1]
            i == Places(leaves, index)[k - 1]
        IN  [sibling |-> NodeAt(level, Sibling(level, i)),
             side |-> IF i % 2 = 1 THEN "L" ELSE "R"]]

FoldProof(leaf, proof) ==
    FoldLeft(LAMBDA acc, step : IF step.side = "L" THEN NodeHash(step.sibling, acc)
                                ELSE NodeHash(acc, step.sibling),
             leaf, proof)
=============================================================================
