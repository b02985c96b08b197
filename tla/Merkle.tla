------------------------------- MODULE Merkle -------------------------------
(***************************************************************************)
(* merkle.py: the root of a batch, and the proof that a digest is in it.   *)
(* A hash of two is the pair of them, and a digest of an event is neither  *)
(* (the code has no prefix that keeps leaves and nodes apart).             *)
(***************************************************************************)
EXTENDS Integers, Sequences, FiniteSets

CONSTANTS Digests, MaxBatch

(* What a node h levels above the leaves can be.                           *)
Nodes[h \in 0..MaxBatch] == IF h = 0 THEN Digests ELSE Nodes[h - 1] \X Nodes[h - 1]

ASSUME MerkleAssumption ==
    /\ MaxBatch \in Nat \ {0}
    /\ \A h \in 1..MaxBatch : Digests \cap Nodes[h] = {}

VARIABLES
    batch,      \* leaves
    level,      \* the level that is looked at, from the leaves
    leaf, idx,  \* the index proved, and the index on this level, from 1
    siblings    \* with the side each is on

mvars == <<batch, level, leaf, idx, siblings>>

Batches == UNION {[1..n -> Digests] : n \in 1..MaxBatch}

HashPair(left, right) == <<left, right>>

(* An odd level repeats its last node.                                     *)
Padded(nodes) == IF Len(nodes) % 2 = 1 THEN Append(nodes, nodes[Len(nodes)]) ELSE nodes

Above(nodes) ==
    LET padded == Padded(nodes)
    IN  [i \in 1 .. Len(padded) \div 2 |-> HashPair(padded[2 * i - 1], padded[2 * i])]

(* build_merkle_batch: a level is shorter than the one below it, so there  *)
(* are fewer levels than leaves.                                           *)
Root(leaves) ==
    LET levels[h \in 0..Len(leaves)] ==
            IF h = 0 THEN leaves
            ELSE IF Len(levels[h - 1]) = 1 THEN levels[h - 1] ELSE Above(levels[h - 1])
    IN  levels[Len(leaves)][1]

(* Mutation of Combined: the side a sibling is on is ignored.              *)
CombinedRightwards(running, step) == HashPair(running, step.node)

Combined(running, step) ==
    IF step.side = "R" THEN HashPair(running, step.node) ELSE HashPair(step.node, running)

(* verify_inclusion *)
Verifies(root, digest, proof) ==
    LET running[i \in 0..Len(proof)] ==
            IF i = 0 THEN digest ELSE Combined(running[i - 1], proof[i])
    IN  running[Len(proof)] = root

MerkleInit ==
    /\ batch \in Batches
    /\ level = batch /\ siblings = <<>>
    /\ leaf \in DOMAIN batch /\ idx = leaf

(* inclusion_proof: the sibling on this level, and up.                     *)
Climb ==
    LET left == idx % 2 = 1
    IN  /\ Len(level) > 1
        /\ siblings' = Append(siblings, [node |-> Padded(level)[IF left THEN idx + 1 ELSE idx - 1],
                                         side |-> IF left THEN "R" ELSE "L"])
        /\ level' = Above(level)
        /\ idx' = (idx + 1) \div 2
        /\ UNCHANGED <<batch, leaf>>

-----------------------------------------------------------------------------
(* Properties.                                                             *)

Repeats(leaves) == \E i, j \in DOMAIN leaves : i # j /\ leaves[i] = leaves[j]

(* A proof is that of its leaf: it leads from the leaf to the anchored     *)
(* root and from no other digest.  And the root stands for the batch: of   *)
(* batches of one length no other has it, and of another length only one   *)
(* in which a digest is repeated, as padding does.                         *)
(* Code: merkle.py:40-82.                                                  *)
ProofsFitTheirBatch ==
    Len(level) = 1 =>
    LET root == Root(batch)
    IN  /\ \A d \in Digests : Verifies(root, d, siblings) <=> d = batch[leaf]
        /\ \A other \in Batches \ {batch} :
              Root(other) = root => Len(other) # Len(batch) /\ (Repeats(other) \/ Repeats(batch))
=============================================================================
