------------------------------- MODULE Merkle -------------------------------
(***************************************************************************)
(* The Merkle tree of the key transparency log (server/src/crypto/         *)
(* kt_log.rs) and the check the browser makes of an inclusion proof        *)
(* (packages/crypto-wasm/src/kt.rs).                                       *)
(*                                                                         *)
(* SHA-256 is symbolic: the hash of a value is the tagged value, so two    *)
(* hashes are equal only if what was hashed is.                            *)
(***************************************************************************)
EXTENDS Integers, Sequences

leaf_hash(e) == <<"0x00", e>>
node_hash(left, right) == <<"0x01", left, right>>
ZeroRoot == <<>>

----------------------------------------------------------------------------
(* The algorithms of kt_log.rs *)

\* One level up: neighbours are hashed together, an odd last node is promoted.
Halved(level) ==
    [i \in 1 .. (Len(level) + 1) \div 2 |->
        IF 2 * i <= Len(level) THEN node_hash(level[2 * i - 1], level[2 * i])
                               ELSE level[2 * i - 1]]

\* The levels of the tree, the leaves first.  The code stops at a level of one node;
\* halving that one changes nothing, so the last of these is where it stopped.
Levels(leaves) ==
    LET lev[k \in 0 .. Len(leaves)] == IF k = 0 THEN leaves ELSE Halved(lev[k - 1])
    IN  lev

compute_root(leaves) ==
    IF leaves = <<>> THEN ZeroRoot ELSE Head(Levels(leaves)[Len(leaves)])

\* Mutant: the last node of an odd level is given its left neighbour.
Sibling_OddToo(level, idx) ==
    IF idx + 1 < Len(level) /\ idx % 2 = 0
    THEN <<[left |-> FALSE, hash |-> level[idx + 2]]>>
    ELSE IF idx > 0 THEN <<[left |-> TRUE, hash |-> level[idx]]>> ELSE <<>>

\* The sibling of node idx, counted from 0, if it has one.
Sibling(level, idx) ==
    IF idx % 2 = 1 THEN <<[left |-> TRUE, hash |-> level[idx]]>>
    ELSE IF idx + 1 < Len(level) THEN <<[left |-> FALSE, hash |-> level[idx + 2]]>>
    ELSE <<>>

\* Where leaf idx and the nodes above it stand in the first n levels.
Positions(idx, n) ==
    LET pos[k \in 0 .. n] == IF k = 0 THEN idx ELSE pos[k - 1] \div 2
    IN  pos

\* The siblings met on the way up.
inclusion_proof(leaves, idx) ==
    LET path[k \in 0 .. Len(leaves)] ==
            IF k = 0 THEN <<>>
            ELSE path[k - 1] \o Sibling(Levels(leaves)[k - 1],
                                        Positions(idx, Len(leaves))[k - 1])
    IN  path[Len(leaves)]

Up(node, h) ==
    IF node.left THEN node_hash(node.hash, h) ELSE node_hash(h, node.hash)

\* The browser's mirror of verify_inclusion, node by node from the leaf.
kt_verify_inclusion(leaf, proof, root) ==
    LET h[k \in 0 .. Len(proof)] == IF k = 0 THEN leaf ELSE Up(proof[k], h[k - 1])
    IN  h[Len(proof)] = root

----------------------------------------------------------------------------
(* The tree RFC 6962 defines *)

\* The largest power of two that is smaller than n.
Split(n) == CHOOSE p \in {2^j : j \in 0 .. n} : p < n /\ n <= 2 * p

\* The Merkle tree hash of the leaves a to b, for every a and b: the first subtree
\* holds the largest power of two of them that is smaller than their number.
RangeHashes(leaves) ==
    LET mth[r \in (1 .. Len(leaves)) \X (1 .. Len(leaves))] ==
            LET k == Split(r[2] - r[1] + 1)
            IN  IF r[1] >= r[2] THEN leaves[r[1]]
                ELSE node_hash(mth[<<r[1], r[1] + k - 1>>], mth[<<r[1] + k, r[2]>>])
    IN  mth

MTH(leaves) == RangeHashes(leaves)[<<1, Len(leaves)>>]
=============================================================================
