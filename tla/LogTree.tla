------------------------------ MODULE LogTree ------------------------------
(***************************************************************************)
(* The log as its readers see it: a sequence of entries that only grows,   *)
(* the tree over it, and the proofs the server answers a fetch of keys     *)
(* with (routes/keys.rs, kt_cache.rs).  How the entries get there, and     *)
(* that they do, is KeyTransparency's; an entry here is an account and     *)
(* which of its bundles it is for.                                         *)
(***************************************************************************)
EXTENDS KeyTransparency, Merkle

CONSTANT MaxLeaves   \* bound on the entries of the log

VARIABLES
    entries,    \* the log, in the order of seq
    held        \* the last answer each account's observer got

Leaves == [i \in DOMAIN entries |-> leaf_hash(entries[i])]

\* index_by_user, counted from 0: a later entry overwrites an earlier one.
index_by_user(u) == SelectLastInSeq(entries, LAMBDA e : e.user = u) - 1

NoAnswer == [size |-> 0]

TreeInit == entries = <<>> /\ held = [u \in Users |-> NoAnswer]

\* A registration or a rotation of u is logged.
Append1(u) ==
    /\ Len(entries) < MaxLeaves
    /\ entries' = Append(entries, [user |-> u, bundle |-> index_by_user(u) + 2])
    /\ UNCHANGED held

\* A fetch of u's keys is answered with a proof for u's latest entry.
build_kt_proof(u) ==
    /\ index_by_user(u) >= 0
    /\ held' = [held EXCEPT ![u] =
                   [size |-> Len(entries), entry |-> entries[index_by_user(u) + 1],
                    proof |-> inclusion_proof(Leaves, index_by_user(u))]]
    /\ UNCHANGED entries

TreeNext == \E u \in Users : Append1(u) \/ build_kt_proof(u)

TreeSpec == TreeInit /\ [][TreeNext]_<<entries, held>>

----------------------------------------------------------------------------
(* Properties *)

\* kt_log.rs halves the leaves level by level and says that promoting the odd
\* node is "RFC-6962 style": for every log the root is the one RFC 6962 defines.
RootIsRFC6962 == entries # <<>> => compute_root(Leaves) = MTH(Leaves)

\* A proof the browser holds convinces it exactly while the log has not grown,
\* and exactly of the entry the proof was made for: not of another entry, not of
\* an older bundle of the account, not under a later root.  An observer that is
\* served another log would otherwise not notice.
HeldProofs ==
    LET root == compute_root(Leaves)
    IN  \A u \in Users : held[u] # NoAnswer =>
            \A e \in [user : Users, bundle : 1 .. MaxLeaves] :
                kt_verify_inclusion(leaf_hash(e), held[u].proof, root)
                    <=> held[u].size = Len(entries) /\ e = held[u].entry

\* compute_root is the tree hash of RFC 6962 for every log, and a held proof convinces
\* kt_verify_inclusion exactly of its entry, exactly while the log has not grown.
TreeProves == RootIsRFC6962 /\ HeldProofs
=============================================================================
