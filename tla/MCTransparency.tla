--------------------------- MODULE MCTransparency ---------------------------
(***************************************************************************)
(* A small instance of the key transparency log: the writers, the repair   *)
(* and the readers of KeyTransparency, and the tree of LogTree over longer *)
(* logs than those can grow. TLC explores the one, then the other.         *)
(***************************************************************************)
EXTENDS LogTree

VARIABLE tree   \* which of the two

treeVars == <<entries, held, tree>>
InLog == ~tree /\ UNCHANGED treeVars
InTree == tree /\ UNCHANGED <<vars, tree>>

MCInit == Init /\ TreeInit /\ tree \in BOOLEAN

MCNext ==
    \/ InLog /\ DatabaseCrash
    \/ InLog /\ RepairRead
    \/ InLog /\ RepairTail
    \/ InLog /\ RepairWrite
    \/ \E u \in Users : InLog /\ RegisterRead(u)
    \/ \E u \in Users : InLog /\ RegisterInsert(u)
    \/ \E u \in Users : InLog /\ RegisterCommit(u)
    \/ \E u \in Users : InLog /\ RotateUpdate(u)
    \/ \E u \in Users : InLog /\ RotateRead(u)
    \/ \E u \in Users : InLog /\ append_entry(u)
    \/ \E u \in Users : InLog /\ RotateCommit(u)
    \/ \E u \in Users : InLog /\ RotateAnswered(u)
    \/ \E u \in Users : InLog /\ RotateDropped(u)
    \/ \E f \in Fetchers, u \in Users : InLog /\ get_key(f, u)
    \/ \E f \in Fetchers : InLog /\ FetchGen(f)
    \/ \E f \in Fetchers : InLog /\ FetchLock(f)
    \/ \E f \in Fetchers : InLog /\ FetchScan(f)
    \/ \E u \in Users : InTree /\ Append1(u)
    \/ \E u \in Users : InTree /\ build_kt_proof(u)

MCSpec == MCInit /\ [][MCNext]_<<vars, treeVars>>
=============================================================================
