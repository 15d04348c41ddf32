----------------------------- MODULE MCMailbox -----------------------------
(* Small instances of Mailbox for TLC. *)
EXTENDS Mailbox, TLC

\* The first message is larger, so that either cap can be the one that bites.
MCSize == [m \in Msgs |-> IF m = 1 THEN 3 ELSE 1]

\* A lifetime below the floor.
MCTtlBelow == {-2}

\* Connections are interchangeable, and so are accounts: nothing but the order in
\* which connections registered tells them apart.
Symmetry == Permutations(Conns) \cup Permutations(Users)
============================================================================
