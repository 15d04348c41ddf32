------------------------------ MODULE MCAccount ------------------------------
(***************************************************************************)
(* The scenes of Account for TLC: a first device that is onboarded, and a  *)
(* second one that recovers the account by each of the three ways.         *)
(***************************************************************************)
EXTENDS Account

MCScenes == {[old |-> FALSE, methods |-> {"password", "seed"}, events |-> 3],
             [old |-> TRUE, methods |-> {"password", "seed"}, events |-> 3],
             [old |-> TRUE, methods |-> {"contacts"}, events |-> 3],
             [old |-> TRUE, methods |-> {"contacts", "seed"}, events |-> 2]}
=============================================================================
