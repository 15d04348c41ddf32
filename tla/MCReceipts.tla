----------------------------- MODULE MCReceipts -----------------------------
(***************************************************************************)
(* Scenes for TLC: a file, and a text on an account with a linked device,  *)
(* each with two things going wrong; and a text and a file that were sent  *)
(* offline and are flushed together, with one.                             *)
(***************************************************************************)
EXTENDS Receipts

MCScenes ==
    {[msgs |-> Files, parked |-> <<>>, linked |-> FALSE, events |-> 2],
     [msgs |-> Texts, parked |-> <<>>, linked |-> TRUE, events |-> 2],
     [msgs |-> {}, parked |-> SetToSeq(Msgs), linked |-> FALSE, events |-> 1]}
=============================================================================
