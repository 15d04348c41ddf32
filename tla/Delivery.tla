------------------------------ MODULE Delivery ------------------------------
(***************************************************************************)
(* What the ticks under a sent message promise (docs/ARCHITECTURE.md, 13): *)
(* the status shown is never ahead of what happened.  "Sent" is shown only *)
(* of a message the server took; "delivered" and "read" only when the      *)
(* recipient, who had receipts of that kind on, got or viewed it.          *)
(***************************************************************************)
CONSTANTS
    Msgs,       \* messages
    Types       \* kinds of receipts

VARIABLES
    went,       \* messages the server has taken
    agreed,     \* <<m, t>>: the recipient agreed to confirm m so
    shown       \* the status the sender sees, "none" without a row

Init ==
    /\ went = {}
    /\ agreed = {}
    /\ shown \in [Msgs -> {"none", "queued"}]

Leave(m) ==
    /\ went' = went \cup {m}
    /\ UNCHANGED <<agreed, shown>>

Agree(m, t) ==
    /\ m \in went
    /\ agreed' = agreed \cup {<<m, t>>}
    /\ UNCHANGED <<went, shown>>

Truthful(m, s) ==
    CASE s = "sent" -> m \in went
      [] s \in Types -> <<m, s>> \in agreed
      [] OTHER -> s \in {"none", "queued", "failed"}

Show(m, s) ==
    /\ Truthful(m, s)
    /\ shown' = [shown EXCEPT ![m] = s]
    /\ UNCHANGED <<went, agreed>>

\* The conversation is deleted.
Forget ==
    /\ shown' = [m \in Msgs |-> "none"]
    /\ UNCHANGED <<went, agreed>>

Next ==
    \/ \E m \in Msgs : Leave(m)
    \/ \E m \in Msgs, t \in Types : Agree(m, t)
    \/ \E m \in Msgs, s \in {"none", "queued", "sent", "failed"} \cup Types : Show(m, s)
    \/ Forget

Spec == Init /\ [][Next]_<<went, agreed, shown>>
=============================================================================
