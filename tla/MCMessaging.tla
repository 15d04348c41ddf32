---------------------------- MODULE MCMessaging ----------------------------
(* Small instances of Messaging for TLC. *)
EXTENDS Messaging

Quietly == [start |-> "talking", acts |-> {}, active |-> {"a"}, made |-> 0,
            faults |-> 0, offline |-> 0, recoveries |-> 0]

\* One client writes to a contact and may remove it; sends are cut off, parked
\* and posted twice, deliveries repeated and reordered.
OneWay == [Quietly EXCEPT !.acts = {"text", "remove"}, !.made = 3, !.faults = 2,
                          !.offline = 1]

\* One client may lose its device, start over and write; "a" has the smaller id.
StartsOver(p) == [Quietly EXCEPT !.acts = {"add", "text"}, !.active = {p}, !.made = 3,
                                 !.offline = 1, !.recoveries = 1]

\* Strangers add each other at once; or one of them adds, writes, blocks and
\* unblocks the other.
Strangers == [Quietly EXCEPT !.start = "strangers", !.active = Clients, !.made = 1]

OneSided == {OneWay, StartsOver("a"), StartsOver("b")}
Mutual == {[Strangers EXCEPT !.acts = {"add"}, !.offline = 1],
           [Strangers EXCEPT !.acts = {"add", "text", "block"}, !.active = {"a"},
                             !.made = 2]}
============================================================================
