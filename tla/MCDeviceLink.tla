---------------------------- MODULE MCDeviceLink ----------------------------
(* Scenes for TLC. *)
EXTENDS DeviceLink

\* One device with the code, sync switched on on both or on the exporter only.
Pair == {[holders |-> {"i"}, opted |-> o, faults |-> 1] : o \in {{Exporter, "i"}, {Exporter}}}

\* Two devices with the code, one of them with sync switched on.
Third == {[holders |-> {"i", "j"}, opted |-> {Exporter, "i"}, faults |-> 0]}

MCScenes == Pair \cup Third
==============================================================================
