---------------------------- MODULE DeviceLink ----------------------------
(***************************************************************************)
(* Moving the history to a new device: the relay's rendezvous room         *)
(* (server ws/devlink.rs) between the exporter and the devices that scan   *)
(* its code (services/devicelink.ts, screens/DeviceTransfer.tsx).          *)
(*                                                                         *)
(* The relay's handlers run in parallel and share one table entry, the     *)
(* room.  A client is a single thread that switches at its awaits: frames  *)
(* are handled strictly in turn, and beside them run trySendReady, started *)
(* by the user's confirmation, and maybeStream.  Frames sealed under the   *)
(* channel of the exporter and an importer are marked with that importer;  *)
(* they open under that channel only.                                      *)
(***************************************************************************)
EXTENDS Naturals, Sequences, FiniteSets

CONSTANTS Importers,  \* devices that scan or are given the code
          Records,    \* how many records the exporter has
          Scenes      \* who has the code, who has cross-device sync switched on, and
                      \* how many connections break or transfers are cancelled

Exporter == "exporter"
Nobody == "nobody"

ASSUME EndsAssumption == {Exporter, Nobody} \cap Importers = {}
ASSUME RecordsAssumption == Records \in Nat

Ends == {Exporter} \cup Importers
Slots == {0, 1}

ASSUME ScenesAssumption ==
    Scenes \subseteq [holders : SUBSET Importers, opted : SUBSET Ends, faults : Nat]

VARIABLES
    \* the relay
    listed,     \* there is an entry for the rendezvous id
    peers,      \* Room.peers
    slot, srv,  \* the slot a handler took, and where the handler is
    \* the wire
    out, net,   \* frames from a client, and to it, the ones it has received and
                \* not yet handled (chain) at the front
    \* the clients
    sock,       \* "new", "open" (connecting included), "closed", or "lost": closed
                \* before anybody listened
    hooked,     \* the handlers of frames and of the close are installed
    key,        \* the channel key: the importer it is shared with
    confirmed,  \* whose code the user has said to match
    task,       \* trySendReady: where it is (sentReady is set when it starts), and the
                \* key it is about to use
    peerReady,
    stream,     \* maybeStream: 0, or the frame it sends next, or past the last
    awaiting,   \* the exporter's frame handler awaits the stream
    total, got, \* what an importer was announced, and has imported
    holders, opted,  \* importers with the code; devices with sync switched on
    linked,     \* linked_devices
    outcome,    \* how a transfer ended, as its caller learns it
    faults      \* connections that may still break, or transfers be cancelled

relay == <<listed, peers, slot, srv>>
wire == <<out, net>>
world == <<holders, opted, faults>>
user == <<confirmed, world>>
exporter == <<peerReady, stream, awaiting>>
importer == <<total, got>>
vars == <<relay, wire, sock, hooked, key, user, task, exporter, importer, linked,
          outcome>>

Plain(t, who) == [t |-> t, key |-> who, n |-> 0]
Enc(t, c, n) == [t |-> t, key |-> c, n |-> n]
Bye == Plain("close", Nobody)      \* a WebSocket close, in either direction
PeerLeft == Plain("peer_left", Nobody)

Idle == [at |-> "none", key |-> Nobody]

Manifest == 1
LastChunk == Manifest + Records
DoneFrame == LastChunk + 1
Streamed == DoneFrame + 1

Init ==
    /\ listed = FALSE /\ peers = [s \in Slots |-> Nobody]
    /\ slot = [c \in Ends |-> 0] /\ srv = [c \in Ends |-> "none"]
    /\ out = [c \in Ends |-> <<>>] /\ net = [c \in Ends |-> <<>>]
    /\ sock = [c \in Ends |-> "new"] /\ hooked = [c \in Ends |-> FALSE]
    /\ key = [c \in Ends |-> Nobody]
    /\ confirmed = [c \in Ends |-> Nobody] /\ task = [c \in Ends |-> Idle]
    /\ peerReady = FALSE /\ stream = 0 /\ awaiting = FALSE
    /\ total = [c \in Importers |-> 0] /\ got = [c \in Importers |-> <<>>]
    /\ \E s \in Scenes : holders = s.holders /\ opted = s.opted /\ faults = s.faults
    /\ linked = [c \in Ends |-> {}]
    /\ outcome = [c \in Ends |-> "none"]

----------------------------------------------------------------------------
(* The relay *)

\* A slot is taken under the entry's lock, the entry made if need be; a full room
\* sends the socket away.  (Clients ignore the peer_joined that follows.)
Join(c) ==
    /\ sock[c] # "new" /\ srv[c] = "none"
    /\ \/ \E s \in Slots :
            /\ peers[s] = Nobody /\ \A r \in Slots : r < s => peers[r] # Nobody
            /\ peers' = [peers EXCEPT ![s] = c]
            /\ slot' = [slot EXCEPT ![c] = s]
            /\ srv' = [srv EXCEPT ![c] = "run"]
            /\ listed' = TRUE
            /\ net' = net
       \/ /\ \A s \in Slots : peers[s] # Nobody
          /\ srv' = [srv EXCEPT ![c] = "gone"]
          /\ net' = [net EXCEPT ![c] = <<Bye>>]
          /\ UNCHANGED <<listed, peers, slot>>
    /\ UNCHANGED <<out, sock, hooked, key, user, task, exporter, importer, linked,
                   outcome>>

\* To whoever holds the other slot, while its handler has a channel to take it.
forward(c, frame) ==
    LET d == peers[1 - slot[c]] IN
    net' = IF listed /\ d # Nobody /\ srv[d] = "run" /\ sock[d] = "open"
           THEN [net EXCEPT ![d] = Append(@, frame)] ELSE net

\* One inbound message: a frame is forwarded, a close ends the handler's loop.
Relay(c) ==
    /\ srv[c] = "run" /\ out[c] # <<>>
    /\ IF Head(out[c]) = Bye
       THEN srv' = [srv EXCEPT ![c] = "exit"] /\ net' = net
       ELSE forward(c, Head(out[c])) /\ srv' = srv
    /\ out' = [out EXCEPT ![c] = Tail(@)]
    /\ UNCHANGED <<listed, peers, slot, sock, hooked, key, user, task, exporter,
                   importer, linked, outcome>>

\* The handler's loop ends by itself: what was not yet written to the client never is.
EndSession(c) ==
    /\ srv[c] = "run"
    /\ srv' = [srv EXCEPT ![c] = "exit"]
    /\ out' = [out EXCEPT ![c] = <<>>]
    /\ \E k \in 0 .. Len(net[c]) :
        net' = [net EXCEPT ![c] = IF sock[c] = "open" THEN Append(SubSeq(@, 1, k), Bye)
                                                      ELSE @]
    /\ UNCHANGED <<listed, peers, slot, sock, hooked, key, confirmed, holders, opted,
                   task, exporter, importer, linked, outcome>>

\* A write fails, a frame is too large or the connection breaks, at any moment.
Broken(c) == faults > 0 /\ faults' = faults - 1 /\ EndSession(c)

\* The peer is told, and leave clears the slot under the entry's lock.  An empty room
\* is let go, and only then removed, whoever has joined it in between.
Leave(c) ==
    /\ srv[c] = "exit"
    /\ forward(c, PeerLeft)
    /\ IF listed
       THEN /\ peers' = [peers EXCEPT ![slot[c]] = Nobody]
            /\ srv' = [srv EXCEPT ![c] = IF peers[1 - slot[c]] = Nobody
                                         THEN "remove" ELSE "gone"]
       ELSE srv' = [srv EXCEPT ![c] = "gone"] /\ peers' = peers
    /\ UNCHANGED <<listed, slot, out, sock, hooked, key, user, task, exporter, importer,
                   linked, outcome>>

LeaveRemove(c) ==
    /\ srv[c] = "remove"
    /\ srv' = [srv EXCEPT ![c] = "gone"]
    /\ listed' = FALSE /\ peers' = [s \in Slots |-> Nobody]
    /\ UNCHANGED <<slot, wire, sock, hooked, key, user, task, exporter, importer,
                   linked, outcome>>

----------------------------------------------------------------------------
(* Either client *)

\* Transport.send: frames wait for the socket to open, and go nowhere once it is
\* closed.
Sent(c, frame) == IF sock[c] = "open" THEN [out EXCEPT ![c] = Append(@, frame)] ELSE out

\* A transfer is settled once; whoever settles it closes the socket: of the frames on
\* their way, those received already are still handled, and no other is received.
Settle(c, how, frames) ==
    /\ outcome' = [outcome EXCEPT ![c] = IF @ = "none" THEN how ELSE @]
    /\ sock' = [sock EXCEPT ![c] = "closed"]
    /\ out' = Sent(c, Bye)
    /\ \E k \in 0 .. Len(frames) :
        net' = [net EXCEPT ![c] = SelectSeq(SubSeq(frames, 1, k), LAMBDA f : f # Bye)]

\* fail does nothing to a transfer that is finished.
Fail(c, frames) == IF outcome[c] = "none" THEN Settle(c, "failed", frames)
                   ELSE /\ net' = [net EXCEPT ![c] = frames]
                        /\ UNCHANGED <<outcome, sock, out>>

\* What a handler that goes on leaves: the frame it took is gone.
Handled(c) == net' = [net EXCEPT ![c] = Tail(@)] /\ UNCHANGED <<outcome, sock, out>>

\* openTransport: the exporter first, and then who has its code.
Start(c) ==
    /\ sock[c] = "new"
    /\ c = Exporter \/ (c \in holders /\ hooked[Exporter])
    /\ sock' = [sock EXCEPT ![c] = "open"]
    /\ UNCHANGED <<relay, wire, hooked, key, user, task, exporter, importer, linked,
                   outcome>>

\* The keys are made: the exporter shows its code, an importer shows the digits to
\* compare and says hello.  What arrived before went unnoticed.
Hook(c) ==
    /\ sock[c] # "new" /\ ~hooked[c]
    /\ hooked' = [hooked EXCEPT ![c] = TRUE]
    /\ \E k \in 0 .. Len(net[c]) :
        /\ net' = [net EXCEPT ![c] = SubSeq(@, k + 1, Len(@))]
        /\ sock' = IF \E i \in 1 .. k : net[c][i] = Bye
                   THEN [sock EXCEPT ![c] = "lost"] ELSE sock
    /\ IF c = Exporter THEN UNCHANGED <<key, out>>
       ELSE key' = [key EXCEPT ![c] = c] /\ out' = Sent(c, Plain("hello", c))
    /\ UNCHANGED <<relay, user, task, exporter, importer, linked, outcome>>

\* Mutant: a lost connection is not noticed.
Disconnected_Deaf(c) ==
    /\ sock[c] = "open" /\ hooked[c] /\ net[c] # <<>> /\ net[c][Len(net[c])] = Bye
    /\ net' = [net EXCEPT ![c] = SubSeq(@, 1, Len(@) - 1)]
    /\ sock' = [sock EXCEPT ![c] = "closed"]
    /\ UNCHANGED <<relay, out, hooked, key, user, task, exporter, importer, linked, outcome>>

\* The close of the socket is acted upon at once, ahead of the frames that have come
\* before it and are still to be handled.
Disconnected(c) ==
    /\ sock[c] = "open" /\ hooked[c] /\ net[c] # <<>> /\ net[c][Len(net[c])] = Bye
    /\ net' = [net EXCEPT ![c] = SubSeq(@, 1, Len(@) - 1)]
    /\ sock' = [sock EXCEPT ![c] = "closed"]
    /\ outcome' = [outcome EXCEPT ![c] = IF @ = "none" THEN "failed" ELSE @]
    /\ UNCHANGED <<relay, out, hooked, key, user, task, exporter, importer, linked>>

\* The user says that the digits on the screen match: trySendReady starts.  (After a
\* failure the button is still there; the socket is closed and nobody sees the effect.)
Confirm(c) ==
    /\ key[c] # Nobody /\ confirmed[c] = Nobody /\ outcome[c] = "none"
    /\ confirmed' = [confirmed EXCEPT ![c] = IF c = Exporter THEN key[c] ELSE Exporter]
    /\ task' = [task EXCEPT ![c] = [at |-> "ready", key |-> key[c]]]
    /\ UNCHANGED <<relay, wire, sock, hooked, key, exporter, importer, world, linked,
                   outcome>>

\* trySendReady takes the key when it starts, and for the link when ready is sealed.
SendReady(c) ==
    /\ task[c].at = "ready"
    /\ task' = [task EXCEPT ![c] = [at |-> "link", key |-> key[c]]]
    /\ out' = Sent(c, Enc("ready", task[c].key, 0))
    /\ UNCHANGED <<relay, net, sock, hooked, key, user, exporter, importer, linked, outcome>>

\* Mutant: whoever finds both ready starts a stream.
MayStream_Again == task[Exporter] # Idle

\* Mutant: the peer's confirmation is enough.
MayStream_Unasked == stream = 0

\* The stream starts once, when we are ready and so is the peer.
MayStream == stream = 0 /\ task[Exporter] # Idle

\* sendLinkFrame, and for the exporter maybeStream.
SendLink(c) ==
    /\ task[c].at = "link"
    /\ task' = [task EXCEPT ![c].at = "sent"]
    /\ out' = IF c \in opted THEN Sent(c, Enc("link", task[c].key, 0)) ELSE out
    /\ stream' = IF c = Exporter /\ MayStream /\ peerReady THEN Manifest ELSE stream
    /\ UNCHANGED <<relay, net, sock, hooked, key, user, peerReady, awaiting,
                   importer, linked, outcome>>

Cancel(c) ==
    /\ hooked[c] /\ outcome[c] = "none"
    /\ faults > 0 /\ faults' = faults - 1
    /\ Settle(c, "failed", net[c])
    /\ UNCHANGED <<relay, hooked, key, confirmed, holders, opted,
                   task, exporter, importer, linked>>

handleLinkFrame(c, d) ==
    linked' = IF c \in opted THEN [linked EXCEPT ![c] = @ \cup {d}] ELSE linked

----------------------------------------------------------------------------
(* The exporter *)

\* handleFrame of runExport.
ExportFrame ==
    LET c == Exporter
        f == Head(net[c])
        sealed == f.t \in {"ready", "link"} /\ key[c] # Nobody
    IN
    /\ hooked[c] /\ net[c] # <<>> /\ f # Bye /\ (awaiting => stream >= Streamed)
    /\ key' = IF f.t = "hello" THEN [key EXCEPT ![c] = f.key] ELSE key
    /\ \/ /\ f.t = "peer_left" \/ (sealed /\ f.key # key[c])
          /\ Fail(c, Tail(net[c]))
          /\ UNCHANGED <<exporter, linked>>
       \/ /\ f.t = "ready" /\ sealed /\ f.key = key[c]
          /\ peerReady' = TRUE
          /\ IF MayStream THEN stream' = Manifest /\ awaiting' = TRUE
             ELSE UNCHANGED <<stream, awaiting>>
          /\ Handled(c) /\ UNCHANGED linked
       \/ /\ f.t = "link" /\ sealed /\ f.key = key[c]
          /\ handleLinkFrame(c, f.key)
          /\ Handled(c) /\ UNCHANGED exporter
       \/ /\ f.t = "hello" \/ (f.t \in {"ready", "link"} /\ ~sealed)
          /\ Handled(c) /\ UNCHANGED <<exporter, linked>>
    /\ UNCHANGED <<relay, hooked, user, task, importer>>

\* One round of maybeStream: the manifest, a record (unless the transfer has failed
\* meanwhile), or the last frame.
Stream ==
    LET c == Exporter
        chunk == Manifest < stream /\ stream <= LastChunk
    IN
    /\ stream \in Manifest .. DoneFrame
    /\ IF chunk /\ outcome[c] # "none"
       THEN stream' = Streamed /\ UNCHANGED <<out, outcome>>
       ELSE /\ stream' = stream + 1
            /\ out' = Sent(c, IF stream = Manifest THEN Enc("manifest", key[c], Records)
                              ELSE IF chunk THEN Enc("chunk", key[c], stream - Manifest)
                              ELSE Enc("done", key[c], 0))
            /\ outcome' = IF stream = DoneFrame /\ outcome[c] = "none"
                          THEN [outcome EXCEPT ![c] = "done"] ELSE outcome
    /\ UNCHANGED <<relay, net, sock, hooked, key, user, task, peerReady, awaiting,
                   importer, linked>>

\* Half a second later.
CloseStream ==
    /\ stream = Streamed /\ sock[Exporter] = "open"
    /\ Settle(Exporter, "done", net[Exporter])
    /\ UNCHANGED <<relay, hooked, key, user, task, exporter, importer, linked>>

----------------------------------------------------------------------------
(* An importer *)

\* handleFrame of runImport.
ImportFrame(c) ==
    LET f == Head(net[c]) IN
    /\ hooked[c] /\ net[c] # <<>> /\ f # Bye
    /\ \/ /\ f.t = "peer_left" \/ (f.t # "hello" /\ f.key # c)
          /\ Fail(c, Tail(net[c]))
          /\ UNCHANGED <<importer, linked>>
       \/ /\ f.t = "link" /\ f.key = c
          /\ handleLinkFrame(c, Exporter)
          /\ Handled(c) /\ UNCHANGED importer
       \/ /\ f.t = "manifest" /\ f.key = c
          /\ total' = [total EXCEPT ![c] = f.n]
          /\ Handled(c) /\ UNCHANGED <<got, linked>>
       \/ /\ f.t = "chunk" /\ f.key = c
          /\ got' = [got EXCEPT ![c] = Append(@, f.n)]
          /\ Handled(c) /\ UNCHANGED <<total, linked>>
       \/ /\ f.t = "done" /\ f.key = c
          /\ Settle(c, "done", Tail(net[c]))
          /\ UNCHANGED <<importer, linked>>
       \/ /\ f.t = "hello" \/ (f.t = "ready" /\ f.key = c)
          /\ Handled(c) /\ UNCHANGED <<importer, linked>>
    /\ UNCHANGED <<relay, hooked, key, user, task, exporter>>

----------------------------------------------------------------------------
Server(c) == Join(c) \/ Relay(c) \/ Leave(c) \/ LeaveRemove(c)

Client(c) == \/ Hook(c) \/ Disconnected(c) \/ SendReady(c) \/ SendLink(c)
             \/ c = Exporter /\ ExportFrame
             \/ c = Exporter /\ Stream
             \/ c = Exporter /\ CloseStream
             \/ c \in Importers /\ ImportFrame(c)

Busy == \E c \in Ends : Server(c) \/ Client(c)

\* The ten minutes of a session outlast whatever is under way: they end when the relay
\* and the tabs have nothing to do but wait for a user or for the clock.
Deadline(c) == EndSession(c) /\ faults' = faults /\ ~ENABLED Busy

Next == \E c \in Ends : \/ Start(c) \/ Confirm(c) \/ Cancel(c) \/ Broken(c) \/ Deadline(c)
                         \/ Server(c) \/ Client(c)

Spec == Init /\ [][Next]_vars

----------------------------------------------------------------------------
(* Properties *)

\* A new device that reports success has imported the whole history, each record
\* once and in order, though another tried the code and however the frames were
\* delayed.  (Of two devices that have the code.  With a third, the relay can remove a
\* room that somebody has just joined, and two of them reach one exporter.)
ImportComplete ==
    \A c \in Importers : outcome[c] = "done" =>
        /\ got[c] = [n \in 1 .. Records |-> n]
        /\ total[c] = Records

\* devicelink.ts: "the user confirms they match before any data flows": a device
\* imports only when its own user has confirmed, and the exporter's user has
\* confirmed the digits of this very device.  (Of two devices that have the code, as
\* above.)
CodesConfirmed ==
    \A c \in Importers : got[c] # <<>> =>
        confirmed[c] = Exporter /\ confirmed[Exporter] = c

\* "Mutual: both off (or either off) -> no link, no keys": a device is linked only if
\* both have the setting on and the other's user has confirmed this very device.  (The
\* exception: an exporter that has finished keeps its socket for half a second; whoever
\* joins then, while trySendReady is still sealing, is sent the link under his own key.)
LinkMutual ==
    \A c \in Ends : \A d \in linked[c] :
        {c, d} \subseteq opted /\ (confirmed[d] = c \/ outcome[d] = "done")

\* Neither history nor a link passes between two devices unless both users wanted it and
\* confirmed each other's digits (devicelink.ts).
BothConfirmed == CodesConfirmed /\ LinkMutual

\* Nobody waits for ever, though users may walk away, connections break with frames in
\* them and a hello may come before its reader: once the relay and the tabs have nothing
\* left to do and no session is running, every transfer has ended and its caller knows
\* how.  The exception is a connection closed before the handlers were installed, which
\* nobody hears of.  (Every step uses something up, so that point is reached.)
NobodyWaits ==
    (~ENABLED Busy /\ \A c \in Ends : srv[c] # "run") =>
        \A c \in Ends : hooked[c] /\ sock[c] # "lost" => outcome[c] # "none"

\* device-sync.ts: a linked device is stored "after the SAS confirm": by a device
\* whose own user has confirmed.
\* (It does not hold; the README says why.)
LinkConfirmed == \A c \in Ends : linked[c] # {} => confirmed[c] # Nobody
============================================================================
