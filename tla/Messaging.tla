----------------------------- MODULE Messaging -----------------------------
(***************************************************************************)
(* Two web clients that talk to each other: sealAndSend and receiveMessage *)
(* (services/messaging.ts) over the session, contact and handshake tables  *)
(* (data/, contacts/, db/) and the outbox (services/outbox.ts).            *)
(*                                                                         *)
(* JavaScript runs one step at a time but switches at every await, so a    *)
(* client is a set of calls in progress: a send in each slot that can hold *)
(* one (the user's, the receipt timer's, the reply a frame triggers) and   *)
(* one frame, for websocket.ts takes frames strictly in turn.  The steps   *)
(* below end where the code awaits a write that others can see or a read   *)
(* whose value is used after another await.  Reads and writes of several   *)
(* tables that no other step can tell apart are one step.                  *)
(*                                                                         *)
(* The server is the mailbox of Mailbox.tla: it redelivers a message until *)
(* it is acknowledged, and orders two messages of one second arbitrarily.  *)
(* Sealed Sender always opens and verifies: keys do not change here.       *)
(***************************************************************************)
EXTENDS Ratchet

CONSTANTS
    Slots,       \* places a send can be in progress, besides the frame's reply
    Plans        \* what may happen in one conversation, a record of
                 \*   start       how the two clients begin: "strangers", "talking",
                 \*               or "restored": contacts, from backups, no session
                 \*   acts        what users do: "add", "text", "receipt", "block",
                 \*               "remove"
                 \*   active      the clients whose users do it
                 \*   made        bound on the messages each user causes
                 \*   faults      bound on crashes of a client, answers lost by the
                 \*               network and blobs dropped from the outbox
                 \*   offline     bound on sends that find no network
                 \*   recoveries  bound on accounts recovered on an empty device

Reply == "frame"

ASSUME SlotAssumption == Reply \notin Slots
Clients == {"a", "b"}

ASSUME PlanAssumption ==
    Plans \subseteq [start : {"strangers", "talking", "restored"},
                     acts : SUBSET {"add", "text", "receipt", "block", "remove"},
                     active : SUBSET Clients, made : Nat, faults : Nat,
                     offline : Nat, recoveries : Nat]

Peer(p) == IF p = "a" THEN "b" ELSE "a"
Canonical == "a"   \* the smaller px_id

VARIABLES
    plan,       \* the plan of this conversation
    \* what a client keeps in IndexedDB
    status,     \* the contact row of the peer
    session,    \* the session row of the peer
    adopted,    \* handshakes: the ephemeral keys of those adopted
    received,   \* ids of deliveries finished with
    rows,       \* the conversation, oldest first
    outbox,
    spk,        \* the signed prekey, whose public half is published
    \* calls in progress
    sends, recv,
    \* the server, and what bounds and properties need to know
    mailbox,
    fresh,      \* key pairs generated by each client
    made,       \* every message encrypted
    shown,      \* deliveries whose text was put in the conversation
    orphaned,   \* messages dropped because there was no session to open them
    consented,  \* the user once asked for, accepted or unblocked the contact
    faults, offline, recoveries

dbVars == <<status, session, adopted, received, rows, outbox, spk>>
history == <<made, shown, orphaned, consented>>
bounds == <<plan, faults, offline, recoveries>>
vars == <<dbVars, sends, recv, mailbox, fresh, history, bounds>>

NoInit == [ek |-> NoKey, spk |-> NoKey]
NoSession == [st |-> ratchet_init_bob(NoKey, NoKey), init |-> NoInit, ok |-> FALSE]
NoMsg == [from |-> "nobody", seq |-> 0, kind |-> "none", init |-> NoInit,
          hdr |-> Sealed(NoSession.st)]
NoItem == [msg |-> NoMsg, copy |-> 0]

IdleSend == [pc |-> "idle", kind |-> "none", tried |-> FALSE, held |-> NoSession,
             msg |-> NoMsg]
IdleRecv == [pc |-> "idle", item |-> NoItem, prior |-> "none", held |-> NoSession]

Key(p, i) == <<p, fresh[p] + i>>
MadeBy(p) == {m \in made : m.from = p}
AllSlots == Slots \cup {Reply}

\* The calls in progress of one client, all gone.
NoSends == [s \in AllSlots |-> IdleSend]

\* A session both have used: Alice ("a") started it and Bob answered.
Talking ==
    LET alice0 == ratchet_init_alice(<<"a", 1>>, <<"a", 2>>, <<"b", 1>>)
        bob0 == ratchet_init_bob(<<"a", 1>>, <<"b", 1>>)
        bob1 == ratchet_decrypt(bob0, Sealed(alice0), <<"b", 2>>).st
        alice1 == ratchet_decrypt(ratchet_encrypt(alice0), Sealed(bob1), <<"a", 3>>).st
    IN  [p \in Clients |->
            [st |-> IF p = "a" THEN alice1 ELSE ratchet_encrypt(bob1),
             init |-> NoInit, ok |-> TRUE]]

Init ==
    /\ plan \in Plans
    /\ status = [p \in Clients |-> IF plan.start = "strangers" THEN "none" ELSE "accepted"]
    /\ session = IF plan.start = "talking" THEN Talking ELSE [p \in Clients |-> NoSession]
    /\ adopted = [p \in Clients |-> IF plan.start = "talking" /\ p = "b" THEN {<<"a", 1>>} ELSE {}]
    /\ received = [p \in Clients |-> {}]
    /\ rows = [p \in Clients |-> <<>>]
    /\ outbox = [p \in Clients |-> <<>>]
    /\ spk = [p \in Clients |-> <<p, 1>>]
    /\ sends = [p \in Clients |-> NoSends]
    /\ recv = [p \in Clients |-> IdleRecv]
    /\ mailbox = [p \in Clients |-> {}]
    /\ fresh = [p \in Clients |-> 3]
    /\ made = {} /\ orphaned = {}
    /\ shown = [p \in Clients |-> {}]
    /\ consented = [p \in Clients |-> plan.start # "strangers"]
    /\ faults = 0 /\ offline = 0 /\ recoveries = 0

----------------------------------------------------------------------------
(* Tables *)

\* Mutant: whoever writes first is accepted.
AddStatus_Trusting(prev, intent) ==
    IF prev \in {"accepted", "blocked"} THEN prev
    ELSE IF intent = "pending_inbound" THEN "accepted" ELSE intent

\* EncryptedContacts.add: "accepted" and "blocked" are sticky.
AddStatus(prev, intent) == IF prev \in {"accepted", "blocked"} THEN prev ELSE intent

\* Mutant: the advanced state is not saved.
saveRatchetState_Lost(p, st) == session' = session

\* db.sessions.update changes a row that exists and does nothing otherwise.
saveRatchetState(p, st) ==
    session' = [session EXCEPT ![p] = IF @ = NoSession THEN @ ELSE [@ EXCEPT !.st = st]]

\* messages.put: a row with the same id is replaced, and sorts as the newest.
PutRow(p, row) == Append(SelectSeq(rows[p], LAMBDA r : r.id # row.id), row)

\* Mutant: nobody is told.
noteUndecryptable_Silent(p, item) == rows[p]

\* noteUndecryptable: consecutive failures collapse into one notice.
noteUndecryptable(p, item) ==
    IF rows[p] # <<>> /\ rows[p][Len(rows[p])].what = "undecryptable"
    THEN rows[p]
    ELSE PutRow(p, [id |-> item, what |-> "undecryptable"])

----------------------------------------------------------------------------
(* Sending *)

SetSend(p, s, call) == sends' = [sends EXCEPT ![p][s] = call]

Call(kind, pc) == [IdleSend EXCEPT !.kind = kind, !.pc = pc]

\* The user's own sends are bounded; replies are bounded by what they answer.
MayMake(p) == p \in plan.active /\ Cardinality(MadeBy(p))
              + Cardinality({s \in AllSlots : sends[p][s].pc \in {"start", "load", "loaded"}})
              < plan.made

\* addContact, up to its first await that matters.
addContact(p, s) ==
    /\ "add" \in plan.acts /\ MayMake(p)
    /\ sends[p][s] = IdleSend
    /\ \/ /\ status[p] = "pending_inbound"
          /\ status' = [status EXCEPT ![p] = "accepted"]
          /\ SetSend(p, s, Call("accept", "load"))
       \/ /\ \/ status[p] = "none"
             \/ status[p] = "accepted" /\ session[p] = NoSession
          /\ SetSend(p, s, Call("hello", "start"))
          /\ UNCHANGED status
    /\ consented' = [consented EXCEPT ![p] = TRUE]
    /\ UNCHANGED <<session, adopted, received, rows, outbox, spk, recv, mailbox,
                   fresh, made, shown, orphaned, bounds>>

\* sendMessage by the user, or sendReceipt by the timer: to accepted contacts.
sendMessage(p, s, kind) ==
    /\ kind \in plan.acts /\ MayMake(p)
    /\ sends[p][s] = IdleSend
    /\ status[p] = "accepted"
    /\ SetSend(p, s, Call(kind, "load"))
    /\ UNCHANGED <<dbVars, recv, mailbox, fresh, history, bounds>>

\* startSession: fetch the peer's bundle, run PQXDH, and store the contact and
\* the session with its handshake stashed.
startSession(p, s) ==
    /\ sends[p][s].pc = "start"
    /\ status' = [status EXCEPT ![p] = AddStatus(@, "pending_outbound")]
    /\ session' = [session EXCEPT ![p] =
                    [st |-> ratchet_init_alice(Key(p, 1), Key(p, 2), spk[Peer(p)]),
                     init |-> [ek |-> Key(p, 1), spk |-> spk[Peer(p)]], ok |-> FALSE]]
    /\ fresh' = [fresh EXCEPT ![p] = @ + 2]
    /\ SetSend(p, s, [sends[p][s] EXCEPT !.pc = "load", !.tried = TRUE])
    /\ UNCHANGED <<adopted, received, rows, outbox, spk, recv, mailbox, history, bounds>>

\* loadSession; without a session one is started, and without a contact or after
\* a second failure the call throws.
SendLoad(p, s) ==
    LET call == sends[p][s] IN
    /\ call.pc = "load"
    /\ \/ /\ session[p] # NoSession /\ status[p] # "none"
          /\ SetSend(p, s, [call EXCEPT !.pc = "loaded", !.held = session[p]])
       \/ /\ session[p] = NoSession /\ status[p] # "none" /\ ~call.tried
          /\ SetSend(p, s, [call EXCEPT !.pc = "start"])
       \/ /\ status[p] = "none" \/ (session[p] = NoSession /\ call.tried)
          /\ SetSend(p, s, IdleSend)
    /\ UNCHANGED <<dbVars, recv, mailbox, fresh, history, bounds>>

\* ratchetEncrypt on the state that was loaded, and saveRatchetState.
SendSave(p, s) ==
    LET call == sends[p][s]
        msg == [from |-> p, seq |-> Cardinality(MadeBy(p)) + 1, kind |-> call.kind,
                init |-> call.held.init, hdr |-> Sealed(call.held.st)]
    IN
    /\ call.pc = "loaded"
    /\ CanEncrypt(call.held.st)
    /\ made' = made \cup {msg}
    /\ saveRatchetState(p, ratchet_encrypt(call.held.st))
    /\ SetSend(p, s, [call EXCEPT !.pc = IF msg.init = NoInit THEN "post" ELSE "clear",
                                  !.msg = msg, !.held = NoSession])
    /\ UNCHANGED <<status, adopted, received, rows, outbox, spk, recv, mailbox, fresh,
                   shown, orphaned, consented, bounds>>

clearPqxdhInit(p, s) ==
    /\ sends[p][s].pc = "clear"
    /\ session' = [session EXCEPT ![p].init = NoInit]
    /\ SetSend(p, s, [sends[p][s] EXCEPT !.pc = "post"])
    /\ UNCHANGED <<status, adopted, received, rows, outbox, spk, recv, mailbox, fresh,
                   history, bounds>>

\* The server takes a copy: each POST that reaches it gets an id of its own.
Post(msg) ==
    LET q == Peer(msg.from)
        copies == {i \in mailbox[q] \cup received[q] : i.msg = msg}
    IN  mailbox' = [mailbox EXCEPT ![q] = @ \cup {[msg |-> msg, copy |-> Cardinality(copies) + 1]}]

\* A visible message gets its row; the call returns.
EndSend(p, s, msg) ==
    /\ rows' = IF msg.kind = "text"
               THEN [rows EXCEPT ![p] = PutRow(p, [id |-> [msg |-> msg, copy |-> 0],
                                                   what |-> "out"])]
               ELSE rows
    /\ SetSend(p, s, IdleSend)

\* The POST succeeds; or there is no network and the blob is parked; or the
\* answer is lost, and it is parked although the server has it.
SendPost(p, s) ==
    LET msg == sends[p][s].msg IN
    /\ sends[p][s].pc = "post"
    /\ \/ /\ Post(msg)
          /\ UNCHANGED <<outbox, faults, offline>>
       \/ /\ offline < plan.offline
          /\ offline' = offline + 1
          /\ outbox' = [outbox EXCEPT ![p] = Append(@, msg)]
          /\ UNCHANGED <<mailbox, faults>>
       \/ /\ faults < plan.faults
          /\ faults' = faults + 1
          /\ Post(msg)
          /\ outbox' = [outbox EXCEPT ![p] = Append(@, msg)]
          /\ UNCHANGED offline
    /\ EndSend(p, s, msg)
    /\ UNCHANGED <<status, session, adopted, received, spk, recv, fresh, history,
                   plan, recoveries>>

\* One round of flushOutbox: the oldest blob reaches the server and is deleted; or
\* its answer is lost, or the tab closed before the deletion, and it stays; or its
\* own lifetime has passed, or the server will never take it, and it is dropped.
flushOutbox(p) ==
    /\ outbox[p] # <<>>
    /\ \/ /\ Post(Head(outbox[p]))
          /\ outbox' = [outbox EXCEPT ![p] = Tail(@)]
          /\ UNCHANGED faults
       \/ /\ faults < plan.faults
          /\ faults' = faults + 1
          /\ \/ Post(Head(outbox[p])) /\ UNCHANGED outbox
             \/ outbox' = [outbox EXCEPT ![p] = Tail(@)] /\ UNCHANGED mailbox
    /\ UNCHANGED <<status, session, adopted, received, rows, spk, sends, recv, fresh,
                   history, plan, offline, recoveries>>

----------------------------------------------------------------------------
(* Receiving *)

SetRecv(p, call) == recv' = [recv EXCEPT ![p] = call]
Goto(p, pc) == SetRecv(p, [recv[p] EXCEPT !.pc = pc, !.held = NoSession])

\* A frame is taken: a delivery finished with before is acknowledged again, one
\* from a blocked sender is dropped, and otherwise the contact's status and the
\* session are read.
RecvLoad(p, item) ==
    /\ recv[p] = IdleRecv
    /\ item \in mailbox[p]
    /\ SetRecv(p, [pc |-> IF item \in received[p] THEN "ack"
                          ELSE IF status[p] = "blocked" THEN "finish" ELSE "loaded",
                   item |-> item,
                   prior |-> status[p],
                   held |-> IF item \in received[p] \/ status[p] = "blocked"
                            THEN NoSession ELSE session[p]])
    /\ UNCHANGED <<dbVars, sends, mailbox, fresh, history, bounds>>

Established(row) == row # NoSession /\ row.init = NoInit

\* Whether the handshake is taken at once, without trying the session we have.
TakesHandshake(p, msg, row) ==
    msg.init # NoInit /\ (~Established(row) \/ msg.from = Canonical)

OnSession(p, msg, row) == ratchet_decrypt(row.st, msg.hdr, Key(p, 1))

\* pqxdhRespond, ratchetInitBob and the first decryption, with the prekey used.
OnHandshake(p, msg) ==
    IF msg.init.spk = spk[p]
    THEN ratchet_decrypt(ratchet_init_bob(msg.init.ek, spk[p]), msg.hdr, Key(p, 1))
    ELSE Failed(NoSession.st)

\* The message opens on the session we hold.
Opens(p, msg, row) == /\ ~TakesHandshake(p, msg, row)
                      /\ row # NoSession
                      /\ OnSession(p, msg, row).ok

\* Mutant: a peer that started over is not believed.
Adopts_FirstOnly(p, msg, row) == TakesHandshake(p, msg, row)

\* It carries a handshake to adopt: taken at once, or because it does not open
\* on a session that has worked (the peer started over).
Adopts(p, msg, row) ==
    \/ TakesHandshake(p, msg, row)
    \/ row # NoSession /\ ~OnSession(p, msg, row).ok /\ msg.init # NoInit /\ row.ok

\* Mutant: a guard that knows only whether there ever was a handshake.
CanAdopt_FirstOnly(p, msg) == adopted[p] = {} /\ OnHandshake(p, msg).ok

CanAdopt(p, msg) == msg.init.ek \notin adopted[p] /\ OnHandshake(p, msg).ok

\* It cannot be read, and the user is told.
Tells(p, msg, row, prior) ==
    \/ ~Adopts(p, msg, row) /\ row # NoSession /\ ~Opens(p, msg, row) /\ msg.init = NoInit
    \/ Adopts(p, msg, row) /\ msg.init.ek \notin adopted[p] /\ ~OnHandshake(p, msg).ok
       /\ prior # "none"

NextKey(p, st) == fresh' = [fresh EXCEPT ![p] = IF st.dhs = Key(p, 1) THEN @ + 1 ELSE @]

RecvOpen(p) ==
    LET call == recv[p]
        st == OnSession(p, call.item.msg, call.held).st
    IN
    /\ call.pc = "loaded"
    /\ Opens(p, call.item.msg, call.held)
    /\ saveRatchetState(p, st)
    /\ NextKey(p, st)
    /\ Goto(p, IF call.held.ok THEN "opened" ELSE "mark")
    /\ UNCHANGED <<status, adopted, received, rows, outbox, spk, sends, mailbox, history,
                   bounds>>

markSessionReceived(p) ==
    /\ recv[p].pc = "mark"
    /\ session' = [session EXCEPT ![p] = IF @ = NoSession THEN @ ELSE [@ EXCEPT !.ok = TRUE]]
    /\ Goto(p, "opened")
    /\ UNCHANGED <<status, adopted, received, rows, outbox, spk, sends, mailbox, fresh,
                   history, bounds>>

createInboundSession(p) ==
    LET call == recv[p]
        st == OnHandshake(p, call.item.msg).st
    IN
    /\ call.pc = "loaded"
    /\ Adopts(p, call.item.msg, call.held)
    /\ CanAdopt(p, call.item.msg)
    /\ session' = [session EXCEPT ![p] = [st |-> st, init |-> NoInit, ok |-> TRUE]]
    /\ NextKey(p, st)
    /\ Goto(p, "created")
    /\ UNCHANGED <<status, adopted, received, rows, outbox, spk, sends, mailbox, history,
                   bounds>>

upsertInboundContact(p) ==
    /\ recv[p].pc = "created"
    /\ status' = [status EXCEPT ![p] = AddStatus(@, "pending_inbound")]
    /\ Goto(p, "upserted")
    /\ UNCHANGED <<session, adopted, received, rows, outbox, spk, sends, mailbox, fresh,
                   history, bounds>>

RecordHandshake(p) ==
    /\ recv[p].pc = "upserted"
    /\ adopted' = [adopted EXCEPT ![p] = @ \cup {recv[p].item.msg.init.ek}]
    /\ Goto(p, "opened")
    /\ UNCHANGED <<status, session, received, rows, outbox, spk, sends, mailbox, fresh,
                   history, bounds>>

\* Mutant: what cannot be read is left in the mailbox.
RecvDrop_Kept(p) ==
    LET call == recv[p] IN
    /\ call.pc = "loaded"
    /\ ~Opens(p, call.item.msg, call.held)
    /\ ~(Adopts(p, call.item.msg, call.held) /\ CanAdopt(p, call.item.msg))
    /\ SetRecv(p, IdleRecv)
    /\ UNCHANGED <<dbVars, sends, mailbox, fresh, history, bounds>>

\* Everything that cannot be read: an orphan, glare we win, a replayed handshake.
RecvDrop(p) ==
    LET call == recv[p]
        msg == call.item.msg
    IN
    /\ call.pc = "loaded"
    /\ ~Opens(p, msg, call.held)
    /\ ~(Adopts(p, msg, call.held) /\ CanAdopt(p, msg))
    /\ rows' = IF Tells(p, msg, call.held, call.prior)
               THEN [rows EXCEPT ![p] = noteUndecryptable(p, call.item)] ELSE rows
    /\ orphaned' = IF call.held = NoSession /\ msg.init = NoInit
                   THEN orphaned \cup {msg} ELSE orphaned
    /\ Goto(p, "finish")
    /\ UNCHANGED <<status, session, adopted, received, outbox, spk, sends, mailbox, fresh,
                   made, shown, consented, bounds>>

\* A contact request crosses our own, or comes from a contact that started over:
\* accept it and say so before the frame is done.
Answers(call) == /\ call.item.msg.kind = "hello"
                 /\ call.prior \in {"pending_outbound", "accepted"}

\* The plaintext is acted upon.
RecvApply(p) ==
    LET call == recv[p]
        kind == call.item.msg.kind
    IN
    /\ call.pc = "opened"
    /\ status' = [status EXCEPT ![p] =
                    IF call.prior = "pending_outbound" /\ kind \in {"hello", "accept", "text"}
                       /\ @ # "none"
                    THEN "accepted" ELSE @]
    /\ IF kind = "text"
       THEN /\ rows' = [rows EXCEPT ![p] = PutRow(p, [id |-> call.item, what |-> "in"])]
            /\ shown' = [shown EXCEPT ![p] = @ \cup {call.item}]
       ELSE UNCHANGED <<rows, shown>>
    /\ IF Answers(call)
       THEN SetSend(p, Reply, Call("accept", "load")) /\ Goto(p, "reply")
       ELSE sends' = sends /\ Goto(p, "finish")
    /\ UNCHANGED <<session, adopted, received, outbox, spk, mailbox, fresh, made, orphaned,
                   consented, bounds>>

RecvReplied(p) ==
    /\ recv[p].pc = "reply"
    /\ sends[p][Reply] = IdleSend
    /\ Goto(p, "finish")
    /\ UNCHANGED <<dbVars, sends, mailbox, fresh, history, bounds>>

\* ackDelivered: remember the id, then tell the server.
RecvRemember(p) ==
    /\ recv[p].pc = "finish"
    /\ received' = [received EXCEPT ![p] = @ \cup {recv[p].item}]
    /\ Goto(p, "ack")
    /\ UNCHANGED <<status, session, adopted, rows, outbox, spk, sends, mailbox, fresh,
                   history, bounds>>

RecvAck(p) ==
    /\ recv[p].pc = "ack"
    /\ \/ /\ mailbox' = [mailbox EXCEPT ![p] = @ \ {recv[p].item}]
          /\ UNCHANGED faults
       \/ /\ faults < plan.faults
          /\ faults' = faults + 1
          /\ UNCHANGED mailbox
    /\ SetRecv(p, IdleRecv)
    /\ UNCHANGED <<dbVars, sends, fresh, history, plan, offline, recoveries>>

----------------------------------------------------------------------------
(* The user, and failures *)

blockContact(p) ==
    /\ "block" \in plan.acts /\ p \in plan.active
    /\ status[p] \notin {"none", "blocked"}
    /\ status' = [status EXCEPT ![p] = "blocked"]
    /\ UNCHANGED <<session, adopted, received, rows, outbox, spk, sends, recv, mailbox,
                   fresh, history, bounds>>

unblockContact(p) ==
    /\ "block" \in plan.acts /\ p \in plan.active
    /\ status[p] = "blocked"
    /\ status' = [status EXCEPT ![p] = "accepted"]
    /\ consented' = [consented EXCEPT ![p] = TRUE]
    /\ UNCHANGED <<session, adopted, received, rows, outbox, spk, sends, recv, mailbox,
                   fresh, made, shown, orphaned, bounds>>

\* Purges the conversation: contact, session, messages, queued sends.
removeContact(p) ==
    /\ "remove" \in plan.acts /\ p \in plan.active
    /\ status[p] # "none"
    /\ status' = [status EXCEPT ![p] = "none"]
    /\ session' = [session EXCEPT ![p] = NoSession]
    /\ rows' = [rows EXCEPT ![p] = <<>>]
    /\ shown' = [shown EXCEPT ![p] = {}]
    /\ outbox' = [outbox EXCEPT ![p] = <<>>]
    /\ UNCHANGED <<adopted, received, spk, sends, recv, mailbox, fresh, made, orphaned,
                   consented, bounds>>

\* The tab is closed: the tables stay, the calls in progress are gone.
Crash(p) ==
    /\ faults < plan.faults
    /\ faults' = faults + 1
    /\ recv[p] # IdleRecv \/ sends[p] # NoSends
    /\ sends' = [sends EXCEPT ![p] = NoSends]
    /\ recv' = [recv EXCEPT ![p] = IdleRecv]
    /\ UNCHANGED <<dbVars, mailbox, fresh, history, plan, offline, recoveries>>

\* The account is recovered on an empty device, with new prekeys; a history
\* backup may bring the contact back, never the session.
Recover(p) ==
    /\ recoveries < plan.recoveries
    /\ recoveries' = recoveries + 1
    /\ \E s \in {"none", status[p]} : status' = [status EXCEPT ![p] = s]
    /\ session' = [session EXCEPT ![p] = NoSession]
    /\ adopted' = [adopted EXCEPT ![p] = {}]
    /\ received' = [received EXCEPT ![p] = {}]
    /\ rows' = [rows EXCEPT ![p] = <<>>]
    /\ shown' = [shown EXCEPT ![p] = {}]
    /\ outbox' = [outbox EXCEPT ![p] = <<>>]
    /\ spk' = [spk EXCEPT ![p] = Key(p, 1)]
    /\ fresh' = [fresh EXCEPT ![p] = @ + 1]
    /\ sends' = [sends EXCEPT ![p] = NoSends]
    /\ recv' = [recv EXCEPT ![p] = IdleRecv]
    /\ UNCHANGED <<mailbox, made, orphaned, consented, plan, faults, offline>>

----------------------------------------------------------------------------
SendStep(p, s) == \/ startSession(p, s) \/ SendLoad(p, s) \/ SendSave(p, s)
                  \/ clearPqxdhInit(p, s) \/ SendPost(p, s)

RecvStep(p) == \/ RecvOpen(p) \/ markSessionReceived(p) \/ createInboundSession(p)
               \/ upsertInboundContact(p) \/ RecordHandshake(p) \/ RecvDrop(p)
               \/ RecvApply(p) \/ RecvReplied(p) \/ RecvRemember(p) \/ RecvAck(p)

User(p) == \/ \E s \in Slots : \/ addContact(p, s)
                               \/ \E kind \in {"text", "receipt"} : sendMessage(p, s, kind)
           \/ blockContact(p) \/ unblockContact(p) \/ removeContact(p)

\* What a client does without its user: a tab that stays open runs its calls to
\* their end and, reconnecting with backoff, flushes its outbox and is sent what
\* it has not acknowledged.
EventLoop(p) == \/ RecvStep(p) \/ flushOutbox(p)
                \/ \E s \in AllSlots : SendStep(p, s)
                \/ \E item \in mailbox[p] : RecvLoad(p, item)

Next == \E p \in Clients : User(p) \/ EventLoop(p) \/ Crash(p) \/ Recover(p)

Spec == Init /\ [][Next]_vars

FairSpec == Spec /\ \A p \in Clients : WF_vars(EventLoop(p))

----------------------------------------------------------------------------
(* Properties *)

Statuses == {"none", "pending_outbound", "pending_inbound", "accepted", "blocked"}

TypeOK ==
    /\ status \in [Clients -> Statuses]
    /\ \A p \in Clients :
        /\ received[p] \subseteq [msg : made, copy : Nat]
        /\ mailbox[p] \subseteq [msg : MadeBy(Peer(p)), copy : Nat]
        /\ \A i \in 1..Len(outbox[p]) : outbox[p][i] \in MadeBy(p)
        /\ \A s \in AllSlots : sends[p][s].pc \in {"idle", "start", "load", "loaded",
                                                   "clear", "post"}
        /\ consented[p] \in BOOLEAN
        /\ recv[p].pc \in {"idle", "loaded", "mark", "created", "upserted", "opened",
                           "reply", "finish", "ack"}

\* ARCHITECTURE.md: "Every message gets a unique key, deleted after use."
KeysUnique == \A m, n \in made : m.hdr.mk = n.hdr.mk => m = n

\* Nothing is in progress and nothing is on its way.
Quiet == \A p \in Clients : /\ mailbox[p] = {} /\ outbox[p] = <<>>
                            /\ recv[p] = IdleRecv /\ sends[p] = NoSends

\* The message p would send next.
NextMsg(p) == [NoMsg EXCEPT !.from = p, !.init = session[p].init,
                            !.hdr = Sealed(session[p].st)]

Understood(p) ==
    LET q == Peer(p) IN
    \/ Opens(q, NextMsg(p), session[q])
    \/ Adopts(q, NextMsg(p), session[q]) /\ CanAdopt(q, NextMsg(p))

\* messaging.ts: "Both sides apply the same rule, so they converge on one
\* ratchet": once everything sent has been dealt with, what either client sends
\* next is understood by the other.
Converged == Quiet /\ (\A p \in Clients : Established(session[p]))
                => \A p \in Clients : Understood(p)

\* A message that was put in the conversation stays there.
\* (It does not hold; the README says why.)
ShownStays ==
    \A p \in Clients : \A i \in shown[p] :
        \E k \in 1..Len(rows[p]) : rows[p][k] = [id |-> i, what |-> "in"]

\* No text is put in the conversation twice, however often its blob is posted or
\* its delivery repeated.
ShownOnce == \A p \in Clients : \A i, j \in shown[p] : i.msg = j.msg => i = j

Noticed(p) == \E k \in 1..Len(rows[p]) : rows[p][k].what = "undecryptable"

\* A text that was finished with and never shown has left a notice in the
\* conversation, unless there was no session at all to open it on: a client that
\* stopped between saving the ratchet and storing the text does not lose it
\* silently.
LossIsTold ==
    \A p \in Clients : \A i \in received[p] :
        i.msg.kind = "text" /\ (\A j \in shown[p] : j.msg # i.msg)
            => Noticed(p) \/ i.msg \in orphaned

\* Every text that was finished with is in the conversation, once, or is accounted for
\* (receiveMessage, noteUndecryptable).
TextsAccounted == ShownOnce /\ LossIsTold

\* encrypted-db.ts: a block "landing while a WS frame processes an inbound from
\* the same peer" cannot be lost, "which would silently unblock or re-accept a
\* contact": a blocked contact changes only by the user's own doing. (It does not hold; the
\* README says why.)
BlockSticky ==
    [][\A p \in Clients :
        status[p] = "blocked" /\ status'[p] # "blocked" =>
            unblockContact(p) \/ removeContact(p) \/ Recover(p)]_vars

\* Nobody becomes an accepted contact by what he sends: the user once asked for,
\* accepted or unblocked him.
NoForcedContact == \A p \in Clients : status[p] = "accepted" => consented[p]

\* sessions.ts: "The stash is present only until the session's first outbound
\* message is sent."  While nothing has come back on a session of ours, its
\* handshake is stashed, on its way out, or with the server.
\* (It does not hold; the README says why.)
StashUntilSent ==
    \A p \in Clients :
        LET q == Peer(p)
            carries(m) == m.init # NoInit /\ session[p].st.rk[1] = {m.init.ek}
        IN  session[p] # NoSession /\ ~session[p].ok =>
                \/ session[p].init # NoInit
                \/ \E s \in AllSlots : carries(sends[p][s].msg)
                \/ \E k \in 1..Len(outbox[p]) : carries(outbox[p][k])
                \/ \E i \in mailbox[q] \cup received[q] : carries(i.msg)

\* Whatever arrives is acknowledged in the end, opened or not: nothing is
\* redelivered for ever.
MailboxDrains == \A p \in Clients : mailbox[p] # {} ~> mailbox[p] = {}

\* messaging.ts: "A first message from an unknown peer with no handshake can
\* NEVER be decrypted": no handshake that would open a message dropped for want
\* of a session is still to come.
\* (It does not hold; the README says why.)
OrphansHopeless ==
    \A m \in orphaned :
        ~ \E h \in made : /\ h.init # NoInit
                          /\ h.hdr.mk.root = m.hdr.mk.root
                          /\ \/ \E i \in mailbox[Peer(h.from)] : i.msg = h
                             \/ \E k \in 1..Len(outbox[h.from]) : outbox[h.from][k] = h
============================================================================
