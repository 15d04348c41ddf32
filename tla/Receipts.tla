------------------------------ MODULE Receipts ------------------------------
(***************************************************************************)
(* One conversation, seen from a sender and a recipient: what becomes of a *)
(* message between pressing Send and the ticks under it (messaging.ts      *)
(* sealAndSend, outbox.ts, files.ts, receipts.ts, cover-traffic.ts,        *)
(* device-sync.ts and the conversation's screen, Chat.tsx).                *)
(*                                                                         *)
(* Encryption is left to Messaging and Ratchet: a sealed blob opens once,  *)
(* and a second copy of it is undecryptable.  A step is what runs between  *)
(* two awaits that matter; the tabs of both sides can be reloaded.         *)
(***************************************************************************)
EXTENDS Naturals, Sequences, FiniteSets, SequencesExt

CONSTANTS
    Texts, Files,   \* the messages: texts, and manifests of files
    Chunks,         \* chunks of a file
    Scenes          \* [msgs, parked, linked, events]: the messages to send, those sent
                    \* before while offline, whether device sync is on with another
                    \* device linked, and the bound on failures, reloads, blocks,
                    \* deletions and changes of a setting

Msgs == Texts \cup Files

ASSUME ConstantsAssumption ==
    /\ Texts \cap Files = {} /\ Chunks \in Nat
    /\ Scenes \subseteq [msgs : SUBSET Msgs, parked : BoundedSeq(Msgs, Cardinality(Msgs)),
                     linked : BOOLEAN, events : Nat]

Types == {"delivered", "read"}
Status == {"none", "queued", "sent", "failed"} \cup Types

VARIABLES
    snd,        \* the sender: [contact, wants, pc, req, row, outbox, late]
    flush,      \* its flushOutbox: [todo, at]
    srv,        \* the server: [mail, blobs, receipts, went]
    rcv,        \* the recipient: [contact, wants, rows, done, stale, queue, parked]
    viewing,    \* queueReadReceipt calls between their two writes
    drain,      \* its drainReceipts: [todo, at]
    copies,     \* sync copies of sent messages for the linked device
    told,       \* history: [agreed, sealed, leaked, reloads, again]
    scene,      \* the scene played
    budget      \* what is left of its events

vars == <<snd, flush, srv, rcv, viewing, drain, copies, told, scene, budget>>

Event == budget > 0 /\ budget' = budget - 1 /\ UNCHANGED scene
Idle == [todo |-> <<>>, at |-> "idle"]
Receipts == Msgs \X Types

Init ==
    /\ scene \in Scenes
    /\ budget = scene.events
    /\ LET parked == ToSet(scene.parked)
           If(x, y) == [m \in Msgs |-> IF m \in parked THEN x ELSE y]
       IN /\ snd = [contact |-> "accepted", wants |-> Types, pc |-> If("done", "idle"),
                    req |-> If(Types, {}), row |-> If("queued", "none"),
                    outbox |-> scene.parked, late |-> {}]
          /\ srv = [mail |-> [m \in Msgs |-> 0], receipts |-> {}, went |-> {},
                    blobs |-> [m \in Msgs |-> IF m \in parked \cap Files THEN Chunks ELSE 0]]
    /\ flush = Idle
    /\ rcv = [contact |-> "accepted", wants |-> Types, rows |-> {}, done |-> {},
              stale |-> {}, queue |-> {}, parked |-> {}]
    /\ viewing = {}
    /\ drain = Idle
    /\ copies = [m \in Msgs |-> "none"]
    /\ told = [agreed |-> {}, sealed |-> [r \in Receipts |-> 0], leaked |-> 0,
               reloads |-> 0, again |-> 0]

\* A POST the server takes: it queues the blob, a second time if it is sent again.
Taken(s, m) == [s EXCEPT !.mail[m] = @ + 1, !.went = @ \cup {m}]

(***************************************************************************)
(* Sending: Chat.send and upload_, then sealAndSend.  Requests for         *)
(* receipts are attached by the sender's own settings.                     *)
(***************************************************************************)
CanMessage == snd.contact = "accepted"

Compose(m) ==
    /\ m \in scene.msgs
    /\ CanMessage
    /\ snd.pc[m] = "idle"
    /\ snd' = [snd EXCEPT !.pc[m] = IF m \in Files THEN "uploading" ELSE "posting",
                          !.req[m] = IF m \in Files THEN {} ELSE snd.wants]
    /\ UNCHANGED <<flush, srv, rcv, viewing, drain, copies, told, scene, budget>>

Seal_Early(m) ==
    /\ snd.pc[m] = "uploading"
    /\ srv.blobs[m] > 0
    /\ snd' = [snd EXCEPT !.pc[m] = "posting", !.req[m] = snd.wants]
    /\ UNCHANGED <<flush, srv, rcv, viewing, drain, copies, told, scene, budget>>

\* encryptAndUpload puts the chunks one after the other ...
Upload(m) ==
    /\ snd.pc[m] = "uploading"
    /\ srv.blobs[m] < Chunks
    /\ srv' = [srv EXCEPT !.blobs[m] = @ + 1]
    /\ UNCHANGED <<snd, flush, rcv, viewing, drain, copies, told, scene, budget>>

\* ... and the manifest is sealed once all are there.
Seal(m) ==
    /\ snd.pc[m] = "uploading"
    /\ srv.blobs[m] = Chunks
    /\ snd' = [snd EXCEPT !.pc[m] = "posting", !.req[m] = snd.wants]
    /\ UNCHANGED <<flush, srv, rcv, viewing, drain, copies, told, scene, budget>>

\* A chunk is refused: the chunks put so far stay, no message is sent.
UploadFails(m) ==
    /\ snd.pc[m] = "uploading"
    /\ Event
    /\ snd' = [snd EXCEPT !.pc[m] = "done"]
    /\ UNCHANGED <<flush, srv, rcv, viewing, drain, copies, told>>

PostOk(m) ==
    /\ snd.pc[m] = "posting"
    /\ srv' = Taken(srv, m)
    /\ snd' = [snd EXCEPT !.pc[m] = "taken"]
    /\ UNCHANGED <<flush, rcv, viewing, drain, copies, told, scene, budget>>

\* Offline, 401, 429 or 5xx; the server may have taken the blob all the same.
PostFails(m, taken) ==
    /\ snd.pc[m] = "posting"
    /\ Event
    /\ srv' = IF taken THEN Taken(srv, m) ELSE srv
    /\ snd' = [snd EXCEPT !.pc[m] = "parked", !.outbox = Append(@, m)]
    /\ UNCHANGED <<flush, rcv, viewing, drain, copies, told>>

\* Any other 4xx is thrown: the screen shows it and puts the draft back.
PostRefused(m) ==
    /\ snd.pc[m] = "posting"
    /\ Event
    /\ snd' = [snd EXCEPT !.pc[m] = "done"]
    /\ UNCHANGED <<flush, srv, rcv, viewing, drain, copies, told>>

AddRow_Optimistic(m) ==
    /\ snd.pc[m] \in {"taken", "parked"}
    /\ snd' = [snd EXCEPT !.pc[m] = "done", !.row[m] = "sent"]
    /\ copies' = [copies EXCEPT ![m] = IF scene.linked THEN "due" ELSE @]
    /\ UNCHANGED <<flush, srv, rcv, viewing, drain, told, scene, budget>>

\* The row is stored and a copy for the linked device is on its way.
AddRow(m) ==
    /\ snd.pc[m] \in {"taken", "parked"}
    /\ snd' = [snd EXCEPT !.pc[m] = "done",
                          !.row[m] = IF snd.pc[m] = "taken" THEN "sent" ELSE "queued"]
    /\ copies' = [copies EXCEPT ![m] = IF scene.linked THEN "due" ELSE @]
    /\ UNCHANGED <<flush, srv, rcv, viewing, drain, told, scene, budget>>

\* fanOutDeviceSync: best effort; the other device applies the record as "sent".
FanOut(m, ok) ==
    /\ copies[m] = "due"
    /\ ok \/ Event
    /\ ok => UNCHANGED <<scene, budget>>
    /\ copies' = [copies EXCEPT ![m] = IF ok THEN "posted" ELSE "none"]
    /\ UNCHANGED <<snd, flush, srv, rcv, viewing, drain, told>>

applySyncRecord(m) ==
    /\ copies[m] = "posted"
    /\ copies' = [copies EXCEPT ![m] = "sent"]
    /\ UNCHANGED <<snd, flush, srv, rcv, viewing, drain, told, scene, budget>>

(***************************************************************************)
(* flushOutbox: woken by a reconnect, the online event, the service worker *)
(* or a renewed token.  It works on the rows it read when it began.        *)
(***************************************************************************)
SetStatus(m, s) == IF snd.row[m] = "none" THEN snd.row ELSE [snd.row EXCEPT ![m] = s]

\* The parked row of m is deleted, wherever it is and if it still is there.
Unparked(m) ==
    IF m \in ToSet(snd.outbox)
    THEN RemoveAt(snd.outbox, CHOOSE i \in DOMAIN snd.outbox : snd.outbox[i] = m)
    ELSE snd.outbox

NextRow == IF Len(flush.todo) = 1 THEN Idle ELSE [todo |-> Tail(flush.todo), at |-> "next"]

FlushStart ==
    /\ flush.at = "idle"
    /\ snd.outbox # <<>>
    /\ flush' = [todo |-> snd.outbox, at |-> "next"]
    /\ UNCHANGED <<snd, srv, rcv, viewing, drain, copies, told, scene, budget>>

FlushPost(m) ==
    /\ flush.at = "next" /\ m = Head(flush.todo)
    /\ m \notin snd.late
    /\ srv' = Taken(srv, m)
    /\ flush' = [flush EXCEPT !.at = "posted"]
    /\ UNCHANGED <<snd, rcv, viewing, drain, copies, told, scene, budget>>

FlushDone_Kept(m) ==
    /\ flush.at = "posted" /\ m = Head(flush.todo)
    /\ snd' = [snd EXCEPT !.row = SetStatus(m, "sent")]
    /\ flush' = NextRow
    /\ UNCHANGED <<srv, rcv, viewing, drain, copies, told, scene, budget>>

FlushDone(m) ==
    /\ flush.at = "posted" /\ m = Head(flush.todo)
    /\ snd' = [snd EXCEPT !.outbox = Unparked(m), !.row = SetStatus(m, "sent")]
    /\ flush' = NextRow
    /\ UNCHANGED <<srv, rcv, viewing, drain, copies, told, scene, budget>>

\* Past its own TTL, or refused for good: dropped and marked.
FlushDrop(m) ==
    /\ flush.at = "next" /\ m = Head(flush.todo)
    /\ IF m \in snd.late THEN UNCHANGED <<scene, budget>> ELSE Event
    /\ snd' = [snd EXCEPT !.outbox = Unparked(m), !.row = SetStatus(m, "failed")]
    /\ flush' = NextRow
    /\ UNCHANGED <<srv, rcv, viewing, drain, copies, told>>

\* A transient failure, before or after the server took the blob, ends the flush.
FlushBreak ==
    /\ flush.at # "idle"
    /\ flush.at = "next" => Head(flush.todo) \notin snd.late
    /\ Event
    /\ flush' = Idle
    /\ UNCHANGED <<snd, srv, rcv, viewing, drain, copies, told>>

\* Time passes: the TTL of a message has run out.
Expire(m) ==
    /\ m \in ToSet(snd.outbox) \ snd.late
    /\ Event
    /\ snd' = [snd EXCEPT !.late = @ \cup {m}]
    /\ UNCHANGED <<flush, srv, rcv, viewing, drain, copies, told>>

(***************************************************************************)
(* Receiving.  A receipt is queued only for an accepted contact who asked, *)
(* and only while the recipient's own setting of that kind is on.          *)
(***************************************************************************)
MayConfirm(m, t) == t \in rcv.wants /\ rcv.contact = "accepted"

\* What the sender may be told of m: asked for, and agreed to by the recipient.
Consents(m, t) == t \in snd.req[m] /\ t \in rcv.wants /\ rcv.contact = "accepted"

Consented(m, t) == IF Consents(m, t) THEN [told EXCEPT !.agreed = @ \cup {<<m, t>>}] ELSE told

ReceiveText(m) ==
    /\ srv.mail[m] > 0
    /\ srv' = [srv EXCEPT !.mail[m] = @ - 1]
    /\ IF rcv.contact = "blocked" THEN UNCHANGED <<rcv, told>>
       ELSE IF m \in rcv.rows THEN rcv' = [rcv EXCEPT !.stale = {}] /\ UNCHANGED told
       ELSE /\ rcv' = [rcv EXCEPT !.rows = @ \cup {m}, !.stale = {},
                !.queue = IF "delivered" \in snd.req[m] /\ MayConfirm(m, "delivered")
                          THEN @ \cup {<<m, "delivered">>} ELSE @]
            /\ told' = Consented(m, "delivered")
    /\ UNCHANGED <<snd, flush, viewing, drain, copies, scene, budget>>

\* The bubble was in view for a second: queueReadReceipt marks the row.  It looks at the
\* message as the screen loaded it, which is stale until a message event reloads the
\* list, and every render observes the bubble anew.
View(m) ==
    /\ m \in rcv.rows /\ (m \in rcv.done => m \in rcv.stale)
    /\ "read" \in snd.req[m] /\ "read" \in rcv.wants
    /\ IF m \in rcv.done
       THEN Event /\ told' = [told EXCEPT !.again = @ + 1]
       ELSE UNCHANGED <<told, scene, budget>>
    /\ rcv' = [rcv EXCEPT !.done = @ \cup {m}, !.stale = @ \cup {m}]
    /\ viewing' = viewing \cup {m}
    /\ UNCHANGED <<snd, flush, srv, drain, copies>>

\* It then queues the receipt, unless one is queued already.
QueueRead(m) ==
    /\ m \in viewing
    /\ viewing' = viewing \ {m}
    /\ rcv' = [rcv EXCEPT !.queue = IF rcv.contact = "accepted" THEN @ \cup {<<m, "read">>} ELSE @]
    /\ told' = IF rcv.contact = "accepted" THEN [told EXCEPT !.agreed = @ \cup {<<m, "read">>}] ELSE told
    /\ UNCHANGED <<snd, flush, srv, drain, copies, scene, budget>>

(***************************************************************************)
(* drainReceipts, called by every cover-traffic tick.  Ticks of two loops  *)
(* may overlap (Session), hence "draining".                                *)
(***************************************************************************)
DrainStart ==
    /\ drain.at = "idle"
    /\ rcv.queue # {}
    /\ drain' = [todo |-> SetToSeq(rcv.queue), at |-> "next"]
    /\ UNCHANGED <<snd, flush, srv, rcv, viewing, copies, told, scene, budget>>

NextReceipt == IF Len(drain.todo) = 1 THEN Idle ELSE [todo |-> Tail(drain.todo), at |-> "next"]
Unqueued(r) == [rcv EXCEPT !.queue = @ \ {r}]

StillAccepted_Unchecked == TRUE

StillAccepted == rcv.contact = "accepted"

\* A contact no longer accepted gets none; otherwise the receipt is sealed.
DrainNext(r) ==
    /\ drain.at = "next" /\ r = Head(drain.todo)
    /\ IF StillAccepted
       THEN drain' = [drain EXCEPT !.at = "checked"] /\ UNCHANGED rcv
       ELSE drain' = NextReceipt /\ rcv' = Unqueued(r)
    /\ UNCHANGED <<snd, flush, srv, viewing, copies, told, scene, budget>>

\* sendReceipt posts it, or parks it like any message, in the recipient's outbox.
DrainSend(r, parked) ==
    /\ drain.at = "checked" /\ r = Head(drain.todo)
    /\ parked => Event
    /\ parked \/ UNCHANGED <<scene, budget>>
    /\ told' = [told EXCEPT !.sealed[r] = @ + 1,
                            !.leaked = @ + IF rcv.contact = "blocked" THEN 1 ELSE 0]
    /\ srv' = [srv EXCEPT !.receipts = IF parked THEN @ ELSE @ \cup {r}]
    /\ rcv' = [rcv EXCEPT !.parked = IF parked THEN @ \cup {r} ELSE @]
    /\ drain' = [drain EXCEPT !.at = "sent"]
    /\ UNCHANGED <<snd, flush, viewing, copies>>

DrainDone_Kept(r) ==
    /\ drain.at = "sent" /\ r = Head(drain.todo)
    /\ drain' = NextReceipt
    /\ UNCHANGED <<snd, flush, srv, rcv, viewing, copies, told, scene, budget>>

DrainDone(r) ==
    /\ drain.at = "sent" /\ r = Head(drain.todo)
    /\ rcv' = Unqueued(r)
    /\ drain' = NextReceipt
    /\ UNCHANGED <<snd, flush, srv, viewing, copies, told, scene, budget>>

\* The recipient's own flush posts what was parked, and asks nobody.
FlushReceipt(r) ==
    /\ r \in rcv.parked
    /\ rcv' = [rcv EXCEPT !.parked = @ \ {r}]
    /\ srv' = [srv EXCEPT !.receipts = @ \cup {r}]
    /\ UNCHANGED <<snd, flush, viewing, drain, copies, told, scene, budget>>

Rank(s) == CASE s = "read" -> 2 [] s = "delivered" -> 1 [] OTHER -> 0

\* A receipt reaches the sender: never a downgrade, ignored while its kind is off.
applyIncomingReceipt(m, t) ==
    /\ <<m, t>> \in srv.receipts
    /\ srv' = [srv EXCEPT !.receipts = @ \ {<<m, t>>}]
    /\ snd' = [snd EXCEPT !.row = IF t \in snd.wants /\ Rank(snd.row[m]) < Rank(t)
                                  THEN SetStatus(m, t) ELSE @]
    /\ UNCHANGED <<flush, rcv, viewing, drain, copies, told, scene, budget>>

(***************************************************************************)
(* The users: settings, block and unblock, delete the chat, reload.        *)
(***************************************************************************)
Toggle(t) ==
    /\ Event
    /\ \/ /\ snd' = [snd EXCEPT !.wants = IF t \in @ THEN @ \ {t} ELSE @ \cup {t}]
          /\ UNCHANGED rcv
       \/ /\ rcv' = [rcv EXCEPT !.wants = IF t \in @ THEN @ \ {t} ELSE @ \cup {t}]
          /\ UNCHANGED snd
    /\ UNCHANGED <<flush, srv, viewing, drain, copies, told>>

blockContact ==
    /\ rcv.contact = "accepted"
    /\ Event
    /\ rcv' = [rcv EXCEPT !.contact = "blocked"]
    /\ told' = [told EXCEPT !.leaked = 0]
    /\ UNCHANGED <<snd, flush, srv, viewing, drain, copies>>

unblockContact ==
    /\ rcv.contact = "blocked"
    /\ rcv' = [rcv EXCEPT !.contact = "accepted"]
    /\ UNCHANGED <<snd, flush, srv, viewing, drain, copies, told, scene, budget>>

\* The sender deletes the chat: contact, rows and what is parked for it.
removeContact ==
    /\ snd.contact = "accepted"
    /\ Event
    /\ snd' = [snd EXCEPT !.contact = "none", !.row = [m \in Msgs |-> "none"], !.outbox = <<>>]
    /\ UNCHANGED <<flush, srv, rcv, viewing, drain, copies, told>>

Interrupted(pc) == [m \in Msgs |-> IF pc[m] = "idle" THEN "idle" ELSE "done"]

ReloadSender ==
    /\ Event
    /\ snd' = [snd EXCEPT !.pc = Interrupted(@)]
    /\ flush' = Idle
    /\ copies' = [m \in Msgs |-> IF copies[m] = "due" THEN "none" ELSE copies[m]]
    /\ UNCHANGED <<srv, rcv, viewing, drain, told>>

ReloadRecipient ==
    /\ Event
    /\ viewing' = {}
    /\ rcv' = [rcv EXCEPT !.stale = {}]
    /\ drain' = Idle
    /\ told' = [told EXCEPT !.reloads = @ + 1]
    /\ UNCHANGED <<snd, flush, srv, copies>>

Next ==
    \/ \E m \in Msgs :
        \/ Compose(m) \/ PostOk(m) \/ PostFails(m, TRUE) \/ PostFails(m, FALSE) \/ PostRefused(m)
        \/ AddRow(m) \/ FanOut(m, TRUE) \/ FanOut(m, FALSE) \/ applySyncRecord(m)
        \/ FlushPost(m) \/ FlushDone(m) \/ FlushDrop(m) \/ Expire(m)
        \/ ReceiveText(m) \/ View(m) \/ QueueRead(m)
    \/ \E m \in Files : Upload(m) \/ Seal(m) \/ UploadFails(m)
    \/ FlushStart \/ FlushBreak
    \/ DrainStart
    \/ \E r \in Receipts :
        \/ DrainNext(r) \/ DrainSend(r, TRUE) \/ DrainSend(r, FALSE) \/ DrainDone(r)
        \/ FlushReceipt(r) \/ applyIncomingReceipt(r[1], r[2])
    \/ \E t \in Types : Toggle(t)
    \/ blockContact \/ unblockContact \/ removeContact \/ ReloadSender \/ ReloadRecipient

Spec == Init /\ [][Next]_vars

(***************************************************************************)
(* Requests are answered or fail; a flush is woken again and again (the    *)
(* socket is reopened at least once a day, with the token) and every tick  *)
(* drains; failures are bounded by the scene's events.                     *)
(***************************************************************************)
FairSpec ==
    /\ Spec
    /\ WF_vars(FlushStart)
    /\ WF_vars(\E m \in Msgs : FlushPost(m) \/ FlushDone(m) \/ (m \in snd.late /\ FlushDrop(m)))
    /\ WF_vars(DrainStart)
    /\ WF_vars(\E r \in Receipts : DrainNext(r) \/ DrainSend(r, FALSE) \/ DrainDone(r))

(***************************************************************************)
(* Properties                                                              *)
(***************************************************************************)
\* Every variable keeps its shape, among it: at most one copy of a message per
\* POST waits, and flush and drain work on rows of their own tables.
TypeOK ==
    /\ snd.contact \in {"accepted", "none"} /\ snd.wants \subseteq Types
    /\ snd.pc \in [Msgs -> {"idle", "uploading", "posting", "taken", "parked", "done"}]
    /\ snd.req \in [Msgs -> SUBSET Types]
    /\ snd.row \in [Msgs -> Status]
    /\ IsInjective(snd.outbox) /\ ToSet(snd.outbox) \cup snd.late \subseteq Msgs
    /\ flush.at \in {"idle", "next", "posted"} /\ ToSet(flush.todo) \subseteq Msgs
    /\ (flush.at = "idle") <=> (flush.todo = <<>>)
    /\ srv.mail \in [Msgs -> Nat] /\ srv.blobs \in [Msgs -> 0..Chunks]
    /\ srv.receipts \cup rcv.queue \cup rcv.parked \subseteq Receipts /\ srv.went \subseteq Msgs
    /\ rcv.contact \in {"accepted", "blocked"} /\ rcv.wants \subseteq Types
    /\ rcv.rows \subseteq srv.went /\ rcv.done \cup viewing \subseteq rcv.rows /\ rcv.stale \subseteq rcv.done
    /\ drain.at \in {"idle", "next", "checked", "sent"} /\ ToSet(drain.todo) \subseteq Receipts
    /\ copies \in [Msgs -> {"none", "due", "posted", "sent"}]
    /\ told.agreed \subseteq Receipts /\ told.sealed \in [Receipts -> Nat] /\ {told.leaked, told.reloads, told.again} \subseteq Nat
    /\ budget \in 0..scene.events

Promise == INSTANCE Delivery
    WITH went <- srv.went, agreed <- told.agreed, shown <- snd.row

\* The ticks implement Delivery: through lost answers, retries, reloads, changed
\* settings and blocks, a message is shown as sent only if the server took it and as
\* delivered or read only if the recipient, with that setting on, got or viewed it.
StatusTrue == Promise!Spec

\* A receipt is sealed once, plus once for every reload that interrupted a drain
\* between sending and deleting its row, and, for a read receipt, once for every time
\* a stale list had it queued anew: overlapping ticks do not send it twice.
ReceiptOnce ==
    \A r \in Receipts :
        told.sealed[r] <= 1 + told.reloads + IF r[2] = "read" THEN told.again ELSE 0

\* "A contact BLOCKED AFTER a receipt was queued must not receive it": from a block
\* on, at most the one receipt whose check had passed before it is still sealed.
BlockStopsDrain == told.leaked <= 1

\* A file message the server has taken has all its chunks in the blob store.
ManifestLast == \A m \in srv.went \cap Files : srv.blobs[m] = Chunks

\* Everything parked leaves the outbox, by a POST or by its TTL, once failures cease.
OutboxDrains == \A m \in Msgs : (m \in ToSet(snd.outbox)) ~> (m \notin ToSet(snd.outbox))

\* Every queued receipt leaves the queue: sent, parked or dropped.
ReceiptsDrain == \A r \in Receipts : (r \in rcv.queue) ~> (r \notin rcv.queue)

\* Neither of the two queues keeps anything for ever (outbox.ts, receipts.ts).
QueuesDrain == OutboxDrains /\ ReceiptsDrain

\* "Never downgrades": a delivered or read tick stays.  (It does not hold; the
\* README says why.)
NeverDowngrades ==
    [][\A m \in Msgs : snd.row[m] \in Types => snd'.row[m] \in Types \cup {"none"}]_vars

\* A row shown as queued still waits.  (It does not hold; the README says why.)
QueuedWaits == \A m \in Msgs : snd.row[m] = "queued" => m \in ToSet(snd.outbox)

\* Turned off, receipts of a kind are no longer sent.  (It does not hold; the
\* README says why.)
MutualOff == [][\A r \in Receipts : told'.sealed[r] > told.sealed[r] => r[2] \in rcv.wants]_vars

\* queueReadReceipt "fires only once" for a message.  (It does not hold; the README says
\* why.)
ReadOnce == \A m \in Msgs : told.sealed[<<m, "read">>] <= 1 + told.reloads

\* A deleted chat stays deleted.  (It does not hold; the README says why.)
RemovedStays == snd.contact = "none" => snd.row = [m \in Msgs |-> "none"]

\* A linked device shows "sent" only for what was sent.  (It does not hold; the
\* README says why.)
CopyTrue == \A m \in Msgs : copies[m] = "sent" => m \in srv.went
=============================================================================
