------------------------------- MODULE Backup -------------------------------
(***************************************************************************)
(* The opt-in history backup (services/history-backup.ts,                  *)
(* history-records.ts, routes/history.rs): live backup, backfill, the      *)
(* migration to opaque blob ids, deletion and restore, by two devices of   *)
(* one account, with the server's rows paged by (created_at, blob_id).     *)
(*                                                                         *)
(* A blob id is its kind and the record: "opaque" for the HMAC of the      *)
(* record id, "plain" for a message id of an older build, "random" for the *)
(* label the server gave to an older build's contact sidecar.              *)
(***************************************************************************)
EXTENDS Naturals

CONSTANTS
    BackupEvents,   \* bound: messages, contact changes, toggles, failures and reloads
    BackupSeconds   \* bound: the last second of the server's clock

ASSUME BackupAssumption == BackupEvents \in Nat /\ BackupSeconds \in Nat

VARIABLES
    blobs,     \* server: blob id -> [ver, at], of the rows there are
    second,    \* server: the clock, in whole seconds
    lead,      \* the kind of blob id that sorts first
    own,       \* each device: message -> its status, and the status of the contact
    flags,     \* each device: backup on, blob ids migrated, sidecar sent in this run
    tasks,     \* calls of history-backup.ts in flight
    stored,    \* history: the records uploaded since everything was last deleted
    left       \* what is left of BackupEvents

backupVars == <<blobs, second, lead, own, flags, tasks, stored, left>>

Devices == {"old", "new"}     \* the old one backs up, the new one restores
Msgs == {"m1", "m2"}
Sent == {"m1"}                \* the messages we sent; the others came from the contact
Records == Msgs \cup {"contact"}
BlobIds == ({"opaque"} \X Records) \cup {<<"plain", "m1">>, <<"plain", "m2">>, <<"random", "contact">>}
Spend == left > 0 /\ left' = left - 1

Rank(id) == LET kind == CASE id[1] = lead -> 0 [] id[1] = "random" -> 1 [] OTHER -> 2
                rec == CASE id[2] = "m1" -> 0 [] id[2] = "m2" -> 1 [] OTHER -> 2
            IN 3 * kind + rec + 1        \* ranks start at 1, as rows do
Row(v) == [ver |-> v, at |-> second]
Without(f, S) == [x \in DOMAIN f \ S |-> f[x]]
With(f, x, v) == [y \in DOMAIN f \cup {x} |-> IF y = x THEN v ELSE f[y]]

Start == [at |-> 0, rank |-> 0]      \* before every row
Task(d, kind, at) == [dev |-> d, kind |-> kind, at |-> at, todo |-> {}, ids |-> {},
                      legacy |-> {}, cursor |-> Start, due |-> {}]

\* A device that never backed up, or one of an older build with one message backed up.
BackupInit ==
    /\ second = 1
    /\ \E older \in BOOLEAN, m \in Msgs :
        /\ older \/ m = "m1"
        /\ lead \in IF older THEN {"opaque", "plain"} ELSE {"opaque"}
        /\ blobs = IF older THEN [i \in {<<"plain", m>>, <<"random", "contact">>}
                                   |-> [ver |-> "older", at |-> 1]]
                   ELSE << >>
        /\ flags = [d \in Devices |-> [on |-> d = "old" /\ older, v2 |-> FALSE, side |-> FALSE]]
        /\ stored = IF older THEN {m, "contact"} ELSE {}
        /\ own = [d \in Devices |-> [x \in Records |->
                    CASE d = "new" -> "none" [] x = m -> "sent" [] x = "contact" -> "accepted"
                      [] OTHER -> "none"]]
    /\ tasks = {}
    /\ left = BackupEvents

(***************************************************************************)
(* What happens on the devices meanwhile.                                  *)
(***************************************************************************)
\* A message is stored, sent or received; its backup starts on its own.
NewMessage(d, m) ==
    /\ own[d][m] = "none" /\ own[d].contact = "accepted"
    /\ Spend
    /\ own' = [own EXCEPT ![d][m] = "sent"]
    /\ tasks' = tasks \cup {[Task(d, "live", "check") EXCEPT !.ids = {m}]}
    /\ UNCHANGED <<blobs, second, lead, flags, stored>>

ContactSet(d, status) ==
    /\ own[d].contact # status /\ (status = "blocked" => own[d].contact # "none")
    /\ Spend
    /\ own' = [own EXCEPT ![d].contact = status]
    /\ tasks' = {IF t.dev = d THEN [t EXCEPT !.due = @ \ ({"opaque", "random"} \X {"contact"})] ELSE t
                 : t \in tasks}
    /\ UNCHANGED <<blobs, second, lead, flags, stored>>

Ticks ==
    /\ second < BackupSeconds
    /\ second' = second + 1
    /\ UNCHANGED <<blobs, lead, own, flags, tasks, stored, left>>

(***************************************************************************)
(* Starting a call. Settings runs one at a time on a device.               *)
(***************************************************************************)
Idle(d) == \A t \in tasks : t.dev = d => t.kind \in {"live", "migrate"}

enableBackup(d) ==
    /\ Idle(d) /\ ~flags[d].on
    /\ Spend
    /\ flags' = [flags EXCEPT ![d].on = TRUE]
    /\ tasks' = tasks \cup {Task(d, "enable", "collect")}
    /\ UNCHANGED <<blobs, second, lead, own, stored>>

disableBackup(d) ==
    /\ Idle(d) /\ flags[d].on
    /\ Spend
    /\ flags' = [flags EXCEPT ![d].on = FALSE, ![d].side = FALSE]
    /\ tasks' = tasks \cup {Task(d, "disable", "delete")}
    /\ UNCHANGED <<blobs, second, lead, own, stored>>

BackUpNow(d) ==
    /\ Idle(d) /\ flags[d].on
    /\ Spend
    /\ tasks' = tasks \cup {Task(d, "backfill", "collect")}
    /\ UNCHANGED <<blobs, second, lead, own, flags, stored>>

\* App, at every start of the connection; a no-op while backup is off or once done.
migrateBackupIds(d) ==
    /\ flags[d].on /\ ~flags[d].v2
    /\ ~\E t \in tasks : t.dev = d /\ t.kind = "migrate"
    /\ tasks' = tasks \cup {Task(d, "migrate", "collect")}
    /\ UNCHANGED <<blobs, second, lead, own, flags, stored, left>>

restoreHistory(d) ==
    /\ Idle(d)
    /\ DOMAIN blobs # {}
    /\ Spend
    /\ tasks' = tasks \cup {[Task(d, "restore", "page") EXCEPT !.due = DOMAIN blobs]}
    /\ UNCHANGED <<blobs, second, lead, own, flags, stored>>

(***************************************************************************)
(* Uploading.                                                              *)
(***************************************************************************)
Turns(t, u) == tasks' = (tasks \ {t}) \cup {u}
Done(t) == tasks' = tasks \ {t}

\* What this device has of a record, ready to upload under its opaque id.
Local(d, S) == {[id |-> <<"opaque", r>>, ver |-> own[d][r]] : r \in {r \in S : own[d][r] # "none"}}

\* backupMessage: the message, and the contact's sidecar once per run of the app.
LiveCheck(t) ==
    /\ t.kind = "live" /\ t.at = "check"
    /\ LET S == IF flags[t.dev].side THEN t.ids ELSE t.ids \cup {"contact"}
       IN IF flags[t.dev].on
          THEN /\ Turns(t, [t EXCEPT !.at = "upload", !.todo = Local(t.dev, S)])
               /\ flags' = [flags EXCEPT ![t.dev].side = @ \/ own[t.dev].contact # "none"]
          ELSE Done(t) /\ UNCHANGED flags
    /\ UNCHANGED <<blobs, second, lead, own, stored, left>>

collectLocalRecords(t) ==
    /\ t.at = "collect"
    /\ Turns(t, [t EXCEPT !.at = "upload", !.todo = Local(t.dev, Records)])
    /\ UNCHANGED <<blobs, second, lead, own, flags, stored, left>>

\* Messages first, then the contact; a request carries one record here. The server
\* inserts the row or refreshes it.
Upload(t) ==
    /\ t.at \in {"upload", "missing"}
    /\ \E b \in t.todo :
        /\ \A o \in t.todo : Rank(b.id) <= Rank(o.id)
        /\ blobs' = With(blobs, b.id, Row(b.ver))
        /\ stored' = stored \cup {b.id[2]}
        /\ Turns(t, [t EXCEPT !.todo = @ \ {b}])
    /\ UNCHANGED <<second, lead, own, flags, left>>

Uploaded(t) ==
    /\ t.at = "upload" /\ t.todo = {}
    /\ flags' = IF t.kind = "enable" THEN [flags EXCEPT ![t.dev].v2 = TRUE] ELSE flags
    /\ IF t.kind = "migrate" THEN Turns(t, [t EXCEPT !.at = "list"]) ELSE Done(t)
    /\ UNCHANGED <<blobs, second, lead, own, stored, left>>

(***************************************************************************)
(* Paging: the next row strictly after the cursor, oldest first.           *)
(***************************************************************************)
After_TimeOnly(id, c) == blobs[id].at > c.at
After_Inclusive(id, c) ==
    blobs[id].at > c.at \/ (blobs[id].at = c.at /\ Rank(id) >= c.rank)
After(id, c) ==
    blobs[id].at > c.at \/ (blobs[id].at = c.at /\ Rank(id) > c.rank)
Cursor(id) == [at |-> blobs[id].at, rank |-> Rank(id)]
NextRows(c) ==
    LET rest == {id \in DOMAIN blobs : After(id, c)}
    IN {id \in rest : \A o \in rest : o = id \/ After(o, Cursor(id))}

(***************************************************************************)
(* dropLegacyIds: list everything, upload what has no opaque copy, and     *)
(* only then delete the rows under other ids.                              *)
(***************************************************************************)
List(t) ==
    /\ t.at = "list"
    /\ \E id \in NextRows(t.cursor) :
        LET old == IF id[1] = "opaque" THEN {} ELSE {[id |-> id, ver |-> blobs[id].ver]}
        IN Turns(t, [t EXCEPT !.cursor = Cursor(id), !.ids = @ \cup {id},
                              !.legacy = @ \cup old])
    /\ UNCHANGED <<blobs, second, lead, own, flags, stored, left>>

Listed_DropFirst(t) ==
    /\ t.at = "list" /\ NextRows(t.cursor) = {}
    /\ Turns(t, [t EXCEPT !.at = "drop"])
    /\ UNCHANGED <<blobs, second, lead, own, flags, stored, left>>

Listed(t) ==
    /\ t.at = "list" /\ NextRows(t.cursor) = {}
    /\ LET copies == {[id |-> <<"opaque", l.id[2]>>, ver |-> l.ver] : l \in t.legacy}
       IN Turns(t, [t EXCEPT !.at = "missing", !.todo = {c \in copies : c.id \notin t.ids}])
    /\ UNCHANGED <<blobs, second, lead, own, flags, stored, left>>

MissingUploaded(t) ==
    /\ t.at = "missing" /\ t.todo = {}
    /\ Turns(t, [t EXCEPT !.at = "drop"])
    /\ UNCHANGED <<blobs, second, lead, own, flags, stored, left>>

\* A row that is deleted is no longer due to any restore.
Deleted(S, T) == {[t EXCEPT !.due = @ \ S] : t \in T}

Drop(t) ==
    /\ t.at = "drop"
    /\ LET stale == {l.id : l \in t.legacy}
       IN /\ blobs' = Without(blobs, stale)
          /\ tasks' = Deleted(stale, tasks \ {t})
    /\ flags' = [flags EXCEPT ![t.dev].v2 = TRUE]
    /\ UNCHANGED <<second, lead, own, stored, left>>

deleteHistory(t) ==
    /\ t.at = "delete"
    /\ blobs' = << >>
    /\ tasks' = Deleted(BlobIds, tasks \ {t})
    /\ stored' = {}
    /\ UNCHANGED <<second, lead, own, flags, left>>

(***************************************************************************)
(* Restore. A contact record of an older build says nothing of its status, *)
(* so it waits for the last page.                                          *)
(***************************************************************************)
Sticky_Overwrites(now, status) == status
Sticky(now, status) == IF now \in {"accepted", "blocked"} THEN now ELSE status

importRecord(d, rec, ver) ==
    [own EXCEPT ![d][rec] = IF rec = "contact" THEN Sticky(@, ver) ELSE ver]

RestorePage(t) ==
    /\ t.at = "page"
    /\ \E id \in NextRows(t.cursor) :
        LET waits == id[2] = "contact" /\ blobs[id].ver = "older"
        IN /\ own' = IF waits THEN own ELSE importRecord(t.dev, id[2], blobs[id].ver)
           /\ Turns(t, [t EXCEPT !.cursor = Cursor(id), !.ids = @ \cup {id[2]},
                                 !.legacy = IF waits THEN @ \cup {id} ELSE @])
    /\ UNCHANGED <<blobs, second, lead, flags, stored, left>>

\* Anyone we sent a message to was accepted; a message from them proves nothing.
LegacyStatus(t) == IF t.ids \cap Sent # {} THEN "accepted" ELSE "pending_inbound"

RestoreEnd(t) ==
    /\ t.at = "page" /\ NextRows(t.cursor) = {}
    /\ own' = IF t.legacy = {} THEN own ELSE importRecord(t.dev, "contact", LegacyStatus(t))
    /\ Done(t)
    /\ UNCHANGED <<blobs, second, lead, flags, stored, left>>

(***************************************************************************)
(* A request fails, and its call with it; the page is loaded again.        *)
(***************************************************************************)
CallFails(t) ==
    /\ t.at \in {"upload", "missing", "list", "drop", "delete", "page"}
    /\ Spend
    /\ Done(t)
    /\ UNCHANGED <<blobs, second, lead, own, flags, stored>>

ReloadDevice(d) ==
    /\ \E t \in tasks : t.dev = d
    /\ Spend
    /\ tasks' = {t \in tasks : t.dev # d}
    /\ flags' = [flags EXCEPT ![d].side = FALSE]
    /\ UNCHANGED <<blobs, second, lead, own, stored>>

\* Both devices do anything a device can do (MCDevice gives each its part).
BackupNext ==
    \/ Ticks
    \/ \E d \in Devices :
        \/ \E m \in Msgs : NewMessage(d, m)
        \/ \E s \in {"none", "accepted", "blocked"} : ContactSet(d, s)
        \/ enableBackup(d) \/ disableBackup(d) \/ BackUpNow(d)
        \/ migrateBackupIds(d) \/ restoreHistory(d) \/ ReloadDevice(d)
    \/ \E t \in tasks :
        \/ LiveCheck(t) \/ collectLocalRecords(t) \/ Upload(t) \/ Uploaded(t)
        \/ List(t) \/ Listed(t) \/ MissingUploaded(t) \/ Drop(t) \/ deleteHistory(t)
        \/ RestorePage(t) \/ RestoreEnd(t) \/ CallFails(t)

BackupSpec == BackupInit /\ [][BackupNext]_backupVars

(***************************************************************************)
(* Properties.                                                             *)
(***************************************************************************)
\* Every variable keeps its shape; a row carries a second that the server's clock has
\* reached, which the cursor of the pages relies on (routes/history.rs).
BackupTypeOK ==
    /\ DOMAIN blobs \subseteq BlobIds
    /\ \A i \in DOMAIN blobs : blobs[i].at \in 1..second
    /\ stored \subseteq Records
    /\ \A t \in tasks : t.dev \in Devices /\ t.due \subseteq BlobIds
    /\ \A d \in Devices : own[d].contact \in {"none", "pending_inbound", "accepted", "blocked"}

\* What was backed up stays on the server, under one id or another, until the user
\* deletes all of it: the migration loses nothing, wherever it is cut short.
NothingLost == \A r \in stored : \E i \in DOMAIN blobs : i[2] = r

\* A restore that ends has brought in every record whose row stayed there meanwhile,
\* whatever was uploaded, moved to a later second or deleted between two pages.
RestoreComplete ==
    [][\A t \in tasks : t.at = "page" /\ RestoreEnd(t) =>
        \A i \in t.due : own'[t.dev][i[2]] # "none"]_backupVars

\* A restore never takes back a decision made on this device: a blocked contact stays
\* blocked and an accepted one accepted (EncryptedContacts.add).
StaysDecided ==
    \A t \in tasks, d \in Devices :
        t \notin tasks' /\ own[d].contact \in {"accepted", "blocked"} /\ left' = left
            => own'[d].contact = own[d].contact

\* An older build's contact record makes nobody a contact on the strength of a
\* message they sent us (restoreHistory, weMessaged).
NobodyForced ==
    \A t \in tasks :
        t \notin tasks' /\ t.kind = "restore" /\ left' = left
        /\ own[t.dev].contact # "accepted" /\ own'[t.dev].contact = "accepted"
            => \/ t.ids \cap Sent # {}
               \/ \E i \in DOMAIN blobs : i[2] = "contact" /\ blobs[i].ver = "accepted"

\* Who is a contact is decided by the user: no step of a restore undoes such a decision,
\* and none makes one for them.
DecisionsStick == [][StaysDecided /\ NobodyForced]_backupVars

\* A restore that has not come to its end; it does, since the cursor is strict over both
\* columns (Settles, in MCDevice).
Restoring == \E t \in tasks : t.kind = "restore"

\* Once backup is off and nothing is in flight, the server holds nothing. (It does not
\* hold; the README says why.)
OffIsEmpty ==
    tasks = {} /\ (\A d \in Devices : ~flags[d].on) /\ left < BackupEvents => DOMAIN blobs = {}
=============================================================================
