------------------------------ MODULE MCDevice ------------------------------
(***************************************************************************)
(* A small instance of what a device keeps for itself: the history backup, *)
(* the app lock, and the prekeys with the watch on them. They share        *)
(* nothing, so TLC explores them one after the other, the prekeys twice:   *)
(* with peers that use them, and with another device that replaces them.   *)
(***************************************************************************)
EXTENDS Backup, Vault, Prekeys

VARIABLE part

deviceVars == <<backupVars, vaultVars, prekeyVars, part>>
Only(p, others) == part = p /\ UNCHANGED <<others, part>>
InBackup == Only("backup", <<vaultVars, prekeyVars>>)
InVault == Only("vault", <<backupVars, prekeyVars>>)
InKeys == part \in {"keys", "watch"} /\ UNCHANGED <<backupVars, vaultVars, part>>

\* A part that is not explored rests: nothing in flight, and one initial state.
Init ==
    /\ part \in {"backup", "vault", "keys", "watch"}
    /\ BackupInit /\ (part # "backup" => flags["old"].on = FALSE)
    /\ VaultInit /\ (part # "vault" => drawn = 1)
    /\ PrekeyInit /\ (part # "keys" => raced = FALSE)

Next ==
    \/ \E m \in Msgs : InBackup /\ NewMessage("old", m)
    \/ \E s \in {"none", "blocked"} : InBackup /\ ContactSet("old", s)
    \/ \E s \in {"accepted", "blocked"} : InBackup /\ ContactSet("new", s)
    \/ InBackup /\ Ticks
    \/ InBackup /\ enableBackup("old")
    \/ InBackup /\ disableBackup("old")
    \/ InBackup /\ BackUpNow("old")
    \/ InBackup /\ migrateBackupIds("old")
    \/ InBackup /\ restoreHistory("new")
    \/ \E t \in tasks : InBackup /\ LiveCheck(t)
    \/ \E t \in tasks : InBackup /\ collectLocalRecords(t)
    \/ \E t \in tasks : InBackup /\ Upload(t)
    \/ \E t \in tasks : InBackup /\ Uploaded(t)
    \/ \E t \in tasks : InBackup /\ List(t)
    \/ \E t \in tasks : InBackup /\ Listed(t)
    \/ \E t \in tasks : InBackup /\ MissingUploaded(t)
    \/ \E t \in tasks : InBackup /\ Drop(t)
    \/ \E t \in tasks : InBackup /\ deleteHistory(t)
    \/ \E t \in tasks : InBackup /\ RestorePage(t)
    \/ \E t \in tasks : InBackup /\ RestoreEnd(t)
    \/ \E t \in tasks : InBackup /\ CallFails(t)
    \/ \E d \in Devices : InBackup /\ ReloadDevice(d)
    \/ InVault /\ FirstKey
    \/ InVault /\ enableWithPassphrase
    \/ InVault /\ RekeyRead
    \/ InVault /\ RekeyWrite
    \/ InVault /\ Adopt
    \/ InVault /\ Wrap
    \/ InVault /\ clearNoLockHandle
    \/ InVault /\ clearFailures
    \/ InVault /\ addBiometric
    \/ InVault /\ Enrolled
    \/ InVault /\ EnrolFails
    \/ InVault /\ removeBiometric
    \/ InVault /\ disableLock
    \/ InVault /\ setNoLockHandle
    \/ InVault /\ clearLockMeta
    \/ \E k \in {"right", "wrong"} : InVault /\ throttle(k)
    \/ InVault /\ recordFailure
    \/ InVault /\ setUnlockedKey
    \/ InVault /\ unlockWithBiometric
    \/ InVault /\ Second
    \/ InVault /\ doLock
    \/ InVault /\ ReloadVault
    \/ InVault /\ WriteStart
    \/ InVault /\ WriteEnd
    \/ InKeys /\ Period
    \/ InKeys /\ Connect
    \/ InKeys /\ rotateSpkIfDue
    \/ InKeys /\ replenishOpks
    \/ InKeys /\ commit
    \/ InKeys /\ PublishOk
    \/ InKeys /\ PublishFails
    \/ InKeys /\ part = "keys" /\ take_one_time_prekey
    \/ \E m \in mail : InKeys /\ part = "keys" /\ ReceiveFirst(m)
    \/ \E m \in mail : InKeys /\ part = "keys" /\ ReceiveLost(m)
    \/ InKeys /\ FrameSaved
    \/ InKeys /\ ReloadPrekeys
    \/ InKeys /\ part = "watch" /\ RecoverElsewhere
    \/ InKeys /\ part = "watch" /\ Renewal
    \/ InKeys /\ checkAccountKeys
    \/ InKeys /\ CheckWrite
    \/ InKeys /\ part = "watch" /\ dismissKeyAlert
    \/ InKeys /\ DismissPut
    \/ InKeys /\ DismissClear

\* A call in flight goes on; the owner of a locked device tries the passphrase, and
\* time passes; the app reconnects and renews its sign-in.
FairSpec ==
    /\ Init /\ [][Next]_deviceVars
    /\ WF_backupVars(part = "backup" /\ \E t \in tasks : RestorePage(t) \/ RestoreEnd(t))
    /\ WF_vaultVars(part = "vault" /\ (throttle("right") \/ setUnlockedKey \/ recordFailure))
    /\ WF_vaultVars(part = "vault" /\ Second)
    /\ WF_prekeyVars(InKeys /\ (Connect \/ rotateSpkIfDue \/ replenishOpks \/ commit \/ PublishOk))
    /\ WF_prekeyVars(part = "watch" /\ (Renewal \/ checkAccountKeys \/ CheckWrite))

(***************************************************************************)
(* Whatever is under way comes to its end, through failures and reloads:   *)
(* a restore pages to the last row, the owner of a locked device gets back *)
(* in, keys that were saved are published, and a recovery on another       *)
(* device is shown.                                                        *)
(***************************************************************************)
Settles == []<>~(Restoring \/ ShutOut \/ Unpublished \/ Unseen)
=============================================================================
