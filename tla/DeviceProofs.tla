---------------------------- MODULE DeviceProofs ----------------------------
(***************************************************************************)
(* Proofs about what a device keeps for itself: that the app lock keeps    *)
(* the data for its owner and from everybody else, that the history backup *)
(* loses nothing, restores everything and decides nothing, and that the    *)
(* prekeys peers are handed out can be used, for any number of events,     *)
(* seconds, guesses, rotation periods and reloads.                         *)
(***************************************************************************)
EXTENDS Backup, Vault, Prekeys, WellFoundedInduction, TLAPS

(***************************************************************************)
(* The app lock: the strengthening.                                        *)
(***************************************************************************)
Steps == {"none", "read", "write", "adopt", "wrap", "forget", "clear", "enrol", "handle", "unlink"}
Metas == [on : BOOLEAN, pass : Nat, bio : Nat]
Changes == [kind : {"none", "enable", "biometric", "disable"}, at : Steps,
            key : Nat, old : Nat, n : 1..2, ver : Nat]
Guesses == {"none", "right", "wrong"}

LockShape ==
    /\ handle \in Nat /\ mem \in Nat /\ pen \in Nat /\ drawn \in Nat
    /\ meta \in Metas
    /\ rows \in [Tables -> [key : Nat, ver : Nat]]
    /\ change \in Changes
    /\ fails \in [count : Nat, wait : Nat]
    /\ quiet \in 0..LongestWait
    /\ guess \in Guesses
    /\ torn \in BOOLEAN /\ up \in BOOLEAN

\* Which keys there are at each stage: none before the first start, a lock or a handle
\* ever after, and in between what the step of the change in flight relies on.
LifeInv ==
    /\ meta.on = (meta.pass # 0)
    /\ ~meta.on => meta.bio = 0
    /\ drawn = 0 => /\ handle = 0 /\ mem = 0 /\ pen = 0 /\ ~meta.on
                    /\ change.at = "none"
                    /\ \A t \in Tables : rows[t].key = 0
    /\ drawn # 0 => /\ meta.on \/ handle # 0
                    /\ \A t \in Tables : rows[t].key # 0
    /\ Rekeying => ~meta.on /\ change.key # 0
    /\ change.at \in {"forget", "enrol", "handle", "unlink"} => meta.on
    /\ change.at \in {"enrol", "handle"} => change.key # 0
    /\ change.at = "unlink" => handle # 0 /\ ~up
    /\ up => meta.on /\ handle = 0

\* The key in use.
Cur == IF meta.on THEN meta.pass ELSE handle

\* The table is already under the new key.
Moved(i) == change.at \in {"adopt", "wrap"} \/ (change.at \in {"read", "write"} /\ i < change.n)

\* Unless a re-key was cut short, every copy of a key and every row is of the key in
\* use, or of the new one from the step of the re-key on that brings it there.
KeysInv ==
    ~torn =>
        /\ mem \in {0, IF change.at = "wrap" THEN change.key ELSE Cur}
        /\ meta.bio \in {0, Cur}
        /\ Rekeying => change.old = handle
        /\ change.at \in {"enrol", "handle"} => change.key = Cur
        /\ change.at = "unlink" => handle = Cur
        /\ drawn # 0 => \A i \in 1..2 :
                \/ Rekeyed[i] \in late
                \/ rows[Rekeyed[i]].key = IF Moved(i) THEN change.key ELSE Cur

\* What is still to wait and what has passed make up the delay.
ThrottleInv ==
    /\ fails.wait + quiet >= Delay(fails.count)
    /\ guess # "none" => quiet >= Delay(fails.count)

LockInv == LockShape /\ LifeInv /\ KeysInv /\ ThrottleInv

\* Without a lock and without a change in flight, the initial states satisfy it.
LEMMA LockStart == VaultInit => LockInv
<1> SUFFICES ASSUME VaultInit PROVE LockInv
  OBVIOUS
<1>1. drawn \in Nat /\ meta \in Metas /\ change \in Changes
  BY DEF VaultInit, Metas, Changes, Steps, NoLock, NoChange
<1>2. rows \in [Tables -> [key : Nat, ver : Nat]] /\ fails \in [count : Nat, wait : Nat]
  BY <1>1 DEF VaultInit
<1> torn \in BOOLEAN /\ up \in BOOLEAN /\ guess \in Guesses
  BY DEF VaultInit, Guesses
<1> quiet \in 0..LongestWait
  BY DEF VaultInit, LongestWait
<1>3. LockShape
  BY <1>1, <1>2 DEF VaultInit, LockShape
<1>4. LifeInv
  BY DEF VaultInit, LifeInv, NoLock, NoChange, Rekeying
<1>5. KeysInv
  BY DEF VaultInit, KeysInv, NoLock, NoChange, Rekeying, Moved, Cur, Rekeyed, Tables
<1>6. ThrottleInv
  BY VaultAssumption DEF VaultInit, ThrottleInv, Delay, LongestWait
<1> QED
  BY <1>3, <1>4, <1>5, <1>6 DEF LockInv

\* Every action keeps the shapes.
LEMMA ShapeStep == LockShape /\ [VaultNext]_vaultVars => LockShape'
<1> SUFFICES ASSUME LockShape, [VaultNext]_vaultVars PROVE LockShape'
  OBVIOUS
<1>1. CASE FirstKey
  BY <1>1 DEF FirstKey, MasterKey, LockShape, Metas, Changes, Steps, Guesses, VSpend
<1>2. CASE enableWithPassphrase
  <2>1. MasterKey \in Nat /\ drawn + 1 \in Nat
    BY DEF LockShape, MasterKey
  <2>2. /\ change'.kind = "enable" /\ change'.at = "read" /\ change'.key = drawn + 1
        /\ change'.old = MasterKey /\ change'.n = 1 /\ change'.ver = 0
        /\ change' = [kind |-> change'.kind, at |-> change'.at, key |-> change'.key,
                       old |-> change'.old, n |-> change'.n, ver |-> change'.ver]
    BY <1>2 DEF enableWithPassphrase, Begin, NoChange
  <2>3. change' \in Changes
    BY <2>1, <2>2 DEF Changes, Steps
  <2> QED
    BY <1>2, <2>1, <2>3 DEF enableWithPassphrase, LockShape
<1>3. CASE RekeyRead
  <2>1. rows[Rekeyed[change.n]] \in [key : Nat, ver : Nat]
    BY DEF LockShape, Changes, Rekeyed, Tables
  <2>2. CASE rows[Rekeyed[change.n]].key = change.old
    <3>1. change' = [change EXCEPT !.at = "write",
      !.ver = rows[Rekeyed[change.n]].ver] /\ torn' = torn
      BY <1>3, <2>2 DEF RekeyRead
    <3>2. change' \in Changes
      BY <2>1, <3>1 DEF LockShape, Changes, Steps
    <3> QED
      BY <1>3, <3>1, <3>2 DEF RekeyRead, LockShape
  <2>3. CASE rows[Rekeyed[change.n]].key # change.old
    <3>1. change' \in Changes /\ torn' \in BOOLEAN
      BY <1>3, <2>3 DEF RekeyRead, NoChange, Changes, Steps
    <3> QED
      BY <1>3, <3>1 DEF RekeyRead, LockShape
  <2> QED
    BY <2>2, <2>3
<1>4. CASE RekeyWrite
  <2>1. rows' \in [Tables -> [key : Nat, ver : Nat]]
    BY <1>4 DEF RekeyWrite, LockShape, Changes
  <2>2. change.n \in 1..2 /\ (change.n < 2 => change.n + 1 \in 1..2)
    BY DEF LockShape, Changes
  <2>3. change' \in Changes
    BY <1>4, <2>2 DEF RekeyWrite, LockShape, Changes, Steps
  <2> QED
    BY <1>4, <2>1, <2>3 DEF RekeyWrite, LockShape
<1>5. CASE Adopt
  BY <1>5 DEF Adopt, LockShape, Metas, Changes, Steps, Guesses, VSpend
<1>6. CASE Wrap
  BY <1>6 DEF Wrap, NoLock, LockShape, Metas, Changes, Steps, Guesses, VSpend
<1>7. CASE clearNoLockHandle
  BY <1>7 DEF clearNoLockHandle, LockShape, Metas, Changes, Steps, Guesses, VSpend
<1>8. CASE clearFailures
  BY <1>8 DEF clearFailures, NoChange, LockShape, Metas, Changes, Steps, Guesses, VSpend
<1>9. CASE addBiometric
  BY <1>9 DEF addBiometric, Begin, NoChange, LockShape, Metas, Changes, Steps, Guesses, VSpend
<1>10. CASE Enrolled
  <2>1. meta' \in Metas
    BY <1>10 DEF Enrolled, LockShape, Metas, Changes
  <2>2. change' \in Changes
    BY <1>10 DEF Enrolled, NoChange, Changes, Steps
  <2> QED
    BY <1>10, <2>1, <2>2 DEF Enrolled, LockShape
<1>11. CASE EnrolFails
  BY <1>11 DEF EnrolFails, NoChange, LockShape, Metas, Changes, Steps, Guesses, VSpend
<1>12. CASE removeBiometric
  BY <1>12 DEF removeBiometric, NoChange, LockShape, Metas, Changes, Steps, Guesses, VSpend
<1>13. CASE disableLock
  BY <1>13 DEF disableLock, Begin, NoChange, LockShape, Metas, Changes, Steps, Guesses, VSpend
<1>14. CASE setNoLockHandle
  BY <1>14 DEF setNoLockHandle, LockShape, Metas, Changes, Steps, Guesses, VSpend
<1>15. CASE clearLockMeta
  BY <1>15 DEF clearLockMeta, NoLock, LockShape, Metas, Changes, Steps, Guesses, VSpend
<1>16. ASSUME NEW k \in {"right", "wrong"}, throttle(k) PROVE LockShape'
  BY <1>16 DEF throttle, LockShape, Metas, Changes, Steps, Guesses, VSpend
<1>17. CASE recordFailure
  BY <1>17 DEF recordFailure, Delay, LongestWait, LockShape, Metas, Changes, Steps, Guesses, VSpend
<1>18. CASE setUnlockedKey
  BY <1>18 DEF setUnlockedKey, LockShape, Metas, Changes, Steps, Guesses, VSpend
<1>19. CASE unlockWithBiometric
  BY <1>19 DEF unlockWithBiometric, LockShape, Metas, Changes, Steps, Guesses, VSpend
<1>20. CASE Second
  BY <1>20 DEF Second, LongestWait, LockShape, Metas, Changes, Steps, Guesses, VSpend
<1>21. CASE doLock
  BY <1>21 DEF doLock, LockShape, Metas, Changes, Steps, Guesses, VSpend
<1>22. CASE ReloadVault
  BY <1>22 DEF ReloadVault, NoChange, Rekeying, LockShape, Metas, Changes, Steps, Guesses, VSpend
<1>23. CASE WriteStart
  BY <1>23 DEF WriteStart, MasterKey, LockShape, Metas, Changes, Steps, Guesses, VSpend
<1>24. CASE WriteEnd
  BY <1>24 DEF WriteEnd, Tables, LockShape, Metas, Changes, Steps, Guesses, VSpend
<1>25. CASE UNCHANGED vaultVars
  BY <1>25 DEF vaultVars, LockShape, Metas, Changes, Steps, Guesses, VSpend
<1> QED
  BY <1>1, <1>2, <1>3, <1>4, <1>5, <1>6, <1>7, <1>8, <1>9, <1>10, <1>11, <1>12, <1>13, <1>14,
      <1>15, <1>16, <1>17, <1>18, <1>19, <1>20, <1>21, <1>22, <1>23, <1>24, <1>25 DEF VaultNext

\* Every action keeps the keys there are.
LEMMA LifeStep == LockShape /\ LifeInv /\ [VaultNext]_vaultVars => LifeInv'
<1> SUFFICES ASSUME LockShape, LifeInv, [VaultNext]_vaultVars PROVE LifeInv'
  OBVIOUS
<1>1. CASE FirstKey
  BY <1>1 DEF FirstKey, MasterKey, LockShape, LifeInv, Metas, Changes, Rekeying, VSpend
<1>2. CASE enableWithPassphrase
  BY <1>2 DEF enableWithPassphrase, Begin, MasterKey, NoChange, LockShape, LifeInv, Metas, Changes,
      Rekeying, VSpend
<1>3. CASE RekeyRead
  <2>1. \/ change' = [change EXCEPT !.at = "write", !.ver = rows[Rekeyed[change.n]].ver]
        \/ change' = NoChange
    BY <1>3 DEF RekeyRead
  <2> DEFINE v == rows[Rekeyed[change.n]].ver
  <2> HIDE DEF v
  <2>2. \/ change'.at = "write" /\ change'.key = change.key
        \/ change'.at = "none"
    <3>1. change' = [change EXCEPT !.at = "write", !.ver = v] \/ change' = NoChange
      BY <2>1 DEF v
    <3>2. change \in Changes
      BY DEF LockShape
    <3>3. CASE change' = [change EXCEPT !.at = "write", !.ver = v]
      BY ONLY <3>2, <3>3 DEF Changes
    <3>4. CASE change' = NoChange
      BY ONLY <3>4 DEF NoChange
    <3> QED
      BY <3>1, <3>3, <3>4
  <2> QED
    BY <1>3, <2>2 DEF RekeyRead, LifeInv, Rekeying
<1>4. CASE RekeyWrite
  BY <1>4 DEF RekeyWrite, Rekeyed, Tables, LockShape, LifeInv, Metas, Changes, Rekeying, VSpend
<1>5. CASE Adopt
  BY <1>5 DEF Adopt, LockShape, LifeInv, Metas, Changes, Rekeying, VSpend
<1>6. CASE Wrap
  BY <1>6 DEF Wrap, NoLock, LockShape, LifeInv, Metas, Changes, Rekeying, VSpend
<1>7. CASE clearNoLockHandle
  BY <1>7 DEF clearNoLockHandle, LockShape, LifeInv, Metas, Changes, Rekeying, VSpend
<1>8. CASE clearFailures
  BY <1>8 DEF clearFailures, NoChange, LockShape, LifeInv, Metas, Changes, Rekeying, VSpend
<1>9. CASE addBiometric
  BY <1>9 DEF addBiometric, Begin, NoChange, LockShape, LifeInv, Metas, Changes, Rekeying, VSpend
<1>10. CASE Enrolled
  BY <1>10 DEF Enrolled, NoChange, LockShape, LifeInv, Metas, Changes, Rekeying, VSpend
<1>11. CASE EnrolFails
  BY <1>11 DEF EnrolFails, NoChange, LockShape, LifeInv, Metas, Changes, Rekeying, VSpend
<1>12. CASE removeBiometric
  BY <1>12 DEF removeBiometric, NoChange, LockShape, LifeInv, Metas, Changes, Rekeying, VSpend
<1>13. CASE disableLock
  BY <1>13 DEF disableLock, Begin, NoChange, LockShape, LifeInv, Metas, Changes, Rekeying, VSpend
<1>14. CASE setNoLockHandle
  BY <1>14 DEF setNoLockHandle, LockShape, LifeInv, Metas, Changes, Rekeying, VSpend
<1>15. CASE clearLockMeta
  BY <1>15 DEF clearLockMeta, NoLock, LockShape, LifeInv, Metas, Changes, Rekeying, VSpend
<1>16. ASSUME NEW k \in {"right", "wrong"}, throttle(k) PROVE LifeInv'
  BY <1>16 DEF throttle, LockShape, LifeInv, Metas, Changes, Rekeying, VSpend
<1>17. CASE recordFailure
  BY <1>17 DEF recordFailure, Delay, LongestWait, LockShape, LifeInv, Metas, Changes, Rekeying, VSpend
<1>18. CASE setUnlockedKey
  BY <1>18 DEF setUnlockedKey, LockShape, LifeInv, Metas, Changes, Rekeying, VSpend
<1>19. CASE unlockWithBiometric
  BY <1>19 DEF unlockWithBiometric, LockShape, LifeInv, Metas, Changes, Rekeying, VSpend
<1>20. CASE Second
  BY <1>20 DEF Second, LongestWait, LockShape, LifeInv, Metas, Changes, Rekeying, VSpend
<1>21. CASE doLock
  BY <1>21 DEF doLock, LockShape, LifeInv, Metas, Changes, Rekeying, VSpend
<1>22. CASE ReloadVault
  BY <1>22 DEF ReloadVault, NoChange, Rekeying, LockShape, LifeInv, Metas, Changes, VSpend
<1>23. CASE WriteStart
  BY <1>23 DEF WriteStart, MasterKey, LockShape, LifeInv, Metas, Changes, Rekeying, VSpend
<1>24. CASE WriteEnd
  BY <1>24 DEF WriteEnd, Tables, LockShape, LifeInv, Metas, Changes, Rekeying, VSpend
<1>25. CASE UNCHANGED vaultVars
  BY <1>25 DEF vaultVars, LockShape, LifeInv, Metas, Changes, Rekeying, VSpend
<1> QED
  BY <1>1, <1>2, <1>3, <1>4, <1>5, <1>6, <1>7, <1>8, <1>9, <1>10, <1>11, <1>12, <1>13, <1>14,
      <1>15, <1>16, <1>17, <1>18, <1>19, <1>20, <1>21, <1>22, <1>23, <1>24, <1>25 DEF VaultNext

\* Every action keeps the copies of the key in use.
LEMMA KeysStep == LockShape /\ LifeInv /\ KeysInv /\ [VaultNext]_vaultVars => KeysInv'
<1> SUFFICES ASSUME LockShape, LifeInv, KeysInv, [VaultNext]_vaultVars PROVE KeysInv'
  OBVIOUS
<1>1. CASE FirstKey
  BY <1>1 DEF FirstKey, MasterKey, LockShape, LifeInv, KeysInv, Metas, Changes, Rekeying, Moved, Cur,
      Rekeyed, Tables
<1>2. CASE enableWithPassphrase
  BY <1>2 DEF enableWithPassphrase, Begin, MasterKey, NoChange, LockShape, LifeInv, KeysInv, Metas,
      Changes, Rekeying, Moved, Cur, Rekeyed, Tables
<1>3. CASE RekeyRead
  BY <1>3 DEF RekeyRead, NoChange, Rekeyed, Tables, LockShape, LifeInv, KeysInv, Metas, Changes,
      Rekeying, Moved, Cur
<1>4. CASE RekeyWrite
  BY <1>4 DEF RekeyWrite, Rekeyed, Tables, LockShape, LifeInv, KeysInv, Metas, Changes, Rekeying,
      Moved, Cur
<1>5. CASE Adopt
  BY <1>5 DEF Adopt, LockShape, LifeInv, KeysInv, Metas, Changes, Rekeying, Moved, Cur, Rekeyed, Tables
<1>6. CASE Wrap
  BY <1>6 DEF Wrap, NoLock, LockShape, LifeInv, KeysInv, Metas, Changes, Rekeying, Moved, Cur,
      Rekeyed, Tables
<1>7. CASE clearNoLockHandle
  BY <1>7 DEF clearNoLockHandle, LockShape, LifeInv, KeysInv, Metas, Changes, Rekeying, Moved, Cur,
      Rekeyed, Tables
<1>8. CASE clearFailures
  BY <1>8 DEF clearFailures, NoChange, LockShape, LifeInv, KeysInv, Metas, Changes, Rekeying, Moved,
      Cur, Rekeyed, Tables
<1>9. CASE addBiometric
  BY <1>9 DEF addBiometric, Begin, NoChange, LockShape, LifeInv, KeysInv, Metas, Changes, Rekeying,
      Moved, Cur, Rekeyed, Tables
<1>10. CASE Enrolled
  BY <1>10 DEF Enrolled, NoChange, LockShape, LifeInv, KeysInv, Metas, Changes, Rekeying, Moved, Cur,
      Rekeyed, Tables
<1>11. CASE EnrolFails
  BY <1>11 DEF EnrolFails, NoChange, LockShape, LifeInv, KeysInv, Metas, Changes, Rekeying, Moved,
      Cur, Rekeyed, Tables
<1>12. CASE removeBiometric
  BY <1>12 DEF removeBiometric, NoChange, LockShape, LifeInv, KeysInv, Metas, Changes, Rekeying,
      Moved, Cur, Rekeyed, Tables
<1>13. CASE disableLock
  BY <1>13 DEF disableLock, Begin, NoChange, LockShape, LifeInv, KeysInv, Metas, Changes, Rekeying,
      Moved, Cur, Rekeyed, Tables
<1>14. CASE setNoLockHandle
  BY <1>14 DEF setNoLockHandle, LockShape, LifeInv, KeysInv, Metas, Changes, Rekeying, Moved, Cur,
      Rekeyed, Tables
<1>15. CASE clearLockMeta
  BY <1>15 DEF clearLockMeta, NoLock, LockShape, LifeInv, KeysInv, Metas, Changes, Rekeying, Moved,
      Cur, Rekeyed, Tables
<1>16. ASSUME NEW k \in {"right", "wrong"}, throttle(k) PROVE KeysInv'
  BY <1>16 DEF throttle, LockShape, LifeInv, KeysInv, Metas, Changes, Rekeying, Moved, Cur, Rekeyed,
      Tables
<1>17. CASE recordFailure
  BY <1>17 DEF recordFailure, Delay, LongestWait, LockShape, LifeInv, KeysInv, Metas, Changes,
      Rekeying, Moved, Cur, Rekeyed, Tables
<1>18. CASE setUnlockedKey
  BY <1>18 DEF setUnlockedKey, LockShape, LifeInv, KeysInv, Metas, Changes, Rekeying, Moved, Cur,
      Rekeyed, Tables
<1>19. CASE unlockWithBiometric
  BY <1>19 DEF unlockWithBiometric, LockShape, LifeInv, KeysInv, Metas, Changes, Rekeying, Moved,
      Cur, Rekeyed, Tables
<1>20. CASE Second
  BY <1>20 DEF Second, LongestWait, LockShape, LifeInv, KeysInv, Metas, Changes, Rekeying, Moved,
      Cur, Rekeyed, Tables
<1>21. CASE doLock
  BY <1>21 DEF doLock, LockShape, LifeInv, KeysInv, Metas, Changes, Rekeying, Moved, Cur, Rekeyed,
      Tables
<1>22. CASE ReloadVault
  BY <1>22 DEF ReloadVault, NoChange, Rekeying, LockShape, LifeInv, KeysInv, Metas, Changes, Moved,
      Cur, Rekeyed, Tables
<1>23. CASE WriteStart
  BY <1>23 DEF WriteStart, MasterKey, LockShape, LifeInv, KeysInv, Metas, Changes, Rekeying, Moved,
      Cur, Rekeyed, Tables
<1>24. CASE WriteEnd
  BY <1>24 DEF WriteEnd, Tables, LockShape, LifeInv, KeysInv, Metas, Changes, Rekeying, Moved, Cur,
      Rekeyed
<1>25. CASE UNCHANGED vaultVars
  BY <1>25 DEF vaultVars, LockShape, LifeInv, KeysInv, Metas, Changes, Rekeying, Moved, Cur, Rekeyed,
      Tables
<1> QED
  BY <1>1, <1>2, <1>3, <1>4, <1>5, <1>6, <1>7, <1>8, <1>9, <1>10, <1>11, <1>12, <1>13, <1>14,
      <1>15, <1>16, <1>17, <1>18, <1>19, <1>20, <1>21, <1>22, <1>23, <1>24, <1>25 DEF VaultNext

\* Every action keeps the delay.
LEMMA ThrottleStep == LockShape /\ ThrottleInv /\ [VaultNext]_vaultVars => ThrottleInv'
<1> SUFFICES ASSUME LockShape, ThrottleInv, [VaultNext]_vaultVars PROVE ThrottleInv'
  OBVIOUS
<1>1. CASE FirstKey
  BY <1>1, VaultAssumption DEF FirstKey, MasterKey, LockShape, ThrottleInv, Delay, LongestWait, Guesses
<1>2. CASE enableWithPassphrase
  BY <1>2, VaultAssumption DEF enableWithPassphrase, Begin, MasterKey, NoChange, LockShape,
      ThrottleInv, Delay, LongestWait, Guesses
<1>3. CASE RekeyRead
  BY <1>3, VaultAssumption DEF RekeyRead, NoChange, Rekeyed, Tables, LockShape, ThrottleInv, Delay,
      LongestWait, Guesses
<1>4. CASE RekeyWrite
  BY <1>4, VaultAssumption DEF RekeyWrite, Rekeyed, Tables, LockShape, ThrottleInv, Delay,
      LongestWait, Guesses
<1>5. CASE Adopt
  BY <1>5, VaultAssumption DEF Adopt, LockShape, ThrottleInv, Delay, LongestWait, Guesses
<1>6. CASE Wrap
  BY <1>6, VaultAssumption DEF Wrap, NoLock, LockShape, ThrottleInv, Delay, LongestWait, Guesses
<1>7. CASE clearNoLockHandle
  BY <1>7, VaultAssumption DEF clearNoLockHandle, LockShape, ThrottleInv, Delay, LongestWait, Guesses
<1>8. CASE clearFailures
  BY <1>8, VaultAssumption DEF clearFailures, NoChange, LockShape, ThrottleInv, Delay, LongestWait,
      Guesses
<1>9. CASE addBiometric
  BY <1>9, VaultAssumption DEF addBiometric, Begin, NoChange, LockShape, ThrottleInv, Delay,
      LongestWait, Guesses
<1>10. CASE Enrolled
  BY <1>10, VaultAssumption DEF Enrolled, NoChange, LockShape, ThrottleInv, Delay, LongestWait, Guesses
<1>11. CASE EnrolFails
  BY <1>11, VaultAssumption DEF EnrolFails, NoChange, LockShape, ThrottleInv, Delay, LongestWait,
      Guesses
<1>12. CASE removeBiometric
  BY <1>12, VaultAssumption DEF removeBiometric, NoChange, LockShape, ThrottleInv, Delay,
      LongestWait, Guesses
<1>13. CASE disableLock
  BY <1>13, VaultAssumption DEF disableLock, Begin, NoChange, LockShape, ThrottleInv, Delay,
      LongestWait, Guesses
<1>14. CASE setNoLockHandle
  BY <1>14, VaultAssumption DEF setNoLockHandle, LockShape, ThrottleInv, Delay, LongestWait, Guesses
<1>15. CASE clearLockMeta
  BY <1>15, VaultAssumption DEF clearLockMeta, NoLock, LockShape, ThrottleInv, Delay, LongestWait,
      Guesses
<1>16. ASSUME NEW k \in {"right", "wrong"}, throttle(k) PROVE ThrottleInv'
  BY <1>16, VaultAssumption DEF throttle, LockShape, ThrottleInv, Delay, LongestWait, Guesses
<1>17. CASE recordFailure
  BY <1>17, VaultAssumption DEF recordFailure, Delay, LongestWait, LockShape, ThrottleInv, Guesses
<1>18. CASE setUnlockedKey
  BY <1>18, VaultAssumption DEF setUnlockedKey, LockShape, ThrottleInv, Delay, LongestWait, Guesses
<1>19. CASE unlockWithBiometric
  BY <1>19, VaultAssumption DEF unlockWithBiometric, LockShape, ThrottleInv, Delay, LongestWait, Guesses
<1>20. CASE Second
  BY <1>20, VaultAssumption DEF Second, LongestWait, LockShape, ThrottleInv, Delay, Guesses
<1>21. CASE doLock
  BY <1>21, VaultAssumption DEF doLock, LockShape, ThrottleInv, Delay, LongestWait, Guesses
<1>22. CASE ReloadVault
  BY <1>22, VaultAssumption DEF ReloadVault, NoChange, Rekeying, LockShape, ThrottleInv, Delay,
      LongestWait, Guesses
<1>23. CASE WriteStart
  BY <1>23, VaultAssumption DEF WriteStart, MasterKey, LockShape, ThrottleInv, Delay, LongestWait,
      Guesses
<1>24. CASE WriteEnd
  BY <1>24, VaultAssumption DEF WriteEnd, Tables, LockShape, ThrottleInv, Delay, LongestWait, Guesses
<1>25. CASE UNCHANGED vaultVars
  BY <1>25, VaultAssumption DEF vaultVars, LockShape, ThrottleInv, Delay, LongestWait, Guesses
<1> QED
  BY <1>1, <1>2, <1>3, <1>4, <1>5, <1>6, <1>7, <1>8, <1>9, <1>10, <1>11, <1>12, <1>13, <1>14,
      <1>15, <1>16, <1>17, <1>18, <1>19, <1>20, <1>21, <1>22, <1>23, <1>24, <1>25 DEF VaultNext

(***************************************************************************)
(* The theorems.                                                           *)
(***************************************************************************)
\* The strengthening is inductive: it holds at first and every action of applock.ts,
\* keystore.ts and AppLockGuard.tsx keeps it.
THEOREM LockInductive == VaultSpec => []LockInv
<1>1. LockInv /\ [VaultNext]_vaultVars => LockInv'
  BY ShapeStep, LifeStep, KeysStep, ThrottleStep DEF LockInv
<1> QED
  BY LockStart, <1>1, PTL DEF VaultSpec

\* The lock keeps the data for its owner and from everybody else, whatever is locked,
\* unlocked, set up, turned off, written or reloaded, in any order: what is sealed opens
\* with what is stored, nothing stored opens it without a factor, and no guess comes
\* before its delay is over (applock.ts, keystore.ts).
THEOREM OwnerOnly == VaultSpec => []LockSound
<1>1. LockInv => Recoverable
  <2> SUFFICES ASSUME LockInv, Intact, NEW n \in 1..2, Rekeyed[n] \notin late, rows[Rekeyed[n]].key # 0
               PROVE (IF meta.on THEN {meta.pass,
      meta.bio} \ {0} ELSE {handle}) = {rows[Rekeyed[n]].key}
    BY DEF Recoverable
  <2>1. drawn # 0
    BY DEF LockInv, LifeInv, Rekeyed, Tables
  <2>2. rows[Rekeyed[n]].key = Cur /\ meta.bio \in {0, Cur}
    BY <2>1 DEF LockInv, KeysInv, Intact, Rekeying, Moved
  <2> QED
    BY <2>2 DEF Cur
<1>2. LockInv => Sealed
  BY DEF LockInv, LockShape, LifeInv, Sealed
<1>3. LockInv => Throttled
  BY VaultAssumption DEF LockInv, LockShape, ThrottleInv, Throttled, Delay, LongestWait
<1> QED
  BY LockInductive, <1>1, <1>2, <1>3, PTL DEF LockSound

(***************************************************************************)
(* The history backup: the strengthening.                                  *)
(***************************************************************************)
Opaque == {"opaque"} \X Records
Older == {<<"plain", "m1">>, <<"plain", "m2">>, <<"random", "contact">>}
Statuses == {"none", "sent", "older", "pending_inbound", "accepted", "blocked"}
Versions == Statuses \ {"none"}
Flags == [on : BOOLEAN, v2 : BOOLEAN, side : BOOLEAN]
Calls == {"live", "enable", "disable", "backfill", "migrate", "restore"}
Awaits == {"check", "collect", "upload", "list", "missing", "drop", "delete", "page"}

\* A call in flight; what it has listed depends on its kind.
Call(t) ==
    t \in [dev : Devices, kind : Calls, at : Awaits, todo : SUBSET [id : Opaque, ver : Versions],
           ids : {t.ids}, legacy : {t.legacy}, cursor : [at : Nat, rank : Nat], due : SUBSET BlobIds]

BackupShape ==
    /\ DOMAIN blobs \subseteq BlobIds
    /\ \A i \in DOMAIN blobs : blobs[i].ver \in Versions /\ blobs[i].at \in 1..second
    /\ second \in Nat \ {0} /\ left \in Nat
    /\ lead \in {"opaque", "plain"}
    /\ own \in [Devices -> [Records -> Statuses]]
    /\ flags \in [Devices -> Flags]
    /\ \A t \in tasks : Call(t)

\* The opaque row of the record that i is a row of.
Copy(i) == <<"opaque", i[2]>>

\* A migration drops only rows whose opaque copy is there, or is about to be: whatever
\* opaque id it has listed is still there, unless everything was deleted meanwhile.
Careful(t) ==
    /\ t.at \in {"list", "missing", "drop"} => t.kind = "migrate"
    /\ t.at = "page" <=> t.kind = "restore"
    /\ t.at = "check" => t.ids \subseteq Msgs
    /\ t.kind = "migrate" /\ t.at \in {"collect", "upload"} => t.ids = {} /\ t.legacy = {}
    /\ t.kind = "migrate" => \A l \in t.legacy : l.id \in Older /\ l.ver \in Versions
    /\ t.at = "list" => \A i \in t.ids \cap Opaque : i \in DOMAIN blobs \/ DOMAIN blobs \cap Older = {}
    /\ t.at \in {"missing", "drop"} => \A l \in t.legacy : l.id \in DOMAIN blobs =>
            \/ Copy(l.id) \in DOMAIN blobs
            \/ t.at = "missing" /\ \E c \in t.todo : c.id = Copy(l.id)

\* A row that is due is still ahead of the restore, or brought in, or waits for its end.
OnItsWay(t) ==
    t.kind = "restore" => \A i \in t.due :
        \/ i \in DOMAIN blobs /\ After(i, t.cursor)
        \/ own[t.dev][i[2]] # "none"
        \/ i[2] = "contact" /\ t.legacy # {}

BackupInv ==
    /\ BackupShape
    /\ \A t \in tasks : Careful(t) /\ OnItsWay(t)
    /\ NothingLost

(***************************************************************************)
(* The order of the rows.                                                  *)
(***************************************************************************)
\* A set of numbers that is not empty has a least one.
LEMMA Least == ASSUME NEW S, S \subseteq Nat, S # {} PROVE \E n \in S : \A m \in S : n <= m
<1> DEFINE R == OpToRel(<, Nat)
<1>1. IsWellFoundedOn(R, Nat)
  BY NatLessThanWellFounded
<1>2. \A p \in Nat, q \in Nat : p < q => <<p, q>> \in R
  BY DEF OpToRel
<1> HIDE DEF R
<1>3. PICK n \in S : \A m \in S : ~(<<m, n>> \in R)
  BY <1>1, WFMin
<1>4. ASSUME NEW m \in S PROVE n <= m
  <2>1. m \in Nat /\ n \in Nat
    OBVIOUS
  <2>2. ~(m < n)
    BY <1>2, <1>3, <2>1
  <2> QED
    BY <2>1, <2>2
<1> QED
  BY <1>4

\* A blob id is one of six.
LEMMA SixIds ==
  ASSUME NEW i \in BlobIds
  PROVE  i \in {<<"opaque", "m1">>, <<"opaque", "m2">>, <<"opaque", "contact">>,
                <<"plain", "m1">>, <<"plain", "m2">>, <<"random", "contact">>}
BY DEF BlobIds, Records, Msgs

\* No two blob ids have the same place in the order of routes/history.rs.
LEMMA RankOrders ==
  ASSUME lead \in {"opaque", "plain"}
  PROVE  /\ \A i \in BlobIds : Rank(i) \in 1..9
         /\ \A i, j \in BlobIds : Rank(i) = Rank(j) => i = j
<1> DEFINE f(k, p) == IF k = lead THEN p ELSE 6 + p
<1>1. /\ Rank(<<"opaque", "m1">>) = f("opaque", 1)
      /\ Rank(<<"opaque", "m2">>) = f("opaque", 2)
      /\ Rank(<<"opaque", "contact">>) = f("opaque", 3)
      /\ Rank(<<"plain", "m1">>) = f("plain", 1)
      /\ Rank(<<"plain", "m2">>) = f("plain", 2)
      /\ Rank(<<"random", "contact">>) = 6
  BY DEF Rank
<1>2. \A i \in BlobIds : Rank(i) \in 1..9
  BY <1>1, SixIds
<1>3. \A i, j \in BlobIds : Rank(i) = Rank(j) => i = j
  BY <1>1, SixIds
<1> QED
  BY <1>2, <1>3

\* When no row is next, no row is left: the pages end only after the last one.
LEMMA LastPage ==
  ASSUME BackupShape, NEW c \in [at : Nat, rank : Nat], NextRows(c) = {}
  PROVE  \A i \in DOMAIN blobs : ~After(i, c)
<1> DEFINE rest == {i \in DOMAIN blobs : After(i, c)}
           place(i) == 10 * blobs[i].at + Rank(i)
           S == {place(i) : i \in rest}
<1>1. \A i \in DOMAIN blobs : /\ i \in BlobIds /\ blobs[i].at \in Nat /\ Rank(i) \in Nat
                              /\ Rank(i) \in 1..9 /\ place(i) \in Nat
  <2>1. \A i \in DOMAIN blobs : i \in BlobIds /\ blobs[i].at \in Nat
    BY DEF BackupShape
  <2>2. \A i \in DOMAIN blobs : Rank(i) \in 1..9
    BY <2>1, RankOrders DEF BackupShape
  <2> QED
    BY <2>1, <2>2
<1>2. ASSUME NEW k \in rest PROVE FALSE
  <2>1. S \subseteq Nat /\ S # {}
    BY <1>1, <1>2
  <2>2. PICK n \in S : \A m \in S : n <= m
    BY ONLY <2>1, Least
  <2>3. PICK i \in rest : n = place(i)
    OBVIOUS
  <2>4. ASSUME NEW o \in rest, o # i PROVE After(o, Cursor(i))
    <3>1. place(i) <= place(o)
      BY <2>2, <2>3
    <3>2. Rank(o) # Rank(i)
      BY <1>1, <2>4, RankOrders DEF BackupShape
    <3>3. blobs[o].at > blobs[i].at \/ (blobs[o].at = blobs[i].at /\ Rank(o) > Rank(i))
      <4> DEFINE a == blobs[i].at
                 b == blobs[o].at
                 p == Rank(i)
                 q == Rank(o)
      <4>1. a \in Nat /\ b \in Nat /\ p \in 1..9 /\ q \in 1..9 /\ 10 * a + p <= 10 * b + q /\ q # p
        BY <1>1, <3>1, <3>2
      <4> HIDE DEF a, b, p, q
      <4>2. b > a \/ (b = a /\ q > p)
        BY <4>1
      <4> QED
        BY <4>2 DEF a, b, p, q
    <3> QED
      BY <3>3 DEF After, Cursor
  <2>5. i \in NextRows(c)
    BY <2>4 DEF NextRows
  <2> QED
    BY <2>5
<1> QED
  BY <1>2

(***************************************************************************)
(* What leaves a call's part of the invariant as it is.                    *)
(***************************************************************************)
\* The copy of a row under an older id is an opaque row.
LEMMA CopyOpaque == \A i \in Older : Copy(i) \in Opaque /\ i \notin Opaque
BY DEF Older, Copy, Opaque, Records, Msgs

\* u is t as far as a migration goes.
Same(t, u) == u.kind = t.kind /\ u.at = t.at /\ u.ids = t.ids /\ u.legacy = t.legacy /\ u.todo = t.todo

\* Rows under older ids never come back, and opaque rows go only when all rows go.
CopiesStay ==
    /\ DOMAIN blobs' \cap Older \subseteq DOMAIN blobs
    /\ DOMAIN blobs \cap Opaque \subseteq DOMAIN blobs' \/ DOMAIN blobs' \cap Older = {}

\* Then what a migration has seen to remains seen to.
LEMMA CarefulKept ==
  ASSUME NEW t, NEW u, Careful(t), Same(t, u), CopiesStay
  PROVE  Careful(u)'
<1> USE DEF Same, CopiesStay
<1>1. t.at \in {"missing", "drop"} => \A l \in t.legacy : l.id \in Older /\ Copy(l.id) \in Opaque
  BY CopyOpaque DEF Careful
<1>2. u.at = "list" => \A i \in u.ids \cap Opaque : i \in DOMAIN blobs' \/ DOMAIN blobs' \cap Older = {}
  BY DEF Careful
<1>3. u.at \in {"missing", "drop"} => \A l \in u.legacy : l.id \in DOMAIN blobs' =>
            \/ Copy(l.id) \in DOMAIN blobs'
            \/ u.at = "missing" /\ \E c \in u.todo : c.id = Copy(l.id)
  BY <1>1 DEF Careful
<1> QED
  BY <1>2, <1>3 DEF Careful, Copy

\* u is t, with some of its rows no longer due.
Goes(t, u) ==
    /\ u.kind = t.kind /\ u.dev = t.dev /\ u.cursor = t.cursor /\ u.legacy = t.legacy
    /\ u.due \subseteq t.due

\* The rows that are due stay or move to a later second, and none that was brought in is
\* lost again.
RowsStay(u) ==
    \A i \in u.due :
        /\ i \in DOMAIN blobs => /\ i \in DOMAIN blobs'
                                 /\ blobs'[i].at \in Nat
                                 /\ blobs'[i].at >= blobs[i].at
        /\ own[u.dev][i[2]] # "none" => own'[u.dev][i[2]] # "none"

\* Then each of them is still on its way.
LEMMA OnItsWayKept ==
  ASSUME BackupShape, NEW t, NEW u, Call(t), OnItsWay(t), Goes(t, u), RowsStay(u), lead' = lead
  PROVE  OnItsWay(u)'
<1> USE DEF Goes, RowsStay
<1> SUFFICES ASSUME t.kind = "restore", NEW i \in u.due
             PROVE  \/ i \in DOMAIN blobs' /\ After(i, t.cursor)'
                    \/ own'[t.dev][i[2]] # "none"
                    \/ i[2] = "contact" /\ t.legacy # {}
  BY DEF OnItsWay
<1>1. CASE i \in DOMAIN blobs /\ After(i, t.cursor)
  <2>1. i \in BlobIds /\ Rank(i) \in Nat /\ Rank(i)' = Rank(i)
    BY <1>1, RankOrders DEF BackupShape, Rank
  <2>2. blobs[i].at \in Nat /\ t.cursor.at \in Nat /\ t.cursor.rank \in Nat
    BY <1>1 DEF BackupShape, Call
  <2>3. After(i, t.cursor)'
    BY <1>1, <2>1, <2>2 DEF After
  <2> QED
    BY <1>1, <2>3
<1> QED
  BY <1>1 DEF OnItsWay

\* A step that leaves the rows on the server alone and forgets nothing on a device.
Undisturbed ==
    /\ UNCHANGED <<blobs, lead, stored>>
    /\ second' \in Nat \ {0} /\ second' >= second /\ left' \in Nat
    /\ own' \in [Devices -> [Records -> Statuses]]
    /\ flags' \in [Devices -> Flags]
    /\ \A d \in Devices, r \in Records : own[d][r] # "none" => own'[d][r] # "none"

\* A call that satisfies its part of the invariant after such a step.
Sound(u) == Call(u) /\ Careful(u) /\ OnItsWay(u)'

\* Such a step keeps the invariant if the calls it starts or takes further are sound.
LEMMA Calm ==
  ASSUME BackupInv, Undisturbed, \A v \in tasks' : v \in tasks \/ Sound(v)
  PROVE  BackupInv'
<1> USE DEF Undisturbed, Sound
<1>1. BackupShape'
  <2>1. \A i \in DOMAIN blobs : blobs[i].ver \in Versions /\ blobs[i].at \in 1..second'
    BY DEF BackupInv, BackupShape
  <2>2. \A t \in tasks' : Call(t)
    BY DEF BackupInv, BackupShape
  <2> QED
    BY <2>1, <2>2 DEF BackupInv, BackupShape, Call
<1>2. ASSUME NEW t \in tasks' PROVE Careful(t)' /\ OnItsWay(t)'
  <2>1. Careful(t)
    BY DEF BackupInv
  <2>2. Careful(t)'
    BY <2>1 DEF Careful, Copy
  <2>3. CASE t \in tasks
    <3>1. Call(t) /\ OnItsWay(t) /\ BackupShape
      BY <2>3 DEF BackupInv, BackupShape
    <3>2. \A i \in t.due : i[2] \in Records
      BY <3>1, SixIds DEF Call, Records, Msgs
    <3>3. RowsStay(t)
      <4>1. \A i \in DOMAIN blobs : blobs[i].at \in Nat
        BY <3>1 DEF BackupShape
      <4>2. t.dev \in Devices
        BY <3>1 DEF Call
      <4> QED
        BY <3>2, <4>1, <4>2 DEF RowsStay
    <3>4. lead' = lead /\ Goes(t, t)
      BY DEF Goes
    <3>5. OnItsWay(t)'
      BY ONLY <3>1, <3>3, <3>4, OnItsWayKept
    <3> QED
      BY <2>2, <3>5
  <2>4. CASE Sound(t)
    BY <2>2, <2>4
  <2> QED
    BY <2>3, <2>4
<1>3. NothingLost'
  BY DEF BackupInv, NothingLost
<1> QED
  BY <1>1, <1>2, <1>3 DEF BackupInv

(***************************************************************************)
(* One lemma per group of actions.                                         *)
(***************************************************************************)
\* A call begins with nothing listed.
LEMMA Fresh ==
  ASSUME NEW d \in Devices, NEW k \in Calls, NEW a \in Awaits
  PROVE  /\ Call(Task(d, k, a))
         /\ Task(d, k, a).kind = k /\ Task(d, k, a).at = a
         /\ Task(d, k, a).ids = {} /\ Task(d, k, a).legacy = {} /\ Task(d, k, a).todo = {}
         /\ Task(d, k, a).dev = d /\ Task(d, k, a).cursor = Start
BY DEF Call, Task, Start

\* A setting is switched or a call begun in Settings; the app starts a migration
\* (enableBackup, disableBackup, backfill, migrateBackupIds).
LEMMA BegunStep ==
  ASSUME BackupInv, NEW d \in Devices,
         enableBackup(d) \/ disableBackup(d) \/ BackUpNow(d) \/ migrateBackupIds(d)
  PROVE  BackupInv'
<1>1. PICK k \in {"enable", "disable", "backfill", "migrate"}, a \in {"collect", "delete"} :
        tasks' = tasks \cup {Task(d, k, a)}
  BY DEF enableBackup, disableBackup, BackUpNow, migrateBackupIds
<1>2. Undisturbed
  <2>1. /\ UNCHANGED <<blobs, second, lead, own, stored>> /\ left' \in Nat
        /\ \/ flags' = flags
           \/ flags' = [flags EXCEPT ![d].on = TRUE]
           \/ flags' = [flags EXCEPT ![d].on = FALSE, ![d].side = FALSE]
    <3>1. left \in Nat
      BY DEF BackupInv, BackupShape
    <3>2. CASE enableBackup(d)
      BY ONLY <3>1, <3>2 DEF enableBackup, Spend
    <3>3. CASE disableBackup(d)
      BY ONLY <3>1, <3>3 DEF disableBackup, Spend
    <3>4. CASE BackUpNow(d)
      BY ONLY <3>1, <3>4 DEF BackUpNow, Spend
    <3>5. CASE migrateBackupIds(d)
      BY ONLY <3>1, <3>5 DEF migrateBackupIds
    <3> QED
      BY <3>2, <3>3, <3>4, <3>5
  <2>2. flags' \in [Devices -> Flags]
    <3>1. flags \in [Devices -> Flags] /\ flags[d] \in Flags
      BY DEF BackupInv, BackupShape
    <3>2. [flags[d] EXCEPT !.on = TRUE] \in Flags /\ [flags[d] EXCEPT !.on = FALSE, !.side = FALSE] \in Flags
      BY <3>1 DEF Flags
    <3>3. CASE flags' = [flags EXCEPT ![d].on = TRUE]
      BY <3>1, <3>2, <3>3
    <3>4. CASE flags' = [flags EXCEPT ![d].on = FALSE, ![d].side = FALSE]
      BY <3>1, <3>2, <3>4
    <3> QED
      BY <2>1, <3>1, <3>3, <3>4
  <2> QED
    BY <2>1, <2>2 DEF BackupInv, BackupShape, Undisturbed
<1>3. PICK u : u = Task(d, k, a)
  OBVIOUS
<1>4. Call(u) /\ u.kind = k /\ u.at = a /\ u.ids = {} /\ u.legacy = {}
  BY <1>3, Fresh DEF Calls, Awaits
<1>5. Sound(u)
  BY <1>4 DEF Careful, OnItsWay, Sound
<1>6. \A v \in tasks' : v \in tasks \/ Sound(v)
  BY <1>1, <1>3, <1>5
<1> QED
  BY <1>2, <1>6, Calm

\* A restore begins with every row due, and all of them ahead (restoreHistory).
LEMMA RestoreStep == ASSUME BackupInv, NEW d \in Devices, restoreHistory(d) PROVE BackupInv'
<1>1. PICK t : t = Task(d, "restore", "page")
  OBVIOUS
<1>2. Call(t) /\ t.kind = "restore" /\ t.at = "page" /\ t.cursor = Start
  BY <1>1, Fresh DEF Calls, Awaits
<1>3. PICK u : u = [t EXCEPT !.due = DOMAIN blobs]
  OBVIOUS
<1>4. Call(u) /\ u.kind = "restore" /\ u.at = "page" /\ u.cursor = Start /\ u.due = DOMAIN blobs
  BY <1>2, <1>3 DEF Call, BackupInv, BackupShape
<1>5. tasks' \subseteq tasks \cup {u} /\ UNCHANGED <<blobs, second, lead>>
  BY <1>1, <1>3 DEF restoreHistory
<1>6. Undisturbed
  BY DEF restoreHistory, Spend, BackupInv, BackupShape, Undisturbed
<1>7. \A i \in DOMAIN blobs' : After(i, Start)'
  BY <1>5 DEF After, Start, BackupInv, BackupShape
<1>8. Sound(u)
  BY <1>4, <1>5, <1>7 DEF Careful, OnItsWay, Sound
<1>9. \A v \in tasks' : v \in tasks \/ Sound(v)
  BY <1>5, <1>8
<1> QED
  BY <1>6, <1>9, Calm

\* A message is stored and its live backup begins (backupMessage).
LEMMA MessageStep ==
  ASSUME BackupInv, NEW d \in Devices, NEW m \in Msgs, NewMessage(d, m) PROVE BackupInv'
<1>1. PICK t : t = Task(d, "live", "check")
  OBVIOUS
<1>2. Call(t) /\ t.kind = "live" /\ t.at = "check"
  BY <1>1, Fresh DEF Calls, Awaits
<1>3. PICK u : u = [t EXCEPT !.ids = {m}]
  OBVIOUS
<1>4. Call(u) /\ u.kind = "live" /\ u.at = "check" /\ u.ids = {m}
  BY <1>2, <1>3 DEF Call
<1>5. tasks' \subseteq tasks \cup {u}
  BY <1>1, <1>3 DEF NewMessage
<1>6. Undisturbed
  <2>1. /\ UNCHANGED <<blobs, second, lead, flags, stored>> /\ left' \in Nat
        /\ own' = [own EXCEPT ![d][m] = "sent"] /\ m \in Records
    BY DEF NewMessage, Spend, BackupInv, BackupShape, Records
  <2>2. own' \in [Devices -> [Records -> Statuses]]
    BY <2>1 DEF BackupInv, BackupShape, Statuses
  <2>3. \A e \in Devices, r \in Records : own[e][r] # "none" => own'[e][r] # "none"
    BY <2>1 DEF BackupInv, BackupShape
  <2> QED
    BY <2>1, <2>2, <2>3 DEF BackupInv, BackupShape, Undisturbed
<1>7. Sound(u)
  BY <1>4 DEF Careful, OnItsWay, Sound
<1>8. \A v \in tasks' : v \in tasks \/ Sound(v)
  BY <1>5, <1>7
<1> QED
  BY <1>6, <1>8, Calm

\* Time passes, a call ends or fails, a page is loaded again.
LEMMA LessStep ==
  ASSUME BackupInv, tasks' \subseteq tasks, UNCHANGED <<blobs, lead, own, stored>>,
         second' \in Nat \ {0}, second' >= second, left' \in Nat, flags' \in [Devices -> Flags]
  PROVE  BackupInv'
<1>1. Undisturbed
  BY DEF BackupInv, BackupShape, Undisturbed
<1> QED
  BY <1>1, Calm

\* What a device uploads goes under opaque ids.
LEMMA LocalCopies ==
  ASSUME BackupInv, NEW d \in Devices, NEW S, S \subseteq Records
  PROVE  Local(d, S) \in SUBSET [id : Opaque, ver : Versions]
BY DEF BackupInv, BackupShape, Local, Opaque, Versions

\* A call of this device goes on, and nothing but itself and the flags changes.
LEMMA TurnStep ==
  ASSUME BackupInv, UNCHANGED <<blobs, second, lead, own, stored, left>>,
         flags' \in [Devices -> Flags], NEW t \in tasks, NEW u, Turns(t, u),
         Call(u), Careful(u), u.kind # "restore"
  PROVE  BackupInv'
<1>1. Undisturbed
  BY DEF BackupInv, BackupShape, Undisturbed
<1>2. Sound(u)
  BY DEF Sound, OnItsWay
<1>3. \A v \in tasks' : v \in tasks \/ Sound(v)
  BY <1>2 DEF Turns
<1> QED
  BY <1>1, <1>3, Calm

\* A message's live backup looks at the settings, and takes the sidecar along once.
LEMMA LiveStep == ASSUME BackupInv, NEW t \in tasks, LiveCheck(t) PROVE BackupInv'
<1>1. Call(t) /\ Careful(t) /\ t.dev \in Devices /\ t.kind = "live" /\ t.at = "check"
  BY DEF LiveCheck, BackupInv, BackupShape, Call
<1>2. UNCHANGED <<blobs, second, lead, own, stored, left>>
  BY DEF LiveCheck
<1>3. CASE ~flags[t.dev].on
  <2>1. tasks' \subseteq tasks /\ flags' = flags
    BY <1>3 DEF LiveCheck, Done
  <2> QED
    BY <1>2, <2>1, LessStep DEF BackupInv, BackupShape
<1>4. CASE flags[t.dev].on
  <2>1. PICK S : S = IF flags[t.dev].side THEN t.ids ELSE t.ids \cup {"contact"}
    OBVIOUS
  <2>2. S \subseteq Records
    BY <1>1, <2>1 DEF Careful, Records
  <2>3. PICK L \in SUBSET [id : Opaque, ver : Versions] : L = Local(t.dev, S)
    BY <1>1, <2>2, LocalCopies
  <2>4. PICK u : u = [t EXCEPT !.at = "upload", !.todo = L]
    OBVIOUS
  <2>5. Turns(t, u)
    BY <1>4, <2>1, <2>3, <2>4 DEF LiveCheck
  <2>6. Call(u) /\ u.kind = "live" /\ u.at = "upload"
    BY <1>1, <2>4 DEF Call, Awaits
  <2>7. Careful(u)
    BY <2>6 DEF Careful
  <2>8. flags' \in [Devices -> Flags]
    <3>1. PICK b \in BOOLEAN : flags' = [flags EXCEPT ![t.dev].side = b]
      <4>1. flags' = [flags EXCEPT ![t.dev].side = @ \/ own[t.dev].contact # "none"]
        BY <1>4 DEF LiveCheck
      <4> QED
        BY <4>1
    <3> QED
      BY <1>1, <3>1 DEF BackupInv, BackupShape, Flags
  <2> QED
    BY <1>2, <2>5, <2>6, <2>7, <2>8, TurnStep
<1> QED
  BY <1>3, <1>4

\* All that the device has is collected (collectLocalRecords).
LEMMA CollectStep == ASSUME BackupInv, NEW t \in tasks, collectLocalRecords(t) PROVE BackupInv'
<1>1. Call(t) /\ Careful(t) /\ t.dev \in Devices /\ t.at = "collect"
  BY DEF collectLocalRecords, BackupInv, BackupShape, Call
<1>2. PICK L \in SUBSET [id : Opaque, ver : Versions] : L = Local(t.dev, Records)
  BY <1>1, LocalCopies
<1>3. PICK u : u = [t EXCEPT !.at = "upload", !.todo = L]
  OBVIOUS
<1>4. Call(u) /\ u.at = "upload" /\ u.kind = t.kind /\ u.ids = t.ids /\ u.legacy = t.legacy
  BY <1>1, <1>3 DEF Call, Awaits
<1>5. Careful(u) /\ u.kind # "restore"
  BY <1>1, <1>4 DEF Careful
<1>6. Turns(t, u) /\ UNCHANGED <<blobs, second, lead, own, stored, left>> /\ flags' \in [Devices -> Flags]
  BY <1>2, <1>3 DEF collectLocalRecords, BackupInv, BackupShape
<1> QED
  BY <1>4, <1>5, <1>6, TurnStep

\* Everything is uploaded: a migration goes on to list, any other call ends.
LEMMA UploadedStep == ASSUME BackupInv, NEW t \in tasks, Uploaded(t) PROVE BackupInv'
<1>1. Call(t) /\ Careful(t) /\ t.dev \in Devices /\ t.at = "upload"
  BY DEF Uploaded, BackupInv, BackupShape, Call
<1>2. flags' \in [Devices -> Flags]
  <2>1. flags' = flags \/ flags' = [flags EXCEPT ![t.dev].v2 = TRUE]
    BY DEF Uploaded
  <2> QED
    BY <1>1, <2>1 DEF BackupInv, BackupShape, Flags
<1>3. UNCHANGED <<blobs, second, lead, own, stored, left>>
  BY DEF Uploaded
<1>4. CASE t.kind = "migrate"
  <2>1. PICK u : u = [t EXCEPT !.at = "list"]
    OBVIOUS
  <2>2. Call(u) /\ u.at = "list" /\ u.kind = t.kind /\ u.ids = t.ids /\ u.legacy = t.legacy
    BY <1>1, <2>1 DEF Call, Awaits
  <2>3. Careful(u)
    BY <1>1, <1>4, <2>2 DEF Careful
  <2>4. Turns(t, u)
    BY <1>4, <2>1 DEF Uploaded
  <2> QED
    BY <1>2, <1>3, <1>4, <2>2, <2>3, <2>4, TurnStep
<1>5. CASE t.kind # "migrate"
  <2>1. tasks' \subseteq tasks
    BY <1>5 DEF Uploaded, Done
  <2> QED
    BY <1>2, <1>3, <2>1, LessStep DEF BackupInv, BackupShape
<1> QED
  BY <1>4, <1>5

\* The next row of a list or of a page is there, and its place is a cursor.
LEMMA NextRow ==
  ASSUME BackupInv, NEW c, NEW i \in NextRows(c)
  PROVE  /\ i \in DOMAIN blobs /\ i \in BlobIds /\ blobs[i].ver \in Versions
         /\ Cursor(i) \in [at : Nat, rank : Nat]
         /\ \A o \in DOMAIN blobs : After(o, c) => o = i \/ After(o, Cursor(i))
<1>1. i \in DOMAIN blobs /\ \A o \in DOMAIN blobs : After(o, c) => o = i \/ After(o, Cursor(i))
  BY DEF NextRows
<1>2. i \in BlobIds /\ blobs[i].ver \in Versions /\ blobs[i].at \in Nat /\ lead \in {"opaque", "plain"}
  BY <1>1 DEF BackupInv, BackupShape
<1>3. Rank(i) \in Nat
  BY <1>2, RankOrders
<1> QED
  BY <1>1, <1>2, <1>3 DEF Cursor

\* A blob id is opaque or an older build's.
LEMMA OpaqueOrOlder == \A i \in BlobIds : (i[1] = "opaque" => i \in Opaque) /\ (i[1] # "opaque" => i \in Older)
BY SixIds DEF Opaque, Older, Records, Msgs

\* A migration lists a row (dropLegacyIds).
LEMMA ListStep == ASSUME BackupInv, NEW t \in tasks, List(t) PROVE BackupInv'
<1>1. Call(t) /\ Careful(t) /\ t.at = "list" /\ t.kind = "migrate"
  BY DEF List, BackupInv, BackupShape, Careful
<1>2. PICK i \in NextRows(t.cursor) :
        Turns(t, [t EXCEPT !.cursor = Cursor(i), !.ids = @ \cup {i},
                           !.legacy = @ \cup (IF i[1] = "opaque" THEN {}
                                              ELSE {[id |-> i, ver |-> blobs[i].ver]})])
  BY DEF List
<1>3. i \in DOMAIN blobs /\ i \in BlobIds /\ blobs[i].ver \in Versions
  BY NextRow
<1>4. PICK c \in [at : Nat, rank : Nat] : c = Cursor(i)
  BY NextRow
<1>5. PICK old : old = IF i[1] = "opaque" THEN {} ELSE {[id |-> i, ver |-> blobs[i].ver]}
  OBVIOUS
<1>6. \A l \in old : l.id \in Older /\ l.ver \in Versions
  BY <1>3, <1>5, OpaqueOrOlder
<1>7. PICK u : u = [t EXCEPT !.cursor = c, !.ids = @ \cup {i}, !.legacy = @ \cup old]
  OBVIOUS
<1>8. Turns(t, u)
  BY <1>2, <1>4, <1>5, <1>7
<1>9. /\ Call(u) /\ u.at = "list" /\ u.kind = "migrate"
      /\ u.ids = t.ids \cup {i} /\ u.legacy = t.legacy \cup old
  BY <1>1, <1>7 DEF Call
<1>10. Careful(u)
  BY <1>1, <1>3, <1>6, <1>9 DEF Careful
<1>11. UNCHANGED <<blobs, second, lead, own, stored, left>> /\ flags' \in [Devices -> Flags]
  BY DEF List, BackupInv, BackupShape
<1> QED
  BY <1>8, <1>9, <1>10, <1>11, TurnStep

\* With every row listed, what has no opaque copy is still to be uploaded.
LEMMA ListedStep == ASSUME BackupInv, NEW t \in tasks, Listed(t) PROVE BackupInv'
<1>1. Call(t) /\ Careful(t) /\ t.at = "list" /\ t.kind = "migrate"
  BY DEF Listed, BackupInv, BackupShape, Careful
<1>2. PICK M : M = {c \in {[id |-> <<"opaque", l.id[2]>>, ver |-> l.ver] : l \in t.legacy} : c.id \notin t.ids}
  OBVIOUS
<1>3. \A l \in t.legacy : l.id \in Older /\ l.ver \in Versions /\ Copy(l.id) \in Opaque
  BY <1>1, CopyOpaque DEF Careful
<1>4. M \in SUBSET [id : Opaque, ver : Versions]
  BY <1>2, <1>3 DEF Copy
<1>5. \A l \in t.legacy : Copy(l.id) \in t.ids \/ \E c \in M : c.id = Copy(l.id)
  <2> SUFFICES ASSUME NEW l \in t.legacy, Copy(l.id) \notin t.ids
               PROVE  \E c \in M : c.id = Copy(l.id)
    OBVIOUS
  <2>1. PICK c : c = [id |-> Copy(l.id), ver |-> l.ver]
    OBVIOUS
  <2>2. c.id = Copy(l.id)
    BY <2>1
  <2>3. c \in M
    BY <1>2, <2>1, <2>2 DEF Copy
  <2> QED
    BY <2>2, <2>3
<1>6. PICK u : u = [t EXCEPT !.at = "missing", !.todo = M]
  OBVIOUS
<1>7. /\ Call(u) /\ u.at = "missing" /\ u.kind = "migrate"
      /\ u.ids = t.ids /\ u.legacy = t.legacy /\ u.todo = M
  BY <1>1, <1>4, <1>6 DEF Call, Awaits
<1>8. Careful(u)
  <2>1. \A l \in t.legacy : l.id \in DOMAIN blobs =>
            Copy(l.id) \in DOMAIN blobs \/ \E c \in M : c.id = Copy(l.id)
    BY <1>1, <1>3, <1>5 DEF Careful
  <2> QED
    BY <1>3, <1>7, <2>1 DEF Careful
<1>9. Turns(t, u)
  BY <1>2, <1>6 DEF Listed
<1>10. UNCHANGED <<blobs, second, lead, own, stored, left>> /\ flags' \in [Devices -> Flags]
  BY DEF Listed, BackupInv, BackupShape
<1> QED
  BY <1>7, <1>8, <1>9, <1>10, TurnStep

\* Nothing is missing any more.
LEMMA MissingStep == ASSUME BackupInv, NEW t \in tasks, MissingUploaded(t) PROVE BackupInv'
<1>1. Call(t) /\ Careful(t) /\ t.at = "missing" /\ t.kind = "migrate" /\ t.todo = {}
  BY DEF MissingUploaded, BackupInv, BackupShape, Careful
<1>2. PICK u : u = [t EXCEPT !.at = "drop"]
  OBVIOUS
<1>3. Call(u) /\ u.at = "drop" /\ u.kind = "migrate" /\ u.ids = t.ids /\ u.legacy = t.legacy
  BY <1>1, <1>2 DEF Call, Awaits
<1>4. Careful(u)
  BY <1>1, <1>3 DEF Careful
<1>5. Turns(t, u) /\ UNCHANGED <<blobs, second, lead, own, stored, left>> /\ flags' \in [Devices -> Flags]
  BY <1>2 DEF MissingUploaded, BackupInv, BackupShape
<1> QED
  BY <1>3, <1>4, <1>5, TurnStep

\* What importing a record does: it is there afterwards, nothing else is touched, and a
\* decision about the contact stands (importRecord, EncryptedContacts.add).
LEMMA Imported ==
  ASSUME BackupInv, NEW d \in Devices, NEW r \in Records, NEW v \in Versions,
         own' = importRecord(d, r, v)
  PROVE  /\ own' \in [Devices -> [Records -> Statuses]]
         /\ own'[d][r] # "none"
         /\ \A e \in Devices, q \in Records : own[e][q] # "none" => own'[e][q] # "none"
         /\ \A e \in Devices : own[e].contact \in {"accepted", "blocked"} => own'[e].contact = own[e].contact
         /\ \A e \in Devices : own'[e].contact # own[e].contact => e = d /\ r = "contact" /\ own'[e].contact = v
<1>1. PICK w : w = IF r = "contact" THEN Sticky(own[d][r], v) ELSE v
  OBVIOUS
<1>2. own' = [own EXCEPT ![d][r] = w]
  BY <1>1 DEF importRecord
<1>3. own \in [Devices -> [Records -> Statuses]] /\ own[d][r] \in Statuses /\ "contact" \in Records
  BY DEF BackupInv, BackupShape, Records
<1>4. w \in Versions /\ (r = "contact" => w = own[d][r] \/ (w = v /\ own[d][r] \notin {"accepted", "blocked"}))
  BY <1>1, <1>3 DEF Sticky, Versions
<1>5. own' \in [Devices -> [Records -> Statuses]]
  BY <1>2, <1>3, <1>4 DEF Versions
<1>6. own'[d][r] = w
  BY <1>2, <1>3
<1>7. \A e \in Devices, q \in Records : e # d \/ q # r => own'[e][q] = own[e][q]
  BY <1>2, <1>3
<1>8. \A e \in Devices, q \in Records : own[e][q] # "none" => own'[e][q] # "none"
  BY <1>4, <1>6, <1>7 DEF Versions
<1>9. \A e \in Devices : own[e]["contact"] \in {"accepted", "blocked"} => own'[e]["contact"] = own[e]["contact"]
  BY <1>3, <1>4, <1>6, <1>7
<1>10. \A e \in Devices : own'[e]["contact"] # own[e]["contact"] => e = d /\ r = "contact" /\ own'[e]["contact"] = v
  BY <1>3, <1>4, <1>6, <1>7
<1> QED
  BY <1>4, <1>5, <1>6, <1>8, <1>9, <1>10 DEF Versions

\* Each row is of a record.
LEMMA RecordOf == \A i \in BlobIds : i[2] \in Records
BY SixIds DEF Records, Msgs

\* A restore takes a row in, or keeps an older contact record for its end.
LEMMA PageStep == ASSUME BackupInv, NEW t \in tasks, RestorePage(t) PROVE BackupInv'
<1>1. Call(t) /\ Careful(t) /\ OnItsWay(t) /\ t.at = "page" /\ t.kind = "restore" /\ t.dev \in Devices
  BY DEF RestorePage, BackupInv, BackupShape, Careful, Call
<1>2. PICK i \in NextRows(t.cursor) :
        LET waits == i[2] = "contact" /\ blobs[i].ver = "older"
        IN /\ own' = IF waits THEN own ELSE importRecord(t.dev, i[2], blobs[i].ver)
           /\ Turns(t, [t EXCEPT !.cursor = Cursor(i), !.ids = @ \cup {i[2]},
                                 !.legacy = IF waits THEN @ \cup {i} ELSE @])
  BY DEF RestorePage
<1>3. /\ i \in DOMAIN blobs /\ i \in BlobIds /\ blobs[i].ver \in Versions /\ i[2] \in Records
      /\ \A o \in DOMAIN blobs : After(o, t.cursor) => o = i \/ After(o, Cursor(i))
  BY NextRow, RecordOf
<1>4. PICK c \in [at : Nat, rank : Nat] : c = Cursor(i)
  BY NextRow
<1>5. PICK w \in BOOLEAN : w = (i[2] = "contact" /\ blobs[i].ver = "older")
  OBVIOUS
<1>6. own' = IF w THEN own ELSE importRecord(t.dev, i[2], blobs[i].ver)
  BY <1>2, <1>5
<1>7. PICK u : u = [t EXCEPT !.cursor = c, !.ids = @ \cup {i[2]},
                             !.legacy = IF w THEN t.legacy \cup {i} ELSE t.legacy]
  OBVIOUS
<1>8. Turns(t, u)
  BY <1>2, <1>4, <1>5, <1>7
<1>9. /\ Call(u) /\ u.at = "page" /\ u.kind = "restore" /\ u.dev = t.dev /\ u.cursor = c /\ u.due = t.due
      /\ u.legacy = IF w THEN t.legacy \cup {i} ELSE t.legacy
  BY <1>1, <1>7 DEF Call
<1>10. UNCHANGED <<blobs, second, lead, flags, stored, left>>
  BY DEF RestorePage
<1>11. /\ own' \in [Devices -> [Records -> Statuses]]
       /\ w \/ own'[t.dev][i[2]] # "none"
       /\ \A e \in Devices, q \in Records : own[e][q] # "none" => own'[e][q] # "none"
  <2>1. CASE w
    BY <1>6, <2>1 DEF BackupInv, BackupShape
  <2>2. CASE ~w
    BY <1>1, <1>3, <1>6, <2>2, Imported
  <2> QED
    BY <2>1, <2>2
<1>12. Undisturbed
  BY <1>10, <1>11 DEF Undisturbed, BackupInv, BackupShape
<1>13. OnItsWay(u)'
  <2> SUFFICES ASSUME NEW o \in t.due
               PROVE  \/ o \in DOMAIN blobs' /\ After(o, c)'
                      \/ own'[t.dev][o[2]] # "none"
                      \/ o[2] = "contact" /\ u.legacy # {}
    BY <1>9 DEF OnItsWay
  <2>1. CASE o \in DOMAIN blobs /\ After(o, t.cursor) /\ o # i
    <3>1. After(o, c)
      BY <1>3, <1>4, <2>1
    <3>2. After(o, c)'
      BY <1>10, <3>1 DEF After, Rank
    <3> QED
      BY <1>10, <2>1, <3>2
  <2>2. CASE o = i
    BY <1>5, <1>9, <1>11, <2>2
  <2>3. CASE own[t.dev][o[2]] # "none"
    BY <1>1, <1>11, <2>3, RecordOf DEF Call
  <2>4. CASE o[2] = "contact" /\ t.legacy # {}
    BY <1>9, <2>4
  <2> QED
    BY <1>1, <2>1, <2>2, <2>3, <2>4 DEF OnItsWay
<1>14. Sound(u)
  BY <1>9, <1>13 DEF Sound, Careful
<1>15. \A v \in tasks' : v \in tasks \/ Sound(v)
  BY <1>8, <1>14 DEF Turns
<1> QED
  BY <1>12, <1>15, Calm

\* A restore ends with the contact, if an older record told of one.
LEMMA EndStep == ASSUME BackupInv, NEW t \in tasks, RestoreEnd(t) PROVE BackupInv'
<1>1. t.dev \in Devices /\ LegacyStatus(t) \in Versions /\ "contact" \in Records
  BY DEF BackupInv, BackupShape, Call, LegacyStatus, Versions, Statuses, Records
<1>2. own' = own \/ own' = importRecord(t.dev, "contact", LegacyStatus(t))
  BY DEF RestoreEnd
<1>3. /\ own' \in [Devices -> [Records -> Statuses]]
      /\ \A e \in Devices, q \in Records : own[e][q] # "none" => own'[e][q] # "none"
  <2>1. CASE own' = own
    BY <2>1 DEF BackupInv, BackupShape
  <2>2. CASE own' = importRecord(t.dev, "contact", LegacyStatus(t))
    BY <1>1, <2>2, Imported
  <2> QED
    BY <1>2, <2>1, <2>2
<1>4. Undisturbed
  BY <1>3 DEF Undisturbed, RestoreEnd, BackupInv, BackupShape
<1>5. tasks' \subseteq tasks
  BY DEF RestoreEnd, Done
<1> QED
  BY <1>4, <1>5, Calm

\* A task without some of its rows due is the same otherwise.
LEMMA LessDue ==
  ASSUME NEW t, Call(t), NEW D
  PROVE  /\ Call([t EXCEPT !.due = @ \ D]) /\ Same(t, [t EXCEPT !.due = @ \ D])
         /\ Goes(t, [t EXCEPT !.due = @ \ D])
         /\ [t EXCEPT !.due = @ \ D].due = t.due \ D
         /\ [t EXCEPT !.due = @ \ D].dev = t.dev
<1>1. PICK u : u = [t EXCEPT !.due = t.due \ D]
  OBVIOUS
<1>2. /\ u.dev = t.dev /\ u.kind = t.kind /\ u.at = t.at /\ u.todo = t.todo /\ u.ids = t.ids
      /\ u.legacy = t.legacy /\ u.cursor = t.cursor /\ u.due = t.due \ D
  BY <1>1 DEF Call
<1>3. Call(u)
  BY <1>1 DEF Call
<1> QED
  BY <1>1, <1>2, <1>3 DEF Same, Goes

\* The user decides about the contact, or removes it; then it is no longer due here.
LEMMA ContactStep ==
  ASSUME BackupInv, NEW d \in Devices, NEW s \in {"none", "accepted", "blocked"}, ContactSet(d, s)
  PROVE  BackupInv'
<1> DEFINE D == {"opaque", "random"} \X {"contact"}
<1>1. /\ own' = [own EXCEPT ![d].contact = s] /\ UNCHANGED <<blobs, second, lead, flags, stored>>
      /\ tasks' = {IF t.dev = d THEN [t EXCEPT !.due = @ \ D] ELSE t : t \in tasks}
  BY DEF ContactSet
<1>2. BackupShape /\ left' \in Nat
  BY DEF ContactSet, Spend, BackupInv, BackupShape
<1>3. /\ own' \in [Devices -> [Records -> Statuses]]
      /\ \A e \in Devices, r \in Records : e # d \/ r # "contact" => own'[e][r] = own[e][r]
  BY <1>1, <1>2 DEF BackupShape, Records, Statuses
<1>4. \A i \in BlobIds : i[2] = "contact" => i \in D
  BY SixIds
<1>5. ASSUME NEW u \in tasks' PROVE Call(u) /\ Careful(u)' /\ OnItsWay(u)'
  <2>1. PICK t \in tasks : u = IF t.dev = d THEN [t EXCEPT !.due = @ \ D] ELSE t
    BY <1>1
  <2>2. Call(t) /\ Careful(t) /\ OnItsWay(t)
    BY DEF BackupInv, BackupShape
  <2> HIDE DEF D
  <2>3. Call(u) /\ Same(t, u) /\ Goes(t, u) /\ u.due = (IF t.dev = d THEN t.due \ D ELSE t.due) /\ u.dev = t.dev
    <3>1. CASE t.dev = d
      BY <2>1, <2>2, <3>1, LessDue
    <3>2. CASE t.dev # d
      BY <2>1, <2>2, <3>2 DEF Same, Goes
    <3> QED
      BY <3>1, <3>2
  <2>4. RowsStay(u)
    <3>1. \A i \in DOMAIN blobs : blobs'[i].at \in Nat /\ blobs'[i].at >= blobs[i].at
      BY <1>1, <1>2 DEF BackupShape
    <3>2. \A i \in u.due : i \in BlobIds /\ u.dev \in Devices /\ i[2] \in Records /\ (u.dev = d => i[2] # "contact")
      BY <1>4, <2>2, <2>3, RecordOf DEF Call
    <3> QED
      BY <1>1, <1>3, <3>1, <3>2 DEF RowsStay
  <2>5. CopiesStay /\ lead' = lead
    BY <1>1 DEF CopiesStay
  <2>6. Careful(u)'
    BY <2>2, <2>3, <2>5, CarefulKept
  <2>7. OnItsWay(u)'
    BY <1>2, <2>2, <2>3, <2>4, <2>5, OnItsWayKept
  <2> QED
    BY <2>3, <2>6, <2>7
<1>6. BackupShape'
  BY <1>1, <1>2, <1>3, <1>5 DEF BackupShape, Call
<1>7. NothingLost'
  BY <1>1 DEF BackupInv, NothingLost
<1> QED
  BY <1>5, <1>6, <1>7 DEF BackupInv

\* A row is uploaded: it is new, or moves to the present second.
LEMMA UploadStep == ASSUME BackupInv, NEW t \in tasks, Upload(t) PROVE BackupInv'
<1>1. Call(t) /\ Careful(t) /\ OnItsWay(t) /\ BackupShape /\ t.at \in {"upload", "missing"}
  BY DEF Upload, BackupInv, BackupShape
<1>2. PICK b \in t.todo :
        /\ blobs' = With(blobs, b.id, Row(b.ver))
        /\ stored' = stored \cup {b.id[2]}
        /\ Turns(t, [t EXCEPT !.todo = @ \ {b}])
  BY DEF Upload
<1>3. UNCHANGED <<second, lead, own, flags, left>>
  BY DEF Upload
<1>4. b.id \in Opaque /\ b.ver \in Versions /\ b.id \in BlobIds /\ b.id \notin Older
  <2>1. b \in [id : Opaque, ver : Versions]
    BY <1>1 DEF Call
  <2>2. \A i \in Opaque : i \in BlobIds /\ i \notin Older
    BY DEF Opaque, BlobIds, Older
  <2> QED
    BY <2>1, <2>2
<1>5. /\ DOMAIN blobs' = DOMAIN blobs \cup {b.id}
      /\ blobs'[b.id] = [ver |-> b.ver, at |-> second]
      /\ \A i \in DOMAIN blobs : i # b.id => blobs'[i] = blobs[i]
  BY <1>2 DEF With, Row
<1>6. \A i \in DOMAIN blobs : blobs'[i].at \in Nat /\ blobs'[i].at >= blobs[i].at
  BY <1>1, <1>5 DEF BackupShape
<1>7. CopiesStay /\ lead' = lead
  BY <1>3, <1>4, <1>5 DEF CopiesStay
<1>8. ASSUME NEW v \in tasks PROVE Call(v) /\ Careful(v)' /\ OnItsWay(v)'
  <2>1. Call(v) /\ Careful(v) /\ OnItsWay(v) /\ Same(v, v) /\ Goes(v, v)
    BY DEF BackupInv, BackupShape, Same, Goes
  <2>2. RowsStay(v)
    BY <1>3, <1>5, <1>6 DEF RowsStay
  <2> QED
    BY <1>1, <1>7, <2>1, <2>2, CarefulKept, OnItsWayKept
<1>9. PICK u : u = [t EXCEPT !.todo = t.todo \ {b}]
  OBVIOUS
<1>10. /\ Call(u) /\ u.kind = t.kind /\ u.at = t.at /\ u.ids = t.ids /\ u.legacy = t.legacy
       /\ u.todo = t.todo \ {b} /\ u.dev = t.dev /\ u.cursor = t.cursor /\ u.due = t.due
  BY <1>1, <1>9 DEF Call
<1>11. Careful(u)'
  <2>1. Careful(t)'
    BY <1>8
  <2>2. u.at \in {"missing", "drop"} => \A l \in u.legacy : l.id \in DOMAIN blobs' =>
            \/ Copy(l.id) \in DOMAIN blobs'
            \/ u.at = "missing" /\ \E c \in u.todo : c.id = Copy(l.id)
    BY <1>5, <1>10, <2>1 DEF Careful, Copy
  <2> QED
    BY <1>10, <2>1, <2>2 DEF Careful, Copy
<1>12. OnItsWay(u)'
  <2>1. OnItsWay(t)'
    BY <1>8
  <2> QED
    BY <1>10, <2>1 DEF OnItsWay
<1>13. tasks' = (tasks \ {t}) \cup {u}
  BY <1>2, <1>9 DEF Turns
<1>14. BackupShape'
  <2>1. \A i \in DOMAIN blobs' : i \in BlobIds /\ blobs'[i].ver \in Versions /\ blobs'[i].at \in 1..second
    <3>1. second \in 1..second
      BY <1>1 DEF BackupShape
    <3> QED
      BY <1>1, <1>4, <1>5, <3>1 DEF BackupShape
  <2> QED
    BY <1>1, <1>3, <1>8, <1>10, <1>13, <2>1 DEF BackupShape, Call
<1>15. NothingLost'
  BY <1>2, <1>5 DEF BackupInv, NothingLost
<1> QED
  BY <1>8, <1>10, <1>11, <1>12, <1>13, <1>14, <1>15 DEF BackupInv

\* Rows are deleted, all of them or some under older ids: what a call had due among them
\* is no longer due, and nothing stored is without a row.
LEMMA DeletedStep ==
  ASSUME BackupInv, NEW S, NEW T, T \subseteq tasks, tasks' = Deleted(S, T),
         DOMAIN blobs' = DOMAIN blobs \ S, \A i \in DOMAIN blobs' : blobs'[i] = blobs[i],
         S \cap Opaque = {} \/ DOMAIN blobs' = {}, NothingLost',
         UNCHANGED <<second, lead, own>>, left' \in Nat, flags' \in [Devices -> Flags]
  PROVE  BackupInv'
<1>1. BackupShape
  BY DEF BackupInv
<1>2. ASSUME NEW u \in tasks' PROVE Call(u) /\ Careful(u)' /\ OnItsWay(u)'
  <2>1. PICK t \in T : u = [t EXCEPT !.due = @ \ S]
    BY DEF Deleted
  <2>2. Call(t) /\ Careful(t) /\ OnItsWay(t)
    BY DEF BackupInv, BackupShape
  <2>3. Call(u) /\ Same(t, u) /\ Goes(t, u) /\ u.due = t.due \ S
    BY <2>1, <2>2, LessDue
  <2>4. RowsStay(u)
    <3>1. \A i \in u.due : i \in DOMAIN blobs => i \in DOMAIN blobs' /\ blobs'[i].at = blobs[i].at
      BY <2>3
    <3>2. \A i \in DOMAIN blobs : blobs[i].at \in Nat
      BY <1>1 DEF BackupShape
    <3> QED
      BY <3>1, <3>2 DEF RowsStay
  <2>5. CopiesStay /\ lead' = lead
    BY DEF CopiesStay
  <2>6. Careful(u)'
    BY <2>2, <2>3, <2>5, CarefulKept
  <2>7. OnItsWay(u)'
    BY <1>1, <2>2, <2>3, <2>4, <2>5, OnItsWayKept
  <2> QED
    BY <2>3, <2>6, <2>7
<1>3. BackupShape'
  BY <1>1, <1>2 DEF BackupShape, Call
<1> QED
  BY <1>2, <1>3 DEF BackupInv

\* A migration deletes the rows under older ids (dropLegacyIds).
LEMMA DropStep == ASSUME BackupInv, NEW t \in tasks, Drop(t) PROVE BackupInv'
<1> DEFINE S == {l.id : l \in t.legacy}
<1>1. Call(t) /\ Careful(t) /\ t.dev \in Devices /\ t.at = "drop"
  BY DEF Drop, BackupInv, BackupShape, Call
<1>2. \A l \in t.legacy : /\ l.id \in Older /\ Copy(l.id) \in Opaque
                          /\ l.id \in DOMAIN blobs => Copy(l.id) \in DOMAIN blobs
  BY <1>1, CopyOpaque DEF Careful
<1>3. S \cap Opaque = {}
  BY <1>2, CopyOpaque
<1>4. /\ blobs' = Without(blobs, S) /\ tasks' = Deleted(S, tasks \ {t})
      /\ flags' = [flags EXCEPT ![t.dev].v2 = TRUE]
      /\ UNCHANGED <<second, lead, own, stored, left>>
  BY DEF Drop
<1>5. DOMAIN blobs' = DOMAIN blobs \ S /\ \A i \in DOMAIN blobs' : blobs'[i] = blobs[i]
  BY <1>4 DEF Without
<1>6. NothingLost'
  <2> SUFFICES ASSUME NEW r \in stored PROVE \E i \in DOMAIN blobs' : i[2] = r
    BY <1>4 DEF NothingLost
  <2>1. PICK i \in DOMAIN blobs : i[2] = r
    BY DEF BackupInv, NothingLost
  <2>2. CASE i \notin S
    BY <1>5, <2>1, <2>2
  <2>3. CASE i \in S
    <3>1. Copy(i) \in DOMAIN blobs /\ Copy(i) \in Opaque
      BY <1>2, <2>3
    <3>2. Copy(i) \in DOMAIN blobs' /\ Copy(i)[2] = r
      BY <1>3, <1>5, <2>1, <3>1 DEF Copy
    <3> QED
      BY <3>2
  <2> QED
    BY <2>2, <2>3
<1>7. flags' \in [Devices -> Flags]
  BY <1>1, <1>4 DEF BackupInv, BackupShape, Flags
<1>8. left' \in Nat /\ UNCHANGED <<second, lead, own>> /\ tasks \ {t} \subseteq tasks
  BY <1>4 DEF BackupInv, BackupShape
<1> HIDE DEF S
<1> QED
  BY <1>3, <1>4, <1>5, <1>6, <1>7, <1>8, DeletedStep

\* Everything is deleted (deleteHistory).
LEMMA DeleteStep == ASSUME BackupInv, NEW t \in tasks, deleteHistory(t) PROVE BackupInv'
<1>1. /\ blobs' = << >> /\ tasks' = Deleted(BlobIds, tasks \ {t}) /\ stored' = {}
      /\ UNCHANGED <<second, lead, own, flags, left>>
  BY DEF deleteHistory
<1>2. DOMAIN blobs' = {}
  BY <1>1
<1>3. DOMAIN blobs' = DOMAIN blobs \ BlobIds /\ \A i \in DOMAIN blobs' : blobs'[i] = blobs[i]
  BY <1>2 DEF BackupInv, BackupShape
<1>4. NothingLost'
  BY <1>1 DEF NothingLost
<1>5. left' \in Nat /\ UNCHANGED <<second, lead, own>> /\ flags' \in [Devices -> Flags] /\ tasks \ {t} \subseteq tasks
  BY <1>1 DEF BackupInv, BackupShape
<1> QED
  BY <1>1, <1>2, <1>3, <1>4, <1>5, DeletedStep

(***************************************************************************)
(* Initial states, and the theorems.                                       *)
(***************************************************************************)
\* A device that never backed up, or one of an older build.
LEMMA BackupStart == BackupInit => BackupInv
<1> SUFFICES ASSUME BackupInit PROVE BackupInv
  OBVIOUS
<1>1. PICK older \in BOOLEAN, m \in Msgs :
        /\ blobs = IF older THEN [i \in {<<"plain", m>>, <<"random", "contact">>}
                                   |-> [ver |-> "older", at |-> 1]]
                   ELSE << >>
        /\ lead \in IF older THEN {"opaque", "plain"} ELSE {"opaque"}
        /\ flags = [d \in Devices |-> [on |-> d = "old" /\ older, v2 |-> FALSE, side |-> FALSE]]
        /\ stored = IF older THEN {m, "contact"} ELSE {}
        /\ own = [d \in Devices |-> [x \in Records |->
                    CASE d = "new" -> "none" [] x = m -> "sent" [] x = "contact" -> "accepted"
                      [] OTHER -> "none"]]
  BY DEF BackupInit
<1>2. second = 1 /\ left \in Nat /\ tasks = {} /\ lead \in {"opaque", "plain"}
  BY <1>1, BackupAssumption DEF BackupInit
<1>3. /\ DOMAIN blobs \subseteq BlobIds
      /\ \A i \in DOMAIN blobs : blobs[i].ver \in Versions /\ blobs[i].at \in 1..second
      /\ NothingLost
  <2>1. CASE older
    <3>1. DOMAIN blobs = {<<"plain", m>>, <<"random", "contact">>}
      BY <1>1, <2>1
    <3>2. \A i \in DOMAIN blobs : blobs[i] = [ver |-> "older", at |-> 1]
      BY <1>1, <2>1
    <3>3. DOMAIN blobs \subseteq BlobIds
      BY <3>1 DEF BlobIds, Msgs
    <3>4. NothingLost
      BY <1>1, <2>1, <3>1 DEF NothingLost
    <3> QED
      BY <1>2, <3>2, <3>3, <3>4 DEF Versions, Statuses
  <2>2. CASE ~older
    BY <1>1, <2>2 DEF NothingLost
  <2> QED
    BY <2>1, <2>2
<1>4. own \in [Devices -> [Records -> Statuses]]
  BY <1>1 DEF Statuses
<1>5. flags \in [Devices -> Flags]
  BY <1>1 DEF Flags
<1> QED
  BY <1>2, <1>3, <1>4, <1>5 DEF BackupInv, BackupShape

\* Every action keeps the invariant.
LEMMA BackupStep == BackupInv /\ [BackupNext]_backupVars => BackupInv'
<1> SUFFICES ASSUME BackupInv, [BackupNext]_backupVars PROVE BackupInv'
  OBVIOUS
<1>1. second \in Nat \ {0} /\ left \in Nat /\ flags \in [Devices -> Flags]
  BY DEF BackupInv, BackupShape
<1>2. CASE UNCHANGED backupVars
  <2>1. tasks' \subseteq tasks /\ UNCHANGED <<blobs, lead, own, stored, second, left, flags>>
    BY <1>2 DEF backupVars
  <2> QED
    BY <1>1, <2>1, LessStep
<1>3. CASE Ticks
  <2>1. tasks' \subseteq tasks /\ UNCHANGED <<blobs, lead, own, stored, left, flags>> /\ second' = second + 1
    BY <1>3 DEF Ticks
  <2> QED
    BY <1>1, <2>1, LessStep
<1>4. ASSUME NEW d \in Devices, ReloadDevice(d) PROVE BackupInv'
  <2>1. tasks' \subseteq tasks /\ UNCHANGED <<blobs, lead, own, stored, second>> /\ left' \in Nat
    BY <1>1, <1>4 DEF ReloadDevice, Spend
  <2>2. flags' = [flags EXCEPT ![d].side = FALSE]
    BY <1>4 DEF ReloadDevice
  <2>3. flags' \in [Devices -> Flags]
    BY <1>1, <2>2 DEF Flags
  <2> QED
    BY <1>1, <2>1, <2>3, LessStep
<1>5. ASSUME NEW t \in tasks, CallFails(t) PROVE BackupInv'
  <2>1. tasks' \subseteq tasks /\ UNCHANGED <<blobs, lead, own, stored, second, flags>> /\ left' \in Nat
    BY <1>1, <1>5 DEF CallFails, Spend, Done
  <2> QED
    BY <1>1, <2>1, LessStep
<1>6. ASSUME NEW d \in Devices,
             \/ \E m \in Msgs : NewMessage(d, m)
             \/ \E s \in {"none", "accepted", "blocked"} : ContactSet(d, s)
             \/ enableBackup(d) \/ disableBackup(d) \/ BackUpNow(d)
             \/ migrateBackupIds(d) \/ restoreHistory(d)
      PROVE  BackupInv'
  BY <1>6, MessageStep, ContactStep, BegunStep, RestoreStep
<1>7. ASSUME NEW t \in tasks,
             \/ LiveCheck(t) \/ collectLocalRecords(t) \/ Upload(t) \/ Uploaded(t)
             \/ List(t) \/ Listed(t) \/ MissingUploaded(t) \/ Drop(t) \/ deleteHistory(t)
             \/ RestorePage(t) \/ RestoreEnd(t)
      PROVE  BackupInv'
  BY <1>7, LiveStep, CollectStep, UploadStep, UploadedStep, ListStep, ListedStep, MissingStep,
     DropStep, DeleteStep, PageStep, EndStep
<1> QED
  BY <1>2, <1>3, <1>4, <1>5, <1>6, <1>7 DEF BackupNext

\* The strengthened invariant holds in every state of the backup.
THEOREM BackupInductive == BackupSpec => []BackupInv
<1> QED
  BY BackupStart, BackupStep, PTL DEF BackupSpec

\* What was backed up stays on the server until the user deletes all of it: a migration
\* that is cut short, repeated or overtaken by another device's loses nothing.
THEOREM BackupKeeps == BackupSpec => []NothingLost
<1>1. BackupInv => NothingLost
  BY DEF BackupInv
<1> QED
  BY <1>1, BackupInductive, PTL

\* A restore that ends has brought in every record whose row stayed there meanwhile
\* (restoreHistory pages by a strict cursor over both columns).
THEOREM RestoresAll == BackupSpec => RestoreComplete
<1>1. ASSUME BackupInv, NEW t \in tasks, t.at = "page", RestoreEnd(t), NEW i \in t.due
      PROVE  own'[t.dev][i[2]] # "none"
  <2>1. /\ Call(t) /\ OnItsWay(t) /\ t.kind = "restore" /\ t.dev \in Devices /\ i \in BlobIds
        /\ t.cursor \in [at : Nat, rank : Nat] /\ BackupShape
    BY <1>1 DEF BackupInv, BackupShape, Careful, Call
  <2>2. ~(i \in DOMAIN blobs /\ After(i, t.cursor))
    BY <1>1, <2>1, LastPage DEF RestoreEnd
  <2>3. i[2] \in Records /\ "contact" \in Records /\ LegacyStatus(t) \in Versions
    BY <2>1, RecordOf DEF LegacyStatus, Versions, Statuses, Records
  <2>4. CASE t.legacy = {}
    BY <1>1, <2>1, <2>2, <2>4 DEF RestoreEnd, OnItsWay
  <2>5. CASE t.legacy # {}
    <3>1. own' = importRecord(t.dev, "contact", LegacyStatus(t))
      BY <1>1, <2>5 DEF RestoreEnd
    <3>2. /\ own'[t.dev]["contact"] # "none"
          /\ \A e \in Devices, q \in Records : own[e][q] # "none" => own'[e][q] # "none"
      BY <1>1, <2>1, <2>3, <3>1, Imported
    <3> QED
      BY <1>1, <2>1, <2>2, <2>3, <3>2 DEF OnItsWay
  <2> QED
    BY <2>4, <2>5
<1>2. BackupInv => [\A t \in tasks : t.at = "page" /\ RestoreEnd(t) =>
                      \A i \in t.due : own'[t.dev][i[2]] # "none"]_backupVars
  BY <1>1
<1> QED
  BY <1>2, BackupInductive, PTL DEF RestoreComplete, BackupSpec

\* Only a restore changes what a device has by itself: all else is the user's doing.
LEMMA ByItself ==
  ASSUME BackupInv, BackupNext, left' = left, own' # own
  PROVE  \E t \in tasks : RestorePage(t) \/ RestoreEnd(t)
<1>1. ~Spend
  BY DEF BackupInv, BackupShape, Spend
<1> QED
  BY <1>1 DEF BackupNext, Ticks, NewMessage, ContactSet, enableBackup, disableBackup, BackUpNow,
     migrateBackupIds, restoreHistory, ReloadDevice, LiveCheck, collectLocalRecords, Upload, Uploaded,
     List, Listed, MissingUploaded, Drop, deleteHistory, CallFails

\* Who is a contact is decided by the user: no restore undoes such a decision, and none
\* makes one on the strength of a message that came in (restoreHistory, weMessaged).
THEOREM UserDecides == BackupSpec => DecisionsStick
<1>1. ASSUME BackupInv, BackupNext, left' = left, own' # own
      PROVE  /\ \A d \in Devices : own[d].contact \in {"accepted", "blocked"} => own'[d].contact = own[d].contact
             /\ NobodyForced
  <2>1. PICK t \in tasks : RestorePage(t) \/ RestoreEnd(t)
    BY <1>1, ByItself
  <2>2. t.dev \in Devices
    BY <1>1 DEF BackupInv, BackupShape, Call
  <2>3. \A v \in tasks : v \notin tasks' => v = t
    BY <2>1 DEF RestorePage, RestoreEnd, Turns, Done
  <2>4. CASE RestorePage(t)
    <3>1. PICK i \in NextRows(t.cursor) : own' = own \/ own' = importRecord(t.dev, i[2], blobs[i].ver)
      BY <2>4 DEF RestorePage
    <3>2. i \in DOMAIN blobs /\ i \in BlobIds /\ blobs[i].ver \in Versions /\ i[2] \in Records
      BY <1>1, NextRow, RecordOf
    <3>3. own' = importRecord(t.dev, i[2], blobs[i].ver)
      BY <1>1, <3>1
    <3>4. /\ \A e \in Devices : own[e].contact \in {"accepted", "blocked"} => own'[e].contact = own[e].contact
          /\ \A e \in Devices : own'[e].contact # own[e].contact =>
                e = t.dev /\ i[2] = "contact" /\ own'[e].contact = blobs[i].ver
      BY <1>1, <2>2, <3>2, <3>3, Imported
    <3>5. NobodyForced
      BY <2>2, <2>3, <3>2, <3>4 DEF NobodyForced
    <3> QED
      BY <3>4, <3>5
  <2>5. CASE RestoreEnd(t)
    <3>1. own' = importRecord(t.dev, "contact", LegacyStatus(t))
      BY <1>1, <2>5 DEF RestoreEnd
    <3>2. LegacyStatus(t) \in Versions /\ "contact" \in Records
      BY DEF LegacyStatus, Versions, Statuses, Records
    <3>3. /\ \A e \in Devices : own[e].contact \in {"accepted", "blocked"} => own'[e].contact = own[e].contact
          /\ \A e \in Devices : own'[e].contact # own[e].contact =>
                e = t.dev /\ own'[e].contact = LegacyStatus(t)
      BY <1>1, <2>2, <3>1, <3>2, Imported
    <3>4. LegacyStatus(t) = "accepted" => t.ids \cap Sent # {}
      BY DEF LegacyStatus
    <3>5. NobodyForced
      BY <2>2, <2>3, <3>3, <3>4 DEF NobodyForced
    <3> QED
      BY <3>3, <3>5
  <2> QED
    BY <2>1, <2>4, <2>5
<1>2. ASSUME BackupInv, BackupNext PROVE StaysDecided /\ NobodyForced
  <2>1. \A t \in tasks : t.dev \in Devices
    BY <1>2 DEF BackupInv, BackupShape, Call
  <2>2. CASE own' = own
    BY <2>2 DEF StaysDecided, NobodyForced
  <2>3. CASE left' # left
    BY <2>3 DEF StaysDecided, NobodyForced
  <2>4. CASE left' = left /\ own' # own
    BY <1>1, <1>2, <2>4 DEF StaysDecided
  <2> QED
    BY <2>2, <2>3, <2>4
<1>3. BackupInv /\ [BackupNext]_backupVars => [StaysDecided /\ NobodyForced]_backupVars
  BY <1>2
<1> QED
  BY <1>3, BackupInductive, PTL DEF DecisionsStick, BackupSpec

(***************************************************************************)
(* Prekeys and the watch on them: the strengthening.                       *)
(***************************************************************************)
Saves == {"savePrev", "saveSpk", "saveOpks", "clearSpk", "clearOpks"}
Runs == Saves \cup {"none", "rotate", "topUp", "postSpk", "postOpks"}
AnySpk == Nat \cup Foreign
Retired == [id : Nat, at : Nat]

\* Ids of one-time prekeys count from one, and there is a highest.
Opks == {S \in SUBSET (Nat \ {0}) : \E n \in Nat : \A o \in S : o <= n}
Identity == [spk : Nat, prev : SUBSET Retired, opks : Opks, opkp : SUBSET Nat, spkp : BOOLEAN, due : Nat]
Upkeeps == [at : Runs, val : Identity, fresh : SUBSET (Nat \ {0})]

KeyShape ==
    /\ srv \in [spk : AnySpk, opks : SUBSET (Nat \ {0})]
    /\ mail \subseteq [spk : AnySpk, opk : Nat, at : Nat]
    /\ saved \in Identity /\ me \in Identity
    /\ upkeep \in Upkeeps
    /\ frame \in [at : {"none", "saving"}, val : Identity]
    /\ check \in [at : {"none", "read", "write"}, reply : AnySpk, known : {check.known}, grew : {check.grew}]
    /\ watch \in [known : {watch.known}, alert : {watch.alert}]
    /\ clock \in Nat /\ made \in Nat /\ chances \in Nat
    /\ retired \subseteq Retired
    /\ raced \in BOOLEAN /\ lowPending \in BOOLEAN

\* Retired so long ago that no message to it is queued any more.
Gone(x) == \E k \in retired : k.id = x /\ clock - k.at >= Lifetime

\* No surprise to this device: another device's, saved, or long retired.
Ours(x) == x \in Foreign \cup Spks(saved) \/ Gone(x)

\* The copy upkeep is about to save is the cached identity with this step's changes.
Copied ==
    LET v == upkeep.val
    IN /\ upkeep.at = "savePrev" => v = [me EXCEPT !.prev = retainSpks(me.prev)]
       /\ upkeep.at = "saveSpk" =>
            /\ v = [me EXCEPT !.prev = v.prev, !.spk = v.spk, !.due = v.due, !.spkp = TRUE]
            /\ v.prev = retainSpks(me.prev \cup {[id |-> me.spk, at |-> clock]})
       /\ upkeep.at = "saveOpks" => /\ v = [me EXCEPT !.opks = v.opks, !.opkp = v.opkp]
                                    /\ v.opks = me.opks \cup upkeep.fresh
       /\ upkeep.at = "clearSpk" => v = [me EXCEPT !.spkp = FALSE]
       /\ upkeep.at = "clearOpks" => v = [me EXCEPT !.opkp = {}]

\* What is saved is what is cached, but for the one-time prekey a frame has just used.
SavedInv ==
    /\ frame.at = "none" => me = saved /\ Copied
    /\ frame.at = "saving" => /\ frame.val = me
                              /\ me = [saved EXCEPT !.opks = me.opks]
                              /\ me.opks \subseteq saved.opks
    /\ saved.prev \subseteq retired

\* A one-time prekey that is on the server, or will be, or is named by one message in the
\* queue, is held, unless it was handed out before.
OpkInv ==
    /\ srv.opks \ given \subseteq me.opks
    /\ upkeep.at = "postOpks" => upkeep.fresh \ given \subseteq me.opks
    /\ \A m \in mail : m.opk \in {0} \cup given
    /\ \A m \in mail : m.opk \in {0} \cup twice \cup me.opks
    /\ \A m, n \in mail : m.opk = n.opk /\ m # n => m.opk \in {0} \cup twice

\* m came to a signed prekey that is held or that was already retired.
Held(m) == m.spk \in Foreign \cup Spks(saved) \/ \E k \in retired : k.id = m.spk /\ m.at > k.at

\* The signed prekey on the server, and in a reply being checked, is no surprise.
SpkInv ==
    /\ Ours(srv.spk)
    /\ check.at = "read" => Ours(check.reply)
    /\ check.at = "write" => check.reply \in Foreign \cup check.known \/ Gone(check.reply)
    /\ \A m \in mail : Held(m)

\* Messages in the queue have not expired.
QueueInv == \A m \in mail : m.at <= clock /\ clock < m.at + Lifetime

KeyInv ==
    /\ KeyShape
    /\ ~raced => SavedInv /\ OpkInv /\ SpkInv
    /\ QueueInv /\ LowRemembered /\ NoFalseAlert

(***************************************************************************)
(* Shapes.                                                                 *)
(***************************************************************************)
\* A set with an upper bound, less or one more prekey, has one still.
LEMMA OpksLess == ASSUME NEW S \in Opks, NEW T PROVE S \ T \in Opks
BY DEF Opks

\* Ids follow the highest held.
LEMMA NextOpk ==
  ASSUME NEW S \in Opks
  PROVE  LET last == CHOOSE n \in S \cup {0} : \A o \in S : o <= n
         IN last \in Nat /\ \A o \in S : o <= last
<1> DEFINE B == {n \in Nat : \A o \in S : o <= n}
           last == CHOOSE n \in S \cup {0} : \A o \in S : o <= n
<1>1. S \subseteq Nat /\ B # {} /\ B \subseteq Nat
  BY DEF Opks
<1>2. PICK b \in B : \A n \in B : b <= n
  BY ONLY <1>1, Least
<1>3. b \in S \cup {0}
  <2> SUFFICES ASSUME b # 0, b \notin S PROVE FALSE
    OBVIOUS
  <2>1. b \in Nat /\ b - 1 \in Nat /\ \A o \in S : o \in Nat /\ o <= b /\ o # b
    BY <1>1
  <2>2. \A o \in S : o <= b - 1
    BY <2>1
  <2>3. b - 1 \in B
    BY <2>1, <2>2
  <2> QED
    BY <1>2, <2>1, <2>3
<1>4. \E n \in S \cup {0} : \A o \in S : o <= n
  BY <1>3
<1>5. last \in S \cup {0} /\ \A o \in S : o <= last
  BY <1>4
<1>6. last \in Nat
  BY <1>1, <1>5
<1> QED
  BY <1>5, <1>6

\* A new batch of one.
LEMMA OpksMore ==
  ASSUME NEW S \in Opks, NEW n \in Nat, \A o \in S : o <= n
  PROVE  S \cup ((n + 1)..(n + Batch)) \in Opks /\ (n + 1)..(n + Batch) \in SUBSET (Nat \ {0})
<1>1. (n + 1)..(n + Batch) = {n + 1}
  <2>1. n + Batch = n + 1 /\ n + 1 \in Int
    BY DEF Batch
  <2>2. \A x \in (n + 1)..(n + 1) : x = n + 1
    BY <2>1
  <2> QED
    BY <2>1, <2>2
<1>2. S \subseteq Nat \ {0} /\ \A o \in S : o <= n + 1
  BY DEF Opks
<1>3. \A o \in S \cup {n + 1} : o <= n + 1
  BY <1>2
<1>4. S \cup {n + 1} \in SUBSET (Nat \ {0}) /\ {n + 1} \in SUBSET (Nat \ {0}) /\ n + 1 \in Nat
  BY <1>2
<1>5. \E b \in Nat : \A o \in S \cup {n + 1} : o <= b
  BY <1>3, <1>4
<1>6. S \cup {n + 1} \in Opks
  BY <1>4, <1>5 DEF Opks
<1> QED
  BY <1>1, <1>4, <1>6

\* The identity a device begins with.
LEMMA FirstIsIdentity == FirstKeys \in Identity /\ [FirstKeys EXCEPT !.opks = {}] \in Identity
<1>1. {1} \in Opks /\ {} \in Opks
  BY DEF Opks
<1>2. {[id |-> 1, at |-> 0]} \in SUBSET Retired
  BY DEF Retired
<1>3. PICK k \in Identity : k = FirstKeys
  BY <1>1, <1>2 DEF FirstKeys, Identity
<1>4. [k EXCEPT !.opks = {}] \in Identity
  BY <1>1 DEF Identity
<1> QED
  BY <1>3, <1>4

\* The initial states.
LEMMA KeyStart == PrekeyInit => KeyInv
<1> SUFFICES ASSUME PrekeyInit PROVE KeyInv
  OBVIOUS
<1>1. PICK k \in Identity : k = FirstKeys
  BY FirstIsIdentity
<1>2. /\ saved \in Identity /\ me = saved /\ frame.at = "none" /\ upkeep.at = "none" /\ check.at = "none"
      /\ raced \in BOOLEAN
      /\ ~raced => me = k
  BY <1>1, FirstIsIdentity DEF PrekeyInit, NoSave, NoRun, NoCheck
<1>3. k.opks = {1} /\ k.prev = {[id |-> 1, at |-> 0]} /\ k.spk = 2
  BY <1>1 DEF FirstKeys
<1>4. KeyShape
  <2>1. upkeep \in Upkeeps /\ frame \in [at : {"none", "saving"}, val : Identity]
    BY <1>1 DEF PrekeyInit, NoRun, NoSave, Runs, Upkeeps
  <2>2. check \in [at : {"none", "read", "write"}, reply : AnySpk, known : {check.known}, grew : {check.grew}]
    BY DEF PrekeyInit, NoCheck, AnySpk
  <2>3. /\ srv \in [spk : AnySpk, opks : SUBSET (Nat \ {0})] /\ mail \subseteq [spk : AnySpk, opk : Nat, at : Nat]
        /\ watch \in [known : {watch.known}, alert : {watch.alert}]
    BY DEF PrekeyInit, AnySpk
  <2>4. retired \subseteq Retired
    BY <1>1, <1>3 DEF PrekeyInit, Retired
  <2> QED
    BY <1>2, <2>1, <2>2, <2>3, <2>4, PrekeyAssumption DEF PrekeyInit, KeyShape
<1>5. ~raced => SavedInv
  <2>1. ~raced => saved.prev \subseteq retired
    BY <1>1, <1>2 DEF PrekeyInit
  <2> QED
    BY <1>2, <2>1 DEF SavedInv, Copied
<1>6. ~raced => OpkInv
  BY <1>2, <1>3 DEF PrekeyInit, OpkInv
<1>7. ~raced => SpkInv
  <2>1. ~raced => {1, 2} \subseteq Spks(saved)
    <3>1. [id |-> 1, at |-> 0].id = 1
      OBVIOUS
    <3> QED
      BY <1>2, <1>3, <3>1 DEF Spks
  <2> QED
    BY <1>2, <2>1 DEF PrekeyInit, SpkInv, Ours, Held
<1>8. QueueInv /\ LowRemembered /\ NoFalseAlert
  BY DEF PrekeyInit, QueueInv, Lifetime, LowRemembered, NoFalseAlert
<1> QED
  BY <1>4, <1>5, <1>6, <1>7, <1>8 DEF KeyInv

\* The values upkeep takes on the way.
LEMMA UpkeepTo ==
  ASSUME NEW u \in Upkeeps, NEW a \in Runs, NEW v \in Identity
  PROVE  /\ [u EXCEPT !.at = a, !.val = v] \in Upkeeps
         /\ [u EXCEPT !.at = a, !.val = v].at = a
         /\ [u EXCEPT !.at = a, !.val = v].val = v
         /\ [u EXCEPT !.at = a, !.val = v].fresh = u.fresh
BY DEF Upkeeps

\* A run begins, goes on or ends; a reply comes in.
LEMMA RunsShape ==
  ASSUME KeyShape
  PROVE  /\ NoRun \in Upkeeps /\ NoRun.at = "none"
         /\ [NoRun EXCEPT !.at = "rotate"] \in Upkeeps /\ [NoRun EXCEPT !.at = "rotate"].at = "rotate"
         /\ Started \in Upkeeps
         /\ Started.at = IF upkeep.at = "none" THEN "rotate" ELSE upkeep.at
         /\ upkeep.at # "none" => Started = upkeep
         /\ RunEnd \in Upkeeps /\ RunEnd.at = IF lowPending THEN "topUp" ELSE "none"
         /\ Replied = [at |-> "read", reply |-> srv.spk, known |-> {}, grew |-> FALSE]
<1>1. FirstKeys \in Identity
  BY FirstIsIdentity
<1>2. "none" \in Runs /\ "topUp" \in Runs /\ "rotate" \in Runs
  BY DEF Runs
<1>3. NoRun \in Upkeeps /\ NoRun.at = "none"
  BY <1>1, <1>2 DEF NoRun, Upkeeps
<1>4. PICK n \in Upkeeps : n = NoRun /\ n.at = "none"
  BY <1>3
<1>5. PICK r : r = [n EXCEPT !.at = "rotate"]
  OBVIOUS
<1>6. r \in Upkeeps /\ r.at = "rotate"
  BY <1>5 DEF Upkeeps, Runs
<1>7. PICK e : e = [n EXCEPT !.at = "topUp", !.val = FirstKeys]
  OBVIOUS
<1>8. e \in Upkeeps /\ e.at = "topUp"
  BY <1>7, <1>1, <1>2 DEF Upkeeps
<1>9. Started \in Upkeeps /\ (upkeep.at # "none" => Started = upkeep) /\ (upkeep.at = "none" => Started.at = "rotate")
  BY <1>4, <1>5, <1>6 DEF Started, KeyShape
<1>10. RunEnd \in Upkeeps /\ RunEnd.at = IF lowPending THEN "topUp" ELSE "none"
  BY <1>4, <1>7, <1>8 DEF RunEnd
<1>11. PICK c : c = [at |-> "none", reply |-> 0, known |-> {}, grew |-> FALSE]
  OBVIOUS
<1>12. Replied = [c EXCEPT !.at = "read", !.reply = srv.spk]
  BY <1>11 DEF Replied, NoCheck
<1>13. Replied = [at |-> "read", reply |-> srv.spk, known |-> {}, grew |-> FALSE]
  BY <1>11, <1>12
<1> QED
  BY <1>4, <1>5, <1>6, <1>9, <1>10, <1>13

\* Retired keys that are kept were there.
LEMMA Retained == ASSUME NEW L PROVE retainSpks(L) \subseteq L
BY DEF retainSpks

\* A rotation, or what comes instead of one.
LEMMA RotateEffect ==
  ASSUME KeyShape, rotateSpkIfDue
  PROVE  \E a \in {"postSpk", "topUp", "savePrev", "saveSpk"}, v \in Identity :
            /\ upkeep' = [upkeep EXCEPT !.at = a, !.val = v]
            /\ a = "savePrev" => v = [me EXCEPT !.prev = retainSpks(me.prev)]
            /\ a = "saveSpk" => v = [me EXCEPT !.prev = retainSpks(me.prev \cup {[id |-> me.spk, at |-> clock]}),
                                               !.spk = made + 1, !.due = clock + 1, !.spkp = TRUE]
<1> DEFINE kept == retainSpks(me.prev)
           old == {[id |-> me.spk, at |-> clock]}
<1>1. kept \in SUBSET Retired /\ retainSpks(me.prev \cup old) \in SUBSET Retired
  <2>1. me.prev \subseteq Retired /\ old \subseteq Retired
    BY DEF KeyShape, Identity, Retired
  <2> QED
    BY <2>1, Retained
<1>2. PICK p \in SUBSET Retired : p = kept
  BY <1>1
<1>3. PICK q \in SUBSET Retired : q = retainSpks(me.prev \cup old)
  BY <1>1
<1>4. [me EXCEPT !.prev = p] \in Identity
  BY DEF KeyShape, Identity
<1>5. made + 1 \in Nat /\ clock + 1 \in Nat
  BY DEF KeyShape
<1>6. [me EXCEPT !.prev = q, !.spk = made + 1, !.due = clock + 1, !.spkp = TRUE] \in Identity
  BY <1>5 DEF KeyShape, Identity
<1>7. CASE me.spkp
  <2>1. upkeep' = [upkeep EXCEPT !.at = "postSpk", !.val = FirstKeys]
    BY <1>7 DEF rotateSpkIfDue
  <2> QED
    BY <2>1, FirstIsIdentity
<1>8. CASE ~me.spkp /\ clock < me.due /\ kept # me.prev
  <2>1. upkeep' = [upkeep EXCEPT !.at = "savePrev", !.val = [me EXCEPT !.prev = p]]
    BY <1>2, <1>8 DEF rotateSpkIfDue
  <2>2. [me EXCEPT !.prev = p] = [me EXCEPT !.prev = retainSpks(me.prev)]
    BY <1>2
  <2> QED
    BY <1>4, <2>1, <2>2
<1>9. CASE ~me.spkp /\ clock < me.due /\ kept = me.prev
  <2>1. upkeep' = [upkeep EXCEPT !.at = "topUp", !.val = FirstKeys]
    BY <1>9 DEF rotateSpkIfDue
  <2> QED
    BY <2>1, FirstIsIdentity
<1>10. CASE ~me.spkp /\ ~(clock < me.due)
  <2>1. PICK v \in Identity : v = [me EXCEPT !.prev = q, !.spk = made + 1, !.due = clock + 1, !.spkp = TRUE]
    BY <1>6
  <2>2. upkeep' = [upkeep EXCEPT !.at = "saveSpk", !.val = v]
    BY <1>3, <1>10, <2>1 DEF rotateSpkIfDue
  <2> QED
    BY <1>3, <2>1, <2>2
<1> QED
  BY <1>7, <1>8, <1>9, <1>10

\* One-time prekeys are topped up, or an upload that failed is repeated.
LEMMA ReplenishEffect ==
  ASSUME KeyShape, replenishOpks
  PROVE  \/ upkeep' = NoRun
         \/ /\ upkeep' \in Upkeeps /\ upkeep'.at = "postOpks"
            /\ upkeep'.fresh = me.opkp \cap me.opks
         \/ /\ upkeep' \in Upkeeps /\ upkeep'.at = "saveOpks"
            /\ upkeep'.val = [me EXCEPT !.opks = me.opks \cup upkeep'.fresh, !.opkp = upkeep'.fresh]
            /\ upkeep'.val.opks = me.opks \cup upkeep'.fresh
<1>1. me \in Identity /\ upkeep \in Upkeeps /\ me.opks \in Opks
  BY DEF KeyShape, Identity
<1>2. "postOpks" \in Runs /\ "saveOpks" \in Runs
  BY DEF Runs, Saves
<1>3. PICK last \in Nat : /\ last = CHOOSE n \in me.opks \cup {0} : \A o \in me.opks : o <= n
                          /\ \A o \in me.opks : o <= last
  BY <1>1, NextOpk
<1>4. PICK F \in SUBSET (Nat \ {0}) : F = (last + 1)..(last + Batch) /\ me.opks \cup F \in Opks
  BY <1>1, <1>3, OpksMore
<1>5. CASE me.opkp # {}
  <2>1. PICK G \in SUBSET (Nat \ {0}) : G = me.opkp \cap me.opks
    BY <1>1 DEF Opks
  <2>2. upkeep' = [upkeep EXCEPT !.at = "postOpks", !.fresh = G]
    BY <1>5, <2>1 DEF replenishOpks
  <2> QED
    BY <1>1, <1>2, <2>1, <2>2 DEF Upkeeps
<1>6. CASE me.opkp = {} /\ ~lowPending /\ Cardinality(me.opks) >= LowWater
  BY <1>6 DEF replenishOpks
<1>7. CASE me.opkp = {} /\ ~(~lowPending /\ Cardinality(me.opks) >= LowWater)
  <2>1. PICK O \in Opks : O = me.opks \cup F
    BY <1>4
  <2>2. PICK v : v = [me EXCEPT !.opks = O, !.opkp = F]
    OBVIOUS
  <2>3. v \in Identity /\ v.opks = O
    BY <1>1, <2>2 DEF Identity
  <2>4. upkeep' = [upkeep EXCEPT !.at = "saveOpks", !.fresh = F, !.val = v]
    BY <1>3, <1>4, <1>7, <2>1, <2>2 DEF replenishOpks
  <2>5. upkeep' \in Upkeeps /\ upkeep'.at = "saveOpks" /\ upkeep'.fresh = F /\ upkeep'.val = v
    BY <1>1, <1>2, <2>3, <2>4 DEF Upkeeps
  <2> QED
    BY <2>1, <2>2, <2>3, <2>5
<1> QED
  BY <1>5, <1>6, <1>7

\* What commit applies to the cached identity, and where the run goes from there.
LEMMA CommitEffect ==
  ASSUME KeyShape, commit
  PROVE  /\ me' \in Identity /\ saved' = upkeep.val /\ upkeep' \in Upkeeps
         /\ upkeep.at \in Saves
         /\ upkeep.at = "savePrev" => me' = [me EXCEPT !.prev = upkeep.val.prev] /\ upkeep'.at = "topUp"
         /\ upkeep.at = "saveSpk" =>
                /\ me' = [me EXCEPT !.prev = upkeep.val.prev, !.spk = upkeep.val.spk,
                                    !.due = upkeep.val.due, !.spkp = TRUE]
                /\ upkeep'.at = "postSpk"
         /\ upkeep.at = "clearSpk" => me' = [me EXCEPT !.spkp = FALSE] /\ upkeep'.at = "topUp"
         /\ upkeep.at = "saveOpks" =>
                /\ me' = [me EXCEPT !.opks = upkeep.val.opks, !.opkp = upkeep.val.opkp]
                /\ upkeep'.at = "postOpks" /\ upkeep'.fresh = upkeep.fresh
         /\ upkeep.at = "clearOpks" => me' = [me EXCEPT !.opkp = {}] /\ upkeep'.at = (IF lowPending THEN "topUp" ELSE "none")
<1>1. PICK v \in Identity : v = upkeep.val
  BY DEF KeyShape, Upkeeps
<1>2. /\ me \in Identity /\ upkeep \in Upkeeps /\ saved' = v /\ upkeep.at \in Saves /\ FirstKeys \in Identity
      /\ "topUp" \in Runs /\ "postSpk" \in Runs /\ "postOpks" \in Runs
  BY <1>1, FirstIsIdentity DEF KeyShape, commit, Saves, Runs
<1>3. CASE upkeep.at = "savePrev"
  <2>1. me' = [me EXCEPT !.prev = v.prev] /\ upkeep' = [upkeep EXCEPT !.at = "topUp", !.val = FirstKeys]
    BY <1>1, <1>3 DEF commit
  <2>2. me' \in Identity
    BY <1>2, <2>1 DEF Identity
  <2>3. upkeep' \in Upkeeps /\ upkeep'.at = "topUp"
    BY <1>2, <2>1 DEF Upkeeps
  <2> QED
    BY <1>1, <1>2, <1>3, <2>1, <2>2, <2>3
<1>4. CASE upkeep.at = "saveSpk"
  <2>1. /\ me' = [me EXCEPT !.prev = v.prev, !.spk = v.spk, !.due = v.due, !.spkp = TRUE]
        /\ upkeep' = [upkeep EXCEPT !.at = "postSpk", !.val = FirstKeys]
    BY <1>1, <1>4 DEF commit
  <2>2. me' \in Identity
    BY <1>2, <2>1 DEF Identity
  <2>3. upkeep' \in Upkeeps /\ upkeep'.at = "postSpk"
    BY <1>2, <2>1 DEF Upkeeps
  <2> QED
    BY <1>1, <1>2, <1>4, <2>1, <2>2, <2>3
<1>5. CASE upkeep.at = "clearSpk"
  <2>1. me' = [me EXCEPT !.spkp = FALSE] /\ upkeep' = [upkeep EXCEPT !.at = "topUp", !.val = FirstKeys]
    BY <1>1, <1>5 DEF commit
  <2>2. me' \in Identity
    BY <1>2, <2>1 DEF Identity
  <2>3. upkeep' \in Upkeeps /\ upkeep'.at = "topUp"
    BY <1>2, <2>1 DEF Upkeeps
  <2> QED
    BY <1>1, <1>2, <1>5, <2>1, <2>2, <2>3
<1>6. CASE upkeep.at = "saveOpks"
  <2>1. /\ me' = [me EXCEPT !.opks = v.opks, !.opkp = v.opkp]
        /\ upkeep' = [upkeep EXCEPT !.at = "postOpks", !.val = FirstKeys]
    BY <1>1, <1>6 DEF commit
  <2>2. me' \in Identity
    BY <1>2, <2>1 DEF Identity
  <2>3. upkeep' \in Upkeeps /\ upkeep'.at = "postOpks" /\ upkeep'.fresh = upkeep.fresh
    BY <1>2, <2>1 DEF Upkeeps
  <2> QED
    BY <1>1, <1>2, <1>6, <2>1, <2>2, <2>3
<1>7. CASE upkeep.at = "clearOpks"
  <2>1. me' = [me EXCEPT !.opkp = {}] /\ upkeep' = RunEnd
    BY <1>1, <1>7 DEF commit
  <2>2. me' \in Identity
    BY <1>2, <2>1 DEF Identity
  <2>3. upkeep' \in Upkeeps /\ upkeep'.at = IF lowPending THEN "topUp" ELSE "none"
    BY <2>1, RunsShape
  <2> QED
    BY <1>1, <1>2, <1>7, <2>1, <2>2, <2>3
<1> QED
  BY <1>2, <1>3, <1>4, <1>5, <1>6, <1>7 DEF Saves

\* What an upload puts on the server.
LEMMA PublishShape ==
  ASSUME KeyShape, Posting
  PROVE  /\ Publish \in [spk : AnySpk, opks : SUBSET (Nat \ {0})]
         /\ Publish.spk = IF upkeep.at = "postSpk" THEN me.spk ELSE srv.spk
         /\ Publish.opks = IF upkeep.at = "postSpk" THEN srv.opks ELSE srv.opks \cup upkeep.fresh
<1>1. /\ srv \in [spk : AnySpk, opks : SUBSET (Nat \ {0})] /\ me.spk \in AnySpk
      /\ upkeep.fresh \in SUBSET (Nat \ {0})
  BY DEF KeyShape, AnySpk, Identity, Upkeeps
<1>2. PICK p : p = [srv EXCEPT !.spk = me.spk]
  OBVIOUS
<1>3. p \in [spk : AnySpk, opks : SUBSET (Nat \ {0})] /\ p.spk = me.spk /\ p.opks = srv.opks
  BY <1>1, <1>2
<1>4. PICK q : q = [srv EXCEPT !.opks = srv.opks \cup upkeep.fresh]
  OBVIOUS
<1>5. /\ q \in [spk : AnySpk, opks : SUBSET (Nat \ {0})] /\ q.spk = srv.spk
      /\ q.opks = srv.opks \cup upkeep.fresh
  BY <1>1, <1>4
<1>6. Publish = IF upkeep.at = "postSpk" THEN p ELSE q
  BY <1>2, <1>4 DEF Publish
<1> QED
  BY <1>3, <1>5, <1>6

\* After an upload the mark that it is due is cleared; after a failure the run goes on.
LEMMA PublishEffect ==
  ASSUME KeyShape, PublishOk \/ PublishFails
  PROVE  /\ Posting /\ srv' \in {srv, Publish} /\ upkeep' \in Upkeeps
         /\ \/ upkeep'.at = "clearSpk" /\ upkeep'.val = [me EXCEPT !.spkp = FALSE]
            \/ upkeep'.at = "clearOpks" /\ upkeep'.val = [me EXCEPT !.opkp = {}]
            \/ upkeep'.at = "topUp"
            \/ upkeep'.at = "none" /\ ~lowPending
<1>1. me \in Identity /\ upkeep \in Upkeeps
  BY DEF KeyShape
<1>2. Posting /\ srv' \in {srv, Publish}
  BY DEF PublishOk, PublishFails
<1>3. PICK v : v = [me EXCEPT !.spkp = FALSE]
  OBVIOUS
<1>4. PICK w : w = [me EXCEPT !.opkp = {}]
  OBVIOUS
<1>5. v \in Identity /\ w \in Identity /\ FirstKeys \in Identity
  BY <1>1, <1>3, <1>4, FirstIsIdentity DEF Identity
<1>6. "clearSpk" \in Runs /\ "clearOpks" \in Runs /\ "topUp" \in Runs
  BY DEF Runs, Saves
<1>7. CASE PublishOk /\ upkeep.at = "postSpk"
  <2>1. upkeep' = [upkeep EXCEPT !.at = "clearSpk", !.val = v]
    BY <1>3, <1>7 DEF PublishOk
  <2>2. upkeep' \in Upkeeps /\ upkeep'.at = "clearSpk" /\ upkeep'.val = v
    BY <1>1, <1>5, <1>6, <2>1 DEF Upkeeps
  <2> QED
    BY <1>2, <1>3, <2>2
<1>8. CASE PublishOk /\ upkeep.at # "postSpk"
  <2>1. upkeep' = [upkeep EXCEPT !.at = "clearOpks", !.val = w]
    BY <1>4, <1>8 DEF PublishOk
  <2>2. upkeep' \in Upkeeps /\ upkeep'.at = "clearOpks" /\ upkeep'.val = w
    BY <1>1, <1>5, <1>6, <2>1 DEF Upkeeps
  <2> QED
    BY <1>2, <1>4, <2>2
<1>9. CASE PublishFails /\ upkeep.at = "postSpk"
  <2>1. upkeep' = [upkeep EXCEPT !.at = "topUp", !.val = FirstKeys]
    BY <1>9 DEF PublishFails
  <2>2. upkeep' \in Upkeeps /\ upkeep'.at = "topUp"
    BY <1>1, <1>5, <1>6, <2>1 DEF Upkeeps
  <2> QED
    BY <1>2, <2>2
<1>10. CASE PublishFails /\ upkeep.at # "postSpk"
  <2>1. upkeep' = RunEnd
    BY <1>10 DEF PublishFails
  <2>2. upkeep' \in Upkeeps /\ upkeep'.at = IF lowPending THEN "topUp" ELSE "none"
    BY <2>1, RunsShape
  <2>3. lowPending \in BOOLEAN
    BY DEF KeyShape
  <2> QED
    BY <1>2, <2>2, <2>3
<1> QED
  BY <1>7, <1>8, <1>9, <1>10

\* A peer takes the first one-time prekey there is.
LEMMA TakeEffect ==
  ASSUME KeyShape, take_one_time_prekey
  PROVE  \E o \in Nat :
            /\ o = 0 \/ o \in srv.opks
            /\ srv' = [srv EXCEPT !.opks = srv.opks \ {o}]
            /\ mail' = mail \cup {[spk |-> srv.spk, opk |-> o, at |-> clock]}
            /\ given' = given \cup ({o} \ {0}) /\ twice' = twice \cup ({o} \cap given)
            /\ \/ upkeep' = Started /\ lowPending' = TRUE
               \/ upkeep' = upkeep /\ lowPending' = lowPending
<1> DEFINE S == srv.opks
           least == CHOOSE o \in S : \A p \in S : o <= p
           opk == IF S = {} THEN 0 ELSE least
<1>1. S \subseteq Nat
  BY DEF KeyShape
<1>2. S # {} => least \in S
  <2>1. S # {} => \E n \in S : \A m \in S : n <= m
    BY ONLY <1>1, Least
  <2> QED
    BY <2>1
<1>3. opk \in Nat /\ (opk = 0 \/ opk \in S)
  BY <1>1, <1>2
<1>4. PICK o \in Nat : o = opk
  BY <1>3
<1>5. /\ srv' = [srv EXCEPT !.opks = srv.opks \ {o}]
      /\ mail' = mail \cup {[spk |-> srv.spk, opk |-> o, at |-> clock]}
      /\ given' = given \cup ({o} \ {0}) /\ twice' = twice \cup ({o} \cap given)
  BY <1>4 DEF take_one_time_prekey
<1>6. LET low == o # 0 /\ Cardinality(srv.opks) - 1 < LowWater
      IN lowPending' = (lowPending \/ low) /\ upkeep' = IF low THEN Started ELSE upkeep
  BY <1>4 DEF take_one_time_prekey
<1>7. \/ upkeep' = Started /\ lowPending' = TRUE
      \/ upkeep' = upkeep /\ lowPending' = lowPending
  BY <1>6 DEF KeyShape
<1> QED
  BY <1>3, <1>4, <1>5, <1>7

\* Every action keeps the shapes.
LEMMA KeyShapeStep == KeyShape /\ [PrekeyNext]_prekeyVars => KeyShape'
<1> SUFFICES ASSUME KeyShape, [PrekeyNext]_prekeyVars PROVE KeyShape'
  OBVIOUS
<1> DEFINE Checks(c) == c \in [at : {"none", "read", "write"}, reply : AnySpk, known : {c.known}, grew : {c.grew}]
<1>1. chances \in Nat /\ (PSpend => chances' \in Nat)
  BY DEF KeyShape, PSpend
<1>2. Checks(Replied)
  BY RunsShape DEF KeyShape
<1>3. NoSave \in [at : {"none", "saving"}, val : Identity] /\ Checks(NoCheck)
  BY FirstIsIdentity DEF NoSave, NoCheck, AnySpk
<1>4. CASE UNCHANGED prekeyVars
  BY <1>4 DEF prekeyVars, KeyShape
<1>5. CASE Period
  BY <1>5 DEF Period, KeyShape
<1>6. CASE Connect
  <2>1. upkeep' \in Upkeeps
    BY <1>6, RunsShape DEF Connect
  <2>2. Checks(check')
    BY <1>2, <1>6 DEF Connect, KeyShape
  <2> QED
    BY <1>6, <2>1, <2>2 DEF Connect, KeyShape
<1>7. CASE rotateSpkIfDue
  <2>1. upkeep' \in Upkeeps
    <3>1. PICK a \in {"postSpk", "topUp", "savePrev", "saveSpk"}, v \in Identity :
            upkeep' = [upkeep EXCEPT !.at = a, !.val = v]
      BY <1>7, RotateEffect
    <3>2. a \in Runs
      BY DEF Runs, Saves
    <3> QED
      BY <3>1, <3>2, UpkeepTo DEF KeyShape
  <2> QED
    BY <1>7, <2>1 DEF rotateSpkIfDue, KeyShape
<1>8. CASE replenishOpks
  <2>1. upkeep' \in Upkeeps
    BY <1>8, ReplenishEffect, RunsShape
  <2> QED
    BY <1>8, <2>1 DEF replenishOpks, KeyShape
<1>9. CASE commit
  <2>1. /\ me' \in Identity /\ saved' = upkeep.val /\ upkeep' \in Upkeeps
    BY <1>9, CommitEffect
  <2>2. upkeep.val \in Identity
    BY DEF KeyShape, Upkeeps
  <2>3. upkeep.val.spk \in Nat /\ upkeep.val.prev \subseteq Retired
    BY <2>2 DEF Identity
  <2>4. raced' \in BOOLEAN /\ made' \in Nat /\ retired' \subseteq Retired
    BY <1>9, <2>3 DEF commit, KeyShape
  <2> QED
    BY <1>9, <2>1, <2>2, <2>4 DEF commit, KeyShape
<1>10. CASE PublishOk \/ PublishFails
  <2>1. srv' \in [spk : AnySpk, opks : SUBSET (Nat \ {0})] /\ upkeep' \in Upkeeps
    BY <1>10, PublishEffect, PublishShape DEF KeyShape
  <2>2. chances' \in Nat /\ UNCHANGED <<mail, saved, me, lowPending, frame, check, answer, watch, clock, made,
                                        retired, given, twice, raced>>
    BY <1>1, <1>10 DEF PublishOk, PublishFails
  <2> QED
    BY <2>1, <2>2 DEF KeyShape
<1>11. CASE take_one_time_prekey
  <2>1. PICK o \in Nat :
            /\ srv' = [srv EXCEPT !.opks = srv.opks \ {o}]
            /\ mail' = mail \cup {[spk |-> srv.spk, opk |-> o, at |-> clock]}
            /\ \/ upkeep' = Started /\ lowPending' = TRUE
               \/ upkeep' = upkeep /\ lowPending' = lowPending
    BY <1>11, TakeEffect
  <2>2. srv' \in [spk : AnySpk, opks : SUBSET (Nat \ {0})] /\ mail' \subseteq [spk : AnySpk, opk : Nat, at : Nat]
    BY <2>1 DEF KeyShape
  <2>3. upkeep' \in Upkeeps /\ lowPending' \in BOOLEAN
    BY <2>1, RunsShape DEF KeyShape
  <2> QED
    BY <1>1, <1>11, <2>2, <2>3 DEF take_one_time_prekey, KeyShape
<1>12. ASSUME NEW m \in mail, ReceiveFirst(m) PROVE KeyShape'
  <2>1. PICK O \in Opks : O = me.opks \ {m.opk}
    BY OpksLess DEF KeyShape, Identity
  <2>2. me' = [me EXCEPT !.opks = O]
    BY <1>12, <2>1 DEF ReceiveFirst
  <2>3. me' \in Identity
    BY <2>2 DEF KeyShape, Identity
  <2>4. frame' \in [at : {"none", "saving"}, val : Identity]
    BY <1>12, <2>3 DEF ReceiveFirst, KeyShape
  <2> QED
    BY <1>12, <2>3, <2>4 DEF ReceiveFirst, KeyShape
<1>13. ASSUME NEW m \in mail, ReceiveLost(m) PROVE KeyShape'
  BY <1>13 DEF ReceiveLost, KeyShape
<1>14. CASE FrameSaved
  <2>1. upkeep' \in Upkeeps /\ raced' \in BOOLEAN
    BY <1>14, RunsShape DEF FrameSaved, KeyShape
  <2>2. saved' \in Identity /\ frame' \in [at : {"none", "saving"}, val : Identity]
    BY <1>3, <1>14 DEF FrameSaved, KeyShape
  <2> QED
    BY <1>14, <2>1, <2>2 DEF FrameSaved, KeyShape
<1>15. CASE ReloadPrekeys
  BY <1>1, <1>3, <1>15, RunsShape DEF ReloadPrekeys, KeyShape
<1>16. CASE RecoverElsewhere
  <2>1. srv' \in [spk : AnySpk, opks : SUBSET (Nat \ {0})]
    BY <1>16 DEF RecoverElsewhere, AnySpk
  <2> QED
    BY <1>1, <1>16, <2>1 DEF RecoverElsewhere, KeyShape
<1>17. CASE Renewal
  BY <1>2, <1>17 DEF Renewal, KeyShape
<1>18. CASE checkAccountKeys
  <2>1. Checks(check')
    BY <1>18 DEF checkAccountKeys, KeyShape
  <2> QED
    BY <1>18, <2>1 DEF checkAccountKeys, KeyShape
<1>19. CASE CheckWrite
  BY <1>3, <1>19 DEF CheckWrite, KeyShape
<1>20. CASE dismissKeyAlert
  BY <1>1, <1>20 DEF dismissKeyAlert, KeyShape
<1>21. CASE DismissPut \/ DismissClear
  BY <1>21 DEF DismissPut, DismissClear, KeyShape
<1> QED
  BY <1>4, <1>5, <1>6, <1>7, <1>8, <1>9, <1>10, <1>11, <1>12, <1>13, <1>14, <1>15, <1>16, <1>17, <1>18,
     <1>19, <1>20, <1>21 DEF PrekeyNext

(***************************************************************************)
(* What is saved is what is cached.                                        *)
(***************************************************************************)
\* The copy stays right as long as nothing it depends on changes, and while none is made.
LEMMA CopiedKept ==
  /\ Copied /\ UNCHANGED <<upkeep, me, clock>> => Copied'
  /\ upkeep'.at \notin Saves => Copied'
BY DEF Copied, Saves, retainSpks

\* An overlap is never forgotten.
LEMMA RacedStays == KeyShape /\ [PrekeyNext]_prekeyVars /\ ~raced' => ~raced
BY DEF KeyShape, PrekeyNext, prekeyVars, Period, Connect, rotateSpkIfDue, replenishOpks, commit, PublishOk,
       PublishFails, take_one_time_prekey, ReceiveFirst, ReceiveLost, FrameSaved, ReloadPrekeys,
       RecoverElsewhere, Renewal, checkAccountKeys, CheckWrite, dismissKeyAlert, DismissPut, DismissClear

\* A commit that meets no other save leaves the same in the database and in the cache.
LEMMA CommitAgrees ==
  ASSUME KeyShape, SavedInv, commit, ~raced'
  PROVE  /\ frame.at = "none" /\ frame' = frame /\ me = saved /\ Copied
         /\ me' = upkeep.val /\ saved' = upkeep.val
         /\ saved'.prev \subseteq retired' /\ retired \subseteq retired'
         /\ upkeep'.at \notin Saves
<1>1. frame.at = "none" /\ frame' = frame /\ me = saved /\ Copied
  BY DEF SavedInv, commit, KeyShape
<1>2. PICK v \in Identity : v = upkeep.val
  BY DEF KeyShape, Upkeeps
<1>3. saved' = v /\ upkeep.at \in Saves /\ me \in Identity /\ retired \subseteq retired'
  BY <1>2, CommitEffect DEF commit, KeyShape
<1>4. me.prev \subseteq retired
  BY <1>1 DEF SavedInv
<1>5. upkeep'.at \notin Saves
  BY CommitEffect DEF Saves
<1>6. CASE upkeep.at = "savePrev"
  <2>1. PICK p : p = retainSpks(me.prev)
    OBVIOUS
  <2>2. v = [me EXCEPT !.prev = p]
    BY <1>1, <1>2, <1>6, <2>1 DEF Copied
  <2>3. v.prev = p
    BY <1>3, <2>2 DEF Identity
  <2>4. me' = [me EXCEPT !.prev = v.prev]
    BY <1>2, <1>6, CommitEffect
  <2>5. p \subseteq retired
    BY <1>4, <2>1, Retained
  <2> QED
    BY <1>1, <1>2, <1>3, <1>5, <2>2, <2>3, <2>4, <2>5
<1>7. CASE upkeep.at = "saveSpk"
  <2>1. v = [me EXCEPT !.prev = v.prev, !.spk = v.spk, !.due = v.due, !.spkp = TRUE]
    BY <1>1, <1>2, <1>7 DEF Copied
  <2>2. me' = [me EXCEPT !.prev = v.prev, !.spk = v.spk, !.due = v.due, !.spkp = TRUE]
    BY <1>2, <1>7, CommitEffect
  <2>3. retired' = retired \cup v.prev
    BY <1>2, <1>7 DEF commit
  <2> QED
    BY <1>1, <1>2, <1>3, <1>5, <2>1, <2>2, <2>3
<1>8. CASE upkeep.at = "saveOpks"
  <2>1. v = [me EXCEPT !.opks = v.opks, !.opkp = v.opkp]
    BY <1>1, <1>2, <1>8 DEF Copied
  <2>2. me' = [me EXCEPT !.opks = v.opks, !.opkp = v.opkp]
    BY <1>2, <1>8, CommitEffect
  <2>3. v.prev = me.prev
    BY <1>3, <2>1 DEF Identity
  <2> QED
    BY <1>1, <1>2, <1>3, <1>4, <1>5, <2>1, <2>2, <2>3
<1>9. CASE upkeep.at = "clearSpk"
  <2>1. v = [me EXCEPT !.spkp = FALSE] /\ me' = [me EXCEPT !.spkp = FALSE]
    BY <1>1, <1>2, <1>9, CommitEffect DEF Copied
  <2>2. v.prev = me.prev
    BY <1>3, <2>1 DEF Identity
  <2> QED
    BY <1>1, <1>2, <1>3, <1>4, <1>5, <2>1, <2>2
<1>10. CASE upkeep.at = "clearOpks"
  <2>1. v = [me EXCEPT !.opkp = {}] /\ me' = [me EXCEPT !.opkp = {}]
    BY <1>1, <1>2, <1>10, CommitEffect DEF Copied
  <2>2. v.prev = me.prev
    BY <1>3, <2>1 DEF Identity
  <2> QED
    BY <1>1, <1>2, <1>3, <1>4, <1>5, <2>1, <2>2
<1> QED
  BY <1>3, <1>6, <1>7, <1>8, <1>9, <1>10 DEF Saves

\* SavedInv goes by these five alone.
LEMMA SavedKept ==
  ASSUME SavedInv, UNCHANGED <<saved, me, frame, retired>>, frame.at = "none" => Copied'
  PROVE  SavedInv'
BY DEF SavedInv

LEMMA SavedStep ==
  ASSUME KeyShape, KeyShape', SavedInv, [PrekeyNext]_prekeyVars, ~raced'
  PROVE  SavedInv'
<1> DEFINE Rest == UNCHANGED <<saved, me, frame, retired>>
<1>0. frame.at \in {"none", "saving"} /\ (frame.at = "none" => me = saved /\ Copied)
  BY DEF KeyShape, SavedInv
<1>1. ASSUME Rest, UNCHANGED <<upkeep, clock>> PROVE SavedInv'
  BY <1>0, <1>1, CopiedKept, SavedKept
<1>2. ASSUME Rest, upkeep'.at \notin Saves PROVE SavedInv'
  BY <1>2, CopiedKept, SavedKept
<1>3. "none" \notin Saves /\ "rotate" \notin Saves /\ "topUp" \notin Saves /\ "postOpks" \notin Saves
  BY DEF Saves
<1>4. CASE \/ UNCHANGED prekeyVars \/ RecoverElsewhere \/ Renewal \/ checkAccountKeys \/ CheckWrite
           \/ dismissKeyAlert \/ DismissPut \/ DismissClear \/ (\E m \in mail : ReceiveLost(m))
  <2>1. Rest /\ UNCHANGED <<upkeep, clock>>
    BY <1>4 DEF prekeyVars, RecoverElsewhere, Renewal, checkAccountKeys, CheckWrite, dismissKeyAlert,
                DismissPut, DismissClear, ReceiveLost
  <2> QED
    BY <1>1, <2>1
<1>5. CASE Period
  <2>1. Rest /\ upkeep' = upkeep /\ upkeep.at = "none"
    BY <1>5 DEF Period
  <2> QED
    BY <1>2, <1>3, <2>1
<1>6. CASE Connect
  <2>1. Rest /\ upkeep' = Started /\ upkeep.at = "none"
    BY <1>6 DEF Connect
  <2> QED
    BY <1>2, <1>3, <2>1, RunsShape
<1>7. CASE rotateSpkIfDue
  <2>1. Rest /\ clock' = clock
    BY <1>7 DEF rotateSpkIfDue
  <2>2. PICK a \in {"postSpk", "topUp", "savePrev", "saveSpk"}, v \in Identity :
            /\ upkeep' = [upkeep EXCEPT !.at = a, !.val = v]
            /\ a = "savePrev" => v = [me EXCEPT !.prev = retainSpks(me.prev)]
            /\ a = "saveSpk" => v = [me EXCEPT !.prev = retainSpks(me.prev \cup {[id |-> me.spk, at |-> clock]}),
                                               !.spk = made + 1, !.due = clock + 1, !.spkp = TRUE]
    BY <1>7, RotateEffect
  <2>3. a \in Runs
    BY DEF Runs, Saves
  <2>4. upkeep'.at = a /\ upkeep'.val = v
    <3>1. upkeep \in Upkeeps /\ upkeep' = [upkeep EXCEPT !.at = a, !.val = v]
      BY <2>2 DEF KeyShape
    <3> QED
      BY ONLY <2>3, <3>1, v \in Identity DEF Upkeeps
  <2>5. a = "savePrev" => v = ([me EXCEPT !.prev = retainSpks(me.prev)])'
    <3>1. retainSpks(me.prev) = (retainSpks(me.prev))'
      BY <2>1 DEF retainSpks
    <3> QED
      BY <2>1, <2>2, <3>1
  <2>6. ASSUME a = "saveSpk"
        PROVE  /\ v = [me' EXCEPT !.prev = v.prev, !.spk = v.spk, !.due = v.due, !.spkp = TRUE]
               /\ v.prev = (retainSpks(me.prev \cup {[id |-> me.spk, at |-> clock]}))'
    <3>1. PICK p : p = retainSpks(me.prev \cup {[id |-> me.spk, at |-> clock]})
      OBVIOUS
    <3>2. v = [me EXCEPT !.prev = p, !.spk = made + 1, !.due = clock + 1, !.spkp = TRUE]
      BY <2>2, <2>6, <3>1
    <3>3. v.prev = p /\ v.spk = made + 1 /\ v.due = clock + 1
      BY <3>2 DEF KeyShape, Identity
    <3>4. p = (retainSpks(me.prev \cup {[id |-> me.spk, at |-> clock]}))'
      BY <2>1, <3>1 DEF retainSpks
    <3> QED
      BY <2>1, <3>2, <3>3, <3>4
  <2>7. Copied'
    <3>1. a # "saveOpks" /\ a # "clearSpk" /\ a # "clearOpks"
      OBVIOUS
    <3> QED
      BY <2>4, <2>5, <2>6, <3>1 DEF Copied
  <2> QED
    BY <2>1, <2>7, SavedKept
<1>8. CASE replenishOpks
  <2>1. Rest
    BY <1>8 DEF replenishOpks
  <2>2. \/ upkeep'.at \notin Saves
        \/ /\ upkeep'.at = "saveOpks"
           /\ upkeep'.val = [me EXCEPT !.opks = me.opks \cup upkeep'.fresh, !.opkp = upkeep'.fresh]
           /\ upkeep'.val.opks = me.opks \cup upkeep'.fresh
           /\ upkeep'.val.opkp = upkeep'.fresh
    <3>1. CASE upkeep' = NoRun \/ upkeep'.at = "postOpks"
      BY <1>3, <3>1, RunsShape
    <3>2. CASE upkeep'.at = "saveOpks"
      <4>1. /\ upkeep'.val = [me EXCEPT !.opks = me.opks \cup upkeep'.fresh, !.opkp = upkeep'.fresh]
            /\ upkeep'.val.opks = me.opks \cup upkeep'.fresh
        BY <1>8, <3>2, ReplenishEffect, RunsShape
      <4>2. upkeep'.val.opkp = upkeep'.fresh
        BY <4>1 DEF KeyShape, Identity
      <4> QED
        BY <3>2, <4>1, <4>2
    <3> QED
      BY <1>8, <3>1, <3>2, ReplenishEffect
  <2>3. CASE upkeep'.at \notin Saves
    BY <1>2, <2>1, <2>3
  <2>4. CASE upkeep'.at = "saveOpks"
    <3>1. Copied'
      BY <1>3, <2>1, <2>2, <2>4 DEF Copied, Saves
    <3> QED
      BY <2>1, <3>1, SavedKept
  <2> QED
    BY <2>2, <2>3, <2>4
<1>9. CASE commit
  <2>1. /\ frame.at = "none" /\ frame' = frame /\ me' = saved' /\ saved'.prev \subseteq retired'
        /\ upkeep'.at \notin Saves
    BY <1>9, CommitAgrees
  <2>2. Copied'
    BY <2>1, CopiedKept
  <2> QED
    BY <2>1, <2>2 DEF SavedInv
<1>10. CASE PublishOk \/ PublishFails
  <2>1. Rest
    BY <1>10 DEF PublishOk, PublishFails
  <2>2. \/ upkeep'.at = "clearSpk" /\ upkeep'.val = [me EXCEPT !.spkp = FALSE]
        \/ upkeep'.at = "clearOpks" /\ upkeep'.val = [me EXCEPT !.opkp = {}]
        \/ upkeep'.at \notin Saves
    BY <1>3, <1>10, PublishEffect
  <2>3. Copied'
    BY <2>1, <2>2 DEF Copied, Saves
  <2> QED
    BY <2>1, <2>3, SavedKept
<1>11. CASE take_one_time_prekey
  <2>1. Rest /\ clock' = clock
    BY <1>11 DEF take_one_time_prekey
  <2>2. upkeep' = Started \/ upkeep' = upkeep
    BY <1>11, TakeEffect
  <2>3. upkeep' = upkeep \/ upkeep'.at \notin Saves
    BY <1>3, <2>2, RunsShape
  <2> QED
    BY <1>1, <1>2, <2>1, <2>3
<1>12. ASSUME NEW m \in mail, ReceiveFirst(m) PROVE SavedInv'
  <2>1. /\ frame.at = "none" /\ me = saved /\ Copied /\ me \in Identity
        /\ me' = [me EXCEPT !.opks = me.opks \ {m.opk}]
        /\ UNCHANGED <<saved, retired, upkeep, clock>>
    BY <1>0, <1>12 DEF ReceiveFirst, KeyShape
  <2>2. me'.opks = me.opks \ {m.opk}
    BY <2>1 DEF Identity
  <2>3. CASE m.opk = 0
    <3>1. me.opks \ {m.opk} = me.opks
      BY <2>1, <2>3 DEF Identity, Opks
    <3>2. me' = me
      BY <2>1, <3>1 DEF Identity
    <3>3. frame' = frame
      BY <1>12, <2>3 DEF ReceiveFirst
    <3> QED
      BY <1>1, <2>1, <3>2, <3>3
  <2>4. CASE m.opk # 0
    <3>1. frame' = [at |-> "saving", val |-> me']
      BY <1>12, <2>4 DEF ReceiveFirst
    <3>2. me' = [saved' EXCEPT !.opks = me'.opks] /\ me'.opks \subseteq saved'.opks
      BY <2>1, <2>2
    <3> QED
      BY <2>1, <3>1, <3>2 DEF SavedInv
  <2> QED
    BY <2>3, <2>4
<1>13. CASE FrameSaved
  <2>1. /\ frame.at = "saving" /\ saved' = frame.val /\ me' = me /\ retired' = retired /\ frame' = NoSave
        /\ upkeep.at \notin Saves /\ upkeep' \in {Started, upkeep}
    BY <1>13 DEF FrameSaved, Saves
  <2>2. frame.val = me /\ me = [saved EXCEPT !.opks = me.opks] /\ saved.prev \subseteq retired
    BY <2>1 DEF SavedInv
  <2>3. me.prev \subseteq retired
    BY <2>2 DEF KeyShape, Identity
  <2>4. frame'.at = "none"
    BY <2>1 DEF NoSave
  <2>5. upkeep'.at \notin Saves
    BY <1>3, <2>1, RunsShape
  <2>6. Copied'
    BY <2>5, CopiedKept
  <2> QED
    BY <2>1, <2>2, <2>3, <2>4, <2>6 DEF SavedInv
<1>14. CASE ReloadPrekeys
  <2>1. me' = saved /\ UNCHANGED <<saved, retired>> /\ upkeep' = NoRun /\ frame' = NoSave
    BY <1>14 DEF ReloadPrekeys
  <2>2. frame'.at = "none" /\ upkeep'.at \notin Saves
    BY <1>3, <2>1, RunsShape DEF NoSave
  <2>3. Copied'
    BY <2>2, CopiedKept
  <2> QED
    BY <2>1, <2>2, <2>3 DEF SavedInv
<1> QED
  BY <1>4, <1>5, <1>6, <1>7, <1>8, <1>9, <1>10, <1>11, <1>12, <1>13, <1>14 DEF PrekeyNext

(***************************************************************************)
(* One-time prekeys.                                                       *)
(***************************************************************************)
\* More held, fewer published and fewer queued, nothing less handed out.
LEMMA OpkKept ==
  ASSUME OpkInv, srv'.opks \subseteq srv.opks, mail' \subseteq mail, given' = given, twice' = twice,
         me.opks \subseteq me'.opks, upkeep'.at = "postOpks" => upkeep'.fresh \ given \subseteq me'.opks
  PROVE  OpkInv'
BY DEF OpkInv

LEMMA OpkStep ==
  ASSUME KeyShape, SavedInv, OpkInv, [PrekeyNext]_prekeyVars, ~raced'
  PROVE  OpkInv'
<1>0. upkeep.at = "postOpks" => upkeep.fresh \ given \subseteq me.opks
  BY DEF OpkInv
<1>1. CASE \/ UNCHANGED prekeyVars \/ Renewal \/ checkAccountKeys \/ CheckWrite
           \/ dismissKeyAlert \/ DismissPut \/ DismissClear
  <2>1. UNCHANGED <<srv, mail, given, twice, me, upkeep>>
    BY <1>1 DEF prekeyVars, Renewal, checkAccountKeys, CheckWrite, dismissKeyAlert, DismissPut, DismissClear
  <2> QED
    BY <1>0, <2>1, OpkKept
<1>2. CASE Period \/ (\E m \in mail : ReceiveLost(m))
  <2>1. UNCHANGED <<srv, given, twice, me, upkeep>> /\ mail' \subseteq mail
    BY <1>2 DEF Period, ReceiveLost
  <2> QED
    BY <1>0, <2>1, OpkKept
<1>3. CASE RecoverElsewhere
  <2>1. UNCHANGED <<mail, given, twice, me, upkeep>> /\ srv'.opks = {}
    BY <1>3 DEF RecoverElsewhere
  <2> QED
    BY <1>0, <2>1, OpkKept
<1>4. CASE Connect \/ FrameSaved
  <2>1. UNCHANGED <<srv, mail, given, twice, me>> /\ upkeep' \in {Started, upkeep}
    BY <1>4 DEF Connect, FrameSaved
  <2>2. upkeep' = upkeep \/ upkeep'.at = "rotate"
    BY <2>1, RunsShape
  <2> QED
    BY <1>0, <2>1, <2>2, OpkKept
<1>5. CASE rotateSpkIfDue
  <2>1. UNCHANGED <<srv, mail, given, twice, me>>
    BY <1>5 DEF rotateSpkIfDue
  <2>2. PICK a \in {"postSpk", "topUp", "savePrev", "saveSpk"}, v \in Identity :
            upkeep' = [upkeep EXCEPT !.at = a, !.val = v]
    BY <1>5, RotateEffect
  <2>3. upkeep \in Upkeeps
    BY DEF KeyShape
  <2>4. upkeep'.at = a
    BY ONLY <2>2, <2>3 DEF Upkeeps
  <2> QED
    BY <2>1, <2>4, OpkKept
<1>6. CASE replenishOpks
  <2>1. UNCHANGED <<srv, mail, given, twice, me>>
    BY <1>6 DEF replenishOpks
  <2>2. upkeep'.at = "postOpks" => upkeep'.fresh \ given \subseteq me'.opks
    BY <1>6, <2>1, ReplenishEffect, RunsShape
  <2> QED
    BY <2>1, <2>2, OpkKept
<1>7. CASE commit
  <2>1. UNCHANGED <<srv, mail, given, twice>>
    BY <1>7 DEF commit
  <2>2. PICK v \in Identity : v = upkeep.val
    BY DEF KeyShape, Upkeeps
  <2>3. me' = v /\ Copied /\ me \in Identity /\ upkeep.at \in Saves
    BY <1>7, <2>2, CommitAgrees, CommitEffect DEF KeyShape
  <2>4. CASE upkeep.at = "saveOpks"
    <3>1. me'.opks = me.opks \cup upkeep.fresh
      BY <2>2, <2>3, <2>4 DEF Copied
    <3>2. upkeep'.fresh = upkeep.fresh
      BY <1>7, <2>4, CommitEffect
    <3> QED
      BY <2>1, <3>1, <3>2, OpkKept
  <2>5. CASE upkeep.at # "saveOpks"
    <3>1. v.opks = me.opks
      <4>1. PICK p : p = retainSpks(me.prev)
        OBVIOUS
      <4>2. \/ v = [me EXCEPT !.prev = p]
            \/ v = [me EXCEPT !.prev = v.prev, !.spk = v.spk, !.due = v.due, !.spkp = TRUE]
            \/ v = [me EXCEPT !.spkp = FALSE] \/ v = [me EXCEPT !.opkp = {}]
        BY <2>2, <2>3, <2>5, <4>1 DEF Copied, Saves
      <4> QED
        BY <2>3, <4>2 DEF Identity
    <3>2. upkeep'.at # "postOpks"
      BY <1>7, <2>3, <2>5, CommitEffect DEF Saves
    <3> QED
      BY <2>1, <2>3, <3>1, <3>2, OpkKept
  <2> QED
    BY <2>4, <2>5
<1>8. CASE PublishOk \/ PublishFails
  <2>1. UNCHANGED <<mail, given, twice, me>>
    BY <1>8 DEF PublishOk, PublishFails
  <2>2. upkeep'.at # "postOpks" /\ Posting /\ srv' \in {srv, Publish}
    BY <1>8, PublishEffect
  <2>3. srv'.opks \subseteq srv.opks \cup (IF upkeep.at = "postSpk" THEN {} ELSE upkeep.fresh)
    BY <2>2, PublishShape
  <2>4. srv'.opks \ given \subseteq me.opks
    BY <1>0, <2>2, <2>3 DEF OpkInv, Posting
  <2> QED
    BY <2>1, <2>2, <2>4 DEF OpkInv
<1>9. CASE take_one_time_prekey
  <2>1. PICK o \in Nat :
            /\ o = 0 \/ o \in srv.opks
            /\ srv' = [srv EXCEPT !.opks = srv.opks \ {o}]
            /\ mail' = mail \cup {[spk |-> srv.spk, opk |-> o, at |-> clock]}
            /\ given' = given \cup ({o} \ {0}) /\ twice' = twice \cup ({o} \cap given)
            /\ \/ upkeep' = Started /\ lowPending' = TRUE
               \/ upkeep' = upkeep /\ lowPending' = lowPending
    BY <1>9, TakeEffect
  <2>2. me' = me
    BY <1>9 DEF take_one_time_prekey
  <2>3. upkeep'.at = "postOpks" => upkeep'.fresh \ given' \subseteq me'.opks
    BY <1>0, <2>1, <2>2, RunsShape
  <2>4. srv'.opks \ given' \subseteq me'.opks
    BY <2>1, <2>2 DEF OpkInv, KeyShape
  <2>5. PICK n : n = [spk |-> srv.spk, opk |-> o, at |-> clock]
    OBVIOUS
  <2>6. n.opk = o /\ mail' = mail \cup {n}
    BY <2>1, <2>5
  <2>7. \A m \in mail : m.opk \in {0} \cup given /\ m.opk \in {0} \cup twice \cup me.opks
    BY DEF OpkInv
  <2>8. o \in {0} \cup twice' \cup me'.opks
    BY <2>1, <2>2 DEF OpkInv
  <2>9. \A m \in mail : m.opk = o => o \in {0} \cup twice'
    BY <2>1, <2>7
  <2>10. \A m \in mail' : m.opk \in {0} \cup given' /\ m.opk \in {0} \cup twice' \cup me'.opks
    BY <2>1, <2>2, <2>6, <2>7, <2>8
  <2>11. \A m, k \in mail' : m.opk = k.opk /\ m # k => m.opk \in {0} \cup twice'
    BY <2>1, <2>6, <2>9 DEF OpkInv
  <2> QED
    BY <2>3, <2>4, <2>10, <2>11 DEF OpkInv
<1>10. ASSUME NEW m \in mail, ReceiveFirst(m) PROVE OpkInv'
  <2>1. /\ UNCHANGED <<srv, given, twice, upkeep>> /\ mail' = mail \ {m}
        /\ me' = [me EXCEPT !.opks = me.opks \ {m.opk}]
    BY <1>10 DEF ReceiveFirst
  <2>2. me'.opks = me.opks \ {m.opk}
    BY <2>1 DEF KeyShape, Identity
  <2>3. m.opk \in {0} \cup given /\ 0 \notin srv.opks /\ 0 \notin upkeep.fresh
    BY DEF OpkInv, KeyShape, Upkeeps
  <2>4. \A n \in mail' : n.opk = m.opk => n.opk \in {0} \cup twice
    BY <2>1 DEF OpkInv
  <2>5. \A n \in mail' : n.opk \in {0} \cup given' /\ n.opk \in {0} \cup twice' \cup me'.opks
    BY <2>1, <2>2, <2>4 DEF OpkInv
  <2>6. srv'.opks \ given' \subseteq me'.opks
    BY <2>1, <2>2, <2>3 DEF OpkInv
  <2>7. upkeep'.at = "postOpks" => upkeep'.fresh \ given' \subseteq me'.opks
    BY <1>0, <2>1, <2>2, <2>3
  <2>8. \A n, k \in mail' : n.opk = k.opk /\ n # k => n.opk \in {0} \cup twice'
    BY <2>1 DEF OpkInv
  <2> QED
    BY <2>5, <2>6, <2>7, <2>8 DEF OpkInv
<1>11. CASE ReloadPrekeys
  <2>1. UNCHANGED <<srv, mail, given, twice>> /\ me' = saved /\ upkeep' = NoRun
    BY <1>11 DEF ReloadPrekeys
  <2>2. me.opks \subseteq saved.opks
    BY DEF SavedInv, KeyShape
  <2> QED
    BY <2>1, <2>2, RunsShape, OpkKept
<1> QED
  BY <1>1, <1>2, <1>3, <1>4, <1>5, <1>6, <1>7, <1>8, <1>9, <1>10, <1>11 DEF PrekeyNext

(***************************************************************************)
(* Signed prekeys.                                                         *)
(***************************************************************************)
\* A step after which a signed prekey that is no longer saved is long retired.
Keeps ==
    /\ clock' \in Nat /\ clock <= clock' /\ retired \subseteq retired'
    /\ \A x \in Spks(saved) : x \in Spks(saved') \/ Gone(x)'

\* What was no surprise stays none, and a message that was held stays so while queued.
LEMMA OursKept ==
  ASSUME KeyShape, Keeps
  PROVE  /\ \A x : Gone(x) => Gone(x)'
         /\ \A x : Ours(x) => Ours(x)'
         /\ \A m \in [spk : AnySpk, opk : Nat, at : Nat] :
                Held(m) /\ retired' \subseteq Retired /\ clock' < m.at + Lifetime => Held(m)'
<1>1. \A x : Gone(x) => Gone(x)'
  <2> SUFFICES ASSUME NEW x, Gone(x) PROVE Gone(x)'
    OBVIOUS
  <2>1. PICK k \in retired : k.id = x /\ clock - k.at >= Lifetime
    BY DEF Gone
  <2>2. k \in retired' /\ k.at \in Nat /\ clock \in Nat /\ clock' \in Nat /\ clock <= clock'
    BY DEF Keeps, KeyShape, Retired
  <2>3. clock' - k.at >= Lifetime
    BY <2>1, <2>2 DEF Lifetime
  <2> QED
    BY <2>1, <2>2, <2>3 DEF Gone
<1>2. \A x : Ours(x) => Ours(x)'
  BY <1>1 DEF Ours, Keeps, Foreign
<1>3. ASSUME NEW m \in [spk : AnySpk, opk : Nat, at : Nat], Held(m), retired' \subseteq Retired,
             clock' < m.at + Lifetime
      PROVE  Held(m)'
  <2>1. CASE m.spk \in Foreign
    BY <2>1 DEF Held, Foreign
  <2>2. CASE m.spk \in Spks(saved)
    <3>1. CASE m.spk \in Spks(saved')
      BY <3>1 DEF Held
    <3>2. CASE Gone(m.spk)'
      <4>1. PICK k \in retired' : k.id = m.spk /\ clock' - k.at >= Lifetime
        BY <3>2 DEF Gone
      <4>2. k.at \in Nat /\ m.at \in Nat /\ clock' \in Nat
        BY <1>3 DEF Retired, Keeps
      <4>3. m.at > k.at
        BY <1>3, <4>1, <4>2 DEF Lifetime
      <4> QED
        BY <4>1, <4>3 DEF Held
    <3> QED
      BY <2>2, <3>1, <3>2 DEF Keeps
  <2>3. CASE \E k \in retired : k.id = m.spk /\ m.at > k.at
    BY <2>3 DEF Held, Keeps
  <2> QED
    BY <1>3, <2>1, <2>2, <2>3 DEF Held
<1> QED
  BY <1>1, <1>2, <1>3

\* The cached signed prekeys are the saved ones.
LEMMA SameSpks == ASSUME KeyShape, SavedInv PROVE me.spk = saved.spk /\ me.prev = saved.prev
BY DEF KeyShape, SavedInv, Identity

\* Forgetting retired keys, or retiring one, loses none that a queued message may name.
LEMMA CommitKeeps == ASSUME KeyShape, SavedInv, commit, ~raced' PROVE Keeps
<1>1. PICK v \in Identity : v = upkeep.val
  BY DEF KeyShape, Upkeeps
<1>2. /\ me = saved /\ Copied /\ saved' = v /\ retired \subseteq retired' /\ clock' = clock /\ clock \in Nat
      /\ me \in Identity /\ upkeep.at \in Saves /\ me.prev \subseteq retired /\ me.prev \subseteq Retired
  BY <1>1, CommitAgrees, CommitEffect DEF commit, KeyShape, SavedInv, Identity
<1>3. \A k \in me.prev : k \in retainSpks(me.prev) \/ Gone(k.id)'
  <2> SUFFICES ASSUME NEW k \in me.prev, k \notin retainSpks(me.prev) PROVE Gone(k.id)'
    OBVIOUS
  <2>1. ~(clock - k.at < Lifetime) /\ k.at \in Nat /\ k \in retired'
    BY <1>2 DEF retainSpks, Retired
  <2>2. clock' - k.at >= Lifetime
    BY <1>2, <2>1 DEF Lifetime
  <2> QED
    BY <2>1, <2>2 DEF Gone
<1>4. CASE upkeep.at = "savePrev"
  <2>1. PICK p : p = retainSpks(me.prev)
    OBVIOUS
  <2>2. v = [me EXCEPT !.prev = p]
    BY <1>1, <1>2, <1>4, <2>1 DEF Copied
  <2>3. v.prev = p /\ v.spk = me.spk
    BY <1>2, <2>2 DEF Identity
  <2> QED
    BY <1>2, <1>3, <2>1, <2>3 DEF Keeps, Spks
<1>5. CASE upkeep.at = "saveSpk"
  <2>1. PICK old : old = [id |-> me.spk, at |-> clock]
    OBVIOUS
  <2>2. v.prev = retainSpks(me.prev \cup {old})
    BY <1>1, <1>2, <1>5, <2>1 DEF Copied
  <2>3. old \in v.prev /\ old.id = me.spk
    BY <1>2, <2>1, <2>2 DEF retainSpks, Lifetime
  <2>4. retainSpks(me.prev) \subseteq v.prev
    BY <2>2 DEF retainSpks
  <2> QED
    BY <1>2, <1>3, <2>3, <2>4 DEF Keeps, Spks
<1>6. CASE upkeep.at \in {"saveOpks", "clearSpk", "clearOpks"}
  <2>1. \/ v = [me EXCEPT !.opks = v.opks, !.opkp = v.opkp]
        \/ v = [me EXCEPT !.spkp = FALSE] \/ v = [me EXCEPT !.opkp = {}]
    BY <1>1, <1>2, <1>6 DEF Copied
  <2>2. v.prev = me.prev /\ v.spk = me.spk
    BY <1>2, <2>1 DEF Identity
  <2> QED
    BY <1>2, <2>2 DEF Keeps, Spks
<1> QED
  BY <1>2, <1>4, <1>5, <1>6 DEF Saves

LEMMA StepKeeps == ASSUME KeyShape, SavedInv, [PrekeyNext]_prekeyVars, ~raced' PROVE Keeps
<1>0. clock \in Nat
  BY DEF KeyShape
<1>1. CASE UNCHANGED <<saved, retired>> /\ clock' \in {clock, clock + 1}
  BY <1>0, <1>1 DEF Keeps
<1>2. CASE FrameSaved
  <2>1. frame.val = me /\ saved' = me /\ UNCHANGED <<clock, retired>>
    BY <1>2 DEF FrameSaved, SavedInv
  <2>2. Spks(saved') = Spks(saved)
    BY <2>1, SameSpks DEF Spks
  <2> QED
    BY <1>0, <2>1, <2>2 DEF Keeps
<1>3. CASE commit
  BY <1>3, CommitKeeps
<1> QED
  BY <1>1, <1>2, <1>3
  DEF PrekeyNext, prekeyVars, Period, Connect, rotateSpkIfDue, replenishOpks, PublishOk, PublishFails,
      take_one_time_prekey, ReceiveFirst, ReceiveLost, ReloadPrekeys, RecoverElsewhere, Renewal,
      checkAccountKeys, CheckWrite, dismissKeyAlert, DismissPut, DismissClear

\* Expired messages leave the queue as the clock advances.
LEMMA QueueStep == ASSUME KeyShape, QueueInv, [PrekeyNext]_prekeyVars PROVE QueueInv'
<1>1. ASSUME mail' \subseteq mail, clock' = clock PROVE QueueInv'
  BY <1>1 DEF QueueInv
<1>2. CASE Period
  <2>1. clock' = clock + 1 /\ mail' = {m \in mail : clock' < m.at + Lifetime} /\ clock \in Nat
    BY <1>2 DEF Period, KeyShape
  <2>2. \A m \in mail : m.at \in Nat /\ m.at <= clock'
    BY <2>1 DEF QueueInv, KeyShape
  <2> QED
    BY <2>1, <2>2 DEF QueueInv
<1>3. CASE take_one_time_prekey
  <2>1. PICK o \in Nat : mail' = mail \cup {[spk |-> srv.spk, opk |-> o, at |-> clock]}
    BY <1>3, TakeEffect
  <2>2. PICK n : n = [spk |-> srv.spk, opk |-> o, at |-> clock]
    OBVIOUS
  <2>3. clock' = clock /\ clock \in Nat /\ n.at = clock /\ mail' = mail \cup {n}
    BY <1>3, <2>1, <2>2 DEF take_one_time_prekey, KeyShape
  <2>4. n.at <= clock' /\ clock' < n.at + Lifetime
    BY <2>3 DEF Lifetime
  <2> QED
    BY <2>3, <2>4 DEF QueueInv
<1> QED
  BY <1>1, <1>2, <1>3
  DEF PrekeyNext, prekeyVars, Connect, rotateSpkIfDue, replenishOpks, commit, PublishOk, PublishFails,
      FrameSaved, ReceiveFirst, ReceiveLost, ReloadPrekeys, RecoverElsewhere, Renewal, checkAccountKeys,
      CheckWrite, dismissKeyAlert, DismissPut, DismissClear

LEMMA SpkStep ==
  ASSUME KeyShape, KeyShape', SavedInv, SavedInv', SpkInv, QueueInv, QueueInv',
         [PrekeyNext]_prekeyVars, ~raced'
  PROVE  SpkInv'
<1> DEFINE Mail == mail' \subseteq mail
           Asked == check' = check \/ check'.at = "none" \/ (check'.at = "read" /\ check'.reply = srv.spk)
<1>1. Keeps /\ clock' \in Nat /\ retired' \subseteq Retired
  BY StepKeeps DEF KeyShape
<1>2. \A x : (Gone(x) => Gone(x)') /\ (Ours(x) => Ours(x)')
  BY <1>1, OursKept
<1>3. \A m \in mail : m \in mail' => Held(m)'
  <2> SUFFICES ASSUME NEW m \in mail, m \in mail' PROVE Held(m)'
    OBVIOUS
  <2>1. Held(m) /\ m \in [spk : AnySpk, opk : Nat, at : Nat] /\ clock' < m.at + Lifetime
    BY DEF SpkInv, KeyShape, QueueInv
  <2> QED
    BY <1>1, <2>1, OursKept
<1>4. Ours(srv.spk)' \/ srv' # srv
  BY <1>2 DEF SpkInv
<1>5. ASSUME Ours(srv.spk)', Mail, Asked PROVE SpkInv'
  <2>1. \A m \in mail' : Held(m)'
    BY <1>3, <1>5
  <2>2. check'.at = "read" => Ours(check.reply)'
    <3>1. CASE check' = check
      BY <1>2, <3>1 DEF SpkInv
    <3>2. CASE check'.at = "none"
      BY <3>2
    <3>3. CASE check'.at = "read" /\ check'.reply = srv.spk
      <4>1. Ours(srv.spk)
        BY DEF SpkInv
      <4>2. PICK r : r = srv.spk
        OBVIOUS
      <4>3. Ours(r)' /\ check'.reply = r
        BY <1>2, <3>3, <4>1, <4>2
      <4> QED
        BY <4>3 DEF Ours, Gone
    <3> QED
      BY <1>5, <3>1, <3>2, <3>3
  <2>3. check'.at = "write" => check'.reply \in Foreign' \cup check'.known \/ Gone(check.reply)'
    <3>1. ASSUME check' = check, check.at = "write"
          PROVE  check'.reply \in Foreign' \cup check'.known \/ Gone(check.reply)'
      <4>1. PICK r : r = check.reply
        OBVIOUS
      <4>2. r \in Foreign \cup check.known \/ Gone(r)
        BY <3>1, <4>1 DEF SpkInv
      <4>3. r \in Foreign \cup check.known \/ Gone(r)'
        BY <1>2, <4>2
      <4> QED
        BY <3>1, <4>1, <4>3 DEF Gone, Foreign
    <3> QED
      BY <1>5, <3>1
  <2> QED
    BY <1>5, <2>1, <2>2, <2>3 DEF SpkInv
<1>6. CASE \/ UNCHANGED prekeyVars \/ Period \/ Connect \/ rotateSpkIfDue \/ replenishOpks \/ commit
           \/ FrameSaved \/ ReloadPrekeys \/ Renewal \/ CheckWrite \/ dismissKeyAlert \/ DismissPut
           \/ DismissClear \/ (\E m \in mail : ReceiveFirst(m) \/ ReceiveLost(m))
  <2>1. srv' = srv /\ Mail
    BY <1>6 DEF prekeyVars, Period, Connect, rotateSpkIfDue, replenishOpks, commit, FrameSaved, ReloadPrekeys,
                Renewal, CheckWrite, dismissKeyAlert, DismissPut, DismissClear, ReceiveFirst, ReceiveLost
  <2>2. check' = check \/ check' = Replied \/ check' = NoCheck
    BY <1>6 DEF prekeyVars, Period, Connect, rotateSpkIfDue, replenishOpks, commit, FrameSaved, ReloadPrekeys,
                Renewal, CheckWrite, dismissKeyAlert, DismissPut, DismissClear, ReceiveFirst, ReceiveLost
  <2>3. Asked
    BY <2>2, RunsShape DEF NoCheck
  <2> QED
    BY <1>4, <1>5, <2>1, <2>3
<1>7. CASE PublishOk \/ PublishFails
  <2>1. Mail /\ Asked /\ UNCHANGED <<saved, me>>
    BY <1>7 DEF PublishOk, PublishFails
  <2>2. srv'.spk \in {srv.spk, me.spk}
    BY <1>7, PublishEffect, PublishShape
  <2>3. Ours(me.spk)'
    BY <2>1, SameSpks DEF Ours, Spks
  <2>4. PICK r \in {srv.spk, me.spk} : r = srv'.spk
    BY <2>2
  <2>5. Ours(r)'
    <3>1. Ours(srv.spk)
      BY DEF SpkInv
    <3>2. Ours(me.spk)
      BY SameSpks DEF Ours, Spks
    <3> QED
      BY <1>2, <3>1, <3>2
  <2>6. Ours(srv.spk)'
    BY <2>4, <2>5 DEF Ours, Gone
  <2> QED
    BY <1>5, <2>1, <2>6
<1>8. CASE RecoverElsewhere
  <2>1. Mail /\ Asked /\ srv'.spk \in Foreign
    BY <1>8 DEF RecoverElsewhere
  <2>2. Ours(srv.spk)'
    BY <2>1 DEF Ours, Foreign
  <2> QED
    BY <1>5, <2>1, <2>2
<1>9. CASE take_one_time_prekey
  <2>1. PICK o \in Nat : /\ mail' = mail \cup {[spk |-> srv.spk, opk |-> o, at |-> clock]}
                         /\ srv' = [srv EXCEPT !.opks = srv.opks \ {o}]
    BY <1>9, TakeEffect
  <2>2. UNCHANGED <<check, saved, retired, clock>>
    BY <1>9 DEF take_one_time_prekey
  <2>3. PICK n : n = [spk |-> srv.spk, opk |-> o, at |-> clock]
    OBVIOUS
  <2>4. n.spk = srv.spk /\ n.at = clock /\ mail' = mail \cup {n} /\ srv'.spk = srv.spk
    BY <2>1, <2>3 DEF KeyShape
  <2>5. Held(n)
    <3>1. Ours(n.spk) /\ clock \in Nat
      BY <2>4 DEF SpkInv, KeyShape
    <3>2. CASE Gone(n.spk)
      <4>1. PICK k \in retired : k.id = n.spk /\ clock - k.at >= Lifetime
        BY <3>2 DEF Gone
      <4>2. k.at \in Nat
        BY DEF KeyShape, Retired
      <4>3. n.at > k.at
        BY <2>4, <3>1, <4>1, <4>2 DEF Lifetime
      <4> QED
        BY <4>1, <4>3 DEF Held
    <3> QED
      BY <3>1, <3>2 DEF Ours, Held
  <2>6. Held(n)'
    BY <2>2, <2>5 DEF Held, Foreign
  <2>7. \A m \in mail' : Held(m)'
    BY <1>3, <2>4, <2>6
  <2>8. Ours(srv.spk)' /\ (check'.at = "read" => Ours(check.reply)')
    BY <2>2, <2>4 DEF SpkInv, Ours, Gone, Foreign
  <2>9. (check.at = "write" => check.reply \in Foreign \cup check.known \/ Gone(check.reply))'
    BY <2>2 DEF SpkInv, Gone, Foreign
  <2> QED
    BY <2>7, <2>8, <2>9 DEF SpkInv
<1>10. CASE checkAccountKeys
  <2>1. /\ check.at = "read" /\ Mail /\ UNCHANGED <<srv, saved, retired, clock>>
        /\ check' = [check EXCEPT !.at = "write", !.known = watch.known \cup Spks(saved),
                                  !.grew = ~(Spks(saved) \subseteq watch.known)]
    BY <1>10 DEF checkAccountKeys
  <2>2. check'.at = "write" /\ check'.reply = check.reply /\ check'.known = watch.known \cup Spks(saved)
    BY <2>1 DEF KeyShape
  <2>3. Ours(check.reply)
    BY <2>1 DEF SpkInv
  <2>4. (check.reply \in Foreign \cup check.known \/ Gone(check.reply))'
    BY <2>1, <2>2, <2>3 DEF Ours, Gone, Foreign
  <2>5. Ours(srv.spk)' /\ \A m \in mail' : Held(m)'
    BY <1>3, <1>4, <2>1
  <2> QED
    BY <2>2, <2>4, <2>5 DEF SpkInv
<1> QED
  BY <1>6, <1>7, <1>8, <1>9, <1>10 DEF PrekeyNext

\* A run that ends looks at the low signal first.
LEMMA LowStep == ASSUME KeyShape, LowRemembered, [PrekeyNext]_prekeyVars PROVE LowRemembered'
<1>1. CASE UNCHANGED <<lowPending, upkeep>>
  BY <1>1 DEF LowRemembered
<1>2. CASE upkeep' = Started /\ lowPending' \in {TRUE, lowPending}
  BY <1>2, RunsShape DEF LowRemembered
<1>3. CASE lowPending' = FALSE
  BY <1>3 DEF LowRemembered
<1>4. CASE rotateSpkIfDue
  <2>1. PICK a \in {"postSpk", "topUp", "savePrev", "saveSpk"}, v \in Identity :
            upkeep' = [upkeep EXCEPT !.at = a, !.val = v]
    BY <1>4, RotateEffect
  <2>2. upkeep \in Upkeeps
    BY DEF KeyShape
  <2>3. upkeep'.at = a
    BY ONLY <2>1, <2>2 DEF Upkeeps
  <2> QED
    BY <2>3 DEF LowRemembered
<1>5. CASE commit
  <2>1. lowPending' = lowPending /\ (lowPending => upkeep'.at # "none")
    BY <1>5, CommitEffect DEF commit, Saves
  <2> QED
    BY <2>1 DEF LowRemembered
<1>6. CASE PublishOk \/ PublishFails
  <2>1. lowPending' = lowPending /\ (lowPending => upkeep'.at # "none")
    BY <1>6, PublishEffect DEF PublishOk, PublishFails
  <2> QED
    BY <2>1 DEF LowRemembered
<1>7. CASE take_one_time_prekey
  BY <1>1, <1>2, <1>7, TakeEffect
<1>8. CASE Connect \/ FrameSaved
  BY <1>1, <1>2, <1>8 DEF Connect, FrameSaved
<1> QED
  BY <1>1, <1>3, <1>4, <1>5, <1>6, <1>7, <1>8
  DEF PrekeyNext, prekeyVars, Period, replenishOpks, ReceiveFirst, ReceiveLost, ReloadPrekeys, RecoverElsewhere,
      Renewal, checkAccountKeys, CheckWrite, dismissKeyAlert, DismissPut, DismissClear

\* The alert is raised for a reply that is no key of our own, and a key that was long
\* retired stays so.
LEMMA AlertStep ==
  ASSUME KeyShape, ~raced => SavedInv /\ SpkInv, NoFalseAlert, [PrekeyNext]_prekeyVars
  PROVE  NoFalseAlert'
<1> SUFFICES ASSUME ~raced' PROVE NoFalseAlert'
  BY DEF NoFalseAlert
<1>1. ~raced /\ SavedInv /\ SpkInv
  BY RacedStays
<1>2. \A x : Gone(x) => Gone(x)'
  BY <1>1, StepKeeps, OursKept
<1>3. PICK a : a = watch.alert
  OBVIOUS
<1>4. a \in Foreign \cup {0} \/ Gone(a)
  BY <1>1, <1>3 DEF NoFalseAlert, Gone
<1>5. CASE watch'.alert = watch.alert
  <2>1. a \in Foreign \cup {0} \/ Gone(a)'
    BY <1>2, <1>4
  <2> QED
    BY <1>3, <1>5, <2>1 DEF NoFalseAlert, Gone, Foreign
<1>6. CASE CheckWrite
  <2>1. /\ check.at = "write"
        /\ watch'.alert = IF check.reply \in check.known THEN watch.alert ELSE check.reply
    BY <1>6 DEF CheckWrite
  <2>2. CASE check.reply \in check.known
    BY <1>5, <2>1, <2>2
  <2>3. CASE check.reply \notin check.known
    <3>1. PICK r : r = check.reply
      OBVIOUS
    <3>2. r \in Foreign \/ Gone(r)'
      BY <1>1, <1>2, <2>1, <2>3, <3>1 DEF SpkInv
    <3> QED
      BY <2>1, <2>3, <3>1, <3>2 DEF NoFalseAlert, Gone, Foreign
  <2> QED
    BY <2>2, <2>3
<1>7. CASE DismissPut
  <2>1. watch' = [watch EXCEPT !.known = answer.known]
    BY <1>7 DEF DismissPut
  <2>2. watch'.alert = watch.alert
    BY <2>1 DEF KeyShape
  <2> QED
    BY <1>5, <2>2
<1>8. CASE DismissClear
  <2>1. watch' = [watch EXCEPT !.alert = 0]
    BY <1>8 DEF DismissClear
  <2>2. watch'.alert = 0
    BY <2>1 DEF KeyShape
  <2> QED
    BY <2>2 DEF NoFalseAlert
<1> QED
  BY <1>5, <1>6, <1>7, <1>8
  DEF PrekeyNext, prekeyVars, Period, Connect, rotateSpkIfDue, replenishOpks, commit, PublishOk, PublishFails,
      take_one_time_prekey, FrameSaved, ReceiveFirst, ReceiveLost, ReloadPrekeys, RecoverElsewhere, Renewal,
      checkAccountKeys, dismissKeyAlert

LEMMA KeyStep == KeyInv /\ [PrekeyNext]_prekeyVars => KeyInv'
<1> SUFFICES ASSUME KeyInv, [PrekeyNext]_prekeyVars PROVE KeyInv'
  OBVIOUS
<1>1. KeyShape /\ QueueInv /\ LowRemembered /\ NoFalseAlert /\ (~raced => SavedInv /\ OpkInv /\ SpkInv)
  BY DEF KeyInv
<1>2. KeyShape'
  BY <1>1, KeyShapeStep
<1>3. QueueInv' /\ LowRemembered' /\ NoFalseAlert'
  BY <1>1, QueueStep, LowStep, AlertStep
<1>4. ASSUME ~raced' PROVE SavedInv' /\ OpkInv' /\ SpkInv'
  <2>1. SavedInv /\ OpkInv /\ SpkInv
    BY <1>1, <1>4, RacedStays
  <2>2. SavedInv' /\ OpkInv'
    BY <1>1, <1>2, <1>4, <2>1, SavedStep, OpkStep
  <2> QED
    BY <1>1, <1>2, <1>3, <1>4, <2>1, <2>2, SpkStep
<1> QED
  BY <1>2, <1>3, <1>4 DEF KeyInv

\* A message whose one-time prekey is held and whose signed prekey is saved opens.
LEMMA KeyInvSound == KeyInv => PrekeysSound
<1> SUFFICES ASSUME KeyInv PROVE PrekeysSound
  OBVIOUS
<1>1. ASSUME ~raced, NEW m \in mail
      PROVE  \/ m.spk \in Foreign \/ m.opk \in twice
             \/ Opens(m, saved)
             \/ \E k \in retired : k.id = m.spk /\ m.at > k.at
  <2>1. KeyShape /\ SavedInv /\ m.opk \in {0} \cup twice \cup me.opks /\ Held(m)
    BY <1>1 DEF KeyInv, OpkInv, SpkInv
  <2>2. me.opks \subseteq saved.opks
    BY <2>1 DEF SavedInv, KeyShape
  <2> QED
    BY <2>1, <2>2 DEF Held, Opens
<1>2. FirstMessagesOpen
  BY <1>1 DEF FirstMessagesOpen
<1> QED
  BY <1>2 DEF KeyInv, PrekeysSound

\* KeyInv is an invariant of a device that keeps its prekeys up, however its requests,
\* saves, reloads and its peers' first messages fall.
THEOREM KeyInductive == PrekeySpec => []KeyInv
<1>1. PrekeyInit => KeyInv
  BY KeyStart
<1>2. KeyInv /\ [PrekeyNext]_prekeyVars => KeyInv'
  BY KeyStep
<1> QED
  BY <1>1, <1>2, PTL DEF PrekeySpec

\* What the server hands out can be opened while it is queued, a low signal is never
\* forgotten, and no key of our own raises the alarm, for any number of events and
\* rotation periods (prekeys.ts, messaging.ts, key-watch.ts).
THEOREM HandedOutOpens == PrekeySpec => []PrekeysSound
BY KeyInductive, KeyInvSound, PTL
=============================================================================
