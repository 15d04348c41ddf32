------------------------------- MODULE Vault -------------------------------
(***************************************************************************)
(* The app lock (services/applock.ts, crypto/keystore.ts): the data key    *)
(* that seals every row of the local database, where it is kept, the       *)
(* re-key when the lock is set up, the two ways of unlocking, the back-off *)
(* after wrong passphrases, and reloads between any two writes.            *)
(*                                                                         *)
(* A key is a number, the order in which keys were drawn; 0 is no key.     *)
(***************************************************************************)
EXTENDS Naturals

CONSTANTS
    VaultEvents,    \* bound: what the user does, the guesses, the writes and the reloads
    FreeGuesses     \* wrong passphrases before the back-off starts

ASSUME VaultAssumption == VaultEvents \in Nat /\ FreeGuesses \in Nat \ {0}

VARIABLES
    handle,    \* IndexedDB: the key of the non-extractable handle, without a lock
    meta,      \* IndexedDB: the lock, and the key each of its factors wraps
    mem,       \* the key in memory
    rows,      \* table -> the key its row is sealed under, and the row's version
    change,    \* the change of the lock in flight
    pen,       \* the key a write of the session row was started with, 0 if there is none
    guess,     \* the attempt to unlock in flight
    screen,    \* "ready", or "locked" behind UnlockScreen
    fails,     \* settings: wrong passphrases in a row, and the seconds still to wait
    drawn,     \* keys drawn so far
    torn,      \* history: a re-key was cut short
    up,        \* history: the lock was set up to the end, and not turned off since
    late,      \* history: tables written while they were being re-keyed
    quiet,     \* history: seconds since a wrong passphrase was last answered
    events

vaultVars == <<handle, meta, mem, rows, change, pen, guess, screen, fails, drawn, torn, up,
               late, quiet, events>>

Rekeyed == <<"identity", "sessions">>       \* in this order; two of the six tables
Tables == {"identity", "sessions", "linked_devices"}
NoLock == [on |-> FALSE, pass |-> 0, bio |-> 0]
NoChange == [kind |-> "none", at |-> "none", key |-> 0, old |-> 0, n |-> 1, ver |-> 0]
VSpend == events > 0 /\ events' = events - 1
LongestWait == 2                            \* two seconds stand for the five minutes

\* A device before its first start, or one that has an account.
VaultInit ==
    /\ drawn \in {0, 1}
    /\ handle = drawn
    /\ rows = [t \in Tables |-> [key |-> drawn, ver |-> 0]]
    /\ meta = NoLock
    /\ mem = 0
    /\ change = NoChange
    /\ pen = 0
    /\ guess = "none"
    /\ screen = "ready"
    /\ fails = [count |-> 0, wait |-> 0]
    /\ torn = FALSE /\ up = FALSE
    /\ late = {}
    /\ quiet = LongestWait
    /\ events = VaultEvents

\* getMasterKey: the key in memory, else nothing while there is a lock, else the handle.
MasterKey == IF mem # 0 THEN mem ELSE IF meta.on THEN 0 ELSE handle

\* With neither a lock nor a handle, getMasterKey draws a key, and what is written from
\* then on is sealed under it.
FirstKey ==
    /\ MasterKey = 0 /\ ~meta.on /\ screen = "ready"
    /\ handle' = drawn + 1 /\ drawn' = drawn + 1
    /\ rows' = [t \in Tables |-> IF rows[t].key = 0 THEN [key |-> drawn + 1, ver |-> 0] ELSE rows[t]]
    /\ UNCHANGED <<meta, mem, change, pen, guess, screen, fails, torn, up, late, quiet, events>>

(***************************************************************************)
(* Setting the lock up: every row is re-encrypted, the new key adopted and *)
(* wrapped, and only then the old handle is dropped.                       *)
(***************************************************************************)
Begin(c) == change = NoChange /\ screen = "ready" /\ VSpend /\ change' = c

enableWithPassphrase ==
    /\ ~meta.on /\ MasterKey # 0
    /\ Begin([NoChange EXCEPT !.kind = "enable", !.at = "read", !.key = drawn + 1, !.old = MasterKey])
    /\ drawn' = drawn + 1
    /\ UNCHANGED <<handle, meta, mem, rows, pen, guess, screen, fails, torn, up, late, quiet>>

\* rekeyAllEncryptedFields: read a table, then write back each of its rows.
RekeyRead ==
    /\ change.at = "read"
    /\ LET row == rows[Rekeyed[change.n]]
       IN IF row.key = change.old
          THEN change' = [change EXCEPT !.at = "write", !.ver = row.ver] /\ UNCHANGED torn
          ELSE change' = NoChange /\ torn' = TRUE
    /\ UNCHANGED <<handle, meta, mem, rows, pen, guess, screen, fails, drawn, up, late, quiet, events>>

RekeyWrite ==
    /\ change.at = "write"
    /\ LET t == Rekeyed[change.n]
       IN /\ rows' = [rows EXCEPT ![t] = [key |-> change.key, ver |-> change.ver]]
          /\ late' = IF t = "sessions" /\ pen # 0 THEN late \cup {t} ELSE late
    /\ change' = IF change.n < 2 THEN [change EXCEPT !.at = "read", !.n = @ + 1]
                 ELSE [change EXCEPT !.at = "adopt"]
    /\ UNCHANGED <<handle, meta, mem, pen, guess, screen, fails, drawn, torn, up, quiet, events>>

Adopt ==
    /\ change.at = "adopt"
    /\ mem' = change.key
    /\ change' = [change EXCEPT !.at = "wrap"]
    /\ UNCHANGED <<handle, meta, rows, pen, guess, screen, fails, drawn, torn, up, late, quiet, events>>

Wrap ==
    /\ change.at = "wrap"
    /\ meta' = [NoLock EXCEPT !.on = TRUE, !.pass = change.key]
    /\ change' = [change EXCEPT !.at = "forget"]
    /\ UNCHANGED <<handle, mem, rows, pen, guess, screen, fails, drawn, torn, up, late, quiet, events>>

clearNoLockHandle ==
    /\ change.at = "forget"
    /\ handle' = 0
    /\ up' = TRUE
    /\ change' = [change EXCEPT !.at = "clear"]
    /\ UNCHANGED <<meta, mem, rows, pen, guess, screen, fails, drawn, torn, late, quiet, events>>

\* The last step of setting the lock up and of turning it off.
clearFailures ==
    /\ change.at = "clear"
    /\ fails' = [count |-> 0, wait |-> 0]
    /\ change' = NoChange
    /\ UNCHANGED <<handle, meta, mem, rows, pen, guess, screen, drawn, torn, up, late, quiet, events>>

(***************************************************************************)
(* The biometric factor, and turning the lock off. The key is taken before *)
(* the platform's dialog, the metadata read after it.                      *)
(***************************************************************************)
addBiometric ==
    /\ meta.on /\ meta.bio = 0 /\ mem # 0
    /\ Begin([NoChange EXCEPT !.kind = "biometric", !.at = "enrol", !.key = mem])
    /\ UNCHANGED <<handle, meta, mem, rows, pen, guess, screen, fails, drawn, torn, up, late, quiet>>

Enrolled ==
    /\ change.at = "enrol"
    /\ meta' = [meta EXCEPT !.on = TRUE, !.bio = change.key]
    /\ change' = NoChange
    /\ UNCHANGED <<handle, mem, rows, pen, guess, screen, fails, drawn, torn, up, late, quiet, events>>

EnrolFails ==
    /\ change.at = "enrol"
    /\ change' = NoChange
    /\ UNCHANGED <<handle, meta, mem, rows, pen, guess, screen, fails, drawn, torn, up, late, quiet, events>>

removeBiometric ==
    /\ meta.bio # 0 /\ change = NoChange /\ screen = "ready"
    /\ VSpend
    /\ meta' = [meta EXCEPT !.bio = 0]
    /\ UNCHANGED <<handle, mem, rows, change, pen, guess, screen, fails, drawn, torn, up, late, quiet>>

disableLock ==
    /\ meta.on /\ mem # 0
    /\ Begin([NoChange EXCEPT !.kind = "disable", !.at = "handle", !.key = mem])
    /\ UNCHANGED <<handle, meta, mem, rows, pen, guess, screen, fails, drawn, torn, up, late, quiet>>

setNoLockHandle_Late ==
    /\ change.at = "handle"
    /\ meta' = NoLock
    /\ up' = FALSE
    /\ change' = [change EXCEPT !.at = "unlink"]
    /\ UNCHANGED <<handle, mem, rows, pen, guess, screen, fails, drawn, torn, late, quiet, events>>
setNoLockHandle ==
    /\ change.at = "handle"
    /\ handle' = change.key
    /\ up' = FALSE
    /\ change' = [change EXCEPT !.at = "unlink"]
    /\ UNCHANGED <<meta, mem, rows, pen, guess, screen, fails, drawn, torn, late, quiet, events>>

clearLockMeta ==
    /\ change.at = "unlink"
    /\ meta' = NoLock
    /\ change' = [change EXCEPT !.at = "clear"]
    /\ UNCHANGED <<handle, mem, rows, pen, guess, screen, fails, drawn, torn, up, late, quiet, events>>

(***************************************************************************)
(* Unlocking. An attempt is "right" or "wrong" for the passphrase, or      *)
(* "touch" for the biometric factor.                                       *)
(***************************************************************************)
\* unlockWithPassphrase: there is a passphrase, and the back-off is over.
throttle(kind) ==
    /\ screen = "locked" /\ guess = "none" /\ meta.pass # 0
    /\ fails.wait = 0
    /\ kind = "wrong" => VSpend
    /\ kind = "right" => UNCHANGED events
    /\ guess' = kind
    /\ UNCHANGED <<handle, meta, mem, rows, change, pen, screen, fails, drawn, torn, up, late, quiet>>

\* None for the free guesses, then one second, doubled with every failure up to the cap,
\* which the first doubling reaches.
Delay(count) == IF count < FreeGuesses THEN 0 ELSE IF count = FreeGuesses THEN 1 ELSE LongestWait

recordFailure ==
    /\ guess = "wrong"
    /\ LET count == fails.count + 1
       IN fails' = [count |-> count, wait |-> Delay(count)]
    /\ guess' = "none"
    /\ quiet' = 0
    /\ UNCHANGED <<handle, meta, mem, rows, change, pen, screen, drawn, torn, up, late, events>>

setUnlockedKey ==
    /\ guess = "right"
    /\ fails' = [count |-> 0, wait |-> 0]
    /\ mem' = meta.pass
    /\ screen' = "ready" /\ guess' = "none"
    /\ UNCHANGED <<handle, meta, rows, change, pen, drawn, torn, up, late, quiet, events>>

unlockWithBiometric ==
    /\ screen = "locked" /\ guess = "none" /\ meta.bio # 0
    /\ VSpend
    /\ mem' = meta.bio
    /\ screen' = "ready"
    /\ UNCHANGED <<handle, meta, rows, change, pen, guess, fails, drawn, torn, up, late, quiet>>

Second ==
    /\ fails.wait > 0 \/ quiet < LongestWait
    /\ fails' = [fails EXCEPT !.wait = IF @ = 0 THEN 0 ELSE @ - 1]
    /\ quiet' = IF quiet < LongestWait THEN quiet + 1 ELSE quiet
    /\ UNCHANGED <<handle, meta, mem, rows, change, pen, guess, screen, drawn, torn, up, late, events>>

(***************************************************************************)
(* AppLockGuard, reloads, and what the rest of the app writes meanwhile.   *)
(***************************************************************************)
doLock ==
    /\ screen = "ready" /\ meta.on
    /\ VSpend
    /\ mem' = 0
    /\ screen' = "locked"
    /\ UNCHANGED <<handle, meta, rows, change, pen, guess, fails, drawn, torn, up, late, quiet>>

Rekeying == change.at \in {"read", "write", "adopt", "wrap"}

\* A change in flight dies with the page; so do the key in memory and a write.
ReloadVault ==
    /\ VSpend
    /\ mem' = 0
    /\ screen' = IF meta.on THEN "locked" ELSE "ready"
    /\ change' = NoChange /\ pen' = 0 /\ guess' = "none"
    /\ torn' = (torn \/ Rekeying)
    /\ UNCHANGED <<handle, meta, rows, fails, drawn, up, late, quiet>>

\* A frame or a send takes the key, encrypts, and stores the session row.
WriteStart ==
    /\ pen = 0 /\ MasterKey # 0
    /\ VSpend
    /\ pen' = MasterKey
    /\ UNCHANGED <<handle, meta, mem, rows, change, guess, screen, fails, drawn, torn, up, late, quiet>>

WriteEnd ==
    /\ pen # 0
    /\ rows' = [rows EXCEPT !["sessions"] = [key |-> pen, ver |-> 1]]
    /\ late' = IF change.kind = "enable" \/ rows["sessions"].key # pen
               THEN late \cup {"sessions"} ELSE late
    /\ pen' = 0
    /\ UNCHANGED <<handle, meta, mem, change, guess, screen, fails, drawn, torn, up, quiet, events>>

VaultNext ==
    \/ FirstKey \/ enableWithPassphrase \/ RekeyRead \/ RekeyWrite \/ Adopt \/ Wrap
    \/ clearNoLockHandle \/ clearFailures
    \/ addBiometric \/ Enrolled \/ EnrolFails \/ removeBiometric
    \/ disableLock \/ setNoLockHandle \/ clearLockMeta
    \/ \E k \in {"right", "wrong"} : throttle(k)
    \/ recordFailure \/ setUnlockedKey \/ unlockWithBiometric \/ Second
    \/ doLock \/ ReloadVault \/ WriteStart \/ WriteEnd

VaultSpec == VaultInit /\ [][VaultNext]_vaultVars

(***************************************************************************)
(* Properties.                                                             *)
(***************************************************************************)
\* Every variable keeps its shape; a lock always has a passphrase, and behind the unlock
\* screen there is no key in memory (keystore.ts, AppLockGuard.tsx).
VaultTypeOK ==
    /\ {handle, meta.pass, meta.bio, mem, pen} \subseteq 0..drawn
    /\ \A t \in Tables : rows[t].key \in 0..drawn
    /\ fails.wait \in 0..LongestWait /\ fails.count \in 0..VaultEvents
    /\ meta.on = (meta.pass # 0)
    /\ screen = "locked" => mem = 0
    /\ guess # "none" => screen = "locked"

AtRest == {handle, meta.pass, meta.bio} \ {0}
Intact == ~torn /\ ~Rekeying

\* What is sealed can be opened with what is stored: by the handle without a lock, by
\* either factor with one, between any two writes of disableLock and of addBiometric,
\* and after a reload there. (Rows written while the lock was being set up, or whose
\* re-key was cut short, are not covered: the code does not promise it.)
Recoverable ==
    Intact => \A n \in 1..2 :
        \/ Rekeyed[n] \in late
        \/ rows[Rekeyed[n]].key = 0
        \/ (IF meta.on THEN {meta.pass, meta.bio} \ {0} ELSE {handle}) = {rows[Rekeyed[n]].key}

\* From the end of enableWithPassphrase to the first write of disableLock, what is
\* stored opens no row without a factor, whatever was locked, unlocked, added, removed
\* or reloaded in between.
Sealed == up => \A t \in Tables : rows[t].key # handle

\* After the free guesses, a passphrase is tried only when the delay for the failures
\* so far has passed since the last wrong answer, reloads and new pages included.
Throttled ==
    guess # "none" /\ fails.count >= FreeGuesses
        => quiet >= IF fails.count = FreeGuesses THEN 1 ELSE LongestWait

\* The lock keeps the data for its owner and from everybody else (applock.ts,
\* keystore.ts).
LockSound == Recoverable /\ Sealed /\ Throttled

\* The owner is kept out; who knows the passphrase gets back in, unless the lock was
\* turned off behind the screen (Settles, in MCDevice).
ShutOut == screen = "locked" /\ meta.on

\* Every table is sealed under the key in use. (It does not hold; the README says why.)
RekeyComplete == Intact => \A t \in Tables : rows[t].key \in AtRest \cup {0}

\* Setting the lock up loses no write and no row. (It does not hold; the README says
\* why.)
RekeyKeepsAll ==
    \A t \in Tables :
        \/ rows[t].key \in AtRest \cup {0, mem}
        \/ change.kind = "enable" /\ rows[t].key = change.key
=============================================================================
