-------------------------- MODULE KeyTransparency --------------------------
(***************************************************************************)
(* The key directory and its transparency log on the server: registration  *)
(* (db/queries/register.rs), rotation of a signed prekey (routes/keys.rs), *)
(* the log's queries and its repair at start-up (db/queries/kt_log.rs),    *)
(* and the cached Merkle tree every fetch is answered from (kt_cache.rs).  *)
(*                                                                         *)
(* The log's seq is a BIGSERIAL: a number is taken when a row is inserted  *)
(* and the row is seen when its transaction commits, in any order.  A      *)
(* bundle is the number of times the account's keys were published.        *)
(***************************************************************************)
EXTENDS Integers, Sequences, FiniteSets, SequencesExt

CONSTANTS
    Users,      \* accounts
    Rotators,   \* bound: the accounts that rotate
    Fetchers,   \* requests for an account's keys
    MaxSpk,     \* bound on the signed prekeys an account publishes
    MaxCrashes, \* bound on crashes of the database
    MaxBoots,   \* bound on start-ups of an API process
    MaxDropped  \* bound on rotations whose request ends half way

ASSUME BoundAssumption == /\ MaxSpk \in Nat /\ MaxCrashes \in Nat
                          /\ MaxBoots \in Nat /\ MaxDropped \in Nat

VARIABLES
    directory,  \* key_directory: the bundle served for each account, 0 if none
    log,        \* committed rows of kt_log
    nextSeq,    \* the sequence behind kt_log.seq
    register,   \* register_user in progress for each account
    pending,    \* spkPending: the client of the account has a key to publish
    rotate,     \* spk_rotate in progress for each account
    repair,     \* repair_kt_log in progress
    cache,      \* the snapshot an API process holds
    gate,       \* who holds the rebuild mutex
    fetch,      \* get_key_bundle, and in it KtCache::snapshot, of each request
    crashes, boots, dropped,
    covered     \* no crash since the log was last complete (history)

writers == <<register, pending, rotate, repair>>
readers == <<cache, gate, fetch>>
bounds == <<crashes, boots, dropped>>
vars == <<directory, log, nextSeq, writers, readers, bounds, covered>>

NoOne == "none"
NoRow == [seq |-> 0, user |-> NoOne, bundle |-> 0, prev |-> <<NoOne, 0>>]
Idle == [pc |-> "idle", bundle |-> 0, prev |-> <<NoOne, 0>>, row |-> NoRow]
NoFetch == [pc |-> "idle", user |-> NoOne, bundle |-> 0, gen |-> 0, proved |-> 0]
NoRepair == [pc |-> "idle", missing |-> {}, prev |-> <<NoOne, 0>>]

MaxSeq(rows) == Max({r.seq : r \in rows} \cup {0})
latest_seq == MaxSeq(log)

\* bundle_hash of the head of the log; the hash of a bundle is its owner and it.
get_root == IF log = {} THEN <<NoOne, 0>>
            ELSE LET head == CHOOSE r \in log : r.seq = latest_seq
                 IN  <<head.user, head.bundle>>

Row(u, bundle, prev) == [seq |-> nextSeq, user |-> u, bundle |-> bundle, prev |-> prev]

Init ==
    /\ directory = [u \in Users |-> 0]
    /\ log = {} /\ nextSeq = 1
    /\ register = [u \in Users |-> Idle]
    /\ pending = [u \in Users |-> FALSE]
    /\ rotate = [u \in Users |-> Idle]
    /\ repair = NoRepair
    /\ cache = [gen |-> -1, rows |-> {}]
    /\ gate = NoOne
    /\ fetch = [f \in Fetchers |-> NoFetch]
    /\ crashes = 0 /\ boots = 0 /\ dropped = 0
    /\ covered = TRUE

----------------------------------------------------------------------------
(* register_user: one transaction *)

RegisterRead(u) ==
    /\ directory[u] = 0 /\ register[u].pc = "idle"
    /\ register' = [register EXCEPT ![u] = [Idle EXCEPT !.pc = "read", !.prev = get_root]]
    /\ UNCHANGED <<directory, log, nextSeq, pending, rotate, repair, readers, bounds, covered>>

RegisterInsert(u) ==
    /\ register[u].pc = "read"
    /\ register' = [register EXCEPT ![u].pc = "inserted",
                                    ![u].row = Row(u, 1, register[u].prev)]
    /\ nextSeq' = nextSeq + 1
    /\ UNCHANGED <<directory, log, pending, rotate, repair, readers, bounds, covered>>

RegisterCommit(u) ==
    /\ register[u].pc = "inserted"
    /\ directory' = [directory EXCEPT ![u] = 1]
    /\ log' = log \cup {register[u].row}
    /\ register' = [register EXCEPT ![u] = Idle]
    /\ UNCHANGED <<nextSeq, pending, rotate, repair, readers, bounds, covered>>

----------------------------------------------------------------------------
(* Rotation.  The client runs one upkeep at a time, saves a new key as pending  *)
(* before it publishes it, and publishes a pending key again before it makes    *)
(* another.  spk_rotate is four statements, each its own transaction.           *)

\* rotateSpkIfDue and update_spk.
RotateUpdate(u) ==
    LET bundle == IF pending[u] THEN directory[u] ELSE directory[u] + 1
    IN  /\ u \in Rotators /\ directory[u] # 0 /\ bundle <= MaxSpk
        /\ rotate[u].pc = "idle"
        /\ directory' = [directory EXCEPT ![u] = bundle]
        /\ pending' = [pending EXCEPT ![u] = TRUE]
        /\ rotate' = [rotate EXCEPT ![u] = [Idle EXCEPT !.pc = "updated", !.bundle = bundle]]
        /\ UNCHANGED <<log, nextSeq, register, repair, readers, bounds, covered>>

RotateRead(u) ==
    /\ rotate[u].pc = "updated"
    /\ rotate' = [rotate EXCEPT ![u].pc = "read", ![u].prev = get_root]
    /\ UNCHANGED <<directory, log, nextSeq, register, pending, repair, readers, bounds,
                   covered>>

append_entry(u) ==
    /\ rotate[u].pc = "read"
    /\ rotate' = [rotate EXCEPT ![u].pc = "inserted",
                                ![u].row = Row(u, rotate[u].bundle, rotate[u].prev)]
    /\ nextSeq' = nextSeq + 1
    /\ UNCHANGED <<directory, log, register, pending, repair, readers, bounds, covered>>

\* The entry is committed.
RotateCommit(u) ==
    /\ rotate[u].pc = "inserted"
    /\ log' = log \cup {rotate[u].row}
    /\ rotate' = [rotate EXCEPT ![u] = [Idle EXCEPT !.pc = "logged"]]
    /\ UNCHANGED <<directory, nextSeq, register, pending, repair, readers, bounds, covered>>

\* The answer reaches the client: publishSpk clears the pending key.
RotateAnswered(u) ==
    /\ rotate[u].pc = "logged"
    /\ pending' = [pending EXCEPT ![u] = FALSE]
    /\ rotate' = [rotate EXCEPT ![u] = Idle]
    /\ UNCHANGED <<directory, log, nextSeq, register, repair, readers, bounds, covered>>

\* Mutant: the client takes a failed rotation for done.
RotateDropped_Forgotten(u) ==
    /\ rotate[u].pc # "idle"
    /\ dropped < MaxDropped
    /\ dropped' = dropped + 1
    /\ pending' = [pending EXCEPT ![u] = FALSE]
    /\ rotate' = [rotate EXCEPT ![u] = Idle]
    /\ UNCHANGED <<directory, log, nextSeq, register, repair, readers, crashes, boots,
                   covered>>

\* The client hangs up, a statement fails or the answer is lost: what was
\* committed stays, and so does the pending key.
RotateDropped(u) ==
    /\ rotate[u].pc # "idle"
    /\ dropped < MaxDropped
    /\ dropped' = dropped + 1
    /\ rotate' = [rotate EXCEPT ![u] = Idle]
    /\ UNCHANGED <<directory, log, nextSeq, register, pending, repair, readers, crashes,
                   boots, covered>>

----------------------------------------------------------------------------
(* Failure and repair *)

\* An unclean shutdown truncates the UNLOGGED log and resets its sequence; the
\* directory is logged and survives.  Transactions in progress fail.
DatabaseCrash ==
    /\ crashes < MaxCrashes
    /\ crashes' = crashes + 1
    /\ log' = {} /\ nextSeq' = 1
    /\ register' = [u \in Users |-> Idle]
    /\ rotate' = [u \in Users |-> Idle]
    /\ repair' = NoRepair
    /\ covered' = FALSE
    /\ UNCHANGED <<directory, pending, readers, boots, dropped>>

\* Mutant: a log that is not empty is taken for complete.
RepairRead_EmptyOnly ==
    LET missing == IF log # {} THEN {}
                   ELSE {<<u, directory[u]>> : u \in {v \in Users : directory[v] # 0}}
    IN  /\ boots < MaxBoots /\ repair = NoRepair
        /\ boots' = boots + 1
        /\ \/ missing = {} /\ covered' = TRUE /\ repair' = repair
           \/ /\ missing # {} /\ covered' = covered
              /\ repair' = [NoRepair EXCEPT !.pc = "tail", !.missing = missing]
        /\ UNCHANGED <<directory, log, nextSeq, register, pending, rotate, readers, crashes,
                       dropped>>

\* repair_kt_log, at the start of an API process while other replicas serve: the
\* accounts without an entry and their keys are read; with none it is done.
RepairRead ==
    LET missing == {<<u, directory[u]>> : u \in
                       {v \in Users : directory[v] # 0 /\ ~\E r \in log : r.user = v}}
    IN  /\ boots < MaxBoots /\ repair = NoRepair
        /\ boots' = boots + 1
        /\ \/ missing = {} /\ covered' = TRUE /\ repair' = repair
           \/ /\ missing # {} /\ covered' = covered
              /\ repair' = [NoRepair EXCEPT !.pc = "tail", !.missing = missing]
        /\ UNCHANGED <<directory, log, nextSeq, register, pending, rotate, readers, crashes,
                       dropped>>

RepairTail ==
    /\ repair.pc = "tail"
    /\ repair' = [repair EXCEPT !.pc = "write", !.prev = get_root]
    /\ UNCHANGED <<directory, log, nextSeq, register, pending, rotate, readers, bounds,
                   covered>>

\* Then the entries are written in one transaction, each chained to the one
\* before it, in the order of created_at: a day, so any order of the accounts.
RepairWrite ==
    /\ repair.pc = "write"
    /\ \E order \in SetToSeqs(repair.missing) :
        /\ log' = log \cup {[seq |-> nextSeq + i - 1, user |-> order[i][1],
                             bundle |-> order[i][2],
                             prev |-> IF i = 1 THEN repair.prev ELSE order[i - 1]]
                            : i \in 1 .. Len(order)}
        /\ nextSeq' = nextSeq + Len(order)
    /\ covered' = TRUE
    /\ repair' = NoRepair
    /\ UNCHANGED <<directory, register, pending, rotate, readers, bounds>>

----------------------------------------------------------------------------
(* get_key_bundle, with KtCache::snapshot *)

Hit == cache.gen = latest_seq

\* index_by_user: the bundle of u's latest entry among rows, 0 if it has none.
LatestIn(u, rows) ==
    LET mine == {r \in rows : r.user = u}
    IN  IF mine = {} THEN 0 ELSE (CHOOSE r \in mine : r.seq = MaxSeq(mine)).bundle

\* The answer, with the proof for the account's latest entry in the snapshot;
\* an error if it has none.
Answer(f, rows) ==
    fetch' = [fetch EXCEPT ![f].pc = "answered", ![f].gen = 0,
                           ![f].proved = LatestIn(fetch[f].user, rows)]

\* The keys are read first; who is not registered is not found.
get_key(f, u) ==
    /\ fetch[f] = NoFetch /\ directory[u] # 0
    /\ fetch' = [fetch EXCEPT ![f].pc = "key", ![f].user = u, ![f].bundle = directory[u]]
    /\ UNCHANGED <<directory, log, nextSeq, writers, cache, gate, bounds, covered>>

\* The fast path: a hit needs only the latest seq.
FetchGen(f) ==
    /\ fetch[f].pc = "key"
    /\ \/ Hit /\ Answer(f, cache.rows)
       \/ ~Hit /\ fetch' = [fetch EXCEPT ![f].pc = "miss"]
    /\ UNCHANGED <<directory, log, nextSeq, writers, cache, gate, bounds, covered>>

\* The gate is taken, and the generation read and compared again.
FetchLock(f) ==
    /\ fetch[f].pc = "miss" /\ gate = NoOne
    /\ \/ Hit /\ Answer(f, cache.rows) /\ gate' = gate
       \/ ~Hit /\ fetch' = [fetch EXCEPT ![f].pc = "scan", ![f].gen = latest_seq]
               /\ gate' = f
    /\ UNCHANGED <<directory, log, nextSeq, writers, cache, bounds, covered>>

\* All entries are read and the tree over them is published.
FetchScan(f) ==
    /\ fetch[f].pc = "scan"
    /\ cache' = [gen |-> fetch[f].gen, rows |-> log]
    /\ Answer(f, log)
    /\ gate' = NoOne
    /\ UNCHANGED <<directory, log, nextSeq, writers, bounds, covered>>

Next == \/ DatabaseCrash \/ RepairRead \/ RepairTail \/ RepairWrite
        \/ \E u \in Users : \/ RegisterRead(u) \/ RegisterInsert(u) \/ RegisterCommit(u)
                            \/ RotateUpdate(u) \/ RotateRead(u) \/ append_entry(u)
                            \/ RotateCommit(u) \/ RotateAnswered(u) \/ RotateDropped(u)
        \/ \E f \in Fetchers : \/ \E u \in Users : get_key(f, u)
                               \/ FetchGen(f) \/ FetchLock(f) \/ FetchScan(f)

Spec == Init /\ [][Next]_vars

----------------------------------------------------------------------------
(* Properties *)

TypeOK ==
    /\ directory \in [Users -> 0 .. MaxSpk]
    /\ \A r \in log : /\ r.seq \in 1 .. nextSeq - 1 /\ r.user \in Users
                      /\ r.bundle \in 1 .. MaxSpk
    /\ \A u \in Users : /\ register[u].pc \in {"idle", "read", "inserted"}
                        /\ rotate[u].pc \in {"idle", "updated", "read", "inserted", "logged"}
    /\ gate \in Fetchers \cup {NoOne}
    /\ \A f \in Fetchers : fetch[f].pc = "scan" <=> gate = f

Entries(u) == {r \in log : r.user = u}

\* Between two crashes of the database every account that is served has an entry
\* in the log: registration writes both in one transaction, and repair_kt_log
\* finds whoever a crash left out, whatever registers and rotates meanwhile.
\* Without one, get_key_bundle answers every fetch of the account with an error.
EveryAccountLogged == covered => \A u \in Users : directory[u] # 0 => Entries(u) # {}

\* No two entries ever share a seq, a crash that resets the sequence included.
SeqUnique == \A r, s \in log : r.seq = s.seq => r = s

\* The log is complete and its order unambiguous (register_user, repair_kt_log).
LogComplete == EveryAccountLogged /\ SeqUnique

\* As long as the log was never lost, the newest entry of an account is for the
\* bundle the directory serves, unless its client has a rotation under way or still
\* to repeat: whatever rotations were cut short or repeated, the proof a fetch then
\* gets is for the keys it gets.
LatestServed ==
    crashes = 0 => \A u \in Users : directory[u] # 0 /\ ~pending[u] =>
        \E r \in Entries(u) : r.bundle = directory[u]
                             /\ \A s \in Entries(u) : s.seq <= r.seq

\* ARCHITECTURE.md: "Every key registration and SPK rotation is appended to an
\* append-only KT log."
\* (It does not hold; the README says why.)
EveryChangeLogged ==
    \A u \in Users : directory[u] # 0 /\ rotate[u] = Idle =>
        \E r \in Entries(u) : r.bundle = directory[u]

\* migrations/0003_kt_log.sql: "Append-only, hash-chained": every entry names the
\* hash of the entry before it.
\* (It does not hold; the README says why.)
HashChained ==
    \A r, s \in log : r.seq < s.seq /\ (\A t \in log : ~(r.seq < t.seq /\ t.seq < s.seq))
        => s.prev = <<r.user, r.bundle>>

\* kt_cache.rs: "a snapshot is valid until an entry is appended": what a hit on the
\* cache returns is the log. (It does not hold; the README says why.)
CacheCurrent == cache.gen = latest_seq => cache.rows = log

\* routes/keys.rs: "Never return a bundle without a proof": when a bundle is
\* answered, the proof that comes with it is the proof of that bundle.
\* (It does not hold; the README says why.)
BundleProved ==
    \A f \in Fetchers : fetch[f].pc = "answered" /\ fetch[f].proved # 0
        => fetch[f].proved = fetch[f].bundle
============================================================================
