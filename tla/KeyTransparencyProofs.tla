----------------------- MODULE KeyTransparencyProofs -----------------------
(***************************************************************************)
(* Proofs that the transparency log stays complete, unambiguous and true   *)
(* to the directory, for any accounts, requests, crashes and start-ups;    *)
(* and, in the second half, that the tree over a log of any length has the *)
(* root RFC 6962 defines and that a proof handed out convinces the browser *)
(* of its entry and of nothing else.                                       *)
(***************************************************************************)
EXTENDS LogTree, FiniteSetTheorems, WellFoundedInduction, TLAPS

(***************************************************************************)
(* The strengthening.                                                      *)
(***************************************************************************)
Registered == {u \in Users : directory[u] # 0}

\* A transaction in progress; what it read as the head of the log may be anything.
Process(p, pcs) == p \in [pc : pcs, bundle : Nat, prev : {p.prev}, row : {p.row}]

Shape ==
    /\ directory \in [Users -> Nat] /\ IsFiniteSet(Registered)
    /\ nextSeq \in Nat \ {0}
    /\ register = [u \in Users |-> register[u]] /\ rotate = [u \in Users |-> rotate[u]]
    /\ \A u \in Users : /\ Process(register[u], {"idle", "read", "inserted"})
                        /\ Process(rotate[u], {"idle", "updated", "read", "inserted", "logged"})
    /\ pending \in [Users -> BOOLEAN]
    /\ repair \in [pc : {"idle", "tail", "write"}, missing : {repair.missing}, prev : {repair.prev}]
    /\ crashes \in Nat

Inserted(p) == p.pc = "inserted"

\* A row of the log, or about to be: its number is one the sequence has given out.
Numbered(r) == r.seq \in Nat /\ r.seq < nextSeq /\ r.user \in Users

\* Rows that are inserted and not committed have numbers of their own, and the log has
\* each number once.
SeqInv ==
    /\ \A r \in log : Numbered(r)
    /\ \A u \in Users : Inserted(register[u]) => Numbered(register[u].row) /\ register[u].row.user = u
    /\ \A u \in Users : Inserted(rotate[u]) => Numbered(rotate[u].row) /\ rotate[u].row.user = u
    /\ \A r \in log, u \in Users : Inserted(register[u]) => r.seq # register[u].row.seq
    /\ \A r \in log, u \in Users : Inserted(rotate[u]) => r.seq # rotate[u].row.seq
    /\ \A u, v \in Users : Inserted(register[u]) /\ Inserted(register[v]) /\ u # v
            => register[u].row.seq # register[v].row.seq
    /\ \A u, v \in Users : Inserted(rotate[u]) /\ Inserted(rotate[v]) /\ u # v
            => rotate[u].row.seq # rotate[v].row.seq
    /\ \A u, v \in Users : Inserted(register[u]) /\ Inserted(rotate[v])
            => register[u].row.seq # rotate[v].row.seq
    /\ SeqUnique

\* An account is registered, rotated or repaired, never two of these where they would
\* get in each other's way: entries and rotations are of accounts that are served.
ServedInv ==
    /\ \A r \in log : directory[r.user] # 0
    /\ \A u \in Users : register[u].pc # "idle" => directory[u] = 0
    /\ \A u \in Users : rotate[u].pc # "idle" => directory[u] # 0

\* A repair under way knows of every served account without an entry.
RepairInv ==
    /\ EveryAccountLogged
    /\ repair.pc # "idle" =>
        /\ IsFiniteSet(repair.missing)
        /\ \A p \in repair.missing : p[1] \in Registered
        /\ \A u \in Registered : Entries(u) = {} => \E p \in repair.missing : p[1] = u

\* The newest entry of u is for the bundle that is served.
Newest(u) == \E r \in Entries(u) : r.bundle = directory[u] /\ \A s \in Entries(u) : s.seq <= r.seq

\* While the log was never lost: a repair finds nothing to do, the client of a rotation
\* under way keeps the key pending, and an entry not yet committed is for the bundle
\* served and newer than the others of its account.
NewestInv ==
    crashes = 0 =>
        /\ covered /\ repair.pc = "idle"
        /\ \A u \in Users :
            /\ rotate[u].pc # "idle" => pending[u]
            /\ rotate[u].pc \in {"updated", "read"} => rotate[u].bundle = directory[u]
            /\ Inserted(rotate[u]) => /\ rotate[u].row.bundle = directory[u]
                                      /\ \A s \in Entries(u) : s.seq < rotate[u].row.seq
            /\ Inserted(register[u]) => register[u].row.bundle = 1
            /\ rotate[u].pc = "logged" => Newest(u)
            /\ directory[u] # 0 /\ ~pending[u] => Newest(u)

IInv == Shape /\ SeqInv /\ ServedInv /\ RepairInv /\ NewestInv

(***************************************************************************)
(* Initial states, and steps that leave the writers alone.                 *)
(***************************************************************************)
\* The server starts with no account and an empty log.
LEMMA Start == Init => IInv
<1> SUFFICES ASSUME Init PROVE IInv  OBVIOUS
<1> USE DEF Init, Idle, NoRow, NoRepair
<1>1. Shape
  <2>1. Registered = {}  BY DEF Registered
  <2>2. IsFiniteSet(Registered)  BY <2>1, FS_EmptySet
  <2>3. \A u \in Users : /\ Process(register[u], {"idle", "read", "inserted"})
                           /\ Process(rotate[u], {"idle", "updated", "read", "inserted", "logged"})
    BY DEF Process
  <2>4. register = [u \in Users |-> register[u]] /\ rotate = [u \in Users |-> rotate[u]]  OBVIOUS
  <2>5. repair \in [pc : {"idle", "tail", "write"}, missing : {repair.missing}, prev : {repair.prev}]  OBVIOUS
  <2>6. directory \in [Users -> Nat] /\ nextSeq \in Nat \ {0} /\ pending \in [Users -> BOOLEAN] /\ crashes \in Nat
    OBVIOUS
  <2> QED  BY ONLY <2>2, <2>3, <2>4, <2>5, <2>6 DEF Shape
<1>2. SeqInv  BY DEF SeqInv, SeqUnique, Inserted
<1>3. ServedInv  BY DEF ServedInv
<1>4. RepairInv  BY DEF RepairInv, EveryAccountLogged
<1>5. NewestInv  BY DEF NewestInv, Inserted
<1> QED  BY <1>1, <1>2, <1>3, <1>4, <1>5 DEF IInv

\* A fetch, or no step at all, changes nothing the invariant is about (keys.rs
\* get_key_bundle, kt_cache.rs).
LEMMA Reading ==
  ASSUME IInv, UNCHANGED <<directory, log, nextSeq, writers, crashes, covered>>
  PROVE  IInv'
<1> USE DEF writers
<1>1. Shape'  BY DEF IInv, Shape, Registered, Process
<1>2. SeqInv'  BY DEF IInv, SeqInv, SeqUnique, Inserted, Numbered
<1>3. ServedInv'  BY DEF IInv, ServedInv
<1>4. RepairInv'  BY DEF IInv, RepairInv, EveryAccountLogged, Entries, Registered
<1>5. NewestInv'  BY DEF IInv, NewestInv, Inserted, Newest, Entries
<1> QED  BY <1>1, <1>2, <1>3, <1>4, <1>5 DEF IInv

(***************************************************************************)
(* Registration (db/queries/register.rs).                                  *)
(***************************************************************************)
\* register_user reads the head of the log.
LEMMA RegisterReadStep == ASSUME IInv, NEW u \in Users, RegisterRead(u) PROVE IInv'
<1> USE DEF IInv, writers
<1>1. /\ UNCHANGED <<directory, log, nextSeq, pending, rotate, repair, crashes, covered>>
      /\ directory[u] = 0 /\ register[u].pc = "idle"
  BY DEF RegisterRead, bounds
<1>2. /\ register' = [v \in Users |-> register'[v]]
      /\ register'[u].pc = "read" /\ \A v \in Users : v # u => register'[v] = register[v]
      /\ Process(register'[u], {"idle", "read", "inserted"})
  BY DEF RegisterRead, Shape, Idle, NoRow, Process
<1>3. Shape'  BY <1>1, <1>2 DEF Shape, Registered, Process
<1>4. SeqInv'
  <2>1. \A v \in Users : Inserted(register'[v]) => v # u /\ register'[v] = register[v]
    BY <1>2 DEF Inserted
  <2> QED  BY <1>1, <2>1 DEF SeqInv, SeqUnique, Numbered, Inserted
<1>5. ServedInv'  BY <1>1, <1>2 DEF ServedInv
<1>6. RepairInv'  BY <1>1 DEF RepairInv, EveryAccountLogged, Entries, Registered
<1>7. NewestInv'  BY <1>1, <1>2 DEF NewestInv, Inserted, Newest, Entries
<1> QED  BY <1>3, <1>4, <1>5, <1>6, <1>7

\* It inserts its row, with the next number.
LEMMA RegisterInsertStep == ASSUME IInv, NEW u \in Users, RegisterInsert(u) PROVE IInv'
<1> USE DEF IInv, writers
<1>1. /\ UNCHANGED <<directory, log, pending, rotate, repair, crashes, covered>>
      /\ nextSeq' = nextSeq + 1 /\ register[u].pc = "read" /\ nextSeq \in Nat \ {0}
  BY DEF RegisterInsert, bounds, Shape
<1>2. /\ register' = [v \in Users |-> register'[v]]
      /\ \A v \in Users : v # u => register'[v] = register[v]
      /\ register'[u].pc = "inserted" /\ register'[u].row = Row(u, 1, register[u].prev)
      /\ Process(register'[u], {"idle", "read", "inserted"})
  BY DEF RegisterInsert, Shape, Process
<1>3. register'[u].row.seq = nextSeq /\ register'[u].row.user = u /\ register'[u].row.bundle = 1
  BY <1>2 DEF Row
<1>4. Shape'
  <2>1. nextSeq' \in Nat \ {0} /\ Registered' = Registered  BY <1>1 DEF Registered
  <2>2. \A v \in Users : Process(register'[v], {"idle", "read", "inserted"})  BY <1>2 DEF Shape
  <2> QED  BY <1>1, <1>2, <2>1, <2>2 DEF Shape
<1>5. \A r : Numbered(r) => Numbered(r)' /\ r.seq # nextSeq  BY <1>1 DEF Numbered
<1>6. Numbered(register[u].row)'  BY <1>1, <1>3 DEF Numbered
<1>7. SeqInv'
  <2>1. (\A r \in log : Numbered(r))'  BY <1>1, <1>5 DEF SeqInv
  <2>2. \A v \in Users : Inserted(register'[v]) =>
           /\ Numbered(register[v].row)' /\ register'[v].row.user = v
           /\ v # u => Inserted(register[v]) /\ register'[v].row = register[v].row
    BY <1>2, <1>3, <1>5, <1>6 DEF SeqInv, Inserted
  <2>3. \A v \in Users : Inserted(rotate'[v]) =>
           Numbered(rotate[v].row)' /\ rotate'[v].row.user = v /\ rotate'[v].row.seq # nextSeq
    BY <1>1, <1>5 DEF SeqInv
  <2>4. \A r \in log, v \in Users : Inserted(register'[v]) => r.seq # register'[v].row.seq
    BY <1>3, <1>5, <2>2 DEF SeqInv
  <2>5. \A v, w \in Users : Inserted(register'[v]) /\ Inserted(register'[w]) /\ v # w
           => register'[v].row.seq # register'[w].row.seq
    BY <1>3, <1>5, <2>2 DEF SeqInv
  <2>6. \A v, w \in Users : Inserted(register'[v]) /\ Inserted(rotate'[w])
           => register'[v].row.seq # rotate'[w].row.seq
    BY <1>1, <1>3, <2>2, <2>3 DEF SeqInv
  <2> QED  BY <1>1, <2>1, <2>2, <2>3, <2>4, <2>5, <2>6 DEF SeqInv, SeqUnique, Inserted
<1>8. ServedInv'  BY <1>1, <1>2 DEF ServedInv
<1>9. RepairInv'  BY <1>1 DEF RepairInv, EveryAccountLogged, Entries, Registered
<1>10. NewestInv'  BY <1>1, <1>2, <1>3 DEF NewestInv, Inserted, Newest, Entries
<1> QED  BY <1>4, <1>7, <1>8, <1>9, <1>10

\* The transaction commits: the account is served and has its first entry.
LEMMA RegisterCommitStep == ASSUME IInv, NEW u \in Users, RegisterCommit(u) PROVE IInv'
<1> DEFINE new == register[u].row
<1> USE DEF IInv, writers
<1>1. /\ UNCHANGED <<nextSeq, pending, rotate, repair, crashes, covered>>
      /\ Inserted(register[u]) /\ log' = log \cup {new}
  BY DEF RegisterCommit, bounds, Inserted
<1>2. /\ register' = [v \in Users |-> register'[v]]
      /\ register'[u] = Idle /\ \A v \in Users : v # u => register'[v] = register[v]
  BY DEF RegisterCommit, Shape
<1>3. /\ directory' \in [Users -> Nat] /\ directory'[u] = 1
      /\ \A v \in Users : v # u => directory'[v] = directory[v]
  BY DEF RegisterCommit, Shape
<1>4. /\ Numbered(new) /\ new.user = u /\ directory[u] = 0 /\ rotate[u].pc = "idle"
      /\ \A r \in log : r.seq # new.seq /\ r.user # u
  BY <1>1 DEF SeqInv, ServedInv, Inserted
<1>5. Process(Idle, {"idle", "read", "inserted"}) /\ Idle.pc = "idle"  BY DEF Process, Idle, NoRow
<1> HIDE DEF new
<1>6. Shape'
  <2>1. Registered' = Registered \cup {u}  BY <1>3 DEF Registered
  <2>2. IsFiniteSet(Registered')  BY <2>1, FS_AddElement DEF Shape
  <2>3. \A v \in Users : Process(register'[v], {"idle", "read", "inserted"})  BY <1>2, <1>5 DEF Shape
  <2> QED  BY <1>1, <1>2, <1>3, <2>2, <2>3 DEF Shape
<1>7. SeqInv'
  <2>1. \A v \in Users : Inserted(register'[v]) => v # u /\ register'[v] = register[v]
    BY <1>2, <1>5 DEF Inserted
  <2>2. \A r \in log' : r \in log \/ r = new  BY <1>1
  <2>3. \A r : Numbered(r)' <=> Numbered(r)  BY <1>1 DEF Numbered
  <2>4. (\A r \in log : Numbered(r))'  BY <1>4, <2>2, <2>3 DEF SeqInv
  <2>5. \A v \in Users : v # u /\ Inserted(register[v]) => new.seq # register[v].row.seq
    BY <1>1 DEF SeqInv, new
  <2>6. \A v \in Users : Inserted(rotate[v]) => new.seq # rotate[v].row.seq
    BY <1>1 DEF SeqInv, new
  <2>7. \A r \in log', v \in Users : Inserted(register'[v]) => r.seq # register'[v].row.seq
    BY <2>1, <2>2, <2>5 DEF SeqInv
  <2>8. \A r \in log', v \in Users : Inserted(rotate'[v]) => r.seq # rotate'[v].row.seq
    BY <1>1, <2>2, <2>6 DEF SeqInv
  <2>9. SeqUnique'  BY <1>4, <2>2 DEF SeqInv, SeqUnique
  <2>10. \A v \in Users : /\ Inserted(register'[v]) => Numbered(register[v].row)' /\ register'[v].row.user = v
                          /\ Inserted(rotate'[v]) => Numbered(rotate[v].row)' /\ rotate'[v].row.user = v
    BY <1>1, <2>1, <2>3 DEF SeqInv
  <2>11. /\ \A v, w \in Users : Inserted(register'[v]) /\ Inserted(register'[w]) /\ v # w
               => register'[v].row.seq # register'[w].row.seq
         /\ \A v, w \in Users : Inserted(rotate'[v]) /\ Inserted(rotate'[w]) /\ v # w
               => rotate'[v].row.seq # rotate'[w].row.seq
         /\ \A v, w \in Users : Inserted(register'[v]) /\ Inserted(rotate'[w])
               => register'[v].row.seq # rotate'[w].row.seq
    BY <1>1, <2>1 DEF SeqInv
  <2> QED  BY <2>4, <2>7, <2>8, <2>9, <2>10, <2>11 DEF SeqInv, Inserted
<1>8. ServedInv'
  <2>1. \A r \in log' : directory'[r.user] # 0  BY <1>1, <1>3, <1>4 DEF ServedInv, SeqInv, Numbered
  <2> QED  BY <1>1, <1>2, <1>3, <1>4, <1>5, <2>1 DEF ServedInv
<1>9. \A v \in Users : /\ v # u => Entries(v)' = Entries(v)
                       /\ v = u => Entries(v)' = {new}
  BY <1>1, <1>4 DEF Entries
<1>10. RepairInv'
  <2>1. EveryAccountLogged'  BY <1>1, <1>3, <1>9 DEF RepairInv, EveryAccountLogged
  <2>2. Registered' = Registered \cup {u}  BY <1>3 DEF Registered
  <2>3. \A v \in Registered' : Entries(v)' = {} => v \in Registered /\ Entries(v) = {}
    BY <1>9, <2>2 DEF Registered
  <2> QED  BY <1>1, <2>1, <2>2, <2>3 DEF RepairInv
<1>11. NewestInv'
  <2>1. SUFFICES ASSUME crashes = 0 PROVE NewestInv'  BY <1>1 DEF NewestInv
  <2>2. new.bundle = 1  BY <1>1, <2>1 DEF NewestInv, new
  <2>3. Newest(u)'
    <3>1. new \in Entries(u)' /\ \A s \in Entries(u)' : s.seq <= new.seq  BY <1>4, <1>9 DEF Numbered
    <3> QED  BY <1>3, <2>2, <3>1 DEF Newest
  <2>4. \A v \in Users : v # u /\ Newest(v) => Newest(v)'  BY <1>3, <1>9 DEF Newest
  <2>5. \A v \in Users : Inserted(register'[v]) => v # u /\ register'[v] = register[v]
    BY <1>2, <1>5 DEF Inserted
  <2> QED  BY <1>1, <1>3, <1>4, <1>9, <2>1, <2>3, <2>4, <2>5 DEF NewestInv, Inserted
<1> QED  BY <1>6, <1>7, <1>8, <1>10, <1>11

(***************************************************************************)
(* Rotation (routes/keys.rs spk_rotate, prekeys.ts).                       *)
(***************************************************************************)
\* A client without a pending key makes the next one, otherwise it repeats the one
\* pending; update_spk serves it.
LEMMA RotateUpdateStep == ASSUME IInv, NEW u \in Users, RotateUpdate(u) PROVE IInv'
<1> DEFINE bundle == IF pending[u] THEN directory[u] ELSE directory[u] + 1
<1> USE DEF IInv, writers
<1>1. UNCHANGED <<log, nextSeq, register, repair, crashes, covered>> /\ directory[u] # 0 /\ rotate[u].pc = "idle"
  BY DEF RotateUpdate, bounds
<1>2. bundle \in Nat \ {0}  BY <1>1 DEF Shape
<1>3. /\ directory' \in [Users -> Nat] /\ directory'[u] = bundle
      /\ \A v \in Users : v # u => directory'[v] = directory[v]
  BY <1>2 DEF RotateUpdate, Shape
<1>4. /\ pending' \in [Users -> BOOLEAN] /\ pending'[u]
      /\ \A v \in Users : v # u => pending'[v] = pending[v]
  BY DEF RotateUpdate, Shape
<1>5. /\ rotate' = [v \in Users |-> rotate'[v]]
      /\ rotate'[u].pc = "updated" /\ rotate'[u].bundle = bundle
      /\ \A v \in Users : v # u => rotate'[v] = rotate[v]
      /\ Process(rotate'[u], {"idle", "updated", "read", "inserted", "logged"})
  BY <1>2 DEF RotateUpdate, Shape, Idle, NoRow, Process
<1> HIDE DEF bundle
<1>6. Registered' = Registered  BY <1>1, <1>2, <1>3 DEF Registered
<1>7. Shape'
  <2>1. \A v \in Users : Process(rotate'[v], {"idle", "updated", "read", "inserted", "logged"})
    BY <1>5 DEF Shape
  <2> QED  BY <1>1, <1>3, <1>4, <1>5, <1>6, <2>1 DEF Shape
<1>8. SeqInv'
  <2>1. \A v \in Users : Inserted(rotate'[v]) => v # u /\ rotate'[v] = rotate[v]  BY <1>5 DEF Inserted
  <2> QED  BY <1>1, <2>1 DEF SeqInv, SeqUnique, Numbered, Inserted
<1>9. ServedInv'
  <2>1. \A v \in Users : directory'[v] = 0 <=> directory[v] = 0  BY <1>1, <1>2, <1>3
  <2>2. \A r \in log : r.user \in Users  BY DEF SeqInv, Numbered
  <2> QED  BY <1>1, <1>5, <2>1, <2>2 DEF ServedInv
<1>10. RepairInv'
  <2>1. \A v \in Users : directory'[v] # 0 <=> directory[v] # 0  BY <1>1, <1>2, <1>3
  <2> QED  BY <1>1, <1>6, <2>1 DEF RepairInv, EveryAccountLogged, Entries
<1>11. NewestInv'
  <2>1. SUFFICES ASSUME crashes = 0 PROVE NewestInv'  BY <1>1 DEF NewestInv
  <2>2. \A v \in Users : Entries(v)' = Entries(v)  BY <1>1 DEF Entries
  <2>3. \A v \in Users : v # u /\ Newest(v) => Newest(v)'  BY <1>3, <2>2 DEF Newest
  <2> QED  BY <1>1, <1>3, <1>4, <1>5, <2>1, <2>2, <2>3 DEF NewestInv, Inserted
<1> QED  BY <1>7, <1>8, <1>9, <1>10, <1>11

\* spk_rotate reads the head of the log.
LEMMA RotateReadStep == ASSUME IInv, NEW u \in Users, RotateRead(u) PROVE IInv'
<1> USE DEF IInv, writers
<1>1. /\ UNCHANGED <<directory, log, nextSeq, register, pending, repair, crashes, covered>>
      /\ rotate[u].pc = "updated"
  BY DEF RotateRead, bounds
<1>2. /\ rotate' = [v \in Users |-> rotate'[v]]
      /\ rotate'[u].pc = "read" /\ rotate'[u].bundle = rotate[u].bundle
      /\ \A v \in Users : v # u => rotate'[v] = rotate[v]
      /\ Process(rotate'[u], {"idle", "updated", "read", "inserted", "logged"})
  BY DEF RotateRead, Shape, Process
<1>3. Registered' = Registered  BY <1>1 DEF Registered
<1>4. Shape'
  <2>1. \A v \in Users : Process(rotate'[v], {"idle", "updated", "read", "inserted", "logged"})
    BY <1>2 DEF Shape
  <2> QED  BY <1>1, <1>2, <1>3, <2>1 DEF Shape
<1>5. SeqInv'
  <2>1. \A v \in Users : Inserted(rotate'[v]) => v # u /\ rotate'[v] = rotate[v]  BY <1>2 DEF Inserted
  <2> QED  BY <1>1, <2>1 DEF SeqInv, SeqUnique, Numbered, Inserted
<1>6. ServedInv'  BY <1>1, <1>2 DEF ServedInv
<1>7. RepairInv'  BY <1>1, <1>3 DEF RepairInv, EveryAccountLogged, Entries
<1>8. NewestInv'  BY <1>1, <1>2 DEF NewestInv, Inserted, Newest, Entries
<1> QED  BY <1>4, <1>5, <1>6, <1>7, <1>8

\* append_entry takes the next number.
LEMMA AppendStep == ASSUME IInv, NEW u \in Users, append_entry(u) PROVE IInv'
<1> USE DEF IInv, writers
<1>1. /\ UNCHANGED <<directory, log, register, pending, repair, crashes, covered>>
      /\ nextSeq' = nextSeq + 1 /\ rotate[u].pc = "read" /\ nextSeq \in Nat \ {0}
  BY DEF append_entry, bounds, Shape
<1>2. /\ rotate' = [v \in Users |-> rotate'[v]]
      /\ \A v \in Users : v # u => rotate'[v] = rotate[v]
      /\ rotate'[u].pc = "inserted" /\ rotate'[u].row = Row(u, rotate[u].bundle, rotate[u].prev)
      /\ Process(rotate'[u], {"idle", "updated", "read", "inserted", "logged"})
  BY DEF append_entry, Shape, Process
<1>3. /\ rotate'[u].row.seq = nextSeq /\ rotate'[u].row.user = u
      /\ rotate'[u].row.bundle = rotate[u].bundle
  BY <1>2 DEF Row
<1>4. Shape'
  <2>1. nextSeq' \in Nat \ {0} /\ Registered' = Registered  BY <1>1 DEF Registered
  <2>2. \A v \in Users : Process(rotate'[v], {"idle", "updated", "read", "inserted", "logged"})
    BY <1>2 DEF Shape
  <2> QED  BY <1>1, <1>2, <2>1, <2>2 DEF Shape
<1>5. \A r : Numbered(r) => Numbered(r)' /\ r.seq # nextSeq /\ r.seq < nextSeq  BY <1>1 DEF Numbered
<1>6. Numbered(rotate[u].row)'  BY <1>1, <1>3 DEF Numbered
<1>7. SeqInv'
  <2>1. (\A r \in log : Numbered(r))'  BY <1>1, <1>5 DEF SeqInv
  <2>2. \A v \in Users : Inserted(rotate'[v]) =>
           /\ Numbered(rotate[v].row)' /\ rotate'[v].row.user = v
           /\ v # u => Inserted(rotate[v]) /\ rotate'[v].row = rotate[v].row
    BY <1>2, <1>3, <1>5, <1>6 DEF SeqInv, Inserted
  <2>3. \A v \in Users : Inserted(register'[v]) =>
           Numbered(register[v].row)' /\ register'[v].row.user = v /\ register'[v].row.seq # nextSeq
    BY <1>1, <1>5 DEF SeqInv
  <2>4. \A r \in log, v \in Users : Inserted(rotate'[v]) => r.seq # rotate'[v].row.seq
    BY <1>3, <1>5, <2>2 DEF SeqInv
  <2>5. \A v, w \in Users : Inserted(rotate'[v]) /\ Inserted(rotate'[w]) /\ v # w
           => rotate'[v].row.seq # rotate'[w].row.seq
    BY <1>3, <1>5, <2>2 DEF SeqInv
  <2>6. \A v, w \in Users : Inserted(register'[v]) /\ Inserted(rotate'[w])
           => register'[v].row.seq # rotate'[w].row.seq
    BY <1>1, <1>3, <2>2, <2>3 DEF SeqInv
  <2> QED  BY <1>1, <2>1, <2>2, <2>3, <2>4, <2>5, <2>6 DEF SeqInv, SeqUnique, Inserted
<1>8. ServedInv'  BY <1>1, <1>2 DEF ServedInv
<1>9. RepairInv'  BY <1>1 DEF RepairInv, EveryAccountLogged, Entries, Registered
<1>10. NewestInv'
  <2>1. \A s \in Entries(u) : s.seq < nextSeq  BY <1>5 DEF SeqInv, Entries
  <2> QED  BY <1>1, <1>2, <1>3, <2>1 DEF NewestInv, Inserted, Newest, Entries
<1> QED  BY <1>4, <1>7, <1>8, <1>9, <1>10

\* The entry of a rotation is committed.
LEMMA RotateCommitStep == ASSUME IInv, NEW u \in Users, RotateCommit(u) PROVE IInv'
<1> DEFINE new == rotate[u].row
<1> USE DEF IInv, writers
<1>1. /\ UNCHANGED <<directory, nextSeq, register, pending, repair, crashes, covered>>
      /\ Inserted(rotate[u]) /\ log' = log \cup {new}
  BY DEF RotateCommit, bounds, Inserted
<1>2. /\ rotate' = [v \in Users |-> rotate'[v]]
      /\ rotate'[u].pc = "logged" /\ \A v \in Users : v # u => rotate'[v] = rotate[v]
      /\ Process(rotate'[u], {"idle", "updated", "read", "inserted", "logged"})
  BY DEF RotateCommit, Shape, Idle, NoRow, Process
<1>3. /\ Numbered(new) /\ new.user = u /\ directory[u] # 0
      /\ \A r \in log : r.seq # new.seq
  BY <1>1 DEF SeqInv, ServedInv, Inserted
<1> HIDE DEF new
<1>4. Registered' = Registered  BY <1>1 DEF Registered
<1>5. Shape'
  <2>1. \A v \in Users : Process(rotate'[v], {"idle", "updated", "read", "inserted", "logged"})
    BY <1>2 DEF Shape
  <2> QED  BY <1>1, <1>2, <1>4, <2>1 DEF Shape
<1>6. SeqInv'
  <2>1. \A v \in Users : Inserted(rotate'[v]) => v # u /\ rotate'[v] = rotate[v]  BY <1>2 DEF Inserted
  <2>2. \A r \in log' : r \in log \/ r = new  BY <1>1
  <2>3. \A r : Numbered(r)' <=> Numbered(r)  BY <1>1 DEF Numbered
  <2>4. (\A r \in log : Numbered(r))'  BY <1>3, <2>2, <2>3 DEF SeqInv
  <2>5. \A v \in Users : v # u /\ Inserted(rotate[v]) => new.seq # rotate[v].row.seq
    BY <1>1 DEF SeqInv, new
  <2>6. \A v \in Users : Inserted(register[v]) => new.seq # register[v].row.seq
    BY <1>1 DEF SeqInv, new
  <2>7. \A r \in log', v \in Users : Inserted(rotate'[v]) => r.seq # rotate'[v].row.seq
    BY <2>1, <2>2, <2>5 DEF SeqInv
  <2>8. \A r \in log', v \in Users : Inserted(register'[v]) => r.seq # register'[v].row.seq
    BY <1>1, <2>2, <2>6 DEF SeqInv
  <2>9. SeqUnique'  BY <1>3, <2>2 DEF SeqInv, SeqUnique
  <2>10. \A v \in Users : /\ Inserted(register'[v]) => Numbered(register[v].row)' /\ register'[v].row.user = v
                          /\ Inserted(rotate'[v]) => Numbered(rotate[v].row)' /\ rotate'[v].row.user = v
    BY <1>1, <2>1, <2>3 DEF SeqInv
  <2>11. /\ \A v, w \in Users : Inserted(register'[v]) /\ Inserted(register'[w]) /\ v # w
               => register'[v].row.seq # register'[w].row.seq
         /\ \A v, w \in Users : Inserted(rotate'[v]) /\ Inserted(rotate'[w]) /\ v # w
               => rotate'[v].row.seq # rotate'[w].row.seq
         /\ \A v, w \in Users : Inserted(register'[v]) /\ Inserted(rotate'[w])
               => register'[v].row.seq # rotate'[w].row.seq
    BY <1>1, <2>1 DEF SeqInv
  <2> QED  BY <2>4, <2>7, <2>8, <2>9, <2>10, <2>11 DEF SeqInv, Inserted
<1>7. ServedInv'
  <2>1. \A r \in log' : directory'[r.user] # 0  BY <1>1, <1>3 DEF ServedInv
  <2> QED  BY <1>1, <1>2, <1>3, <2>1 DEF ServedInv
<1>8. \A v \in Users : /\ v # u => Entries(v)' = Entries(v)
                       /\ v = u => Entries(v)' = Entries(v) \cup {new}
  BY <1>1, <1>3 DEF Entries
<1>9. RepairInv'
  <2>1. \A v \in Users : Entries(v)' = {} => Entries(v) = {}  BY <1>8
  <2> QED  BY <1>1, <1>4, <2>1 DEF RepairInv, EveryAccountLogged, Registered
<1>10. NewestInv'
  <2>1. SUFFICES ASSUME crashes = 0 PROVE NewestInv'  BY <1>1 DEF NewestInv
  <2>2. new.bundle = directory[u] /\ \A s \in Entries(u) : s.seq < new.seq
    BY <1>1, <2>1 DEF NewestInv, new
  <2>3. Newest(u)'
    <3>1. \A s \in Entries(u) : s.seq \in Nat  BY DEF Entries, SeqInv, Numbered
    <3>2. new \in Entries(u)' /\ \A s \in Entries(u)' : s.seq <= new.seq
      BY <1>3, <1>8, <2>2, <3>1 DEF Numbered
    <3> QED  BY <1>1, <2>2, <3>2 DEF Newest
  <2>4. \A v \in Users : v # u /\ Newest(v) => Newest(v)'  BY <1>1, <1>8 DEF Newest
  <2>5. pending[u]  BY <1>1, <2>1 DEF NewestInv, Inserted
  <2> QED  BY <1>1, <1>2, <1>8, <2>1, <2>3, <2>4, <2>5 DEF NewestInv, Inserted
<1> QED  BY <1>5, <1>6, <1>7, <1>9, <1>10

\* The client learns of it, or the request ends at any point before: a key whose
\* rotation did not end well stays pending.
LEMMA RotateEndStep ==
  ASSUME IInv, NEW u \in Users, RotateAnswered(u) \/ RotateDropped(u)
  PROVE  IInv'
<1> USE DEF IInv, writers
<1>1. UNCHANGED <<directory, log, nextSeq, register, repair, crashes, covered>>
  BY DEF RotateAnswered, RotateDropped, bounds
<1>2. /\ rotate' = [v \in Users |-> rotate'[v]]
      /\ rotate'[u] = Idle /\ \A v \in Users : v # u => rotate'[v] = rotate[v]
  BY DEF RotateAnswered, RotateDropped, Shape
<1>3. Idle.pc = "idle" /\ Process(Idle, {"idle", "updated", "read", "inserted", "logged"})
  BY DEF Idle, NoRow, Process
<1>4. /\ pending' \in [Users -> BOOLEAN] /\ \A v \in Users : v # u => pending'[v] = pending[v]
      /\ pending'[u] # pending[u] => rotate[u].pc = "logged"
  BY DEF RotateAnswered, RotateDropped, Shape
<1>5. Registered' = Registered  BY <1>1 DEF Registered
<1>6. Shape'
  <2>1. \A v \in Users : Process(rotate'[v], {"idle", "updated", "read", "inserted", "logged"})
    BY <1>2, <1>3 DEF Shape
  <2> QED  BY <1>1, <1>2, <1>4, <1>5, <2>1 DEF Shape
<1>7. SeqInv'
  <2>1. \A v \in Users : Inserted(rotate'[v]) => v # u /\ rotate'[v] = rotate[v]  BY <1>2, <1>3 DEF Inserted
  <2> QED  BY <1>1, <2>1 DEF SeqInv, SeqUnique, Numbered, Inserted
<1>8. ServedInv'  BY <1>1, <1>2, <1>3 DEF ServedInv
<1>9. RepairInv'  BY <1>1, <1>5 DEF RepairInv, EveryAccountLogged, Entries
<1>10. NewestInv'
  <2>1. SUFFICES ASSUME crashes = 0 PROVE NewestInv'  BY <1>1 DEF NewestInv
  <2>2. \A v \in Users : Newest(v)' <=> Newest(v)  BY <1>1 DEF Newest, Entries
  <2>3. directory[u] # 0 /\ ~pending'[u] => Newest(u)  BY <1>4, <2>1 DEF NewestInv
  <2> QED  BY <1>1, <1>2, <1>3, <1>4, <2>1, <2>2, <2>3 DEF NewestInv, Inserted, Entries
<1> QED  BY <1>6, <1>7, <1>8, <1>9, <1>10

(***************************************************************************)
(* Failure and repair (db/queries/kt_log.rs repair_kt_log).                *)
(***************************************************************************)
\* The log is lost, and every transaction in progress with it.
LEMMA CrashStep == ASSUME IInv, DatabaseCrash PROVE IInv'
<1> USE DEF IInv, writers
<1>1. /\ log' = {} /\ nextSeq' = 1 /\ ~covered' /\ UNCHANGED <<directory, pending>>
      /\ repair' = NoRepair /\ register' = [u \in Users |-> Idle] /\ rotate' = [u \in Users |-> Idle]
      /\ crashes' # 0
  <2>1. crashes' = crashes + 1 /\ crashes \in Nat  BY DEF DatabaseCrash, Shape
  <2> QED  BY <2>1 DEF DatabaseCrash, Shape
<1>2. /\ Idle.pc = "idle" /\ NoRepair.pc = "idle"
      /\ Process(Idle, {"idle", "read", "inserted"})
      /\ Process(Idle, {"idle", "updated", "read", "inserted", "logged"})
  BY DEF Idle, NoRow, NoRepair, Process
<1>3. Shape'
  <2>1. Registered' = Registered  BY <1>1 DEF Registered
  <2>2. repair' \in [pc : {"idle", "tail", "write"}, missing : {repair'.missing}, prev : {repair'.prev}]
    BY <1>1 DEF NoRepair
  <2>3. register' = [u \in Users |-> register'[u]] /\ rotate' = [u \in Users |-> rotate'[u]]  BY <1>1
  <2>4. \A u \in Users : /\ Process(register'[u], {"idle", "read", "inserted"})
                         /\ Process(rotate'[u], {"idle", "updated", "read", "inserted", "logged"})
    BY <1>1, <1>2
  <2>5. crashes' \in Nat /\ nextSeq' \in Nat \ {0}  BY <1>1 DEF DatabaseCrash, Shape
  <2> QED  BY <1>1, <2>1, <2>2, <2>3, <2>4, <2>5 DEF Shape
<1>4. SeqInv'  BY <1>1, <1>2 DEF SeqInv, SeqUnique, Inserted
<1>5. ServedInv'  BY <1>1, <1>2 DEF ServedInv
<1>6. RepairInv'  BY <1>1, <1>2 DEF RepairInv, EveryAccountLogged
<1>7. NewestInv'  BY <1>1 DEF NewestInv
<1> QED  BY <1>3, <1>4, <1>5, <1>6, <1>7

\* The repair reads which served accounts have no entry: a finite number.
LEMMA RepairReadStep == ASSUME IInv, RepairRead PROVE IInv'
<1> DEFINE bare == {v \in Users : directory[v] # 0 /\ ~\E r \in log : r.user = v}
           missing == {<<u, directory[u]>> : u \in bare}
<1> USE DEF IInv, writers
<1>1. /\ UNCHANGED <<directory, log, nextSeq, register, pending, rotate, crashes>>
      /\ \/ missing = {} /\ covered' = TRUE /\ repair' = repair
         \/ /\ missing # {} /\ covered' = covered
            /\ repair' = [NoRepair EXCEPT !.pc = "tail", !.missing = missing]
      /\ repair = NoRepair
  BY DEF RepairRead, bounds
<1>2. bare = {v \in Registered : Entries(v) = {}}  BY DEF Registered, Entries
<1>3. IsFiniteSet(missing)
  <2>1. IsFiniteSet(bare)  BY <1>2, FS_Subset DEF Shape
  <2> DEFINE f == [u \in bare |-> <<u, directory[u]>>]
  <2> HIDE DEF bare
  <2>2. f \in Surjection(bare, missing)  BY DEF Surjection
  <2> QED  BY <2>1, <2>2, FS_Surjection
<1>4. /\ \A p \in missing : p[1] \in Registered
      /\ \A u \in Registered : Entries(u) = {} => \E p \in missing : p[1] = u
  <2>1. \A u \in bare : u \in Registered /\ <<u, directory[u]>> \in missing  BY <1>2
  <2>2. \A p \in missing : \E u \in bare : p = <<u, directory[u]>>  OBVIOUS
  <2>3. \A u \in Registered : Entries(u) = {} => u \in bare  BY <1>2
  <2> HIDE DEF missing, bare
  <2>4. \A p \in missing : p[1] \in Registered
    <3> SUFFICES ASSUME NEW p \in missing PROVE p[1] \in Registered  OBVIOUS
    <3>1. PICK u \in bare : p = <<u, directory[u]>>  BY <2>2
    <3> QED  BY <2>1, <3>1
  <2>5. ASSUME NEW u \in Registered, Entries(u) = {} PROVE \E p \in missing : p[1] = u
    <3>1. <<u, directory[u]>> \in missing  BY <2>1, <2>3, <2>5
    <3>2. <<u, directory[u]>>[1] = u  OBVIOUS
    <3> QED  BY <3>1, <3>2
  <2> QED  BY <2>4, <2>5
<1> HIDE DEF missing, bare
<1>5. Registered' = Registered /\ \A u \in Users : Entries(u)' = Entries(u)  BY <1>1 DEF Registered, Entries
<1>6. Shape'
  <2>1. repair' \in [pc : {"idle", "tail", "write"}, missing : {repair'.missing}, prev : {repair'.prev}]
    BY <1>1 DEF NoRepair, Shape
  <2> QED  BY <1>1, <1>5, <2>1 DEF Shape
<1>7. SeqInv'  BY <1>1 DEF SeqInv, SeqUnique, Inserted, Numbered
<1>8. ServedInv'  BY <1>1 DEF ServedInv
<1>9. RepairInv'
  <2>1. EveryAccountLogged'
    <3>1. missing = {} => \A u \in Registered : Entries(u) # {}  BY <1>4
    <3> QED  BY <1>1, <1>5, <3>1 DEF RepairInv, EveryAccountLogged, Registered
  <2>2. repair'.pc # "idle" => repair'.missing = missing
    <3>1. NoRepair.pc = "idle" /\ [NoRepair EXCEPT !.pc = "tail", !.missing = missing].missing = missing
      BY DEF NoRepair
    <3> QED  BY <1>1, <3>1
  <2> QED  BY <1>3, <1>4, <1>5, <2>1, <2>2 DEF RepairInv, Registered
<1>10. NewestInv'
  <2>1. SUFFICES ASSUME crashes = 0 PROVE NewestInv'  BY <1>1 DEF NewestInv
  <2>2. covered /\ \A u \in Registered : Entries(u) # {}
    BY <2>1 DEF NewestInv, RepairInv, EveryAccountLogged, Registered
  <2>3. missing = {}
    BY <1>2, <2>2 DEF missing
  <2>4. \A v \in Users : Newest(v)' <=> Newest(v)  BY <1>1, <1>5 DEF Newest
  <2> QED  BY <1>1, <1>5, <2>1, <2>2, <2>3, <2>4 DEF NewestInv, Inserted, NoRepair
<1> QED  BY <1>6, <1>7, <1>8, <1>9, <1>10

\* It reads the head of the log.
LEMMA RepairTailStep == ASSUME IInv, RepairTail PROVE IInv'
<1> USE DEF IInv, writers
<1>1. /\ UNCHANGED <<directory, log, nextSeq, register, pending, rotate, crashes, covered>>
      /\ repair.pc = "tail" /\ repair'.pc = "write" /\ repair'.missing = repair.missing
      /\ repair' \in [pc : {"idle", "tail", "write"}, missing : {repair'.missing}, prev : {repair'.prev}]
  BY DEF RepairTail, bounds, Shape
<1>2. Shape'  BY <1>1 DEF Shape, Registered, Process
<1>3. SeqInv'  BY <1>1 DEF SeqInv, SeqUnique, Inserted, Numbered
<1>4. ServedInv'  BY <1>1 DEF ServedInv
<1>5. RepairInv'  BY <1>1 DEF RepairInv, EveryAccountLogged, Entries, Registered
<1>6. NewestInv'  BY <1>1 DEF NewestInv
<1> QED  BY <1>2, <1>3, <1>4, <1>5, <1>6

\* An order of a finite set names every member.
LEMMA OrderOnto ==
  ASSUME NEW S, IsFiniteSet(S), NEW order \in SetToSeqs(S)
  PROVE  /\ Len(order) \in Nat
         /\ order \in [1..Len(order) -> S]
         /\ \A x \in S : \E i \in 1..Len(order) : order[i] = x
<1> DEFINE n == Cardinality(S)
<1>1. n \in Nat  BY FS_CardinalityType
<1>2. order \in [1..n -> S] /\ \A i, j \in 1..n : i # j => order[i] # order[j]
  BY DEF SetToSeqs
<1>3. IsFiniteSet(1..n) /\ Cardinality(1..n) = n  BY <1>1, FS_Interval
<1>4. order \in Injection(1..n, S)  BY <1>2 DEF Injection, IsInjective
<1>5. order \in Surjection(1..n, S)  BY <1>3, <1>4, FS_Injection
<1> HIDE DEF n
<1>6. Len(order) = n  BY <1>1, <1>2
<1> QED  BY <1>1, <1>2, <1>5, <1>6 DEF Surjection

\* It writes an entry for each of them, numbered on from the sequence.
LEMMA RepairWriteStep == ASSUME IInv, RepairWrite PROVE IInv'
<1> DEFINE Entry(order, i) == [seq |-> nextSeq + i - 1, user |-> order[i][1], bundle |-> order[i][2],
                               prev |-> IF i = 1 THEN repair.prev ELSE order[i - 1]]
<1> USE DEF IInv, writers
<1>1. PICK order \in SetToSeqs(repair.missing) :
        /\ log' = log \cup {Entry(order, i) : i \in 1..Len(order)}
        /\ nextSeq' = nextSeq + Len(order)
  BY DEF RepairWrite
<1>2. /\ UNCHANGED <<directory, register, pending, rotate, crashes>>
      /\ repair.pc = "write" /\ covered' = TRUE /\ repair' = NoRepair
  BY DEF RepairWrite, bounds
<1>3. /\ IsFiniteSet(repair.missing)
      /\ \A p \in repair.missing : p[1] \in Registered
      /\ \A u \in Registered : Entries(u) = {} => \E p \in repair.missing : p[1] = u
  BY <1>2 DEF RepairInv
<1> DEFINE n == Len(order)
           New(i) == Entry(order, i)
<1>4. /\ n \in Nat /\ order \in [1..n -> repair.missing]
      /\ \A p \in repair.missing : \E i \in 1..n : order[i] = p
  BY <1>3, OrderOnto
<1>5. \A r \in log' : r \in log \/ \E i \in 1..n : r = New(i)  BY <1>1
<1>6. \A i \in 1..n : New(i).seq = nextSeq + i - 1 /\ New(i).user \in Registered /\ New(i) \in log'
  <2> SUFFICES ASSUME NEW i \in 1..n PROVE New(i).seq = nextSeq + i - 1 /\ New(i).user \in Registered /\ New(i) \in log'
    OBVIOUS
  <2>1. order[i] \in repair.missing  BY <1>4
  <2> QED  BY <1>1, <1>3, <2>1
<1>7. \A u \in Registered : Entries(u) # {} => (Entries(u) # {})'  BY <1>1 DEF Entries
<1>8. \A u \in Registered : (Entries(u) # {})'
  <2> SUFFICES ASSUME NEW u \in Registered, Entries(u) = {} PROVE (Entries(u) # {})'  BY <1>7
  <2>1. PICK p \in repair.missing : p[1] = u  BY <1>3
  <2>2. PICK i \in 1..n : order[i] = p  BY <1>4
  <2>3. New(i) \in log' /\ New(i).user = u  BY <1>6, <2>1, <2>2
  <2> QED  BY <2>3 DEF Entries
<1>9. nextSeq \in Nat \ {0} /\ nextSeq' = nextSeq + n  BY <1>1 DEF Shape
<1> HIDE DEF n, New, Entry
<1>10. NoRepair.pc = "idle" /\ NoRepair \in [pc : {"idle", "tail", "write"}, missing : {NoRepair.missing}, prev : {NoRepair.prev}]
  BY DEF NoRepair
<1>11. Registered' = Registered  BY <1>2 DEF Registered
<1>12. Shape'
  <2>1. nextSeq' \in Nat \ {0}  BY <1>4, <1>9
  <2> QED  BY <1>2, <1>10, <1>11, <2>1 DEF Shape
<1>13. SeqInv'
  <2>1. \A r : Numbered(r) => Numbered(r)'  BY <1>4, <1>9 DEF Numbered
  <2>2. \A i \in 1..n : New(i).seq \in Nat /\ New(i).seq < nextSeq' /\ New(i).user \in Users
    <3> SUFFICES ASSUME NEW i \in 1..n PROVE New(i).seq \in Nat /\ New(i).seq < nextSeq' /\ New(i).user \in Users
      OBVIOUS
    <3>1. New(i).seq = nextSeq + i - 1 /\ New(i).user \in Registered  BY <1>6
    <3>2. New(i).seq \in Nat /\ New(i).seq < nextSeq'  BY <1>4, <1>9, <3>1
    <3> QED  BY <3>1, <3>2 DEF Registered
  <2>3. \A r \in log' : r.seq \in Nat /\ r.seq < nextSeq' /\ r.user \in Users
    <3>1. \A r \in log : r.seq \in Nat /\ r.seq < nextSeq' /\ r.user \in Users  BY <2>1 DEF SeqInv, Numbered
    <3> QED  BY <1>5, <2>2, <3>1
  <2>4. \A r \in log' : r \in log \/ r.seq >= nextSeq  BY <1>4, <1>5, <1>6, <1>9
  <2>5. SeqUnique'
    <3> SUFFICES ASSUME NEW r \in log', NEW s \in log', r.seq = s.seq PROVE r = s  BY DEF SeqUnique
    <3>1. \A t \in log : t.seq \in Nat /\ t.seq < nextSeq  BY DEF SeqInv, Numbered
    <3>2. CASE r \in log /\ s \in log  BY <3>2 DEF SeqInv, SeqUnique
    <3>3. CASE r \in log /\ s \notin log  BY <1>9, <2>4, <3>1, <3>3
    <3>4. CASE r \notin log /\ s \in log  BY <1>9, <2>4, <3>1, <3>4
    <3>5. CASE r \notin log /\ s \notin log
      <4>1. PICK i \in 1..n, j \in 1..n : r = New(i) /\ s = New(j)  BY <1>5, <3>5
      <4>2. i = j  BY <1>4, <1>6, <1>9, <4>1
      <4> QED  BY <4>1, <4>2
    <3> QED  BY <3>2, <3>3, <3>4, <3>5
  <2>6. \A v \in Users : Inserted(register[v]) => register[v].row.seq < nextSeq /\ register[v].row.seq \in Nat
    BY DEF SeqInv, Numbered
  <2>7. \A v \in Users : Inserted(rotate[v]) => rotate[v].row.seq < nextSeq /\ rotate[v].row.seq \in Nat
    BY DEF SeqInv, Numbered
  <2>8. \A r \in log', v \in Users : Inserted(register[v]) => r.seq # register[v].row.seq
    BY <1>9, <2>3, <2>4, <2>6 DEF SeqInv
  <2>9. \A r \in log', v \in Users : Inserted(rotate[v]) => r.seq # rotate[v].row.seq
    BY <1>9, <2>3, <2>4, <2>7 DEF SeqInv
  <2>10. (\A r \in log : Numbered(r))'  BY <2>3 DEF Numbered
  <2>11. \A v \in Users : /\ Inserted(register'[v]) => Numbered(register[v].row)' /\ register'[v].row.user = v
                          /\ Inserted(rotate'[v]) => Numbered(rotate[v].row)' /\ rotate'[v].row.user = v
    BY <1>2, <2>1 DEF SeqInv
  <2> QED  BY <1>2, <2>5, <2>8, <2>9, <2>10, <2>11 DEF SeqInv, Inserted
<1>14. ServedInv'
  <2>1. \A r \in log' : directory'[r.user] # 0  BY <1>2, <1>5, <1>6 DEF ServedInv, Registered
  <2> QED  BY <1>2, <2>1 DEF ServedInv
<1>15. RepairInv'  BY <1>2, <1>8, <1>10 DEF RepairInv, EveryAccountLogged, Registered
<1>16. NewestInv'  BY <1>2 DEF NewestInv
<1> QED  BY <1>12, <1>13, <1>14, <1>15, <1>16

(***************************************************************************)
(* Theorems.                                                               *)
(***************************************************************************)
\* The invariant is inductive.
THEOREM Inductive == Spec => []IInv
<1>1. IInv /\ [Next]_vars => IInv'
  <2>1. CASE UNCHANGED vars  BY <2>1, Reading DEF vars, bounds
  <2>2. ASSUME IInv, NEW f \in Fetchers, NEW u \in Users,
               get_key(f, u) \/ FetchGen(f) \/ FetchLock(f) \/ FetchScan(f)
        PROVE  IInv'
    BY <2>2, Reading DEF get_key, FetchGen, FetchLock, FetchScan, bounds
  <2>3. ASSUME IInv, NEW f \in Fetchers, FetchGen(f) \/ FetchLock(f) \/ FetchScan(f) PROVE IInv'
    BY <2>3, Reading DEF FetchGen, FetchLock, FetchScan, bounds
  <2>4. ASSUME IInv, Next PROVE IInv'
    BY <2>2, <2>3, <2>4, RegisterReadStep, RegisterInsertStep, RegisterCommitStep, RotateUpdateStep,
       RotateReadStep, AppendStep, RotateCommitStep, RotateEndStep, CrashStep, RepairReadStep,
       RepairTailStep, RepairWriteStep DEF Next
  <2> QED  BY <2>1, <2>4
<1> QED  BY <1>1, Start, PTL DEF Spec

\* Every served account has an entry whenever no crash is yet to be repaired, and no two
\* entries share a number (register_user, repair_kt_log).
THEOREM Complete == Spec => []LogComplete
<1>1. IInv => LogComplete  BY DEF IInv, RepairInv, SeqInv, LogComplete
<1> QED  BY <1>1, Inductive, PTL

\* The newest entry of an account is for the keys the directory serves (spk_rotate).
THEOREM ServedIsLogged == Spec => []LatestServed
<1>1. IInv => LatestServed  BY DEF IInv, NewestInv, Newest, LatestServed
<1> QED  BY <1>1, Inductive, PTL

----------------------------------------------------------------------------
(* The split of RFC 6962: powers of two *)

LEMMA Least == ASSUME NEW S, S \subseteq Nat, S # {} PROVE \E n \in S : \A m \in S : n <= m
<1> DEFINE R == OpToRel(<, Nat)
<1>1. IsWellFoundedOn(R, Nat)
  BY NatLessThanWellFounded
<1>2. \A p \in Nat, q \in Nat : p < q => <<p, q>> \in R
  BY DEF OpToRel
<1> HIDE DEF R
<1>3. PICK n \in S : \A m \in S : ~(<<m, n>> \in R)
  BY <1>1, WFMin
<1>4. ASSUME NEW m \in S PROVE n <= m
  <2>1. m \in Nat /\ n \in Nat
    OBVIOUS
  <2>2. ~(m < n)
    BY <1>2, <1>3, <2>1
  <2> QED
    BY <2>1, <2>2
<1> QED
  BY <1>4

\* 2^j is what it should be: the provers know it only as the number of subsets of j things.
LEMMA Powers == 2^0 = 1 /\ \A j \in Nat : 2^j \in Nat /\ 2^(j + 1) = 2 * 2^j
<1>1. ASSUME NEW j \in Nat PROVE 2^j \in Nat /\ 2^(j + 1) = 2 * 2^j
  <2> DEFINE A == 1 .. j  x == j + 1  B == 1 .. (j + 1)
             With == {s \cup {x} : s \in SUBSET A}
  <2>1. IsFiniteSet(A) /\ Cardinality(A) = j /\ IsFiniteSet(B) /\ Cardinality(B) = j + 1
    BY FS_Interval
  <2>2. /\ IsFiniteSet(SUBSET A) /\ Cardinality(SUBSET A) = 2^j
        /\ Cardinality(SUBSET B) = 2^(j + 1)
    BY <2>1, FS_SUBSET
  <2>3. x \notin A /\ B = A \cup {x}
    OBVIOUS
  <2> HIDE DEF A, B, x
  <2>4. PICK P, Q, W : P = SUBSET A /\ Q = SUBSET B /\ W = With
    OBVIOUS
  <2>5. Q = P \cup W /\ P \cap W = {}
    <3>1. ASSUME NEW s \in Q PROVE s \in P \/ s \in W
      <4>1. CASE x \in s
        <5>1. s = (s \ {x}) \cup {x} /\ s \ {x} \in SUBSET A
          BY <2>3, <2>4, <4>1
        <5> QED BY <2>4, <5>1
      <4>2. CASE x \notin s
        BY <2>3, <2>4, <4>2
      <4> QED BY <4>1, <4>2
    <3>2. ASSUME NEW s \in W PROVE s \in Q /\ s \notin P
      <4>1. PICK t \in SUBSET A : s = t \cup {x}
        BY <2>4
      <4> QED BY <2>3, <2>4, <4>1
    <3>3. P \subseteq Q
      BY <2>3, <2>4
    <3> HIDE DEF With
    <3> QED BY <3>1, <3>2, <3>3
  <2>6. ExistsBijection(P, W)
    <3>1. PICK f : f = [s \in P |-> s \cup {x}]
      OBVIOUS
    <3>2. f \in [P -> W] /\ \A t \in W : \E s \in P : f[s] = t
      BY <2>4, <3>1
    <3>3. ASSUME NEW s \in P, NEW t \in P, f[s] = f[t] PROVE s = t
      BY <2>3, <2>4, <3>1, <3>3
    <3> QED
      BY <3>2, <3>3 DEF ExistsBijection, Bijection, Injection, Surjection, IsInjective
  <2>7. IsFiniteSet(P) /\ Cardinality(P) = 2^j /\ Cardinality(Q) = 2^(j + 1)
    BY <2>2, <2>4
  <2> HIDE DEF With
  <2>8. IsFiniteSet(W) /\ Cardinality(W) = Cardinality(P)
    BY <2>6, <2>7, FS_Bijection
  <2>9. Cardinality(P \cup W) = Cardinality(P) + Cardinality(W) - Cardinality(P \cap W)
    BY <2>7, <2>8, FS_Union
  <2>10. Cardinality(P) \in Nat /\ Cardinality({}) = 0
    BY <2>7, FS_CardinalityType, FS_EmptySet
  <2>11. Cardinality(Q) = 2 * Cardinality(P)
    <3>1. Cardinality(P \cup W) = Cardinality(Q) /\ Cardinality(P \cap W) = Cardinality({})
      BY ONLY <2>5, Zenon
    <3> QED BY ONLY <2>8, <2>9, <2>10, <3>1
  <2> QED BY ONLY <2>7, <2>10, <2>11, Zenon
<1>2. 2^0 = 1
  OBVIOUS
<1> QED BY <1>1, <1>2, Zenon

\* The powers of two as a table: doubling, larger than the exponent, and growing with it.
LEMMA PowerTable ==
    \E pow \in [Nat -> Nat] :
        /\ \A j \in Nat : pow[j] = 2^j
        /\ pow[0] = 1 /\ \A j \in Nat : pow[j + 1] = 2 * pow[j] /\ j < pow[j]
        /\ \A i, j \in Nat : i <= j => pow[i] <= pow[j]
<1>1. PICK pow : pow = [j \in Nat |-> 2^j]
  OBVIOUS
<1>2. \A j \in Nat : pow[j] = 2^j
  BY <1>1
<1>3. pow[0] = 1 /\ \A j \in Nat : pow[j] \in Nat /\ pow[j + 1] = 2 * pow[j]
  <2>1. 0 \in Nat /\ \A j \in Nat : j + 1 \in Nat
    OBVIOUS
  <2> QED BY <1>2, <2>1, Powers, Zenon
<1>4. \A j \in Nat : j < pow[j]
  <2> DEFINE Bad == {j \in Nat : ~(j < pow[j])}
  <2>1. SUFFICES ASSUME Bad # {} PROVE FALSE
    OBVIOUS
  <2>2. PICK n \in Bad : \A m \in Bad : n <= m
    BY <2>1, Least
  <2>3. n # 0 /\ n - 1 \in Nat /\ n - 1 \notin Bad /\ pow[n] = 2 * pow[n - 1]
    BY <1>3, <2>2
  <2> QED BY <1>3, <2>3
<1>5. ASSUME NEW i \in Nat PROVE \A d \in Nat : pow[i] <= pow[i + d]
  <2> DEFINE Bad == {d \in Nat : ~(pow[i] <= pow[i + d])}
  <2>1. SUFFICES ASSUME Bad # {} PROVE FALSE
    OBVIOUS
  <2>2. PICK n \in Bad : \A m \in Bad : n <= m
    BY <2>1, Least
  <2>3. n # 0
    BY <1>3
  <2>4. n - 1 \in Nat /\ n - 1 \notin Bad
    BY <2>2, <2>3
  <2>5. pow[i + n] = 2 * pow[i + (n - 1)]
    <3>1. PICK j \in Nat : j = i + (n - 1) /\ i + n = j + 1
      BY <2>4
    <3> QED BY <1>3, <3>1
  <2> QED BY <1>3, <2>4, <2>5
<1>6. ASSUME NEW i \in Nat, NEW j \in Nat, i <= j PROVE pow[i] <= pow[j]
  <2>1. j - i \in Nat /\ i + (j - i) = j
    BY <1>6
  <2> QED BY <1>5, <2>1
<1>7. pow \in [Nat -> Nat]
  BY <1>1, <1>3
<1> QED BY <1>2, <1>3, <1>4, <1>6, <1>7, Zenon

\* p is the largest power of two that is smaller than n.
IsSplit(n, p) == \E j \in Nat : p = 2^j /\ p < n /\ n <= 2 * p

\* There is one such power for two leaves or more, and one only.
LEMMA SplitExists == ASSUME NEW n \in Nat, n >= 2 PROVE \E j \in 0 .. n : 2^j < n /\ n <= 2 * 2^j
<1>1. PICK pow \in [Nat -> Nat] :
        /\ \A j \in Nat : pow[j] = 2^j
        /\ pow[0] = 1 /\ \A j \in Nat : pow[j + 1] = 2 * pow[j] /\ j < pow[j]
  BY PowerTable, Zenon
<1>2. \A j \in Nat : pow[j] = 2^j
  BY <1>1, Zenon
<1>3. pow[0] = 1 /\ \A j \in Nat : pow[j] \in Nat /\ pow[j + 1] = 2 * pow[j] /\ j < pow[j]
  BY <1>1
<1> DEFINE Enough == {m \in Nat : n <= pow[m]}
<1>4. n \in Enough
  BY <1>3
<1>5. PICK m \in Enough : \A k \in Enough : m <= k
  BY <1>4, Least
<1>6. m # 0 /\ m - 1 \in Nat /\ m - 1 \notin Enough /\ pow[m] = 2 * pow[m - 1] /\ m <= n
  BY <1>3, <1>4, <1>5
<1>7. pow[m - 1] < n /\ n <= 2 * pow[m - 1] /\ m - 1 \in 0 .. n
  BY <1>3, <1>5, <1>6
<1> HIDE DEF Enough
<1> QED BY <1>2, <1>6, <1>7, Zenon

LEMMA SplitIs ==
    ASSUME NEW n \in Nat, n >= 2
    PROVE  IsSplit(n, Split(n)) /\ Split(n) \in Nat /\ 1 <= Split(n) /\ Split(n) < n
<1>1. PICK pow \in [Nat -> Nat] : \A j \in Nat : pow[j] = 2^j /\ j < pow[j]
  BY PowerTable, Zenon
<1>2. \A j \in Nat : pow[j] = 2^j
  BY <1>1, Zenon
<1>3. \A j \in Nat : pow[j] \in Nat /\ j < pow[j]
  BY <1>1
<1>4. PICK j \in 0 .. n : 2^j < n /\ n <= 2 * 2^j
  BY SplitExists
<1>5. 2^j \in {2^i : i \in 0 .. n}
  OBVIOUS
<1>6. Split(n) \in {2^i : i \in 0 .. n} /\ Split(n) < n /\ n <= 2 * Split(n)
  BY <1>4, <1>5, Zenon DEF Split
<1>7. PICK i \in 0 .. n : Split(n) = 2^i
  BY <1>6, Zenon
<1>8. i \in Nat /\ Split(n) = pow[i]
  BY <1>2, <1>7
<1> QED BY <1>3, <1>6, <1>7, <1>8 DEF IsSplit

LEMMA SplitUnique ==
    ASSUME NEW n \in Nat, NEW p, NEW q, IsSplit(n, p), IsSplit(n, q) PROVE p = q
<1>1. PICK pow \in [Nat -> Nat] :
        /\ \A j \in Nat : pow[j] = 2^j /\ pow[j + 1] = 2 * pow[j]
        /\ \A i, j \in Nat : i <= j => pow[i] <= pow[j]
  BY PowerTable, Zenon
<1>2. \A j \in Nat : pow[j] = 2^j
  BY <1>1, Zenon
<1>3. /\ \A j \in Nat : pow[j] \in Nat /\ pow[j + 1] = 2 * pow[j]
      /\ \A i, j \in Nat : i <= j => pow[i] <= pow[j]
  BY <1>1
<1>4. PICK i \in Nat : p = pow[i] /\ p < n /\ n <= 2 * p
  BY <1>2 DEF IsSplit
<1>5. PICK j \in Nat : q = pow[j] /\ q < n /\ n <= 2 * q
  BY <1>2 DEF IsSplit
<1>6. ~(i < j)
  <2> SUFFICES ASSUME i < j PROVE FALSE
    OBVIOUS
  <2>1. pow[i + 1] <= pow[j]
    BY <1>3
  <2> QED BY <1>3, <1>4, <1>5, <2>1
<1>7. ~(j < i)
  <2> SUFFICES ASSUME j < i PROVE FALSE
    OBVIOUS
  <2>1. pow[j + 1] <= pow[i]
    BY <1>3
  <2> QED BY <1>3, <1>4, <1>5, <2>1
<1> QED BY <1>4, <1>5, <1>6, <1>7

\* The split of twice as many leaves, or one less, is twice the split.
LEMMA SplitDouble ==
    ASSUME NEW m \in Nat, m >= 2, NEW n \in {2 * m - 1, 2 * m}
    PROVE  Split(n) = 2 * Split(m)
<1>1. n \in Nat /\ n >= 2
  OBVIOUS
<1>2. IsSplit(m, Split(m)) /\ Split(m) \in Nat /\ IsSplit(n, Split(n))
  BY <1>1, SplitIs
<1>3. PICK j \in Nat : Split(m) = 2^j /\ Split(m) < m /\ m <= 2 * Split(m)
  BY <1>2, Zenon DEF IsSplit
<1>4. 2 * Split(m) < n /\ n <= 2 * (2 * Split(m))
  BY <1>2, <1>3
<1>5. 2 * Split(m) = 2^(j + 1) /\ j + 1 \in Nat
  <2>1. j + 1 \in Nat
    OBVIOUS
  <2> QED BY <1>3, <2>1, Powers, Zenon
<1>6. IsSplit(n, 2 * Split(m))
  BY <1>4, <1>5, Zenon DEF IsSplit
<1> QED BY <1>1, <1>2, <1>6, SplitUnique

----------------------------------------------------------------------------
(* The recursive functions of Merkle satisfy their equations *)

\* A recursive function over 0 .. n exists, one value after another, and the levels of a
\* tree are such a function: the equation that defines them holds.
LevelsTo(leaves, n, lev) ==
    lev = [k \in 0 .. n |-> IF k = 0 THEN leaves ELSE Halved(lev[k - 1])]

LEMMA LevelsExist == ASSUME NEW leaves PROVE \A n \in Nat : \E lev : LevelsTo(leaves, n, lev)
<1> DEFINE Bad == {n \in Nat : ~\E lev : LevelsTo(leaves, n, lev)}
<1>1. SUFFICES ASSUME Bad # {} PROVE FALSE
  OBVIOUS
<1>2. PICK n \in Bad : \A m \in Bad : n <= m
  BY <1>1, Least
<1>3. CASE n = 0
  <2> DEFINE lev == [k \in 0 .. 0 |-> leaves]
  <2>1. lev = [k \in 0 .. 0 |-> IF k = 0 THEN leaves ELSE Halved(lev[k - 1])]
    OBVIOUS
  <2> QED BY <1>3, <2>1, Zenon DEF LevelsTo
<1>4. CASE n # 0
  <2>1. n - 1 \in Nat /\ n - 1 \notin Bad
    BY <1>2, <1>4
  <2>2. PICK g : g = [k \in 0 .. n - 1 |-> IF k = 0 THEN leaves ELSE Halved(g[k - 1])]
    BY <2>1, Zenon DEF LevelsTo
  <2>3. PICK lev : lev = [k \in 0 .. n |-> IF k = n THEN Halved(g[n - 1]) ELSE g[k]]
    OBVIOUS
  <2>4. ASSUME NEW k \in 0 .. n
        PROVE  lev[k] = IF k = 0 THEN leaves ELSE Halved(lev[k - 1])
    <3>1. CASE k = n
      <4>1. lev[n - 1] = g[n - 1]
        BY <2>1, <2>3
      <4> QED BY <1>4, <2>1, <2>3, <3>1, <4>1
    <3>2. CASE k # n /\ k = 0
      BY <2>1, <2>2, <2>3, <3>2
    <3>3. CASE k # n /\ k # 0
      <4>1. k \in 0 .. n - 1 /\ k - 1 \in 0 .. n - 1 /\ k - 1 # n /\ k - 1 \in 0 .. n
        BY <3>3
      <4>2. lev[k] = g[k] /\ lev[k - 1] = g[k - 1]
        BY <2>3, <3>3, <4>1
      <4>3. g[k] = Halved(g[k - 1])
        BY <2>2, <3>3, <4>1
      <4> QED BY <3>3, <4>2, <4>3
    <3> QED BY <3>1, <3>2, <3>3
  <2>5. lev = [k \in 0 .. n |-> IF k = 0 THEN leaves ELSE Halved(lev[k - 1])]
    BY <2>3, <2>4
  <2> QED BY <2>5, Zenon DEF LevelsTo
<1> QED BY <1>3, <1>4

LEMMA LevelsDef ==
    ASSUME NEW leaves, Len(leaves) \in Nat
    PROVE  /\ Levels(leaves)[0] = leaves
           /\ \A k \in 0 .. Len(leaves) : k # 0 => Levels(leaves)[k] = Halved(Levels(leaves)[k - 1])
<1>1. \E lev : LevelsTo(leaves, Len(leaves), lev)
  BY LevelsExist
<1>2. LevelsTo(leaves, Len(leaves), Levels(leaves))
  BY <1>1, Zenon DEF Levels, LevelsTo
<1>3. PICK lev : lev = Levels(leaves)
  OBVIOUS
<1>4. lev = [k \in 0 .. Len(leaves) |-> IF k = 0 THEN leaves ELSE Halved(lev[k - 1])]
  BY <1>2, <1>3, Zenon DEF LevelsTo
<1> QED BY <1>3, <1>4

\* So are the positions of a leaf and of the nodes above it,
PositionsTo(idx, n, pos) ==
    pos = [k \in 0 .. n |-> IF k = 0 THEN idx ELSE pos[k - 1] \div 2]

LEMMA PositionsExist == ASSUME NEW idx PROVE \A n \in Nat : \E pos : PositionsTo(idx, n, pos)
<1> DEFINE Bad == {n \in Nat : ~\E pos : PositionsTo(idx, n, pos)}
<1>1. SUFFICES ASSUME Bad # {} PROVE FALSE
  OBVIOUS
<1>2. PICK n \in Bad : \A m \in Bad : n <= m
  BY <1>1, Least
<1>3. CASE n = 0
  <2> DEFINE pos == [k \in 0 .. 0 |-> idx]
  <2>1. pos = [k \in 0 .. 0 |-> IF k = 0 THEN idx ELSE pos[k - 1] \div 2]
    OBVIOUS
  <2> QED BY <1>3, <2>1, Zenon DEF PositionsTo
<1>4. CASE n # 0
  <2>1. n - 1 \in Nat /\ n - 1 \notin Bad
    BY <1>2, <1>4
  <2>2. PICK g : g = [k \in 0 .. n - 1 |-> IF k = 0 THEN idx ELSE g[k - 1] \div 2]
    BY <2>1, Zenon DEF PositionsTo
  <2>3. PICK pos : pos = [k \in 0 .. n |-> IF k = n THEN g[n - 1] \div 2 ELSE g[k]]
    OBVIOUS
  <2>4. ASSUME NEW k \in 0 .. n
        PROVE  pos[k] = IF k = 0 THEN idx ELSE pos[k - 1] \div 2
    <3>1. CASE k = n
      <4>1. pos[n - 1] = g[n - 1]
        BY <2>1, <2>3
      <4> QED BY <1>4, <2>1, <2>3, <3>1, <4>1
    <3>2. CASE k # n /\ k = 0
      BY <2>1, <2>2, <2>3, <3>2
    <3>3. CASE k # n /\ k # 0
      <4>1. k \in 0 .. n - 1 /\ k - 1 \in 0 .. n - 1 /\ k - 1 # n /\ k - 1 \in 0 .. n
        BY <3>3
      <4>2. pos[k] = g[k] /\ pos[k - 1] = g[k - 1]
        BY <2>3, <3>3, <4>1
      <4>3. g[k] = g[k - 1] \div 2
        BY <2>2, <3>3, <4>1
      <4> QED BY <3>3, <4>2, <4>3
    <3> QED BY <3>1, <3>2, <3>3
  <2>5. pos = [k \in 0 .. n |-> IF k = 0 THEN idx ELSE pos[k - 1] \div 2]
    BY <2>3, <2>4
  <2> QED BY <2>5, Zenon DEF PositionsTo
<1> QED BY <1>3, <1>4

\* the siblings met on the way up, sib[k] being the one of level k, if any,
PathTo(sib, n, path) ==
    path = [k \in 0 .. n |-> IF k = 0 THEN <<>> ELSE path[k - 1] \o sib[k - 1]]

LEMMA PathExist == ASSUME NEW sib PROVE \A n \in Nat : \E path : PathTo(sib, n, path)
<1> DEFINE Bad == {n \in Nat : ~\E path : PathTo(sib, n, path)}
<1>1. SUFFICES ASSUME Bad # {} PROVE FALSE
  OBVIOUS
<1>2. PICK n \in Bad : \A m \in Bad : n <= m
  BY <1>1, Least
<1>3. CASE n = 0
  <2> DEFINE path == [k \in 0 .. 0 |-> <<>>]
  <2>1. path = [k \in 0 .. 0 |-> IF k = 0 THEN <<>> ELSE path[k - 1] \o sib[k - 1]]
    OBVIOUS
  <2> QED BY <1>3, <2>1, Zenon DEF PathTo
<1>4. CASE n # 0
  <2>1. n - 1 \in Nat /\ n - 1 \notin Bad
    BY <1>2, <1>4
  <2>2. PICK g : g = [k \in 0 .. n - 1 |-> IF k = 0 THEN <<>> ELSE g[k - 1] \o sib[k - 1]]
    BY <2>1, Zenon DEF PathTo
  <2>3. PICK path : path = [k \in 0 .. n |-> IF k = n THEN g[n - 1] \o sib[n - 1] ELSE g[k]]
    OBVIOUS
  <2>4. ASSUME NEW k \in 0 .. n
        PROVE  path[k] = IF k = 0 THEN <<>> ELSE path[k - 1] \o sib[k - 1]
    <3>1. CASE k = n
      <4>1. path[n - 1] = g[n - 1]
        BY <2>1, <2>3
      <4> QED BY <1>4, <2>1, <2>3, <3>1, <4>1
    <3>2. CASE k # n /\ k = 0
      BY <2>1, <2>2, <2>3, <3>2
    <3>3. CASE k # n /\ k # 0
      <4>1. k \in 0 .. n - 1 /\ k - 1 \in 0 .. n - 1 /\ k - 1 # n /\ k - 1 \in 0 .. n
        BY <3>3
      <4>2. path[k] = g[k] /\ path[k - 1] = g[k - 1]
        BY <2>3, <3>3, <4>1
      <4>3. g[k] = g[k - 1] \o sib[k - 1]
        BY <2>2, <3>3, <4>1
      <4> QED BY <3>3, <4>2, <4>3
    <3> QED BY <3>1, <3>2, <3>3
  <2>5. path = [k \in 0 .. n |-> IF k = 0 THEN <<>> ELSE path[k - 1] \o sib[k - 1]]
    BY <2>3, <2>4
  <2> QED BY <2>5, Zenon DEF PathTo
<1> QED BY <1>3, <1>4

\* and the hashes the browser computes on its way up.
ClimbTo(leaf, proof, n, h) ==
    h = [k \in 0 .. n |-> IF k = 0 THEN leaf ELSE Up(proof[k], h[k - 1])]

LEMMA ClimbExist == ASSUME NEW leaf, NEW proof PROVE \A n \in Nat : \E h : ClimbTo(leaf, proof, n, h)
<1> DEFINE Bad == {n \in Nat : ~\E h : ClimbTo(leaf, proof, n, h)}
<1>1. SUFFICES ASSUME Bad # {} PROVE FALSE
  OBVIOUS
<1>2. PICK n \in Bad : \A m \in Bad : n <= m
  BY <1>1, Least
<1>3. CASE n = 0
  <2> DEFINE h == [k \in 0 .. 0 |-> leaf]
  <2>1. h = [k \in 0 .. 0 |-> IF k = 0 THEN leaf ELSE Up(proof[k], h[k - 1])]
    OBVIOUS
  <2> QED BY <1>3, <2>1, Zenon DEF ClimbTo
<1>4. CASE n # 0
  <2>1. n - 1 \in Nat /\ n - 1 \notin Bad
    BY <1>2, <1>4
  <2>2. PICK g : g = [k \in 0 .. n - 1 |-> IF k = 0 THEN leaf ELSE Up(proof[k], g[k - 1])]
    BY <2>1, Zenon DEF ClimbTo
  <2>3. PICK h : h = [k \in 0 .. n |-> IF k = n THEN Up(proof[n], g[n - 1]) ELSE g[k]]
    OBVIOUS
  <2>4. ASSUME NEW k \in 0 .. n
        PROVE  h[k] = IF k = 0 THEN leaf ELSE Up(proof[k], h[k - 1])
    <3>1. CASE k = n
      <4>1. h[n - 1] = g[n - 1]
        BY <2>1, <2>3
      <4> QED BY <1>4, <2>1, <2>3, <3>1, <4>1
    <3>2. CASE k # n /\ k = 0
      BY <2>1, <2>2, <2>3, <3>2
    <3>3. CASE k # n /\ k # 0
      <4>1. k \in 0 .. n - 1 /\ k - 1 \in 0 .. n - 1 /\ k - 1 # n /\ k - 1 \in 0 .. n
        BY <3>3
      <4>2. h[k] = g[k] /\ h[k - 1] = g[k - 1]
        BY <2>3, <3>3, <4>1
      <4>3. g[k] = Up(proof[k], g[k - 1])
        BY <2>2, <3>3, <4>1
      <4> QED BY <3>3, <4>2, <4>3
    <3> QED BY <3>1, <3>2, <3>3
  <2>5. h = [k \in 0 .. n |-> IF k = 0 THEN leaf ELSE Up(proof[k], h[k - 1])]
    BY <2>3, <2>4
  <2> QED BY <2>5, Zenon DEF ClimbTo
<1> QED BY <1>3, <1>4

LEMMA PositionsDef ==
    ASSUME NEW idx, NEW n \in Nat
    PROVE  /\ Positions(idx, n)[0] = idx
           /\ \A k \in 0 .. n : k # 0 => Positions(idx, n)[k] = Positions(idx, n)[k - 1] \div 2
<1>1. \E pos : PositionsTo(idx, n, pos)
  BY PositionsExist
<1>2. PositionsTo(idx, n, Positions(idx, n))
  BY <1>1, Zenon DEF Positions, PositionsTo
<1>3. PICK pos : pos = Positions(idx, n)
  OBVIOUS
<1>4. pos = [k \in 0 .. n |-> IF k = 0 THEN idx ELSE pos[k - 1] \div 2]
  BY <1>2, <1>3, Zenon DEF PositionsTo
<1>5. ASSUME NEW k \in 0 .. n PROVE pos[k] = IF k = 0 THEN idx ELSE pos[k - 1] \div 2
  BY <1>4, Zenon
<1>6. 0 \in 0 .. n
  OBVIOUS
<1> QED BY <1>3, <1>5, <1>6, Zenon

\* inclusion_proof is the last value of such a function.
LEMMA PathDef ==
    ASSUME NEW leaves, Len(leaves) \in Nat, NEW idx
    PROVE  \E path : /\ path[0] = <<>>
                     /\ \A k \in 0 .. Len(leaves) : k # 0 =>
                          path[k] = path[k - 1] \o Sibling(Levels(leaves)[k - 1],
                                                           Positions(idx, Len(leaves))[k - 1])
                     /\ inclusion_proof(leaves, idx) = path[Len(leaves)]
<1> DEFINE Sib(k) == Sibling(Levels(leaves)[k], Positions(idx, Len(leaves))[k])
           IsPath(p) == p = [k \in 0 .. Len(leaves) |-> IF k = 0 THEN <<>> ELSE p[k - 1] \o Sib(k - 1)]
           path == CHOOSE p : IsPath(p)
<1>1. PICK sib : sib = [k \in 0 .. Len(leaves) |-> Sib(k)]
  OBVIOUS
<1>2. \E p : IsPath(p)
  <2>1. PICK p : PathTo(sib, Len(leaves), p)
    BY PathExist
  <2>2. p = [k \in 0 .. Len(leaves) |-> IF k = 0 THEN <<>> ELSE p[k - 1] \o sib[k - 1]]
    BY <2>1, Zenon DEF PathTo
  <2>3. ASSUME NEW k \in 0 .. Len(leaves)
        PROVE  p[k] = IF k = 0 THEN <<>> ELSE p[k - 1] \o Sib(k - 1)
    <3>1. k # 0 => k - 1 \in 0 .. Len(leaves)
      OBVIOUS
    <3>2. k # 0 => sib[k - 1] = Sib(k - 1)
      BY <1>1, <3>1
    <3>3. p[k] = IF k = 0 THEN <<>> ELSE p[k - 1] \o sib[k - 1]
      BY <2>2
    <3> HIDE DEF Sib
    <3> QED BY <3>2, <3>3
  <2> HIDE DEF Sib
  <2> QED BY <2>2, <2>3
<1>3. IsPath(path)
  BY <1>2, Zenon
<1>4. inclusion_proof(leaves, idx) = path[Len(leaves)]
  BY Zenon DEF inclusion_proof
<1>5. PICK p : p = path
  OBVIOUS
<1>6. p = [k \in 0 .. Len(leaves) |-> IF k = 0 THEN <<>> ELSE p[k - 1] \o Sib(k - 1)]
  BY <1>3, <1>5, Zenon
<1> HIDE DEF Sib, path
<1>7. p[0] = <<>> /\ \A k \in 0 .. Len(leaves) : k # 0 => p[k] = p[k - 1] \o Sib(k - 1)
  <2>1. 0 \in 0 .. Len(leaves)
    OBVIOUS
  <2> QED BY <1>6, <2>1, Zenon
<1> QED BY <1>4, <1>5, <1>7, Zenon DEF Sib

\* The hash the browser arrives at.
LEMMA ClimbDef ==
    ASSUME NEW leaf, NEW proof, Len(proof) \in Nat, NEW root
    PROVE  \E h : /\ ClimbTo(leaf, proof, Len(proof), h)
                  /\ kt_verify_inclusion(leaf, proof, root) <=> h[Len(proof)] = root
<1> DEFINE h == CHOOSE g : ClimbTo(leaf, proof, Len(proof), g)
<1>1. ClimbTo(leaf, proof, Len(proof), h)
  BY ClimbExist
<1>2. kt_verify_inclusion(leaf, proof, root) <=> h[Len(proof)] = root
  BY Zenon DEF kt_verify_inclusion, ClimbTo
<1> QED BY <1>1, <1>2, Zenon

\* The tree hash of RFC 6962 as an equation between the hash of a range and those of its
\* two parts, and functions that satisfy it for ranges up to a length.
RangeOf(leaves) == (1 .. Len(leaves)) \X (1 .. Len(leaves))
RangeStep(leaves, f, r) ==
    IF r[1] >= r[2] THEN leaves[r[1]]
    ELSE node_hash(f[<<r[1], r[1] + Split(r[2] - r[1] + 1) - 1>>],
                   f[<<r[1] + Split(r[2] - r[1] + 1), r[2]>>])
RangesTo(leaves, d, f) ==
    /\ f = [r \in RangeOf(leaves) |-> f[r]]
    /\ \A r \in RangeOf(leaves) : r[2] - r[1] <= d => f[r] = RangeStep(leaves, f, r)

\* Both parts of a range are shorter ranges.
LEMMA RangeParts ==
    ASSUME NEW leaves, Len(leaves) \in Nat, NEW r \in RangeOf(leaves), r[1] < r[2]
    PROVE  LET k == Split(r[2] - r[1] + 1)
           IN  /\ k \in Nat /\ 1 <= k /\ k < r[2] - r[1] + 1
               /\ <<r[1], r[1] + k - 1>> \in RangeOf(leaves)
               /\ <<r[1] + k, r[2]>> \in RangeOf(leaves)
<1>1. PICK a, b \in 1 .. Len(leaves) : r = <<a, b>> /\ r[1] = a /\ r[2] = b
  BY DEF RangeOf
<1>2. b - a + 1 \in Nat /\ b - a + 1 >= 2
  BY <1>1
<1>3. PICK k : k = Split(b - a + 1)
  OBVIOUS
<1>4. k \in Nat /\ 1 <= k /\ k < b - a + 1
  BY <1>2, <1>3, SplitIs
<1>5. a + k - 1 \in 1 .. Len(leaves) /\ a + k \in 1 .. Len(leaves)
  BY <1>1, <1>4
<1>6. <<a, a + k - 1>> \in RangeOf(leaves) /\ <<a + k, b>> \in RangeOf(leaves)
  BY <1>5 DEF RangeOf
<1> QED BY <1>1, <1>3, <1>4, <1>6, Zenon

\* A step only looks at the two parts.
LEMMA RangeStepLocal ==
    ASSUME NEW leaves, Len(leaves) \in Nat, NEW r \in RangeOf(leaves), NEW f, NEW g,
           \A s \in RangeOf(leaves) : s[2] - s[1] < r[2] - r[1] => f[s] = g[s]
    PROVE  RangeStep(leaves, f, r) = RangeStep(leaves, g, r)
<1>0. r[1] \in Int /\ r[2] \in Int
  BY DEF RangeOf
<1>1. CASE r[1] >= r[2]
  BY <1>1 DEF RangeStep
<1>2. CASE r[1] < r[2]
  <2>1. PICK k : k = Split(r[2] - r[1] + 1)
    OBVIOUS
  <2>2. /\ k \in Nat /\ 1 <= k /\ k < r[2] - r[1] + 1
        /\ <<r[1], r[1] + k - 1>> \in RangeOf(leaves)
        /\ <<r[1] + k, r[2]>> \in RangeOf(leaves)
    BY <1>2, <2>1, RangeParts
  <2>3. PICK s, t \in RangeOf(leaves) : s = <<r[1], r[1] + k - 1>> /\ t = <<r[1] + k, r[2]>>
    BY <2>2
  <2>4. s[2] - s[1] < r[2] - r[1] /\ t[2] - t[1] < r[2] - r[1]
    BY <1>0, <2>2, <2>3
  <2>5. f[s] = g[s] /\ f[t] = g[t]
    BY <2>4
  <2>6. ~(r[1] >= r[2])
    BY <1>0, <1>2
  <2> QED BY <2>1, <2>3, <2>5, <2>6, Zenon DEF RangeStep
<1> QED BY <1>0, <1>1, <1>2

LEMMA RangesExist ==
    ASSUME NEW leaves, Len(leaves) \in Nat
    PROVE  \A d \in Nat : \E f : RangesTo(leaves, d, f)
<1> DEFINE Bad == {d \in Nat : ~\E f : RangesTo(leaves, d, f)}
<1>1. SUFFICES ASSUME Bad # {} PROVE FALSE
  OBVIOUS
<1>2. PICK d \in Bad : \A m \in Bad : d <= m
  BY <1>1, Least
<1>t. \A r \in RangeOf(leaves) : r[1] \in Int /\ r[2] \in Int
  BY DEF RangeOf
<1>3. CASE d = 0
  <2>1. PICK f : f = [r \in RangeOf(leaves) |-> leaves[r[1]]]
    OBVIOUS
  <2>2. ASSUME NEW r \in RangeOf(leaves), r[2] - r[1] <= 0 PROVE f[r] = RangeStep(leaves, f, r)
    <3>1. r[1] >= r[2]
      BY <1>t, <2>2
    <3> QED BY <2>1, <3>1 DEF RangeStep
  <2>3. RangesTo(leaves, 0, f)
    BY <2>1, <2>2 DEF RangesTo
  <2> QED BY <1>3, <2>3
<1>4. CASE d # 0
  <2>1. d - 1 \in Nat /\ d - 1 \notin Bad
    BY <1>2, <1>4
  <2>2. PICK g : RangesTo(leaves, d - 1, g)
    BY <2>1, Zenon
  <2>3. PICK f : f = [r \in RangeOf(leaves) |->
                         IF r[2] - r[1] = d THEN RangeStep(leaves, g, r) ELSE g[r]]
    OBVIOUS
  <2>4. ASSUME NEW r \in RangeOf(leaves), r[2] - r[1] <= d PROVE f[r] = RangeStep(leaves, f, r)
    <3>1. ASSUME NEW s \in RangeOf(leaves), s[2] - s[1] < r[2] - r[1] PROVE f[s] = g[s]
      <4>1. s[2] - s[1] # d
        BY <1>t, <2>4, <3>1
      <4> QED BY <2>3, <4>1
    <3>2. RangeStep(leaves, f, r) = RangeStep(leaves, g, r)
      BY <3>1, RangeStepLocal
    <3>3. CASE r[2] - r[1] = d
      BY <2>3, <3>2, <3>3
    <3>4. CASE r[2] - r[1] # d
      <4>1. r[2] - r[1] <= d - 1
        BY <1>t, <2>4, <3>4
      <4>2. g[r] = RangeStep(leaves, g, r)
        BY <2>2, <4>1 DEF RangesTo
      <4> QED BY <2>3, <3>2, <3>4, <4>2
    <3> QED BY <3>3, <3>4
  <2>5. f = [r \in RangeOf(leaves) |-> f[r]]
    BY <2>3
  <2>6. RangesTo(leaves, d, f)
    BY <2>4, <2>5 DEF RangesTo
  <2> QED BY <2>6
<1> QED BY <1>3, <1>4

\* So the hashes of the ranges are what their definition says.
LEMMA RangeDef ==
    ASSUME NEW leaves, Len(leaves) \in Nat, NEW r \in RangeOf(leaves)
    PROVE  RangeHashes(leaves)[r] = RangeStep(leaves, RangeHashes(leaves), r)
<1> DEFINE IsMth(f) == f = [s \in RangeOf(leaves) |-> RangeStep(leaves, f, s)]
<1>1. \E f : IsMth(f)
  <2>1. PICK f : RangesTo(leaves, Len(leaves), f)
    BY RangesExist
  <2>2. ASSUME NEW s \in RangeOf(leaves) PROVE f[s] = RangeStep(leaves, f, s)
    <3>1. s[2] - s[1] <= Len(leaves)
      BY DEF RangeOf
    <3> QED BY <2>1, <3>1 DEF RangesTo
  <2>3. f = [s \in RangeOf(leaves) |-> f[s]]
    BY <2>1 DEF RangesTo
  <2>4. f = [s \in RangeOf(leaves) |-> RangeStep(leaves, f, s)]
    BY <2>2, <2>3
  <2> QED BY <2>4
<1>2. RangeHashes(leaves) = CHOOSE f : IsMth(f)
  BY Zenon DEF RangeHashes, RangeOf, RangeStep
<1>3. IsMth(RangeHashes(leaves))
  BY <1>1, <1>2, Zenon
<1>4. PICK f : f = RangeHashes(leaves)
  OBVIOUS
<1>5. f = [s \in RangeOf(leaves) |-> RangeStep(leaves, f, s)]
  BY <1>3, <1>4, Zenon
<1>6. f[r] = RangeStep(leaves, f, r)
  BY <1>5
<1> QED BY <1>4, <1>6, Zenon

----------------------------------------------------------------------------
(* The root is the one RFC 6962 defines *)

\* One level up: half as many nodes, rounded up.
LEMMA HalvedNodes ==
    ASSUME NEW level, Len(level) \in Nat
    PROVE  /\ Len(Halved(level)) = (Len(level) + 1) \div 2
           /\ Halved(level) \in Seq({Halved(level)[i] : i \in 1 .. (Len(level) + 1) \div 2})
           /\ \A i \in 1 .. (Len(level) + 1) \div 2 :
                 Halved(level)[i] = IF 2 * i <= Len(level) THEN node_hash(level[2 * i - 1], level[2 * i])
                                    ELSE level[2 * i - 1]
<1>1. PICK m \in Nat : m = (Len(level) + 1) \div 2
  OBVIOUS
<1>2. PICK h : h = Halved(level)
  OBVIOUS
<1>3. h = [i \in 1 .. m |-> IF 2 * i <= Len(level) THEN node_hash(level[2 * i - 1], level[2 * i])
                            ELSE level[2 * i - 1]]
  BY <1>1, <1>2, Zenon DEF Halved
<1>4. \A i \in 1 .. m : h[i] = IF 2 * i <= Len(level) THEN node_hash(level[2 * i - 1], level[2 * i])
                               ELSE level[2 * i - 1]
  BY <1>3, Zenon
<1>5. DOMAIN h = 1 .. m /\ h = [i \in 1 .. m |-> h[i]]
  BY <1>3
<1>6. h \in Seq({h[i] : i \in 1 .. m}) /\ Len(h) = m
  BY <1>5
<1> QED BY <1>1, <1>2, <1>4, <1>6, Zenon

\* A range of one leaf, and a range with its two parts.
LEMMA RangeLeaf ==
    ASSUME NEW leaves, Len(leaves) \in Nat, NEW a \in 1 .. Len(leaves)
    PROVE  RangeHashes(leaves)[<<a, a>>] = leaves[a]
<1>0. PICK r : r = <<a, a>>
  OBVIOUS
<1>1. r = <<a, a>> /\ r[1] = a /\ r[2] = a
  BY <1>0
<1>2. r \in RangeOf(leaves) /\ r[1] >= r[2]
  BY <1>1 DEF RangeOf
<1>3. RangeHashes(leaves)[r] = RangeStep(leaves, RangeHashes(leaves), r)
  BY <1>2, RangeDef
<1> QED BY <1>1, <1>2, <1>3, Zenon DEF RangeStep

LEMMA RangeNode ==
    ASSUME NEW leaves, Len(leaves) \in Nat, NEW a \in 1 .. Len(leaves), NEW b \in 1 .. Len(leaves),
           a < b, NEW k, k = Split(b - a + 1)
    PROVE  RangeHashes(leaves)[<<a, b>>]
             = node_hash(RangeHashes(leaves)[<<a, a + k - 1>>], RangeHashes(leaves)[<<a + k, b>>])
<1>0. PICK r : r = <<a, b>>
  OBVIOUS
<1>1. r = <<a, b>> /\ r[1] = a /\ r[2] = b
  BY <1>0
<1>2. r \in RangeOf(leaves) /\ ~(r[1] >= r[2])
  BY <1>1 DEF RangeOf
<1>3. RangeHashes(leaves)[r] = RangeStep(leaves, RangeHashes(leaves), r)
  BY <1>2, RangeDef
<1> QED BY <1>1, <1>2, <1>3, Zenon DEF RangeStep

\* The last leaf under the first b nodes of the level above n leaves.
EndOf(b, n) == IF 2 * b <= n THEN 2 * b ELSE n

\* The hash of a range of nodes is that of the leaves under them: RFC 6962's split of the
\* leaves never separates two that kt_log.rs has hashed together.
LEMMA RangeHalved ==
    ASSUME NEW level, Len(level) \in Nat \ {0}
    PROVE  \A a, b \in 1 .. Len(Halved(level)) : a <= b =>
              RangeHashes(Halved(level))[<<a, b>>]
                = RangeHashes(level)[<<2 * a - 1, EndOf(b, Len(level))>>]
<1>0. PICK up : up = Halved(level)
  OBVIOUS
<1>1. PICK n \in Nat \ {0}, m \in Nat : n = Len(level) /\ up = Halved(level) /\ m = Len(up)
  <2>1. Len(Halved(level)) = (Len(level) + 1) \div 2
    BY HalvedNodes
  <2>2. (Len(level) + 1) \div 2 \in Nat
    OBVIOUS
  <2>3. Len(up) \in Nat /\ up = Halved(level)
    BY <1>0, <2>1, <2>2, Zenon
  <2> QED BY <2>3, Zenon
<1>2. m = (n + 1) \div 2
  BY <1>1, HalvedNodes
<1>2a. \A i \in 1 .. m : up[i] = IF 2 * i <= n THEN node_hash(level[2 * i - 1], level[2 * i])
                               ELSE level[2 * i - 1]
  BY <1>1, <1>2, HalvedNodes
<1>3. PICK F, G : F = RangeHashes(level) /\ G = RangeHashes(up)
  OBVIOUS
<1>4. \A a \in 1 .. n : F[<<a, a>>] = level[a]
  BY <1>1, <1>3, RangeLeaf
<1>5. \A a \in 1 .. m : G[<<a, a>>] = up[a]
  BY <1>1, <1>3, RangeLeaf
<1>6. \A a, b \in 1 .. n : a < b => \A k : k = Split(b - a + 1) =>
         F[<<a, b>>] = node_hash(F[<<a, a + k - 1>>], F[<<a + k, b>>])
  <2>1. ASSUME NEW a \in 1 .. n, NEW b \in 1 .. n, a < b, NEW k, k = Split(b - a + 1)
        PROVE  F[<<a, b>>] = node_hash(F[<<a, a + k - 1>>], F[<<a + k, b>>])
    <3>1. Len(level) \in Nat /\ a \in 1 .. Len(level) /\ b \in 1 .. Len(level)
      BY <1>1
    <3> QED BY <1>3, <2>1, <3>1, RangeNode
  <2> QED BY <2>1, Zenon
<1>7. \A a, b \in 1 .. m : a < b => \A k : k = Split(b - a + 1) =>
         G[<<a, b>>] = node_hash(G[<<a, a + k - 1>>], G[<<a + k, b>>])
  <2>1. ASSUME NEW a \in 1 .. m, NEW b \in 1 .. m, a < b, NEW k, k = Split(b - a + 1)
        PROVE  G[<<a, b>>] = node_hash(G[<<a, a + k - 1>>], G[<<a + k, b>>])
    <3>1. Len(up) \in Nat /\ a \in 1 .. Len(up) /\ b \in 1 .. Len(up)
      BY <1>1
    <3> QED BY <1>3, <2>1, <3>1, RangeNode
  <2> QED BY <2>1, Zenon
<1> DEFINE Same(a, b) == G[<<a, b>>] = F[<<2 * a - 1, EndOf(b, n)>>]
           Bad == {d \in Nat : \E a, b \in 1 .. m : b - a = d /\ ~Same(a, b)}
<1>8. SUFFICES ASSUME Bad # {} PROVE FALSE
  <2>1. ASSUME NEW a \in 1 .. m, NEW b \in 1 .. m, a <= b PROVE Same(a, b)
    <3> HIDE DEF Same
    <3> SUFFICES ASSUME ~Same(a, b) PROVE FALSE
      OBVIOUS
    <3>1. b - a \in Bad
      BY <2>1
    <3> QED BY <1>8, <3>1
  <2> QED BY <1>1, <1>3, <2>1
<1>9. PICK d \in Bad : \A e \in Bad : d <= e
  BY <1>8, Least
<1>10. PICK a, b \in 1 .. m : b - a = d /\ ~Same(a, b)
  OBVIOUS
<1>11. ASSUME NEW x \in 1 .. m, NEW y \in 1 .. m, x <= y, y - x < d PROVE Same(x, y)
  <2> HIDE DEF Same
  <2> SUFFICES ASSUME ~Same(x, y) PROVE FALSE
    OBVIOUS
  <2>1. y - x \in Bad
    BY <1>11
  <2>2. d \in Nat /\ d <= y - x
    BY <1>9, <2>1
  <2> HIDE DEF Bad
  <2> QED BY <1>11, <2>2
<1>12. 2 * a - 1 \in 1 .. n /\ EndOf(b, n) \in 1 .. n
  BY <1>2 DEF EndOf
<1>13. CASE d = 0
  <2>1. a = b /\ G[<<a, b>>] = up[a]
    BY <1>5, <1>10, <1>13
  <2>2. CASE 2 * a <= n
    <3>1. EndOf(b, n) = 2 * a /\ 2 * a \in 1 .. n
      BY <2>1, <2>2, <1>12 DEF EndOf
    <3>2. Split(2) = 1
      <4>1. Split(2) \in Nat /\ 1 <= Split(2) /\ Split(2) < 2
        BY SplitIs
      <4> QED BY <4>1
    <3>3. F[<<2 * a - 1, 2 * a>>] = node_hash(F[<<2 * a - 1, 2 * a - 1>>], F[<<2 * a, 2 * a>>])
      <4>1. PICK p, q \in 1 .. n : p = 2 * a - 1 /\ q = 2 * a
        BY <1>12, <3>1
      <4>2. q - p + 1 = 2 /\ p < q /\ p + 1 - 1 = p /\ p + 1 = q
        BY <4>1
      <4>3. F[<<p, q>>] = node_hash(F[<<p, p + 1 - 1>>], F[<<p + 1, q>>])
        <5>1. 1 = Split(q - p + 1)
          BY <3>2, <4>2
        <5> QED BY <1>6, <4>2, <5>1, Zenon
      <4> QED BY <4>1, <4>2, <4>3
    <3>4. F[<<2 * a - 1, 2 * a - 1>>] = level[2 * a - 1] /\ F[<<2 * a, 2 * a>>] = level[2 * a]
      BY <1>4, <1>12, <3>1
    <3>5. up[a] = node_hash(level[2 * a - 1], level[2 * a])
      BY <1>2a, <2>2
    <3>6. F[<<2 * a - 1, EndOf(b, n)>>] = up[a]
      BY <3>1, <3>3, <3>4, <3>5
    <3> QED BY <1>10, <2>1, <3>6
  <2>3. CASE 2 * a > n
    <3>1. EndOf(b, n) = n /\ 2 * a - 1 = n
      BY <1>2, <2>1, <2>3 DEF EndOf
    <3>2. F[<<n, n>>] = level[n]
      BY <1>4
    <3>3. up[a] = level[n]
      <4>1. ~(2 * a <= n)
        BY <2>3
      <4>2. up[a] = level[2 * a - 1]
        BY <1>2a, <4>1, Zenon
      <4> QED BY <3>1, <4>2
    <3> QED BY <1>10, <2>1, <3>1, <3>2, <3>3
  <2> QED BY <2>2, <2>3
<1>14. CASE d # 0
  <2>1. PICK k : k = Split(b - a + 1)
    OBVIOUS
  <2>2. b - a + 1 \in Nat /\ b - a + 1 >= 2 /\ a < b
    BY <1>10, <1>14
  <2>3. k \in Nat /\ 1 <= k /\ k < b - a + 1
    BY <2>1, <2>2, SplitIs
  <2>4. Split(EndOf(b, n) - (2 * a - 1) + 1) = 2 * k
    <3>1. EndOf(b, n) - (2 * a - 1) + 1 \in {2 * (b - a + 1) - 1, 2 * (b - a + 1)}
      BY <1>2 DEF EndOf
    <3> QED BY <2>1, <2>2, <3>1, SplitDouble
  <2>5. G[<<a, b>>] = node_hash(G[<<a, a + k - 1>>], G[<<a + k, b>>])
    BY <1>7, <2>1, <2>2
  <2>6. 2 * a - 1 < EndOf(b, n)
    BY <1>2, <2>2 DEF EndOf
  <2>7. F[<<2 * a - 1, EndOf(b, n)>>]
           = node_hash(F[<<2 * a - 1, 2 * (a + k - 1)>>], F[<<2 * (a + k) - 1, EndOf(b, n)>>])
    <3>1. PICK p, q \in 1 .. n : p = 2 * a - 1 /\ q = EndOf(b, n)
      BY <1>12
    <3>2. p < q /\ p + 2 * k - 1 = 2 * (a + k - 1) /\ p + 2 * k = 2 * (a + k) - 1
      BY <2>3, <2>6, <3>1
    <3>3. PICK t : t = 2 * k /\ t = Split(q - p + 1)
      BY ONLY <2>4, <3>1, Zenon
    <3>4. F[<<p, q>>] = node_hash(F[<<p, p + t - 1>>], F[<<p + t, q>>])
      BY ONLY <1>6, <3>2, <3>3, p \in 1 .. n, q \in 1 .. n, Zenon
    <3>5. /\ F[<<p, p + t - 1>>] = F[<<2 * a - 1, 2 * (a + k - 1)>>]
          /\ F[<<p + t, q>>] = F[<<2 * (a + k) - 1, EndOf(b, n)>>]
      BY ONLY <3>1, <3>2, <3>3, Zenon
    <3> QED BY ONLY <3>1, <3>4, <3>5, Zenon
  <2>8. a + k - 1 \in 1 .. m /\ a + k \in 1 .. m
    BY <2>3
  <2>9. Same(a, a + k - 1) /\ Same(a + k, b)
    <3>1. a <= a + k - 1 /\ (a + k - 1) - a < d /\ a + k <= b /\ b - (a + k) < d
      BY <1>10, <2>3
    <3> HIDE DEF Same
    <3> QED BY <1>11, <2>8, <3>1
  <2>10. EndOf(a + k - 1, n) = 2 * (a + k - 1)
    BY <1>2, <2>3 DEF EndOf
  <2> QED BY <1>10, <2>5, <2>7, <2>9, <2>10, Zenon
<1> QED BY <1>13, <1>14

\* Every level has the tree hash of the leaves, and the last one has a single node.
LEMMA LevelsShrink ==
    ASSUME NEW leaves, Len(leaves) \in Nat \ {0}
    PROVE  \A k \in 0 .. Len(leaves) :
             /\ Len(Levels(leaves)[k]) \in Nat \ {0}
             /\ Len(Levels(leaves)[k]) <= (IF k < Len(leaves) THEN Len(leaves) - k ELSE 1)
             /\ MTH(Levels(leaves)[k]) = MTH(leaves)
<1>0. PICK lev : lev = Levels(leaves)
  OBVIOUS
<1>1. PICK n \in Nat \ {0} : n = Len(leaves) /\ lev = Levels(leaves)
  BY <1>0
<1>2. lev[0] = leaves /\ \A k \in 0 .. n : k # 0 => lev[k] = Halved(lev[k - 1])
  BY <1>1, LevelsDef
<1> DEFINE Fine(k) == /\ Len(lev[k]) \in Nat \ {0}
                      /\ Len(lev[k]) <= (IF k < n THEN n - k ELSE 1)
                      /\ MTH(lev[k]) = MTH(leaves)
           Bad == {k \in 0 .. n : ~Fine(k)}
<1>3. SUFFICES ASSUME Bad # {} PROVE FALSE
  BY <1>1
<1>4. Bad \subseteq Nat
  OBVIOUS
<1>5. PICK k \in Bad : \A j \in Bad : k <= j
  BY <1>3, <1>4, Least
<1>6. CASE k = 0
  BY <1>1, <1>2, <1>6
<1>7. CASE k # 0
  <2>1. k \in 0 .. n /\ k - 1 \in 0 .. n
    BY <1>7
  <2>2. Fine(k - 1)
    <3> HIDE DEF Fine
    <3> SUFFICES ASSUME ~Fine(k - 1) PROVE FALSE
      OBVIOUS
    <3>1. k - 1 \in Bad
      BY <2>1
    <3>2. k <= k - 1
      BY <1>5, <3>1
    <3> QED BY <2>1, <3>2
  <2>3a. PICK low : low = lev[k - 1]
    OBVIOUS
  <2>3. PICK m \in Nat \ {0} : low = lev[k - 1] /\ m = Len(low)
    BY <2>2, <2>3a
  <2>4. lev[k] = Halved(low)
    BY <1>2, <1>7, <2>1, <2>3
  <2>5. Len(Halved(low)) = (m + 1) \div 2
    BY <2>3, HalvedNodes
  <2>6. m <= (IF k - 1 < n THEN n - (k - 1) ELSE 1)
    BY <2>2, <2>3
  <2>7. (m + 1) \div 2 \in Nat \ {0} /\ (m + 1) \div 2 <= (IF k < n THEN n - k ELSE 1)
    BY <2>1, <2>6
  <2>8. MTH(Halved(low)) = MTH(low)
    <3>1. 1 \in 1 .. Len(Halved(low)) /\ Len(Halved(low)) \in 1 .. Len(Halved(low))
      BY <2>5, <2>7
    <3>2. EndOf((m + 1) \div 2, m) = m /\ 2 * 1 - 1 = 1
      BY DEF EndOf
    <3>3. RangeHashes(Halved(low))[<<1, Len(Halved(low))>>]
            = RangeHashes(low)[<<2 * 1 - 1, EndOf(Len(Halved(low)), Len(low))>>]
      <4>1. 1 <= Len(Halved(low)) /\ Len(low) \in Nat \ {0}
        <5>1. PICK p \in Nat \ {0} : p = (m + 1) \div 2
          BY <2>7
        <5>2. Len(Halved(low)) = p
          BY <2>5, <5>1
        <5> QED BY <2>3, <5>2
      <4> QED BY <3>1, <4>1, RangeHalved, Zenon
    <3>4. RangeHashes(low)[<<2 * 1 - 1, EndOf(Len(Halved(low)), Len(low))>>]
            = RangeHashes(low)[<<1, Len(low)>>]
      BY <2>3, <2>5, <3>2
    <3> QED BY <3>3, <3>4, Zenon DEF MTH
  <2>9. MTH(low) = MTH(leaves)
    BY <2>2, <2>3
  <2>10. Fine(k)
    BY <2>4, <2>5, <2>7, <2>8, <2>9
  <2> HIDE DEF Fine
  <2> QED BY <2>10
<1> QED BY <1>6, <1>7

\* The root kt_log.rs computes level by level is the one RFC 6962 defines.
LEMMA RootIsMTH ==
    ASSUME NEW leaves, Len(leaves) \in Nat \ {0}
    PROVE  compute_root(leaves) = MTH(leaves)
<1>0. PICK lev : lev = Levels(leaves)
  OBVIOUS
<1>1. PICK n \in Nat \ {0} : n = Len(leaves) /\ lev = Levels(leaves)
  BY <1>0
<1>2. Len(lev[n]) = 1 /\ MTH(lev[n]) = MTH(leaves)
  <2>1. n \in 0 .. Len(leaves) /\ ~(n < Len(leaves))
    BY <1>1
  <2>2. Len(lev[n]) \in Nat \ {0} /\ Len(lev[n]) <= 1 /\ MTH(lev[n]) = MTH(leaves)
    BY <1>1, <2>1, LevelsShrink
  <2>3. \A x \in Nat \ {0} : x <= 1 => x = 1
    OBVIOUS
  <2> QED BY <2>2, <2>3
<1>3. PICK low : low = lev[n - 1] /\ Len(low) \in Nat /\ lev[n] = Halved(low)
  <2>1. n \in 0 .. Len(leaves) /\ n - 1 \in 0 .. Len(leaves) /\ n # 0
    BY <1>1
  <2>2. Len(lev[n - 1]) \in Nat \ {0}
    BY <1>1, <2>1, LevelsShrink
  <2>3. lev[n] = Halved(lev[n - 1])
    BY <1>1, <2>1, LevelsDef
  <2> QED BY <2>2, <2>3
<1>4. PICK top, S : top = lev[n] /\ top \in Seq(S)
  BY <1>3, HalvedNodes
<1>5. Head(top) = top[1]
  <2>1. Len(top) = 1
    BY <1>2, <1>4
  <2> QED BY ONLY <1>4, <2>1
<1>6. MTH(top) = top[1]
  <2>1. RangeHashes(top)[<<1, 1>>] = top[1]
    BY <1>2, <1>4, RangeLeaf
  <2> QED BY <1>2, <1>4, <2>1 DEF MTH
<1>7. leaves # <<>>
  <2> SUFFICES ASSUME leaves = <<>> PROVE FALSE
    OBVIOUS
  <2> QED BY <1>1
<1> QED BY <1>1, <1>2, <1>4, <1>5, <1>6, <1>7 DEF compute_root

----------------------------------------------------------------------------
(* A root determines its log *)

\* The tags keep the hashes of leaves and nodes apart, and a hash tells what was hashed.
LEMMA LeafNotNode == ASSUME NEW e, NEW x, NEW y, leaf_hash(e) = node_hash(x, y) PROVE FALSE
<1>1. leaf_hash(e)[1] = "0x00" /\ node_hash(x, y)[1] = "0x01"
  BY DEF leaf_hash, node_hash
<1>2. "0x00" # "0x01"
  OBVIOUS
<1> QED BY <1>1, <1>2, Zenon

LEMMA LeafInjective == ASSUME NEW e, NEW f, leaf_hash(e) = leaf_hash(f) PROVE e = f
BY DEF leaf_hash

LEMMA NodeInjective ==
    ASSUME NEW x, NEW y, NEW u, NEW v, node_hash(x, y) = node_hash(u, v) PROVE x = u /\ y = v
BY DEF node_hash

\* The leaves of the tree are hashes of entries.
IsLeaves(s) == /\ Len(s) \in Nat /\ s = [i \in 1 .. Len(s) |-> s[i]]
               /\ \A i \in 1 .. Len(s) : \E e : s[i] = leaf_hash(e)

\* Two logs with the same hash over a range that starts at the same leaf have the same
\* leaves there, and as many of them.
LEMMA RangeInjective ==
    ASSUME NEW A, NEW B, IsLeaves(A), IsLeaves(B)
    PROVE  \A a, b \in 1 .. Len(A), c \in 1 .. Len(B) :
              /\ a \in 1 .. Len(B) /\ a <= b /\ a <= c
              /\ RangeHashes(A)[<<a, b>>] = RangeHashes(B)[<<a, c>>]
              => b = c /\ \A i \in a .. b : A[i] = B[i]
<1>1. PICK n, m \in Nat : n = Len(A) /\ m = Len(B)
  BY DEF IsLeaves
<1>2. PICK F, G : F = RangeHashes(A) /\ G = RangeHashes(B)
  OBVIOUS
<1>3. /\ \A a \in 1 .. n : F[<<a, a>>] = A[a]
      /\ \A a \in 1 .. m : G[<<a, a>>] = B[a]
  BY <1>1, <1>2, RangeLeaf
<1>4. ASSUME NEW a \in 1 .. n, NEW b \in 1 .. n, a < b, NEW k, k = Split(b - a + 1)
      PROVE  F[<<a, b>>] = node_hash(F[<<a, a + k - 1>>], F[<<a + k, b>>])
  <2>1. Len(A) \in Nat /\ a \in 1 .. Len(A) /\ b \in 1 .. Len(A)
    BY <1>1
  <2> QED BY <1>2, <1>4, <2>1, RangeNode
<1>5. ASSUME NEW a \in 1 .. m, NEW b \in 1 .. m, a < b, NEW k, k = Split(b - a + 1)
      PROVE  G[<<a, b>>] = node_hash(G[<<a, a + k - 1>>], G[<<a + k, b>>])
  <2>1. Len(B) \in Nat /\ a \in 1 .. Len(B) /\ b \in 1 .. Len(B)
    BY <1>1
  <2> QED BY <1>2, <1>5, <2>1, RangeNode
<1> DEFINE Same(a, b, c) == b = c /\ \A i \in a .. b : A[i] = B[i]
           Wrong(a, b, c) == F[<<a, b>>] = G[<<a, c>>] /\ ~Same(a, b, c)
           Ranges(a, b, c) == /\ a \in 1 .. n /\ b \in 1 .. n /\ a \in 1 .. m /\ c \in 1 .. m
                              /\ a <= b /\ a <= c
           Bad == {d \in Nat : \E a, b, c \in Nat : Ranges(a, b, c) /\ b - a = d /\ Wrong(a, b, c)}
<1>6. SUFFICES ASSUME Bad # {} PROVE FALSE
  <2>1. ASSUME NEW a \in 1 .. n, NEW b \in 1 .. n, NEW c \in 1 .. m, a \in 1 .. m,
               a <= b, a <= c, F[<<a, b>>] = G[<<a, c>>]
        PROVE  Same(a, b, c)
    <3> HIDE DEF Same
    <3> SUFFICES ASSUME ~Same(a, b, c) PROVE FALSE
      OBVIOUS
    <3>1. Wrong(a, b, c)
      BY <2>1
    <3> HIDE DEF Wrong
    <3>2. b - a \in Bad
      BY <2>1, <3>1
    <3> QED BY <1>6, <3>2
  <2>2. \A a, b \in 1 .. n, c \in 1 .. m :
           a \in 1 .. m /\ a <= b /\ a <= c /\ F[<<a, b>>] = G[<<a, c>>] => Same(a, b, c)
    <3> HIDE DEF Same
    <3> QED BY <2>1, Zenon
  <2> QED BY <1>1, <1>2, <2>2, Zenon
<1>7. Bad \subseteq Nat
  OBVIOUS
<1>8. PICK d \in Bad : \A e \in Bad : d <= e
  BY <1>6, <1>7, Least
<1>9. PICK a, b, c \in Nat : Ranges(a, b, c) /\ b - a = d /\ Wrong(a, b, c)
  OBVIOUS
<1>10. ASSUME NEW x \in Nat, NEW y \in Nat, NEW z \in Nat, Ranges(x, y, z), y - x < d,
              F[<<x, y>>] = G[<<x, z>>]
       PROVE  Same(x, y, z)
  <2> HIDE DEF Same
  <2> SUFFICES ASSUME ~Same(x, y, z) PROVE FALSE
    OBVIOUS
  <2>1. Wrong(x, y, z)
    BY <1>10
  <2> HIDE DEF Wrong
  <2>2. y - x \in Bad
    BY <1>10, <2>1
  <2>3. d \in Nat /\ d <= y - x
    BY <1>8, <2>2
  <2> HIDE DEF Bad
  <2> QED BY <1>10, <2>3
<1>11. (\E e : A[a] = leaf_hash(e)) /\ (\E e : B[a] = leaf_hash(e))
  BY <1>1, <1>9 DEF IsLeaves
<1>12. CASE a = b
  <2>1. F[<<a, b>>] = A[a]
    BY <1>3, <1>9, <1>12
  <2>2. CASE a = c
    <3>1. G[<<a, c>>] = B[a]
      BY <1>3, <1>9, <2>2
    <3>2. \A i \in a .. b : i = a
      BY <1>9, <1>12
    <3>3. Same(a, b, c)
      BY <1>9, <1>12, <2>1, <2>2, <3>1, <3>2
    <3> QED BY <1>9, <3>3
  <2>3. CASE a # c
    <3>1. a < c
      BY <1>9, <2>3
    <3>2. PICK l : l = Split(c - a + 1)
      OBVIOUS
    <3>3. G[<<a, c>>] = node_hash(G[<<a, a + l - 1>>], G[<<a + l, c>>])
      BY <1>5, <1>9, <3>1, <3>2
    <3>4. F[<<a, b>>] = G[<<a, c>>]
      BY <1>9
    <3>5. PICK e, u, v : leaf_hash(e) = node_hash(u, v)
      BY ONLY <1>11, <2>1, <3>3, <3>4, Zenon
    <3> QED BY ONLY <3>5, LeafNotNode
  <2> QED BY <2>2, <2>3
<1>13. CASE a # b
  <2>1. a < b /\ b - a + 1 \in Nat /\ b - a + 1 >= 2
    BY <1>9, <1>13
  <2>2. PICK k : k = Split(b - a + 1)
    OBVIOUS
  <2>3. k \in Nat /\ 1 <= k /\ k < b - a + 1
    BY <2>1, <2>2, SplitIs
  <2>4. F[<<a, b>>] = node_hash(F[<<a, a + k - 1>>], F[<<a + k, b>>])
    BY <1>4, <1>9, <2>1, <2>2
  <2>5. CASE a = c
    <3>1. G[<<a, c>>] = B[a]
      BY <1>3, <1>9, <2>5
    <3>2. F[<<a, b>>] = G[<<a, c>>]
      BY <1>9
    <3>3. PICK e, u, v : leaf_hash(e) = node_hash(u, v)
      BY ONLY <1>11, <2>4, <3>1, <3>2, Zenon
    <3> QED BY ONLY <3>3, LeafNotNode
  <2>6. CASE a # c
    <3>1. a < c /\ c - a + 1 \in Nat /\ c - a + 1 >= 2
      BY <1>9, <2>6
    <3>2. PICK l : l = Split(c - a + 1)
      OBVIOUS
    <3>3. l \in Nat /\ 1 <= l /\ l < c - a + 1
      BY <3>1, <3>2, SplitIs
    <3>4. G[<<a, c>>] = node_hash(G[<<a, a + l - 1>>], G[<<a + l, c>>])
      BY <1>5, <1>9, <3>1, <3>2
    <3>5. F[<<a, a + k - 1>>] = G[<<a, a + l - 1>>] /\ F[<<a + k, b>>] = G[<<a + l, c>>]
      <4>1. F[<<a, b>>] = G[<<a, c>>]
        BY <1>9
      <4>2. PICK p, q, u, v : /\ p = F[<<a, a + k - 1>>] /\ q = F[<<a + k, b>>]
                              /\ u = G[<<a, a + l - 1>>] /\ v = G[<<a + l, c>>]
        OBVIOUS
      <4>3. node_hash(p, q) = node_hash(u, v)
        BY ONLY <2>4, <3>4, <4>1, <4>2, Zenon
      <4>4. p = u /\ q = v
        BY ONLY <4>3, NodeInjective
      <4> QED BY ONLY <4>2, <4>4, Zenon
    <3>6. Same(a, a + k - 1, a + l - 1)
      <4>1. PICK y, z \in Nat : y = a + k - 1 /\ z = a + l - 1
        BY <1>9, <2>3, <3>3
      <4>2. Ranges(a, y, z) /\ y - a < d
        BY <1>9, <2>3, <3>3, <4>1
      <4>3. F[<<a, y>>] = G[<<a, z>>]
        BY <3>5, <4>1
      <4> HIDE DEF Same, Ranges
      <4> QED BY <1>10, <4>1, <4>2, <4>3
    <3>7. k = l
      BY <1>9, <2>3, <3>3, <3>6
    <3>8. Same(a + k, b, c)
      <4>1. PICK x \in Nat : x = a + k
        BY <1>9, <2>3
      <4>2. Ranges(x, b, c) /\ b - x < d
        BY <1>9, <2>3, <3>3, <3>7, <4>1
      <4>3. F[<<x, b>>] = G[<<x, c>>]
        BY <3>5, <3>7, <4>1
      <4> HIDE DEF Same, Ranges
      <4> QED BY <1>10, <4>1, <4>2, <4>3
    <3>9. ASSUME NEW i \in a .. b PROVE A[i] = B[i]
      <4>1. i \in a .. a + k - 1 \/ i \in a + k .. b
        BY <1>9, <2>3
      <4> QED BY <3>6, <3>8, <4>1
    <3>10. Same(a, b, c)
      BY <3>8, <3>9
    <3> HIDE DEF Same
    <3> QED BY <1>9, <3>10
  <2> QED BY <2>5, <2>6
<1> QED BY <1>12, <1>13

\* Two logs with the same root are the same log.
LEMMA RootInjective ==
    ASSUME NEW A, NEW B, IsLeaves(A), IsLeaves(B), Len(A) # 0, Len(B) # 0,
           compute_root(A) = compute_root(B)
    PROVE  Len(A) = Len(B) /\ \A i \in 1 .. Len(A) : A[i] = B[i]
<1>1. Len(A) \in Nat \ {0} /\ Len(B) \in Nat \ {0}
  BY DEF IsLeaves
<1>2. RangeHashes(A)[<<1, Len(A)>>] = RangeHashes(B)[<<1, Len(B)>>]
  BY <1>1, RootIsMTH DEF MTH
<1>3. /\ 1 \in 1 .. Len(A) /\ 1 \in 1 .. Len(B) /\ Len(A) \in 1 .. Len(A) /\ Len(B) \in 1 .. Len(B)
      /\ 1 <= Len(A) /\ 1 <= Len(B)
  BY <1>1
<1>4. \A a, b \in 1 .. Len(A), c \in 1 .. Len(B) :
         /\ a \in 1 .. Len(B) /\ a <= b /\ a <= c
         /\ RangeHashes(A)[<<a, b>>] = RangeHashes(B)[<<a, c>>]
         => b = c /\ \A i \in a .. b : A[i] = B[i]
  BY RangeInjective
<1> QED BY <1>2, <1>3, <1>4, Zenon

----------------------------------------------------------------------------
(* What the browser computes *)

\* Climbing from a leaf along a proof ends at v.
ClimbEnd(leaf, proof, v) == \E h : ClimbTo(leaf, proof, Len(proof), h) /\ h[Len(proof)] = v

LEMMA ClimbSteps ==
    ASSUME NEW leaf, NEW proof, NEW n \in Nat, NEW h, ClimbTo(leaf, proof, n, h)
    PROVE  h[0] = leaf /\ \A k \in 0 .. n : k # 0 => h[k] = Up(proof[k], h[k - 1])
<1>1. h = [k \in 0 .. n |-> IF k = 0 THEN leaf ELSE Up(proof[k], h[k - 1])]
  BY Zenon DEF ClimbTo
<1>2. ASSUME NEW k \in 0 .. n PROVE h[k] = IF k = 0 THEN leaf ELSE Up(proof[k], h[k - 1])
  BY <1>1, Zenon
<1>3. 0 \in 0 .. n
  OBVIOUS
<1> QED BY <1>2, <1>3, Zenon

\* A climb has one end.
LEMMA ClimbUnique ==
    ASSUME NEW leaf, NEW proof, Len(proof) \in Nat, NEW v, NEW w,
           ClimbEnd(leaf, proof, v), ClimbEnd(leaf, proof, w)
    PROVE  v = w
<1>1. PICK n \in Nat : n = Len(proof)
  OBVIOUS
<1>2. PICK g : ClimbTo(leaf, proof, n, g) /\ g[n] = v
  BY <1>1 DEF ClimbEnd
<1>3. PICK h : ClimbTo(leaf, proof, n, h) /\ h[n] = w
  BY <1>1 DEF ClimbEnd
<1>4. g[0] = leaf /\ \A k \in 0 .. n : k # 0 => g[k] = Up(proof[k], g[k - 1])
  BY <1>2, ClimbSteps
<1>5. h[0] = leaf /\ \A k \in 0 .. n : k # 0 => h[k] = Up(proof[k], h[k - 1])
  BY <1>3, ClimbSteps
<1> DEFINE Bad == {k \in 0 .. n : g[k] # h[k]}
<1>6. Bad = {}
  <2>1. SUFFICES ASSUME Bad # {} PROVE FALSE
    OBVIOUS
  <2>2. Bad \subseteq Nat
    OBVIOUS
  <2>3. PICK k \in Bad : \A j \in Bad : k <= j
    BY <2>1, <2>2, Least
  <2>4. k # 0
    BY <1>4, <1>5
  <2>5. k - 1 \in 0 .. n /\ k \in 0 .. n
    BY <2>4
  <2>6. g[k - 1] = h[k - 1]
    <3> SUFFICES ASSUME g[k - 1] # h[k - 1] PROVE FALSE
      OBVIOUS
    <3>1. k - 1 \in Bad
      BY <2>5
    <3> QED BY <2>3, <2>5, <3>1
  <2>7. g[k] = Up(proof[k], g[k - 1]) /\ h[k] = Up(proof[k], h[k - 1])
    BY <1>4, <1>5, <2>4, <2>5
  <2> QED BY <2>6, <2>7
<1> QED BY <1>2, <1>3, <1>6

\* No siblings, no climb.
LEMMA ClimbNone == ASSUME NEW leaf PROVE ClimbEnd(leaf, <<>>, leaf)
<1>1. Len(<<>>) = 0
  OBVIOUS
<1>2. PICK h : ClimbTo(leaf, <<>>, 0, h)
  BY ClimbExist
<1>3. h[0] = leaf
  BY <1>2, ClimbSteps
<1> QED BY <1>1, <1>2, <1>3, Zenon DEF ClimbEnd

\* One sibling more, one node higher.
LEMMA ClimbMore ==
    ASSUME NEW S, NEW proof \in Seq(S), NEW x \in S, NEW leaf, NEW v, ClimbEnd(leaf, proof, v)
    PROVE  ClimbEnd(leaf, proof \o <<x>>, Up(x, v))
<1>1. PICK n \in Nat : n = Len(proof)
  OBVIOUS
<1>2. PICK long : long = proof \o <<x>>
  OBVIOUS
<1>3. Len(long) = n + 1 /\ long[n + 1] = x /\ \A k \in 1 .. n : long[k] = proof[k]
  BY <1>1, <1>2
<1>4. PICK g : ClimbTo(leaf, proof, n, g) /\ g[n] = v
  BY <1>1 DEF ClimbEnd
<1>5. g[0] = leaf /\ \A k \in 0 .. n : k # 0 => g[k] = Up(proof[k], g[k - 1])
  BY <1>4, ClimbSteps
<1>6. PICK h : h = [k \in 0 .. n + 1 |-> IF k = n + 1 THEN Up(x, v) ELSE g[k]]
  OBVIOUS
<1>7. ASSUME NEW k \in 0 .. n + 1
      PROVE  h[k] = IF k = 0 THEN leaf ELSE Up(long[k], h[k - 1])
  <2>1. CASE k = 0
    BY <1>5, <1>6, <2>1
  <2>2. CASE k = n + 1
    <3>1. h[k - 1] = g[n]
      BY <1>6, <2>2
    <3> QED BY <1>3, <1>4, <1>6, <2>2, <3>1
  <2>3. CASE k # 0 /\ k # n + 1
    <3>1. k \in 1 .. n /\ k \in 0 .. n /\ k - 1 \in 0 .. n + 1 /\ k - 1 # n + 1
      BY <2>3
    <3>2. h[k] = g[k] /\ h[k - 1] = g[k - 1]
      BY <1>6, <2>3, <3>1
    <3>3. g[k] = Up(long[k], g[k - 1])
      BY <1>3, <1>5, <2>3, <3>1
    <3> QED BY <2>3, <3>2, <3>3
  <2> QED BY <2>1, <2>2, <2>3
<1>8. h = [k \in 0 .. n + 1 |-> IF k = 0 THEN leaf ELSE Up(long[k], h[k - 1])]
  BY <1>6, <1>7
<1>9. ClimbTo(leaf, long, n + 1, h)
  BY <1>8, Zenon DEF ClimbTo
<1>10. h[n + 1] = Up(x, v)
  BY <1>6
<1> QED BY <1>2, <1>3, <1>9, <1>10, Zenon DEF ClimbEnd

\* What the browser answers.
LEMMA VerifyIs ==
    ASSUME NEW leaf, NEW proof, Len(proof) \in Nat, NEW v, ClimbEnd(leaf, proof, v), NEW root
    PROVE  kt_verify_inclusion(leaf, proof, root) <=> v = root
<1>1. PICK h : /\ ClimbTo(leaf, proof, Len(proof), h)
               /\ kt_verify_inclusion(leaf, proof, root) <=> h[Len(proof)] = root
  BY ClimbDef
<1>2. ClimbEnd(leaf, proof, h[Len(proof)])
  BY <1>1, Zenon DEF ClimbEnd
<1>3. h[Len(proof)] = v
  BY <1>2, ClimbUnique
<1> QED BY <1>1, <1>3, Zenon

----------------------------------------------------------------------------
(* A proof leads from its leaf to the root *)

\* Half of a position: the node above node p.
LEMMA HalfPosition ==
    ASSUME NEW m \in Nat, NEW p \in 0 .. m - 1
    PROVE  /\ p \div 2 \in 0 .. (m + 1) \div 2 - 1
           /\ \/ p % 2 = 1 /\ p = 2 * (p \div 2) + 1 /\ 2 * (p \div 2 + 1) <= m
              \/ p % 2 # 1 /\ p = 2 * (p \div 2)
<1>1. p = 2 * (p \div 2) + (p % 2) /\ p % 2 \in 0 .. 1 /\ p \div 2 \in Nat
  OBVIOUS
<1> QED BY <1>1

\* One step of the climb: a node and its sibling, if it has one, give the node above.
SiblingOf(level, p, v, S) ==
    \/ \E x \in S : Sibling(level, p) = <<x>> /\ v = Up(x, level[p + 1])
    \/ Sibling(level, p) = <<>> /\ v = level[p + 1]

LEMMA ClimbStep ==
    ASSUME NEW level, Len(level) \in Nat, NEW p \in 0 .. Len(level) - 1, NEW S,
           Sibling(level, p) # <<>> => Sibling(level, p)[1] \in S
    PROVE  SiblingOf(level, p, Halved(level)[p \div 2 + 1], S)
<1>1. PICK m \in Nat : m = Len(level)
  OBVIOUS
<1>2. PICK i : i = p \div 2 + 1
  OBVIOUS
<1>3. /\ i \in 1 .. (m + 1) \div 2
      /\ \/ p % 2 = 1 /\ p = 2 * i - 1 /\ 2 * i <= m
         \/ p % 2 # 1 /\ p = 2 * i - 2
  BY <1>1, <1>2, HalfPosition
<1>4. Halved(level)[i] = IF 2 * i <= m THEN node_hash(level[2 * i - 1], level[2 * i])
                         ELSE level[2 * i - 1]
  BY <1>1, <1>3, HalvedNodes
<1>5. PICK sib : sib = Sibling(level, p)
  OBVIOUS
<1>6. CASE p % 2 = 1
  <2>1. PICK x : x = [left |-> TRUE, hash |-> level[p]]
    OBVIOUS
  <2>2. sib = <<x>>
    BY <1>5, <1>6, <2>1 DEF Sibling
  <2>3. x \in S
    BY <1>5, <2>2
  <2>4. p = 2 * i - 1 /\ p + 1 = 2 * i /\ 2 * i <= m
    BY <1>3, <1>6
  <2>5. Up(x, level[p + 1]) = node_hash(level[p], level[p + 1])
    <3>1. x.left /\ x.hash = level[p]
      BY <2>1
    <3> QED BY <3>1 DEF Up
  <2>6. Halved(level)[i] = Up(x, level[p + 1])
    BY <1>4, <2>4, <2>5
  <2> QED BY <1>2, <1>5, <2>2, <2>3, <2>6 DEF SiblingOf
<1>7. CASE p % 2 # 1 /\ p + 1 < m
  <2>1. PICK x : x = [left |-> FALSE, hash |-> level[p + 2]]
    OBVIOUS
  <2>2. sib = <<x>>
    BY <1>1, <1>5, <1>7, <2>1 DEF Sibling
  <2>3. x \in S
    BY <1>5, <2>2
  <2>4. p + 1 = 2 * i - 1 /\ p + 2 = 2 * i /\ 2 * i <= m
    BY <1>3, <1>7
  <2>5. Up(x, level[p + 1]) = node_hash(level[p + 1], level[p + 2])
    <3>1. ~x.left /\ x.hash = level[p + 2]
      BY <2>1
    <3> QED BY <3>1 DEF Up
  <2>6. Halved(level)[i] = Up(x, level[p + 1])
    BY <1>4, <2>4, <2>5
  <2> QED BY <1>2, <1>5, <2>2, <2>3, <2>6 DEF SiblingOf
<1>8. CASE p % 2 # 1 /\ ~(p + 1 < m)
  <2>1. sib = <<>>
    BY <1>1, <1>5, <1>8 DEF Sibling
  <2>2. p + 1 = 2 * i - 1 /\ ~(2 * i <= m)
    BY <1>1, <1>3, <1>8
  <2>3. Halved(level)[i] = level[p + 1]
    BY <1>4, <2>2
  <2> QED BY <1>2, <1>5, <2>1, <2>3 DEF SiblingOf
<1> QED BY <1>6, <1>7, <1>8

\* The path from a leaf, level by level.
OnPath(leaves, idx, path) ==
    /\ path[0] = <<>>
    /\ \A k \in 0 .. Len(leaves) : k # 0 =>
         path[k] = path[k - 1] \o Sibling(Levels(leaves)[k - 1], Positions(idx, Len(leaves))[k - 1])
    /\ inclusion_proof(leaves, idx) = path[Len(leaves)]

\* The leaf stands in each level under its position.
LEMMA PositionsIn ==
    ASSUME NEW leaves, Len(leaves) \in Nat \ {0}, NEW idx \in 0 .. Len(leaves) - 1
    PROVE  \A k \in 0 .. Len(leaves) :
              Positions(idx, Len(leaves))[k] \in 0 .. Len(Levels(leaves)[k]) - 1
<1>0. PICK lev, pos : lev = Levels(leaves) /\ pos = Positions(idx, Len(leaves))
  OBVIOUS
<1>1. PICK n \in Nat \ {0} : n = Len(leaves)
  OBVIOUS
<1>2. lev[0] = leaves /\ \A k \in 0 .. n : k # 0 => lev[k] = Halved(lev[k - 1])
  BY <1>0, <1>1, LevelsDef
<1>3. pos[0] = idx /\ \A k \in 0 .. n : k # 0 => pos[k] = pos[k - 1] \div 2
  BY <1>0, <1>1, PositionsDef
<1>4. \A k \in 0 .. n : Len(lev[k]) \in Nat \ {0}
  BY <1>0, <1>1, LevelsShrink
<1> DEFINE Bad == {k \in 0 .. n : pos[k] \notin 0 .. Len(lev[k]) - 1}
<1>5. SUFFICES ASSUME Bad # {} PROVE FALSE
  BY <1>0, <1>1
<1>6. Bad \subseteq Nat
  OBVIOUS
<1>7. PICK k \in Bad : \A j \in Bad : k <= j
  BY <1>5, <1>6, Least
<1>8. k # 0
  BY <1>1, <1>2, <1>3
<1>9. k - 1 \in 0 .. n /\ k \in 0 .. n
  BY <1>8
<1>10. pos[k - 1] \in 0 .. Len(lev[k - 1]) - 1
  <2> SUFFICES ASSUME pos[k - 1] \notin 0 .. Len(lev[k - 1]) - 1 PROVE FALSE
    OBVIOUS
  <2>1. k - 1 \in Bad
    BY <1>9
  <2> QED BY <1>7, <1>9, <2>1
<1>11. PICK m \in Nat : m = Len(lev[k - 1])
  BY <1>4, <1>9
<1>12. PICK p \in 0 .. m - 1 : p = pos[k - 1]
  BY <1>10, <1>11
<1>13. p \div 2 \in 0 .. (m + 1) \div 2 - 1
  BY HalfPosition
<1>14. Len(lev[k]) = (m + 1) \div 2
  BY <1>2, <1>8, <1>9, <1>11, HalvedNodes
<1>15. pos[k] = p \div 2
  BY <1>3, <1>8, <1>9, <1>12
<1> QED BY <1>13, <1>14, <1>15

\* inclusion_proof is complete: from the leaf it leads to the root of its own log.
LEMMA ProofComplete ==
    ASSUME NEW leaves, Len(leaves) \in Nat \ {0}, NEW idx \in 0 .. Len(leaves) - 1
    PROVE  /\ Len(inclusion_proof(leaves, idx)) \in Nat
           /\ ClimbEnd(leaves[idx + 1], inclusion_proof(leaves, idx), compute_root(leaves))
<1>0. PICK lev, pos, path : /\ lev = Levels(leaves) /\ pos = Positions(idx, Len(leaves))
                            /\ OnPath(leaves, idx, path)
  BY PathDef DEF OnPath
<1>1. PICK n \in Nat \ {0} : n = Len(leaves)
  OBVIOUS
<1>2. lev[0] = leaves /\ \A k \in 0 .. n : k # 0 => lev[k] = Halved(lev[k - 1])
  BY <1>0, <1>1, LevelsDef
<1>3. pos[0] = idx /\ \A k \in 0 .. n : k # 0 => pos[k] = pos[k - 1] \div 2
  BY <1>0, <1>1, PositionsDef
<1>4. \A k \in 0 .. n : Len(lev[k]) \in Nat \ {0} /\ pos[k] \in 0 .. Len(lev[k]) - 1
  BY <1>0, <1>1, LevelsShrink, PositionsIn
<1> DEFINE Sib(k) == Sibling(lev[k], pos[k])
           S == {Sib(k)[1] : k \in 0 .. n}
<1>5. /\ path[0] = <<>>
      /\ \A k \in 0 .. n : k # 0 => path[k] = path[k - 1] \o Sib(k - 1)
      /\ inclusion_proof(leaves, idx) = path[n]
  BY <1>0, <1>1, Zenon DEF OnPath
<1>6. \A k \in 0 .. n : SiblingOf(lev[k], pos[k], Halved(lev[k])[pos[k] \div 2 + 1], S)
  <2> TAKE k \in 0 .. n
  <2>1. Sib(k)[1] \in S
    OBVIOUS
  <2> HIDE DEF S
  <2> QED BY <1>4, <2>1, ClimbStep
<1> HIDE DEF S
<1> DEFINE Fine(k) == path[k] \in Seq(S) /\ ClimbEnd(leaves[idx + 1], path[k], lev[k][pos[k] + 1])
           Bad == {k \in 0 .. n : ~Fine(k)}
<1>7. Bad = {}
  <2>1. SUFFICES ASSUME Bad # {} PROVE FALSE
    OBVIOUS
  <2>2. Bad \subseteq Nat
    OBVIOUS
  <2>3. PICK k \in Bad : \A j \in Bad : k <= j
    BY <2>1, <2>2, Least
  <2>4. CASE k = 0
    <3>1. ClimbEnd(leaves[idx + 1], <<>>, leaves[idx + 1])
      BY ClimbNone
    <3>2. <<>> \in Seq(S)
      OBVIOUS
    <3>3. Fine(0)
      BY <1>2, <1>3, <1>5, <3>1, <3>2
    <3> HIDE DEF Fine
    <3> QED BY <2>4, <3>3
  <2>5. CASE k # 0
    <3>1. k - 1 \in 0 .. n /\ k \in 0 .. n
      BY <2>5
    <3>2. Fine(k - 1)
      <4> HIDE DEF Fine
      <4> SUFFICES ASSUME ~Fine(k - 1) PROVE FALSE
        OBVIOUS
      <4>1. k - 1 \in Bad
        BY <3>1
      <4> QED BY <2>3, <3>1, <4>1
    <3>3. lev[k] = Halved(lev[k - 1]) /\ pos[k] = pos[k - 1] \div 2 /\ path[k] = path[k - 1] \o Sib(k - 1)
      BY <1>2, <1>3, <1>5, <2>5, <3>1
    <3>4. SiblingOf(lev[k - 1], pos[k - 1], lev[k][pos[k] + 1], S)
      BY <1>6, <3>1, <3>3
    <3>5. PICK old, leaf, low, v : /\ old = path[k - 1] /\ leaf = leaves[idx + 1]
                                   /\ low = lev[k - 1][pos[k - 1] + 1] /\ v = lev[k][pos[k] + 1]
      OBVIOUS
    <3>6. old \in Seq(S) /\ ClimbEnd(leaf, old, low)
      BY <3>2, <3>5
    <3>7. CASE \E x \in S : Sib(k - 1) = <<x>> /\ v = Up(x, low)
      <4>1. PICK x \in S : Sib(k - 1) = <<x>> /\ v = Up(x, low)
        BY <3>7
      <4>2. ClimbEnd(leaf, old \o <<x>>, v)
        BY <3>6, <4>1, ClimbMore
      <4>3. old \o <<x>> \in Seq(S)
        BY <3>6
      <4>4. path[k] = old \o <<x>>
        BY <3>3, <3>5, <4>1, Zenon
      <4>5. Fine(k)
        BY <3>5, <4>2, <4>3, <4>4, Zenon
      <4> HIDE DEF Fine
      <4> QED BY <4>5
    <3>8. CASE Sib(k - 1) = <<>> /\ v = low
      <4>1. old \o <<>> = old
        BY <3>6
      <4>2. path[k] = old
        BY <3>3, <3>5, <3>8, <4>1, Zenon
      <4>3. Fine(k)
        BY <3>5, <3>6, <3>8, <4>2, Zenon
      <4> HIDE DEF Fine
      <4> QED BY <4>3
    <3> QED BY <3>4, <3>5, <3>7, <3>8, Zenon DEF SiblingOf
  <2> QED BY <2>4, <2>5
<1>8. n \in 0 .. n
  OBVIOUS
<1>9. path[n] \in Seq(S) /\ ClimbEnd(leaves[idx + 1], path[n], lev[n][pos[n] + 1])
  BY <1>7, <1>8
<1>10. lev[n][pos[n] + 1] = compute_root(leaves)
  <2>1. Len(lev[n]) = 1
    <3>1. n \in 0 .. Len(leaves) /\ ~(n < Len(leaves))
      BY <1>1
    <3>2. Len(lev[n]) \in Nat \ {0} /\ Len(lev[n]) <= 1
      BY <1>0, <1>1, <3>1, LevelsShrink
    <3>3. \A x \in Nat \ {0} : x <= 1 => x = 1
      OBVIOUS
    <3> QED BY <3>2, <3>3
  <2>2. pos[n] \in 0 .. Len(lev[n]) - 1
    BY <1>4, <1>8
  <2>3. pos[n] + 1 = 1
    BY <2>1, <2>2
  <2>4. MTH(lev[n]) = lev[n][1]
    <3>1. RangeHashes(lev[n])[<<1, 1>>] = lev[n][1]
      BY <2>1, RangeLeaf
    <3> QED BY <2>1, <3>1 DEF MTH
  <2>5. MTH(lev[n]) = MTH(leaves)
    BY <1>0, <1>1, <1>8, LevelsShrink
  <2>6. compute_root(leaves) = MTH(leaves)
    BY RootIsMTH
  <2> QED BY <2>3, <2>4, <2>5, <2>6
<1>11. Len(path[n]) \in Nat
  BY <1>9
<1> QED BY <1>5, <1>9, <1>10, <1>11, Zenon

----------------------------------------------------------------------------
(* A proof convinces of nothing else *)

\* Two levels of the same length that differ in node p at most.
SameBut(A, B, p) ==
    /\ Len(A) = Len(B) /\ Len(A) \in Nat /\ p \in 0 .. Len(A) - 1
    /\ \A i \in 1 .. Len(A) : i # p + 1 => A[i] = B[i]

\* The sibling of a node does not depend on the node, and the levels above differ in the
\* node above it at most.
LEMMA SiblingSame ==
    ASSUME NEW A, NEW B, NEW p, SameBut(A, B, p)
    PROVE  Sibling(A, p) = Sibling(B, p) /\ SameBut(Halved(A), Halved(B), p \div 2)
<1>1. PICK m \in Nat : m = Len(A) /\ m = Len(B) /\ p \in 0 .. m - 1
  BY DEF SameBut
<1>2. \A i \in 1 .. m : i # p + 1 => A[i] = B[i]
  BY <1>1 DEF SameBut
<1>3. /\ p \div 2 \in 0 .. (m + 1) \div 2 - 1
      /\ \/ p % 2 = 1 /\ p = 2 * (p \div 2) + 1 /\ 2 * (p \div 2 + 1) <= m
         \/ p % 2 # 1 /\ p = 2 * (p \div 2)
  BY <1>1, HalfPosition
<1>4. Sibling(A, p) = Sibling(B, p)
  <2>1. CASE p % 2 = 1
    <3>1. p \in 1 .. m /\ p # p + 1
      BY <1>1, <1>3, <2>1
    <3>2. A[p] = B[p]
      BY <1>2, <3>1
    <3> QED BY <2>1, <3>2 DEF Sibling
  <2>2. CASE p % 2 # 1 /\ p + 1 < m
    <3>1. p + 2 \in 1 .. m /\ p + 2 # p + 1
      BY <1>1, <2>2
    <3>2. A[p + 2] = B[p + 2]
      BY <1>2, <3>1
    <3> QED BY <1>1, <2>2, <3>2 DEF Sibling
  <2>3. CASE p % 2 # 1 /\ ~(p + 1 < m)
    BY <1>1, <2>3 DEF Sibling
  <2> QED BY <2>1, <2>2, <2>3
<1>5. Len(Halved(A)) = (m + 1) \div 2 /\ Len(Halved(B)) = (m + 1) \div 2
  BY <1>1, HalvedNodes
<1>6. ASSUME NEW i \in 1 .. (m + 1) \div 2, i # p \div 2 + 1 PROVE Halved(A)[i] = Halved(B)[i]
  <2>1. /\ Halved(A)[i] = IF 2 * i <= m THEN node_hash(A[2 * i - 1], A[2 * i]) ELSE A[2 * i - 1]
        /\ Halved(B)[i] = IF 2 * i <= m THEN node_hash(B[2 * i - 1], B[2 * i]) ELSE B[2 * i - 1]
    BY <1>1, HalvedNodes
  <2>2. 2 * i - 1 \in 1 .. m /\ 2 * i - 1 # p + 1 /\ (2 * i <= m => 2 * i \in 1 .. m /\ 2 * i # p + 1)
    BY <1>1, <1>3, <1>6
  <2>3. A[2 * i - 1] = B[2 * i - 1] /\ (2 * i <= m => A[2 * i] = B[2 * i])
    BY <1>2, <2>2
  <2> QED BY <2>1, <2>3
<1>7. PICK q, h : q = p \div 2 /\ h = (m + 1) \div 2 /\ q \in Nat /\ h \in Nat
  <2>1. p \div 2 \in Nat /\ (m + 1) \div 2 \in Nat
    BY <1>1, <1>3
  <2> QED BY <2>1, Zenon
<1>8. PICK HA, HB : HA = Halved(A) /\ HB = Halved(B)
  OBVIOUS
<1>9. SameBut(HA, HB, q)
  BY <1>3, <1>5, <1>6, <1>7, <1>8 DEF SameBut
<1> QED BY <1>4, <1>7, <1>8, <1>9

\* The proof does not depend on the leaf it is made for: it consists of the others.
LEMMA ProofSame ==
    ASSUME NEW A, NEW B, NEW idx, SameBut(A, B, idx)
    PROVE  inclusion_proof(A, idx) = inclusion_proof(B, idx)
<1>1. PICK n \in Nat \ {0} : n = Len(A) /\ n = Len(B) /\ idx \in 0 .. n - 1
  BY DEF SameBut
<1>2. PICK f, levA : levA = Levels(A) /\ OnPath(A, idx, f)
  BY <1>1, PathDef DEF OnPath
<1>3. PICK g, levB : levB = Levels(B) /\ OnPath(B, idx, g)
  BY <1>1, PathDef DEF OnPath
<1>4. PICK pos : pos = Positions(idx, n)
  OBVIOUS
<1>5. pos[0] = idx /\ \A k \in 0 .. n : k # 0 => pos[k] = pos[k - 1] \div 2
  BY <1>4, PositionsDef
<1>6. /\ levA[0] = A /\ \A k \in 0 .. n : k # 0 => levA[k] = Halved(levA[k - 1])
      /\ levB[0] = B /\ \A k \in 0 .. n : k # 0 => levB[k] = Halved(levB[k - 1])
  BY <1>1, <1>2, <1>3, LevelsDef
<1>7. /\ f[0] = <<>> /\ \A k \in 0 .. n : k # 0 => f[k] = f[k - 1] \o Sibling(levA[k - 1], pos[k - 1])
      /\ inclusion_proof(A, idx) = f[n]
  BY <1>1, <1>2, <1>4, Zenon DEF OnPath
<1>8. /\ g[0] = <<>> /\ \A k \in 0 .. n : k # 0 => g[k] = g[k - 1] \o Sibling(levB[k - 1], pos[k - 1])
      /\ inclusion_proof(B, idx) = g[n]
  BY <1>1, <1>3, <1>4, Zenon DEF OnPath
<1> DEFINE Fine(k) == f[k] = g[k] /\ SameBut(levA[k], levB[k], pos[k])
           Bad == {k \in 0 .. n : ~Fine(k)}
<1>9. Bad = {}
  <2>1. SUFFICES ASSUME Bad # {} PROVE FALSE
    OBVIOUS
  <2>2. Bad \subseteq Nat
    OBVIOUS
  <2>3. PICK k \in Bad : \A j \in Bad : k <= j
    BY <2>1, <2>2, Least
  <2>4. CASE k = 0
    <3>1. Fine(0)
      BY <1>5, <1>6, <1>7, <1>8
    <3> HIDE DEF Fine
    <3> QED BY <2>4, <3>1
  <2>5. CASE k # 0
    <3>1. k - 1 \in 0 .. n /\ k \in 0 .. n
      BY <2>5
    <3>2. Fine(k - 1)
      <4> HIDE DEF Fine
      <4> SUFFICES ASSUME ~Fine(k - 1) PROVE FALSE
        OBVIOUS
      <4>1. k - 1 \in Bad
        BY <3>1
      <4> QED BY <2>3, <3>1, <4>1
    <3>3. /\ Sibling(levA[k - 1], pos[k - 1]) = Sibling(levB[k - 1], pos[k - 1])
          /\ SameBut(Halved(levA[k - 1]), Halved(levB[k - 1]), pos[k - 1] \div 2)
      BY <3>2, SiblingSame
    <3>4. /\ f[k] = f[k - 1] \o Sibling(levA[k - 1], pos[k - 1])
          /\ g[k] = g[k - 1] \o Sibling(levB[k - 1], pos[k - 1])
          /\ levA[k] = Halved(levA[k - 1]) /\ levB[k] = Halved(levB[k - 1])
          /\ pos[k] = pos[k - 1] \div 2
      BY <1>5, <1>6, <1>7, <1>8, <2>5, <3>1, Zenon
    <3>5. Fine(k)
      BY <3>2, <3>3, <3>4, Zenon
    <3> HIDE DEF Fine
    <3> QED BY <3>5
  <2> QED BY <2>4, <2>5
<1>10. n \in 0 .. n
  OBVIOUS
<1>11. Fine(n)
  <2> HIDE DEF Fine
  <2> QED BY <1>9, <1>10
<1> QED BY <1>7, <1>8, <1>11, Zenon

\* A proof made for a leaf of one log convinces the browser of a leaf under the root of
\* a log exactly if the leaf is that one and the log is the one it was made for.
LEMMA ProofSound ==
    ASSUME NEW old, IsLeaves(old), NEW idx \in 0 .. Len(old) - 1,
           NEW new, IsLeaves(new), Len(new) # 0, NEW e
    PROVE  kt_verify_inclusion(leaf_hash(e), inclusion_proof(old, idx), compute_root(new))
              <=> /\ Len(old) = Len(new) /\ \A i \in 1 .. Len(old) : i # idx + 1 => old[i] = new[i]
                  /\ new[idx + 1] = leaf_hash(e)
<1>1. PICK n \in Nat \ {0} : n = Len(old)
  BY DEF IsLeaves
<1>2. PICK alt : alt = [i \in 1 .. n |-> IF i = idx + 1 THEN leaf_hash(e) ELSE old[i]]
  OBVIOUS
<1>3. Len(alt) = n /\ \A i \in 1 .. n : alt[i] = IF i = idx + 1 THEN leaf_hash(e) ELSE old[i]
  BY <1>2
<1>4. IsLeaves(alt)
  <2>1. ASSUME NEW i \in 1 .. n PROVE \E d : alt[i] = leaf_hash(d)
    BY <1>1, <1>3 DEF IsLeaves
  <2>2. alt = [i \in 1 .. n |-> alt[i]]
    BY <1>2
  <2> QED BY <1>3, <2>1, <2>2 DEF IsLeaves
<1>5. idx + 1 \in 1 .. n /\ alt[idx + 1] = leaf_hash(e)
  BY <1>1, <1>3
<1>6. SameBut(alt, old, idx)
  BY <1>1, <1>3 DEF SameBut
<1>7. inclusion_proof(alt, idx) = inclusion_proof(old, idx)
  BY <1>6, ProofSame
<1>8. PICK proof, root : proof = inclusion_proof(old, idx) /\ root = compute_root(new)
  OBVIOUS
<1>9. Len(proof) \in Nat /\ ClimbEnd(leaf_hash(e), proof, compute_root(alt))
  <2>1. Len(alt) \in Nat \ {0} /\ idx \in 0 .. Len(alt) - 1
    BY <1>1, <1>3
  <2>2. /\ Len(inclusion_proof(alt, idx)) \in Nat
        /\ ClimbEnd(alt[idx + 1], inclusion_proof(alt, idx), compute_root(alt))
    BY <2>1, ProofComplete
  <2> QED BY <1>5, <1>7, <1>8, <2>2, Zenon
<1>10. kt_verify_inclusion(leaf_hash(e), proof, root) <=> compute_root(alt) = root
  BY <1>9, VerifyIs
<1>11. ASSUME compute_root(alt) = root
       PROVE  n = Len(new) /\ \A i \in 1 .. n : alt[i] = new[i]
  <2>1. Len(alt) # 0
    BY <1>3
  <2>2. Len(alt) = Len(new) /\ \A i \in 1 .. Len(alt) : alt[i] = new[i]
    BY <1>4, <1>8, <1>11, <2>1, RootInjective
  <2> QED BY <1>3, <2>2
<1>12. ASSUME n = Len(new), \A i \in 1 .. n : i # idx + 1 => old[i] = new[i],
              new[idx + 1] = leaf_hash(e)
       PROVE  compute_root(alt) = root
  <2>1. \A i \in 1 .. n : alt[i] = new[i]
    BY <1>3, <1>12
  <2>2. new = [i \in 1 .. n |-> new[i]]
    BY <1>12 DEF IsLeaves
  <2>3. alt = new
    BY <1>2, <2>1, <2>2
  <2> QED BY <1>8, <2>3
<1>13. ASSUME compute_root(alt) = root
       PROVE  /\ n = Len(new) /\ new[idx + 1] = leaf_hash(e)
              /\ \A i \in 1 .. n : i # idx + 1 => old[i] = new[i]
  BY <1>3, <1>5, <1>11, <1>13
<1> QED BY <1>1, <1>8, <1>10, <1>12, <1>13, Zenon

----------------------------------------------------------------------------
(* The log and the answers *)

\* The leaves of the first n entries of the log.
LeavesTo(n) == [i \in 1 .. n |-> leaf_hash(entries[i])]

\* An answer is the proof of an entry of the log as it was when it had n entries.
ProofMade(a, n, idx) ==
    a = [size |-> n, entry |-> entries[idx + 1], proof |-> inclusion_proof(LeavesTo(n), idx)]
Answered(a) ==
    \E n \in 1 .. Len(entries), idx \in 0 .. Len(entries) - 1 : idx < n /\ ProofMade(a, n, idx)

TreeInv ==
    /\ entries \in Seq([user : Users, bundle : Nat])
    /\ held = [u \in Users |-> held[u]]
    /\ \A u \in Users : held[u] = NoAnswer \/ Answered(held[u])

\* The last entry of an account, counted from 0, is an entry, or there is none.
LEMMA IndexByUser ==
    ASSUME NEW u \in Users, Len(entries) \in Nat
    PROVE  index_by_user(u) \in -1 .. Len(entries) - 1
<1>1. PICK n \in Nat : n = Len(entries)
  OBVIOUS
<1> DEFINE I == {i \in 1 .. n : entries[i].user = u}
<1>2. index_by_user(u) = (IF I # {} THEN Max(I) ELSE 0) - 1
  BY <1>1 DEF index_by_user, SelectLastInSeq
<1>3. ASSUME I # {} PROVE Max(I) \in I
  <2> DEFINE D == {n - i : i \in I}
  <2>1. D \subseteq Nat /\ D # {}
    BY <1>3
  <2>2. PICK d \in D : \A x \in D : d <= x
    BY <2>1, Least
  <2>3. PICK i \in I : d = n - i
    OBVIOUS
  <2>4. ASSUME NEW j \in I PROVE i >= j
    <3>1. n - j \in D
      OBVIOUS
    <3>2. d <= n - j
      BY <2>2, <3>1
    <3> QED BY <2>3, <3>2
  <2> HIDE DEF I
  <2> QED BY <2>4 DEF Max
<1>4. CASE I # {}
  <2>1. Max(I) \in 1 .. n
    BY <1>3, <1>4
  <2>2. index_by_user(u) = Max(I) - 1
    BY <1>2, <1>4
  <2> HIDE DEF I
  <2> QED BY <1>1, <2>1, <2>2
<1>5. CASE I = {}
  <2>1. index_by_user(u) = 0 - 1
    BY <1>2, <1>5
  <2> QED BY <1>1, <2>1
<1> QED BY <1>4, <1>5

LEMMA LeavesFine ==
    ASSUME NEW n \in Nat
    PROVE  /\ IsLeaves(LeavesTo(n)) /\ Len(LeavesTo(n)) = n
           /\ \A i \in 1 .. n : LeavesTo(n)[i] = leaf_hash(entries[i])
<1>1. PICK s : s = LeavesTo(n)
  OBVIOUS
<1>2. s = [i \in 1 .. n |-> leaf_hash(entries[i])]
  BY <1>1 DEF LeavesTo
<1>3. Len(s) = n /\ s = [i \in 1 .. n |-> s[i]] /\ \A i \in 1 .. n : s[i] = leaf_hash(entries[i])
  BY <1>2
<1> QED BY <1>1, <1>3 DEF IsLeaves

LEMMA AllLeaves ==
    ASSUME entries \in Seq([user : Users, bundle : Nat]) PROVE Leaves = LeavesTo(Len(entries))
<1>1. DOMAIN entries = 1 .. Len(entries)
  OBVIOUS
<1> QED BY <1>1 DEF Leaves, LeavesTo

\* The properties follow.
LEMMA TreeInvProves == TreeInv => TreeProves
<1> SUFFICES ASSUME TreeInv PROVE TreeProves
  OBVIOUS
<1>1. PICK n \in Nat : n = Len(entries) /\ Leaves = LeavesTo(n)
  BY AllLeaves DEF TreeInv
<1>2. IsLeaves(Leaves) /\ Len(Leaves) = n /\ \A i \in 1 .. n : Leaves[i] = leaf_hash(entries[i])
  BY <1>1, LeavesFine
<1>3. RootIsRFC6962
  <2> SUFFICES ASSUME entries # <<>> PROVE compute_root(Leaves) = MTH(Leaves)
    BY DEF RootIsRFC6962
  <2>1. n # 0
    BY <1>1 DEF TreeInv
  <2> QED BY <1>2, <2>1, RootIsMTH
<1>4. ASSUME NEW u \in Users, held[u] # NoAnswer, NEW e
      PROVE  kt_verify_inclusion(leaf_hash(e), held[u].proof, compute_root(Leaves))
                <=> held[u].size = Len(entries) /\ e = held[u].entry
  <2>1. PICK k \in 1 .. n, idx \in 0 .. n - 1 : idx < k /\ ProofMade(held[u], k, idx)
    BY <1>1, <1>4 DEF TreeInv, Answered
  <2>2. PICK old : old = LeavesTo(k)
    OBVIOUS
  <2>3. /\ held[u].size = k /\ held[u].entry = entries[idx + 1]
        /\ held[u].proof = inclusion_proof(old, idx)
    BY <2>1, <2>2 DEF ProofMade
  <2>4. IsLeaves(old) /\ Len(old) = k /\ \A i \in 1 .. k : old[i] = leaf_hash(entries[i])
    BY <2>2, LeavesFine
  <2>5. idx \in 0 .. Len(old) - 1 /\ Len(Leaves) # 0
    BY <1>2, <2>1, <2>4
  <2>6. kt_verify_inclusion(leaf_hash(e), inclusion_proof(old, idx), compute_root(Leaves))
           <=> /\ Len(old) = Len(Leaves)
               /\ \A i \in 1 .. Len(old) : i # idx + 1 => old[i] = Leaves[i]
               /\ Leaves[idx + 1] = leaf_hash(e)
    BY <1>2, <2>4, <2>5, ProofSound
  <2>7. \A i \in 1 .. Len(old) : i # idx + 1 => old[i] = Leaves[i]
    BY <1>2, <2>1, <2>4
  <2>8. Leaves[idx + 1] = leaf_hash(e) <=> e = entries[idx + 1]
    <3>1. idx + 1 \in 1 .. n
      BY <2>1
    <3>2. Leaves[idx + 1] = leaf_hash(entries[idx + 1])
      BY <1>2, <3>1
    <3>3. leaf_hash(entries[idx + 1]) = leaf_hash(e) => e = entries[idx + 1]
      BY LeafInjective
    <3> QED BY <3>2, <3>3, Zenon
  <2>9. Len(old) = Len(Leaves) <=> k = Len(entries)
    BY <1>1, <1>2, <2>4
  <2> QED BY <2>3, <2>6, <2>7, <2>8, <2>9, Zenon
<1>5. HeldProofs
  BY <1>4, Zenon DEF HeldProofs
<1> QED BY <1>3, <1>5 DEF TreeProves

LEMMA TreeInvStep == TreeInv /\ [TreeNext]_<<entries, held>> => TreeInv'
<1> SUFFICES ASSUME TreeInv, [TreeNext]_<<entries, held>> PROVE TreeInv'
  OBVIOUS
<1>1. PICK n \in Nat : n = Len(entries) /\ Leaves = LeavesTo(n)
  BY AllLeaves DEF TreeInv
<1>2. ASSUME NEW u \in Users, Append1(u) PROVE TreeInv'
  <2>1. PICK x : x = [user |-> u, bundle |-> index_by_user(u) + 2] /\ entries' = Append(entries, x)
    BY <1>2, Zenon DEF Append1
  <2>2. x \in [user : Users, bundle : Nat]
    <3>1. index_by_user(u) \in -1 .. n - 1
      BY <1>1, IndexByUser
    <3>2. index_by_user(u) + 2 \in Nat
      BY <3>1
    <3> QED BY <2>1, <3>2
  <2>3. entries' \in Seq([user : Users, bundle : Nat]) /\ Len(entries') = n + 1
        /\ \A i \in 1 .. n : entries'[i] = entries[i]
    BY <1>1, <2>1, <2>2 DEF TreeInv
  <2>4. held' = held
    BY <1>2 DEF Append1
  <2>5. ASSUME NEW a, Answered(a) PROVE Answered(a)'
    <3>1. PICK k \in 1 .. n, idx \in 0 .. n - 1 : idx < k /\ ProofMade(a, k, idx)
      BY <1>1, <2>5 DEF Answered
    <3>2. LeavesTo(k)' = LeavesTo(k)
      <4>1. \A i \in 1 .. k : entries'[i] = entries[i]
        BY <2>3, <3>1
      <4> QED BY <4>1 DEF LeavesTo
    <3>3. entries'[idx + 1] = entries[idx + 1]
      BY <2>3, <3>1
    <3>4. a = [size |-> k, entry |-> entries'[idx + 1], proof |-> inclusion_proof(LeavesTo(k)', idx)]
      BY <3>1, <3>2, <3>3 DEF ProofMade
    <3>5. k \in 1 .. Len(entries') /\ idx \in 0 .. Len(entries') - 1
      BY <2>3, <3>1
    <3> QED BY <3>1, <3>4, <3>5 DEF Answered, ProofMade
  <2> QED BY <2>3, <2>4, <2>5 DEF TreeInv, NoAnswer
<1>3. ASSUME NEW u \in Users, build_kt_proof(u) PROVE TreeInv'
  <2>1. PICK idx : idx = index_by_user(u)
    OBVIOUS
  <2>2. idx \in 0 .. n - 1 /\ n \in 1 .. n
    <3>1. idx \in -1 .. n - 1 /\ idx >= 0
      BY <1>1, <1>3, <2>1, IndexByUser DEF build_kt_proof
    <3> QED BY <3>1
  <2>3. PICK a : /\ a = [size |-> n, entry |-> entries[idx + 1], proof |-> inclusion_proof(LeavesTo(n), idx)]
                 /\ held' = [held EXCEPT ![u] = a]
    BY <1>1, <1>3, <2>1, Zenon DEF build_kt_proof
  <2>4. entries' = entries
    BY <1>3 DEF build_kt_proof
  <2>5. Answered(a)
    BY <1>1, <2>2, <2>3 DEF Answered, ProofMade
  <2>6. held' = [v \in Users |-> held'[v]] /\ \A v \in Users : held'[v] = a \/ held'[v] = held[v]
    BY <2>3 DEF TreeInv
  <2>7. ASSUME NEW b, Answered(b) PROVE Answered(b)'
    BY <2>4, <2>7 DEF Answered, ProofMade, LeavesTo
  <2> QED BY <2>4, <2>5, <2>6, <2>7 DEF TreeInv, NoAnswer
<1>4. CASE UNCHANGED <<entries, held>>
  <2>1. entries' = entries /\ held' = held
    BY <1>4
  <2>2. ASSUME NEW b, Answered(b) PROVE Answered(b)'
    BY <2>1, <2>2 DEF Answered, ProofMade, LeavesTo
  <2> QED BY <2>1, <2>2 DEF TreeInv, NoAnswer
<1> QED BY <1>2, <1>3, <1>4 DEF TreeNext

\* A proof convinces exactly of its entry and exactly under the root of its own log, and
\* the root is the one of RFC 6962, for any accounts and any length of the log.
THEOREM ProofsConvince == TreeSpec => []TreeProves
<1>1. TreeInit => TreeInv
  BY DEF TreeInit, TreeInv
<1> QED BY <1>1, TreeInvStep, TreeInvProves, PTL DEF TreeSpec
============================================================================
