------------------------------ MODULE Mailbox ------------------------------
(***************************************************************************)
(* The server's delivery path: POST /messages/send and /messages/ack       *)
(* (routes/messages.rs), the message_queue table (db/queries/              *)
(* message_queue.rs), the in-memory map of open connections (ws/state.rs)  *)
(* and one writer and one reader task per WebSocket (ws/handler.rs).       *)
(*                                                                         *)
(* A send is a handler with an await between its steps: it stamps the      *)
(* time, takes the recipient's advisory lock, counts the mailbox, inserts  *)
(* and commits, and then pushes to the newest connection.  A connection    *)
(* registers itself, stamps the time up to which it reads the backlog, and *)
(* streams the backlog in pages interleaved with the live pushes.          *)
(*                                                                         *)
(* A message identifier stands both for the row's random UUID and for the  *)
(* handler that inserts it: identifiers are taken in any order, so the     *)
(* order of two rows stamped in one second is arbitrary, as it is in the   *)
(* code.                                                                   *)
(***************************************************************************)
EXTENDS Integers, Sequences, FiniteSets, FiniteSetsExt

CONSTANTS
    Msgs,         \* message identifiers, positive numbers
    Users,        \* user ids a message can be addressed to
    Registered,   \* those with a row in key_directory
    Conns,        \* WebSocket connections, each used once
    Size,         \* bytes stored for a message
    PageSize,     \* BACKLOG_PAGE
    MaxMessages,  \* mailbox_max_messages
    MaxBytes,     \* mailbox_max_bytes
    MinTtl, DefaultTtl, MaxTtl,  \* ONE_HOUR, THIRTY_DAYS, SIXTY_DAYS
    TtlAsked,     \* the ttl_seconds senders ask for; NoTtl when absent
    AckBatches,   \* the sets of ids a client may acknowledge in one request
    MaxClock,     \* bound on the server's clock
    MaxCrashes    \* bound on restarts of the API and crashes of the database

NoTtl == -1
NoMsg == 0
NoConn == "none"

ASSUME MsgsAssumption == Msgs \subseteq Nat \ {0}
ASSUME UsersAssumption == Registered \subseteq Users
ASSUME ConnsAssumption == NoConn \notin Conns
ASSUME SizeAssumption == Size \in [Msgs -> Nat]
ASSUME CapAssumption == MaxMessages \in Nat /\ MaxBytes \in Nat
ASSUME PageAssumption == PageSize \in Nat \ {0}
ASSUME TtlAssumption == /\ MinTtl \in Nat /\ DefaultTtl \in Nat /\ MaxTtl \in Nat
                        /\ MinTtl <= DefaultTtl /\ DefaultTtl <= MaxTtl
                        /\ TtlAsked \subseteq Int
ASSUME AckAssumption == AckBatches \subseteq SUBSET Msgs
ASSUME BoundAssumption == MaxClock \in Nat /\ MaxCrashes \in Nat

VARIABLES
    clock,
    stage,       \* how far the send of each message got
    to, queuedAt, expiresAt,   \* what the handler stamped on it
    usage,       \* the rows the handler's transaction counted
    lock,        \* pg_advisory_xact_lock('mbox:' || recipient)
    queue,       \* committed rows of message_queue
    pushedTo,    \* the connection whose channel took the live push
    online,      \* Online.map: the connections registered for an account
    opens, born, \* how many registered, and a connection's place among them:
                 \* the order of Online's vectors, newest last
    owner,
    reader,      \* where handle_socket itself is
    writer,      \* where its writer task is
    until,       \* backlog_until
    cursor,      \* (queued_at, message_id) of the last row read
    more,        \* FALSE once the code's cursor is None
    pending,     \* rows read and not yet written
    rx,          \* the channel live pushes go through
    written,     \* messages written to the socket
    ackedBy,     \* who acknowledged a message (history)
    crashes,     \* how often a process has failed
    dbCrashed    \* the UNLOGGED table was truncated (history)

sendVars == <<stage, to, queuedAt, expiresAt, usage, pushedTo>>
dbVars   == <<lock, queue, ackedBy, crashes, dbCrashed>>
connVars == <<opens, born, owner, reader, writer, until, cursor, more,
              pending, rx, written>>
vars == <<clock, sendVars, dbVars, online, connVars>>

Stages == {"none", "dropped", "stamped", "locked", "counted", "refused",
           "stored", "pushed", "unpushed"}

\* Rows are read in the order of (queued_at, message_id).
Precedes(m, n) == \/ queuedAt[m] < queuedAt[n]
                  \/ queuedAt[m] = queuedAt[n] /\ m < n

AfterCursor(m, cur) == \/ cur.at < queuedAt[m]
                       \/ cur.at = queuedAt[m] /\ cur.id < m

StartOfQueue == [at |-> -1, id |-> NoMsg]
\* Mutant: the cursor keeps the second and not the row.
Position_SecondOnly(m) == [at |-> queuedAt[m] + 1, id |-> NoMsg]

Position(m)  == [at |-> queuedAt[m], id |-> m]

Box(u) == {m \in queue : to[m] = u}
Bytes(S) == MapThenSumSet(LAMBDA m : Size[m], S)

\* Mutant: no floor.
clamp_ttl_NoFloor(ttl) == IF ttl = NoTtl THEN DefaultTtl
                          ELSE IF ttl > MaxTtl THEN MaxTtl ELSE ttl

clamp_ttl(ttl) == IF ttl = NoTtl THEN DefaultTtl
                  ELSE IF ttl < MinTtl THEN MinTtl
                  ELSE IF ttl > MaxTtl THEN MaxTtl ELSE ttl

\* A connection's channel accepts pushes until its writer task has ended.
ChannelOpen(c) == reader[c] # "none" /\ writer[c] # "done"
Listed(c) == reader[c] \in {"inserted", "run", "exit"}

Init ==
    /\ clock = 0
    /\ stage = [m \in Msgs |-> "none"]
    /\ to \in [Msgs -> Users]
    /\ queuedAt = [m \in Msgs |-> 0]
    /\ expiresAt = [m \in Msgs |-> 0]
    /\ usage = [m \in Msgs |-> {}]
    /\ lock = [u \in Users |-> NoMsg]
    /\ queue = {}
    /\ pushedTo = [m \in Msgs |-> NoConn]
    /\ online = [u \in Users |-> {}]
    /\ opens = 0
    /\ born = [c \in Conns |-> 0]
    /\ owner \in [Conns -> Registered]
    /\ reader = [c \in Conns |-> "none"]
    /\ writer = [c \in Conns |-> "none"]
    /\ until = [c \in Conns |-> 0]
    /\ cursor = [c \in Conns |-> StartOfQueue]
    /\ more = [c \in Conns |-> FALSE]
    /\ pending = [c \in Conns |-> {}]
    /\ rx = [c \in Conns |-> <<>>]
    /\ written = [c \in Conns |-> {}]
    /\ ackedBy = [m \in Msgs |-> {}]
    /\ crashes = 0
    /\ dbCrashed = FALSE

Tick == /\ clock < MaxClock
        /\ clock' = clock + 1
        /\ UNCHANGED <<sendVars, dbVars, online, connVars>>

----------------------------------------------------------------------------
(* POST /messages/send *)

\* The request is validated, the time stamped and the recipient looked up;
\* mail for an account that does not exist (cover traffic) is dropped with the
\* same answer.
SendStart(m, ttl) ==
    /\ stage[m] = "none"
    /\ queuedAt' = [queuedAt EXCEPT ![m] = clock]
    /\ expiresAt' = [expiresAt EXCEPT ![m] = clock + clamp_ttl(ttl)]
    /\ stage' = [stage EXCEPT ![m] = IF to[m] \in Registered THEN "stamped"
                                                             ELSE "dropped"]
    /\ UNCHANGED <<clock, to, usage, pushedTo, dbVars, online, connVars>>

\* Mutant: the transaction does not wait for the recipient's lock.
SendLock_NoWait(m) ==
    /\ stage[m] = "stamped"
    /\ lock' = [lock EXCEPT ![to[m]] = m]
    /\ stage' = [stage EXCEPT ![m] = "locked"]
    /\ UNCHANGED <<clock, to, queuedAt, expiresAt, usage, pushedTo, queue,
                   ackedBy, crashes, dbCrashed, online, connVars>>

SendLock(m) ==
    /\ stage[m] = "stamped"
    /\ lock[to[m]] = NoMsg
    /\ lock' = [lock EXCEPT ![to[m]] = m]
    /\ stage' = [stage EXCEPT ![m] = "locked"]
    /\ UNCHANGED <<clock, to, queuedAt, expiresAt, usage, pushedTo, queue,
                   ackedBy, crashes, dbCrashed, online, connVars>>

SendCount(m) ==
    /\ stage[m] = "locked"
    /\ usage' = [usage EXCEPT ![m] = Box(to[m])]
    /\ stage' = [stage EXCEPT ![m] = "counted"]
    /\ UNCHANGED <<clock, to, queuedAt, expiresAt, pushedTo, dbVars, online,
                   connVars>>

\* Mutant: one message too many.
Full_OneMore(m) == \/ Cardinality(usage[m]) > MaxMessages
                   \/ Bytes(usage[m]) + Size[m] > MaxBytes

Full(m) == \/ Cardinality(usage[m]) >= MaxMessages
           \/ Bytes(usage[m]) + Size[m] > MaxBytes

\* A transaction ends: its lock on the recipient goes, and what it counted.
EndTransaction(m) ==
    /\ lock' = [u \in Users |-> IF lock[u] = m THEN NoMsg ELSE lock[u]]
    /\ usage' = [usage EXCEPT ![m] = {}]

SendInsert(m) ==
    /\ stage[m] = "counted"
    /\ \/ /\ Full(m)
          /\ stage' = [stage EXCEPT ![m] = "refused"]
          /\ queue' = queue
       \/ /\ ~Full(m)
          /\ stage' = [stage EXCEPT ![m] = "stored"]
          /\ queue' = queue \cup {m}
    /\ EndTransaction(m)
    /\ UNCHANGED <<clock, to, queuedAt, expiresAt, pushedTo, ackedBy,
                   crashes, dbCrashed, online, connVars>>

\* Online.send: the newest connection whose channel is still open takes it.
Takers(u) == {c \in online[u] : ChannelOpen(c)}
Newest(c, S) == c \in S /\ \A d \in S : born[d] <= born[c]

SendPush(m) ==
    /\ stage[m] = "stored"
    /\ stage' = [stage EXCEPT ![m] = "pushed"]
    /\ \/ /\ Takers(to[m]) = {}
          /\ UNCHANGED <<pushedTo, rx>>
       \/ \E c \in Conns :
            /\ Newest(c, Takers(to[m]))
            /\ pushedTo' = [pushedTo EXCEPT ![m] = c]
            /\ rx' = [rx EXCEPT ![c] = Append(@, m)]
    /\ UNCHANGED <<clock, to, queuedAt, expiresAt, usage, dbVars, online,
                   opens, born, owner, reader, writer, until, cursor, more,
                   pending, written>>

\* The handler ends at one of its awaits: a database error, or the sender hung
\* up and its future was dropped.  Past the commit the row stays, unpushed.
SendAborted(m) ==
    IF stage[m] = "stored" THEN "unpushed"
    ELSE IF stage[m] \in {"stamped", "locked", "counted"} THEN "refused"
    ELSE stage[m]

SendAbort(m) ==
    /\ stage[m] \in {"stamped", "locked", "counted", "stored"}
    /\ stage' = [stage EXCEPT ![m] = SendAborted(m)]
    /\ EndTransaction(m)
    /\ UNCHANGED <<clock, to, queuedAt, expiresAt, pushedTo, queue,
                   ackedBy, crashes, dbCrashed, online, connVars>>

----------------------------------------------------------------------------
(* Acknowledgement and expiry *)

\* Mutant: rows are deleted by id alone.
ack_messages_AnyBox(u, ids) ==
    /\ ids \cap queue # {}
    /\ queue' = queue \ ids
    /\ ackedBy' = [m \in Msgs |-> IF m \in ids THEN ackedBy[m] \cup {u}
                                               ELSE ackedBy[m]]

\* ack_messages deletes by id, and only in the caller's own mailbox.  (Ids of
\* rows already gone change nothing.)
ack_messages(u, ids) ==
    /\ ids \cap queue # {}
    /\ queue' = {m \in queue : ~(m \in ids /\ to[m] = u)}
    /\ ackedBy' = [m \in Msgs |-> IF m \in ids THEN ackedBy[m] \cup {u}
                                               ELSE ackedBy[m]]

\* POST /messages/ack, which any signed-in client may send at any time.
HttpAck(u, ids) ==
    /\ ack_messages(u, ids)
    /\ UNCHANGED <<clock, sendVars, lock, crashes, dbCrashed, online, connVars>>

cleanup_expired ==
    /\ \E m \in queue : expiresAt[m] < clock
    /\ queue' = {m \in queue : ~(expiresAt[m] < clock)}
    /\ UNCHANGED <<clock, sendVars, lock, ackedBy, crashes, dbCrashed, online, connVars>>

----------------------------------------------------------------------------
(* One connection: handle_socket and its writer task *)

Connect(c) ==
    /\ reader[c] = "none"
    /\ reader' = [reader EXCEPT ![c] = "inserted"]
    /\ online' = [online EXCEPT ![owner[c]] = @ \cup {c}]
    /\ opens' = opens + 1
    /\ born' = [born EXCEPT ![c] = opens + 1]
    /\ UNCHANGED <<clock, sendVars, dbVars, owner, writer, until, cursor, more,
                   pending, rx, written>>

StartWriter(c) ==
    /\ reader[c] = "inserted"
    /\ reader' = [reader EXCEPT ![c] = "run"]
    /\ writer' = [writer EXCEPT ![c] = "backlog"]
    /\ until' = [until EXCEPT ![c] = clock]
    /\ more' = [more EXCEPT ![c] = TRUE]
    /\ UNCHANGED <<clock, sendVars, dbVars, online, opens, born, owner, cursor,
                   pending, rx, written>>

\* Mutant: the bound is strict, so the current second is left out.
Unread_Strict(c) == {m \in queue : /\ to[m] = owner[c]
                                   /\ queuedAt[m] < until[c]
                                   /\ AfterCursor(m, cursor[c])}

\* The rows a page is taken from, and the page: the first PageSize of them.
Unread(c) == {m \in queue : /\ to[m] = owner[c]
                            /\ queuedAt[m] <= until[c]
                            /\ AfterCursor(m, cursor[c])}

IsPage(P, rows) ==
    /\ P \subseteq rows
    /\ \/ P = rows /\ Cardinality(rows) < PageSize
       \/ /\ Cardinality(P) = PageSize
          /\ \A p \in P, r \in rows \ P : Precedes(p, r)

First(m, S) == m \in S /\ \A n \in S \ {m} : Precedes(m, n)
Last(m, S)  == m \in S /\ \A n \in S \ {m} : Precedes(n, m)

\* The cursor moves to the last row of a full page; a short page ends the read.
dequeue_page(c) ==
    /\ writer[c] = "backlog" /\ pending[c] = {} /\ more[c]
    /\ \E P \in SUBSET Unread(c) :
        /\ IsPage(P, Unread(c))
        /\ pending' = [pending EXCEPT ![c] = P]
        /\ \/ /\ Cardinality(P) = PageSize
              /\ \E m \in P : /\ Last(m, P)
                              /\ cursor' = [cursor EXCEPT ![c] = Position(m)]
              /\ more' = more
           \/ /\ Cardinality(P) # PageSize
              /\ cursor' = cursor
              /\ more' = [more EXCEPT ![c] = FALSE]
    /\ UNCHANGED <<clock, sendVars, dbVars, online, opens, born, owner, reader,
                   writer, until, rx, written>>

\* Where the writer stood in the backlog dies with its loop.
EndBacklog(c) == /\ until' = [until EXCEPT ![c] = 0]
                 /\ cursor' = [cursor EXCEPT ![c] = StartOfQueue]
                 /\ more' = [more EXCEPT ![c] = FALSE]

BacklogDone(c) ==
    /\ writer[c] = "backlog" /\ pending[c] = {} /\ ~more[c]
    /\ writer' = [writer EXCEPT ![c] = "live"]
    /\ EndBacklog(c)
    /\ UNCHANGED <<clock, sendVars, dbVars, online, opens, born, owner, reader,
                   pending, rx, written>>

\* A live push goes out before the next backlog row.
WriteLive(c) ==
    /\ \/ writer[c] = "live"
       \/ writer[c] = "backlog" /\ pending[c] # {}
    /\ rx[c] # <<>>
    /\ written' = [written EXCEPT ![c] = @ \cup {Head(rx[c])}]
    /\ rx' = [rx EXCEPT ![c] = Tail(@)]
    /\ UNCHANGED <<clock, sendVars, dbVars, online, opens, born, owner, reader,
                   writer, until, cursor, more, pending>>

WriteBacklog(c) ==
    /\ writer[c] = "backlog"
    /\ rx[c] = <<>>
    /\ \E m \in Msgs :
        /\ First(m, pending[c])
        /\ written' = [written EXCEPT ![c] = @ \cup {m}]
        /\ pending' = [pending EXCEPT ![c] = @ \ {m}]
    /\ UNCHANGED <<clock, sendVars, dbVars, online, opens, born, owner, reader,
                   writer, until, cursor, more, rx>>

\* The writer task is gone and its end of the channel with it.
DropWriter(c) ==
    /\ writer' = [writer EXCEPT ![c] = "done"]
    /\ rx' = [rx EXCEPT ![c] = <<>>]
    /\ pending' = [pending EXCEPT ![c] = {}]
    /\ EndBacklog(c)

\* A page could not be read, a write failed or missed its deadline, or the
\* client sent nothing between two pings.
WriterFails(c) ==
    /\ writer[c] \in {"backlog", "live"}
    /\ DropWriter(c)
    /\ UNCHANGED <<clock, sendVars, dbVars, online, opens, born, owner, reader,
                   written>>

\* An acknowledgement over the socket (whose failure the reader ignores).
ClientAck(c, ids) ==
    /\ reader[c] = "run"
    /\ ack_messages(owner[c], ids)
    /\ UNCHANGED <<clock, sendVars, lock, crashes, dbCrashed, online, opens, born, owner,
                   reader, writer, until, cursor, more, pending, rx, written>>

\* The reader leaves its loop: the socket closed, or the writer task ended.
ReaderExit(c) ==
    /\ reader[c] = "run"
    /\ reader' = [reader EXCEPT ![c] = "exit"]
    /\ UNCHANGED <<clock, sendVars, dbVars, online, opens, born, owner, writer,
                   until, cursor, more, pending, rx, written>>

OnlineRemove(c) ==
    /\ reader[c] = "exit"
    /\ reader' = [reader EXCEPT ![c] = "removed"]
    /\ online' = [online EXCEPT ![owner[c]] = @ \ {c}]
    /\ UNCHANGED <<clock, sendVars, dbVars, opens, born, owner, writer, until,
                   cursor, more, pending, rx, written>>

AbortWriter(c) ==
    /\ reader[c] = "removed"
    /\ reader' = [reader EXCEPT ![c] = "closed"]
    /\ DropWriter(c)
    /\ UNCHANGED <<clock, sendVars, dbVars, online, opens, born, owner, written>>

----------------------------------------------------------------------------
(* Failures of the processes themselves *)

\* The API process stops: sockets, the online map and running handlers go.
ServerRestart ==
    /\ crashes < MaxCrashes
    /\ crashes' = crashes + 1
    /\ stage' = [m \in Msgs |-> SendAborted(m)]
    /\ lock' = [u \in Users |-> NoMsg]
    /\ online' = [u \in Users |-> {}]
    /\ reader' = [c \in Conns |-> IF reader[c] = "none" THEN "none" ELSE "closed"]
    /\ writer' = [c \in Conns |-> IF reader[c] = "none" THEN "none" ELSE "done"]
    /\ rx' = [c \in Conns |-> <<>>]
    /\ pending' = [c \in Conns |-> {}]
    /\ until' = [c \in Conns |-> 0]
    /\ cursor' = [c \in Conns |-> StartOfQueue]
    /\ more' = [c \in Conns |-> FALSE]
    /\ usage' = [m \in Msgs |-> {}]
    /\ UNCHANGED <<clock, to, queuedAt, expiresAt, pushedTo, queue,
                   ackedBy, dbCrashed, opens, born, owner, written>>

\* The database crashes: an UNLOGGED table comes back empty, and the
\* transactions it was running fail.
DatabaseCrash ==
    /\ crashes < MaxCrashes
    /\ crashes' = crashes + 1
    /\ queue' = {}
    /\ dbCrashed' = TRUE
    /\ lock' = [u \in Users |-> NoMsg]
    /\ stage' = [m \in Msgs |-> IF stage[m] \in {"locked", "counted"}
                                THEN "refused" ELSE stage[m]]
    /\ usage' = [m \in Msgs |-> {}]
    /\ UNCHANGED <<clock, to, queuedAt, expiresAt, pushedTo, ackedBy,
                   online, connVars>>

----------------------------------------------------------------------------
Send(m) == \/ \E ttl \in TtlAsked : SendStart(m, ttl)
           \/ SendLock(m) \/ SendCount(m) \/ SendInsert(m) \/ SendPush(m)
           \/ SendAbort(m)

Deliver(c) == \/ StartWriter(c) \/ dequeue_page(c) \/ BacklogDone(c)
              \/ WriteLive(c) \/ WriteBacklog(c)

Close(c) == ReaderExit(c) \/ OnlineRemove(c) \/ AbortWriter(c)

Connection(c) ==
    \/ Connect(c) \/ Deliver(c) \/ WriterFails(c) \/ Close(c)
    \/ \E ids \in AckBatches : ClientAck(c, ids)

Next == \/ Tick \/ cleanup_expired \/ ServerRestart \/ DatabaseCrash
        \/ \E m \in Msgs : Send(m)
        \/ \E u \in Registered, ids \in AckBatches : HttpAck(u, ids)
        \/ \E c \in Conns : Connection(c)

Spec == Init /\ [][Next]_vars

\* The runtime keeps polling a writer task whose next step can be taken.
FairSpec == Spec /\ \A c \in Conns : WF_vars(Deliver(c))

----------------------------------------------------------------------------
(* Properties *)

Cursors == [at : Nat \cup {-1}, id : Msgs \cup {NoMsg}]

TypeOK ==
    /\ clock \in Nat
    /\ stage \in [Msgs -> Stages]
    /\ to \in [Msgs -> Users]
    /\ queuedAt \in [Msgs -> Nat]
    /\ expiresAt \in [Msgs -> Nat]
    /\ usage \in [Msgs -> SUBSET Msgs]
    /\ lock \in [Users -> Msgs \cup {NoMsg}]
    /\ queue \subseteq Msgs
    /\ pushedTo \in [Msgs -> Conns \cup {NoConn}]
    /\ online \in [Users -> SUBSET Conns]
    /\ opens \in Nat
    /\ born \in [Conns -> Nat]
    /\ owner \in [Conns -> Registered]
    /\ reader \in [Conns -> {"none", "inserted", "run", "exit", "removed", "closed"}]
    /\ writer \in [Conns -> {"none", "backlog", "live", "done"}]
    /\ until \in [Conns -> Nat]
    /\ cursor \in [Conns -> Cursors]
    /\ more \in [Conns -> BOOLEAN]
    /\ pending \in [Conns -> SUBSET Msgs]
    /\ rx \in [Conns -> Seq(Msgs)]
    /\ written \in [Conns -> SUBSET Msgs]
    /\ ackedBy \in [Msgs -> SUBSET Users]
    /\ crashes \in Nat
    /\ dbCrashed \in BOOLEAN

\* No mailbox ever holds more messages than its cap, however many sends to it
\* run at once: enqueue_capped counts and inserts under the recipient's lock,
\* and what it counted can only have shrunk since.
CountWithinCap == \A u \in Users : Cardinality(Box(u)) <= MaxMessages

\* Nor more bytes: the new message's own size is part of the check.
BytesWithinCap == \A u \in Users : Bytes(Box(u)) <= MaxBytes

\* Everything a connection still has to write: what it holds, and what its
\* backlog cursor has yet to reach.
Ahead(c) == pending[c] \cup {rx[c][i] : i \in 1..Len(rx[c])}
            \cup (IF writer[c] = "none" THEN Box(owner[c])
                  ELSE IF writer[c] = "backlog" /\ more[c] THEN Unread(c) ELSE {})

Stored == {"stored", "pushed", "unpushed"}

\* The map of open connections is exact: a connection is registered for its
\* account from the moment handle_socket starts until it leaves, in the order
\* of arrival, and no registration outlives its connection.
OnlineExact ==
    /\ \A u \in Users : online[u] = {c \in Conns : owner[c] = u /\ Listed(c)}
    /\ \A c, d \in Conns : Listed(c) /\ Listed(d) /\ born[c] = born[d] => c = d

\* No message falls between the backlog and the live pushes: while a connection
\* is listed and its writer works, every stored message of its account is
\* written to it, still ahead of it, about to be pushed (or never pushed,
\* because the sender's request died after the commit), or was handed to a
\* connection that opened later.  It holds because handle_socket registers
\* before it stamps backlog_until.
NoMessageSkipped ==
    \A c \in Conns : Listed(c) /\ writer[c] # "done" =>
        \A m \in Box(owner[c]) :
            \/ m \in written[c] \cup Ahead(c)
            \/ stage[m] \in {"stored", "unpushed"}
            \/ stage[m] = "pushed" /\ pushedTo[m] # NoConn
               /\ born[pushedTo[m]] > born[c]

\* A stored message is gone only because its own recipient acknowledged it, its
\* clamped lifetime (an hour at least) passed, or the database lost its
\* unlogged tables: no acknowledgement reaches into another mailbox.
NoUnexplainedLoss ==
    \A m \in Msgs : stage[m] \in Stored /\ m \notin queue =>
        \/ to[m] \in ackedBy[m]
        \/ clock > queuedAt[m] + MinTtl
        \/ dbCrashed

\* A device is written only what was stored for its account.
OwnMailOnly ==
    \A c \in Conns : \A m \in written[c] \cup Ahead(c) :
        to[m] = owner[c] /\ stage[m] \in Stored

\* A mailbox is its owner's alone: nothing leaves it but by the owner's acknowledgement,
\* by time or by a crash, and nothing of it is written to another account
\* (ack_messages, cleanup_expired, dequeue_page, Online.send).
MailSafe == NoUnexplainedLoss /\ OwnMailOnly

\* Whatever waits for a device when it connects is written to it, removed from
\* the mailbox, or the connection ends: the pages reach the whole backlog.
BacklogDelivered ==
    \A c \in Conns, m \in Msgs :
        (reader[c] = "inserted" /\ m \in Box(owner[c]))
            ~> (m \in written[c] \/ m \notin queue \/ writer[c] = "done")

\* handler.rs: "Removed BEFORE the writer stops, so no push is accepted here and
\* then dropped unwritten - it goes to the account's next open connection
\* instead".  A stored message whose push a closed connection took and never
\* wrote is with every connection of the account that is still listed.
\* (It does not hold; the README says why.)
NoPushDropped ==
    \A m \in queue : stage[m] = "pushed" /\ pushedTo[m] # NoConn =>
        LET d == pushedTo[m] IN
        reader[d] = "closed" /\ m \notin written[d] =>
            \A c \in Conns : Listed(c) /\ writer[c] # "done" /\ owner[c] = to[m]
                                => m \in written[c] \cup Ahead(c)
============================================================================
