--------------------------- MODULE MailboxProofs ---------------------------
(***************************************************************************)
(* Proofs about Mailbox: its type invariant, the caps on a mailbox (on the *)
(* messages and on their bytes), that no message falls between the backlog *)
(* and the live pushes, and that a mailbox is its owner's alone.           *)
(***************************************************************************)
EXTENDS Mailbox, FiniteSetTheorems, WellFoundedInduction, TLAPS

\* clamp_ttl returns a lifetime between its floor and its ceiling, whatever was
\* asked for.
LEMMA ClampTtl ==
    ASSUME NEW ttl \in TtlAsked
    PROVE  clamp_ttl(ttl) \in Nat /\ clamp_ttl(ttl) >= MinTtl
BY TtlAssumption DEF clamp_ttl, NoTtl

\* The server starts in a state of the right type: nothing stored, nobody online.
LEMMA TypeInit == Init => TypeOK
<1> SUFFICES ASSUME Init PROVE TypeOK
  OBVIOUS
<1>1. more \in [Conns -> BOOLEAN] /\ dbCrashed \in BOOLEAN
  BY Zenon DEF Init
<1>2. cursor \in [Conns -> Cursors]
  BY DEF Init, StartOfQueue, Cursors
<1> QED BY <1>1, <1>2 DEF Init, TypeOK, Stages

\* No handler, task or crash leaves a variable outside its type.
LEMMA TypeStep == TypeOK /\ [Next]_vars => TypeOK'
<1> USE DEF sendVars, dbVars, connVars
<1> SUFFICES ASSUME TypeOK, [Next]_vars PROVE TypeOK'
  OBVIOUS
<1> USE DEF TypeOK, Stages
<1>1. CASE Tick
  BY <1>1, BoundAssumption DEF Tick
<1>2. CASE cleanup_expired
  BY <1>2 DEF cleanup_expired
<1>3. CASE ServerRestart
  BY <1>3 DEF ServerRestart, SendAborted, StartOfQueue, Cursors, NoMsg
<1>4. CASE DatabaseCrash
  BY <1>4 DEF DatabaseCrash, NoMsg
<1>5. ASSUME NEW m \in Msgs, Send(m) PROVE TypeOK'
  <2>1. ASSUME NEW ttl \in TtlAsked, SendStart(m, ttl) PROVE TypeOK'
    BY <2>1, ClampTtl DEF SendStart
  <2>2. CASE SendLock(m)
    BY <2>2 DEF SendLock
  <2>3. CASE SendCount(m)
    BY <2>3 DEF SendCount, Box
  <2>4. CASE SendInsert(m)
    <3>1. stage' \in [Msgs -> Stages] /\ queue' \subseteq Msgs
      BY <2>4 DEF SendInsert
    <3>2. lock' \in [Users -> Msgs \cup {NoMsg}] /\ usage' \in [Msgs -> SUBSET Msgs]
      BY <2>4 DEF SendInsert, EndTransaction
    <3> QED BY <2>4, <3>1, <3>2 DEF SendInsert
  <2>5. CASE SendPush(m)
    <3>1. rx' \in [Conns -> Seq(Msgs)] /\ pushedTo' \in [Msgs -> Conns \cup {NoConn}]
      <4>1. CASE UNCHANGED <<pushedTo, rx>>
        BY <4>1
      <4>2. ASSUME NEW c \in Conns, pushedTo' = [pushedTo EXCEPT ![m] = c],
                   rx' = [rx EXCEPT ![c] = Append(@, m)]
            PROVE rx' \in [Conns -> Seq(Msgs)] /\ pushedTo' \in [Msgs -> Conns \cup {NoConn}]
        BY <4>2
      <4> QED BY <2>5, <4>1, <4>2 DEF SendPush
    <3>2. stage' \in [Msgs -> Stages]
      BY <2>5 DEF SendPush
    <3> QED BY <2>5, <3>1, <3>2 DEF SendPush
  <2>6. CASE SendAbort(m)
    BY <2>6 DEF SendAbort, SendAborted, EndTransaction, NoMsg
  <2> QED BY <1>5, <2>1, <2>2, <2>3, <2>4, <2>5, <2>6 DEF Send
<1>6. ASSUME NEW u \in Registered, NEW ids \in AckBatches, HttpAck(u, ids)
      PROVE TypeOK'
  BY <1>6, UsersAssumption DEF HttpAck, ack_messages
<1>7. ASSUME NEW c \in Conns, Connection(c) PROVE TypeOK'
  <2>1. CASE Connect(c)
    BY <2>1, UsersAssumption DEF Connect
  <2>2. CASE StartWriter(c)
    BY <2>2 DEF StartWriter
  <2>3. CASE dequeue_page(c)
    <3>1. PICK P \in SUBSET Unread(c) :
             /\ pending' = [pending EXCEPT ![c] = P]
             /\ \/ /\ \E m \in P : cursor' = [cursor EXCEPT ![c] = Position(m)]
                   /\ more' = more
                \/ /\ cursor' = cursor
                   /\ more' = [more EXCEPT ![c] = FALSE]
      BY <2>3 DEF dequeue_page
    <3>2. P \subseteq Msgs
      BY DEF Unread
    <3>3. pending' \in [Conns -> SUBSET Msgs]
      BY <3>1, <3>2
    <3>4. \A m \in P : Position(m) \in Cursors
      BY <3>2 DEF Position, Cursors
    <3>5. cursor' \in [Conns -> Cursors]
      BY <3>1, <3>4
    <3>6. more' \in [Conns -> BOOLEAN]
      BY <3>1
    <3> QED BY <2>3, <3>3, <3>5, <3>6 DEF dequeue_page
  <2>4. CASE BacklogDone(c)
    BY <2>4 DEF BacklogDone, EndBacklog, StartOfQueue, Cursors
  <2>5. CASE WriteLive(c)
    BY <2>5 DEF WriteLive
  <2>6. CASE WriteBacklog(c)
    BY <2>6 DEF WriteBacklog, First
  <2>7. CASE WriterFails(c)
    BY <2>7 DEF WriterFails, DropWriter, EndBacklog, StartOfQueue, Cursors
  <2>8. CASE ReaderExit(c)
    BY <2>8 DEF ReaderExit
  <2>9. CASE OnlineRemove(c)
    BY <2>9 DEF OnlineRemove
  <2>10. CASE AbortWriter(c)
    BY <2>10 DEF AbortWriter, DropWriter, EndBacklog, StartOfQueue, Cursors
  <2>11. ASSUME NEW ids \in AckBatches, ClientAck(c, ids) PROVE TypeOK'
    BY <2>11, UsersAssumption DEF ClientAck, ack_messages
  <2> QED BY <1>7, <2>1, <2>2, <2>3, <2>4, <2>5, <2>6, <2>7, <2>8, <2>9,
             <2>10, <2>11 DEF Connection, Deliver, Close
<1>8. CASE UNCHANGED vars
  BY <1>8 DEF vars
<1> QED BY <1>1, <1>2, <1>3, <1>4, <1>5, <1>6, <1>7, <1>8 DEF Next

\* Every variable keeps its type in every step of the delivery path.
THEOREM TypeCorrect == Spec => []TypeOK
BY TypeInit, TypeStep, PTL DEF Spec

----------------------------------------------------------------------------
(* No message is skipped *)

\* What the proof needs to know of the rows and of the connections: a stamp is
\* never ahead of the clock, a row has been committed, a connection's numbers
\* are in order, and its writer starts after it is registered, at the start of
\* the queue.
RowsInv == /\ \A m \in Msgs : queuedAt[m] <= clock
           /\ \A m \in queue : stage[m] \in Stored

ConnsInv == \A c \in Conns :
    /\ born[c] <= opens
    /\ reader[c] \in {"none", "inserted"} <=> writer[c] = "none"
    /\ writer[c] = "none" => cursor[c] = StartOfQueue

SkipInv == TypeOK /\ RowsInv /\ ConnsInv /\ OnlineExact /\ NoMessageSkipped

\* A time stamp is never ahead of the clock, and a row of the queue was put there by
\* an insert that committed: no step of enqueue_capped, ack_messages, the expiry
\* sweep or a crash changes that.
LEMMA RowsStep == TypeOK /\ RowsInv /\ [Next]_vars => RowsInv'
<1> SUFFICES ASSUME TypeOK, RowsInv, [Next]_vars PROVE RowsInv'
  OBVIOUS
<1> USE DEF TypeOK, RowsInv, Stored, sendVars, dbVars, connVars
<1>1. CASE Tick
  BY <1>1 DEF Tick
<1>2. CASE cleanup_expired
  BY <1>2 DEF cleanup_expired
<1>3. CASE ServerRestart
  BY <1>3 DEF ServerRestart, SendAborted
<1>4. CASE DatabaseCrash
  BY <1>4 DEF DatabaseCrash
<1>5. ASSUME NEW m \in Msgs, Send(m) PROVE RowsInv'
  <2>1. ASSUME NEW ttl \in TtlAsked, SendStart(m, ttl) PROVE RowsInv'
    BY <2>1 DEF SendStart
  <2>2. CASE SendLock(m)
    BY <2>2 DEF SendLock
  <2>3. CASE SendCount(m)
    BY <2>3 DEF SendCount
  <2>4. CASE SendInsert(m)
    <3>1. CASE queue' = queue
      BY <2>4, <3>1 DEF SendInsert
    <3>2. CASE queue' = queue \cup {m} /\ stage' = [stage EXCEPT ![m] = "stored"]
      BY <2>4, <3>2 DEF SendInsert
    <3> QED BY <2>4, <3>1, <3>2 DEF SendInsert
  <2>5. CASE SendPush(m)
    BY <2>5 DEF SendPush
  <2>6. CASE SendAbort(m)
    BY <2>6 DEF SendAbort, SendAborted
  <2> QED BY <1>5, <2>1, <2>2, <2>3, <2>4, <2>5, <2>6 DEF Send
<1>6. ASSUME NEW u \in Registered, NEW ids \in AckBatches, HttpAck(u, ids)
      PROVE RowsInv'
  BY <1>6 DEF HttpAck, ack_messages
<1>7. ASSUME NEW c \in Conns, Connection(c) PROVE RowsInv'
  <2>1. ASSUME NEW ids \in AckBatches, ClientAck(c, ids) PROVE RowsInv'
    BY <2>1 DEF ClientAck, ack_messages
  <2>2. CASE Connect(c) \/ Deliver(c) \/ WriterFails(c) \/ Close(c)
    <3>1. UNCHANGED <<clock, queuedAt, stage, queue>>
      BY <2>2, Zenon DEF Connect, Deliver, WriterFails, Close, StartWriter,
           dequeue_page, BacklogDone, WriteLive, WriteBacklog, ReaderExit,
           OnlineRemove, AbortWriter
    <3> QED BY <3>1
  <2> QED BY <1>7, <2>1, <2>2 DEF Connection
<1>8. CASE UNCHANGED vars
  BY <1>8 DEF vars
<1> QED BY <1>1, <1>2, <1>3, <1>4, <1>5, <1>6, <1>7, <1>8 DEF Next

\* handle_socket and its writer stay in step with each other and with the map of
\* open connections, which every insert and remove keeps exact.
LEMMA ConnsStep ==
    TypeOK /\ ConnsInv /\ OnlineExact /\ [Next]_vars => ConnsInv' /\ OnlineExact'
<1> SUFFICES ASSUME TypeOK, ConnsInv, OnlineExact, [Next]_vars
             PROVE ConnsInv' /\ OnlineExact'
  OBVIOUS
<1> USE UsersAssumption DEF TypeOK, ConnsInv, OnlineExact, Listed
<1>1. CASE UNCHANGED <<online, connVars>>
  BY <1>1 DEF connVars
<1>2. CASE ServerRestart
  BY <1>2 DEF ServerRestart, StartOfQueue
<1>3. ASSUME NEW m \in Msgs, SendPush(m) PROVE ConnsInv' /\ OnlineExact'
  BY <1>3 DEF SendPush
<1>4. ASSUME NEW c \in Conns, Connection(c) PROVE ConnsInv' /\ OnlineExact'
  <2>1. CASE Connect(c)
    <3>1. ConnsInv'
      BY <2>1 DEF Connect
    <3>2. \A u \in Users : online'[u] = {d \in Conns : owner[d] = u /\ Listed(d)'}
      BY <2>1 DEF Connect
    <3>3. \A d \in Conns : d # c => born'[d] # born'[c]
      BY <2>1 DEF Connect
    <3> QED BY <2>1, <3>1, <3>2, <3>3 DEF Connect
  <2>2. CASE StartWriter(c)
    BY <2>2 DEF StartWriter
  <2>3. CASE dequeue_page(c)
    <3>1. /\ UNCHANGED <<online, opens, born, owner, reader, writer>>
          /\ writer[c] = "backlog"
          /\ \A d \in Conns : d # c => cursor'[d] = cursor[d]
      BY <2>3 DEF dequeue_page
    <3> QED BY <3>1
  <2>4. CASE BacklogDone(c)
    BY <2>4 DEF BacklogDone, EndBacklog
  <2>5. CASE WriteLive(c) \/ WriteBacklog(c)
    BY <2>5 DEF WriteLive, WriteBacklog
  <2>6. CASE WriterFails(c)
    BY <2>6 DEF WriterFails, DropWriter, EndBacklog
  <2>7. CASE ReaderExit(c)
    BY <2>7 DEF ReaderExit
  <2>8. CASE OnlineRemove(c)
    BY <2>8 DEF OnlineRemove
  <2>9. CASE AbortWriter(c)
    BY <2>9 DEF AbortWriter, DropWriter, EndBacklog
  <2>10. ASSUME NEW ids \in AckBatches, ClientAck(c, ids)
         PROVE ConnsInv' /\ OnlineExact'
    BY <2>10 DEF ClientAck
  <2> QED BY <1>4, <2>1, <2>2, <2>3, <2>4, <2>5, <2>6, <2>7, <2>8, <2>9, <2>10
          DEF Connection, Deliver, Close
<1> QED
  BY <1>1, <1>2, <1>3, <1>4 DEF Next, vars, Tick, cleanup_expired, DatabaseCrash,
     Send, SendStart, SendLock, SendCount, SendInsert, SendAbort, HttpAck

\* No step takes a stored message from in front of a working connection without
\* writing it: the inductive step of NoSkip.
LEMMA SkipStep == SkipInv /\ [Next]_vars => NoMessageSkipped'
<1> SUFFICES ASSUME SkipInv, [Next]_vars PROVE NoMessageSkipped'
  OBVIOUS
<1>t. TypeOK'
  BY TypeStep DEF SkipInv
<1> SUFFICES ASSUME NEW c \in Conns, Listed(c)', writer'[c] # "done",
                    NEW m \in Msgs, m \in queue', to'[m] = owner'[c]
             PROVE  \/ m \in written'[c] \cup Ahead(c)'
                    \/ stage'[m] \in {"stored", "unpushed"}
                    \/ /\ stage'[m] = "pushed" /\ pushedTo'[m] # NoConn
                       /\ born'[pushedTo'[m]] > born'[c]
  BY <1>t DEF NoMessageSkipped, Box, TypeOK
<1> DEFINE Kept == \/ m \in written[c] \cup Ahead(c)
                   \/ stage[m] \in {"stored", "unpushed"}
                   \/ /\ stage[m] = "pushed" /\ pushedTo[m] # NoConn
                      /\ born[pushedTo[m]] > born[c]
<1> USE DEF SkipInv, TypeOK
<1>0. ASSUME Listed(c), writer[c] # "done", m \in queue, to[m] = owner[c]
      PROVE  Kept
  BY <1>0 DEF NoMessageSkipped, Box
<1>1. CASE /\ UNCHANGED <<owner, born, reader, writer, until, cursor, more, pending,
                          rx, written, to, pushedTo>>
           /\ queue' \subseteq queue
           /\ stage'[m] = stage[m] \/ stage'[m] \in {"stored", "unpushed"}
           /\ queuedAt'[m] = queuedAt[m]
  BY <1>0, <1>1 DEF Listed, Ahead, Unread, Box, AfterCursor
<1>2. CASE Tick \/ cleanup_expired \/ DatabaseCrash
           \/ \E u \in Registered, ids \in AckBatches : HttpAck(u, ids)
  BY <1>1, <1>2 DEF Tick, cleanup_expired, DatabaseCrash, HttpAck, ack_messages,
     sendVars, dbVars, connVars, RowsInv, Stored
<1>3. CASE ServerRestart
  BY <1>3 DEF ServerRestart, Listed
<1>4. ASSUME NEW n \in Msgs, Send(n) PROVE Kept'
  <2> USE DEF sendVars, dbVars, connVars
  <2>1. CASE SendLock(n) \/ SendCount(n) \/ \E ttl \in TtlAsked : SendStart(n, ttl)
    <3>1. n # m
      BY <2>1 DEF SendLock, SendCount, SendStart, RowsInv, Stored
    <3> QED BY <1>1, <2>1, <3>1 DEF SendLock, SendCount, SendStart
  <2>2. CASE SendInsert(n)
    <3>1. CASE n = m
      BY <2>2, <3>1 DEF SendInsert, RowsInv, Stored
    <3>2. CASE n # m
      <4>1. m \in queue /\ to[m] = owner[c] /\ Listed(c) /\ writer[c] # "done"
        BY <2>2, <3>2 DEF SendInsert, Listed
      <4>2. Kept
        BY <1>0, <4>1
      <4>3. stage'[m] = stage[m] /\ Ahead(c) \subseteq Ahead(c)'
        BY <2>2, <3>2 DEF SendInsert, Ahead, Unread, Box, AfterCursor
      <4> QED BY <2>2, <4>2, <4>3 DEF SendInsert
    <3> QED BY <3>1, <3>2
  <2>3. CASE SendAbort(n)
    BY <1>1, <2>3 DEF SendAbort, SendAborted, RowsInv, Stored
  <2>4. CASE SendPush(n)
    <3>1. /\ m \in queue /\ to[m] = owner[c] /\ Listed(c) /\ writer[c] # "done"
          /\ UNCHANGED <<queue, to, queuedAt, owner, reader, writer, born, until,
                         cursor, more, pending, written>>
      BY <2>4 DEF SendPush, Listed
    <3>2. Kept
      BY <1>0, <3>1
    <3>3. \A i \in 1..Len(rx[c]) : i \in 1..Len(rx'[c]) /\ rx'[c][i] = rx[c][i]
      <4>1. CASE UNCHANGED rx
        BY <4>1
      <4>2. ASSUME NEW d \in Conns, rx' = [rx EXCEPT ![d] = Append(@, n)]
            PROVE  \A i \in 1..Len(rx[c]) : i \in 1..Len(rx'[c]) /\ rx'[c][i] = rx[c][i]
        BY <4>2
      <4> QED BY <2>4, <4>1, <4>2 DEF SendPush
    <3>4. Ahead(c) \subseteq Ahead(c)'
      <4> SUFFICES ASSUME NEW x \in Ahead(c) PROVE x \in Ahead(c)'
        OBVIOUS
      <4>1. CASE x \in {rx[c][i] : i \in 1..Len(rx[c])}
        BY <3>3, <4>1 DEF Ahead
      <4>2. CASE x \notin {rx[c][i] : i \in 1..Len(rx[c])}
        BY <3>1, <4>2 DEF Ahead, Unread, Box, AfterCursor
      <4> QED BY <4>1, <4>2
    <3>5. CASE n # m
      <4>1. stage'[m] = stage[m] /\ pushedTo'[m] = pushedTo[m]
        BY <2>4, <3>5 DEF SendPush
      <4> QED BY <3>1, <3>2, <3>4, <4>1
    <3>6. CASE n = m
      <4>1. c \in Takers(to[m])
        BY <3>1 DEF Takers, ChannelOpen, OnlineExact, Listed
      <4>2. PICK d \in Conns : /\ Newest(d, Takers(to[m]))
                               /\ pushedTo' = [pushedTo EXCEPT ![m] = d]
                               /\ rx' = [rx EXCEPT ![d] = Append(@, m)]
        BY <2>4, <3>6, <4>1 DEF SendPush
      <4>3. CASE d = c
        <5>1. Len(rx'[c]) \in 1..Len(rx'[c]) /\ rx'[c][Len(rx'[c])] = m
          BY <4>2, <4>3
        <5> QED BY <5>1 DEF Ahead
      <4>4. CASE d # c
        <5>1. Listed(d) /\ owner[d] = to[m]
          BY <4>2 DEF Newest, Takers, OnlineExact
        <5>2. born[d] > born[c]
          BY <3>1, <4>1, <4>2, <4>4, <5>1 DEF Newest, OnlineExact
        <5> QED BY <2>4, <3>1, <3>6, <4>2, <5>2, ConnsAssumption DEF SendPush
      <4> QED BY <4>3, <4>4
    <3> QED BY <3>5, <3>6
  <2> QED BY <1>4, <2>1, <2>2, <2>3, <2>4 DEF Send
<1>5. ASSUME NEW d \in Conns, Connection(d) PROVE Kept'
  <2> USE DEF sendVars, dbVars, connVars
  <2>1. ASSUME NEW ids \in AckBatches, ClientAck(d, ids) PROVE Kept'
    BY <1>1, <2>1 DEF ClientAck, ack_messages
  <2>2. CASE Connect(d)
    <3>1. CASE d = c
      BY <2>2, <3>1 DEF Connect, Ahead, Box, ConnsInv
    <3>2. CASE d # c
      <4>1. /\ Kept
            /\ UNCHANGED <<stage, pushedTo>> /\ written'[c] = written[c]
            /\ born'[c] = born[c] /\ \A e \in Conns : born'[e] >= born[e]
        BY <1>0, <2>2, <3>2 DEF Connect, Listed, ConnsInv
      <4>2. Ahead(c)' = Ahead(c)
        BY <2>2, <3>2 DEF Connect, Ahead, Unread, Box, AfterCursor
      <4>3. CASE pushedTo[m] # NoConn /\ born[pushedTo[m]] > born[c]
        <5>1. pushedTo[m] \in Conns
          BY <4>3
        <5>2. born'[pushedTo[m]] > born'[c]
          <6>1. born' = [born EXCEPT ![d] = opens + 1] /\ born[c] <= opens
            BY <2>2 DEF Connect, ConnsInv
          <6> QED BY <3>2, <4>3, <5>1, <6>1
        <5> QED BY <4>1, <4>2, <4>3, <5>2
      <4> QED BY <4>1, <4>2, <4>3
    <3> QED BY <3>1, <3>2
  <2>3. CASE d # c /\ (Deliver(d) \/ WriterFails(d) \/ Close(d))
    <3>1. /\ UNCHANGED <<stage, pushedTo, to, queuedAt, queue, owner, born>>
          /\ reader'[c] = reader[c] /\ writer'[c] = writer[c] /\ until'[c] = until[c]
          /\ cursor'[c] = cursor[c] /\ more'[c] = more[c] /\ pending'[c] = pending[c]
          /\ rx'[c] = rx[c] /\ written'[c] = written[c]
      <4>1. CASE StartWriter(d) \/ dequeue_page(d)
        BY <2>3, <4>1 DEF StartWriter, dequeue_page
      <4>2. CASE BacklogDone(d) \/ WriteLive(d) \/ WriteBacklog(d)
        BY <2>3, <4>2 DEF BacklogDone, EndBacklog, WriteLive, WriteBacklog
      <4>3. CASE WriterFails(d) \/ Close(d)
        BY <2>3, <4>3 DEF WriterFails, Close, ReaderExit, OnlineRemove, AbortWriter,
           DropWriter, EndBacklog
      <4> QED BY <2>3, <4>1, <4>2, <4>3 DEF Deliver
    <3>2. Kept
      BY <1>0, <3>1 DEF Listed
    <3>3. Ahead(c)' = Ahead(c)
      BY <3>1 DEF Ahead, Unread, Box, AfterCursor
    <3> QED BY <3>1, <3>2, <3>3
  <2>4. CASE StartWriter(c)
    <3>1. AfterCursor(m, cursor[c])
      BY <2>4 DEF StartWriter, ConnsInv, AfterCursor, StartOfQueue
    <3>2. m \in Unread(c)'
      BY <2>4, <3>1 DEF StartWriter, Unread, RowsInv, AfterCursor
    <3> QED BY <2>4, <3>2 DEF StartWriter, Ahead
  <2>5. CASE dequeue_page(c)
    <3>0. /\ Kept /\ UNCHANGED <<stage, pushedTo, born, written, rx, writer, queue, to,
                                  queuedAt, owner, until>>
          /\ m \in queue /\ to[m] = owner[c] /\ writer[c] = "backlog" /\ more[c]
          /\ pending[c] = {}
      BY <1>0, <2>5 DEF dequeue_page, Listed
    <3>1. CASE m \notin Unread(c)
      BY <3>0, <3>1 DEF Ahead
    <3>2. CASE m \in Unread(c)
      <4>1. PICK P \in SUBSET Unread(c) :
              /\ IsPage(P, Unread(c))
              /\ pending' = [pending EXCEPT ![c] = P]
              /\ \/ /\ Cardinality(P) = PageSize
                    /\ \E l \in P : /\ Last(l, P)
                                     /\ cursor' = [cursor EXCEPT ![c] = Position(l)]
                    /\ more' = more
                 \/ /\ Cardinality(P) # PageSize
                    /\ cursor' = cursor
                    /\ more' = [more EXCEPT ![c] = FALSE]
        BY <2>5 DEF dequeue_page
      <4>2. CASE m \in P
        BY <4>1, <4>2 DEF Ahead
      <4>3. CASE m \notin P
        <5>1. Cardinality(P) = PageSize /\ \A p \in P : Precedes(p, m)
          BY <3>2, <4>1, <4>3 DEF IsPage
        <5>2. PICK l \in P : cursor' = [cursor EXCEPT ![c] = Position(l)] /\ more' = more
          BY <4>1, <5>1
        <5>3. AfterCursor(m, Position(l))
          BY <5>1 DEF AfterCursor, Precedes, Position
        <5>4. m \in Unread(c)'
          BY <3>0, <3>2, <5>2, <5>3 DEF Unread, AfterCursor
        <5> QED BY <3>0, <5>2, <5>4 DEF Ahead
      <4> QED BY <4>2, <4>3
    <3> QED BY <3>1, <3>2
  <2>6. CASE BacklogDone(c)
    <3>1. Kept /\ Ahead(c) \subseteq Ahead(c)'
      BY <1>0, <2>6 DEF BacklogDone, Listed, Ahead
    <3> QED BY <2>6, <3>1 DEF BacklogDone
  <2>7. CASE WriteLive(c)
    <3>1. Kept /\ UNCHANGED <<stage, pushedTo, born>>
      BY <1>0, <2>7 DEF WriteLive, Listed
    <3>2. ASSUME NEW i \in 1..Len(rx[c])
          PROVE  \/ rx[c][i] \in written'[c]
                 \/ \E j \in 1..Len(rx'[c]) : rx'[c][j] = rx[c][i]
      <4>1. CASE i = 1
        BY <2>7, <4>1 DEF WriteLive
      <4>2. CASE i # 1
        <5>1. i - 1 \in 1..Len(rx'[c]) /\ rx'[c][i - 1] = rx[c][i]
          BY <2>7, <4>2 DEF WriteLive
        <5> QED BY <5>1
      <4> QED BY <4>1, <4>2
    <3>3. Ahead(c) \cup written[c] \subseteq Ahead(c)' \cup written'[c]
      <4> SUFFICES ASSUME NEW x \in Ahead(c) \cup written[c]
                   PROVE  x \in Ahead(c)' \cup written'[c]
        OBVIOUS
      <4>1. CASE x \in {rx[c][i] : i \in 1..Len(rx[c])}
        BY <3>2, <4>1 DEF Ahead
      <4>2. CASE x \notin {rx[c][i] : i \in 1..Len(rx[c])}
        BY <2>7, <4>2 DEF WriteLive, Ahead, Unread, Box, AfterCursor
      <4> QED BY <4>1, <4>2
    <3> QED BY <3>1, <3>3
  <2>8. CASE WriteBacklog(c)
    <3>1. Kept /\ UNCHANGED <<stage, pushedTo, born>>
      BY <1>0, <2>8 DEF WriteBacklog, Listed
    <3>2. Ahead(c) \cup written[c] \subseteq Ahead(c)' \cup written'[c]
      BY <2>8 DEF WriteBacklog, Ahead, Unread, Box, AfterCursor
    <3> QED BY <3>1, <3>2
  <2>9. CASE ReaderExit(c)
    <3>1. Kept /\ Ahead(c)' = Ahead(c)
      BY <1>0, <2>9 DEF ReaderExit, Listed, Ahead, Unread, Box, AfterCursor
    <3> QED BY <2>9, <3>1 DEF ReaderExit
  <2>10. CASE WriterFails(c) \/ OnlineRemove(c) \/ AbortWriter(c)
    BY <2>10 DEF WriterFails, OnlineRemove, AbortWriter, DropWriter, Listed
  <2> QED BY <1>5, <2>1, <2>2, <2>3, <2>4, <2>5, <2>6, <2>7, <2>8, <2>9, <2>10
          DEF Connection, Deliver, Close
<1>6. CASE UNCHANGED vars
  BY <1>1, <1>6 DEF vars, sendVars, dbVars, connVars
<1> QED BY <1>2, <1>3, <1>4, <1>5, <1>6 DEF Next

\* While a connection is registered and its writer works, every message stored
\* for its account is written to it, ahead of it, still to be pushed, or with a
\* newer connection: for any number of messages, accounts and connections, and
\* any page size.
THEOREM NoSkip == Spec => []NoMessageSkipped
<1>1. Init => SkipInv
  <2> SUFFICES ASSUME Init PROVE SkipInv
    OBVIOUS
  <2>1. TypeOK
    BY TypeInit
  <2>2. RowsInv /\ ConnsInv
    BY DEF Init, RowsInv, ConnsInv
  <2>3. OnlineExact /\ NoMessageSkipped
    BY DEF Init, OnlineExact, NoMessageSkipped, Listed
  <2> QED BY <2>1, <2>2, <2>3 DEF SkipInv
<1>2. SkipInv /\ [Next]_vars => SkipInv'
  BY TypeStep, RowsStep, ConnsStep, SkipStep DEF SkipInv
<1>3. SkipInv => NoMessageSkipped
  BY DEF SkipInv
<1> QED BY <1>1, <1>2, <1>3, PTL DEF Spec

----------------------------------------------------------------------------
(* The cap on a mailbox *)

\* A transaction past its lock holds it, so only one send to a mailbox is
\* between counting and inserting, and the rows it counted still include every
\* row of the mailbox.
LockInv == \A m \in Msgs :
    /\ stage[m] \in {"locked", "counted"} => lock[to[m]] = m
    /\ stage[m] = "counted" => Box(to[m]) \subseteq usage[m] /\ IsFiniteSet(usage[m])

CapInv == TypeOK /\ IsFiniteSet(queue) /\ LockInv /\ CountWithinCap

\* A mailbox that only loses rows stays within the cap.
LEMMA FewerRows ==
    ASSUME TypeOK, IsFiniteSet(queue), CountWithinCap,
           queue' \subseteq queue, to' = to
    PROVE  IsFiniteSet(queue)' /\ CountWithinCap' /\ \A u \in Users : Box(u)' \subseteq Box(u)
<1>1. IsFiniteSet(queue')
  BY FS_Subset
<1>2. ASSUME NEW u \in Users
      PROVE  Box(u)' \subseteq Box(u) /\ Cardinality(Box(u)') <= MaxMessages
  <2>1. Box(u)' \subseteq Box(u) /\ Box(u) \subseteq queue
    BY DEF Box
  <2>2. IsFiniteSet(Box(u)) /\ Cardinality(Box(u)) \in Nat
    BY <2>1, FS_Subset, FS_CardinalityType
  <2>3. Cardinality(Box(u)') \in Nat /\ Cardinality(Box(u)') <= Cardinality(Box(u))
    BY <2>1, <2>2, FS_Subset, FS_CardinalityType
  <2> QED BY <2>1, <2>2, <2>3, CapAssumption DEF CountWithinCap
<1> QED BY <1>1, <1>2 DEF CountWithinCap

\* While a transaction holds the recipient's lock nobody else adds a row, so what
\* it counted is still an upper bound when it inserts: the inductive step of
\* CapHolds.
LEMMA CapStep == CapInv /\ [Next]_vars => CapInv'
<1> SUFFICES ASSUME CapInv, [Next]_vars PROVE CapInv'
  OBVIOUS
<1>t. TypeOK'
  BY TypeStep DEF CapInv
<1>0. /\ TypeOK /\ IsFiniteSet(queue) /\ LockInv /\ CountWithinCap
  BY DEF CapInv
<1> USE DEF sendVars, dbVars, connVars
<1>1. CASE UNCHANGED <<stage, to, usage, lock>> /\ queue' \subseteq queue
  <2>1. IsFiniteSet(queue)' /\ CountWithinCap' /\ \A u \in Users : Box(u)' \subseteq Box(u)
    BY <1>0, <1>1, FewerRows
  <2>2. LockInv'
    BY <1>0, <1>1, <2>1 DEF LockInv, TypeOK
  <2> QED BY <1>t, <2>1, <2>2 DEF CapInv
<1>2. CASE ServerRestart \/ DatabaseCrash
  <2>1. queue' \subseteq queue /\ to' = to
    BY <1>2 DEF ServerRestart, DatabaseCrash
  <2>2. IsFiniteSet(queue)' /\ CountWithinCap'
    BY <1>0, <2>1, FewerRows
  <2>3. \A m \in Msgs : stage'[m] \notin {"locked", "counted"}
    BY <1>2 DEF ServerRestart, DatabaseCrash, SendAborted
  <2> QED BY <1>t, <2>2, <2>3 DEF CapInv, LockInv
<1>3. ASSUME NEW n \in Msgs, Send(n) PROVE CapInv'
  <2>1. CASE SendInsert(n) /\ ~Full(n)
    <3>1. /\ lock[to[n]] = n /\ Box(to[n]) \subseteq usage[n] /\ IsFiniteSet(usage[n])
          /\ queue' = queue \cup {n} /\ to' = to
          /\ stage' = [stage EXCEPT ![n] = "stored"]
          /\ lock' = [u \in Users |-> IF lock[u] = n THEN NoMsg ELSE lock[u]]
          /\ usage' = [usage EXCEPT ![n] = {}]
      BY <1>0, <2>1 DEF SendInsert, EndTransaction, LockInv
    <3>2. IsFiniteSet(queue')
      BY <1>0, <3>1, FS_AddElement
    <3>3. ASSUME NEW u \in Users PROVE Cardinality(Box(u)') <= MaxMessages
      <4>1. CASE u # to[n]
        <5>1. Box(u)' = Box(u)
          BY <3>1, <4>1 DEF Box
        <5> QED BY <1>0, <5>1 DEF CountWithinCap
      <4>2. CASE u = to[n]
        <5>1. Box(u)' \subseteq usage[n] \cup {n}
          BY <3>1, <4>2 DEF Box
        <5>2. /\ IsFiniteSet(usage[n] \cup {n})
              /\ Cardinality(usage[n] \cup {n}) \in Nat /\ Cardinality(usage[n]) \in Nat
              /\ Cardinality(usage[n] \cup {n}) <= Cardinality(usage[n]) + 1
          <6>1. IsFiniteSet(usage[n]) /\ Cardinality(usage[n]) \in Nat
            BY <3>1, FS_CardinalityType
          <6>2. /\ IsFiniteSet(usage[n] \cup {n})
                /\ Cardinality(usage[n] \cup {n}) =
                     IF n \in usage[n] THEN Cardinality(usage[n])
                                       ELSE Cardinality(usage[n]) + 1
            BY <6>1, FS_AddElement
          <6> QED BY <6>1, <6>2
        <5>3. /\ Cardinality(Box(u)') \in Nat
              /\ Cardinality(Box(u)') <= Cardinality(usage[n] \cup {n})
          BY <5>1, <5>2, FS_Subset, FS_CardinalityType
        <5>4. ~(Cardinality(usage[n]) >= MaxMessages)
          BY <2>1 DEF Full
        <5> QED BY <5>2, <5>3, <5>4, CapAssumption
      <4> QED BY <4>1, <4>2
    <3>4. ASSUME NEW m \in Msgs, stage'[m] \in {"locked", "counted"}
          PROVE  /\ lock'[to'[m]] = m
                 /\ stage'[m] = "counted" => Box(to[m])' \subseteq usage'[m]
                                             /\ IsFiniteSet(usage'[m])
      <4>1. m # n /\ stage[m] = stage'[m] /\ lock[to[m]] = m /\ to[m] \in Users
        BY <1>0, <3>1, <3>4 DEF TypeOK, LockInv
      <4>2. to[m] # to[n]
        BY <3>1, <4>1
      <4>3. Box(to[m])' = Box(to[m])
        BY <3>1, <4>1, <4>2 DEF Box
      <4>4. lock'[to[m]] = m /\ usage'[m] = usage[m] /\ to'[m] = to[m]
        BY <1>0, <3>1, <4>1 DEF TypeOK
      <4>5. stage'[m] = "counted" => Box(to[m]) \subseteq usage[m] /\ IsFiniteSet(usage[m])
        BY <1>0, <4>1 DEF LockInv
      <4> QED BY <3>1, <4>3, <4>4, <4>5
    <3>5. LockInv'
      BY <3>4 DEF LockInv
    <3>6. CountWithinCap'
      BY <3>3 DEF CountWithinCap
    <3> QED BY <1>t, <3>2, <3>5, <3>6 DEF CapInv
  <2>2. CASE ~(SendInsert(n) /\ ~Full(n))
    <3>1. queue' = queue /\ to' = to
      BY <1>3, <2>2 DEF Send, SendStart, SendLock, SendCount, SendInsert, SendPush,
         SendAbort
    <3>2. IsFiniteSet(queue)' /\ CountWithinCap' /\ \A u \in Users : Box(u)' = Box(u)
      BY <1>0, <3>1, FewerRows DEF Box
    <3>e. ASSUME SendInsert(n) \/ SendAbort(n)
          PROVE  /\ \A m \in Msgs : m # n => stage'[m] = stage[m] /\ usage'[m] = usage[m]
                 /\ stage'[n] \in {"refused", "unpushed"}
                 /\ \A u \in Users : lock[u] # n => lock'[u] = lock[u]
      <4>1. CASE SendInsert(n)
        <5>1. stage' = [stage EXCEPT ![n] = "refused"]
          BY <2>2, <4>1 DEF SendInsert
        <5> QED BY <1>0, <4>1, <5>1 DEF SendInsert, EndTransaction, TypeOK
      <4>2. CASE SendAbort(n)
        <5>1. SendAborted(n) \in {"refused", "unpushed"}
          BY <4>2 DEF SendAbort, SendAborted
        <5> QED BY <1>0, <4>2, <5>1 DEF SendAbort, EndTransaction, TypeOK
      <4> QED BY <3>e, <4>1, <4>2
    <3>3. ASSUME NEW m \in Msgs, stage'[m] \in {"locked", "counted"}
          PROVE  lock'[to[m]] = m
      <4>1. CASE SendLock(n)
        BY <1>0, <3>3, <4>1, MsgsAssumption DEF SendLock, LockInv, TypeOK, NoMsg
      <4>2. CASE SendInsert(n) \/ SendAbort(n)
        <5>1. n # m /\ stage'[m] = stage[m]
          BY <3>3, <3>e, <4>2
        <5> QED BY <1>0, <3>3, <3>e, <4>2, <5>1 DEF LockInv, TypeOK
      <4>3. CASE SendCount(n) \/ SendPush(n) \/ \E ttl \in TtlAsked : SendStart(n, ttl)
        BY <1>0, <3>3, <4>3 DEF SendCount, SendPush, SendStart, LockInv, TypeOK
      <4> QED BY <1>3, <4>1, <4>2, <4>3 DEF Send
    <3>4. ASSUME NEW m \in Msgs, stage'[m] = "counted"
          PROVE  Box(to[m]) \subseteq usage'[m] /\ IsFiniteSet(usage'[m])
      <4>1. CASE SendCount(n)
        <5>1. \A u : IsFiniteSet(Box(u))
          BY <1>0, FS_Subset DEF Box
        <5> QED BY <1>0, <3>4, <4>1, <5>1 DEF SendCount, LockInv, TypeOK
      <4>2. CASE SendInsert(n) \/ SendAbort(n)
        <5>1. stage'[m] = stage[m] /\ usage'[m] = usage[m]
          BY <3>4, <3>e, <4>2
        <5> QED BY <1>0, <3>4, <5>1 DEF LockInv
      <4>3. CASE SendLock(n) \/ SendPush(n) \/ \E ttl \in TtlAsked : SendStart(n, ttl)
        BY <1>0, <3>4, <4>3 DEF SendLock, SendPush, SendStart, LockInv, TypeOK
      <4> QED BY <1>3, <4>1, <4>2, <4>3 DEF Send
    <3>5. LockInv'
      BY <1>0, <3>1, <3>2, <3>3, <3>4 DEF LockInv, TypeOK
    <3> QED BY <1>t, <3>2, <3>5 DEF CapInv
  <2> QED BY <2>1, <2>2
<1>4. CASE Tick \/ cleanup_expired
           \/ \E u \in Registered, ids \in AckBatches : HttpAck(u, ids)
  BY <1>1, <1>4 DEF Tick, cleanup_expired, HttpAck, ack_messages
<1>5. ASSUME NEW c \in Conns, Connection(c) PROVE CapInv'
  <2>1. UNCHANGED <<stage, to, usage, lock>>
    BY <1>5, Zenon DEF Connection, Connect, Deliver, WriterFails, Close, StartWriter,
       dequeue_page, BacklogDone, WriteLive, WriteBacklog, ReaderExit, OnlineRemove,
       AbortWriter, ClientAck
  <2>2. queue' \subseteq queue
    BY <1>5 DEF Connection, Connect, Deliver, WriterFails, Close, StartWriter,
       dequeue_page, BacklogDone, WriteLive, WriteBacklog, ReaderExit, OnlineRemove,
       AbortWriter, ClientAck, ack_messages
  <2> QED BY <1>1, <2>1, <2>2
<1>6. CASE UNCHANGED vars
  BY <1>1, <1>6 DEF vars
<1> QED BY <1>2, <1>3, <1>4, <1>5, <1>6 DEF Next

\* The server starts with empty mailboxes and no transaction.
LEMMA CapInit == Init => CapInv
<1> SUFFICES ASSUME Init PROVE CapInv
  OBVIOUS
<1>1. IsFiniteSet(queue) /\ \A u \in Users : Box(u) = {}
  BY FS_EmptySet DEF Init, Box
<1>2. CountWithinCap
  BY <1>1, FS_EmptySet, CapAssumption DEF CountWithinCap
<1>3. LockInv
  BY DEF Init, LockInv
<1> QED BY TypeInit, <1>1, <1>2, <1>3 DEF CapInv

\* enqueue_capped never lets a mailbox pass its message cap, whatever sends,
\* acknowledgements, expiries and crashes run at the same time.
THEOREM CapHolds == Spec => []CountWithinCap
<1>1. CapInv => CountWithinCap
  BY DEF CapInv
<1> QED BY <1>1, CapInit, CapStep, PTL DEF Spec

----------------------------------------------------------------------------
(* The cap on the bytes of a mailbox *)

\* A set of numbers that is not empty has a least one.
LEMMA Least == ASSUME NEW S, S \subseteq Nat, S # {} PROVE \E n \in S : \A m \in S : n <= m
<1> DEFINE R == OpToRel(<, Nat)
<1>1. IsWellFoundedOn(R, Nat)
  BY NatLessThanWellFounded
<1>2. \A p \in Nat, q \in Nat : p < q => <<p, q>> \in R
  BY DEF OpToRel
<1> HIDE DEF R
<1>3. PICK n \in S : \A m \in S : ~(<<m, n>> \in R)
  BY <1>1, WFMin
<1>4. ASSUME NEW m \in S PROVE n <= m
  <2>1. m \in Nat /\ n \in Nat
    OBVIOUS
  <2>2. ~(m < n)
    BY <1>2, <1>3, <2>1
  <2> QED
    BY <2>1, <2>2
<1> QED
  BY <1>4

\* The bytes of a set of messages, one by one: the message and the place of the byte in it.
Pairs(S) == {p \in S \X Nat : p[2] \in 1 .. Size[p[1]]}

\* How MapThenSumSet sums up, as an equation its function f satisfies.
SumStep(f, s) == IF s = {} THEN 0
                 ELSE Size[CHOOSE x \in s : TRUE] + f[s \ {CHOOSE x \in s : TRUE}]
Sums(S, f) == f = [s \in SUBSET S |-> SumStep(f, s)]

\* Bytes, which sums the sizes (the SUM of enqueue_capped), takes a function that satisfies
\* that equation.
LEMMA BytesDef == ASSUME NEW S PROVE Bytes(S) = (CHOOSE f : Sums(S, f))[S]
BY DEF Bytes, MapThenSumSet, MapThenFoldSet, Sums, SumStep

\* A message more adds its own bytes and no others.
LEMMA PairsAdd ==
    ASSUME NEW S, S \subseteq Msgs, NEW x \in Msgs, x \notin S, IsFiniteSet(Pairs(S))
    PROVE  /\ IsFiniteSet(Pairs(S \cup {x}))
           /\ Cardinality(Pairs(S \cup {x})) = Cardinality(Pairs(S)) + Size[x]
           /\ Cardinality(Pairs(S)) \in Nat /\ Size[x] \in Nat
<1> DEFINE X == {x} \X (1 .. Size[x])
<1>1. Size[x] \in Nat
  BY SizeAssumption
<1>2. IsFiniteSet({x}) /\ Cardinality({x}) = 1
  BY FS_Singleton
<1>3. IsFiniteSet(1 .. Size[x]) /\ Cardinality(1 .. Size[x]) = Size[x]
  BY <1>1, FS_Interval
<1>4. IsFiniteSet(X) /\ Cardinality(X) = 1 * Size[x]
  <2>1. PICK A, B : A = {x} /\ B = 1 .. Size[x]
    OBVIOUS
  <2>2. IsFiniteSet(A \X B) /\ Cardinality(A \X B) = Cardinality(A) * Cardinality(B)
    BY <1>2, <1>3, <2>1, FS_Product
  <2> QED BY <1>2, <1>3, <2>1, <2>2
<1>5. Pairs(S \cup {x}) = Pairs(S) \cup X
  <2>1. \A p : p \in Pairs(S \cup {x}) <=> p \in Pairs(S) \/ p \in X
    <3>1. \A y, k : <<y, k>> \in Pairs(S \cup {x}) <=> <<y, k>> \in Pairs(S) \/ <<y, k>> \in X
      BY <1>1 DEF Pairs
    <3>2. \A p : p \in Pairs(S \cup {x}) \/ p \in Pairs(S) \/ p \in X => p = <<p[1], p[2]>>
      BY DEF Pairs
    <3> HIDE DEF X
    <3> QED BY <3>1, <3>2
  <2> HIDE DEF X
  <2> QED BY <2>1
<1>6. Pairs(S) \cap X = {}
  BY DEF Pairs
<1> HIDE DEF X
<1>7. /\ IsFiniteSet(Pairs(S) \cup X)
      /\ Cardinality(Pairs(S) \cup X) = Cardinality(Pairs(S)) + Cardinality(X) - Cardinality(Pairs(S) \cap X)
  BY <1>4, FS_Union
<1>8. Cardinality(Pairs(S)) \in Nat /\ Cardinality(Pairs(S) \cap X) = 0
  BY <1>6, FS_CardinalityType, FS_EmptySet
<1>9. Cardinality(Pairs(S) \cup X) = Cardinality(Pairs(S)) + Size[x]
  BY <1>1, <1>4, <1>7, <1>8
<1> QED BY <1>1, <1>5, <1>7, <1>8, <1>9

\* Finitely many messages have finitely many bytes: a smallest set that had not would lose a
\* message and still have infinitely many.
LEMMA PairsFinite ==
    ASSUME NEW S, S \subseteq Msgs, IsFiniteSet(S) PROVE IsFiniteSet(Pairs(S))
<1> DEFINE Bad == {Cardinality(T) : T \in {U \in SUBSET S : ~IsFiniteSet(Pairs(U))}}
<1>1. SUFFICES ASSUME ~IsFiniteSet(Pairs(S)) PROVE FALSE
  OBVIOUS
<1>2. Bad \subseteq Nat /\ Bad # {}
  BY <1>1, FS_Subset, FS_CardinalityType
<1>3. PICK n \in Bad : \A m \in Bad : n <= m
  BY <1>2, Least
<1>4. PICK T \in SUBSET S : ~IsFiniteSet(Pairs(T)) /\ n = Cardinality(T)
  OBVIOUS
<1>5. IsFiniteSet(T) /\ Cardinality(T) \in Nat
  BY FS_Subset, FS_CardinalityType
<1>6. T # {}
  <2>1. Pairs({}) = {}
    BY DEF Pairs
  <2> QED BY <1>4, <2>1, FS_EmptySet
<1>7. PICK x \in T : TRUE
  BY <1>6
<1>8. Cardinality(T \ {x}) = Cardinality(T) - 1
  BY <1>5, FS_RemoveElement
<1>9. IsFiniteSet(Pairs(T \ {x}))
  <2>1. T \ {x} \in SUBSET S /\ ~(n <= Cardinality(T \ {x}))
    BY <1>4, <1>5, <1>8
  <2> QED BY <1>3, <2>1
<1>10. T = (T \ {x}) \cup {x} /\ x \notin T \ {x} /\ T \ {x} \subseteq Msgs /\ x \in Msgs
  OBVIOUS
<1> HIDE DEF Bad
<1>11. IsFiniteSet(Pairs((T \ {x}) \cup {x}))
  BY <1>9, <1>10, PairsAdd
<1> QED BY <1>4, <1>10, <1>11

\* What the recursive sum computes: the number of those bytes.  The number satisfies the
\* equation, and a smallest set on which another solution differs would lose a message and
\* still differ.
LEMMA BytesCounted ==
    ASSUME NEW S, S \subseteq Msgs, IsFiniteSet(S)
    PROVE  Bytes(S) = Cardinality(Pairs(S))
<1>1. ASSUME NEW s \in SUBSET S, s # {}, NEW x, x = CHOOSE y \in s : TRUE
      PROVE  /\ x \in s
             /\ Cardinality(Pairs(s)) = Size[x] + Cardinality(Pairs(s \ {x}))
  <2>1. x \in s
    BY <1>1
  <2>2. s = (s \ {x}) \cup {x} /\ x \notin s \ {x} /\ s \ {x} \subseteq Msgs /\ x \in Msgs
    BY <2>1
  <2>3. IsFiniteSet(s \ {x})
    BY FS_Subset
  <2>4. IsFiniteSet(Pairs(s \ {x}))
    BY <2>2, <2>3, PairsFinite
  <2>5. /\ Cardinality(Pairs((s \ {x}) \cup {x})) = Cardinality(Pairs(s \ {x})) + Size[x]
        /\ Cardinality(Pairs(s \ {x})) \in Nat /\ Size[x] \in Nat
    BY <2>2, <2>4, PairsAdd
  <2>6. Cardinality(Pairs(s)) = Cardinality(Pairs(s \ {x})) + Size[x]
    BY <2>2, <2>5
  <2>7. Cardinality(Pairs(s \ {x})) + Size[x] = Size[x] + Cardinality(Pairs(s \ {x}))
    BY <2>5
  <2> QED BY <2>1, <2>6, <2>7
<1>2. Cardinality(Pairs({})) = 0
  <2>1. Pairs({}) = {}
    BY DEF Pairs
  <2> QED BY <2>1, FS_EmptySet
<1> DEFINE g == [s \in SUBSET S |-> Cardinality(Pairs(s))]
<1>3. Sums(S, g)
  <2>1. ASSUME NEW s \in SUBSET S PROVE Cardinality(Pairs(s)) = SumStep(g, s)
    <3>1. CASE s = {}
      BY <1>2, <3>1 DEF SumStep
    <3>2. CASE s # {}
      <4>1. PICK x : x = CHOOSE y \in s : TRUE
        OBVIOUS
      <4>2. x \in s /\ Cardinality(Pairs(s)) = Size[x] + Cardinality(Pairs(s \ {x}))
        BY <1>1, <3>2, <4>1
      <4>3. g[s \ {x}] = Cardinality(Pairs(s \ {x}))
        OBVIOUS
      <4> QED BY <3>2, <4>1, <4>2, <4>3 DEF SumStep
    <3> QED BY <3>1, <3>2
  <2> QED BY <2>1 DEF Sums
<1> HIDE DEF g
<1>4. PICK f : f = CHOOSE h : Sums(S, h)
  OBVIOUS
<1>5. Sums(S, f)
  BY <1>3, <1>4
<1>6. \A s \in SUBSET S : f[s] = SumStep(f, s)
  BY <1>5 DEF Sums
<1> DEFINE Bad == {Cardinality(T) : T \in {U \in SUBSET S : f[U] # Cardinality(Pairs(U))}}
<1>7. Bad = {}
  <2>1. SUFFICES ASSUME Bad # {} PROVE FALSE
    OBVIOUS
  <2>2. Bad \subseteq Nat
    BY FS_Subset, FS_CardinalityType
  <2>3. PICK n \in Bad : \A m \in Bad : n <= m
    BY <2>1, <2>2, Least
  <2>4. PICK T \in SUBSET S : f[T] # Cardinality(Pairs(T)) /\ n = Cardinality(T)
    OBVIOUS
  <2>5. IsFiniteSet(T) /\ Cardinality(T) \in Nat
    BY FS_Subset, FS_CardinalityType
  <2>6. T # {}
    BY <1>2, <1>6, <2>4 DEF SumStep
  <2>7. PICK x : x = CHOOSE y \in T : TRUE
    OBVIOUS
  <2>8. x \in T /\ Cardinality(Pairs(T)) = Size[x] + Cardinality(Pairs(T \ {x}))
    BY <1>1, <2>6, <2>7
  <2>9. f[T] = Size[x] + f[T \ {x}]
    BY <1>6, <2>6, <2>7 DEF SumStep
  <2>10. Cardinality(T \ {x}) = Cardinality(T) - 1
    BY <2>5, <2>8, FS_RemoveElement
  <2>11. f[T \ {x}] = Cardinality(Pairs(T \ {x}))
    <3>1. T \ {x} \in SUBSET S /\ ~(n <= Cardinality(T \ {x}))
      BY <2>4, <2>5, <2>10
    <3> QED BY <2>3, <3>1
  <2> QED BY <2>4, <2>8, <2>9, <2>11
<1>8. f[S] = Cardinality(Pairs(S))
  BY <1>7
<1> QED BY <1>4, <1>8, BytesDef

\* So the sum grows with the set, by the size of what is added.
LEMMA BytesFacts ==
    ASSUME NEW S, S \subseteq Msgs, IsFiniteSet(S)
    PROVE  /\ Bytes(S) \in Nat
           /\ \A T \in SUBSET S : Bytes(T) \in Nat /\ Bytes(T) <= Bytes(S)
           /\ \A x \in Msgs : Bytes(S \cup {x}) \in Nat /\ Bytes(S \cup {x}) <= Bytes(S) + Size[x]
<1>1. ASSUME NEW T \in SUBSET S PROVE Bytes(T) \in Nat /\ Bytes(S) \in Nat /\ Bytes(T) <= Bytes(S)
  <2>1. IsFiniteSet(T) /\ IsFiniteSet(Pairs(S)) /\ IsFiniteSet(Pairs(T))
    BY FS_Subset, PairsFinite
  <2>2. Pairs(T) \in SUBSET Pairs(S)
    BY DEF Pairs
  <2>3. Cardinality(Pairs(T)) <= Cardinality(Pairs(S))
    BY <2>1, <2>2, FS_Subset
  <2> QED BY <2>1, <2>3, BytesCounted, FS_CardinalityType
<1>2. ASSUME NEW x \in Msgs
      PROVE Bytes(S \cup {x}) \in Nat /\ Bytes(S \cup {x}) <= Bytes(S) + Size[x]
  <2>1. Bytes(S) \in Nat /\ Size[x] \in Nat
    BY <1>1, SizeAssumption
  <2>2. CASE x \in S
    <3>1. Bytes(S \cup {x}) = Bytes(S)
      <4>1. S \cup {x} = S
        BY <2>2
      <4> QED BY <4>1
    <3> QED BY <2>1, <3>1
  <2>3. CASE x \notin S
    <3>1. IsFiniteSet(S \cup {x}) /\ S \cup {x} \subseteq Msgs
      BY FS_AddElement
    <3>2. Bytes(S \cup {x}) = Cardinality(Pairs(S \cup {x})) /\ Bytes(S) = Cardinality(Pairs(S))
      BY <3>1, BytesCounted
    <3>3. Cardinality(Pairs(S \cup {x})) = Cardinality(Pairs(S)) + Size[x]
      BY <2>3, PairsAdd, PairsFinite
    <3> QED BY <2>1, <3>2, <3>3
  <2> QED BY <2>2, <2>3
<1> QED BY <1>1, <1>2

\* A mailbox that only loses rows keeps within the byte cap; a row is added only by the
\* handler that holds the recipient's lock, and then the rows it summed up still include
\* every row of the mailbox.
LEMMA BytesStep == CapInv /\ BytesWithinCap /\ [Next]_vars => BytesWithinCap'
<1> SUFFICES ASSUME CapInv, BytesWithinCap, [Next]_vars, NEW u \in Users
             PROVE  Bytes(Box(u)') <= MaxBytes
  BY DEF BytesWithinCap
<1>0. TypeOK /\ IsFiniteSet(queue) /\ LockInv /\ queue \subseteq Msgs
  BY DEF CapInv, TypeOK
<1>1. CASE queue' \subseteq queue /\ to' = to
  <2>1. Box(u)' \in SUBSET Box(u) /\ Box(u) \subseteq Msgs /\ IsFiniteSet(Box(u))
    BY <1>0, <1>1, FS_Subset DEF Box
  <2>2. PICK S, T : S = Box(u) /\ T = Box(u)'
    OBVIOUS
  <2>3. Bytes(S) \in Nat /\ Bytes(T) \in Nat /\ Bytes(T) <= Bytes(S)
    BY <2>1, <2>2, BytesFacts
  <2>4. Bytes(S) <= MaxBytes
    BY <2>2 DEF BytesWithinCap
  <2>5. Bytes(T) <= MaxBytes
    BY <2>3, <2>4, CapAssumption
  <2> QED BY <2>2, <2>5
<1>2. ASSUME NEW n \in Msgs, SendInsert(n), ~Full(n) PROVE Bytes(Box(u)') <= MaxBytes
  <2>1. /\ Box(to[n]) \subseteq usage[n] /\ IsFiniteSet(usage[n])
        /\ queue' = queue \cup {n} /\ to' = to
    BY <1>0, <1>2 DEF SendInsert, LockInv
  <2>2. CASE u # to[n]
    <3>1. Box(u)' = Box(u)
      BY <2>1, <2>2 DEF Box
    <3> QED BY <3>1 DEF BytesWithinCap
  <2>3. CASE u = to[n]
    <3>1. PICK S, T : S = usage[n] /\ T = Box(u)'
      OBVIOUS
    <3>2. T \in SUBSET (S \cup {n}) /\ S \subseteq Msgs /\ IsFiniteSet(S)
      BY <1>0, <2>1, <2>3, <3>1 DEF Box, TypeOK
    <3>3. Bytes(S) \in Nat /\ Bytes(S \cup {n}) \in Nat /\ Bytes(S \cup {n}) <= Bytes(S) + Size[n]
      BY <3>2, BytesFacts
    <3>4. IsFiniteSet(S \cup {n}) /\ S \cup {n} \subseteq Msgs
      BY <3>2, FS_AddElement
    <3>5. Bytes(T) \in Nat /\ Bytes(T) <= Bytes(S \cup {n})
      BY <3>2, <3>4, BytesFacts
    <3>6. ~(Bytes(S) + Size[n] > MaxBytes) /\ Size[n] \in Nat
      BY <1>2, <3>1, SizeAssumption DEF Full
    <3>7. Bytes(T) <= MaxBytes
      BY <3>3, <3>5, <3>6, CapAssumption
    <3> QED BY <3>1, <3>7
  <2> QED BY <2>2, <2>3
<1> USE DEF sendVars, dbVars, connVars
<1>3. CASE Tick \/ cleanup_expired \/ ServerRestart \/ DatabaseCrash
           \/ \E v \in Registered, ids \in AckBatches : HttpAck(v, ids)
  <2>1. queue' \subseteq queue /\ to' = to
    BY <1>3 DEF Tick, cleanup_expired, ServerRestart, DatabaseCrash, HttpAck, ack_messages
  <2> QED BY <1>1, <2>1
<1>4. ASSUME NEW n \in Msgs, Send(n) PROVE Bytes(Box(u)') <= MaxBytes
  <2>1. CASE ~(SendInsert(n) /\ ~Full(n))
    <3>1. queue' = queue /\ to' = to
      BY <1>4, <2>1 DEF Send, SendStart, SendLock, SendCount, SendInsert, SendPush, SendAbort
    <3> QED BY <1>1, <3>1
  <2> QED BY <1>2, <2>1
<1>5. ASSUME NEW c \in Conns, Connection(c) PROVE Bytes(Box(u)') <= MaxBytes
  <2>1. to' = to
    BY <1>5, Zenon DEF Connection, Connect, Deliver, WriterFails, Close, StartWriter,
       dequeue_page, BacklogDone, WriteLive, WriteBacklog, ReaderExit, OnlineRemove,
       AbortWriter, ClientAck
  <2>2. queue' \subseteq queue
    BY <1>5 DEF Connection, Connect, Deliver, WriterFails, Close, StartWriter,
       dequeue_page, BacklogDone, WriteLive, WriteBacklog, ReaderExit, OnlineRemove,
       AbortWriter, ClientAck, ack_messages
  <2> QED BY <1>1, <2>1, <2>2
<1>6. CASE UNCHANGED vars
  BY <1>1, <1>6 DEF vars
<1> QED BY <1>3, <1>4, <1>5, <1>6 DEF Next

\* enqueue_capped never lets a mailbox pass its cap on bytes either, whatever sends run at
\* once and whatever the messages' sizes: a message is refused unless what is stored and
\* its own size fit together.
THEOREM BytesHold == Spec => []BytesWithinCap
<1>1. Init => CapInv /\ BytesWithinCap
  <2> SUFFICES ASSUME Init PROVE CapInv /\ BytesWithinCap
    OBVIOUS
  <2>1. CapInv
    BY CapInit
  <2>2. Bytes({}) = 0
    <3>1. Pairs({}) = {}
      BY DEF Pairs
    <3> QED BY <3>1, BytesCounted, FS_EmptySet
  <2>3. \A u \in Users : Box(u) = {}
    BY DEF Init, Box
  <2> QED BY <2>1, <2>2, <2>3, CapAssumption DEF BytesWithinCap
<1>2. CapInv /\ BytesWithinCap /\ [Next]_vars => (CapInv /\ BytesWithinCap)'
  BY CapStep, BytesStep
<1> QED BY <1>1, <1>2, PTL DEF Spec

----------------------------------------------------------------------------
(* A mailbox is its owner's alone *)

\* A stamped message lives for the clamped lifetime at least.
LifeInv == \A m \in Msgs : stage[m] # "none" => expiresAt[m] >= queuedAt[m] + MinTtl

\* What is stored for a connection's account, and so may reach it.
Meant(m, c) == m \in Msgs /\ to[m] = owner[c] /\ stage[m] \in Stored

\* All that a connection has written, has read and has in its channel is its own.
Reached(c) == written[c] \cup pending[c] \cup {rx[c][i] : i \in 1..Len(rx[c])}
OwnInv == \A c \in Conns : \A m \in Reached(c) : Meant(m, c)

SafeInv == TypeOK /\ RowsInv /\ ConnsInv /\ OnlineExact /\ LifeInv
           /\ NoUnexplainedLoss /\ OwnInv

\* Recipients and owners never change, and what was stored stays a stored message: a
\* handler that fails after the commit leaves it unpushed.
LEMMA StoredStays ==
    ASSUME TypeOK, [Next]_vars
    PROVE  /\ UNCHANGED <<to, owner>>
           /\ \A m \in Msgs : stage[m] \in Stored => stage'[m] \in Stored
<1> USE DEF TypeOK, Stored, sendVars, dbVars, connVars
<1>1. CASE Tick \/ cleanup_expired
  BY <1>1 DEF Tick, cleanup_expired
<1>2. CASE ServerRestart
  BY <1>2 DEF ServerRestart, SendAborted
<1>3. CASE DatabaseCrash
  BY <1>3 DEF DatabaseCrash
<1>4. ASSUME NEW m \in Msgs, Send(m)
      PROVE  UNCHANGED <<to, owner>> /\ \A n \in Msgs : stage[n] \in Stored => stage'[n] \in Stored
  BY <1>4 DEF Send, SendStart, SendLock, SendCount, SendInsert, SendPush, SendAbort, SendAborted
<1>5. ASSUME NEW u \in Registered, NEW ids \in AckBatches, HttpAck(u, ids)
      PROVE  UNCHANGED <<to, owner, stage>>
  BY <1>5 DEF HttpAck
<1>6. ASSUME NEW c \in Conns, Connection(c) PROVE UNCHANGED <<to, owner, stage>>
  BY <1>6, Zenon DEF Connection, Connect, Deliver, WriterFails, Close, StartWriter, dequeue_page,
     BacklogDone, WriteLive, WriteBacklog, ReaderExit, OnlineRemove, AbortWriter, ClientAck
<1>7. CASE UNCHANGED vars
  BY <1>7 DEF vars
<1> QED BY <1>1, <1>2, <1>3, <1>4, <1>5, <1>6, <1>7 DEF Next

\* A row leaves the queue by its recipient's acknowledgement, after its lifetime, or in a
\* crash of the database; nothing that was a reason once ceases to be one.
LEMMA LossStep ==
    TypeOK /\ RowsInv /\ LifeInv /\ NoUnexplainedLoss /\ [Next]_vars => LifeInv' /\ NoUnexplainedLoss'
<1> SUFFICES ASSUME TypeOK, RowsInv, LifeInv, NoUnexplainedLoss, [Next]_vars
             PROVE  LifeInv' /\ NoUnexplainedLoss'
  OBVIOUS
<1> USE TtlAssumption DEF TypeOK, LifeInv, NoUnexplainedLoss, Stored, sendVars, dbVars, connVars
<1>1. CASE Tick
  BY <1>1 DEF Tick
<1>2. CASE cleanup_expired
  <2>1. UNCHANGED <<clock, stage, to, queuedAt, expiresAt, ackedBy, dbCrashed>>
    BY <1>2 DEF cleanup_expired
  <2>2. \A m \in queue : m \in queue' \/ expiresAt[m] < clock
    BY <1>2 DEF cleanup_expired
  <2>3. \A m \in queue : expiresAt[m] < clock /\ stage[m] # "none" => clock > queuedAt[m] + MinTtl
    OBVIOUS
  <2> QED BY <2>1, <2>2, <2>3
<1>3. CASE ServerRestart
  BY <1>3 DEF ServerRestart, SendAborted
<1>4. CASE DatabaseCrash
  BY <1>4 DEF DatabaseCrash
<1>5. ASSUME NEW m \in Msgs, Send(m) PROVE LifeInv' /\ NoUnexplainedLoss'
  <2>1. ASSUME NEW ttl \in TtlAsked, SendStart(m, ttl) PROVE LifeInv' /\ NoUnexplainedLoss'
    BY <2>1, ClampTtl DEF SendStart
  <2>2. CASE SendLock(m) \/ SendCount(m)
    BY <2>2 DEF SendLock, SendCount
  <2>3. CASE SendInsert(m)
    BY <2>3 DEF SendInsert
  <2>4. CASE SendPush(m)
    BY <2>4 DEF SendPush
  <2>5. CASE SendAbort(m)
    BY <2>5 DEF SendAbort, SendAborted
  <2> QED BY <1>5, <2>1, <2>2, <2>3, <2>4, <2>5 DEF Send
<1>6. ASSUME NEW u \in Registered, NEW ids \in AckBatches, HttpAck(u, ids)
      PROVE  LifeInv' /\ NoUnexplainedLoss'
  BY <1>6 DEF HttpAck, ack_messages
<1>7. ASSUME NEW c \in Conns, Connection(c) PROVE LifeInv' /\ NoUnexplainedLoss'
  <2>1. ASSUME NEW ids \in AckBatches, ClientAck(c, ids) PROVE LifeInv' /\ NoUnexplainedLoss'
    BY <2>1 DEF ClientAck, ack_messages
  <2>2. CASE Connect(c) \/ Deliver(c) \/ WriterFails(c) \/ Close(c)
    <3>1. UNCHANGED <<clock, to, queuedAt, expiresAt, stage, queue, ackedBy, dbCrashed>>
      BY <2>2, Zenon DEF Connect, Deliver, WriterFails, Close, StartWriter, dequeue_page,
         BacklogDone, WriteLive, WriteBacklog, ReaderExit, OnlineRemove, AbortWriter
    <3> QED BY <3>1
  <2> QED BY <1>7, <2>1, <2>2 DEF Connection
<1>8. CASE UNCHANGED vars
  BY <1>8 DEF vars
<1> QED BY <1>1, <1>2, <1>3, <1>4, <1>5, <1>6, <1>7, <1>8 DEF Next

\* A page is read from the account's own rows, and a push goes to a connection that is
\* listed under the recipient.
LEMMA OwnStep == SafeInv /\ [Next]_vars => OwnInv'
<1> SUFFICES ASSUME SafeInv, [Next]_vars, NEW c \in Conns, NEW m \in Reached(c)'
             PROVE  m \in Msgs /\ to'[m] = owner'[c] /\ stage'[m] \in Stored
  BY DEF OwnInv, Meant
<1> USE DEF SafeInv
<1>1. ASSUME Meant(m, c) PROVE m \in Msgs /\ to'[m] = owner'[c] /\ stage'[m] \in Stored
  BY <1>1, StoredStays DEF Meant
<1> SUFFICES m \in Reached(c) \/ Meant(m, c)
  BY <1>1 DEF OwnInv
<1>2. CASE UNCHANGED <<written, pending, rx>>
  BY <1>2 DEF Reached
<1>3. CASE ServerRestart
  BY <1>3 DEF ServerRestart, Reached
<1>4. ASSUME NEW n \in Msgs, SendPush(n) PROVE m \in Reached(c) \/ Meant(m, c)
  <2>1. UNCHANGED <<written, pending>> /\ stage[n] \in Stored
    BY <1>4 DEF SendPush, Stored
  <2>2. CASE rx'[c] = rx[c]
    BY <2>1, <2>2 DEF Reached
  <2>3. CASE rx'[c] # rx[c]
    <3>1. c \in Takers(to[n]) /\ rx'[c] = Append(rx[c], n)
      BY <1>4, <2>3 DEF SendPush, Newest, TypeOK
    <3>2. Meant(n, c)
      BY <2>1, <3>1 DEF Takers, OnlineExact, TypeOK, Meant
    <3>3. \A i \in 1..Len(rx'[c]) : \/ i \in 1..Len(rx[c]) /\ rx'[c][i] = rx[c][i]
                                    \/ rx'[c][i] = n
      BY <3>1 DEF TypeOK
    <3> QED BY <2>1, <3>2, <3>3 DEF Reached
  <2> QED BY <2>2, <2>3
<1>5. ASSUME NEW d \in Conns, Connection(d) PROVE m \in Reached(c) \/ Meant(m, c)
  <2> USE DEF connVars
  <2>1. CASE dequeue_page(d)
    <3>1. rx' = rx /\ written' = written /\ pending'[c] \subseteq pending[c] \cup Unread(c)
      BY <2>1 DEF dequeue_page, TypeOK
    <3>2. \A n \in Unread(c) : Meant(n, c)
      BY DEF Unread, RowsInv, TypeOK, Meant
    <3> QED BY <3>1, <3>2 DEF Reached
  <2>2. CASE WriteLive(d)
    <3>1. CASE d # c
      BY <2>2, <3>1 DEF WriteLive, TypeOK, Reached
    <3>2. CASE d = c
      <4>1. /\ written'[c] = written[c] \cup {rx[c][1]} /\ pending'[c] = pending[c]
            /\ 1 \in 1..Len(rx[c]) /\ rx'[c] = Tail(rx[c])
        BY <2>2, <3>2 DEF WriteLive, TypeOK
      <4>2. \A i \in 1..Len(rx'[c]) : i + 1 \in 1..Len(rx[c]) /\ rx'[c][i] = rx[c][i + 1]
        BY <4>1 DEF TypeOK
      <4> QED BY <4>1, <4>2 DEF Reached
    <3> QED BY <3>1, <3>2
  <2>3. CASE WriteBacklog(d)
    <3>1. rx' = rx /\ written'[c] \cup pending'[c] \subseteq written[c] \cup pending[c]
      BY <2>3 DEF WriteBacklog, First, TypeOK
    <3> QED BY <3>1 DEF Reached
  <2>4. CASE WriterFails(d) \/ AbortWriter(d)
    <3>1. /\ written' = written /\ pending'[c] \subseteq pending[c]
          /\ rx'[c] = rx[c] \/ rx'[c] = <<>>
      BY <2>4 DEF WriterFails, AbortWriter, DropWriter, TypeOK
    <3> QED BY <3>1 DEF Reached
  <2>5. CASE \/ Connect(d) \/ StartWriter(d) \/ BacklogDone(d) \/ ReaderExit(d) \/ OnlineRemove(d)
             \/ \E ids \in AckBatches : ClientAck(d, ids)
    <3>1. UNCHANGED <<written, pending, rx>>
      BY <2>5, Zenon DEF Connect, StartWriter, BacklogDone, ReaderExit, OnlineRemove, ClientAck
    <3> QED BY <1>2, <3>1
  <2> QED BY <1>5, <2>1, <2>2, <2>3, <2>4, <2>5 DEF Connection, Deliver, Close
<1> QED
  BY <1>2, <1>3, <1>4, <1>5 DEF Next, vars, connVars, Tick, cleanup_expired, DatabaseCrash, Send,
     SendStart, SendLock, SendCount, SendInsert, SendAbort, HttpAck

\* A mailbox is its owner's alone: a stored message goes only by his acknowledgement, by
\* time or in a crash, and no device is written another account's mail (ack_messages,
\* cleanup_expired, dequeue_page, Online.send).
THEOREM MailStaysSafe == Spec => []MailSafe
<1>1. Init => SafeInv
  <2> SUFFICES ASSUME Init PROVE SafeInv
    OBVIOUS
  <2>1. RowsInv /\ LifeInv /\ NoUnexplainedLoss
    BY DEF Init, RowsInv, LifeInv, NoUnexplainedLoss, Stored
  <2>2. ConnsInv /\ OnlineExact
    BY DEF Init, ConnsInv, OnlineExact, Listed
  <2>3. OwnInv
    BY DEF Init, OwnInv, Reached
  <2> QED BY TypeInit, <2>1, <2>2, <2>3 DEF SafeInv
<1>2. SafeInv /\ [Next]_vars => SafeInv'
  BY TypeStep, RowsStep, ConnsStep, LossStep, OwnStep DEF SafeInv
<1>3. SafeInv => MailSafe
  <2> SUFFICES ASSUME SafeInv, NEW c \in Conns, NEW m \in written[c] \cup Ahead(c) PROVE Meant(m, c)
    BY DEF SafeInv, MailSafe, OwnMailOnly, Meant
  <2>1. CASE m \in Reached(c)
    BY <2>1 DEF SafeInv, OwnInv
  <2>2. CASE m \in queue /\ to[m] = owner[c]
    BY <2>2 DEF SafeInv, RowsInv, TypeOK, Meant
  <2> QED BY <2>1, <2>2 DEF Ahead, Box, Unread, Reached
<1> QED BY <1>1, <1>2, <1>3, PTL DEF Spec
============================================================================
