-------------------------- MODULE MessagingProofs --------------------------
(***************************************************************************)
(* A proof about Messaging: nobody becomes an accepted contact by what he  *)
(* sends.                                                                  *)
(***************************************************************************)
EXTENDS Messaging, TLAPS

\* What the variables look like, as far as the proof needs it: a row per client, and a
\* call for each of its slots.
RecvShape(r) == r = [p \in Clients |-> [pc |-> r[p].pc, item |-> r[p].item,
                                        prior |-> r[p].prior, held |-> r[p].held]]
Shape ==
    /\ status = [p \in Clients |-> status[p]]
    /\ consented = [p \in Clients |-> consented[p]]
    /\ RecvShape(recv)
    /\ sends = [p \in Clients |-> [s \in AllSlots |-> sends[p][s]]]

Wanted == {"pending_outbound", "accepted"}

\* Whatever can lead to an accepted contact has the user's word for it: a contact he asked
\* for, a send in progress, and a frame that was taken while there was such a contact, for
\* it is applied with the status read then.
Asked(p) ==
    /\ status[p] \in Wanted => consented[p]
    /\ \A s \in AllSlots : sends[p][s] # IdleSend => consented[p]
    /\ recv[p].prior \in Wanted => consented[p]

ContactInv == Shape /\ \A p \in Clients : Asked(p)

\* Of the steps: what each may do to the status, the word given, the sends and the status a
\* frame remembers.  A step of client p leaves the other client alone.
Elsewhere(p) == \A q \in Clients : q # p =>
    /\ status'[q] = status[q] /\ consented'[q] = consented[q]
    /\ sends'[q] = sends[q] /\ recv'[q] = recv[q]

\* SetSend changes one slot of one client.
LEMMA SetSendIs ==
    ASSUME Shape, NEW p \in Clients, NEW s \in AllSlots, NEW call, SetSend(p, s, call)
    PROVE  /\ sends' = [q \in Clients |-> [t \in AllSlots |-> sends'[q][t]]]
           /\ \A q \in Clients : q # p => sends'[q] = sends[q]
           /\ sends'[p][s] = call
           /\ \A t \in AllSlots : t # s => sends'[p][t] = sends[p][t]
BY DEF Shape, SetSend

\* Goto keeps what a frame remembers.
LEMMA GotoIs ==
    ASSUME Shape, NEW p \in Clients, NEW pc, Goto(p, pc)
    PROVE  /\ RecvShape(recv')
           /\ \A q \in Clients : q # p => recv'[q] = recv[q]
           /\ recv'[p].prior = recv[p].prior
<1>1. PICK r : r = recv[p]
  OBVIOUS
<1>2. r = [pc |-> r.pc, item |-> r.item, prior |-> r.prior, held |-> r.held]
  BY <1>1 DEF Shape, RecvShape
<1>3. PICK t : t = [r EXCEPT !.pc = pc, !.held = NoSession]
  OBVIOUS
<1>4. t = [pc |-> pc, item |-> r.item, prior |-> r.prior, held |-> NoSession]
  BY ONLY <1>2, <1>3
<1>5. recv' = [recv EXCEPT ![p] = t]
  BY <1>1, <1>3 DEF Goto, SetRecv
<1> QED BY <1>1, <1>4, <1>5 DEF Shape, RecvShape

\* A step of client p that keeps the invariant.
Keeps(p) == Shape' /\ Elsewhere(p) /\ Asked(p)'

\* A call in progress has the user's word.
LEMMA InProgress ==
    ASSUME NEW p, Asked(p), NEW s \in AllSlots, NEW pc, sends[p][s].pc = pc, pc # "idle"
    PROVE  consented[p]
BY DEF Asked, IdleSend

\* A step that changes neither the rows of contacts, the sends nor the frame.
LEMMA KeepsSame ==
    ASSUME Shape, NEW p \in Clients, Asked(p), UNCHANGED <<status, consented, sends, recv>>
    PROVE  Keeps(p)
BY DEF Keeps, Shape, RecvShape, Elsewhere, Asked

\* A step that changes one call in progress only.
LEMMA KeepsSend ==
    ASSUME Shape, NEW p \in Clients, Asked(p), NEW s \in AllSlots, NEW call,
           SetSend(p, s, call), consented[p] \/ call = IdleSend,
           UNCHANGED <<status, consented, recv>>
    PROVE  Keeps(p)
<1>1. sends'[p][s] # IdleSend => consented[p]
  BY SetSendIs
<1>2. \A t \in AllSlots : sends'[p][t] # IdleSend => consented[p]
  BY <1>1, SetSendIs DEF Asked
<1> QED BY <1>2, SetSendIs DEF Keeps, Shape, RecvShape, Elsewhere, Asked

\* A step that moves the frame on.
LEMMA KeepsGoto ==
    ASSUME Shape, NEW p \in Clients, Asked(p), NEW pc, Goto(p, pc),
           UNCHANGED <<status, consented, sends>>
    PROVE  Keeps(p)
BY GotoIs DEF Keeps, Shape, Elsewhere, Asked

\* The steps of sealAndSend: a session may be started and a contact asked for, by a send
\* that has the user's word.
LEMMA SendKeeps ==
    ASSUME Shape, NEW p \in Clients, Asked(p), NEW s \in AllSlots, SendStep(p, s)
    PROVE  Keeps(p)
<1> USE DEF dbVars, history, bounds
<1>1. CASE startSession(p, s)
  <2>1. consented[p]
    BY <1>1, InProgress DEF startSession
  <2>2. /\ status' = [status EXCEPT ![p] = AddStatus(@, "pending_outbound")]
        /\ SetSend(p, s, [sends[p][s] EXCEPT !.pc = "load", !.tried = TRUE])
        /\ UNCHANGED <<consented, recv>>
    BY <1>1 DEF startSession
  <2> QED BY <2>1, <2>2, SetSendIs DEF Keeps, Shape, RecvShape, Elsewhere, Asked
<1>2. CASE SendLoad(p, s)
  <2>1. consented[p]
    BY <1>2, InProgress DEF SendLoad
  <2>2. (\E call : SetSend(p, s, call)) /\ UNCHANGED <<status, consented, recv>>
    BY <1>2 DEF SendLoad
  <2> QED BY <2>1, <2>2, KeepsSend
<1>3. CASE SendSave(p, s)
  <2>1. consented[p]
    BY <1>3, InProgress DEF SendSave
  <2>2. (\E call : SetSend(p, s, call)) /\ UNCHANGED <<status, consented, recv>>
    BY <1>3 DEF SendSave
  <2> QED BY <2>1, <2>2, KeepsSend
<1>4. CASE clearPqxdhInit(p, s)
  <2>1. consented[p]
    BY <1>4, InProgress DEF clearPqxdhInit
  <2>2. (\E call : SetSend(p, s, call)) /\ UNCHANGED <<status, consented, recv>>
    BY <1>4 DEF clearPqxdhInit
  <2> QED BY <2>1, <2>2, KeepsSend
<1>5. CASE SendPost(p, s)
  <2>1. SetSend(p, s, IdleSend) /\ UNCHANGED <<status, consented, recv>>
    BY <1>5 DEF SendPost, EndSend
  <2> QED BY <2>1, KeepsSend
<1> QED BY <1>1, <1>2, <1>3, <1>4, <1>5 DEF SendStep

\* The steps of receiveMessage: a contact is accepted, and an answer sent, only for a frame
\* that was taken while the contact was asked for or accepted already.
LEMMA RecvKeeps ==
    ASSUME Shape, NEW p \in Clients, Asked(p), RecvStep(p)
    PROVE  Keeps(p)
<1> USE DEF dbVars, history, bounds
<1>1. CASE RecvOpen(p)
  <2>1. (\E pc : Goto(p, pc)) /\ UNCHANGED <<status, consented, sends>>
    BY <1>1 DEF RecvOpen
  <2> QED BY <2>1, KeepsGoto
<1>2. CASE markSessionReceived(p)
  <2>1. Goto(p, "opened") /\ UNCHANGED <<status, consented, sends>>
    BY <1>2 DEF markSessionReceived
  <2> QED BY <2>1, KeepsGoto
<1>3. CASE createInboundSession(p)
  <2>1. Goto(p, "created") /\ UNCHANGED <<status, consented, sends>>
    BY <1>3 DEF createInboundSession
  <2> QED BY <2>1, KeepsGoto
<1>4. CASE upsertInboundContact(p)
  <2>1. /\ status' = [status EXCEPT ![p] = AddStatus(@, "pending_inbound")]
        /\ Goto(p, "upserted") /\ UNCHANGED <<consented, sends>>
    BY <1>4 DEF upsertInboundContact
  <2>2. status'[p] \in Wanted => status[p] \in Wanted
    BY <2>1 DEF AddStatus, Wanted, Shape
  <2> QED BY <2>1, <2>2, GotoIs DEF Keeps, Shape, Elsewhere, Asked
<1>5. CASE RecordHandshake(p)
  <2>1. Goto(p, "opened") /\ UNCHANGED <<status, consented, sends>>
    BY <1>5 DEF RecordHandshake
  <2> QED BY <2>1, KeepsGoto
<1>6. CASE RecvDrop(p)
  <2>1. Goto(p, "finish") /\ UNCHANGED <<status, consented, sends>>
    BY <1>6 DEF RecvDrop
  <2> QED BY <2>1, KeepsGoto
<1>7. CASE RecvApply(p)
  <2>1. /\ status'[p] = "accepted" => status[p] = "accepted" \/ recv[p].prior \in Wanted
        /\ status'[p] # "accepted" => status'[p] = status[p]
        /\ \A q \in Clients : q # p => status'[q] = status[q]
        /\ status' = [q \in Clients |-> status'[q]]
    BY <1>7 DEF RecvApply, Shape, Wanted
  <2>2. (\E pc : Goto(p, pc)) /\ UNCHANGED consented
    BY <1>7 DEF RecvApply
  <2>3. status'[p] \in Wanted => consented[p]
    BY <2>1 DEF Asked, Wanted
  <2>4. CASE sends' = sends
    BY <2>1, <2>2, <2>3, <2>4, GotoIs DEF Keeps, Shape, Elsewhere, Asked
  <2>5. CASE Answers(recv[p]) /\ SetSend(p, Reply, Call("accept", "load"))
    <3>1. consented[p] /\ Reply \in AllSlots
      BY <2>5 DEF Answers, Asked, Wanted, AllSlots
    <3> QED BY <2>1, <2>2, <2>5, <3>1, GotoIs, SetSendIs DEF Keeps, Shape, Elsewhere, Asked
  <2> QED BY <1>7, <2>4, <2>5 DEF RecvApply
<1>8. CASE RecvReplied(p)
  <2>1. Goto(p, "finish") /\ UNCHANGED <<status, consented, sends>>
    BY <1>8 DEF RecvReplied
  <2> QED BY <2>1, KeepsGoto
<1>9. CASE RecvRemember(p)
  <2>1. Goto(p, "ack") /\ UNCHANGED <<status, consented, sends>>
    BY <1>9 DEF RecvRemember
  <2> QED BY <2>1, KeepsGoto
<1>10. CASE RecvAck(p)
  <2>1. SetRecv(p, IdleRecv) /\ UNCHANGED <<status, consented, sends>>
    BY <1>10 DEF RecvAck
  <2> QED BY <2>1 DEF SetRecv, IdleRecv, Wanted, Keeps, Shape, RecvShape, Elsewhere, Asked
<1> QED BY <1>1, <1>2, <1>3, <1>4, <1>5, <1>6, <1>7, <1>8, <1>9, <1>10 DEF RecvStep

\* A frame is taken with the status the contact has.
LEMMA LoadKeeps ==
    ASSUME Shape, NEW p \in Clients, Asked(p), NEW item, RecvLoad(p, item)
    PROVE  Keeps(p)
<1>1. \E pc, held : SetRecv(p, [pc |-> pc, item |-> item, prior |-> status[p], held |-> held])
  BY DEF RecvLoad
<1>2. UNCHANGED <<status, consented, sends>>
  BY DEF RecvLoad, dbVars, history
<1>3. PICK r : /\ recv' = [recv EXCEPT ![p] = r] /\ r.prior = status[p]
               /\ r = [pc |-> r.pc, item |-> r.item, prior |-> r.prior, held |-> r.held]
  BY <1>1 DEF SetRecv
<1>4. /\ RecvShape(recv') /\ recv'[p].prior = status[p]
      /\ \A q \in Clients : q # p => recv'[q] = recv[q]
  BY <1>3 DEF Shape, RecvShape
<1> QED BY <1>2, <1>4 DEF Keeps, Shape, Elsewhere, Asked

\* What the user does: he adds, accepts or unblocks, which is his word, or writes to a
\* contact that has it.
LEMMA UserKeeps ==
    ASSUME Shape, NEW p \in Clients, Asked(p), User(p)
    PROVE  Keeps(p)
<1> USE DEF dbVars, history, bounds
<1>1. ASSUME NEW s \in Slots, addContact(p, s) PROVE Keeps(p)
  <2>1. /\ consented' = [consented EXCEPT ![p] = TRUE] /\ recv' = recv
        /\ \E call : SetSend(p, s, call)
        /\ status' = status \/ status' = [status EXCEPT ![p] = "accepted"]
    BY <1>1 DEF addContact
  <2>2. s \in AllSlots
    BY DEF AllSlots
  <2> QED BY <2>1, <2>2, SetSendIs DEF Keeps, Shape, RecvShape, Elsewhere, Asked
<1>2. ASSUME NEW s \in Slots, NEW kind \in {"text", "receipt"}, sendMessage(p, s, kind) PROVE Keeps(p)
  <2>1. /\ status[p] = "accepted" /\ \E call : SetSend(p, s, call)
        /\ UNCHANGED <<status, consented, recv>>
    BY <1>2 DEF sendMessage
  <2>2. s \in AllSlots /\ consented[p]
    BY <2>1 DEF AllSlots, Asked, Wanted
  <2> QED BY <2>1, <2>2, KeepsSend
<1>3. CASE blockContact(p)
  <2>1. status' = [status EXCEPT ![p] = "blocked"] /\ UNCHANGED <<consented, sends, recv>>
    BY <1>3 DEF blockContact
  <2> QED BY <2>1 DEF Wanted, Keeps, Shape, RecvShape, Elsewhere, Asked
<1>4. CASE unblockContact(p)
  <2>1. /\ status' = [status EXCEPT ![p] = "accepted"] /\ UNCHANGED <<sends, recv>>
        /\ consented' = [consented EXCEPT ![p] = TRUE]
    BY <1>4 DEF unblockContact
  <2> QED BY <2>1 DEF Wanted, Keeps, Shape, RecvShape, Elsewhere, Asked
<1>5. CASE removeContact(p)
  <2>1. status' = [status EXCEPT ![p] = "none"] /\ UNCHANGED <<consented, sends, recv>>
    BY <1>5 DEF removeContact
  <2> QED BY <2>1 DEF Wanted, Keeps, Shape, RecvShape, Elsewhere, Asked
<1> QED BY <1>1, <1>2, <1>3, <1>4, <1>5 DEF User

\* A tab that is closed and an account that is recovered forget calls and frames; a backup
\* brings back no status the contact had not.
LEMMA LossKeeps ==
    ASSUME Shape, NEW p \in Clients, Asked(p), Crash(p) \/ Recover(p)
    PROVE  Keeps(p)
<1>1. /\ sends' = [sends EXCEPT ![p] = NoSends] /\ recv' = [recv EXCEPT ![p] = IdleRecv]
      /\ consented' = consented
      /\ status' = status \/ \E s \in {"none", status[p]} : status' = [status EXCEPT ![p] = s]
  BY DEF Crash, Recover, dbVars, history
<1>2. /\ \A q \in Clients : q # p => status'[q] = status[q]
      /\ status'[p] \in Wanted => status[p] \in Wanted
      /\ status' = [q \in Clients |-> status'[q]]
  BY <1>1 DEF Shape, Wanted
<1> QED BY <1>1, <1>2 DEF NoSends, IdleRecv, Wanted, Keeps, Shape, RecvShape, Elsewhere, Asked

\* No step of a client gives the other his word, and none of his own does without him.
LEMMA ContactStep == ContactInv /\ [Next]_vars => ContactInv'
<1> SUFFICES ASSUME ContactInv, [Next]_vars PROVE ContactInv'
  OBVIOUS
<1>0. Shape /\ \A p \in Clients : Asked(p)
  BY DEF ContactInv
<1>1. ASSUME NEW p \in Clients, Keeps(p) PROVE ContactInv'
  BY <1>0, <1>1 DEF Keeps, Elsewhere, ContactInv, Asked
<1>2. ASSUME NEW p \in Clients, User(p) \/ EventLoop(p) \/ Crash(p) \/ Recover(p) PROVE Keeps(p)
  <2>1. CASE User(p)
    BY <1>0, <2>1, UserKeeps
  <2>2. CASE Crash(p) \/ Recover(p)
    BY <1>0, <2>2, LossKeeps
  <2>3. CASE RecvStep(p)
    BY <1>0, <2>3, RecvKeeps
  <2>4. ASSUME NEW s \in AllSlots, SendStep(p, s) PROVE Keeps(p)
    BY <1>0, <2>4, SendKeeps
  <2>5. ASSUME NEW item \in mailbox[p], RecvLoad(p, item) PROVE Keeps(p)
    BY <1>0, <2>5, LoadKeeps
  <2>6. CASE flushOutbox(p)
    <3>1. UNCHANGED <<status, consented, sends, recv>>
      BY <2>6 DEF flushOutbox, history
    <3> QED BY <1>0, <3>1, KeepsSame
  <2> QED BY <1>2, <2>1, <2>2, <2>3, <2>4, <2>5, <2>6 DEF EventLoop
<1>3. CASE UNCHANGED vars
  <2>1. UNCHANGED <<status, consented, sends, recv>>
    BY <1>3 DEF vars, dbVars, history
  <2> QED BY <1>0, <2>1 DEF ContactInv, Shape, RecvShape, Asked
<1> QED BY <1>1, <1>2, <1>3 DEF Next

\* Nobody becomes an accepted contact by what he sends: whatever is sent, redelivered,
\* reordered or replayed, and however receiveMessage, the user and a crash interleave, an
\* accepted contact is one the user asked for, accepted or unblocked.
THEOREM ContactsConsented == Spec => []NoForcedContact
<1>1. Init => ContactInv
  <2> SUFFICES ASSUME Init PROVE ContactInv
    OBVIOUS
  <2>1. Shape
    BY DEF Init, Shape, RecvShape, NoSends, IdleRecv
  <2>2. ASSUME NEW p \in Clients PROVE Asked(p)
    <3>1. status[p] \in Wanted => consented[p]
      BY DEF Init, Wanted
    <3>2. \A s \in AllSlots : sends[p][s] = IdleSend
      BY DEF Init, NoSends
    <3>3. recv[p].prior \notin Wanted
      BY DEF Init, IdleRecv, Wanted
    <3> QED BY <3>1, <3>2, <3>3 DEF Asked
  <2> QED BY <2>1, <2>2 DEF ContactInv
<1>2. ContactInv => NoForcedContact
  BY DEF ContactInv, Asked, Wanted, NoForcedContact
<1> QED BY <1>1, <1>2, ContactStep, PTL DEF Spec
============================================================================
