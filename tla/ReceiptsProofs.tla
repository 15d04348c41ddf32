--------------------------- MODULE ReceiptsProofs ---------------------------
(***************************************************************************)
(* Proofs that the ticks implement Delivery and that the other safety      *)
(* properties of Receipts hold for any texts, files, number of chunks and  *)
(* scenes.                                                                 *)
(***************************************************************************)
EXTENDS Receipts, FiniteSetTheorems, SequenceTheorems, TLAPS

(***************************************************************************)
(* The strengthening.                                                      *)
(***************************************************************************)
Senders ==
    [contact : {"accepted", "none"}, wants : SUBSET Types,
     pc : [Msgs -> {"idle", "uploading", "posting", "taken", "parked", "done"}],
     req : [Msgs -> SUBSET Types], row : [Msgs -> Status], outbox : Seq(Msgs), late : SUBSET Msgs]

Servers == [mail : [Msgs -> Nat], blobs : [Msgs -> 0..Chunks], receipts : SUBSET Receipts,
            went : SUBSET Msgs]

Recipients ==
    [contact : {"accepted", "blocked"}, wants : SUBSET Types, rows : SUBSET Msgs,
     done : SUBSET Msgs, stale : SUBSET Msgs, queue : SUBSET Receipts, parked : SUBSET Receipts]

Histories == [agreed : SUBSET Receipts, sealed : [Receipts -> Nat], leaked : Nat,
              reloads : Nat, again : Nat]

\* The shape of the state; a flush and a drain have rows left while they run.
Shape ==
    /\ snd \in Senders
    /\ srv \in Servers
    /\ rcv \in Recipients /\ IsFiniteSet(rcv.queue)
    /\ told \in Histories
    /\ viewing \subseteq Msgs
    /\ flush \in [todo : Seq(Msgs), at : {"idle", "next", "posted"}]
    /\ flush.at = "idle" <=> flush.todo = <<>>
    /\ drain \in [todo : Seq(Receipts), at : {"idle", "next", "checked", "sent"}]
    /\ drain.at = "idle" <=> drain.todo = <<>>

\* What was received, is in the mailbox or is taken for posted, the server took.
WentInv ==
    /\ \A m \in Msgs : srv.mail[m] > 0 \/ snd.pc[m] = "taken" => m \in srv.went
    /\ flush.at = "posted" => Head(flush.todo) \in srv.went
    /\ rcv.rows \subseteq srv.went /\ viewing \subseteq rcv.rows

\* The messages that may be posted: a file's chunks are all there.
Complete == {m \in Msgs : m \in Files => srv.blobs[m] = Chunks}

\* What is being posted, is parked, is flushed or went, is complete.
FileInv ==
    /\ \A m \in Msgs : snd.pc[m] \in {"posting", "taken", "parked"} => m \in Complete
    /\ snd.outbox \in Seq(Complete)
    /\ flush.todo \in Seq(Complete)
    /\ srv.went \subseteq Complete

\* The recipient agreed to every receipt that is queued, being sent, parked or posted;
\* a drain has every receipt of its list once, and all of them are still queued.
AgreedInv ==
    /\ rcv.queue \cup rcv.parked \cup srv.receipts \subseteq told.agreed
    /\ drain.todo \in Seq(rcv.queue)
    /\ IsInjective(drain.todo)

\* Of a blocked contact's receipts one at most can be past its check, and while it is
\* none was sealed since the block.
BlockInv ==
    /\ told.leaked <= 1
    /\ rcv.contact = "blocked" /\ drain.at = "checked" => told.leaked = 0

One(p) == IF p THEN 1 ELSE 0

\* The times r can still be sealed: it is queued and not just sent, or it can still be
\* queued, on receipt or on a view.
Left(r) ==
    One(r \in rcv.queue /\ ~(drain.at = "sent" /\ Head(drain.todo) = r))
    + IF r[2] = "read" THEN One(r[1] \notin rcv.done) + One(r[1] \in viewing)
                       ELSE One(r[1] \notin rcv.rows)

Allowed(r) == 1 + told.reloads + IF r[2] = "read" THEN told.again ELSE 0

\* Sealed and yet to be sealed together stay within what ReceiptOnce allows.
CreditInv == \A r \in Receipts : told.sealed[r] + Left(r) <= Allowed(r)

IInv == Shape /\ WentInv /\ FileInv /\ AgreedInv /\ BlockInv /\ CreditInv

(***************************************************************************)
(* Sequences.                                                              *)
(***************************************************************************)
\* A list whose rows are all of one table is a list of rows of that table.
LEMMA RowsOf ==
  ASSUME NEW A, NEW B, NEW s \in Seq(A), \A i \in 1..Len(s) : s[i] \in B
  PROVE  s \in Seq(B)
<1>1. s \in [1..Len(s) -> A] /\ Len(s) \in Nat  BY LenProperties
<1>2. s \in [1..Len(s) -> B]  BY <1>1
<1> QED  BY <1>1, <1>2

\* A list of rows of one table is a list of rows of any that contains it.
LEMMA Wider == ASSUME NEW A, NEW B, A \subseteq B, NEW s \in Seq(A) PROVE s \in Seq(B)
<1>1. \A i \in 1..Len(s) : s[i] \in B  BY ElementOfSeq
<1> QED  BY <1>1, RowsOf

\* A deleted row of the outbox leaves a list of the rows that were there (outbox.ts).
LEMMA UnparkedIn ==
  ASSUME NEW S, snd.outbox \in Seq(S), NEW m
  PROVE  Unparked(m) \in Seq(S)
<1> DEFINE s == snd.outbox
           k == CHOOSE i \in DOMAIN s : s[i] = m
<1>1. CASE m \notin ToSet(s)  BY <1>1 DEF Unparked
<1>2. CASE m \in ToSet(s)
  <2>1. k \in 1..Len(s)  BY <1>2, LenProperties DEF ToSet
  <2> HIDE DEF k
  <2>2. \A i \in 1..Len(s) : s[i] \in S  BY ElementOfSeq
  <2>3. Len(s) \in Nat  BY LenProperties
  <2>4. SubSeq(s, 1, k - 1) \in Seq(S)
    <3>1. k - 1 \in Int /\ \A i \in 1..(k - 1) : s[i] \in S  BY <2>1, <2>2, <2>3
    <3> QED  BY <3>1, SubSeqProperties
  <2>5. SubSeq(s, k + 1, Len(s)) \in Seq(S)
    <3>1. k + 1 \in Int /\ Len(s) \in Int /\ \A i \in (k + 1)..Len(s) : s[i] \in S  BY <2>1, <2>2, <2>3
    <3> QED  BY <3>1, SubSeqProperties
  <2>6. RemoveAt(s, k) \in Seq(S)  BY <2>4, <2>5, ConcatProperties DEF RemoveAt
  <2> QED  BY <1>2, <2>6 DEF Unparked, k
<1> QED  BY <1>1, <1>2

\* A flush goes on with the rows after the first, or ends (outbox.ts flushOutbox).
LEMMA NextRowIn ==
  ASSUME NEW S, flush.todo \in Seq(S), flush.todo # <<>>
  PROVE  /\ NextRow \in [todo : Seq(S), at : {"idle", "next"}]
         /\ NextRow.at = "idle" <=> NextRow.todo = <<>>
<1> DEFINE t == Tail(flush.todo)
<1>1. t \in Seq(S) /\ Len(t) = Len(flush.todo) - 1 /\ Len(flush.todo) \in Nat \ {0}
  BY HeadTailProperties, EmptySeq
<1>2. NextRow = IF Len(flush.todo) = 1 THEN Idle ELSE [todo |-> t, at |-> "next"]  BY DEF NextRow
<1> HIDE DEF t
<1>3. ASSUME t = <<>> PROVE Len(flush.todo) = 1
  <2>1. Len(t) = 0  BY <1>3
  <2> QED  BY <1>1, <2>1
<1>4. <<>> \in Seq(S)  BY EmptySeq
<1> QED  BY <1>1, <1>2, <1>3, <1>4 DEF Idle

\* A drain goes on with the receipts after the first, each of which is another one
\* (receipts.ts drainReceipts).
LEMMA NextReceiptIn ==
  ASSUME NEW S, drain.todo \in Seq(S), drain.todo # <<>>, IsInjective(drain.todo)
  PROVE  /\ Head(drain.todo) \in S
         /\ NextReceipt \in [todo : Seq(S \ {Head(drain.todo)}), at : {"idle", "next"}]
         /\ NextReceipt.at = "idle" <=> NextReceipt.todo = <<>>
         /\ IsInjective(NextReceipt.todo)
<1> DEFINE s == drain.todo
           t == Tail(s)
           R == S \ {Head(s)}
<1>1. /\ Head(s) \in S /\ t \in Seq(S) /\ Len(t) = Len(s) - 1 /\ Len(s) \in Nat \ {0}
      /\ \A i \in 1..Len(t) : t[i] = s[i + 1]
  BY HeadTailProperties, EmptySeq
<1>2. /\ Head(s) = s[1]
      /\ NextReceipt = IF Len(s) = 1 THEN Idle ELSE [todo |-> t, at |-> "next"]
  BY <1>1 DEF NextReceipt
<1> HIDE DEF t
<1>3. \A i, j \in 1..Len(s) : s[i] = s[j] => i = j
  BY LenProperties DEF IsInjective
<1>4. \A i \in 1..Len(t) : t[i] \in R
  <2> SUFFICES ASSUME NEW i \in 1..Len(t) PROVE t[i] \in R  OBVIOUS
  <2>1. t[i] = s[i + 1] /\ i + 1 \in 1..Len(s) /\ 1 \in 1..Len(s) /\ i + 1 # 1  BY <1>1
  <2>2. t[i] # Head(s)  BY <1>2, <1>3, <2>1
  <2> QED  BY <1>1, <2>2, ElementOfSeq
<1>5. t \in Seq(R)
  <2> HIDE DEF R
  <2> QED  BY <1>1, <1>4, RowsOf
<1>6. IsInjective(t)
  <2>1. DOMAIN t = 1..Len(t)  BY <1>1, LenProperties
  <2>2. \A i, j \in 1..Len(t) : t[i] = t[j] => i = j
    <3> SUFFICES ASSUME NEW i \in 1..Len(t), NEW j \in 1..Len(t), t[i] = t[j] PROVE i = j  OBVIOUS
    <3>1. i + 1 \in 1..Len(s) /\ j + 1 \in 1..Len(s) /\ s[i + 1] = s[j + 1]  BY <1>1
    <3>2. i + 1 = j + 1  BY <1>3, <3>1
    <3> QED  BY <1>1, <3>2
  <2> QED  BY <2>1, <2>2 DEF IsInjective
<1>7. IsInjective(<<>>) /\ <<>> \in Seq(R)  BY EmptySeq DEF IsInjective
<1>8. ASSUME t = <<>> PROVE Len(s) = 1
  <2>1. Len(t) = 0  BY <1>8
  <2> QED  BY <1>1, <2>1
<1> QED  BY <1>1, <1>2, <1>5, <1>6, <1>7, <1>8 DEF Idle

\* The list a drain works on: the queue, each receipt once (receipts.ts).
LEMMA Listed ==
  ASSUME NEW S, IsFiniteSet(S)
  PROVE  /\ SetToSeq(S) \in Seq(S) /\ IsInjective(SetToSeq(S))
         /\ S # {} => SetToSeq(S) # <<>>
<1> DEFINE n == Cardinality(S)
<1>1. n \in Nat /\ Bijection(1..n, S) # {}  BY FS_CardinalityType DEF ExistsBijection
<1>2. \E f \in [1..n -> S] : IsInjective(f)  BY <1>1 DEF Bijection, Injection
<1>3. SetToSeq(S) \in [1..n -> S] /\ IsInjective(SetToSeq(S))  BY <1>2 DEF SetToSeq
<1>4. S # {} => n # 0  BY FS_EmptySet
<1> HIDE DEF n
<1>5. SetToSeq(S) \in Seq(S) /\ (n # 0 => SetToSeq(S) # <<>>)  BY <1>1, <1>3
<1> QED  BY <1>3, <1>4, <1>5

(***************************************************************************)
(* Initial states.                                                         *)
(***************************************************************************)
\* Whatever was parked in an earlier session was sealed then, a file after its chunks.
LEMMA Start == Init => IInv
<1> SUFFICES ASSUME Init PROVE IInv  OBVIOUS
<1> USE DEF Init, Idle
<1>1. scene \in Scenes /\ scene.parked \in BoundedSeq(Msgs, Cardinality(Msgs)) /\ Chunks \in Nat
  BY ConstantsAssumption
<1>2. scene.parked \in Seq(Msgs)
  <2>1. PICK n \in 0..Cardinality(Msgs) : scene.parked \in [1..n -> Msgs]  BY <1>1 DEF BoundedSeq, SeqOf
  <2>2. n \in Nat  BY <2>1
  <2> QED  BY <2>1, <2>2
<1>3. scene.parked \in Seq(Complete)
  <2>1. \A i \in 1..Len(scene.parked) : scene.parked[i] \in Complete
    <3> SUFFICES ASSUME NEW i \in 1..Len(scene.parked) PROVE scene.parked[i] \in Complete  OBVIOUS
    <3>1. scene.parked[i] \in Msgs /\ scene.parked[i] \in ToSet(scene.parked)
      BY <1>2, LenProperties, ElementOfSeq DEF ToSet
    <3> QED  BY <3>1 DEF Complete
  <2> QED  BY <1>2, <2>1, RowsOf
<1>4. Shape
  <2>1. snd \in Senders  BY <1>2 DEF Senders, Status, Types
  <2>2. srv \in Servers  BY <1>1 DEF Servers
  <2>3. rcv \in Recipients /\ IsFiniteSet(rcv.queue)  BY FS_EmptySet DEF Recipients
  <2>4. told \in Histories  BY DEF Histories
  <2>5. <<>> \in Seq(Msgs) /\ <<>> \in Seq(Receipts)  BY EmptySeq
  <2> QED  BY <2>1, <2>2, <2>3, <2>4, <2>5 DEF Shape
<1>5. WentInv  BY DEF WentInv
<1>6. FileInv
  <2>1. \A m \in Msgs : snd.pc[m] \in {"done", "idle"}  OBVIOUS
  <2>2. <<>> \in Seq(Complete)  BY EmptySeq
  <2> QED  BY <1>3, <2>1, <2>2 DEF FileInv
<1>7. AgreedInv
  <2>1. <<>> \in Seq({})  BY EmptySeq
  <2> QED  BY <2>1 DEF AgreedInv, IsInjective
<1>8. BlockInv  BY DEF BlockInv
<1>9. CreditInv  BY DEF CreditInv, Left, Allowed, One
<1> QED  BY <1>4, <1>5, <1>6, <1>7, <1>8, <1>9 DEF IInv

(***************************************************************************)
(* Steps.                                                                  *)
(***************************************************************************)
\* The server takes a blob (server/routes/messages.rs, as sealAndSend and the flush use it).
LEMMA TakenIn ==
  ASSUME NEW s \in Servers, NEW m \in Msgs
  PROVE  /\ Taken(s, m) \in Servers
         /\ Taken(s, m).went = s.went \cup {m}
         /\ Taken(s, m).blobs = s.blobs /\ Taken(s, m).receipts = s.receipts
         /\ \A n \in Msgs : n # m => Taken(s, m).mail[n] = s.mail[n]
<1>1. s.mail[m] + 1 \in Nat /\ s.mail \in [Msgs -> Nat]  BY DEF Servers
<1>2. [s.mail EXCEPT ![m] = @ + 1] \in [Msgs -> Nat]  BY <1>1
<1>3. s.went \cup {m} \in SUBSET Msgs  BY DEF Servers
<1> QED  BY <1>1, <1>2, <1>3 DEF Taken, Servers

\* One more receipt leaves a finite queue of receipts finite (receipts.ts enqueue).
LEMMA QueuedIn ==
  ASSUME NEW Q \in SUBSET Receipts, IsFiniteSet(Q), NEW m \in Msgs, NEW t \in Types
  PROVE  (Q \cup {<<m, t>>}) \in SUBSET Receipts /\ IsFiniteSet(Q \cup {<<m, t>>})
<1>1. <<m, t>> \in Receipts  BY DEF Receipts
<1>2. IsFiniteSet(Q \cup {<<m, t>>})  BY FS_AddElement
<1> QED  BY <1>1, <1>2

\* Every operation keeps the shape of the state.
LEMMA ShapeStep == ASSUME Shape, AgreedInv, Next PROVE Shape'
<1> USE DEF Shape
<1>1. ASSUME NEW m \in Msgs, Compose(m) PROVE Shape'
  BY <1>1 DEF Compose, Senders
<1>2. ASSUME NEW m \in Msgs, PostOk(m) PROVE Shape'
  BY <1>2, TakenIn DEF PostOk, Senders
<1>3. ASSUME NEW m \in Msgs, NEW taken \in BOOLEAN, PostFails(m, taken) PROVE Shape'
  <2>1. snd' \in Senders  
    <3>1. Append(snd.outbox, m) \in Seq(Msgs)  BY AppendProperties DEF Senders
    <3> QED  BY <1>3, <3>1 DEF PostFails, Senders
  <2>2. srv' \in Servers  BY <1>3, TakenIn DEF PostFails
  <2> QED  BY <1>3, <2>1, <2>2 DEF PostFails
<1>4. ASSUME NEW m \in Msgs, PostRefused(m) PROVE Shape'
  BY <1>4 DEF PostRefused, Senders
<1>5. ASSUME NEW m \in Msgs, AddRow(m) PROVE Shape'
  BY <1>5 DEF AddRow, Senders, Status
<1>6. ASSUME NEW m \in Msgs, NEW ok \in BOOLEAN, FanOut(m, ok) \/ applySyncRecord(m) PROVE Shape'
  BY <1>6 DEF FanOut, applySyncRecord
<1>7. ASSUME NEW m \in Msgs, FlushPost(m) PROVE Shape'
  BY <1>7, TakenIn DEF FlushPost
<1>8. ASSUME NEW m \in Msgs, FlushDone(m) \/ FlushDrop(m) PROVE Shape'
  <2>1. Unparked(m) \in Seq(Msgs)  BY UnparkedIn DEF Senders
  <2>2. \A s \in Status : SetStatus(m, s) \in [Msgs -> Status]  BY DEF SetStatus, Senders
  <2>3. \A s \in Status : [snd EXCEPT !.outbox = Unparked(m), !.row = SetStatus(m, s)] \in Senders
    BY <2>1, <2>2 DEF Senders
  <2>6. snd' \in Senders
    <3>1. snd' = [snd EXCEPT !.outbox = Unparked(m), !.row = SetStatus(m, "sent")]
          \/ snd' = [snd EXCEPT !.outbox = Unparked(m), !.row = SetStatus(m, "failed")]
      BY <1>8 DEF FlushDone, FlushDrop
    <3>2. "sent" \in Status /\ "failed" \in Status  BY DEF Status
    <3> QED  BY <2>3, <3>1, <3>2
  <2>4. flush' = NextRow /\ flush.todo # <<>> /\ UNCHANGED <<srv, rcv, viewing, drain, told>>
    BY <1>8 DEF FlushDone, FlushDrop
  <2>5. NextRow \in [todo : Seq(Msgs), at : {"idle", "next"}] /\ (NextRow.at = "idle" <=> NextRow.todo = <<>>)
    BY <2>4, NextRowIn
  <2> QED  BY <2>4, <2>5, <2>6
<1>9. ASSUME NEW m \in Msgs, Expire(m) PROVE Shape'
  BY <1>9 DEF Expire, Senders
<1>10. ASSUME NEW m \in Msgs, ReceiveText(m) PROVE Shape'
  <2> DEFINE Q == rcv.queue \cup {<<m, "delivered">>}
             T == told.agreed \cup {<<m, "delivered">>}
  <2>1. srv.mail[m] - 1 \in Nat /\ srv.mail \in [Msgs -> Nat]  BY <1>10 DEF ReceiveText, Servers
  <2>2. [srv.mail EXCEPT ![m] = @ - 1] \in [Msgs -> Nat]  BY <2>1
  <2>3. srv' \in Servers  BY <1>10, <2>1, <2>2 DEF ReceiveText, Servers
  <2>4. Q \in SUBSET Receipts /\ IsFiniteSet(Q)  BY QueuedIn DEF Recipients, Types
  <2>5. T \in SUBSET Receipts  BY DEF Histories, Receipts, Types
  <2>6. rcv.rows \cup {m} \in SUBSET Msgs  BY DEF Recipients
  <2> HIDE DEF Q, T
  <2>7. rcv' \in Recipients /\ IsFiniteSet(rcv'.queue)
    BY <1>10, <2>4, <2>6 DEF ReceiveText, Recipients, Q
  <2>8. told' \in Histories  BY <1>10, <2>5 DEF ReceiveText, Consented, Histories, T
  <2> QED  BY <1>10, <2>3, <2>7, <2>8 DEF ReceiveText
<1>11. ASSUME NEW m \in Msgs, View(m) PROVE Shape'
  <2>1. rcv' \in Recipients /\ rcv'.queue = rcv.queue  BY <1>11 DEF View, Recipients
  <2>2. told.again + 1 \in Nat  BY DEF Histories
  <2>3. [told EXCEPT !.again = @ + 1] \in Histories  BY <2>2 DEF Histories
  <2> QED  BY <1>11, <2>1, <2>3 DEF View
<1>12. ASSUME NEW m \in Msgs, QueueRead(m) PROVE Shape'
  <2> DEFINE Q == rcv.queue \cup {<<m, "read">>}
             T == told.agreed \cup {<<m, "read">>}
  <2>1. Q \in SUBSET Receipts /\ IsFiniteSet(Q)  BY QueuedIn DEF Recipients, Types
  <2>2. T \in SUBSET Receipts  BY DEF Histories, Receipts, Types
  <2> HIDE DEF Q, T
  <2>3. rcv' \in Recipients /\ IsFiniteSet(rcv'.queue)  BY <1>12, <2>1 DEF QueueRead, Recipients, Q
  <2>4. told' \in Histories  BY <1>12, <2>2 DEF QueueRead, Histories, T
  <2> QED  BY <1>12, <2>3, <2>4 DEF QueueRead
<1>13. ASSUME NEW m \in Files, Upload(m) PROVE Shape'
  <2>1. m \in Msgs /\ srv.blobs \in [Msgs -> 0..Chunks]  BY DEF Servers, Msgs
  <2>2. srv.blobs[m] + 1 \in 0..Chunks  BY <1>13, <2>1, ConstantsAssumption DEF Upload
  <2>3. [srv.blobs EXCEPT ![m] = @ + 1] \in [Msgs -> 0..Chunks]  BY <2>1, <2>2
  <2>4. srv' \in Servers  BY <1>13, <2>1, <2>3 DEF Upload, Servers
  <2> QED  BY <1>13, <2>4 DEF Upload
<1>14. ASSUME NEW m \in Files, Seal(m) \/ UploadFails(m) PROVE Shape'
  <2>1. m \in Msgs  BY DEF Msgs
  <2>2. [snd EXCEPT !.pc[m] = "posting", !.req[m] = snd.wants] \in Senders  BY <2>1 DEF Senders
  <2>3. [snd EXCEPT !.pc[m] = "done"] \in Senders  BY <2>1 DEF Senders
  <2> QED  BY <1>14, <2>2, <2>3 DEF Seal, UploadFails
<1>15. CASE FlushStart
  BY <1>15 DEF FlushStart, Senders
<1>16. CASE FlushBreak
  BY <1>16, EmptySeq DEF FlushBreak, Idle
<1>17. CASE DrainStart
  <2>1. /\ SetToSeq(rcv.queue) \in Seq(rcv.queue) /\ SetToSeq(rcv.queue) # <<>>
        /\ rcv.queue \subseteq Receipts
    BY <1>17, Listed DEF DrainStart, Recipients
  <2>2. SetToSeq(rcv.queue) \in Seq(Receipts)  BY <2>1, Wider
  <2> QED  BY <1>17, <2>1, <2>2 DEF DrainStart
<1>18. ASSUME NEW r \in Receipts, DrainNext(r) \/ DrainDone(r) PROVE Shape'
  <2>1. drain.todo # <<>> /\ IsInjective(drain.todo)  BY <1>18 DEF DrainNext, DrainDone, AgreedInv
  <2>2. NextReceipt \in [todo : Seq(Receipts), at : {"idle", "next"}] /\ (NextReceipt.at = "idle" <=> NextReceipt.todo = <<>>)
    <3>1. NextReceipt \in [todo : Seq(Receipts \ {Head(drain.todo)}), at : {"idle", "next"}]
      BY <2>1, NextReceiptIn
    <3>2. NextReceipt.todo \in Seq(Receipts)  BY <3>1, Wider
    <3> QED  BY <2>1, <3>1, <3>2, NextReceiptIn
  <2>3. Unqueued(r) \in Recipients /\ IsFiniteSet(Unqueued(r).queue)
    <3>1. IsFiniteSet(rcv.queue \ {r})  BY FS_RemoveElement
    <3> QED  BY <3>1 DEF Unqueued, Recipients
  <2> QED  BY <1>18, <2>1, <2>2, <2>3 DEF DrainNext, DrainDone
<1>19. ASSUME NEW r \in Receipts, NEW parked \in BOOLEAN, DrainSend(r, parked) PROVE Shape'
  <2>1. told.sealed[r] + 1 \in Nat /\ told.leaked + (IF rcv.contact = "blocked" THEN 1 ELSE 0) \in Nat
    BY DEF Histories
  <2>3. [told.sealed EXCEPT ![r] = @ + 1] \in [Receipts -> Nat]  BY <2>1 DEF Histories
  <2>4. told' \in Histories  BY <1>19, <2>1, <2>3 DEF DrainSend, Histories
  <2>2. srv' \in Servers /\ rcv' \in Recipients /\ rcv'.queue = rcv.queue  BY <1>19 DEF DrainSend, Servers, Recipients
  <2> QED  BY <1>19, <2>2, <2>4 DEF DrainSend
<1>20. ASSUME NEW r \in Receipts, FlushReceipt(r) PROVE Shape'
  BY <1>20 DEF FlushReceipt, Servers, Recipients
<1>21. ASSUME NEW m \in Msgs, NEW t \in Types, applyIncomingReceipt(m, t) PROVE Shape'
  <2>1. SetStatus(m, t) \in [Msgs -> Status]  BY DEF SetStatus, Senders, Status
  <2> QED  BY <1>21, <2>1 DEF applyIncomingReceipt, Senders, Servers
<1>22. ASSUME NEW t \in Types, Toggle(t) PROVE Shape'
  <2> DEFINE Flip(W) == IF t \in W THEN W \ {t} ELSE W \cup {t}
  <2>1. \A W \in SUBSET Types : Flip(W) \in SUBSET Types  OBVIOUS
  <2>2. [snd EXCEPT !.wants = Flip(snd.wants)] \in Senders  BY <2>1 DEF Senders
  <2>3. [rcv EXCEPT !.wants = Flip(rcv.wants)] \in Recipients /\ [rcv EXCEPT !.wants = Flip(rcv.wants)].queue = rcv.queue
    BY <2>1 DEF Recipients
  <2> QED  BY <1>22, <2>2, <2>3 DEF Toggle
<1>23. CASE blockContact \/ unblockContact
  <2>1. rcv' \in Recipients /\ rcv'.queue = rcv.queue  BY <1>23 DEF blockContact, unblockContact, Recipients
  <2>2. told' \in Histories
    <3>1. [told EXCEPT !.leaked = 0] \in Histories  BY DEF Histories
    <3> QED  BY <1>23, <3>1 DEF blockContact, unblockContact
  <2> QED  BY <1>23, <2>1, <2>2 DEF blockContact, unblockContact
<1>24. CASE removeContact
  BY <1>24, EmptySeq DEF removeContact, Senders, Status
<1>25. CASE ReloadSender
  BY <1>25, EmptySeq DEF ReloadSender, Interrupted, Senders, Idle
<1>26. CASE ReloadRecipient
  <2>1. rcv' \in Recipients /\ rcv'.queue = rcv.queue  BY <1>26 DEF ReloadRecipient, Recipients
  <2>2. told.reloads + 1 \in Nat  BY DEF Histories
  <2>3. told' \in Histories  BY <1>26, <2>2 DEF ReloadRecipient, Histories
  <2>4. drain' = [todo |-> <<>>, at |-> "idle"] /\ <<>> \in Seq(Receipts)  BY <1>26, EmptySeq DEF ReloadRecipient, Idle
  <2> QED  BY <1>26, <2>1, <2>3, <2>4 DEF ReloadRecipient
<1> QED
  BY <1>1, <1>2, <1>3, <1>4, <1>5, <1>6, <1>7, <1>8, <1>9, <1>10, <1>11, <1>12, <1>13, <1>14, <1>15,
     <1>16, <1>17, <1>18, <1>19, <1>20, <1>21, <1>22, <1>23, <1>24, <1>25, <1>26 DEF Next, Receipts

\* What the recipient has or will be given was taken by the server (Taken comes first
\* in sealAndSend, in a flush and in every answer that is lost).
LEMMA WentStep == ASSUME Shape, WentInv, Next PROVE WentInv'
<1> USE DEF Shape, WentInv
<1> DEFINE Same == UNCHANGED <<snd.pc, srv.mail, srv.went, flush, rcv.rows, viewing>>
<1>1. ASSUME Same PROVE WentInv'  BY <1>1
<1>2. ASSUME NEW m \in Msgs, Compose(m) PROVE WentInv'  BY <1>2 DEF Compose, Senders
<1>3. ASSUME NEW m \in Msgs, PostOk(m) PROVE WentInv'
  <2>1. srv' = Taken(srv, m) /\ UNCHANGED <<flush, rcv, viewing>>  BY <1>3 DEF PostOk
  <2>2. srv'.went = srv.went \cup {m} /\ \A n \in Msgs : n # m => srv'.mail[n] = srv.mail[n]
    BY <2>1, TakenIn
  <2>3. snd'.pc = [snd.pc EXCEPT ![m] = "taken"]  BY <1>3 DEF PostOk, Senders
  <2> QED  BY <2>1, <2>2, <2>3 DEF Senders
<1>4. ASSUME NEW m \in Msgs, NEW taken \in BOOLEAN, PostFails(m, taken) PROVE WentInv'
  BY <1>4, TakenIn DEF PostFails, Senders
<1>5. ASSUME NEW m \in Msgs, PostRefused(m) \/ AddRow(m) PROVE WentInv'
  <2>1. snd'.pc = [snd.pc EXCEPT ![m] = "done"]  BY <1>5 DEF PostRefused, AddRow, Senders
  <2> QED  BY <1>5, <2>1 DEF PostRefused, AddRow, Senders
<1>6. ASSUME NEW m \in Msgs, NEW ok \in BOOLEAN, FanOut(m, ok) \/ applySyncRecord(m) PROVE WentInv'
  BY <1>1, <1>6 DEF FanOut, applySyncRecord
<1>7. ASSUME NEW m \in Msgs, FlushPost(m) PROVE WentInv'
  <2>1. srv' = Taken(srv, m) /\ flush' = [flush EXCEPT !.at = "posted"] /\ UNCHANGED <<snd, rcv, viewing>>
    BY <1>7 DEF FlushPost
  <2>2. srv'.went = srv.went \cup {m} /\ \A n \in Msgs : n # m => srv'.mail[n] = srv.mail[n]
    BY <2>1, TakenIn
  <2>3. Head(flush'.todo) = m  BY <1>7, <2>1 DEF FlushPost
  <2> QED  BY <2>1, <2>2, <2>3
<1>8. ASSUME NEW m \in Msgs, FlushDone(m) \/ FlushDrop(m) PROVE WentInv'
  <2>1. flush.todo # <<>> /\ flush' = NextRow  BY <1>8 DEF FlushDone, FlushDrop
  <2>2. flush'.at # "posted"  BY <2>1, NextRowIn
  <2>3. snd'.pc = snd.pc  BY <1>8 DEF FlushDone, FlushDrop, Senders
  <2> QED  BY <1>8, <2>2, <2>3 DEF FlushDone, FlushDrop
<1>9. ASSUME NEW m \in Msgs, Expire(m) PROVE WentInv'
  BY <1>1, <1>9 DEF Expire, Senders
<1>10. ASSUME NEW m \in Msgs, ReceiveText(m) PROVE WentInv'
  <2>1. srv'.went = srv.went /\ m \in srv.went  BY <1>10 DEF ReceiveText, Servers
  <2>2. \A n \in Msgs : srv'.mail[n] > 0 => srv.mail[n] > 0  BY <1>10 DEF ReceiveText, Servers
  <2>3. rcv'.rows \in {rcv.rows, rcv.rows \cup {m}}  BY <1>10 DEF ReceiveText, Recipients
  <2> QED  BY <1>10, <2>1, <2>2, <2>3 DEF ReceiveText
<1>11. ASSUME NEW m \in Msgs, View(m) \/ QueueRead(m) PROVE WentInv'
  BY <1>11 DEF View, QueueRead, Recipients
<1>12. ASSUME NEW m \in Files, Upload(m) PROVE WentInv'
  BY <1>1, <1>12 DEF Upload, Servers
<1>13. ASSUME NEW m \in Files, Seal(m) \/ UploadFails(m) PROVE WentInv'
  <2>1. snd'.pc \in {[snd.pc EXCEPT ![m] = "posting"], [snd.pc EXCEPT ![m] = "done"]}
    BY <1>13 DEF Seal, UploadFails, Senders
  <2> QED  BY <1>13, <2>1 DEF Seal, UploadFails, Senders
<1>14. CASE FlushStart \/ FlushBreak  BY <1>14 DEF FlushStart, FlushBreak, Idle
<1>15. CASE DrainStart  BY <1>1, <1>15 DEF DrainStart
<1>16. ASSUME NEW r \in Receipts, DrainNext(r) \/ DrainDone(r) PROVE WentInv'
  BY <1>1, <1>16 DEF DrainNext, DrainDone, Unqueued, Recipients
<1>17. ASSUME NEW r \in Receipts, NEW parked \in BOOLEAN, DrainSend(r, parked) PROVE WentInv'
  BY <1>1, <1>17 DEF DrainSend, Servers, Recipients
<1>18. ASSUME NEW r \in Receipts, FlushReceipt(r) PROVE WentInv'
  BY <1>1, <1>18 DEF FlushReceipt, Servers, Recipients
<1>19. ASSUME NEW m \in Msgs, NEW t \in Types, applyIncomingReceipt(m, t) PROVE WentInv'
  BY <1>1, <1>19 DEF applyIncomingReceipt, Senders, Servers
<1>20. ASSUME NEW t \in Types, Toggle(t) PROVE WentInv'
  BY <1>1, <1>20 DEF Toggle, Senders, Recipients
<1>21. CASE blockContact \/ unblockContact \/ removeContact
  BY <1>1, <1>21 DEF blockContact, unblockContact, removeContact, Senders, Recipients
<1>22. CASE ReloadSender
  BY <1>22 DEF ReloadSender, Interrupted, Senders, Idle
<1>23. CASE ReloadRecipient
  BY <1>23 DEF ReloadRecipient, Recipients
<1> QED
  BY <1>2, <1>3, <1>4, <1>5, <1>6, <1>7, <1>8, <1>9, <1>10, <1>11, <1>12, <1>13, <1>14, <1>15,
     <1>16, <1>17, <1>18, <1>19, <1>20, <1>21, <1>22, <1>23 DEF Next, Receipts

\* Nothing is posted, parked or flushed before its chunks are there, and a chunk that
\* is put makes no message incomplete (files.ts encryptAndUpload, Chat.upload_).
LEMMA FileStep == ASSUME Shape, FileInv, Next PROVE FileInv'
<1> USE DEF Shape, FileInv
<1> DEFINE Same == UNCHANGED <<snd.pc, snd.outbox, srv.blobs, srv.went, flush>>
<1>1. ASSUME Same PROVE FileInv'
  <2>1. Complete' = Complete  BY <1>1 DEF Complete
  <2> QED  BY <1>1, <2>1
<1>2. ASSUME UNCHANGED srv PROVE Complete' = Complete  BY <1>2 DEF Complete
<1>3. ASSUME NEW m \in Msgs, Compose(m) PROVE FileInv'
  <2>1. Complete' = Complete  BY <1>2, <1>3 DEF Compose
  <2>2. m \notin Files => m \in Complete  BY DEF Complete
  <2> QED  BY <1>3, <2>1, <2>2 DEF Compose, Senders
<1>4. ASSUME NEW m \in Msgs, PostOk(m) PROVE FileInv'
  <2>1. Complete' = Complete  BY <1>4, TakenIn DEF PostOk, Complete
  <2>2. m \in Complete /\ srv'.went = srv.went \cup {m}  BY <1>4, TakenIn DEF PostOk
  <2> QED  BY <1>4, <2>1, <2>2 DEF PostOk, Senders
<1>5. ASSUME NEW m \in Msgs, NEW taken \in BOOLEAN, PostFails(m, taken) PROVE FileInv'
  <2>1. Complete' = Complete  BY <1>5, TakenIn DEF PostFails, Complete
  <2>2. m \in Complete /\ srv'.went \subseteq srv.went \cup {m}  BY <1>5, TakenIn DEF PostFails
  <2>3. Append(snd.outbox, m) \in Seq(Complete)  BY <2>2, AppendProperties
  <2>4. snd'.outbox = Append(snd.outbox, m) /\ snd'.pc = [snd.pc EXCEPT ![m] = "parked"]
    BY <1>5 DEF PostFails, Senders
  <2>5. \A n \in Msgs : snd'.pc[n] \in {"posting", "taken", "parked"} => n \in Complete
    BY <2>2, <2>4 DEF Senders
  <2> QED  BY <1>5, <2>1, <2>2, <2>3, <2>4, <2>5 DEF PostFails
<1>6. ASSUME NEW m \in Msgs, PostRefused(m) \/ AddRow(m) PROVE FileInv'
  <2>1. Complete' = Complete  BY <1>2, <1>6 DEF PostRefused, AddRow
  <2>2. snd'.pc = [snd.pc EXCEPT ![m] = "done"] /\ snd'.outbox = snd.outbox
    BY <1>6 DEF PostRefused, AddRow, Senders
  <2>3. \A n \in Msgs : snd'.pc[n] \in {"posting", "taken", "parked"} => n \in Complete
    BY <2>2 DEF Senders
  <2> QED  BY <1>6, <2>1, <2>2, <2>3 DEF PostRefused, AddRow
<1>7. ASSUME NEW m \in Msgs, NEW ok \in BOOLEAN, FanOut(m, ok) \/ applySyncRecord(m) PROVE FileInv'
  BY <1>1, <1>7 DEF FanOut, applySyncRecord
<1>8. ASSUME NEW m \in Msgs, FlushPost(m) PROVE FileInv'
  <2>1. Complete' = Complete  BY <1>8, TakenIn DEF FlushPost, Complete
  <2>2. Head(flush.todo) \in Complete  BY <1>8, HeadTailProperties DEF FlushPost
  <2>3. srv'.went = srv.went \cup {m} /\ flush'.todo = flush.todo  BY <1>8, TakenIn DEF FlushPost
  <2> QED  BY <1>8, <2>1, <2>2, <2>3 DEF FlushPost
<1>9. ASSUME NEW m \in Msgs, FlushDone(m) \/ FlushDrop(m) PROVE FileInv'
  <2>1. Complete' = Complete  BY <1>2, <1>9 DEF FlushDone, FlushDrop
  <2>2. flush.todo # <<>> /\ flush' = NextRow  BY <1>9 DEF FlushDone, FlushDrop
  <2>3. flush'.todo \in Seq(Complete)  BY <2>2, NextRowIn
  <2>4. Unparked(m) \in Seq(Complete)  BY UnparkedIn
  <2>5. snd'.pc = snd.pc /\ snd'.outbox = Unparked(m)  BY <1>9 DEF FlushDone, FlushDrop, Senders
  <2> QED  BY <1>9, <2>1, <2>3, <2>4, <2>5 DEF FlushDone, FlushDrop
<1>10. ASSUME NEW m \in Msgs, Expire(m) PROVE FileInv'
  BY <1>1, <1>10 DEF Expire, Senders
<1>11. ASSUME NEW m \in Msgs, ReceiveText(m) PROVE FileInv'
  BY <1>1, <1>11 DEF ReceiveText, Servers
<1>12. ASSUME NEW m \in Msgs, View(m) \/ QueueRead(m) PROVE FileInv'
  BY <1>1, <1>12 DEF View, QueueRead
<1>13. ASSUME NEW m \in Files, Upload(m) PROVE FileInv'
  <2>1. m \notin Complete  BY <1>13, ConstantsAssumption DEF Upload, Complete, Servers
  <2>2. \A n \in Msgs : n # m => srv'.blobs[n] = srv.blobs[n]  BY <1>13 DEF Upload, Servers
  <2>3. Complete \subseteq Complete'  BY <2>1, <2>2 DEF Complete
  <2>4. srv'.went = srv.went /\ snd' = snd /\ flush' = flush  BY <1>13 DEF Upload, Servers
  <2> HIDE DEF Shape
  <2>5. snd.outbox \in Seq(Complete') /\ flush.todo \in Seq(Complete')  BY <2>3, Wider
  <2> QED  BY <2>3, <2>4, <2>5
<1>14. ASSUME NEW m \in Files, Seal(m) \/ UploadFails(m) PROVE FileInv'
  <2>1. Complete' = Complete  BY <1>2, <1>14 DEF Seal, UploadFails
  <2>2. Seal(m) => m \in Complete  BY DEF Seal, Complete, Msgs
  <2>3. /\ Seal(m) => snd'.pc = [snd.pc EXCEPT ![m] = "posting"]
        /\ UploadFails(m) => snd'.pc = [snd.pc EXCEPT ![m] = "done"]
        /\ snd'.outbox = snd.outbox
    BY <1>14 DEF Seal, UploadFails, Senders
  <2>4. \A n \in Msgs : snd'.pc[n] \in {"posting", "taken", "parked"} => n \in Complete
    BY <1>14, <2>2, <2>3 DEF Senders
  <2> QED  BY <1>14, <2>1, <2>3, <2>4 DEF Seal, UploadFails
<1>15. CASE FlushStart \/ FlushBreak
  <2>1. Complete' = Complete  BY <1>2, <1>15 DEF FlushStart, FlushBreak
  <2>2. <<>> \in Seq(Complete)  BY EmptySeq
  <2>3. flush'.todo \in {snd.outbox, <<>>}  BY <1>15 DEF FlushStart, FlushBreak, Idle
  <2> QED  BY <1>15, <2>1, <2>2, <2>3 DEF FlushStart, FlushBreak
<1>16. CASE DrainStart  BY <1>1, <1>16 DEF DrainStart
<1>17. ASSUME NEW r \in Receipts, DrainNext(r) \/ DrainDone(r) PROVE FileInv'
  BY <1>1, <1>17 DEF DrainNext, DrainDone
<1>18. ASSUME NEW r \in Receipts, NEW parked \in BOOLEAN, DrainSend(r, parked) PROVE FileInv'
  BY <1>1, <1>18 DEF DrainSend, Servers
<1>19. ASSUME NEW r \in Receipts, FlushReceipt(r) PROVE FileInv'
  BY <1>1, <1>19 DEF FlushReceipt, Servers
<1>20. ASSUME NEW m \in Msgs, NEW t \in Types, applyIncomingReceipt(m, t) PROVE FileInv'
  BY <1>1, <1>20 DEF applyIncomingReceipt, Senders, Servers
<1>21. ASSUME NEW t \in Types, Toggle(t) PROVE FileInv'
  BY <1>1, <1>21 DEF Toggle, Senders
<1>22. CASE blockContact \/ unblockContact \/ ReloadRecipient
  BY <1>1, <1>22 DEF blockContact, unblockContact, ReloadRecipient
<1>23. CASE removeContact
  <2>1. Complete' = Complete  BY <1>2, <1>23 DEF removeContact
  <2>2. <<>> \in Seq(Complete)  BY EmptySeq
  <2> QED  BY <1>23, <2>1, <2>2 DEF removeContact, Senders
<1>24. CASE ReloadSender
  <2>1. Complete' = Complete  BY <1>2, <1>24 DEF ReloadSender
  <2>2. <<>> \in Seq(Complete)  BY EmptySeq
  <2>3. \A m \in Msgs : snd'.pc[m] \in {"idle", "done"}  BY <1>24 DEF ReloadSender, Interrupted, Senders
  <2> QED  BY <1>24, <2>1, <2>2, <2>3 DEF ReloadSender, Senders, Idle
<1> QED
  BY <1>3, <1>4, <1>5, <1>6, <1>7, <1>8, <1>9, <1>10, <1>11, <1>12, <1>13, <1>14, <1>15, <1>16,
     <1>17, <1>18, <1>19, <1>20, <1>21, <1>22, <1>23, <1>24 DEF Next, Receipts

\* A receipt enters the queue together with the recipient's agreement, and leaves it
\* only as the head of the drain's list, which has it nowhere else (receipts.ts).
LEMMA AgreedStep == ASSUME Shape, AgreedInv, Next PROVE AgreedInv'
<1> USE DEF Shape, AgreedInv
<1> DEFINE Same == UNCHANGED <<rcv.queue, rcv.parked, srv.receipts, told.agreed, drain.todo>>
<1>1. ASSUME Same PROVE AgreedInv'  BY <1>1
<1>2. ASSUME UNCHANGED <<srv, rcv, drain, told>> PROVE AgreedInv'  BY <1>2
<1>3. ASSUME NEW m \in Msgs, Compose(m) \/ PostRefused(m) \/ AddRow(m) PROVE AgreedInv'
  BY <1>2, <1>3 DEF Compose, PostRefused, AddRow
<1>4. ASSUME NEW m \in Msgs, PostOk(m) PROVE AgreedInv'
  BY <1>1, <1>4, TakenIn DEF PostOk
<1>5. ASSUME NEW m \in Msgs, NEW taken \in BOOLEAN, PostFails(m, taken) PROVE AgreedInv'
  BY <1>1, <1>5, TakenIn DEF PostFails
<1>6. ASSUME NEW m \in Msgs, NEW ok \in BOOLEAN, FanOut(m, ok) \/ applySyncRecord(m) PROVE AgreedInv'
  BY <1>2, <1>6 DEF FanOut, applySyncRecord
<1>7. ASSUME NEW m \in Msgs, FlushPost(m) PROVE AgreedInv'
  BY <1>1, <1>7, TakenIn DEF FlushPost
<1>8. ASSUME NEW m \in Msgs, FlushDone(m) \/ FlushDrop(m) \/ Expire(m) PROVE AgreedInv'
  BY <1>2, <1>8 DEF FlushDone, FlushDrop, Expire
<1>9. ASSUME NEW m \in Msgs, NEW t \in Types,
             rcv'.queue = rcv.queue \cup {<<m, t>>} /\ told'.agreed = told.agreed \cup {<<m, t>>},
             UNCHANGED <<rcv.parked, srv.receipts, drain>>
      PROVE  AgreedInv'
  <2>1. drain.todo \in Seq(rcv'.queue)
    <3>1. rcv.queue \subseteq rcv'.queue  BY <1>9
    <3> HIDE DEF Shape
    <3> QED  BY <3>1, Wider
  <2> QED  BY <1>9, <2>1
<1>10. ASSUME NEW m \in Msgs, ReceiveText(m) PROVE AgreedInv'
  <2>1. srv'.receipts = srv.receipts /\ drain' = drain  BY <1>10 DEF ReceiveText, Servers
  <2>2. CASE rcv'.queue = rcv.queue
    <3>1. rcv'.parked = rcv.parked  BY <1>10 DEF ReceiveText, Recipients
    <3>2. told' \in {told, Consented(m, "delivered")}  BY <1>10 DEF ReceiveText
    <3>3. told.agreed \subseteq told'.agreed  BY <3>2 DEF Consented, Histories
    <3> QED  BY <2>1, <2>2, <3>1, <3>3
  <2>3. CASE rcv'.queue # rcv.queue
    <3>1. /\ rcv'.queue = rcv.queue \cup {<<m, "delivered">>} /\ rcv'.parked = rcv.parked
          /\ told' = Consented(m, "delivered") /\ Consents(m, "delivered")
      BY <1>10, <2>3 DEF ReceiveText, Consents, MayConfirm, Recipients
    <3>2. told'.agreed = told.agreed \cup {<<m, "delivered">>}  BY <3>1 DEF Consented, Histories
    <3>3. "delivered" \in Types  BY DEF Types
    <3> QED  BY <1>9, <2>1, <3>1, <3>2, <3>3
  <2> QED  BY <2>2, <2>3
<1>11. ASSUME NEW m \in Msgs, View(m) PROVE AgreedInv'
  BY <1>1, <1>11 DEF View, Recipients, Histories
<1>12. ASSUME NEW m \in Msgs, QueueRead(m) PROVE AgreedInv'
  <2>1. srv' = srv /\ drain' = drain /\ rcv'.parked = rcv.parked  BY <1>12 DEF QueueRead, Recipients
  <2>2. CASE rcv.contact = "accepted"
    <3>1. "read" \in Types  BY DEF Types
    <3>2. /\ rcv'.queue = rcv.queue \cup {<<m, "read">>}
          /\ told'.agreed = told.agreed \cup {<<m, "read">>}
      BY <1>12, <2>2 DEF QueueRead, Recipients, Histories
    <3> QED  BY <1>9, <2>1, <3>1, <3>2
  <2>3. CASE rcv.contact # "accepted"
    BY <1>1, <1>12, <2>1, <2>3 DEF QueueRead, Recipients
  <2> QED  BY <2>2, <2>3
<1>13. ASSUME NEW m \in Files, Upload(m) PROVE AgreedInv'
  BY <1>1, <1>13 DEF Upload, Servers
<1>14. ASSUME NEW m \in Files, Seal(m) \/ UploadFails(m) PROVE AgreedInv'
  BY <1>2, <1>14 DEF Seal, UploadFails
<1>15. CASE FlushStart \/ FlushBreak \/ removeContact \/ ReloadSender
  BY <1>2, <1>15 DEF FlushStart, FlushBreak, removeContact, ReloadSender
<1>16. CASE DrainStart
  BY <1>16, Listed DEF DrainStart
<1>17. ASSUME NEW r \in Receipts, DrainNext(r) \/ DrainDone(r) PROVE AgreedInv'
  <2>1. r = Head(drain.todo) /\ drain.todo # <<>>  BY <1>17 DEF DrainNext, DrainDone
  <2>2. /\ NextReceipt.todo \in Seq(rcv.queue \ {r}) /\ IsInjective(NextReceipt.todo)
    BY <2>1, NextReceiptIn
  <2>3. CASE drain' = NextReceipt /\ rcv' = Unqueued(r)
    <3>1. rcv'.queue = rcv.queue \ {r} /\ rcv'.parked = rcv.parked  BY <2>3 DEF Unqueued, Recipients
    <3>2. srv' = srv /\ told' = told  BY <1>17 DEF DrainNext, DrainDone
    <3> QED  BY <2>2, <2>3, <3>1, <3>2
  <2>4. CASE drain' = [drain EXCEPT !.at = "checked"] /\ UNCHANGED <<rcv, srv, told>>  BY <2>4
  <2> QED  BY <1>17, <2>3, <2>4 DEF DrainNext, DrainDone
<1>18. ASSUME NEW r \in Receipts, NEW parked \in BOOLEAN, DrainSend(r, parked) PROVE AgreedInv'
  <2>1. r \in rcv.queue  BY <1>18, HeadTailProperties DEF DrainSend
  <2>2. /\ rcv'.queue = rcv.queue /\ rcv'.parked \subseteq rcv.parked \cup {r}
        /\ srv'.receipts \subseteq srv.receipts \cup {r}
        /\ told'.agreed = told.agreed /\ drain'.todo = drain.todo
    BY <1>18 DEF DrainSend, Recipients, Servers, Histories
  <2> QED  BY <2>1, <2>2
<1>19. ASSUME NEW r \in Receipts, FlushReceipt(r) PROVE AgreedInv'
  BY <1>19 DEF FlushReceipt, Recipients, Servers
<1>20. ASSUME NEW m \in Msgs, NEW t \in Types, applyIncomingReceipt(m, t) PROVE AgreedInv'
  BY <1>20 DEF applyIncomingReceipt, Servers
<1>21. ASSUME NEW t \in Types, Toggle(t) PROVE AgreedInv'
  BY <1>1, <1>21 DEF Toggle, Recipients
<1>22. CASE blockContact \/ unblockContact
  BY <1>1, <1>22 DEF blockContact, unblockContact, Recipients, Histories
<1>23. CASE ReloadRecipient
  <2>1. <<>> \in Seq(rcv.queue) /\ IsInjective(<<>>)  BY EmptySeq DEF IsInjective
  <2> QED  BY <1>23, <2>1 DEF ReloadRecipient, Recipients, Histories, Idle
<1> QED
  BY <1>3, <1>4, <1>5, <1>6, <1>7, <1>8, <1>10, <1>11, <1>12, <1>13, <1>14, <1>15, <1>16,
     <1>17, <1>18, <1>19, <1>20, <1>21, <1>22, <1>23 DEF Next, Receipts

\* The check of a receipt passes only for an accepted contact, and only a receipt whose
\* check passed before a block is sealed after it (receipts.ts drainReceipts).
LEMMA BlockStep == ASSUME Shape, BlockInv, AgreedInv, Next PROVE BlockInv'
<1> USE DEF Shape, BlockInv
<1> DEFINE Same == UNCHANGED <<rcv.contact, drain, told.leaked>>
<1>1. ASSUME Same PROVE BlockInv'  BY <1>1
<1>2. ASSUME NEW m \in Msgs, ReceiveText(m) \/ View(m) \/ QueueRead(m) PROVE BlockInv'
  <2>1. rcv'.contact = rcv.contact  BY <1>2 DEF ReceiveText, View, QueueRead, Recipients
  <2>2. told'.leaked = told.leaked  BY <1>2 DEF ReceiveText, Consented, View, QueueRead, Histories
  <2> QED  BY <1>1, <1>2, <2>1, <2>2 DEF ReceiveText, View, QueueRead
<1>3. CASE DrainStart  BY <1>3 DEF DrainStart
<1>4. ASSUME NEW r \in Receipts, DrainNext(r) \/ DrainDone(r) PROVE BlockInv'
  <2>1. drain.todo # <<>>  BY <1>4 DEF DrainNext, DrainDone
  <2>2. NextReceipt.at # "checked"  BY <2>1, NextReceiptIn DEF AgreedInv
  <2>3. Unqueued(r).contact = rcv.contact  BY DEF Unqueued, Recipients
  <2> QED  BY <1>4, <2>2, <2>3 DEF DrainNext, DrainDone, StillAccepted
<1>5. ASSUME NEW r \in Receipts, NEW parked \in BOOLEAN, DrainSend(r, parked) PROVE BlockInv'
  <2>1. rcv'.contact = rcv.contact /\ drain'.at = "sent"  BY <1>5 DEF DrainSend, Recipients
  <2>2. told'.leaked = told.leaked + IF rcv.contact = "blocked" THEN 1 ELSE 0
    BY <1>5 DEF DrainSend, Histories
  <2>3. drain.at = "checked" /\ told.leaked \in Nat  BY <1>5 DEF DrainSend, Histories
  <2> QED  BY <2>1, <2>2, <2>3
<1>6. ASSUME NEW r \in Receipts, FlushReceipt(r) PROVE BlockInv'
  BY <1>1, <1>6 DEF FlushReceipt, Recipients
<1>7. ASSUME NEW t \in Types, Toggle(t) PROVE BlockInv'
  BY <1>1, <1>7 DEF Toggle, Recipients
<1>8. CASE blockContact  BY <1>8 DEF blockContact, Histories
<1>9. CASE unblockContact  BY <1>9 DEF unblockContact, Recipients
<1>10. CASE ReloadRecipient
  BY <1>10 DEF ReloadRecipient, Recipients, Histories, Idle
<1>11. CASE UNCHANGED <<rcv, drain, told>>  BY <1>1, <1>11
<1> QED
  BY <1>2, <1>3, <1>4, <1>5, <1>6, <1>7, <1>8, <1>9, <1>10, <1>11
  DEF Next, Receipts, Compose, PostOk, PostFails, PostRefused, AddRow, FanOut, applySyncRecord, FlushPost,
      FlushDone, FlushDrop, Expire, Upload, Seal, UploadFails, FlushStart, FlushBreak,
      applyIncomingReceipt, removeContact, ReloadSender

\* The counts are numbers.
LEMMA Counts ==
  ASSUME Shape, NEW r \in Receipts
  PROVE  Left(r) \in Nat /\ Allowed(r) \in Nat /\ told.sealed[r] \in Nat
<1>1. \A p \in BOOLEAN : One(p) \in 0..1  BY DEF One
<1>2. told.reloads \in Nat /\ told.again \in Nat /\ told.sealed[r] \in Nat  BY DEF Shape, Histories
<1> QED  BY <1>1, <1>2 DEF Left, Allowed, One

\* Queueing a receipt uses up the receipt or the view it is queued for, sealing it the
\* place in the queue; only a reload or a stale list gives it another (receipts.ts).
LEMMA CreditStep == ASSUME Shape, AgreedInv, CreditInv, Next PROVE CreditInv'
<1> USE DEF Shape
<1>1. \A r \in Receipts : Left(r)' \in Nat  BY DEF Left, One
<1>2. \A r \in Receipts : told.sealed[r] + Left(r) <= Allowed(r)  BY DEF CreditInv
<1>3. ASSUME UNCHANGED <<told.sealed, told.reloads, told.again>>,
             \A r \in Receipts : Left(r)' <= Left(r)
      PROVE  CreditInv'
  <2> SUFFICES ASSUME NEW r \in Receipts PROVE told'.sealed[r] + Left(r)' <= Allowed(r)'  BY DEF CreditInv
  <2>1. Allowed(r)' = Allowed(r)  BY <1>3 DEF Allowed
  <2>2. Left(r) \in Nat /\ Allowed(r) \in Nat /\ told.sealed[r] \in Nat  BY Counts
  <2>3. Left(r)' \in Nat  BY <1>1
  <2> QED  BY <1>2, <1>3, <2>1, <2>2, <2>3
<1>4. ASSUME NEW m \in Msgs, ReceiveText(m) PROVE CreditInv'
  <2>1. told'.sealed = told.sealed /\ told'.reloads = told.reloads /\ told'.again = told.again
    <3>1. told' \in {told, Consented(m, "delivered")}  BY <1>4 DEF ReceiveText
    <3> QED  BY <3>1 DEF Consented, Histories
  <2>2. \/ rcv'.rows = rcv.rows /\ rcv'.queue = rcv.queue
        \/ /\ m \notin rcv.rows /\ rcv'.rows = rcv.rows \cup {m}
           /\ rcv'.queue \in {rcv.queue, rcv.queue \cup {<<m, "delivered">>}}
    BY <1>4 DEF ReceiveText, Recipients
  <2>3. rcv'.done = rcv.done /\ UNCHANGED <<drain, viewing>>  BY <1>4 DEF ReceiveText, Recipients
  <2>4. \A r \in Receipts : Left(r)' <= Left(r)
    BY <2>2, <2>3 DEF Left, One, Receipts, Types
  <2> QED  BY <1>3, <2>1, <2>4
<1>5. ASSUME NEW m \in Msgs, View(m) PROVE CreditInv'
  <2>1. /\ rcv'.done = rcv.done \cup {m} /\ rcv'.queue = rcv.queue /\ rcv'.rows = rcv.rows
        /\ viewing' = viewing \cup {m} /\ drain' = drain
    BY <1>5 DEF View, Recipients
  <2>2. CASE m \notin rcv.done
    <3>1. told' = told  BY <1>5, <2>2 DEF View
    <3>2. \A r \in Receipts : Left(r)' <= Left(r)
      BY <2>1, <2>2 DEF Left, One, Receipts, Types
    <3> QED  BY <1>3, <3>1, <3>2
  <2>3. CASE m \in rcv.done
    <3> SUFFICES ASSUME NEW r \in Receipts PROVE told'.sealed[r] + Left(r)' <= Allowed(r)'  BY DEF CreditInv
    <3>1. told'.sealed = told.sealed /\ told'.reloads = told.reloads /\ told'.again = told.again + 1
      BY <1>5, <2>3 DEF View, Histories
    <3>2. Left(r) \in Nat /\ Allowed(r) \in Nat /\ told.sealed[r] \in Nat  BY Counts
    <3>3. Left(r)' \in Nat  BY <1>1
    <3>4. told.again \in Nat /\ told.reloads \in Nat  BY DEF Histories
    <3>5. CASE r[2] = "read"
      <4>1. Left(r)' <= Left(r) + 1  BY <2>1, <2>3, <3>5 DEF Left, One
      <4>2. Allowed(r)' = Allowed(r) + 1  BY <3>1, <3>4, <3>5 DEF Allowed
      <4> QED  BY <1>2, <3>1, <3>2, <3>3, <4>1, <4>2
    <3>6. CASE r[2] # "read"
      <4>1. Left(r)' = Left(r)  BY <2>1, <3>6 DEF Left
      <4>2. Allowed(r)' = Allowed(r)  BY <3>1, <3>6 DEF Allowed
      <4> QED  BY <1>2, <3>1, <4>1, <4>2
    <3> QED  BY <3>5, <3>6
  <2> QED  BY <2>2, <2>3
<1>6. ASSUME NEW m \in Msgs, QueueRead(m) PROVE CreditInv'
  <2>1. told'.sealed = told.sealed /\ told'.reloads = told.reloads /\ told'.again = told.again
    BY <1>6 DEF QueueRead, Histories
  <2>2. /\ rcv'.done = rcv.done /\ rcv'.rows = rcv.rows /\ drain' = drain
        /\ m \in viewing /\ viewing' = viewing \ {m}
        /\ rcv'.queue \in {rcv.queue, rcv.queue \cup {<<m, "read">>}}
    BY <1>6 DEF QueueRead, Recipients
  <2>3. \A r \in Receipts : Left(r)' <= Left(r)
    BY <2>2 DEF Left, One, Receipts, Types
  <2> QED  BY <1>3, <2>1, <2>3
<1>7. CASE DrainStart
  <2>1. \A r \in Receipts : Left(r)' <= Left(r)  BY <1>7 DEF DrainStart, Left, One
  <2> QED  BY <1>3, <1>7, <2>1 DEF DrainStart
<1>8. ASSUME NEW r \in Receipts, DrainNext(r) \/ DrainDone(r) PROVE CreditInv'
  <2>1. r = Head(drain.todo) /\ drain.todo # <<>> /\ IsInjective(drain.todo)  BY <1>8 DEF DrainNext, DrainDone, AgreedInv
  <2>2. NextReceipt.at # "sent"  BY <2>1, NextReceiptIn
  <2>3. CASE drain' = NextReceipt /\ rcv' = Unqueued(r)
    <3>1. /\ rcv'.queue = rcv.queue \ {r} /\ rcv'.done = rcv.done /\ rcv'.rows = rcv.rows
          /\ drain'.at # "sent" /\ viewing' = viewing
      BY <1>8, <2>2, <2>3 DEF Unqueued, Recipients, DrainNext, DrainDone
    <3>2. \A q \in Receipts : Left(q)' <= Left(q)  BY <2>1, <3>1 DEF Left, One
    <3> QED  BY <1>3, <1>8, <3>2 DEF DrainNext, DrainDone
  <2>4. CASE drain' = [drain EXCEPT !.at = "checked"] /\ UNCHANGED <<rcv, viewing>> /\ drain.at = "next"
    <3>1. \A q \in Receipts : Left(q)' <= Left(q)  BY <2>4 DEF Left, One
    <3> QED  BY <1>3, <1>8, <3>1 DEF DrainNext, DrainDone
  <2> QED  BY <1>8, <2>3, <2>4 DEF DrainNext, DrainDone
<1>9. ASSUME NEW r \in Receipts, NEW parked \in BOOLEAN, DrainSend(r, parked) PROVE CreditInv'
  <2>1. r \in rcv.queue /\ r = Head(drain.todo) /\ drain.at = "checked"
    BY <1>9, HeadTailProperties DEF DrainSend, AgreedInv
  <2>2. /\ rcv'.queue = rcv.queue /\ rcv'.done = rcv.done /\ rcv'.rows = rcv.rows /\ viewing' = viewing
        /\ drain'.at = "sent" /\ drain'.todo = drain.todo
    BY <1>9 DEF DrainSend, Recipients
  <2>3. /\ told'.sealed = [told.sealed EXCEPT ![r] = @ + 1]
        /\ told'.reloads = told.reloads /\ told'.again = told.again
    BY <1>9 DEF DrainSend, Histories
  <2> SUFFICES ASSUME NEW q \in Receipts PROVE told'.sealed[q] + Left(q)' <= Allowed(q)'  BY DEF CreditInv
  <2>4. Left(q) \in Nat /\ Allowed(q) \in Nat /\ told.sealed[q] \in Nat  BY Counts
  <2>5. Left(q)' \in Nat  BY <1>1
  <2>6. Allowed(q)' = Allowed(q)  BY <2>3 DEF Allowed
  <2>7. CASE q = r
    <3>1. Left(q) = Left(q)' + 1  BY <2>1, <2>2, <2>7 DEF Left, One
    <3>2. told'.sealed[q] = told.sealed[q] + 1  BY <2>3, <2>7 DEF Histories
    <3> QED  BY <1>2, <2>4, <2>5, <2>6, <3>1, <3>2
  <2>8. CASE q # r
    <3>1. Left(q) = Left(q)'  BY <2>1, <2>2, <2>8 DEF Left, One
    <3>2. told'.sealed[q] = told.sealed[q]  BY <2>3, <2>8 DEF Histories
    <3> QED  BY <1>2, <2>6, <3>1, <3>2
  <2> QED  BY <2>7, <2>8
<1>10. CASE ReloadRecipient
  <2>1. told'.sealed = told.sealed /\ told'.reloads = told.reloads + 1 /\ told'.again = told.again
    BY <1>10 DEF ReloadRecipient, Histories
  <2>2. /\ rcv'.queue = rcv.queue /\ rcv'.done = rcv.done /\ rcv'.rows = rcv.rows /\ viewing' = {}
        /\ drain'.at = "idle"
    BY <1>10 DEF ReloadRecipient, Recipients, Idle
  <2> SUFFICES ASSUME NEW r \in Receipts PROVE told'.sealed[r] + Left(r)' <= Allowed(r)'  BY DEF CreditInv
  <2>3. Left(r) \in Nat /\ Allowed(r) \in Nat /\ told.sealed[r] \in Nat  BY Counts
  <2>4. Left(r)' \in Nat  BY <1>1
  <2>5. Left(r)' <= Left(r) + 1  BY <2>2 DEF Left, One
  <2>6. Allowed(r)' = Allowed(r) + 1
    <3>1. told.again \in Nat /\ told.reloads \in Nat  BY DEF Histories
    <3>2. CASE r[2] = "read"
      <4>1. Allowed(r) = 1 + told.reloads + told.again  BY <3>2 DEF Allowed
      <4>2. Allowed(r)' = 1 + (told.reloads + 1) + told.again  BY <2>1, <3>2 DEF Allowed
      <4>3. \A i, j \in Nat : 1 + (i + 1) + j = (1 + i + j) + 1  OBVIOUS
      <4> QED  BY <3>1, <4>1, <4>2, <4>3
    <3>3. CASE r[2] # "read"  BY <2>1, <3>1, <3>3 DEF Allowed
    <3> QED  BY <3>2, <3>3
  <2> QED  BY <1>2, <2>1, <2>3, <2>4, <2>5, <2>6
<1>11. ASSUME UNCHANGED <<rcv.queue, rcv.done, rcv.rows, viewing, drain>>,
              UNCHANGED <<told.sealed, told.reloads, told.again>>
       PROVE  CreditInv'
  <2>1. \A r \in Receipts : Left(r)' <= Left(r)
    <3> SUFFICES ASSUME NEW r \in Receipts PROVE Left(r)' <= Left(r)  OBVIOUS
    <3>1. Left(r)' = Left(r)  BY <1>11 DEF Left
    <3>2. Left(r) \in Nat  BY Counts
    <3> QED  BY <3>1, <3>2
  <2> QED  BY <1>3, <1>11, <2>1
<1>12. ASSUME NEW r \in Receipts, FlushReceipt(r) PROVE CreditInv'
  BY <1>11, <1>12 DEF FlushReceipt, Recipients
<1>13. ASSUME NEW t \in Types, Toggle(t) PROVE CreditInv'
  BY <1>11, <1>13 DEF Toggle, Recipients
<1>14. CASE blockContact \/ unblockContact
  <2>1. rcv'.queue = rcv.queue /\ rcv'.done = rcv.done /\ rcv'.rows = rcv.rows
    BY <1>14 DEF blockContact, unblockContact, Recipients
  <2>2. told'.sealed = told.sealed /\ told'.reloads = told.reloads /\ told'.again = told.again
    BY <1>14 DEF blockContact, unblockContact, Histories
  <2> QED  BY <1>11, <1>14, <2>1, <2>2 DEF blockContact, unblockContact
<1>15. CASE UNCHANGED <<rcv, viewing, drain, told>>  BY <1>11, <1>15
<1> QED
  BY <1>4, <1>5, <1>6, <1>7, <1>8, <1>9, <1>10, <1>12, <1>13, <1>14, <1>15
  DEF Next, Receipts, Compose, PostOk, PostFails, PostRefused, AddRow, FanOut, applySyncRecord, FlushPost,
      FlushDone, FlushDrop, Expire, Upload, Seal, UploadFails, FlushStart, FlushBreak,
      applyIncomingReceipt, removeContact, ReloadSender

\* A step that leaves the state as it is keeps the invariant.
LEMMA Stutter == ASSUME IInv, UNCHANGED vars PROVE IInv'
  BY DEF vars, IInv, Shape, WentInv, FileInv, Complete, AgreedInv, BlockInv, CreditInv, Left, Allowed

\* The invariant is inductive.
THEOREM Inductive == Spec => []IInv
<1>1. IInv /\ [Next]_vars => IInv'
  <2>1. ASSUME IInv, Next PROVE IInv'
    BY <2>1, ShapeStep, WentStep, FileStep, AgreedStep, BlockStep, CreditStep DEF IInv
  <2> QED  BY <2>1, Stutter
<1> QED  BY <1>1, Start, PTL DEF Spec

\* A receipt is sealed once, but for reloads and, of read receipts, stale lists
\* (receipts.ts queueReadReceipt, drainReceipts).
THEOREM SealedOnce == Spec => []ReceiptOnce
<1>1. IInv => ReceiptOnce
  <2> SUFFICES ASSUME IInv, NEW r \in Receipts PROVE told.sealed[r] <= Allowed(r)  BY DEF ReceiptOnce, Allowed
  <2>1. told.sealed[r] + Left(r) <= Allowed(r)  BY DEF IInv, CreditInv
  <2>2. Left(r) \in Nat /\ Allowed(r) \in Nat /\ told.sealed[r] \in Nat  BY Counts DEF IInv
  <2> QED  BY <2>1, <2>2
<1> QED  BY <1>1, Inductive, PTL

\* A block stops the drain but for one receipt past its check (receipts.ts).
THEOREM BlockStops == Spec => []BlockStopsDrain
<1>1. IInv => BlockStopsDrain  BY DEF IInv, BlockInv, BlockStopsDrain
<1> QED  BY <1>1, Inductive, PTL

\* A manifest is taken by the server after all its chunks (files.ts, Chat.tsx).
THEOREM ChunksFirst == Spec => []ManifestLast
<1>1. IInv => ManifestLast  BY DEF IInv, FileInv, Complete, ManifestLast
<1> QED  BY <1>1, Inductive, PTL

(***************************************************************************)
(* The ticks implement Delivery.                                           *)
(***************************************************************************)
Promised == [Promise!Next]_<<srv.went, told.agreed, snd.row>>

\* Every operation is a step of Delivery or leaves went, agreed and shown alone.
LEMMA Truthful == ASSUME IInv, Next PROVE Promised
<1> USE DEF IInv, Shape
<1> DEFINE Same == UNCHANGED <<srv.went, told.agreed, snd.row>>
<1>1. ASSUME Same PROVE Promised  BY <1>1 DEF Promised
<1>2. ASSUME NEW m \in Msgs, srv'.went = srv.went \cup {m}, UNCHANGED <<told.agreed, snd.row>> PROVE Promised
  BY <1>2 DEF Promised, Promise!Next, Promise!Leave
<1>3. ASSUME NEW m \in srv.went, NEW t \in Types, told'.agreed = told.agreed \cup {<<m, t>>},
             UNCHANGED <<srv.went, snd.row>>
      PROVE  Promised
  <2>1. m \in Msgs  BY DEF Servers
  <2> QED  BY <1>3, <2>1 DEF Promised, Promise!Next, Promise!Agree
<1>4. ASSUME NEW m \in Msgs, NEW s \in Status, Promise!Truthful(m, s),
             snd'.row = [snd.row EXCEPT ![m] = s], UNCHANGED <<srv.went, told.agreed>>
      PROVE  Promised
  BY <1>4 DEF Promised, Promise!Next, Promise!Show, Status
<1>5. ASSUME NEW m \in Msgs, PostOk(m) PROVE Promised
  BY <1>2, <1>5, TakenIn DEF PostOk, Senders
<1>6. ASSUME NEW m \in Msgs, NEW taken \in BOOLEAN, PostFails(m, taken) PROVE Promised
  <2>1. snd'.row = snd.row /\ told' = told  BY <1>6 DEF PostFails, Senders
  <2> QED  BY <1>1, <1>2, <1>6, <2>1, TakenIn DEF PostFails
<1>7. ASSUME NEW m \in Msgs, AddRow(m) PROVE Promised
  <2>1. PICK s \in {"sent", "queued"} : snd'.row = [snd.row EXCEPT ![m] = s] /\ (s = "sent" => snd.pc[m] = "taken")
    BY <1>7 DEF AddRow, Senders
  <2>2. Promise!Truthful(m, s) /\ s \in Status
    BY <2>1 DEF Promise!Truthful, WentInv, Status, Types
  <2> QED  BY <1>4, <1>7, <2>1, <2>2 DEF AddRow
<1>8. ASSUME NEW m \in Msgs, FlushPost(m) PROVE Promised
  BY <1>2, <1>8, TakenIn DEF FlushPost
<1>9. ASSUME NEW m \in Msgs, FlushDone(m) \/ FlushDrop(m) PROVE Promised
  <2>1. PICK s \in {"sent", "failed"} : snd'.row = SetStatus(m, s) /\ (s = "sent" => m \in srv.went)
    BY <1>9 DEF FlushDone, FlushDrop, Senders, WentInv
  <2>2. Promise!Truthful(m, s) /\ s \in Status
    BY <2>1 DEF Promise!Truthful, Status, Types
  <2>3. UNCHANGED <<srv.went, told.agreed>>  BY <1>9 DEF FlushDone, FlushDrop
  <2> QED  BY <1>1, <1>4, <2>1, <2>2, <2>3 DEF SetStatus
<1>10. ASSUME NEW m \in Msgs, ReceiveText(m) PROVE Promised
  <2>1. srv'.went = srv.went /\ snd' = snd /\ m \in srv.went  BY <1>10 DEF ReceiveText, Servers, WentInv
  <2>2. told' \in {told, [told EXCEPT !.agreed = @ \cup {<<m, "delivered">>}]}
    BY <1>10 DEF ReceiveText, Consented
  <2>3. told'.agreed \in {told.agreed, told.agreed \cup {<<m, "delivered">>}}  BY <2>2 DEF Histories
  <2>4. "delivered" \in Types  BY DEF Types
  <2> QED  BY <1>1, <1>3, <2>1, <2>3, <2>4
<1>11. ASSUME NEW m \in Msgs, View(m) PROVE Promised
  BY <1>1, <1>11 DEF View, Histories
<1>12. ASSUME NEW m \in Msgs, QueueRead(m) PROVE Promised
  <2>1. srv' = srv /\ snd' = snd /\ m \in srv.went  BY <1>12 DEF QueueRead, WentInv
  <2>2. told'.agreed \in {told.agreed, told.agreed \cup {<<m, "read">>}}  BY <1>12 DEF QueueRead, Histories
  <2>3. "read" \in Types  BY DEF Types
  <2> QED  BY <1>1, <1>3, <2>1, <2>2, <2>3
<1>13. ASSUME NEW m \in Msgs, Compose(m) \/ PostRefused(m) \/ Expire(m) PROVE Promised
  <2>1. snd'.row = snd.row  BY <1>13 DEF Compose, PostRefused, Expire, Senders
  <2> QED  BY <1>1, <1>13, <2>1 DEF Compose, PostRefused, Expire
<1>14. ASSUME NEW m \in Files, Upload(m) PROVE Promised
  BY <1>1, <1>14 DEF Upload, Servers
<1>15. ASSUME NEW m \in Files, Seal(m) \/ UploadFails(m) PROVE Promised
  <2>1. snd'.row = snd.row  BY <1>15 DEF Seal, UploadFails, Senders
  <2> QED  BY <1>1, <1>15, <2>1 DEF Seal, UploadFails
<1>16. ASSUME NEW r \in Receipts, NEW parked \in BOOLEAN, DrainSend(r, parked) PROVE Promised
  BY <1>1, <1>16 DEF DrainSend, Servers, Histories
<1>17. ASSUME NEW r \in Receipts, FlushReceipt(r) PROVE Promised
  BY <1>1, <1>17 DEF FlushReceipt, Servers
<1>18. ASSUME NEW m \in Msgs, NEW t \in Types, applyIncomingReceipt(m, t) PROVE Promised
  <2>1. <<m, t>> \in told.agreed  BY <1>18 DEF applyIncomingReceipt, AgreedInv
  <2>2. Promise!Truthful(m, t) /\ t \in Status  BY <2>1 DEF Promise!Truthful, Status, Types
  <2>3. snd'.row \in {snd.row, SetStatus(m, t)} /\ srv'.went = srv.went /\ told' = told
    BY <1>18 DEF applyIncomingReceipt, Senders, Servers
  <2> QED  BY <1>1, <1>4, <2>2, <2>3 DEF SetStatus
<1>19. ASSUME NEW t \in Types, Toggle(t) PROVE Promised
  BY <1>1, <1>19 DEF Toggle, Senders
<1>20. CASE blockContact \/ unblockContact
  <2>1. told'.agreed = told.agreed  BY <1>20 DEF blockContact, unblockContact, Histories
  <2> QED  BY <1>1, <1>20, <2>1 DEF blockContact, unblockContact
<1>21. CASE removeContact
  <2>1. snd'.row = [m \in Msgs |-> "none"]  BY <1>21 DEF removeContact, Senders
  <2> QED  BY <1>21, <2>1 DEF removeContact, Promised, Promise!Next, Promise!Forget
<1>22. CASE ReloadSender
  BY <1>1, <1>22 DEF ReloadSender, Senders
<1>23. CASE ReloadRecipient
  BY <1>1, <1>23 DEF ReloadRecipient, Histories
<1>24. CASE UNCHANGED <<snd, srv, told>>  BY <1>1, <1>24
<1> QED
  BY <1>5, <1>6, <1>7, <1>8, <1>9, <1>10, <1>11, <1>12, <1>13, <1>14, <1>15, <1>16, <1>17, <1>18, <1>19,
     <1>20, <1>21, <1>22, <1>23, <1>24
  DEF Next, Receipts, FanOut, applySyncRecord, FlushStart, FlushBreak, DrainStart, DrainNext, DrainDone

\* A tick is never ahead of what happened: the conversation implements Delivery
\* (sealAndSend, flushOutbox, receipts.ts, applyIncomingReceipt).
THEOREM TicksTrue == Spec => StatusTrue
<1>1. Init => Promise!Init
  BY DEF Init, Promise!Init
<1>2. IInv /\ [Next]_vars => Promised
  <2>1. ASSUME UNCHANGED vars PROVE Promised  BY <2>1 DEF vars, Promised
  <2> QED  BY <2>1, Truthful
<1> QED  BY <1>1, <1>2, Inductive, PTL DEF Spec, StatusTrue, Promise!Spec, Promised
=============================================================================
