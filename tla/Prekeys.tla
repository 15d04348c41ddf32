------------------------------ MODULE Prekeys ------------------------------
(***************************************************************************)
(* Prekey upkeep (services/prekeys.ts, prekeyUpkeep in messaging.ts) and   *)
(* the watch on the account's signed prekey (services/key-watch.ts) on one *)
(* device: what is saved and what is cached, what the server hands out,    *)
(* first messages that use it, failed and lost requests, reloads, and      *)
(* another device that recovers the account.                               *)
(*                                                                         *)
(* A unit of time is one rotation period; a queued message and a retired   *)
(* signed prekey both live two of them.                                    *)
(***************************************************************************)
EXTENDS Integers, FiniteSets

CONSTANTS
    PrekeyEvents,   \* bound: fetches, failures, reloads, recoveries and answers
    Periods         \* bound: the last period

ASSUME PrekeyAssumption == PrekeyEvents \in Nat /\ Periods \in Nat

VARIABLES
    srv,        \* server: the signed prekey, and the one-time prekeys left
    mail,       \* server: first messages queued for this device
    saved,      \* the identity in IndexedDB
    me,         \* the identity messaging.ts caches
    upkeep,     \* the run of prekeyUpkeep
    lowPending, \* serverLowPending
    frame,      \* the save after a first message took a one-time prekey
    check,      \* checkAccountKeys in flight
    answer,     \* dismissKeyAlert in flight
    watch,      \* settings: the known signed prekeys, and the alert
    clock,
    made,       \* signed prekeys made so far
    retired,    \* history: when each signed prekey was retired
    given,      \* history: one-time prekeys handed out
    twice,      \* history: those handed out again
    raced,      \* history: two saves of the identity overlapped
    chances

prekeyVars == <<srv, mail, saved, me, upkeep, lowPending, frame, check, answer, watch,
                clock, made, retired, given, twice, raced, chances>>

LowWater == 1
Batch == 1
Lifetime == 2
Foreign == {-1}             \* the signed prekey another device publishes
PSpend == chances > 0 /\ chances' = chances - 1

Spks(b) == {b.spk} \cup {k.id : k \in b.prev}
FirstKeys == [spk |-> 2, prev |-> {[id |-> 1, at |-> 0]}, opks |-> {1}, opkp |-> {}, spkp |-> FALSE, due |-> 1]
NoRun == [at |-> "none", val |-> FirstKeys, fresh |-> {}]
NoSave == [at |-> "none", val |-> FirstKeys]
NoCheck == [at |-> "none", reply |-> 0, known |-> {}, grew |-> FALSE]
NoAnswer == [at |-> "none", spk |-> 0, known |-> {}]

\* Just after a rotation, with a message to the retired key still queued; a device whose
\* saves have overlapped before may have lost the private half of a published prekey.
PrekeyInit ==
    /\ raced \in BOOLEAN
    /\ saved = IF raced THEN [FirstKeys EXCEPT !.opks = {}] ELSE FirstKeys
    /\ me = saved
    /\ srv = [spk |-> 2, opks |-> {1}]
    /\ mail = {[spk |-> 1, opk |-> 0, at |-> 0]}
    /\ upkeep = NoRun
    /\ lowPending = FALSE
    /\ frame = NoSave
    /\ check = NoCheck /\ answer = NoAnswer
    /\ watch = [known |-> {}, alert |-> 0]
    /\ clock = 0
    /\ made = 2 /\ retired = FirstKeys.prev /\ given = {} /\ twice = {}
    /\ chances = PrekeyEvents

\* A request takes seconds: no period passes in the middle of one.
Period ==
    /\ clock < Periods
    /\ {upkeep.at, frame.at, check.at, answer.at} = {"none"}
    /\ clock' = clock + 1
    /\ mail' = {m \in mail : clock' < m.at + Lifetime}
    /\ UNCHANGED <<srv, saved, me, upkeep, lowPending, frame, check, answer, watch, made, retired, given, twice,
                   raced, chances>>

(***************************************************************************)
(* prekeyUpkeep: on every connect, on prekey_low and when a used one-time  *)
(* prekey leaves few; one run at a time, a low signal is remembered.       *)
(***************************************************************************)
Replied == [NoCheck EXCEPT !.at = "read", !.reply = srv.spk]
Started == IF upkeep.at = "none" THEN [NoRun EXCEPT !.at = "rotate"] ELSE upkeep

\* A socket opens: its ticket's reply is checked, unless one is being checked, and
\* upkeep runs.
Connect ==
    /\ upkeep.at = "none"
    /\ upkeep' = Started
    /\ check' = IF check.at = "none" THEN Replied ELSE check
    /\ UNCHANGED <<srv, mail, saved, me, lowPending, frame, answer, watch, clock, made, retired, given,
                   twice, raced, chances>>

retainSpks_Short(list) == {k \in list : clock - k.at < Lifetime - 1}
retainSpks(list) == {k \in list : clock - k.at < Lifetime}

\* rotateSpkIfDue: publish again what failed, else forget what is too old, else rotate.
rotateSpkIfDue ==
    /\ upkeep.at = "rotate"
    /\ LET kept == retainSpks(me.prev)
           old == {[id |-> me.spk, at |-> clock]}
       IN upkeep' =
            IF me.spkp THEN [upkeep EXCEPT !.at = "postSpk", !.val = FirstKeys]
            ELSE IF clock < me.due
            THEN IF kept # me.prev
                 THEN [upkeep EXCEPT !.at = "savePrev", !.val = [me EXCEPT !.prev = kept]]
                 ELSE [upkeep EXCEPT !.at = "topUp", !.val = FirstKeys]
            ELSE [upkeep EXCEPT !.at = "saveSpk",
                    !.val = [me EXCEPT !.prev = retainSpks(@ \cup old), !.spk = made + 1,
                                       !.due = clock + 1, !.spkp = TRUE]]
    /\ UNCHANGED <<srv, mail, saved, me, lowPending, frame, check, answer, watch, clock, made, retired, given,
                   twice, raced, chances>>

\* After the last step of a run: once more if a low signal came meanwhile.
RunEnd == IF lowPending THEN [NoRun EXCEPT !.at = "topUp", !.val = FirstKeys] ELSE NoRun

\* replenishOpks: a batch whose upload failed goes first; ids follow the highest held.
replenishOpks ==
    /\ upkeep.at = "topUp"
    /\ lowPending' = FALSE
    /\ LET last == CHOOSE n \in me.opks \cup {0} : \A o \in me.opks : o <= n
           fresh == (last + 1)..(last + Batch)
       IN upkeep' =
            IF me.opkp # {} THEN [upkeep EXCEPT !.at = "postOpks", !.fresh = me.opkp \cap me.opks]
            ELSE IF ~lowPending /\ Cardinality(me.opks) >= LowWater THEN NoRun
            ELSE [upkeep EXCEPT !.at = "saveOpks", !.fresh = fresh,
                                !.val = [me EXCEPT !.opks = @ \cup fresh, !.opkp = fresh]]
    /\ UNCHANGED <<srv, mail, saved, me, frame, check, answer, watch, clock, made, retired, given, twice, raced,
                   chances>>

\* commit: save a copy with the changes, then apply the changes to the cached identity.
commit ==
    /\ upkeep.at \in {"savePrev", "saveSpk", "saveOpks", "clearSpk", "clearOpks"}
    /\ saved' = upkeep.val
    /\ LET v == upkeep.val
       IN CASE upkeep.at = "savePrev" ->
                 me' = [me EXCEPT !.prev = v.prev] /\ upkeep' = [upkeep EXCEPT !.at = "topUp", !.val = FirstKeys]
            [] upkeep.at = "saveSpk" ->
                 /\ me' = [me EXCEPT !.prev = v.prev, !.spk = v.spk, !.due = v.due, !.spkp = TRUE]
                 /\ upkeep' = [upkeep EXCEPT !.at = "postSpk", !.val = FirstKeys]
            [] upkeep.at = "clearSpk" ->
                 me' = [me EXCEPT !.spkp = FALSE] /\ upkeep' = [upkeep EXCEPT !.at = "topUp", !.val = FirstKeys]
            [] upkeep.at = "saveOpks" ->
                 /\ me' = [me EXCEPT !.opks = v.opks, !.opkp = v.opkp]
                 /\ upkeep' = [upkeep EXCEPT !.at = "postOpks", !.val = FirstKeys]
            [] OTHER -> me' = [me EXCEPT !.opkp = {}] /\ upkeep' = RunEnd
    /\ made' = IF upkeep.at = "saveSpk" THEN upkeep.val.spk ELSE made
    /\ retired' = IF upkeep.at = "saveSpk" THEN retired \cup upkeep.val.prev ELSE retired
    /\ raced' = (raced \/ frame.at = "saving")
    /\ UNCHANGED <<srv, mail, lowPending, frame, check, answer, watch, clock, given, twice, chances>>

Publish == IF upkeep.at = "postSpk" THEN [srv EXCEPT !.spk = me.spk]
           ELSE [srv EXCEPT !.opks = @ \cup upkeep.fresh]
Posting == upkeep.at \in {"postSpk", "postOpks"}

PublishOk ==
    /\ Posting
    /\ srv' = Publish
    /\ upkeep' = IF upkeep.at = "postSpk"
                 THEN [upkeep EXCEPT !.at = "clearSpk", !.val = [me EXCEPT !.spkp = FALSE]]
                 ELSE [upkeep EXCEPT !.at = "clearOpks", !.val = [me EXCEPT !.opkp = {}]]
    /\ UNCHANGED <<mail, saved, me, lowPending, frame, check, answer, watch, clock, made, retired, given, twice,
                   raced, chances>>

\* The request fails, before or after the server took it.
PublishFails ==
    /\ Posting
    /\ PSpend
    /\ srv' \in {srv, Publish}
    /\ upkeep' = IF upkeep.at = "postSpk" THEN [upkeep EXCEPT !.at = "topUp", !.val = FirstKeys] ELSE RunEnd
    /\ UNCHANGED <<mail, saved, me, lowPending, frame, check, answer, watch, clock, made, retired, given, twice, raced>>

(***************************************************************************)
(* A peer fetches the bundle and sends a first message with it.            *)
(***************************************************************************)
take_one_time_prekey ==
    /\ PSpend
    /\ LET opk == IF srv.opks = {} THEN 0 ELSE CHOOSE o \in srv.opks : \A p \in srv.opks : o <= p
       IN /\ srv' = [srv EXCEPT !.opks = @ \ {opk}]
          /\ mail' = mail \cup {[spk |-> srv.spk, opk |-> opk, at |-> clock]}
          /\ given' = given \cup ({opk} \ {0})
          /\ twice' = twice \cup ({opk} \cap given)
          /\ LET low == opk # 0 /\ Cardinality(srv.opks) - 1 < LowWater
             IN /\ lowPending' = (lowPending \/ low)
                /\ upkeep' = IF low THEN Started ELSE upkeep
    /\ UNCHANGED <<saved, me, frame, check, answer, watch, clock, made, retired, raced>>

Opens(m, b) == m.spk \in Spks(b) /\ (m.opk = 0 \/ m.opk \in b.opks)

\* A first message is opened; the one-time prekey it used is forgotten, then saved.
ReceiveFirst(m) ==
    /\ frame.at = "none" /\ Opens(m, me)
    /\ mail' = mail \ {m}
    /\ me' = [me EXCEPT !.opks = @ \ {m.opk}]
    /\ frame' = IF m.opk = 0 THEN frame ELSE [at |-> "saving", val |-> me']
    /\ UNCHANGED <<srv, saved, upkeep, lowPending, check, answer, watch, clock, made, retired, given, twice,
                   raced, chances>>

\* It names a prekey that is not held: it is acknowledged, and lost.
ReceiveLost(m) ==
    /\ frame.at = "none" /\ ~Opens(m, me)
    /\ mail' = mail \ {m}
    /\ UNCHANGED <<srv, saved, me, upkeep, lowPending, frame, check, answer, watch, clock, made, retired, given,
                   twice, raced, chances>>

FrameSaved ==
    /\ frame.at = "saving"
    /\ saved' = frame.val
    /\ frame' = NoSave
    /\ upkeep' = IF Cardinality(me.opks) < LowWater THEN Started ELSE upkeep
    /\ raced' = (raced \/ upkeep.at \in {"savePrev", "saveSpk", "saveOpks", "clearSpk", "clearOpks"})
    /\ UNCHANGED <<srv, mail, me, lowPending, check, answer, watch, clock, made, retired, given, twice, chances>>

ReloadPrekeys ==
    /\ PSpend
    /\ me' = saved
    /\ upkeep' = NoRun /\ lowPending' = FALSE
    /\ frame' = NoSave
    /\ check' = NoCheck /\ answer' = NoAnswer
    /\ UNCHANGED <<srv, mail, saved, watch, clock, made, retired, given, twice, raced>>

(***************************************************************************)
(* key-watch.ts. Another device that recovers the account publishes its    *)
(* own signed prekey; sign-in and ticket replies carry the current one.    *)
(***************************************************************************)
RecoverElsewhere ==
    /\ srv.spk \notin Foreign
    /\ PSpend
    /\ \E f \in Foreign : srv' = [spk |-> f, opks |-> {}]
    /\ UNCHANGED <<mail, saved, me, upkeep, lowPending, frame, check, answer, watch, clock, made, retired, given,
                   twice, raced>>

\* The daily renewal of the sign-in.
Renewal ==
    /\ check.at = "none"
    /\ check' = Replied
    /\ UNCHANGED <<srv, mail, saved, me, upkeep, lowPending, frame, answer, watch, clock, made, retired, given,
                   twice, raced, chances>>

\* The identity is loaded after the reply.
checkAccountKeys ==
    /\ check.at = "read"
    /\ check' = [check EXCEPT !.at = "write", !.known = watch.known \cup Spks(saved),
                              !.grew = ~(Spks(saved) \subseteq watch.known)]
    /\ UNCHANGED <<srv, mail, saved, me, upkeep, lowPending, frame, answer, watch, clock, made, retired, given,
                   twice, raced, chances>>

CheckWrite ==
    /\ check.at = "write"
    /\ watch' = [known |-> IF check.grew THEN check.known ELSE watch.known,
                 alert |-> IF check.reply \in check.known THEN watch.alert ELSE check.reply]
    /\ check' = NoCheck
    /\ UNCHANGED <<srv, mail, saved, me, upkeep, lowPending, frame, answer, clock, made, retired, given, twice,
                   raced, chances>>

\* "That was me": read the alert and the known keys, store them, then clear the alert.
dismissKeyAlert ==
    /\ answer.at = "none" /\ watch.alert # 0
    /\ PSpend
    /\ answer' = [at |-> "put", spk |-> watch.alert, known |-> watch.known \cup {watch.alert}]
    /\ UNCHANGED <<srv, mail, saved, me, upkeep, lowPending, frame, check, watch, clock, made, retired, given,
                   twice, raced>>

DismissPut ==
    /\ answer.at = "put"
    /\ watch' = [watch EXCEPT !.known = answer.known]
    /\ answer' = [answer EXCEPT !.at = "clear"]
    /\ UNCHANGED <<srv, mail, saved, me, upkeep, lowPending, frame, check, clock, made, retired, given, twice,
                   raced, chances>>

DismissClear ==
    /\ answer.at = "clear"
    /\ watch' = [watch EXCEPT !.alert = 0]
    /\ answer' = NoAnswer
    /\ UNCHANGED <<srv, mail, saved, me, upkeep, lowPending, frame, check, clock, made, retired, given, twice,
                   raced, chances>>

\* A device whose peers use its prekeys while another device may replace them (MCDevice
\* looks at the two apart).
PrekeyNext ==
    \/ Period \/ Connect \/ rotateSpkIfDue \/ replenishOpks \/ commit \/ PublishOk \/ PublishFails
    \/ take_one_time_prekey \/ (\E m \in mail : ReceiveFirst(m) \/ ReceiveLost(m)) \/ FrameSaved
    \/ ReloadPrekeys \/ RecoverElsewhere \/ Renewal \/ checkAccountKeys \/ CheckWrite
    \/ dismissKeyAlert \/ DismissPut \/ DismissClear

PrekeySpec == PrekeyInit /\ [][PrekeyNext]_prekeyVars

(***************************************************************************)
(* Properties.                                                             *)
(***************************************************************************)
\* Every variable keeps its shape; a batch that still has to be published is held, but
\* for the keys the server has handed out already (replenishOpks, prekeys.ts).
PrekeyTypeOK ==
    /\ {srv.spk, me.spk, saved.spk} \subseteq Foreign \cup 1..made
    /\ me.opkp \ me.opks \subseteq given
    /\ \A m \in mail : clock < m.at + Lifetime
    /\ watch.alert \in Foreign \cup 0..made

\* A first message the server handed our keys out for can be opened as long as it is
\* queued: private halves are saved before the public ones are published, and a retired
\* signed prekey outlives the messages sent before it was retired (prekeys.ts). Not
\* covered are an overlap with a frame's own save, a one-time prekey that a repeated
\* upload put back, and a message sent later than a retirement the server had not heard of.
FirstMessagesOpen ==
    ~raced => \A m \in mail :
        \/ m.spk \in Foreign \/ m.opk \in twice
        \/ Opens(m, saved)
        \/ \E k \in retired : k.id = m.spk /\ m.at > k.at

\* A low signal that comes in the middle of a run is handled before the run ends.
LowRemembered == lowPending => upkeep.at # "none"

\* Something was saved and not published yet; it is in the end, after failures and
\* reloads (Settles, in MCDevice).
Unpublished == me.spkp \/ me.opkp # {}

\* The alert is only ever raised for a key this device did not make, whenever its own
\* rotations fall between the reply and the check. (Not covered are overlapping saves,
\* and a key retired so long ago that it is forgotten, which the server still has.)
NoFalseAlert ==
    \/ raced
    \/ watch.alert \in Foreign \cup {0}
    \/ \E k \in retired : k.id = watch.alert /\ clock - k.at >= Lifetime

\* What peers are handed out can be used, what runs low is made up for, and no key of
\* our own raises an alarm (prekeys.ts, messaging.ts, key-watch.ts).
PrekeysSound == FirstMessagesOpen /\ LowRemembered /\ NoFalseAlert

\* Another device published its keys and the user was not told; the next reply tells
\* them, unless our own next rotation covers it first (Settles, in MCDevice).
Unseen == srv.spk \in Foreign \ (watch.known \cup {watch.alert})

\* A one-time prekey is handed out once. (It does not hold; the README says why.)
OpkOnce == twice = {}

\* A used one-time prekey is gone for good. (It does not hold; the README says why.)
UsedGone ==
    [][\A o \in 1..20 : o \in given /\ o \notin me.opks => o \notin me'.opks]_prekeyVars

\* A key the user called theirs raises no second alert. (It does not hold; the README
\* says why.)
DismissSticks == [][watch.known \subseteq watch'.known]_prekeyVars
=============================================================================
