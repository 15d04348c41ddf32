------------------------------- MODULE Account -------------------------------
(***************************************************************************)
(* How a device comes to hold an account: onboarding (onboarding/flow.ts,  *)
(* onboarding/store.ts, screens/Onboarding.tsx) and recovery by password,  *)
(* seed phrase or emergency contacts (services/recovery.ts,                *)
(* screens/Recovery.tsx, routes/recovery.rs), on one device, while the     *)
(* owner's other device changes the recovery settings of the same account. *)
(*                                                                         *)
(* A job is a call in flight; it moves from await to await, it goes on     *)
(* when the screen that started it is gone, and it dies with the page.     *)
(* An identity is its seed: the phrase, the Privex ID and the long-term    *)
(* keys are all functions of it. Its prekeys are not: every key generation *)
(* and every recovery draws new ones, numbered here by generation.         *)
(***************************************************************************)
EXTENDS Naturals, FiniteSets

CONSTANTS
    Scenes,       \* [old, methods, events]: whether the owner has an account already,
                  \* on another device, the ways of recovery they use, and a bound:
                  \* recoveries tried, settings changed, failures and reloads
    Contacts,     \* who can hold a recovery share
    MaxJobs,      \* bound: calls in flight on the device
    MaxSessions,  \* bound: recovery codes made
    MaxEvents     \* the most events of a scene

ASSUME BoundsAssumption ==
    /\ {MaxJobs, MaxSessions, MaxEvents} \subseteq Nat
    /\ IsFiniteSet(Contacts)
    /\ Scenes \subseteq [old : BOOLEAN, methods : SUBSET {"password", "seed", "contacts"},
                        events : 0..MaxEvents]

VARIABLES
    scene,       \* the one of Scenes that is played
    srv,         \* the server: [accounts, spk, opks, record, setup, holders]
    rows,        \* db.identity: the prekey generation stored with each identity, or 0
    progress,    \* db.settings "onboarding": [step, id]
    auth,        \* store/auth: whose token is held, and who is signed in
    screen,      \* what the user looks at
    jobs,        \* the calls in flight: [kind, at, id, gen, tag, login, shown]
    session,     \* ContactsRecovery: the recovery code it polls for, or 0
    polling,     \* ContactsRecovery: a tick is scheduled
    bucket,      \* server: the shares posted for each code
    collected,   \* ContactsRecovery: the shares opened for each code
    approved,    \* history: the shares contacts have posted
    drawn,       \* history: what was made so far: [ids, gens, codes]
    saved,       \* history: the generations some device has stored
    budget       \* what is left of the scene's events

vars == <<scene, srv, rows, progress, auth, screen, jobs, session, polling, bucket,
          collected, approved, drawn, saved, budget>>

device == <<rows, progress, auth>>
ui == <<screen, session, polling>>
rendezvous == <<bucket, collected, approved>>
history == <<drawn, saved>>

Generated == {"first", "second"}
Ids == Generated \cup {"typo"}  \* a phrase that passes its checksum, of no account
None == "none"
Codes == 1..MaxSessions
Shares == [setup : 1..MaxEvents + 1, holder : Contacts]
Event == budget > 0 /\ budget' = budget - 1

(***************************************************************************)
(* onboarding/store.ts.                                                    *)
(***************************************************************************)
saveProgress(step, id) == progress' = [step |-> step, id |-> id]
writeBundle(id, gen) == rows' = [rows EXCEPT ![id] = gen]
HasBundle == progress.id # None /\ rows[progress.id] # 0

(***************************************************************************)
(* Jobs and screens.                                                       *)
(***************************************************************************)
Job(kind, at, id) == [kind |-> kind, at |-> at, id |-> id, gen |-> 0, tag |-> 0,
                      login |-> FALSE, shown |-> TRUE]

Recoveries == {"password", "seed", "contacts"}
Room == Cardinality(jobs) < MaxJobs
Turn(j, k) == jobs' = (jobs \ {j}) \cup {k}
Moves(j, at) == Turn(j, [j EXCEPT !.at = at])
Ends(j) == jobs' = jobs \ {j}
Busy == \E j \in jobs : j.shown /\ j.kind \in {"password", "seed"}

\* Onboarding reads the progress and picks a step; the steps that work on their
\* own begin at once.
Landing(p) == CASE p.step = "done" -> "app"
                [] p.step = "registered" -> "recovery"
                [] p.step = "keys" -> "register"
                [] OTHER -> "welcome"
OnMount(s) == CASE s = "register" -> {Job("register", "load", None)}
                [] s = "keys" -> {Job("keygen", "load", None)}
                [] OTHER -> {}

\* Another screen: the jobs J go on, but no screen waits for them any more.
Show(s, J) ==
    /\ screen' = s
    /\ session' = 0
    /\ polling' = FALSE
    /\ jobs' = {[j EXCEPT !.shown = FALSE] : j \in J} \cup OnMount(s)

Old == IF scene.old THEN {"first"} ELSE {}
Uses(m) == m \in scene.methods

Init ==
    /\ scene \in Scenes
    /\ srv = [accounts |-> Old,
              spk |-> [i \in Ids |-> IF i \in Old THEN 1 ELSE 0],
              opks |-> [i \in Ids |-> IF i \in Old THEN {1} ELSE {}],
              record |-> IF Uses("password") /\ Old # {} THEN 1 ELSE 0,
              setup |-> IF Uses("contacts") THEN 1 ELSE 0,
              holders |-> IF Uses("contacts") THEN Contacts ELSE {}]
    /\ drawn = [ids |-> Old, gens |-> Cardinality(Old), codes |-> 0]
    /\ saved = 1..Cardinality(Old)
    /\ rows = [i \in Ids |-> 0]
    /\ progress = [step |-> "welcome", id |-> None]
    /\ auth = [token |-> None, user |-> None]
    /\ screen = "welcome"
    /\ jobs = {}
    /\ session = 0
    /\ polling = FALSE
    /\ bucket = [c \in Codes |-> {}]
    /\ collected = [c \in Codes |-> {}]
    /\ approved = {}
    /\ budget = scene.events

(***************************************************************************)
(* Navigation. Every screen offers only what is listed here.               *)
(***************************************************************************)
\* "Create my identity", "Recover an existing account", "Continue" once the keys
\* are there, and what leads from the safety screen and the offer into the app.
Links == {<<"welcome", "keys">>, <<"welcome", "recover">>, <<"ready", "register">>,
          <<"safety", "app">>, <<"offer", "app">>}

Follow ==
    /\ \E l \in Links : l[1] = screen /\ Show(l[2], jobs)
    /\ UNCHANGED <<scene, srv, device, rendezvous, history, budget>>

\* "Try again" after a failed registration, and Back from the recovery screen.
GoBack ==
    /\ Event
    /\ \/ screen = "failed" /\ Show("keys", jobs)
       \/ screen = "recover" /\ Show(Landing(progress), jobs)
    /\ UNCHANGED <<scene, srv, device, rendezvous, history>>

\* The page is loaded again: every call in flight is gone, storage stays. A
\* finished identity signs in (Session); the address keeps /recover.
Reload ==
    /\ Event
    /\ Show(IF screen \in {"recover", "offer"} THEN "recover" ELSE Landing(progress), {})
    /\ auth' = IF progress.step = "done" /\ HasBundle
               THEN [token |-> progress.id, user |-> progress.id]
               ELSE [token |-> None, user |-> None]
    /\ UNCHANGED <<scene, srv, rows, progress, rendezvous, history>>

(***************************************************************************)
(* Key generation: an identity already stored is kept.                     *)
(***************************************************************************)
LoadOrGenerate(j) ==
    /\ j.kind = "keygen" /\ j.at = "load"
    /\ \/ /\ HasBundle
          /\ Ends(j)
          /\ screen' = IF j.shown THEN "ready" ELSE screen
          /\ UNCHANGED drawn
       \/ /\ ~HasBundle
          /\ \E i \in Generated \ drawn.ids :
              /\ Turn(j, [j EXCEPT !.at = "row", !.id = i, !.gen = drawn.gens + 1])
              /\ drawn' = [drawn EXCEPT !.ids = @ \cup {i}, !.gens = @ + 1]
          /\ UNCHANGED screen
    /\ UNCHANGED <<scene, srv, device, session, polling, rendezvous, saved, budget>>

\* persistGeneratedIdentity writes the row, then the progress "keys".
WriteRow(j) ==
    /\ j.at = "row"
    /\ writeBundle(j.id, j.gen)
    /\ saved' = saved \cup {j.gen}
    /\ Moves(j, "mark")
    /\ UNCHANGED <<scene, srv, progress, auth, ui, rendezvous, drawn, budget>>

MarkKeys(j) ==
    /\ j.at = "mark"
    /\ saveProgress("keys", j.id)
    /\ IF j.kind = "keygen"
       THEN /\ Ends(j)
            /\ screen' = IF j.shown THEN "ready" ELSE screen
            /\ UNCHANGED auth
       ELSE /\ Moves(j, "spk")
            /\ auth' = [auth EXCEPT !.token = j.id]
            /\ UNCHANGED screen
    /\ UNCHANGED <<scene, srv, rows, session, polling, rendezvous, history, budget>>

(***************************************************************************)
(* Registration: proof of work, the keys, a signed challenge.              *)
(***************************************************************************)
LoadBundle(j) ==
    /\ j.kind \in {"register", "finish"} /\ j.at = "load"
    /\ HasBundle
    /\ LET skips == j.kind = "finish" /\ auth.token # None
           next == IF j.kind = "register" THEN "post" ELSE IF skips THEN "seal" ELSE "auth"
       IN Turn(j, [j EXCEPT !.at = next, !.id = progress.id, !.gen = rows[progress.id]])
    /\ UNCHANGED <<scene, srv, device, ui, rendezvous, history, budget>>

\* 409 (the account is there already) counts as a resume of our own registration.
Register(j) == IF j.id \in srv.accounts THEN srv
               ELSE [srv EXCEPT !.accounts = @ \cup {j.id}, !.spk[j.id] = j.gen,
                                !.opks[j.id] = {j.gen}]

\* provisionPrekeys: the signed prekey, then one-time prekeys that replace all others.
Rotate(j) == [srv EXCEPT !.spk[j.id] = j.gen]
Replenish(j) == [srv EXCEPT !.opks[j.id] = {j.gen}]

Posted(j) == CASE j.at = "post" -> Register(j)
               [] j.at = "spk" -> Rotate(j)
               [] j.at = "opks" -> Replenish(j)
AfterPost == [post |-> "auth", spk |-> "opks", opks |-> "seal"]

Post(j) ==
    /\ j.at \in DOMAIN AfterPost
    /\ srv' = Posted(j)
    /\ Moves(j, AfterPost[j.at])
    /\ UNCHANGED <<scene, device, ui, rendezvous, history, budget>>

\* The server accepts the signature of an account it knows, and of no other. A
\* recovery then draws its prekeys and stores them before it publishes any.
AfterAuth_PublishFirst(j) ==
    CASE j.kind = "register" -> [j EXCEPT !.at = "registered"]
      [] j.kind = "finish" -> [j EXCEPT !.at = "seal"]
      [] OTHER -> [j EXCEPT !.at = "spk", !.gen = drawn.gens + 1]

AfterAuth(j) ==
    CASE j.kind = "register" -> [j EXCEPT !.at = "registered"]
      [] j.kind = "finish" -> [j EXCEPT !.at = "seal"]
      [] OTHER -> [j EXCEPT !.at = "row", !.gen = drawn.gens + 1]

Authenticate(j) ==
    /\ j.at = "auth"
    /\ j.id \in srv.accounts
    /\ Turn(j, AfterAuth(j))
    /\ drawn' = [drawn EXCEPT !.gens = IF j.kind \in Recoveries THEN @ + 1 ELSE @]
    /\ auth' = IF j.kind = "finish" THEN [auth EXCEPT !.token = j.id] ELSE auth
    /\ UNCHANGED <<scene, srv, rows, progress, ui, rendezvous, saved, budget>>

MarkRegistered(j) ==
    /\ j.at = "registered"
    /\ saveProgress("registered", j.id)
    /\ auth' = [auth EXCEPT !.token = j.id]
    /\ Ends(j)
    /\ screen' = IF j.shown THEN "recovery" ELSE screen
    /\ UNCHANGED <<scene, srv, rows, session, polling, rendezvous, history, budget>>

\* RecoveryStep.finish.
Finish ==
    /\ screen = "recovery"
    /\ Room
    /\ ~\E j \in jobs : j.kind = "finish"
    /\ jobs' = jobs \cup {Job("finish", "load", None)}
    /\ UNCHANGED <<scene, srv, device, ui, rendezvous, history, budget>>

\* finalizeIdentity: the row, then the progress "done"; then the app is entered.
SealRow(j) ==
    /\ j.at = "seal"
    /\ writeBundle(j.id, j.gen)
    /\ saved' = saved \cup {j.gen}
    /\ Moves(j, "done")
    /\ UNCHANGED <<scene, srv, progress, auth, ui, rendezvous, drawn, budget>>

\* What the screens do with the answer. A seed or password recovery leads into the
\* app even when its screen is gone, unless it has a backup to offer; a contact
\* recovery only while its code is still polled for.
AfterEntry(j, offer) ==
    CASE j.kind = "finish" -> IF j.shown THEN "safety" ELSE screen
      [] j.kind = "contacts" -> IF session # j.tag THEN screen
                                ELSE IF offer THEN "offer" ELSE "app"
      [] OTHER -> IF ~offer THEN "app" ELSE IF j.shown THEN "offer" ELSE screen

Entered(j) ==
    /\ j.at = "done"
    /\ saveProgress("done", j.id)
    /\ auth' = [auth EXCEPT !.user = j.id]
    /\ \E offer \in BOOLEAN :
        LET to == AfterEntry(j, offer)
        IN IF to = screen THEN Ends(j) /\ UNCHANGED ui ELSE Show(to, jobs \ {j})
    /\ UNCHANGED <<scene, srv, rows, rendezvous, history, budget>>

(***************************************************************************)
(* Recovery settings of an account: on this device once it holds a token,  *)
(* or on the owner's other one.                                            *)
(***************************************************************************)
\* The screens that offer them: a step of the onboarding, a tab of Settings. Password
\* recovery is turned off where it is on, and two or three contacts are chosen.
PasswordStep == screen = "recovery"
RecoveryTab == screen = "app"
OpaqueRecoveryToggle == srv.record # 0
EmergencyContacts(C) == Cardinality(C) \in 2..3

\* requireRecoverySession signs in again when this device has lost its token.
RecoverySession ==
    /\ "first" \in srv.accounts
    /\ Event
    /\ \/ UNCHANGED auth
       \/ /\ PasswordStep \/ RecoveryTab
          /\ HasBundle /\ progress.id = "first"
          /\ auth' = IF auth.token = None THEN [auth EXCEPT !.token = "first"] ELSE auth
    /\ UNCHANGED <<scene, rows, progress, ui, jobs, rendezvous, history>>

enableOpaqueRecovery ==
    Uses("password") /\ RecoverySession
    /\ srv' = [srv EXCEPT !.record = MaxEvents + 2 - budget]

disableOpaqueRecovery ==
    RecoverySession /\ OpaqueRecoveryToggle /\ srv' = [srv EXCEPT !.record = 0]

\* The seed is split anew: threshold 2 among 2 or 3 contacts, replacing every share.
setupEmergencyContacts(C) ==
    /\ Uses("contacts")
    /\ EmergencyContacts(C)
    /\ RecoverySession
    /\ srv' = [srv EXCEPT !.setup = MaxEvents + 2 - budget, !.holders = C]

(***************************************************************************)
(* Recovery by password.                                                   *)
(***************************************************************************)
Submit(j) ==
    /\ screen = "recover"
    /\ ~Busy
    /\ Room
    /\ Event
    /\ jobs' = jobs \cup {j}
    /\ session' = 0
    /\ polling' = FALSE
    /\ UNCHANGED <<scene, srv, device, screen, rendezvous, history>>

\* Either the password the owner has set, or a wrong one (0).
SubmitPassword(pw) ==
    /\ Uses("password")
    /\ pw \in {0, srv.record}
    /\ Submit([Job("password", "init", "first") EXCEPT !.gen = pw])

\* The server keeps the state of the login and ties it to the record it used; a
\* password that is not the record's is found out on the device.
LoginInit(j) ==
    /\ j.at = "init"
    /\ srv.record # 0 /\ j.gen = srv.record
    /\ Turn(j, [j EXCEPT !.at = "complete", !.tag = srv.record, !.login = TRUE])
    /\ UNCHANGED <<scene, srv, device, ui, rendezvous, history, budget>>

TagCurrent_Unchecked(j) == srv.record # 0
TagCurrent(j) == srv.record # 0 /\ srv.record = j.tag

LoginComplete(j) ==
    /\ j.at = "complete"
    /\ j.login
    /\ TagCurrent(j)
    /\ Turn(j, [j EXCEPT !.at = "row", !.gen = drawn.gens + 1, !.login = FALSE])
    /\ drawn' = [drawn EXCEPT !.gens = @ + 1]
    /\ UNCHANGED <<scene, srv, device, ui, rendezvous, saved, budget>>

LoginExpires(j) ==
    /\ j.at = "complete" /\ j.login
    /\ Event
    /\ Turn(j, [j EXCEPT !.login = FALSE])
    /\ UNCHANGED <<scene, srv, device, ui, rendezvous, history>>

(***************************************************************************)
(* Recovery by seed phrase: the identity signs a challenge before anything *)
(* is stored, so that a phrase of no account leaves nothing behind.        *)
(***************************************************************************)
SubmitSeed_Trusting(i) == Uses("seed") /\ Submit([Job("seed", "row", i) EXCEPT !.gen = drawn.gens])
SubmitSeed(i) == Uses("seed") /\ Submit(Job("seed", "auth", i))

(***************************************************************************)
(* Recovery by emergency contacts: a code handed to them out of band, and  *)
(* a poll of the bucket it names.                                          *)
(***************************************************************************)
startContactRecovery ==
    /\ Uses("contacts")
    /\ screen = "recover"
    /\ session = 0
    /\ drawn.codes < MaxSessions
    /\ session' = drawn.codes + 1
    /\ drawn' = [drawn EXCEPT !.codes = @ + 1]
    /\ polling' = TRUE
    /\ UNCHANGED <<scene, srv, device, screen, jobs, rendezvous, saved, budget>>

\* A contact was given the code, this one or an older one, out of band.
ApproveRecovery(code) == code \in 1..drawn.codes

\* They open the share the server holds for them and post it sealed to the code.
approveRecovery(c, code) ==
    /\ c \in srv.holders
    /\ ApproveRecovery(code)
    /\ LET share == [setup |-> srv.setup, holder |-> c]
       IN /\ bucket' = [bucket EXCEPT ![code] = @ \cup {share}]
          /\ approved' = approved \cup {share}
    /\ UNCHANGED <<scene, srv, device, ui, jobs, collected, history, budget>>

BucketExpires(code) ==
    /\ bucket[code] # {}
    /\ Event
    /\ bucket' = [bucket EXCEPT ![code] = {}]
    /\ UNCHANGED <<scene, srv, device, ui, jobs, collected, approved, history>>

tick ==
    /\ session # 0 /\ polling
    /\ Room
    /\ polling' = FALSE
    /\ jobs' = jobs \cup {[Job("contacts", "ask", "first") EXCEPT !.tag = session]}
    /\ UNCHANGED <<scene, srv, device, screen, session, rendezvous, history, budget>>

\* Two shares give the seed when they come from one split and from two contacts.
Pairs_Any(S) == {p \in S \X S : p[1] # p[2]}
Pairs(S) == {p \in S \X S : p[1].setup = p[2].setup /\ p[1].holder # p[2].holder}

PollReply(j) ==
    /\ j.at = "ask"
    /\ LET S == collected[j.tag] \cup bucket[j.tag]
       IN /\ collected' = [collected EXCEPT ![j.tag] = S]
          /\ IF Pairs(S) # {}
             THEN Moves(j, "auth") /\ UNCHANGED polling
             ELSE Ends(j) /\ polling' = (polling \/ session = j.tag)
    /\ UNCHANGED <<scene, srv, device, screen, session, bucket, approved, history, budget>>

(***************************************************************************)
(* A job that fails: its screen says so, and a poll is scheduled again.    *)
(***************************************************************************)
\* No account, a wrong password, a login used up, or a record changed since.
Refused(j) ==
    \/ j.at = "auth" /\ j.id \notin srv.accounts
    \/ j.at = "init" /\ (srv.record = 0 \/ j.gen # srv.record)
    \/ j.at = "complete" /\ (~j.login \/ ~TagCurrent(j))
    \/ j.at = "load" /\ j.kind # "keygen" /\ ~HasBundle

Online == {"post", "auth", "init", "complete", "spk", "opks", "ask"}

Aborts_Silent(j) ==
    /\ Ends(j)
    /\ screen' = IF j.kind = "register" /\ j.shown THEN "failed" ELSE screen
    /\ UNCHANGED polling

Aborts(j) ==
    /\ Ends(j)
    /\ screen' = IF j.kind = "register" /\ j.shown THEN "failed" ELSE screen
    /\ polling' = (polling \/ (j.kind = "contacts" /\ session = j.tag))

JobRefused(j) ==
    /\ Refused(j)
    /\ Aborts(j)
    /\ UNCHANGED <<scene, srv, device, session, rendezvous, history, budget>>

\* The request or its answer is lost; either way the server may have acted on it.
RequestLost(j) ==
    /\ j.at \in Online
    /\ Event
    /\ Aborts(j)
    /\ UNCHANGED <<scene, srv, device, session, rendezvous, history>>

AnswerLost(j) ==
    /\ j.at \in DOMAIN AfterPost
    /\ Event
    /\ srv' = Posted(j)
    /\ Aborts(j)
    /\ UNCHANGED <<scene, device, session, rendezvous, history>>

(***************************************************************************)
(* The specification.                                                      *)
(***************************************************************************)
JobStep(j) ==
    \/ LoadOrGenerate(j)
    \/ WriteRow(j)
    \/ MarkKeys(j)
    \/ LoadBundle(j)
    \/ Post(j)
    \/ Authenticate(j)
    \/ MarkRegistered(j)
    \/ SealRow(j)
    \/ Entered(j)
    \/ LoginInit(j)
    \/ LoginComplete(j)
    \/ PollReply(j)
    \/ JobRefused(j)

Next ==
    \/ Follow
    \/ GoBack
    \/ Reload
    \/ Finish
    \/ enableOpaqueRecovery
    \/ disableOpaqueRecovery
    \/ \E C \in SUBSET Contacts : setupEmergencyContacts(C)
    \/ \E pw \in 0..MaxEvents + 1 : SubmitPassword(pw)
    \/ \E i \in {"first", "typo"} : SubmitSeed(i)
    \/ startContactRecovery
    \/ \E c \in Contacts, code \in Codes : approveRecovery(c, code)
    \/ \E code \in Codes : BucketExpires(code)
    \/ tick
    \/ \E j \in jobs : LoadOrGenerate(j)
    \/ \E j \in jobs : WriteRow(j)
    \/ \E j \in jobs : MarkKeys(j)
    \/ \E j \in jobs : LoadBundle(j)
    \/ \E j \in jobs : Post(j)
    \/ \E j \in jobs : Authenticate(j)
    \/ \E j \in jobs : MarkRegistered(j)
    \/ \E j \in jobs : SealRow(j)
    \/ \E j \in jobs : Entered(j)
    \/ \E j \in jobs : LoginInit(j)
    \/ \E j \in jobs : LoginComplete(j)
    \/ \E j \in jobs : PollReply(j)
    \/ \E j \in jobs : JobRefused(j)
    \/ \E j \in jobs : LoginExpires(j)
    \/ \E j \in jobs : RequestLost(j)
    \/ \E j \in jobs : AnswerLost(j)

Spec == Init /\ [][Next]_vars

\* Promises settle and timers fire; nobody has to press a button or approve.
FairSpec ==
    /\ Spec
    /\ WF_vars(\E j \in jobs : JobStep(j))
    /\ WF_vars(tick)

(***************************************************************************)
(* Properties.                                                             *)
(***************************************************************************)
\* Every variable keeps its shape; in particular no tick is scheduled once the recovery
\* screen has given up its code (the cleanup of the poll effect, Recovery.tsx).
TypeOK ==
    /\ srv.accounts \subseteq Ids
    /\ srv.record \in 0..MaxEvents + 1
    /\ srv.setup \in 0..MaxEvents + 1
    /\ progress.step \in {"welcome", "keys", "registered", "done"}
    /\ {progress.id, auth.token, auth.user} \subseteq Ids \cup {None}
    /\ screen \in {"welcome", "keys", "ready", "register", "failed", "recovery", "safety",
                   "recover", "offer", "app"}
    /\ approved \subseteq Shares
    /\ session \in 0..MaxSessions
    /\ polling => session # 0
    /\ \A j \in jobs : j.id \in Ids \cup {None} /\ j.at \in Online \cup
            {"load", "row", "mark", "registered", "seal", "done"}

\* A mistyped phrase must leave no identity behind: whatever the user does next,
\* and however the calls in flight end, nothing registers it as a new account
\* (completeRecovery saves nothing before the server accepts the keys).
NoPhantom == "typo" \notin srv.accounts

\* One device never registers two accounts of its own: a lost answer, a retry, a
\* reload and a 409 all resume the identity that is already stored.
OneAccount == Cardinality(srv.accounts \ Old) <= 1

\* The server holds no account that nobody meant to make (flow.ts, recovery.ts).
AccountsMeant == NoPhantom /\ OneAccount

\* Whoever is in the app holds, in storage, the keys of an account the server has.
EnteredIsAccepted ==
    auth.user # None => auth.user \in srv.accounts /\ rows[auth.user] # 0

\* The server hands out prekeys only after a device has stored their private halves.
SavedFirst == \A i \in srv.accounts : srv.spk[i] \in saved /\ srv.opks[i] \subseteq saved

\* No key is announced, and no app entered, before the private halves are stored
\* (finalizeIdentity, persistGeneratedIdentity).
KeysStored == EnteredIsAccepted /\ SavedFirst

\* Whoever is in the app with no call in flight holds what the server hands out for
\* them. (It does not hold; the README says why.)
PrekeysHeld ==
    auth.user # None /\ jobs = {} =>
        srv.spk[auth.user] = rows[auth.user] /\ srv.opks[auth.user] = {rows[auth.user]}

\* A contact recovery signs in only when two contacts have approved shares of one
\* split, however old the code and whatever splits came in between.
TwoApproved ==
    \A j \in jobs : j.kind = "contacts" /\ j.at # "ask" =>
        \E s, t \in approved : s.setup = t.setup /\ s.holder # t.holder

\* A password opens a session only while it is the one the owner has set: a login
\* begun before it was changed or turned off is refused at its end. (k is j as the step
\* leaves it when it ends the login: it has just drawn its prekeys.)
PasswordCurrent ==
    [][\A j \in jobs, k \in jobs' :
        j.kind = "password" /\ j.at = "complete" /\ k.kind = "password" /\ k.at = "row"
        /\ k.gen = drawn.gens + 1 /\ k.tag = j.tag => srv.record = j.gen]_vars

\* Once two contacts have posted shares of one split for the code on the screen, the
\* poll brings the account back, through errors and retries, unless the user leaves
\* or the bucket expires.
PollRecovers ==
    \A c \in Codes :
        (session = c /\ Pairs(bucket[c]) # {}) ~> (session # c \/ bucket[c] = {})
=============================================================================
