---------------------------- MODULE AccountProofs ----------------------------
(***************************************************************************)
(* Proofs that onboarding and recovery make no account nobody meant, enter *)
(* and announce nothing before its keys are stored, and sign in by contact *)
(* or by password only with what those allow: for any scenes, contacts,    *)
(* calls in flight, codes and events.                                      *)
(***************************************************************************)
EXTENDS Account, FiniteSetTheorems, TLAPS

(***************************************************************************)
(* The strengthening.                                                      *)
(***************************************************************************)
Kinds == {"keygen", "register", "finish", "password", "seed", "contacts"}
Waits == {"load", "row", "mark", "post", "auth", "registered", "seal", "done",
          "init", "complete", "spk", "opks", "ask"}
Jobs == [kind : Kinds, at : Waits, id : Ids \cup {None}, gen : Nat, tag : Nat,
         login : BOOLEAN, shown : BOOLEAN]
Stages == {"welcome", "keys", "registered", "done"}
Servers == [accounts : SUBSET Ids, spk : [Ids -> Nat], opks : [Ids -> SUBSET Nat],
            record : Nat, setup : Nat, holders : SUBSET Contacts]

Shape ==
    /\ scene \in Scenes
    /\ srv \in Servers
    /\ rows \in [Ids -> Nat]
    /\ progress \in [step : Stages, id : Ids \cup {None}]
    /\ auth \in [token : Ids \cup {None}, user : Ids \cup {None}]
    /\ jobs \subseteq Jobs
    /\ drawn \in [ids : SUBSET Generated, gens : Nat, codes : 0..MaxSessions]
    /\ session \in 0..MaxSessions
    /\ saved \subseteq Nat
    /\ budget \in 0..MaxEvents

\* What a recovery does once the server has accepted it.
Provisioning == {"row", "mark", "spk", "opks", "seal", "done"}

\* The job will make its identity the one of this device.
Fixed(j) ==
    \/ j.kind \in {"register", "finish"} /\ j.at # "load"
    \/ j.kind \in Recoveries /\ j.at \in Provisioning

\* A job is at one of the awaits of its kind.
Placed(j) ==
    /\ j.kind = "keygen" => j.at \in {"load", "row", "mark"}
    /\ j.kind = "register" => j.at \in {"load", "post", "auth", "registered"}
    /\ j.kind = "finish" => j.at \in {"load", "auth", "seal", "done"}
    /\ j.kind = "password" => j.at \in {"init", "complete"} \cup Provisioning
    /\ j.kind = "seed" => j.at \in {"auth"} \cup Provisioning
    /\ j.kind = "contacts" => j.at \in {"ask", "auth"} \cup Provisioning

\* A job is about an identity: none before it has loaded one, a mistyped one only until
\* the server is asked, and one the server knows from then on.
Meant(j) ==
    /\ j.at # "load" => j.id # None
    /\ j.id = "typo" => j.at = "auth"
    /\ j.kind \in {"password", "contacts"} => j.id = "first"
    /\ Fixed(j) /\ j.kind # "register" => j.id \in srv.accounts
    /\ j.at = "registered" => j.id \in srv.accounts

\* A job carries keys: drawn, then stored, then announced.
Keyed(j) ==
    /\ j.at \in {"row", "mark", "post", "spk", "opks", "seal"} => j.gen # 0
    /\ j.kind = "finish" /\ j.at = "auth" => j.gen # 0
    /\ j.at = "row" => j.gen <= drawn.gens
    /\ j.at \in {"mark", "post", "spk", "opks"} => j.gen \in saved
    /\ j.at \in {"mark", "done"} \/ (j.kind = "register" /\ j.at # "load") => rows[j.id] # 0
    /\ j.kind = "password" /\ j.at = "complete" => j.gen = j.tag
    /\ j.kind = "contacts" => j.tag \in Codes

JobInv == \A j \in jobs : Placed(j) /\ Meant(j) /\ Keyed(j)

\* What is stored, here and on the server.
StoreInv ==
    /\ "typo" \notin srv.accounts /\ rows["typo"] = 0 /\ progress.id # "typo"
    /\ \A i \in Ids : rows[i] # 0 => rows[i] \in saved
    /\ progress.id # None => rows[progress.id] # 0
    /\ progress.step \in {"registered", "done"} => progress.id \in srv.accounts
    /\ EnteredIsAccepted
    /\ srv.record # 0 => "first" \in srv.accounts
    /\ SavedFirst

Generating == \E j \in jobs : j.kind = "keygen"
Finishing == screen = "recovery" \/ \E j \in jobs : j.kind = "finish" /\ j.at = "load"

\* What the screens keep apart: one key generation at a time, and none while a
\* registration is being finished.
ScreenInv ==
    /\ Generating => /\ screen \in {"keys", "app"} /\ session = 0
                     /\ \A j \in jobs : j.kind # "keygen" => ~j.shown
    /\ \A j, k \in jobs : j.kind = "keygen" /\ k.kind = "keygen" => j = k
    /\ \A j, k \in jobs : j.kind = "register" /\ k.kind = "register" /\ j.shown /\ k.shown => j = k
    /\ Finishing => /\ screen \in {"recovery", "safety", "offer", "app"}
                    /\ progress.id \in srv.accounts
                    /\ \A j \in jobs : j.kind # "keygen" /\ (j.kind = "register" => ~j.shown)

\* A device of somebody without an account settles for one identity.
OneInv ==
    ~scene.old =>
        /\ srv.accounts \subseteq {progress.id}
        /\ \A j \in jobs : Fixed(j) => j.id = progress.id
        /\ \A j \in jobs : j.kind = "keygen" /\ j.at # "load" => progress.id = None

\* Shares on their way were posted by contacts.
ShareInv ==
    /\ bucket \in [Codes -> SUBSET approved] /\ collected \in [Codes -> SUBSET approved]
    /\ TwoApproved

IInv == Shape /\ JobInv /\ StoreInv /\ ScreenInv /\ OneInv /\ ShareInv

(***************************************************************************)
(* Jobs.                                                                   *)
(***************************************************************************)
\* The parts of two jobs that no await changes on its own.
Same(k, j) == k.kind = j.kind /\ k.id = j.id /\ k.gen = j.gen /\ k.tag = j.tag

\* A job that has just begun.
LEMMA Fresh ==
  ASSUME NEW kind \in Kinds, NEW at \in Waits, NEW id \in Ids \cup {None}, NEW k,
         k = Job(kind, at, id)
  PROVE  k \in Jobs /\ k.kind = kind /\ k.at = at /\ k.id = id /\ k.shown
BY DEF Job, Jobs

\* A job that moves to another await, with what it had.
LEMMA Moved ==
  ASSUME NEW j \in Jobs, NEW a \in Waits, NEW k, k = [j EXCEPT !.at = a]
  PROVE  k \in Jobs /\ Same(k, j) /\ k.at = a /\ k.shown = j.shown
BY DEF Jobs, Same

\* What is in flight when another screen comes up: hidden, or begun by the screen.
LEMMA Hides ==
  ASSUME NEW J \in SUBSET Jobs, NEW s,
         NEW k \in {[j EXCEPT !.shown = FALSE] : j \in J} \cup OnMount(s)
  PROVE  /\ k \in Jobs
         /\ \/ ~k.shown /\ \E j \in J : Same(k, j) /\ k.at = j.at
            \/ s = "register" /\ k = Job("register", "load", None)
            \/ s = "keys" /\ k = Job("keygen", "load", None)
<1>1. CASE \E j \in J : k = [j EXCEPT !.shown = FALSE]
  BY <1>1 DEF Jobs, Same
<1>2. CASE k \in OnMount(s)
  <2>1. Job("register", "load", None) \in Jobs /\ Job("keygen", "load", None) \in Jobs
    BY Fresh DEF Kinds, Waits, Ids
  <2> QED
    BY <1>2, <2>1 DEF OnMount
<1> QED
  BY <1>1, <1>2

\* Accounts, stored keys and drawn keys only become more.
Grows ==
    /\ srv.accounts \subseteq srv'.accounts /\ saved \subseteq saved'
    /\ drawn.gens <= drawn'.gens
    /\ \A i \in Ids : rows[i] # 0 => rows'[i] # 0

Sound(j) == Placed(j) /\ Meant(j) /\ Keyed(j)

\* So a job that goes on as it was, seen or not, stays sound.
LEMMA JobsKept ==
  ASSUME Shape, Shape', JobInv, Grows,
         \A x \in jobs' : Sound(x)' \/ \E j \in jobs : Same(x, j) /\ x.at = j.at
  PROVE  JobInv'
<1> SUFFICES ASSUME NEW x \in jobs', NEW j \in jobs, Same(x, j), x.at = j.at
             PROVE  Sound(x)'
  BY DEF JobInv, Sound
<1>1. j \in Jobs /\ x \in Jobs /\ Sound(j)
  BY DEF Shape, JobInv, Sound
<1>2. Placed(x)
  BY <1>1 DEF Placed, Sound, Same
<1>3. Meant(x)'
  BY <1>1 DEF Meant, Sound, Same, Fixed, Grows
<1>4. Keyed(x)'
  <2>1. drawn.gens \in Nat /\ drawn'.gens \in Nat /\ x.gen \in Nat
    BY <1>1 DEF Shape, Jobs
  <2>2. j.at # "load" => j.id \in Ids
    BY <1>1 DEF Sound, Meant, Jobs
  <2>3. x.at = "row" => x.gen <= drawn'.gens
    BY <1>1, <2>1 DEF Sound, Keyed, Same, Grows
  <2> QED
    BY <1>1, <2>2, <2>3 DEF Keyed, Sound, Same, Grows
<1> QED
  BY <1>2, <1>3, <1>4 DEF Sound, Placed

(***************************************************************************)
(* Screens.                                                                *)
(***************************************************************************)
\* A job goes on to its next await.
LEMMA ScreenTurned ==
  ASSUME ScreenInv, NEW j \in jobs, NEW k, jobs' = (jobs \ {j}) \cup {k},
         k.kind = j.kind, k.shown = j.shown, k.at # "load",
         screen' = screen, session' = session,
         Finishing => progress'.id \in srv'.accounts
  PROVE  ScreenInv'
<1>1. Generating' => Generating
  BY DEF Generating
<1>2. Finishing' => Finishing
  BY DEF Finishing
<1> QED
  BY <1>1, <1>2 DEF ScreenInv

\* A job ends, and with it the screen that waits for it.
LEMMA ScreenEnded ==
  ASSUME ScreenInv, NEW j \in jobs, jobs' = jobs \ {j}, session' = session,
         \/ screen' = screen
         \/ j.shown /\ j.kind = "keygen" /\ screen' = "ready"
         \/ j.shown /\ j.kind = "register" /\ screen' = "failed"
         \/ j.shown /\ j.kind = "register" /\ screen' = "recovery" /\ progress'.id \in srv'.accounts,
         Finishing => progress'.id \in srv'.accounts
  PROVE  ScreenInv'
<1>1. Generating' => Generating
  BY DEF Generating
<1>2. CASE screen' = screen
  <2>1. Finishing' => Finishing
    BY <1>2 DEF Finishing
  <2> QED
    BY <1>1, <1>2, <2>1 DEF ScreenInv
<1>3. CASE j.kind = "keygen" /\ screen' = "ready"
  <2>1. ~Finishing /\ ~Generating'
    BY <1>3 DEF ScreenInv, Generating
  <2>2. ~Finishing'
    BY <1>3, <2>1 DEF Finishing
  <2> QED
    BY <2>1, <2>2 DEF ScreenInv
<1>4. CASE j.shown /\ j.kind = "register" /\ screen' = "failed"
  <2>1. ~Finishing /\ ~Generating
    BY <1>4 DEF ScreenInv
  <2>2. ~Finishing'
    BY <1>4, <2>1 DEF Finishing
  <2> QED
    BY <1>1, <2>1, <2>2 DEF ScreenInv
<1>5. CASE j.shown /\ j.kind = "register" /\ screen' = "recovery" /\ progress'.id \in srv'.accounts
  <2>1. ~Generating
    BY <1>5 DEF ScreenInv
  <2>2. \A x \in jobs' : x.kind # "keygen" /\ (x.kind = "register" => ~x.shown)
    BY <1>5, <2>1 DEF ScreenInv, Generating
  <2> QED
    BY <1>1, <1>5, <2>1, <2>2 DEF ScreenInv
<1> QED
  BY <1>2, <1>3, <1>4, <1>5

\* Another screen comes up, over the jobs J that are still in flight.
LEMMA Shown ==
  ASSUME IInv, NEW s, NEW J \in SUBSET jobs, Show(s, J),
         UNCHANGED <<scene, srv, rows, bucket, collected, approved, drawn, saved>>,
         progress' \in [step : Stages, id : Ids \cup {None}],
         auth' \in [token : Ids \cup {None}, user : Ids \cup {None}],
         budget' \in 0..MaxEvents,
         StoreInv',
         ~scene.old => progress'.id = progress.id,
         Finishing \/ s = "recovery" => progress'.id \in srv.accounts,
         s = "app" \/ \A j \in J : j.kind # "keygen",
         s \in {"recovery", "safety", "offer", "app"}
            \/ \A j \in J : ~(j.kind = "finish" /\ j.at = "load")
  PROVE  IInv'
<1> J \in SUBSET Jobs
  BY DEF IInv, Shape
<1> DEFINE R == Job("register", "load", None)
           G == Job("keygen", "load", None)
<1>1. /\ R \in Jobs /\ R.kind = "register" /\ R.at = "load" /\ R.id = None /\ R.shown
      /\ G \in Jobs /\ G.kind = "keygen" /\ G.at = "load" /\ G.id = None /\ G.shown
  BY Fresh DEF Kinds, Waits
<1> HIDE DEF R, G
<1>2. jobs' = {[j EXCEPT !.shown = FALSE] : j \in J} \cup OnMount(s)
  BY DEF Show
<1>3. \A k \in jobs' :
        /\ k \in Jobs
        /\ \/ ~k.shown /\ \E j \in J : Same(k, j) /\ k.at = j.at
           \/ s = "register" /\ k = R
           \/ s = "keys" /\ k = G
  <2> SUFFICES ASSUME NEW k \in {[j EXCEPT !.shown = FALSE] : j \in J} \cup OnMount(s)
               PROVE  /\ k \in Jobs
                      /\ \/ ~k.shown /\ \E j \in J : Same(k, j) /\ k.at = j.at
                         \/ s = "register" /\ k = R
                         \/ s = "keys" /\ k = G
    BY <1>2
  <2>1. J \in SUBSET Jobs
    OBVIOUS
  <2> QED
    BY ONLY <2>1, k \in {[j EXCEPT !.shown = FALSE] : j \in J} \cup OnMount(s), Hides DEF R, G
<1>4. screen' = s /\ session' = 0
  BY DEF Show
<1>5. Shape'
  <2>1. jobs' \subseteq Jobs
    BY <1>3
  <2>2. session' \in 0..MaxSessions
    BY <1>4, BoundsAssumption
  <2> QED
    BY <2>1, <2>2 DEF IInv, Shape
<1>6. JobInv'
  <2>1. Grows
    BY DEF IInv, Shape, Grows
  <2>2. Sound(R)' /\ Sound(G)'
    BY <1>1 DEF Sound, Placed, Meant, Keyed, Fixed, Recoveries, Provisioning, None
  <2> QED
    BY <1>3, <1>5, <2>1, <2>2, JobsKept DEF IInv
<1>7. ScreenInv'
  <2>1. Generating' => s \in {"keys",
      "app"} /\ (s # "app" => \A k \in jobs' : k.kind = "keygen" => k = G)
    BY <1>1, <1>3 DEF Generating, Same
  <2>2. \A j, k \in jobs' : j.kind = "keygen" /\ k.kind = "keygen" => j = k
    <3>1. CASE s = "keys"
      BY <1>3, <3>1 DEF Same
    <3>2. CASE s # "keys"
      <4> SUFFICES ASSUME NEW x \in jobs', NEW y \in jobs', x.kind = "keygen", y.kind = "keygen"
                   PROVE  x = y
        OBVIOUS
      <4>1. PICK a \in J : x = [a EXCEPT !.shown = FALSE]
        BY <1>1, <1>2, <3>2 DEF OnMount, R
      <4>2. PICK b \in J : y = [b EXCEPT !.shown = FALSE]
        BY <1>1, <1>2, <3>2 DEF OnMount, R
      <4>3. a \in Jobs /\ b \in Jobs
        OBVIOUS
      <4>4. a.kind = "keygen" /\ b.kind = "keygen"
        BY <4>1, <4>2, <4>3 DEF Jobs
      <4> QED
        BY <4>1, <4>2, <4>4 DEF IInv, ScreenInv
    <3> QED
      BY <3>1, <3>2
  <2>3. \A j,
      k \in jobs' : j.shown /\ k.shown /\ j.kind = "register" /\ k.kind = "register" => j = k
    BY <1>1, <1>3
  <2>4. Generating' => \A j \in jobs' : j.kind # "keygen" => ~j.shown
    BY <1>1, <1>3, <2>1
  <2>5. (\E k \in jobs' : k.kind = "finish" /\ k.at = "load") =>
          /\ \E j \in J : j.kind = "finish" /\ j.at = "load"
          /\ Finishing
    BY <1>1, <1>3 DEF Finishing, Same
  <2>6. Finishing' => s \in {"recovery", "safety", "offer", "app"} /\ progress'.id \in srv'.accounts
    BY <1>4, <2>5 DEF Finishing
  <2>7. Finishing' => \A j \in jobs' : j.kind # "keygen" /\ (j.kind = "register" => ~j.shown)
    <3> SUFFICES ASSUME Finishing' PROVE \A j \in jobs' : j.kind # "keygen" /\ (j.kind = "register" => ~j.shown)
      OBVIOUS
    <3>1. \A j \in J : j.kind # "keygen"
      BY <2>5, <1>4 DEF IInv, ScreenInv, Finishing
    <3> QED
      BY <1>1, <1>3, <2>6, <3>1 DEF Same
  <2> QED
    BY <1>4, <2>1, <2>2, <2>3, <2>4, <2>6, <2>7 DEF ScreenInv
<1>8. OneInv'
  <2> SUFFICES ASSUME ~scene.old
               PROVE  /\ srv.accounts \subseteq {progress.id}
                      /\ \A j \in jobs' : Fixed(j) => j.id = progress.id
                      /\ \A j \in jobs' : j.kind = "keygen" /\ j.at # "load" => progress.id = None
    BY DEF OneInv, Fixed
  <2>1. \A j \in J : Fixed(j) => j.id = progress.id
    BY DEF IInv, OneInv
  <2>2. \A j \in J : j.kind = "keygen" /\ j.at # "load" => progress.id = None
    BY DEF IInv, OneInv
  <2>3. \A j \in jobs' : Fixed(j) => j.id = progress.id
    BY <1>1, <1>3, <2>1 DEF Fixed, Same, Recoveries
  <2>4. \A j \in jobs' : j.kind = "keygen" /\ j.at # "load" => progress.id = None
    BY <1>1, <1>3, <2>2 DEF Same
  <2> QED
    BY <2>3, <2>4 DEF IInv, OneInv
<1>9. ShareInv'
  <2>1. \A j \in jobs' : j.kind = "contacts" /\ j.at # "ask" =>
            \E s1, s2 \in approved : s1.setup = s2.setup /\ s1.holder # s2.holder
    BY <1>1, <1>3 DEF IInv, ShareInv, TwoApproved, Same
  <2> QED
    BY <2>1 DEF IInv, ShareInv, TwoApproved
<1> QED
  BY <1>5, <1>6, <1>7, <1>8, <1>9 DEF IInv

(***************************************************************************)
(* Navigation.                                                             *)
(***************************************************************************)
\* A link is followed.
LEMMA FollowStep == IInv /\ Follow => IInv'
<1> SUFFICES ASSUME IInv, Follow PROVE IInv'
  OBVIOUS
<1> USE DEF device, rendezvous, history
<1>1. PICK l \in Links : l[1] = screen /\ Show(l[2], jobs)
  BY DEF Follow
<1>2. \/ screen = "welcome" /\ l[2] \in {"keys", "recover"}
      \/ screen = "ready" /\ l[2] = "register"
      \/ screen \in {"safety", "offer"} /\ l[2] = "app"
  BY <1>1 DEF Links
<1>3. StoreInv'
  BY DEF IInv, Follow, StoreInv, EnteredIsAccepted, SavedFirst
<1>4. Finishing => progress'.id \in srv.accounts
  BY DEF IInv, ScreenInv, Follow
<1>5. l[2] = "app" \/ \A j \in jobs : j.kind # "keygen"
  BY <1>2 DEF IInv, ScreenInv, Generating
<1>6. \/ l[2] \in {"recovery", "safety", "offer", "app"}
      \/ \A j \in jobs : ~(j.kind = "finish" /\ j.at = "load")
  BY <1>2 DEF IInv, ScreenInv, Finishing
<1>7. UNCHANGED <<scene, srv, rows, bucket, collected, approved, drawn, saved, progress, auth,
    budget>>
  BY DEF Follow
<1>8. /\ progress' \in [step : Stages, id : Ids \cup {None}] /\ budget' \in 0..MaxEvents
      /\ auth' \in [token : Ids \cup {None}, user : Ids \cup {None}]
  BY <1>7 DEF IInv, Shape
<1>9. l[2] # "recovery"
  BY <1>2
<1> DEFINE s == l[2]
<1> HIDE DEF s
<1> QED
  BY <1>1, <1>3, <1>4, <1>5, <1>6, <1>7, <1>8, <1>9, Shown DEF s

\* Back, or another try.
LEMMA GoBackStep == IInv /\ GoBack => IInv'
<1> SUFFICES ASSUME IInv, GoBack PROVE IInv'
  OBVIOUS
<1> USE DEF device, rendezvous, history
<1>1. PICK s \in {"keys", Landing(progress)} :
        /\ Show(s, jobs)
        /\ \/ screen = "failed" /\ s = "keys"
           \/ screen = "recover" /\ s = Landing(progress)
  <2>1. CASE screen = "failed" /\ Show("keys", jobs)
    BY <2>1
  <2>2. CASE screen = "recover" /\ Show(Landing(progress), jobs)
    BY <2>2
  <2> QED
    BY <2>1, <2>2 DEF GoBack
<1>2. UNCHANGED <<scene, srv, rows, bucket, collected, approved, drawn, saved, progress, auth>>
  BY DEF GoBack
<1>3. StoreInv'
  BY <1>2 DEF IInv, StoreInv, EnteredIsAccepted, SavedFirst
<1>4. s = "recovery" => progress'.id \in srv.accounts
  <2>1. Landing(progress) = "recovery" => progress.step = "registered"
    BY DEF IInv, Shape, Landing, Stages
  <2> QED
    BY <1>1, <1>2, <2>1 DEF IInv, StoreInv
<1>5. ~Finishing /\ \A j \in jobs : j.kind # "keygen"
  BY <1>1 DEF IInv, ScreenInv, Generating
<1>6. \A j \in jobs : ~(j.kind = "finish" /\ j.at = "load")
  BY <1>5 DEF Finishing
<1>7. budget' \in 0..MaxEvents
  BY BoundsAssumption DEF GoBack, Event, IInv, Shape
<1>8. /\ progress' \in [step : Stages, id : Ids \cup {None}]
      /\ auth' \in [token : Ids \cup {None}, user : Ids \cup {None}]
  BY <1>2 DEF IInv, Shape
<1> QED
  BY <1>1, <1>2, <1>3, <1>4, <1>5, <1>6, <1>7, <1>8, Shown

\* The page is loaded again.
LEMMA ReloadStep == IInv /\ Reload => IInv'
<1> SUFFICES ASSUME IInv, Reload PROVE IInv'
  OBVIOUS
<1> USE DEF rendezvous, history
<1> DEFINE s == IF screen \in {"recover", "offer"} THEN "recover" ELSE Landing(progress)
<1>1. Show(s, {})
  BY DEF Reload
<1>2. UNCHANGED <<scene, srv, rows, bucket, collected, approved, drawn, saved, progress>>
  BY DEF Reload
<1>3. s = "recovery" => progress'.id \in srv.accounts
  <2>1. Landing(progress) = "recovery" => progress.step = "registered"
    BY DEF IInv, Shape, Landing, Stages
  <2> QED
    BY <1>2, <2>1 DEF IInv, StoreInv
<1> HIDE DEF s
<1>4. /\ auth' \in [token : Ids \cup {None}, user : Ids \cup {None}]
      /\ auth'.user # None => auth'.user \in srv.accounts /\ rows[auth'.user] # 0
  <2>1. CASE progress.step = "done" /\ HasBundle
    <3>1. auth' = [token |-> progress.id, user |-> progress.id]
      BY <2>1 DEF Reload
    <3> QED
      BY <2>1, <3>1 DEF HasBundle, IInv, Shape, StoreInv
  <2>2. CASE ~(progress.step = "done" /\ HasBundle)
    <3>1. auth' = [token |-> None, user |-> None]
      BY <2>2 DEF Reload
    <3> QED
      BY <3>1
  <2> QED
    BY <2>1, <2>2
<1>5. StoreInv'
  BY <1>2, <1>4 DEF IInv, StoreInv, EnteredIsAccepted, SavedFirst
<1>6. budget' \in 0..MaxEvents
  BY BoundsAssumption DEF Reload, Event, IInv, Shape
<1>7. progress' \in [step : Stages, id : Ids \cup {None}]
  BY <1>2 DEF IInv, Shape
<1>8. Finishing => progress'.id \in srv.accounts
  BY <1>2 DEF IInv, ScreenInv
<1>9. {} \in SUBSET jobs
  OBVIOUS
<1> QED
  BY <1>1, <1>2, <1>3, <1>4, <1>5, <1>6, <1>7, <1>8, <1>9, Shown

(***************************************************************************)
(* A job goes on, or ends.                                                 *)
(***************************************************************************)
\* Keys are generated, unless an identity is stored already.
LEMMA LoadOrGenerateStep == ASSUME IInv, NEW j \in jobs, LoadOrGenerate(j) PROVE IInv'
<1> USE DEF device, rendezvous
<1> j \in Jobs
  BY DEF IInv, Shape
<1>1. /\ j.kind = "keygen" /\ j.at = "load" /\ session' = session
      /\ UNCHANGED <<scene, srv, rows, progress, auth, bucket, collected, approved, saved, budget>>
  BY DEF LoadOrGenerate
<1>2. StoreInv'
  BY <1>1 DEF IInv, StoreInv, EnteredIsAccepted, SavedFirst
<1>3. CASE HasBundle
  <2>1. /\ jobs' = jobs \ {j} /\ drawn' = drawn
        /\ screen' = IF j.shown THEN "ready" ELSE screen
    BY <1>3 DEF LoadOrGenerate, Ends
  <2>2. Shape'
    BY <1>1, <2>1 DEF IInv, Shape
  <2>3. JobInv'
    BY <1>1, <2>1 DEF IInv, JobInv, Placed, Meant, Keyed, Fixed
  <2>4. ScreenInv'
    BY <1>1, <2>1, ScreenEnded DEF IInv, ScreenInv
  <2>5. OneInv' /\ ShareInv'
    BY <1>1, <2>1 DEF IInv, OneInv, Fixed, ShareInv, TwoApproved
  <2> QED
    BY <1>2, <2>2, <2>3, <2>4, <2>5 DEF IInv
<1>4. CASE ~HasBundle
  <2>1. PICK i \in Generated :
          /\ jobs' = (jobs \ {j}) \cup {[j EXCEPT !.at = "row", !.id = i, !.gen = drawn.gens + 1]}
          /\ drawn' = [drawn EXCEPT !.ids = @ \cup {i}, !.gens = @ + 1]
          /\ screen' = screen
    BY <1>4 DEF LoadOrGenerate, Turn
  <2> PICK k : k = [j EXCEPT !.at = "row", !.id = i, !.gen = drawn.gens + 1]
    OBVIOUS
  <2>2. /\ drawn.gens \in Nat /\ drawn'.gens = drawn.gens + 1
        /\ drawn' \in [ids : SUBSET Generated, gens : Nat, codes : 0..MaxSessions]
    <3>1. drawn.ids \cup {i} \in SUBSET Generated /\ drawn.gens + 1 \in Nat
      BY DEF IInv, Shape
    <3> QED
      BY <2>1, <3>1 DEF IInv, Shape
  <2>3. /\ k \in Jobs /\ k.kind = "keygen" /\ k.at = "row" /\ k.id = i /\ k.gen = drawn'.gens
        /\ k.shown = j.shown /\ jobs' = (jobs \ {j}) \cup {k}
    BY <1>1, <2>1, <2>2 DEF Jobs, Waits, Generated, Ids
  <2>4. Shape'
    BY <1>1, <2>1, <2>2, <2>3 DEF IInv, Shape
  <2>5. JobInv'
    <3>1. Grows
      BY <1>1, <2>2 DEF IInv, Shape, Grows
    <3>2. Sound(k)'
      <4>1. k.gen # 0 /\ k.gen <= drawn'.gens
        BY <2>2, <2>3
      <4> QED
        BY <2>3, <4>1 DEF Sound, Placed, Meant, Keyed, Fixed, Recoveries, Generated, None
    <3> QED
      BY <2>3, <2>4, <3>1, <3>2, JobsKept DEF IInv, Same
  <2>6. ScreenInv'
    <3>1. ~Finishing
      BY <1>1 DEF IInv, ScreenInv
    <3>2. k.kind = j.kind /\ k.at # "load"
      BY <1>1, <2>3
    <3> QED
      BY <1>1, <2>1, <2>3, <3>1, <3>2, ScreenTurned DEF IInv
  <2>7. OneInv'
    <3>1. progress.id = None
      BY <1>4 DEF IInv, StoreInv, HasBundle
    <3> QED
      BY <1>1, <2>3, <3>1 DEF IInv, OneInv, Fixed, Recoveries
  <2>8. ShareInv'
    BY <1>1, <2>3 DEF IInv, ShareInv, TwoApproved
  <2> QED
    BY <1>2, <2>4, <2>5, <2>6, <2>7, <2>8 DEF IInv
<1> QED
  BY <1>3, <1>4

\* An identity and its prekeys are stored.
LEMMA StoredStep ==
  ASSUME IInv, NEW j \in jobs, WriteRow(j) \/ SealRow(j)
  PROVE  IInv'
<1> USE DEF ui, rendezvous
<1> j \in Jobs
  BY DEF IInv, Shape
<1> Sound(j)
  BY DEF IInv, JobInv, Sound
<1>1. /\ j.at \in {"row", "seal"}
      /\ rows' = [rows EXCEPT ![j.id] = j.gen] /\ saved' = saved \cup {j.gen}
      /\ UNCHANGED <<scene, srv, progress, auth, screen, session, bucket, collected, approved,
             drawn, budget>>
  BY DEF WriteRow, SealRow, writeBundle
<1>2. PICK a \in {"mark", "done"} :
        /\ jobs' = (jobs \ {j}) \cup {[j EXCEPT !.at = a]}
        /\ a = "mark" <=> j.at = "row"
  BY DEF WriteRow, SealRow, Moves, Turn
<1>3. PICK k : k = [j EXCEPT !.at = a]
  OBVIOUS
<1>4. k \in Jobs /\ Same(k, j) /\ k.at = a /\ k.shown = j.shown /\ jobs' = (jobs \ {j}) \cup {k}
  <2>1. a \in Waits
    BY DEF Waits
  <2>2. k \in Jobs /\ Same(k, j) /\ k.at = a /\ k.shown = j.shown
    BY ONLY <1>3, <2>1, j \in Jobs, Moved
  <2> QED
    BY <1>2, <1>3, <2>2
<1>5. j.id \in Generated /\ j.gen \in Nat \ {0}
  BY <1>1 DEF Sound, Meant, Keyed, Jobs, Ids
<1>6. rows \in [Ids -> Nat] /\ saved \subseteq Nat /\ rows' \in [Ids -> Nat] /\ rows'[j.id] = j.gen
      /\ \A i \in Ids : i # j.id => rows'[i] = rows[i]
  BY <1>1, <1>5 DEF IInv, Shape, Ids
<1>7. Shape'
  BY <1>1, <1>4, <1>5, <1>6 DEF IInv, Shape
<1>8. JobInv'
  <2>1. Grows
    BY <1>1, <1>5, <1>6 DEF IInv, Shape, Grows
  <2>2. Placed(k)'
    <3>1. CASE j.at = "row" /\ k.at = "mark"
      BY <1>4, <3>1 DEF Placed, Sound, Same, Provisioning
    <3>2. CASE j.at = "seal" /\ k.at = "done"
      BY <1>4, <3>2 DEF Placed, Sound, Same, Provisioning
    <3> QED
      BY <1>1, <1>2, <1>4, <3>1, <3>2
  <2>3. Meant(k)'
    BY <1>1, <1>2, <1>4, <1>5 DEF Meant, Placed, Sound, Same, Fixed, Provisioning, Generated, None
  <2>4. Keyed(k)'
    BY <1>1, <1>2, <1>4, <1>5, <1>6 DEF Keyed, Sound, Same
  <2> QED
    BY <1>4, <1>7, <2>1, <2>2, <2>3, <2>4, JobsKept DEF IInv, Same, Sound
<1>9. StoreInv'
  <2>1. rows'["typo"] = 0
    BY <1>5, <1>6 DEF IInv, StoreInv, Generated, Ids
  <2>2. \A i \in Ids : rows'[i] # 0 => rows'[i] \in saved'
    BY <1>1, <1>6 DEF IInv, StoreInv
  <2>3. \A i \in Ids : rows[i] # 0 => rows'[i] # 0
    BY <1>5, <1>6
  <2>4. progress.id # None => rows'[progress.id] # 0
    BY <2>3 DEF IInv, StoreInv, Shape
  <2>5. EnteredIsAccepted'
    BY <1>1, <2>3 DEF IInv, Shape, StoreInv, EnteredIsAccepted
  <2>6. SavedFirst'
    BY <1>1 DEF IInv, StoreInv, SavedFirst
  <2> QED
    BY <1>1, <2>1, <2>2, <2>4, <2>5, <2>6 DEF IInv, StoreInv
<1>10. ScreenInv'
  <2>1. k.kind = j.kind /\ k.at # "load" /\ (Finishing => progress'.id \in srv'.accounts)
    BY <1>1, <1>4 DEF IInv, ScreenInv, Same
  <2> QED
    BY <1>1, <1>4, <2>1, ScreenTurned DEF IInv
<1>11. OneInv'
  <2>1. Fixed(k) => Fixed(j)
    BY <1>1, <1>4 DEF Fixed, Same, Sound, Placed, Provisioning
  <2>2. k.kind = "keygen" => j.kind = "keygen" /\ j.at # "load"
    BY <1>1, <1>4 DEF Same
  <2> QED
    BY <1>1, <1>4, <2>1, <2>2 DEF IInv, OneInv, Fixed, Same
<1>12. ShareInv'
  BY <1>1, <1>4 DEF IInv, ShareInv, TwoApproved, Same
<1> QED
  BY <1>7, <1>8, <1>9, <1>10, <1>11, <1>12 DEF IInv

\* The progress says that there are keys: new ones, or those of a recovery.
LEMMA MarkKeysStep == ASSUME IInv, NEW j \in jobs, MarkKeys(j) PROVE IInv'
<1> USE DEF rendezvous, history
<1> j \in Jobs
  BY DEF IInv, Shape
<1> Sound(j)
  BY DEF IInv, JobInv, Sound
<1>1. /\ j.at = "mark" /\ progress' = [step |-> "keys", id |-> j.id] /\ session' = session
      /\ UNCHANGED <<scene, srv, rows, bucket, collected, approved, drawn, saved, budget>>
  BY DEF MarkKeys, saveProgress
<1>2. j.id \in Generated /\ rows[j.id] # 0 /\ j.gen \in saved /\ j.gen # 0
  BY <1>1 DEF Sound, Meant, Keyed, Jobs, Ids
<1>3. progress' \in [step : Stages,
    id : Ids \cup {None}] /\ progress'.id = j.id /\ progress'.step = "keys"
  BY <1>1, <1>2 DEF Stages, Ids
<1>4. j.id # None /\ j.id # "typo"
  BY <1>2 DEF Generated, None
<1>5. CASE j.kind = "keygen"
  <2>1. jobs' = jobs \ {j} /\ auth' = auth /\ screen' = IF j.shown THEN "ready" ELSE screen
    BY <1>5 DEF MarkKeys, Ends
  <2>2. Shape'
    BY <1>1, <1>3, <2>1 DEF IInv, Shape
  <2>3. JobInv'
    <3>1. Grows
      BY <1>1 DEF IInv, Shape, Grows
    <3> QED
      BY <2>1, <2>2, <3>1, JobsKept DEF IInv, Same
  <2>4. StoreInv'
    BY <1>1, <1>2, <1>3, <1>4, <2>1 DEF IInv, StoreInv, EnteredIsAccepted, SavedFirst
  <2>5. ScreenInv'
    <3>1. ~Finishing
      BY <1>5 DEF IInv, ScreenInv
    <3> QED
      BY <1>1, <1>5, <2>1, <3>1, ScreenEnded DEF IInv
  <2>6. OneInv'
    <3> SUFFICES ASSUME ~scene.old
                 PROVE  /\ srv.accounts = {}
                        /\ \A x \in jobs : ~Fixed(x)
                        /\ \A x \in jobs \ {j} : x.kind # "keygen"
      BY <1>1, <2>1 DEF OneInv, Fixed
    <3>1. progress.id = None
      BY <1>1, <1>5 DEF IInv, OneInv
    <3>2. srv.accounts = {}
      BY <3>1 DEF IInv, OneInv, Shape, Servers, Ids, Generated, None
    <3>3. \A x \in jobs : Fixed(x) => x.id # None
      BY DEF IInv, JobInv, Meant, Fixed, Provisioning
    <3> QED
      BY <1>5, <3>1, <3>2, <3>3 DEF IInv, OneInv, ScreenInv
  <2>7. ShareInv'
    BY <1>1, <2>1 DEF IInv, ShareInv, TwoApproved
  <2> QED
    BY <2>2, <2>3, <2>4, <2>5, <2>6, <2>7 DEF IInv
<1>6. CASE j.kind # "keygen"
  <2>1. /\ jobs' = (jobs \ {j}) \cup {[j EXCEPT !.at = "spk"]} /\ screen' = screen
        /\ auth' = [auth EXCEPT !.token = j.id]
    BY <1>6 DEF MarkKeys, Moves, Turn
  <2>2. PICK k : k = [j EXCEPT !.at = "spk"]
    OBVIOUS
  <2>3. k \in Jobs /\ Same(k,
      j) /\ k.at = "spk" /\ k.shown = j.shown /\ jobs' = (jobs \ {j}) \cup {k}
    BY <2>1, <2>2, Moved DEF Waits
  <2>4. j.kind \in Recoveries /\ Fixed(j) /\ j.id \in srv.accounts
    BY <1>1, <1>6 DEF Sound, Placed, Meant, Fixed, Recoveries, Provisioning, Jobs, Kinds
  <2>5. auth' \in [token : Ids \cup {None}, user : Ids \cup {None}] /\ auth'.user = auth.user
    BY <1>2, <2>1 DEF IInv, Shape, Ids
  <2>6. Shape'
    BY <1>1, <1>3, <2>3, <2>5 DEF IInv, Shape
  <2>7. JobInv'
    <3>1. Grows
      BY <1>1 DEF IInv, Shape, Grows
    <3>2. Sound(k)'
      BY <1>1, <1>2, <1>4, <2>3, <2>4 DEF Sound, Placed, Meant, Keyed, Same, Fixed, Recoveries,
      Provisioning
    <3> QED
      BY <2>3, <2>6, <3>1, <3>2, JobsKept DEF IInv, Same
  <2>8. StoreInv'
    BY <1>1, <1>2, <1>3, <1>4, <2>5 DEF IInv, StoreInv, EnteredIsAccepted, SavedFirst
  <2>9. ScreenInv'
    <3>1. k.kind = j.kind /\ k.at # "load" /\ progress'.id \in srv'.accounts
      BY <1>1, <1>3, <2>3, <2>4 DEF Same
    <3> QED
      BY <1>1, <2>1, <2>3, <3>1, ScreenTurned DEF IInv
  <2>10. OneInv'
    <3>1. ~scene.old => progress'.id = progress.id /\ k.id = progress.id
      BY <1>3, <2>3, <2>4 DEF IInv, OneInv, Same
    <3>2. k.kind # "keygen"
      BY <1>6, <2>3 DEF Same
    <3> QED
      BY <1>1, <2>3, <3>1, <3>2 DEF IInv, OneInv, Fixed
  <2>11. ShareInv'
    BY <1>1, <2>3 DEF IInv, ShareInv, TwoApproved, Same
  <2> QED
    BY <2>6, <2>7, <2>8, <2>9, <2>10, <2>11 DEF IInv
<1> QED
  BY <1>5, <1>6

\* A registration, or the end of one, loads the identity that is stored.
LEMMA LoadBundleStep == ASSUME IInv, NEW j \in jobs, LoadBundle(j) PROVE IInv'
<1> USE DEF device, ui, rendezvous, history
<1> j \in Jobs
  BY DEF IInv, Shape
<1>1. /\ j.kind \in {"register", "finish"} /\ j.at = "load" /\ HasBundle
      /\ UNCHANGED <<scene, srv, rows, progress, auth, screen, session, bucket, collected,
             approved, drawn, saved, budget>>
  BY DEF LoadBundle
<1>2. PICK a \in {"post", "seal", "auth"} :
        /\ jobs' = (jobs \ {j}) \cup {[j EXCEPT !.at = a, !.id = progress.id,
               !.gen = rows[progress.id]]}
        /\ j.kind = "register" <=> a = "post"
  BY DEF LoadBundle, Turn
<1>3. PICK k : k = [j EXCEPT !.at = a, !.id = progress.id, !.gen = rows[progress.id]]
  OBVIOUS
<1>4. progress.id \in Generated /\ rows[progress.id] \in Nat \ {0} /\ rows[progress.id] \in saved
  BY <1>1 DEF HasBundle, IInv, Shape, StoreInv, Ids
<1>5. /\ k \in Jobs /\ k.kind = j.kind /\ k.at = a /\ k.id = progress.id /\ k.gen = rows[progress.id]
      /\ k.shown = j.shown /\ jobs' = (jobs \ {j}) \cup {k}
  BY <1>2, <1>3, <1>4 DEF Jobs, Waits, Ids
<1>6. Shape'
  BY <1>1, <1>5 DEF IInv, Shape
<1>7. Finishing => progress.id \in srv.accounts
  BY DEF IInv, ScreenInv
<1>8. JobInv'
  <2>1. Grows
    BY <1>1 DEF IInv, Shape, Grows
  <2>2. j.kind = "finish" => k.id \in srv.accounts
    BY <1>1, <1>5, <1>7 DEF Finishing
  <2>3. Sound(k)'
    BY <1>1, <1>2, <1>4, <1>5, <2>2
       DEF Sound, Placed, Meant, Keyed, Fixed, Recoveries, Generated, None
  <2> QED
    BY <1>5, <1>6, <2>1, <2>3, JobsKept DEF IInv, Same
<1>9. StoreInv'
  BY <1>1 DEF IInv, StoreInv, EnteredIsAccepted, SavedFirst
<1>10. ScreenInv'
  <2>1. k.at # "load" /\ (Finishing => progress'.id \in srv'.accounts)
    BY <1>1, <1>5, <1>7
  <2> QED
    BY <1>1, <1>5, <2>1, ScreenTurned DEF IInv
<1>11. OneInv'
  BY <1>1, <1>5 DEF IInv, OneInv, Fixed
<1>12. ShareInv'
  BY <1>1, <1>5 DEF IInv, ShareInv, TwoApproved
<1> QED
  BY <1>6, <1>8, <1>9, <1>10, <1>11, <1>12 DEF IInv

\* What a request of onboarding or recovery does to the server.
LEMMA PostedEffect ==
  ASSUME IInv, NEW j \in jobs, j.at \in DOMAIN AfterPost, srv' = Posted(j), saved' = saved
  PROVE  /\ srv' \in Servers
         /\ srv.accounts \subseteq srv'.accounts /\ srv'.accounts \subseteq srv.accounts \cup {j.id}
         /\ j.at # "post" => srv'.accounts = srv.accounts
         /\ j.id # "typo" /\ j.id \in Ids
         /\ srv'.record = srv.record
         /\ SavedFirst'
<1> j \in Jobs
  BY DEF IInv, Shape
<1> Sound(j)
  BY DEF IInv, JobInv, Sound
<1>1. j.at \in {"post", "spk", "opks"}
  BY DEF AfterPost
<1>2. j.id \in Ids /\ j.id # "typo" /\ j.gen \in saved /\ j.gen \in Nat
  BY <1>1 DEF Sound, Meant, Keyed, Jobs
<1>3. /\ srv \in Servers /\ srv.spk \in [Ids -> Nat] /\ srv.opks \in [Ids -> SUBSET Nat]
      /\ srv.accounts \in SUBSET Ids
  BY DEF IInv, Shape, Servers
<1>4. /\ [srv.spk EXCEPT ![j.id] = j.gen] \in [Ids -> Nat]
      /\ [srv.opks EXCEPT ![j.id] = {j.gen}] \in [Ids -> SUBSET Nat]
      /\ srv.accounts \cup {j.id} \in SUBSET Ids
  BY <1>2, <1>3
<1>5. /\ srv' \in Servers
      /\ srv'.record = srv.record
      /\ srv'.accounts \in {srv.accounts, srv.accounts \cup {j.id}}
      /\ j.at # "post" => srv'.accounts = srv.accounts
      /\ j.at \in {"spk", "opks"} \/ j.id \in srv'.accounts
      /\ srv'.spk \in {srv.spk, [srv.spk EXCEPT ![j.id] = j.gen]}
      /\ srv'.opks \in {srv.opks, [srv.opks EXCEPT ![j.id] = {j.gen}]}
      /\ j.at = "post" /\ srv'.accounts # srv.accounts =>
            /\ srv'.spk = [srv.spk EXCEPT ![j.id] = j.gen]
            /\ srv'.opks = [srv.opks EXCEPT ![j.id] = {j.gen}]
  <2>1. CASE j.at = "post" /\ j.id \in srv.accounts
    <3>1. srv' = srv
      BY <2>1 DEF Posted, Register
    <3> QED
      BY <1>3, <2>1, <3>1
  <2>2. CASE j.at = "post" /\ j.id \notin srv.accounts
    <3>1. srv' = [srv EXCEPT !.accounts = srv.accounts \cup {j.id},
                             !.spk = [srv.spk EXCEPT ![j.id] = j.gen],
                             !.opks = [srv.opks EXCEPT ![j.id] = {j.gen}]]
      BY <1>3, <2>2 DEF Posted, Register, Servers
    <3> DEFINE F == [srv.spk EXCEPT ![j.id] = j.gen]
               O == [srv.opks EXCEPT ![j.id] = {j.gen}]
    <3> HIDE DEF F, O
    <3>2. srv' = [srv EXCEPT !.accounts = srv.accounts \cup {j.id}, !.spk = F, !.opks = O]
      BY <3>1 DEF F, O
    <3>3. F \in [Ids -> Nat] /\ O \in [Ids -> SUBSET Nat]
      BY <1>4 DEF F, O
    <3>4. srv' \in Servers /\ srv'.record = srv.record /\ srv'.accounts = srv.accounts \cup {j.id}
          /\ srv'.spk = F /\ srv'.opks = O
      BY <1>3, <1>4, <3>2, <3>3 DEF Servers
    <3> QED
      BY <2>2, <3>4 DEF F, O
  <2>3. CASE j.at = "spk"
    <3> DEFINE F == [srv.spk EXCEPT ![j.id] = j.gen]
    <3>1. srv' = [srv EXCEPT !.spk = F]
      BY <1>3, <2>3 DEF Posted, Rotate, Servers
    <3>2. F \in [Ids -> Nat]
      BY <1>4
    <3> HIDE DEF F
    <3>3. srv' \in Servers /\ srv'.record = srv.record /\ srv'.accounts = srv.accounts
          /\ srv'.spk = F /\ srv'.opks = srv.opks
      BY <1>3, <3>1, <3>2 DEF Servers
    <3> QED
      BY <2>3, <3>3 DEF F
  <2>4. CASE j.at = "opks"
    <3> DEFINE O == [srv.opks EXCEPT ![j.id] = {j.gen}]
    <3>1. srv' = [srv EXCEPT !.opks = O]
      BY <1>3, <2>4 DEF Posted, Replenish, Servers
    <3>2. O \in [Ids -> SUBSET Nat]
      BY <1>4
    <3> HIDE DEF O
    <3>3. srv' \in Servers /\ srv'.record = srv.record /\ srv'.accounts = srv.accounts
          /\ srv'.spk = srv.spk /\ srv'.opks = O
      BY <1>3, <3>1, <3>2 DEF Servers
    <3> QED
      BY <2>4, <3>3 DEF O
  <2> QED
    BY <1>1, <2>1, <2>2, <2>3, <2>4
<1>6. SavedFirst'
  <2> SUFFICES ASSUME NEW i \in srv'.accounts
               PROVE  srv'.spk[i] \in saved /\ srv'.opks[i] \subseteq saved
    BY DEF SavedFirst
  <2>1. i \in Ids
    BY <1>2, <1>3, <1>5
  <2>2. CASE i \in srv.accounts
    <3>1. srv.spk[i] \in saved /\ srv.opks[i] \subseteq saved
      BY <2>2 DEF IInv, StoreInv, SavedFirst
    <3>2. srv'.spk[i] \in {srv.spk[i], j.gen} /\ srv'.opks[i] \in {srv.opks[i], {j.gen}}
      BY <1>2, <1>3, <1>5, <2>1
    <3> QED
      BY <1>2, <3>1, <3>2
  <2>3. CASE i \notin srv.accounts
    <3>1. i = j.id /\ srv'.accounts # srv.accounts /\ j.at = "post"
      BY <1>1, <1>5, <2>3
    <3>2. srv'.spk[i] = j.gen /\ srv'.opks[i] = {j.gen}
      BY <1>2, <1>3, <1>5, <3>1
    <3> QED
      BY <1>2, <3>2
  <2> QED
    BY <2>2, <2>3
<1> QED
  BY <1>2, <1>5, <1>6

\* So the rest of what is stored is as sound as before.
LEMMA PostedStore ==
  ASSUME IInv, NEW j \in jobs, j.at \in DOMAIN AfterPost, srv' = Posted(j), UNCHANGED <<scene,
      rows, progress, auth, saved>>
  PROVE  /\ StoreInv'
         /\ ~scene.old => srv'.accounts \subseteq {progress.id}
<1>1. /\ srv.accounts \subseteq srv'.accounts /\ srv'.accounts \subseteq srv.accounts \cup {j.id}
      /\ j.at # "post" => srv'.accounts = srv.accounts
      /\ j.id # "typo" /\ srv'.record = srv.record /\ SavedFirst'
  BY PostedEffect
<1>2. StoreInv'
  BY <1>1 DEF IInv, StoreInv, EnteredIsAccepted
<1>3. ~scene.old => srv'.accounts \subseteq {progress.id}
  <2>1. j.at = "post" => Fixed(j)
    BY DEF IInv, Shape, Jobs, Kinds, JobInv, Placed, Provisioning, Fixed
  <2> QED
    BY <1>1, <2>1 DEF IInv, OneInv
<1> QED
  BY <1>2, <1>3

\* A request is answered.
LEMMA PostStep == ASSUME IInv, NEW j \in jobs, Post(j) PROVE IInv'
<1> USE DEF device, ui, rendezvous, history
<1> j \in Jobs
  BY DEF IInv, Shape
<1> Sound(j)
  BY DEF IInv, JobInv, Sound
<1>1. /\ j.at \in DOMAIN AfterPost /\ srv' = Posted(j)
      /\ jobs' = (jobs \ {j}) \cup {[j EXCEPT !.at = AfterPost[j.at]]}
      /\ UNCHANGED <<scene, rows, progress, auth, screen, session, bucket, collected, approved,
             drawn, saved, budget>>
  BY DEF Post, Moves, Turn
<1>2. PICK a \in {"auth", "opks", "seal"} :
        /\ a = AfterPost[j.at]
        /\ \/ j.at = "post" /\ a = "auth"
           \/ j.at = "spk" /\ a = "opks"
           \/ j.at = "opks" /\ a = "seal"
  BY <1>1 DEF AfterPost
<1>3. PICK k : k = [j EXCEPT !.at = a]
  OBVIOUS
<1>4. k \in Jobs /\ Same(k, j) /\ k.at = a /\ k.shown = j.shown /\ jobs' = (jobs \ {j}) \cup {k}
  <2>1. a \in Waits
    BY DEF Waits
  <2>2. k \in Jobs /\ Same(k, j) /\ k.at = a /\ k.shown = j.shown
    BY ONLY <1>3, <2>1, j \in Jobs, Moved
  <2> QED
    BY <1>1, <1>2, <1>3, <2>2
<1>5. srv' \in Servers /\ srv.accounts \subseteq srv'.accounts /\ j.id # "typo"
  BY <1>1, PostedEffect
<1>6. Shape'
  BY <1>1, <1>4, <1>5 DEF IInv, Shape
<1>7. JobInv'
  <2>1. Grows
    BY <1>1, <1>5 DEF IInv, Shape, Grows
  <2>2. Placed(k)'
    BY <1>2, <1>4 DEF Placed, Sound, Same, Provisioning
  <2>3. Meant(k)'
    BY <1>2, <1>4, <1>5 DEF Meant, Placed, Sound, Same, Fixed, Provisioning, Recoveries
  <2>4. Keyed(k)'
    BY <1>1, <1>2, <1>4 DEF Keyed, Placed, Sound, Same
  <2> QED
    BY <1>4, <1>6, <2>1, <2>2, <2>3, <2>4, JobsKept DEF IInv, Same, Sound
<1>8. StoreInv' /\ (~scene.old => srv'.accounts \subseteq {progress.id})
  BY <1>1, PostedStore
<1>9. ScreenInv'
  <2>1. k.kind = j.kind /\ k.at # "load" /\ (Finishing => progress'.id \in srv'.accounts)
    BY <1>1, <1>4, <1>5 DEF IInv, ScreenInv, Same
  <2> QED
    BY <1>1, <1>4, <2>1, ScreenTurned DEF IInv
<1>10. OneInv'
  <2>1. Fixed(k) => Fixed(j)
    BY <1>2, <1>4 DEF Fixed, Same, Provisioning
  <2>2. k.kind # "keygen"
    BY <1>2, <1>4 DEF Same, Sound, Placed
  <2> QED
    BY <1>1, <1>4, <1>8, <2>1, <2>2 DEF IInv, OneInv, Fixed, Same
<1>11. ShareInv'
  BY <1>1, <1>2, <1>4 DEF IInv, ShareInv, TwoApproved, Same
<1> QED
  BY <1>6, <1>7, <1>8, <1>9, <1>10, <1>11 DEF IInv

\* The server accepts the signature of an account it knows.
LEMMA AuthenticateStep == ASSUME IInv, NEW j \in jobs, Authenticate(j) PROVE IInv'
<1> USE DEF ui, rendezvous
<1> j \in Jobs
  BY DEF IInv, Shape
<1> Sound(j)
  BY DEF IInv, JobInv, Sound
<1>1. /\ j.at = "auth" /\ j.id \in srv.accounts
      /\ UNCHANGED <<scene, srv, rows, progress, screen, session, bucket, collected, approved,
             saved, budget>>
  BY DEF Authenticate
<1>2. PICK k : k = AfterAuth(j)
  OBVIOUS
<1>3. jobs' = (jobs \ {j}) \cup {k}
  BY <1>2 DEF Authenticate, Turn
<1>4. /\ drawn \in [ids : SUBSET Generated, gens : Nat, codes : 0..MaxSessions]
      /\ drawn.gens \in Nat /\ drawn.gens + 1 \in Nat
  BY DEF IInv, Shape
<1>5. /\ drawn' \in [ids : SUBSET Generated, gens : Nat, codes : 0..MaxSessions]
      /\ drawn'.gens = IF j.kind \in Recoveries THEN drawn.gens + 1 ELSE drawn.gens
  <2>1. CASE j.kind \in Recoveries
    BY <1>4, <2>1 DEF Authenticate
  <2>2. CASE j.kind \notin Recoveries
    BY <1>4, <2>2 DEF Authenticate
  <2> QED
    BY <2>1, <2>2
<1>6. /\ k \in Jobs /\ k.kind = j.kind /\ k.id = j.id /\ k.tag = j.tag /\ k.shown = j.shown
      /\ \/ k.kind = "register" /\ k.at = "registered"
         \/ k.kind = "finish" /\ k.at = "seal" /\ k.gen = j.gen
         \/ k.kind \in Recoveries /\ k.at = "row" /\ k.gen = drawn'.gens /\ k.gen # 0
  <2>1. CASE j.kind = "register"
    <3>1. k = [j EXCEPT !.at = "registered"]
      BY <1>2, <2>1 DEF AfterAuth
    <3> QED
      BY <2>1, <3>1 DEF Jobs, Waits
  <2>2. CASE j.kind = "finish"
    <3>1. k = [j EXCEPT !.at = "seal"]
      BY <1>2, <2>2 DEF AfterAuth
    <3> QED
      BY <2>2, <3>1 DEF Jobs, Waits
  <2>3. CASE j.kind \in {"seed", "contacts"}
    <3>1. k = [j EXCEPT !.at = "row", !.gen = drawn.gens + 1]
      BY <1>2, <2>3 DEF AfterAuth
    <3>2. k \in Jobs /\ k.kind = j.kind /\ k.at = "row" /\ k.id = j.id /\ k.gen = drawn.gens + 1
          /\ k.tag = j.tag /\ k.shown = j.shown
      <4>1. "row" \in Waits
        BY DEF Waits
      <4>2. PICK g \in Nat : g = drawn.gens + 1
        BY <1>4
      <4>3. k = [j EXCEPT !.at = "row", !.gen = g]
        BY <3>1, <4>2
      <4>4. k \in Jobs /\ k.kind = j.kind /\ k.at = "row" /\ k.id = j.id /\ k.gen = g
            /\ k.tag = j.tag /\ k.shown = j.shown
        BY ONLY <4>1, <4>3, g \in Nat, j \in Jobs DEF Jobs
      <4> QED
        BY <4>2, <4>4
    <3>3. drawn'.gens = drawn.gens + 1 /\ drawn.gens + 1 # 0
      BY <1>4, <1>5, <2>3 DEF Recoveries
    <3> QED
      BY <2>3, <3>2, <3>3 DEF Recoveries
  <2>4. j.kind \in {"register", "finish", "seed", "contacts"}
    BY <1>1 DEF Sound, Placed, Provisioning, Jobs, Kinds
  <2> QED
    BY <2>1, <2>2, <2>3, <2>4
<1>7. /\ auth' \in [token : Ids \cup {None}, user : Ids \cup {None}]
      /\ auth'.user = auth.user
  <2>1. auth \in [token : Ids \cup {None}, user : Ids \cup {None}] /\ j.id \in Ids \cup {None}
    BY DEF IInv, Shape, Jobs
  <2>2. auth' = auth \/ auth' = [auth EXCEPT !.token = j.id]
    BY DEF Authenticate
  <2> QED
    BY <2>1, <2>2
<1>8. Shape'
  BY <1>1, <1>3, <1>5, <1>6, <1>7 DEF IInv, Shape
<1>9. JobInv'
  <2>1. Grows
    BY <1>1, <1>4, <1>5 DEF IInv, Shape, Grows
  <2>2. k.id # "typo" /\ k.id # None /\ k.id \in srv'.accounts
    BY <1>1, <1>6 DEF IInv, StoreInv, Sound, Meant
  <2>3. Placed(k)'
    BY <1>6 DEF Placed, Recoveries, Provisioning
  <2>4. Meant(k)'
    BY <1>6, <2>2 DEF Sound, Meant, Fixed
  <2>5. Keyed(k)'
    <3>1. j.kind = "finish" => j.gen # 0
      BY <1>1 DEF Sound, Keyed
    <3>2. k.kind = "contacts" => k.tag \in Codes
      BY <1>6 DEF Sound, Keyed
    <3>3. k.at = "row" => k.gen <= drawn'.gens
      BY <1>4, <1>5, <1>6
    <3>4. k.kind = "register" => rows'[k.id] # 0
      BY <1>1, <1>6 DEF Sound, Keyed
    <3> QED
      BY <1>6, <3>1, <3>2, <3>3, <3>4 DEF Keyed, Recoveries
  <2> QED
    BY <1>3, <1>6, <1>8, <2>1, <2>3, <2>4, <2>5, JobsKept DEF IInv, Same, Sound
<1>10. StoreInv'
  BY <1>1, <1>7 DEF IInv, StoreInv, EnteredIsAccepted, SavedFirst
<1>11. ScreenInv'
  <2>1. k.at # "load" /\ (Finishing => progress'.id \in srv'.accounts)
    BY <1>1, <1>6 DEF IInv, ScreenInv
  <2> QED
    BY <1>1, <1>3, <1>6, <2>1, ScreenTurned DEF IInv
<1>12. OneInv'
  <2>1. ~scene.old => k.id = progress.id
    BY <1>1, <1>6 DEF IInv, OneInv
  <2>2. k.kind # "keygen"
    BY <1>6 DEF Recoveries
  <2> QED
    BY <1>1, <1>3, <2>1, <2>2 DEF IInv, OneInv, Fixed
<1>13. ShareInv'
  BY <1>1, <1>3, <1>6 DEF IInv, ShareInv, TwoApproved
<1> QED
  BY <1>8, <1>9, <1>10, <1>11, <1>12, <1>13 DEF IInv

\* The progress says that the account is registered.
LEMMA MarkRegisteredStep == ASSUME IInv, NEW j \in jobs, MarkRegistered(j) PROVE IInv'
<1> USE DEF rendezvous, history
<1> j \in Jobs
  BY DEF IInv, Shape
<1> Sound(j)
  BY DEF IInv, JobInv, Sound
<1>1. /\ j.at = "registered" /\ progress' = [step |-> "registered", id |-> j.id]
      /\ auth' = [auth EXCEPT !.token = j.id] /\ jobs' = jobs \ {j}
      /\ screen' = IF j.shown THEN "recovery" ELSE screen
      /\ UNCHANGED <<scene, srv, rows, session, bucket, collected, approved, drawn, saved, budget>>
  BY DEF MarkRegistered, saveProgress, Ends
<1>2. j.kind = "register" /\ j.id \in srv.accounts /\ j.id \in Ids /\ j.id # "typo" /\ j.id # None
  BY <1>1 DEF Sound, Placed, Meant, Jobs, Kinds, Provisioning
<1>4. /\ progress' \in [step : Stages, id : Ids \cup {None}] /\ progress'.id = j.id
      /\ auth' \in [token : Ids \cup {None}, user : Ids \cup {None}] /\ auth'.user = auth.user
  BY <1>1, <1>2 DEF IInv, Shape, Stages
<1>5. Shape'
  BY <1>1, <1>4 DEF IInv, Shape
<1>6. JobInv'
  <2>1. Grows
    BY <1>1 DEF IInv, Shape, Grows
  <2> QED
    BY <1>1, <1>5, <2>1, JobsKept DEF IInv, Same
<1>7. rows[j.id] # 0
  BY <1>1, <1>2 DEF Sound, Keyed
<1>8. StoreInv'
  BY <1>1, <1>2, <1>4, <1>7 DEF IInv, StoreInv, EnteredIsAccepted, SavedFirst
<1>9. ScreenInv'
  <2>1. progress'.id \in srv'.accounts
    BY <1>1, <1>2, <1>4
  <2> QED
    BY <1>1, <1>2, <2>1, ScreenEnded DEF IInv
<1>10. OneInv'
  <2>1. ~scene.old => progress'.id = progress.id
    BY <1>1, <1>2, <1>4 DEF IInv, OneInv, Fixed
  <2> QED
    BY <1>1, <2>1 DEF IInv, OneInv, Fixed
<1>11. ShareInv'
  BY <1>1 DEF IInv, ShareInv, TwoApproved
<1> QED
  BY <1>5, <1>6, <1>8, <1>9, <1>10, <1>11 DEF IInv

\* The app is entered.
LEMMA EnteredStep == ASSUME IInv, NEW j \in jobs, Entered(j) PROVE IInv'
<1> USE DEF rendezvous, history, ui
<1> j \in Jobs
  BY DEF IInv, Shape
<1> Sound(j)
  BY DEF IInv, JobInv, Sound
<1>1. /\ j.at = "done" /\ progress' = [step |-> "done", id |-> j.id]
      /\ auth' = [auth EXCEPT !.user = j.id]
      /\ UNCHANGED <<scene, srv, rows, bucket, collected, approved, drawn, saved, budget>>
  BY DEF Entered, saveProgress
<1>2. /\ j.kind \in {"finish", "password", "seed", "contacts"} /\ Fixed(j)
      /\ j.id \in srv.accounts /\ j.id \in Ids /\ j.id # "typo" /\ j.id # None /\ rows[j.id] # 0
  BY <1>1 DEF Sound, Placed, Meant, Keyed, Fixed, Jobs, Kinds, Provisioning, Recoveries
<1>3. /\ progress' \in [step : Stages, id : Ids \cup {None}] /\ progress'.id = j.id
      /\ auth' \in [token : Ids \cup {None}, user : Ids \cup {None}] /\ auth'.user = j.id
  BY <1>1, <1>2 DEF IInv, Shape, Stages
<1>4. StoreInv'
  BY <1>1, <1>2, <1>3 DEF IInv, StoreInv, EnteredIsAccepted, SavedFirst
<1>5. /\ ~scene.old => progress'.id = progress.id
      /\ progress'.id \in srv'.accounts
  BY <1>1, <1>2, <1>3 DEF IInv, OneInv
<1>6. PICK offer \in BOOLEAN :
        IF AfterEntry(j, offer) = screen
        THEN Ends(j) /\ UNCHANGED <<screen, session, polling>>
        ELSE Show(AfterEntry(j, offer), jobs \ {j})
  BY DEF Entered
<1>7. CASE AfterEntry(j, offer) = screen
  <2>1. jobs' = jobs \ {j} /\ screen' = screen /\ session' = session
    BY <1>6, <1>7 DEF Ends
  <2>2. Shape'
    BY <1>1, <1>3, <2>1 DEF IInv, Shape
  <2>3. JobInv'
    <3>1. Grows
      BY <1>1 DEF IInv, Shape, Grows
    <3> QED
      BY <2>1, <2>2, <3>1, JobsKept DEF IInv, Same
  <2>4. ScreenInv'
    BY <1>1, <1>5, <2>1, ScreenEnded DEF IInv
  <2>5. OneInv'
    BY <1>1, <1>5, <2>1 DEF IInv, OneInv, Fixed
  <2>6. ShareInv'
    BY <1>1, <2>1 DEF IInv, ShareInv, TwoApproved
  <2> QED
    BY <1>4, <2>2, <2>3, <2>4, <2>5, <2>6 DEF IInv
<1>8. CASE AfterEntry(j, offer) # screen
  <2>1. PICK s : s = AfterEntry(j, offer)
    OBVIOUS
  <2>2. /\ s \in {"safety", "offer", "app"}
        /\ s = "app" \/ j.shown \/ session # 0
    <3>1. CASE j.kind = "finish"
      BY <1>8, <2>1, <3>1 DEF AfterEntry
    <3>2. CASE j.kind = "contacts"
      <4>1. j.tag # 0
        BY <3>2, BoundsAssumption DEF Sound, Keyed, Codes
      <4> QED
        BY <1>8, <2>1, <3>2, <4>1 DEF AfterEntry
    <3>3. CASE j.kind \in {"password", "seed"}
      BY <1>8, <2>1, <3>3 DEF AfterEntry
    <3> QED
      BY <1>2, <3>1, <3>2, <3>3
  <2>3. Show(s, jobs \ {j}) /\ jobs \ {j} \in SUBSET jobs
    BY <1>6, <1>8, <2>1
  <2>4. s = "app" \/ \A x \in jobs \ {j} : x.kind # "keygen"
    <3>1. j.kind # "keygen"
      BY <1>2
    <3> QED
      BY <2>2, <3>1 DEF IInv, ScreenInv, Generating
  <2>5. budget' \in 0..MaxEvents
    BY <1>1 DEF IInv, Shape
  <2>6. s \in {"recovery", "safety", "offer", "app"}
    BY <2>2
  <2> QED
    BY <1>1, <1>3, <1>4, <1>5, <2>3, <2>4, <2>5, <2>6, Shown
<1> QED
  BY <1>7, <1>8

\* Signing in with a password: the record in force is noted first, and asked for again
\* before keys are drawn.
LEMMA LoginStep ==
  ASSUME IInv, NEW j \in jobs, LoginInit(j) \/ LoginComplete(j) \/ LoginExpires(j)
  PROVE  IInv'
<1> USE DEF device, ui, rendezvous, history
<1> j \in Jobs
  BY DEF IInv, Shape
<1> Sound(j)
  BY DEF IInv, JobInv, Sound
<1>1. /\ j.at \in {"init", "complete"}
      /\ UNCHANGED <<scene, srv, rows, progress, auth, screen, session, bucket, collected,
             approved, saved>>
  BY DEF LoginInit, LoginComplete, LoginExpires
<1>2. j.kind = "password" /\ j.id = "first" /\ srv.record \in Nat
  BY <1>1 DEF Sound, Placed, Meant, Provisioning, Jobs, Kinds, IInv, Shape, Servers
<1>3. budget' \in 0..MaxEvents
  BY BoundsAssumption DEF IInv, Shape, LoginInit, LoginComplete, LoginExpires, Event
<1>4. /\ drawn \in [ids : SUBSET Generated, gens : Nat, codes : 0..MaxSessions]
      /\ drawn.gens \in Nat /\ drawn.gens + 1 \in Nat
  BY DEF IInv, Shape
<1>5. /\ drawn' \in [ids : SUBSET Generated, gens : Nat, codes : 0..MaxSessions]
      /\ drawn.gens <= drawn'.gens
  <2>1. CASE LoginComplete(j)
    BY <1>4, <2>1 DEF LoginComplete
  <2>2. CASE LoginInit(j) \/ LoginExpires(j)
    BY <1>4, <2>2 DEF LoginInit, LoginExpires
  <2> QED
    BY <2>1, <2>2
<1>6. PICK k : /\ jobs' = (jobs \ {j}) \cup {k}
               /\ k \in Jobs /\ k.kind = "password" /\ k.id = "first" /\ k.shown = j.shown
               /\ \/ k.at = "complete" /\ k.gen = k.tag
                  \/ /\ k.at = "row" /\ k.gen = drawn'.gens /\ k.gen # 0
                     /\ "first" \in srv.accounts
  <2>1. CASE LoginInit(j)
    <3>1. PICK k : k = [j EXCEPT !.at = "complete", !.tag = srv.record, !.login = TRUE]
      OBVIOUS
    <3>2. jobs' = (jobs \ {j}) \cup {k} /\ j.gen = srv.record
      BY <2>1, <3>1 DEF LoginInit, Turn
    <3>3. k \in Jobs /\ k.kind = "password" /\ k.id = "first" /\ k.shown = j.shown /\ k.at = "complete"
          /\ k.gen = j.gen /\ k.tag = srv.record
      BY <1>2, <3>1 DEF Jobs, Waits
    <3> QED
      BY <3>2, <3>3
  <2>2. CASE LoginComplete(j)
    <3>1. PICK k : k = [j EXCEPT !.at = "row", !.gen = drawn.gens + 1, !.login = FALSE]
      OBVIOUS
    <3>2. jobs' = (jobs \ {j}) \cup {k} /\ srv.record # 0
      BY <2>2, <3>1 DEF LoginComplete, TagCurrent, Turn
    <3>3. k \in Jobs /\ k.kind = "password" /\ k.id = "first" /\ k.shown = j.shown /\ k.at = "row"
          /\ k.gen = drawn.gens + 1
      BY <1>2, <1>4, <3>1 DEF Jobs, Waits
    <3>4. drawn'.gens = drawn.gens + 1 /\ drawn.gens + 1 # 0
      BY <1>4, <2>2 DEF LoginComplete
    <3>5. "first" \in srv.accounts
      BY <3>2 DEF IInv, StoreInv
    <3> QED
      BY <3>2, <3>3, <3>4, <3>5
  <2>3. CASE LoginExpires(j)
    <3>1. PICK k : k = [j EXCEPT !.login = FALSE]
      OBVIOUS
    <3>2. jobs' = (jobs \ {j}) \cup {k} /\ j.at = "complete"
      BY <2>3, <3>1 DEF LoginExpires, Turn
    <3>3. k \in Jobs /\ k.kind = "password" /\ k.id = "first" /\ k.shown = j.shown /\ k.at = j.at
          /\ k.gen = j.gen /\ k.tag = j.tag
      BY <1>2, <3>1 DEF Jobs
    <3>4. j.gen = j.tag
      BY <1>2, <3>2 DEF Sound, Keyed
    <3> QED
      BY <3>2, <3>3, <3>4
  <2> QED
    BY <2>1, <2>2, <2>3
<1>7. Shape'
  BY <1>1, <1>3, <1>5, <1>6 DEF IInv, Shape
<1>8. JobInv'
  <2>1. Grows
    BY <1>1, <1>5 DEF IInv, Shape, Grows
  <2>2. k.at = "row" => k.gen <= drawn'.gens
    BY <1>5, <1>6
  <2>3. Sound(k)'
    BY <1>1, <1>6, <2>2 DEF Sound, Placed, Meant, Keyed, Fixed, Provisioning, Recoveries, None
  <2> QED
    BY <1>6, <1>7, <2>1, <2>3, JobsKept DEF IInv, Same
<1>9. StoreInv'
  BY <1>1 DEF IInv, StoreInv, EnteredIsAccepted, SavedFirst
<1>10. ScreenInv'
  <2>1. k.kind = j.kind /\ k.at # "load" /\ (Finishing => progress'.id \in srv'.accounts)
    BY <1>1, <1>2, <1>6 DEF IInv, ScreenInv
  <2> QED
    BY <1>1, <1>6, <2>1, ScreenTurned DEF IInv
<1>11. OneInv'
  <2>1. ~scene.old /\ Fixed(k) => k.id = progress.id
    BY <1>6 DEF IInv, OneInv, Fixed, Provisioning
  <2> QED
    BY <1>1, <1>6, <2>1 DEF IInv, OneInv, Fixed
<1>12. ShareInv'
  BY <1>1, <1>6 DEF IInv, ShareInv, TwoApproved
<1> QED
  BY <1>7, <1>8, <1>9, <1>10, <1>11, <1>12 DEF IInv

\* The bucket of a code is read.
LEMMA PollReplyStep == ASSUME IInv, NEW j \in jobs, PollReply(j) PROVE IInv'
<1> USE DEF device, history
<1> j \in Jobs
  BY DEF IInv, Shape
<1> Sound(j)
  BY DEF IInv, JobInv, Sound
<1> DEFINE S == collected[j.tag] \cup bucket[j.tag]
<1>1. /\ j.at = "ask" /\ collected' = [collected EXCEPT ![j.tag] = S]
      /\ UNCHANGED <<scene, srv, rows, progress, auth, screen, session, bucket, approved, drawn,
             saved, budget>>
  BY DEF PollReply
<1>2. j.kind = "contacts" /\ j.id = "first" /\ j.tag \in Codes
  BY <1>1 DEF Sound, Placed, Meant, Keyed, Provisioning, Jobs, Kinds
<1>3. S \subseteq approved
  BY <1>2 DEF IInv, ShareInv
<1>4. collected' \in [Codes -> SUBSET approved]
  BY <1>1, <1>2, <1>3 DEF IInv, ShareInv
<1>5. StoreInv'
  BY <1>1 DEF IInv, StoreInv, EnteredIsAccepted, SavedFirst
<1>6. Finishing => progress'.id \in srv'.accounts
  BY <1>1 DEF IInv, ScreenInv
<1>7. Grows
  BY <1>1 DEF IInv, Shape, Grows
<1>8. CASE Pairs(S) # {}
  <2>1. PICK k : k = [j EXCEPT !.at = "auth"]
    OBVIOUS
  <2>2. jobs' = (jobs \ {j}) \cup {k}
    BY <1>8, <2>1 DEF PollReply, Moves, Turn
  <2>3. k \in Jobs /\ Same(k, j) /\ k.at = "auth" /\ k.shown = j.shown
    BY <2>1, Moved DEF Waits
  <2>4. Shape'
    BY <1>1, <2>2, <2>3 DEF IInv, Shape
  <2>5. JobInv'
    <3>1. Sound(k)'
      BY <1>2, <2>3 DEF Sound, Placed, Meant, Keyed, Same, Fixed, Provisioning, None
    <3> QED
      BY <1>7, <2>2, <2>4, <3>1, JobsKept DEF IInv, Same
  <2>6. ScreenInv'
    <3>1. k.kind = j.kind /\ k.at # "load"
      BY <2>3 DEF Same
    <3> QED
      BY <1>1, <1>6, <2>2, <2>3, <3>1, ScreenTurned DEF IInv
  <2>7. OneInv'
    BY <1>1, <1>2, <2>2, <2>3 DEF IInv, OneInv, Fixed, Same, Provisioning
  <2>8. ShareInv'
    <3>1. PICK p \in S \X S : p[1].setup = p[2].setup /\ p[1].holder # p[2].holder
      BY <1>8 DEF Pairs
    <3>2. p[1] \in approved /\ p[2] \in approved
      BY <1>3, <3>1
    <3>3. TwoApproved'
      BY <1>1, <3>1, <3>2 DEF TwoApproved
    <3> QED
      BY <1>1, <1>4, <3>3 DEF IInv, ShareInv
  <2> QED
    BY <1>5, <2>4, <2>5, <2>6, <2>7, <2>8 DEF IInv
<1>9. CASE Pairs(S) = {}
  <2>1. jobs' = jobs \ {j}
    BY <1>9 DEF PollReply, Ends
  <2>2. Shape'
    BY <1>1, <2>1 DEF IInv, Shape
  <2>3. JobInv'
    BY <1>7, <2>1, <2>2, JobsKept DEF IInv, Same
  <2>4. ScreenInv'
    BY <1>1, <1>6, <2>1, ScreenEnded DEF IInv
  <2>5. OneInv' /\ ShareInv'
    BY <1>1, <1>4, <2>1 DEF IInv, OneInv, Fixed, ShareInv, TwoApproved
  <2> QED
    BY <1>5, <2>2, <2>3, <2>4, <2>5 DEF IInv
<1> QED
  BY <1>8, <1>9

\* A job fails; the server may have acted on its request.
LEMMA AbortStep ==
  ASSUME IInv, NEW j \in jobs, JobRefused(j) \/ RequestLost(j) \/ AnswerLost(j)
  PROVE  IInv'
<1> USE DEF device, rendezvous, history
<1> j \in Jobs
  BY DEF IInv, Shape
<1>1. /\ jobs' = jobs \ {j} /\ session' = session
      /\ screen' = IF j.kind = "register" /\ j.shown THEN "failed" ELSE screen
      /\ UNCHANGED <<scene, rows, progress, auth, bucket, collected, approved, drawn, saved>>
      /\ srv' = srv \/ (j.at \in DOMAIN AfterPost /\ srv' = Posted(j))
  BY DEF JobRefused, RequestLost, AnswerLost, Aborts, Ends
<1>2. budget' \in 0..MaxEvents
  BY BoundsAssumption DEF IInv, Shape, JobRefused, RequestLost, AnswerLost, Event
<1>3. /\ srv' \in Servers /\ srv.accounts \subseteq srv'.accounts /\ StoreInv'
      /\ ~scene.old => srv'.accounts \subseteq {progress.id}
  <2>1. CASE srv' = srv
    BY <1>1, <2>1 DEF IInv, Shape, StoreInv, EnteredIsAccepted, SavedFirst, OneInv
  <2>2. CASE j.at \in DOMAIN AfterPost /\ srv' = Posted(j)
    BY <1>1, <2>2, PostedEffect, PostedStore
  <2> QED
    BY <1>1, <2>1, <2>2
<1>4. Shape'
  BY <1>1, <1>2, <1>3 DEF IInv, Shape
<1>5. JobInv'
  <2>1. Grows
    BY <1>1, <1>3 DEF IInv, Shape, Grows
  <2> QED
    BY <1>1, <1>4, <2>1, JobsKept DEF IInv, Same
<1>6. ScreenInv'
  <2>1. Finishing => progress'.id \in srv'.accounts
    BY <1>1, <1>3 DEF IInv, ScreenInv
  <2> QED
    BY <1>1, <2>1, ScreenEnded DEF IInv
<1>7. OneInv'
  BY <1>1, <1>3 DEF IInv, OneInv, Fixed
<1>8. ShareInv'
  BY <1>1 DEF IInv, ShareInv, TwoApproved
<1> QED
  BY <1>3, <1>4, <1>5, <1>6, <1>7, <1>8 DEF IInv

(***************************************************************************)
(* Jobs begun by the user or by a timer.                                   *)
(***************************************************************************)
\* One more job, about an identity that is still to be loaded, asked for or found.
LEMMA BegunStep ==
  ASSUME IInv, NEW k \in Jobs, jobs' = jobs \cup {k}, k.shown,
         \/ k.kind = "finish" /\ k.at = "load" /\ k.id = None /\ screen = "recovery"
         \/ k.kind = "password" /\ k.at = "init" /\ k.id = "first" /\ screen = "recover"
         \/ k.kind = "seed" /\ k.at = "auth" /\ k.id \in {"first", "typo"} /\ screen = "recover"
         \/ k.kind = "contacts" /\ k.at = "ask" /\ k.id = "first" /\ k.tag \in Codes /\ session # 0,
         session' \in {0, session}, budget' \in 0..MaxEvents,
         UNCHANGED <<scene, srv, rows, progress, auth, screen, bucket, collected, approved,
         drawn, saved>>
  PROVE  IInv'
<1>1. Shape'
  BY BoundsAssumption DEF IInv, Shape
<1>2. JobInv'
  <2>1. Grows
    BY DEF IInv, Shape, Grows
  <2>2. Sound(k)'
    BY DEF Sound, Placed, Meant, Keyed, Fixed, Recoveries, Provisioning, None
  <2> QED
    BY <1>1, <2>1, <2>2, JobsKept DEF IInv, Same
<1>3. StoreInv'
  BY DEF IInv, StoreInv, EnteredIsAccepted, SavedFirst
<1>4. ScreenInv'
  <2>1. ~Generating /\ ~Generating'
    BY DEF IInv, ScreenInv, Generating
  <2>2. Finishing' => Finishing
    BY DEF Finishing
  <2> QED
    BY <2>1, <2>2 DEF IInv, ScreenInv, Generating
<1>5. OneInv'
  <2>1. ~Fixed(k) /\ k.kind # "keygen"
    BY DEF Fixed, Recoveries, Provisioning
  <2> QED
    BY <2>1 DEF IInv, OneInv, Fixed
<1>6. ShareInv'
  BY DEF IInv, ShareInv, TwoApproved
<1> QED
  BY <1>1, <1>2, <1>3, <1>4, <1>5, <1>6 DEF IInv

\* The recovery step of onboarding is finished.
LEMMA FinishStep == IInv /\ Finish => IInv'
<1> SUFFICES ASSUME IInv, Finish PROVE IInv'
  OBVIOUS
<1>1. PICK k : k = Job("finish", "load", None)
  OBVIOUS
<1>2. k \in Jobs /\ k.kind = "finish" /\ k.at = "load" /\ k.id = None /\ k.shown
  BY <1>1, Fresh DEF Kinds, Waits
<1>3. /\ jobs' = jobs \cup {k} /\ screen = "recovery" /\ session' = session /\ budget' = budget
      /\ UNCHANGED <<scene, srv, rows, progress, auth, screen, bucket, collected, approved,
             drawn, saved>>
  BY <1>1 DEF Finish, device, ui, rendezvous, history
<1>4. budget' \in 0..MaxEvents
  BY <1>3 DEF IInv, Shape
<1> QED
  BY <1>2, <1>3, <1>4, BegunStep

\* A password or a phrase is submitted.
LEMMA SubmitStep ==
  ASSUME IInv, \/ \E pw \in 0..MaxEvents + 1 : SubmitPassword(pw)
               \/ \E i \in {"first", "typo"} : SubmitSeed(i)
  PROVE  IInv'
<1>1. PICK k : /\ Submit(k) /\ k \in Jobs /\ k.shown
               /\ \/ k.kind = "password" /\ k.at = "init" /\ k.id = "first"
                  \/ k.kind = "seed" /\ k.at = "auth" /\ k.id \in {"first", "typo"}
  <2>1. CASE \E pw \in 0..MaxEvents + 1 : SubmitPassword(pw)
    <3>1. PICK pw \in 0..MaxEvents + 1 : Submit([Job("password", "init",
        "first") EXCEPT !.gen = pw])
      BY <2>1 DEF SubmitPassword
    <3>2. PICK k : k = [Job("password", "init", "first") EXCEPT !.gen = pw]
      OBVIOUS
    <3>3. pw \in Nat
      BY BoundsAssumption
    <3>4. k = [kind |-> "password", at |-> "init", id |-> "first", gen |-> pw, tag |-> 0,
               login |-> FALSE, shown |-> TRUE]
      BY <3>2 DEF Job
    <3>5. k \in Jobs /\ k.shown /\ k.kind = "password" /\ k.at = "init" /\ k.id = "first"
      BY ONLY <3>3, <3>4 DEF Jobs, Kinds, Waits, Ids, Generated
    <3> QED
      BY <3>1, <3>2, <3>5
  <2>2. CASE \E i \in {"first", "typo"} : SubmitSeed(i)
    <3>1. PICK i \in {"first", "typo"} : Submit(Job("seed", "auth", i))
      BY <2>2 DEF SubmitSeed
    <3>2. PICK k : k = Job("seed", "auth", i)
      OBVIOUS
    <3>3. i \in Ids \cup {None}
      BY DEF Ids, Generated
    <3>4. k \in Jobs /\ k.kind = "seed" /\ k.at = "auth" /\ k.id = i /\ k.shown
      BY <3>2, <3>3, Fresh DEF Kinds, Waits
    <3> QED
      BY <3>1, <3>2, <3>4
  <2> QED
    BY <2>1, <2>2
<1>2. /\ jobs' = jobs \cup {k} /\ screen = "recover" /\ session' = 0
      /\ UNCHANGED <<scene, srv, rows, progress, auth, screen, bucket, collected, approved,
             drawn, saved>>
  BY <1>1 DEF Submit, device, rendezvous, history
<1>3. budget' \in 0..MaxEvents
  BY <1>1, BoundsAssumption DEF IInv, Shape, Submit, Event
<1> QED
  BY <1>1, <1>2, <1>3, BegunStep

\* The bucket is polled again.
LEMMA TickStep == IInv /\ tick => IInv'
<1> SUFFICES ASSUME IInv, tick PROVE IInv'
  OBVIOUS
<1>1. PICK k : k = [Job("contacts", "ask", "first") EXCEPT !.tag = session]
  OBVIOUS
<1>2. session \in Nat /\ session \in Codes /\ session # 0
  BY BoundsAssumption DEF tick, IInv, Shape, Codes
<1>3. k = [kind |-> "contacts", at |-> "ask", id |-> "first", gen |-> 0, tag |-> session,
           login |-> FALSE, shown |-> TRUE]
  BY <1>1 DEF Job
<1>4. k \in Jobs /\ k.kind = "contacts" /\ k.at = "ask" /\ k.id = "first" /\ k.shown /\ k.tag = session
  BY ONLY <1>2, <1>3 DEF Jobs, Kinds, Waits, Ids, Generated
<1>5. /\ jobs' = jobs \cup {k} /\ session' = session
      /\ UNCHANGED <<scene, srv, rows, progress, auth, screen, bucket, collected, approved,
             drawn, saved, budget>>
  BY <1>1 DEF tick, device, rendezvous, history
<1>6. budget' \in 0..MaxEvents
  BY <1>5 DEF IInv, Shape
<1> QED
  BY <1>2, <1>4, <1>5, <1>6, BegunStep

(***************************************************************************)
(* Settings, codes and shares: no job changes.                             *)
(***************************************************************************)
\* The owner changes how the account is recovered.
LEMMA SettingsStep ==
  ASSUME IInv, \/ enableOpaqueRecovery
               \/ disableOpaqueRecovery
               \/ \E C \in SUBSET Contacts : setupEmergencyContacts(C)
  PROVE  IInv'
<1>1. /\ "first" \in srv.accounts /\ RecoverySession
  BY DEF enableOpaqueRecovery, disableOpaqueRecovery, setupEmergencyContacts, RecoverySession
<1>2. UNCHANGED <<scene, rows, progress, screen, session, jobs, bucket, collected, approved,
    drawn, saved>>
  BY <1>1 DEF RecoverySession, ui, rendezvous, history
<1>3. budget \in 0..MaxEvents /\ budget' \in 0..MaxEvents /\ MaxEvents + 2 - budget \in Nat
  BY <1>1, BoundsAssumption DEF IInv, Shape, RecoverySession, Event
<1>4. /\ auth' \in [token : Ids \cup {None}, user : Ids \cup {None}] /\ auth'.user = auth.user
  <2>1. auth' = auth \/ auth' = [auth EXCEPT !.token = "first"]
    BY <1>1 DEF RecoverySession
  <2> QED
    BY <2>1 DEF IInv, Shape, Ids, Generated
<1>5. /\ srv' \in Servers /\ srv'.accounts = srv.accounts
      /\ srv'.spk = srv.spk /\ srv'.opks = srv.opks
  <2>1. srv \in Servers
    BY DEF IInv, Shape
  <2>2. CASE enableOpaqueRecovery
    BY <1>3, <2>1, <2>2 DEF enableOpaqueRecovery, Servers
  <2>3. CASE disableOpaqueRecovery
    BY <2>1, <2>3 DEF disableOpaqueRecovery, Servers
  <2>4. CASE \E C \in SUBSET Contacts : setupEmergencyContacts(C)
    BY <1>3, <2>1, <2>4 DEF setupEmergencyContacts, Servers
  <2> QED
    BY <2>2, <2>3, <2>4
<1>6. Shape'
  BY <1>2, <1>3, <1>4, <1>5 DEF IInv, Shape
<1>7. JobInv'
  <2>1. Grows
    BY <1>2, <1>5 DEF IInv, Shape, Grows
  <2> QED
    BY <1>2, <1>6, <2>1, JobsKept DEF IInv, Same
<1>8. StoreInv'
  BY <1>1, <1>2, <1>4, <1>5 DEF IInv, StoreInv, EnteredIsAccepted, SavedFirst
<1>9. ScreenInv' /\ OneInv' /\ ShareInv'
  BY <1>2, <1>5 DEF IInv, ScreenInv, Generating, Finishing, OneInv, Fixed, ShareInv, TwoApproved
<1> QED
  BY <1>6, <1>7, <1>8, <1>9 DEF IInv

\* A recovery code is made.
LEMMA CodeStep == IInv /\ startContactRecovery => IInv'
<1> SUFFICES ASSUME IInv, startContactRecovery PROVE IInv'
  OBVIOUS
<1>1. /\ screen = "recover" /\ session' = drawn.codes + 1 /\ drawn.codes < MaxSessions
      /\ drawn' = [drawn EXCEPT !.codes = drawn.codes + 1]
      /\ UNCHANGED <<scene, srv, rows, progress, auth, screen, jobs, bucket, collected, approved,
             saved, budget>>
  BY DEF startContactRecovery, device, rendezvous
<1>2. drawn.codes + 1 \in 0..MaxSessions
  BY <1>1, BoundsAssumption DEF IInv, Shape
<1>3. /\ drawn' \in [ids : SUBSET Generated, gens : Nat, codes : 0..MaxSessions]
      /\ drawn'.gens = drawn.gens
  BY <1>1, <1>2 DEF IInv, Shape
<1>4. Shape'
  BY <1>1, <1>2, <1>3 DEF IInv, Shape
<1>5. JobInv'
  <2>1. Grows
    BY <1>1, <1>3 DEF IInv, Shape, Grows
  <2> QED
    BY <1>1, <1>4, <2>1, JobsKept DEF IInv, Same
<1>6. StoreInv' /\ OneInv' /\ ShareInv'
  BY <1>1 DEF IInv, StoreInv, EnteredIsAccepted, SavedFirst, OneInv, Fixed, ShareInv, TwoApproved
<1>7. ScreenInv'
  BY <1>1 DEF IInv, ScreenInv, Generating, Finishing
<1> QED
  BY <1>4, <1>5, <1>6, <1>7 DEF IInv

\* A contact approves, or a bucket expires.
LEMMA ShareStep ==
  ASSUME IInv, \/ \E c \in Contacts, code \in Codes : approveRecovery(c, code)
               \/ \E code \in Codes : BucketExpires(code)
  PROVE  IInv'
<1> USE DEF device, ui, history
<1>1. UNCHANGED <<scene, srv, rows, progress, auth, screen, session, jobs, collected, drawn, saved>>
  BY DEF approveRecovery, BucketExpires
<1>2. budget' \in 0..MaxEvents
  BY BoundsAssumption DEF IInv, Shape, approveRecovery, BucketExpires, Event
<1>3. Shape'
  BY <1>1, <1>2 DEF IInv, Shape
<1>4. JobInv'
  <2>1. Grows
    BY <1>1 DEF IInv, Shape, Grows
  <2> QED
    BY <1>1, <1>3, <2>1, JobsKept DEF IInv, Same
<1>5. StoreInv' /\ OneInv' /\ ScreenInv'
  BY <1>1 DEF IInv, StoreInv, EnteredIsAccepted, SavedFirst, OneInv, Fixed, ScreenInv,
      Generating, Finishing
<1>6. approved \subseteq approved' /\ bucket' \in [Codes -> SUBSET approved']
  <2>1. bucket \in [Codes -> SUBSET approved]
    BY DEF IInv, ShareInv
  <2>2. CASE \E c \in Contacts, code \in Codes : approveRecovery(c, code)
    <3>1. PICK c \in Contacts, code \in Codes : approveRecovery(c, code)
      BY <2>2
    <3> DEFINE share == [setup |-> srv.setup, holder |-> c]
    <3>2. bucket' = [bucket EXCEPT ![code] = bucket[code] \cup {share}] /\ approved' = approved \cup {share}
      BY <3>1 DEF approveRecovery
    <3> HIDE DEF share
    <3> QED
      BY <2>1, <3>2
  <2>3. CASE \E code \in Codes : BucketExpires(code)
    BY <2>1, <2>3 DEF BucketExpires
  <2> QED
    BY <2>2, <2>3
<1>7. ShareInv'
  BY <1>1, <1>6 DEF IInv, ShareInv, TwoApproved
<1> QED
  BY <1>3, <1>4, <1>5, <1>7 DEF IInv

(***************************************************************************)
(* The theorems.                                                           *)
(***************************************************************************)
\* The initial states satisfy the strengthening.
LEMMA Start == Init => IInv
<1> SUFFICES ASSUME Init PROVE IInv
  OBVIOUS
<1>1. scene \in Scenes /\ scene.events \in 0..MaxEvents /\ scene.old \in BOOLEAN
  BY BoundsAssumption DEF Init
<1>2. Old = {} \/ Old = {"first"}
  BY DEF Old
<1>3. Cardinality(Old) = IF Old = {} THEN 0 ELSE 1
  BY <1>2, FS_EmptySet, FS_Singleton
<1>4. /\ rows = [i \in Ids |-> 0] /\ progress = [step |-> "welcome", id |-> None]
      /\ auth = [token |-> None, user |-> None] /\ screen = "welcome" /\ jobs = {} /\ session = 0
      /\ bucket = [c \in Codes |-> {}] /\ collected = [c \in Codes |-> {}]
      /\ drawn = [ids |-> Old, gens |-> Cardinality(Old), codes |-> 0]
      /\ saved = 1..Cardinality(Old) /\ budget = scene.events
  BY DEF Init
<1>5. /\ srv \in Servers /\ srv.accounts = Old /\ (srv.record # 0 => Old # {})
      /\ srv.spk = [i \in Ids |-> IF i \in Old THEN 1 ELSE 0]
      /\ srv.opks = [i \in Ids |-> IF i \in Old THEN {1} ELSE {}]
  BY <1>2 DEF Init, Servers, Ids, Generated
<1>6. drawn \in [ids : SUBSET Generated, gens : Nat, codes : 0..MaxSessions]
  BY <1>2, <1>3, <1>4, BoundsAssumption DEF Generated
<1>7. saved \subseteq Nat /\ (Old # {} => 1 \in saved)
  BY <1>3, <1>4
<1>8. Shape
  BY <1>1, <1>4, <1>5, <1>6, <1>7, BoundsAssumption DEF Shape, Stages
<1>9. StoreInv
  <2>1. "typo" \notin srv.accounts /\ rows["typo"] = 0 /\ progress.id # "typo" /\ progress.id = None
    BY <1>2, <1>4, <1>5 DEF Ids, None
  <2>2. SavedFirst
    BY <1>2, <1>5, <1>7 DEF SavedFirst, Ids, Generated
  <2> QED
    BY <1>2, <1>4, <1>5, <2>1, <2>2 DEF StoreInv, EnteredIsAccepted
<1>10. JobInv /\ ScreenInv /\ OneInv /\ ShareInv
  BY <1>4, <1>5 DEF JobInv, ScreenInv, Generating, Finishing, OneInv, Old, ShareInv, TwoApproved
<1> QED
  BY <1>8, <1>9, <1>10 DEF IInv

\* The strengthening is inductive: every step of onboarding, of recovery and of the
\* recovery settings keeps it, whatever else is in flight.
THEOREM Inductive == Spec => []IInv
<1>1. IInv /\ [Next]_vars => IInv'
  <2> SUFFICES ASSUME IInv, [Next]_vars PROVE IInv'
    OBVIOUS
  <2>1. CASE Follow \/ GoBack \/ Reload \/ Finish \/ startContactRecovery \/ tick
    BY <2>1, FollowStep, GoBackStep, ReloadStep, FinishStep, CodeStep, TickStep
  <2>2. CASE \/ enableOpaqueRecovery \/ disableOpaqueRecovery
             \/ \E C \in SUBSET Contacts : setupEmergencyContacts(C)
    BY <2>2, SettingsStep
  <2>3. CASE \/ \E pw \in 0..MaxEvents + 1 : SubmitPassword(pw)
             \/ \E i \in {"first", "typo"} : SubmitSeed(i)
    BY <2>3, SubmitStep
  <2>4. CASE \/ \E c \in Contacts, code \in Codes : approveRecovery(c, code)
             \/ \E code \in Codes : BucketExpires(code)
    BY <2>4, ShareStep
  <2>5. CASE \E j \in jobs : LoadOrGenerate(j) \/ WriteRow(j) \/ SealRow(j) \/ MarkKeys(j) \/ LoadBundle(j)
    BY <2>5, LoadOrGenerateStep, StoredStep, MarkKeysStep, LoadBundleStep
  <2>6. CASE \E j \in jobs : Post(j) \/ Authenticate(j) \/ MarkRegistered(j) \/ Entered(j) \/ PollReply(j)
    BY <2>6, PostStep, AuthenticateStep, MarkRegisteredStep, EnteredStep, PollReplyStep
  <2>7. CASE \E j \in jobs : LoginInit(j) \/ LoginComplete(j) \/ LoginExpires(j)
    BY <2>7, LoginStep
  <2>8. CASE \E j \in jobs : JobRefused(j) \/ RequestLost(j) \/ AnswerLost(j)
    BY <2>8, AbortStep
  <2>9. CASE UNCHANGED vars
    BY <2>9 DEF vars, IInv, Shape, JobInv, Placed, Meant, Keyed, Fixed, StoreInv, EnteredIsAccepted,
                SavedFirst, ScreenInv, Generating, Finishing, OneInv, ShareInv, TwoApproved
  <2> QED
    BY <2>1, <2>2, <2>3, <2>4, <2>5, <2>6, <2>7, <2>8, <2>9 DEF Next
<1> QED
  BY Start, <1>1, PTL DEF Spec

\* The server holds no account that nobody meant to make: a mistyped phrase registers
\* nothing, and one device makes one account, through lost answers, retries, reloads and
\* calls that outlive their screens (flow.ts, recovery.ts).
THEOREM OnlyMeant == Spec => []AccountsMeant
<1>1. IInv => NoPhantom
  BY DEF IInv, StoreInv, NoPhantom
<1>2. IInv => OneAccount
  <2> SUFFICES ASSUME IInv PROVE OneAccount
    OBVIOUS
  <2>1. PICK x : srv.accounts \ Old \subseteq {x}
    <3>1. CASE scene.old
      <4>1. srv.accounts \ Old \subseteq {"second"}
        BY <3>1 DEF IInv, StoreInv, Shape, Servers, Ids, Generated, Old
      <4> QED
        BY <4>1
    <3>2. CASE ~scene.old
      BY <3>2 DEF IInv, OneInv
    <3> QED
      BY <3>1, <3>2
  <2>2. srv.accounts \ Old = {} \/ srv.accounts \ Old = {x}
    BY <2>1
  <2>3. Cardinality(srv.accounts \ Old) = 0 \/ Cardinality(srv.accounts \ Old) = 1
    BY <2>2, FS_EmptySet, FS_Singleton
  <2> QED
    BY <2>3 DEF OneAccount
<1> QED
  BY Inductive, <1>1, <1>2, PTL DEF AccountsMeant

\* No key is announced, and no app entered, before the private halves are stored
\* (finalizeIdentity, persistGeneratedIdentity).
THEOREM StoredFirst == Spec => []KeysStored
<1>1. IInv => KeysStored
  BY DEF IInv, StoreInv, KeysStored
<1> QED
  BY Inductive, <1>1, PTL

\* Recovery by contacts signs in only with shares of one split from two contacts
\* (recovery.ts, Recovery.tsx).
THEOREM ContactsAgree == Spec => []TwoApproved
<1>1. IInv => TwoApproved
  BY DEF IInv, ShareInv
<1> QED
  BY Inductive, <1>1, PTL

\* Only the end of a login draws keys for a recovery by password.
Unfinished ==
    \A k \in jobs' : k.kind = "password" /\ k.at = "row" => \E x \in jobs : x.at = "row" /\ x.gen = k.gen

\* A job that is hidden draws nothing.
LEMMA HidesRows ==
  ASSUME IInv, NEW s, NEW J \in SUBSET jobs, Show(s, J) PROVE Unfinished
<1> SUFFICES ASSUME NEW k \in jobs', k.kind = "password", k.at = "row"
             PROVE  \E x \in jobs : x.at = "row" /\ x.gen = k.gen
  BY DEF Unfinished
<1>1. J \in SUBSET Jobs
  BY DEF IInv, Shape
<1>2. k \in {[j EXCEPT !.shown = FALSE] : j \in J} \cup OnMount(s)
  BY DEF Show
<1>3. \/ \E j \in J : Same(k, j) /\ k.at = j.at
      \/ k = Job("register", "load", None)
      \/ k = Job("keygen", "load", None)
  BY ONLY <1>1, <1>2, Hides
<1> QED
  BY <1>3 DEF Same, Job

\* A password opens a session only while it is the one the owner has set, however long
\* the login was under way and whatever was changed meanwhile (login_complete,
\* recovery.rs).
THEOREM CurrentPassword == Spec => PasswordCurrent
<1>1. ASSUME IInv, [Next]_vars, NEW l \in jobs, NEW k \in jobs',
             l.kind = "password", l.at = "complete", k.kind = "password", k.at = "row",
             k.gen = drawn.gens + 1, k.tag = l.tag
      PROVE  srv.record = l.gen
  <2> jobs \subseteq Jobs
    BY <1>1 DEF IInv, Shape
  <2>1. ~Unfinished
    <3>1. \A x \in jobs : x.at = "row" => x.gen \in Nat /\ x.gen <= drawn.gens
      BY <1>1 DEF IInv, JobInv, Keyed, Jobs
    <3>2. drawn.gens \in Nat
      BY <1>1 DEF IInv, Shape
    <3> QED
      BY <1>1, <3>1, <3>2 DEF Unfinished
  <2>2. ASSUME NEW j \in jobs, LoginComplete(j) PROVE srv.record = l.gen
    <3>1. PICK n : n = [j EXCEPT !.at = "row", !.gen = drawn.gens + 1, !.login = FALSE]
      OBVIOUS
    <3>2. jobs' = (jobs \ {j}) \cup {n} /\ srv.record = j.tag
      BY <2>2, <3>1 DEF LoginComplete, TagCurrent, Turn
    <3>3. n.tag = j.tag
      BY <3>1 DEF Jobs
    <3>4. k = n
      <4>1. \A x \in jobs : x.at = "row" => x.gen # drawn.gens + 1
        BY <1>1 DEF IInv, Shape, JobInv, Keyed, Jobs
      <4> QED
        BY <1>1, <3>2, <4>1
    <3>5. l.gen = l.tag
      BY <1>1 DEF IInv, JobInv, Keyed
    <3> QED
      BY <1>1, <3>2, <3>3, <3>4, <3>5
  <2>3. CASE Follow \/ GoBack \/ Reload
    <3>1. PICK J \in {jobs, {}} : \E s : Show(s, J)
      BY <2>3 DEF Follow, GoBack, Reload
    <3>2. J \in SUBSET jobs
      OBVIOUS
    <3> QED
      BY <1>1, <2>1, <3>1, <3>2, HidesRows
  <2>4. CASE \/ enableOpaqueRecovery \/ disableOpaqueRecovery \/ startContactRecovery \/ UNCHANGED vars
             \/ \E C \in SUBSET Contacts : setupEmergencyContacts(C)
             \/ \E c \in Contacts, code \in Codes : approveRecovery(c, code)
             \/ \E code \in Codes : BucketExpires(code)
    <3>1. jobs' = jobs
      BY <2>4 DEF enableOpaqueRecovery, disableOpaqueRecovery, startContactRecovery,
      setupEmergencyContacts,
                  RecoverySession, approveRecovery, BucketExpires, vars
    <3> QED
      BY <2>1, <3>1 DEF Unfinished
  <2>5. CASE \/ Finish \/ tick
             \/ \E pw \in 0..MaxEvents + 1 : SubmitPassword(pw)
             \/ \E i \in {"first", "typo"} : SubmitSeed(i)
    <3>1. PICK n : jobs' \subseteq jobs \cup {n} /\ n.at # "row"
      <4>1. CASE Finish
        <5>1. jobs' = jobs \cup {Job("finish", "load", None)} /\ Job("finish", "load",
        None).at # "row"
          BY <4>1 DEF Finish, Job
        <5> QED
          BY <5>1
      <4>2. CASE tick
        BY <4>2 DEF tick, Job
      <4>3. CASE \E pw \in 0..MaxEvents + 1 : SubmitPassword(pw)
        BY <4>3 DEF SubmitPassword, Submit, Job
      <4>4. CASE \E i \in {"first", "typo"} : SubmitSeed(i)
        <5>1. PICK i \in {"first", "typo"} : jobs' = jobs \cup {Job("seed", "auth", i)}
          BY <4>4 DEF SubmitSeed, Submit
        <5>2. Job("seed", "auth", i).at # "row"
          BY DEF Job
        <5> QED
          BY <5>1, <5>2
      <4> QED
        BY <2>5, <4>1, <4>2, <4>3, <4>4
    <3> QED
      BY <2>1, <3>1 DEF Unfinished
  <2>6. CASE \E j \in jobs : JobRefused(j) \/ RequestLost(j) \/ AnswerLost(j) \/ MarkRegistered(j)
    <3>1. jobs' \subseteq jobs
      BY <2>6 DEF JobRefused, RequestLost, AnswerLost, Aborts, MarkRegistered, Ends
    <3> QED
      BY <2>1, <3>1 DEF Unfinished
  <2>7. ASSUME NEW j \in jobs,
               WriteRow(j) \/ SealRow(j) \/ MarkKeys(j) \/ PollReply(j) \/ Post(j)
        PROVE  FALSE
    <3>1. PICK a \in {"mark", "done", "spk", "auth", "opks", "seal"} :
            jobs' \subseteq jobs \cup {[j EXCEPT !.at = a]}
      BY <2>7 DEF WriteRow, SealRow, MarkKeys, PollReply, Post, AfterPost, Moves, Turn, Ends
    <3>2. PICK n : n = [j EXCEPT !.at = a]
      OBVIOUS
    <3>3. n.at = a
      BY <3>2 DEF Jobs
    <3> QED
      BY <2>1, <3>1, <3>2, <3>3 DEF Unfinished
  <2>8. ASSUME NEW j \in jobs, Entered(j) PROVE FALSE
    <3>1. (\E s : Show(s, jobs \ {j})) \/ jobs' = jobs \ {j}
      BY <2>8 DEF Entered, Ends
    <3>2. CASE jobs' = jobs \ {j}
      BY <2>1, <3>2 DEF Unfinished
    <3>3. CASE \E s : Show(s, jobs \ {j})
      <4>1. PICK J \in SUBSET jobs : J = jobs \ {j}
        OBVIOUS
      <4> QED
        BY <1>1, <2>1, <3>3, <4>1, HidesRows
    <3> QED
      BY <3>1, <3>2, <3>3
  <2>9. ASSUME NEW j \in jobs, LoadOrGenerate(j) PROVE FALSE
    <3>1. PICK n, i : /\ jobs' \subseteq jobs \cup {n} /\ j.kind = "keygen"
                      /\ n = [j EXCEPT !.at = "row", !.id = i, !.gen = drawn.gens + 1]
      BY <2>9 DEF LoadOrGenerate, Ends, Turn
    <3>2. n.kind = "keygen"
      BY <3>1 DEF Jobs
    <3> QED
      BY <2>1, <3>1, <3>2 DEF Unfinished
  <2>10. ASSUME NEW j \in jobs, LoadBundle(j) PROVE FALSE
    <3>1. PICK a \in {"post", "seal", "auth"} :
            jobs' \subseteq jobs \cup {[j EXCEPT !.at = a, !.id = progress.id,
            !.gen = rows[progress.id]]}
      BY <2>10 DEF LoadBundle, Turn
    <3>2. PICK n : n = [j EXCEPT !.at = a, !.id = progress.id, !.gen = rows[progress.id]]
      OBVIOUS
    <3>3. n.at = a
      BY <3>2 DEF Jobs
    <3> QED
      BY <2>1, <3>1, <3>2, <3>3 DEF Unfinished
  <2>11. ASSUME NEW j \in jobs, Authenticate(j) PROVE FALSE
    <3>1. PICK n : jobs' \subseteq jobs \cup {n} /\ n = AfterAuth(j) /\ j.at = "auth"
      BY <2>11 DEF Authenticate, Turn
    <3>2. j.kind # "password"
      BY <1>1, <3>1 DEF IInv, JobInv, Placed, Provisioning
    <3>3. n.kind = j.kind
      BY <3>1 DEF AfterAuth, Jobs
    <3> QED
      BY <2>1, <3>1, <3>2, <3>3 DEF Unfinished
  <2>12. ASSUME NEW j \in jobs, LoginInit(j) \/ LoginExpires(j) PROVE FALSE
    <3>1. PICK n : /\ jobs' \subseteq jobs \cup {n}
                   /\ \/ n = [j EXCEPT !.at = "complete", !.tag = srv.record, !.login = TRUE]
                      \/ n = [j EXCEPT !.login = FALSE] /\ j.at = "complete"
      BY <2>12 DEF LoginInit, LoginExpires, Turn
    <3>2. n.at = "complete"
      BY <3>1 DEF Jobs
    <3> QED
      BY <2>1, <3>1, <3>2 DEF Unfinished
  <2> QED
    BY <1>1, <2>2, <2>3, <2>4, <2>5, <2>6, <2>7, <2>8, <2>9, <2>10, <2>11, <2>12 DEF Next
<1>2. IInv /\ [Next]_vars =>
        [\A j \in jobs, k \in jobs' :
            j.kind = "password" /\ j.at = "complete" /\ k.kind = "password" /\ k.at = "row"
            /\ k.gen = drawn.gens + 1 /\ k.tag = j.tag => srv.record = j.gen]_vars
  BY <1>1
<1> QED
  BY Inductive, <1>2, PTL DEF Spec, PasswordCurrent

=============================================================================
