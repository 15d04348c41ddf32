---------------------------- MODULE SessionProofs ----------------------------
(***************************************************************************)
(* Proofs that the safety properties of Session hold for every number of   *)
(* boot retries and of failures, locks, reloads, expiries and erasures.    *)
(***************************************************************************)
EXTENDS Session, FiniteSetTheorems, TLAPS

(***************************************************************************)
(* The strengthening.                                                      *)
(***************************************************************************)
\* A start is under way exactly behind the loading screen, and has not used up its
\* retries.
BootInv ==
    /\ boot = "loading" <=> restore # "idle"
    /\ restore # "idle" => retries <= MAX_BOOT_RETRIES

\* Behind the lock the data key and the session are gone, and the connection has
\* been told to stop, or was never set up.
LockInv ==
    boot = "locked" =>
        /\ ~unlocked /\ auth = SignedOut /\ ~cover.running
        /\ conn.stopped \/ conn.token = 0

\* One attempt at most is of the current generation, and there is none beside a
\* socket; a connection that was never set up has neither.
SocketInv ==
    /\ \A o, p \in opens : o.gen = "now" /\ p.gen = "now" => o = p
    /\ \A s, t \in socks : s = t
    /\ \A s \in socks : s.held /\ ~conn.stopped
    /\ (\E o \in opens : o.gen = "now") => socks = {}
    /\ conn.token = 0 /\ ~conn.stopped => opens = {} /\ socks = {}
    /\ live = 0 => conn.stopped \/ conn.token = 0

IInv ==
    /\ TypeOK
    /\ BootInv
    /\ LockInv
    /\ NeverPastLock
    /\ SocketInv
    /\ OnlineIsTrue
    /\ RenewalAlive
    /\ CoverAlive

(***************************************************************************)
(* Tokens and budget.                                                      *)
(***************************************************************************)
\* Of four names one is free whichever three are held (store/auth, App, websocket).
LEMMA FreshToken == NewToken \in 1..4
<1>1. \E t \in 1..4 : t \notin {auth.token, live, conn.token}
  OBVIOUS
<1> QED  BY <1>1 DEF NewToken

\* An event takes one from what is left of the bound.
LEMMA Spent == ASSUME budget \in 0..MaxEvents, Event PROVE budget' \in 0..MaxEvents
  BY BoundsAssumption DEF Event

(***************************************************************************)
(* Initial states.                                                         *)
(***************************************************************************)
\* A page that has just been loaded satisfies the invariant (App.startBoot).
LEMMA Start == Init => IInv
<1> SUFFICES ASSUME Init PROVE IInv  OBVIOUS
<1> USE DEF Init, Fresh, Gated, SignedOut, Renewal, Disconnected, NoCover
<1>1. TypeOK
  <2>1. budget \in 0..MaxEvents /\ retries \in 0..(MAX_BOOT_RETRIES + 1)  BY BoundsAssumption
  <2>2. cover \in [running : BOOLEAN, starting : Nat, timer : 0..1, orphans : Nat, ticking : Nat]
    OBVIOUS
  <2>3. device \in [onboarded : BOOLEAN, lockOn : BOOLEAN]
    <3>1. \A p, q \in BOOLEAN : [onboarded |-> p, lockOn |-> q] \in [onboarded : BOOLEAN, lockOn : BOOLEAN]
      OBVIOUS
    <3> QED  BY <3>1
  <2>4. renewal \in [enabled : BOOLEAN, timer : BOOLEAN, waiting : BOOLEAN]  OBVIOUS
  <2>5. auth \in [authed : BOOLEAN, token : 0..4] /\ conn \in [stopped : BOOLEAN, token : 0..4, online : BOOLEAN]
    OBVIOUS
  <2> QED  BY <2>1, <2>2, <2>3, <2>4, <2>5 DEF TypeOK
<1>2. BootInv  BY BoundsAssumption DEF BootInv
<1>3. LockInv /\ NeverPastLock  BY DEF LockInv, NeverPastLock
<1>4. SocketInv /\ OnlineIsTrue  BY DEF SocketInv, OnlineIsTrue
<1>5. RenewalAlive /\ CoverAlive  BY DEF RenewalAlive, CoverAlive
<1> QED  BY <1>1, <1>2, <1>3, <1>4, <1>5 DEF IInv

(***************************************************************************)
(* What the operators of the cover-traffic loop and of the connection do.  *)
(***************************************************************************)
Covers == [running : BOOLEAN, starting : Nat, timer : 0..1, orphans : Nat, ticking : Nat]
Opens == [gen : {"now", "past"}, at : {"ticket", "timer"}]
Socks == [held : BOOLEAN, state : {"connecting", "open", "dead"}]
Conns == [stopped : BOOLEAN, token : 0..4, online : BOOLEAN]

\* stopCoverTraffic, startCoverTraffic and the setting of its timer (cover-traffic.ts).
LEMMA CoverOps ==
  ASSUME NEW c \in Covers
  PROVE  /\ StopCover(c) \in Covers /\ ~StopCover(c).running
         /\ StartCover(c) \in Covers /\ SetTimer(c) \in Covers
<1>1. [c EXCEPT !.timer = 0] \in Covers /\ c.orphans + c.timer \in Nat /\ c.starting + 1 \in Nat  BY DEF Covers
<1>2. [c EXCEPT !.running = TRUE] \in Covers  BY DEF Covers
<1>3. [c EXCEPT !.timer = 1] \in Covers  BY DEF Covers
<1>4. StopCover(c) \in Covers /\ ~StopCover(c).running
  <2>1. [[c EXCEPT !.timer = 0] EXCEPT !.running = FALSE] \in Covers  BY <1>1 DEF Covers
  <2> QED  BY <2>1 DEF StopCover, Covers
<1>5. StartCover(c) \in Covers
  <2>1. [[c EXCEPT !.running = TRUE] EXCEPT !.starting = c.starting + 1] \in Covers  BY <1>1, <1>2 DEF Covers
  <2> QED  BY <2>1 DEF StartCover, Covers
<1>6. SetTimer(c) \in Covers
  <2>1. [[c EXCEPT !.timer = 1] EXCEPT !.orphans = c.orphans + c.timer] \in Covers  BY <1>1, <1>3 DEF Covers
  <2> QED  BY <2>1 DEF SetTimer, Covers
<1> QED  BY <1>4, <1>5, <1>6

\* Bumping gen makes every attempt one of the past (websocket.ts).
LEMMA BumpedPast ==
  ASSUME NEW os, os \subseteq Opens
  PROVE  Bumped(os) \subseteq Opens /\ \A o \in Bumped(os) : o.gen = "past"
  BY DEF Bumped, Opens

\* The connection effect undoes what it set up and sets up anew (App.tsx).
LEMMA EffectStep == ASSUME IInv, ConnectionEffect PROVE IInv'
<1> DEFINE quiet == IF live = 0 THEN cover ELSE StopCover(cover)
           up == [conn EXCEPT !.token = EffectFor, !.stopped = FALSE,
                              !.online = IF live = 0 THEN @ ELSE FALSE]
<1> USE DEF IInv
<1>1. EffectFor \in 0..4  BY DEF TypeOK, EffectFor
<1>2. socks' = {}
  <2>1. CASE live = 0  BY <2>1 DEF SocketInv, ConnectionEffect
  <2>2. CASE live # 0  BY <2>2 DEF SocketInv, ConnectionEffect, Unheld
  <2> QED  BY <2>1, <2>2
<1>3. quiet \in Covers /\ (~cover.running => ~quiet.running)
  <2>1. cover \in Covers  BY DEF TypeOK, Covers
  <2> QED  BY <2>1, CoverOps
<1>4. up \in Conns /\ up.token = EffectFor /\ ~up.stopped /\ ~up.online
  <2>1. conn \in Conns  BY DEF TypeOK, Conns
  <2>2. live = 0 => ~conn.online  BY DEF SocketInv, OnlineIsTrue
  <2> QED  BY <1>1, <2>1, <2>2 DEF Conns
<1>5. /\ live' = EffectFor
      /\ UNCHANGED <<boot, restore, retries, device, unlocked, auth, expired, reauth, erasing, budget>>
  BY DEF ConnectionEffect, starting, stored
<1>6. Bumped(opens) \subseteq Opens /\ \A o \in Bumped(opens) : o.gen = "past"
  BY BumpedPast DEF TypeOK, Opens
<1>7. (BootInv /\ NeverPastLock)'  BY <1>5 DEF BootInv, NeverPastLock
<1>8. CASE EffectFor = 0
  <2>1. /\ conn' = disconnectWebSocket /\ cover' = quiet /\ opens' = Bumped(opens)
        /\ renewal' = [renewal EXCEPT !.enabled = FALSE, !.timer = FALSE]
    BY <1>8 DEF ConnectionEffect
  <2>2. conn' \in Conns /\ conn'.stopped /\ ~conn'.online  BY <2>1 DEF disconnectWebSocket, Conns
  <2>3. renewal' \in [enabled : BOOLEAN, timer : BOOLEAN, waiting : BOOLEAN]  BY <2>1 DEF TypeOK
  <2>4. TypeOK'  BY <1>2, <1>3, <1>5, <1>6, <1>8, <2>1, <2>2, <2>3 DEF TypeOK, Covers, Opens, Conns
  <2>5. LockInv'  BY <1>3, <1>5, <2>1, <2>2 DEF LockInv
  <2>6. (SocketInv /\ OnlineIsTrue)'  BY <1>2, <1>6, <2>1, <2>2 DEF SocketInv, OnlineIsTrue
  <2>7. RenewalAlive'  BY <1>5, <1>8 DEF RenewalAlive
  <2>8. CoverAlive'
    <3>1. CASE live = 0  BY <2>1, <3>1 DEF CoverAlive
    <3>2. CASE live # 0  BY <2>1, <3>2, CoverOps DEF CoverAlive, TypeOK, Covers
    <3> QED  BY <3>1, <3>2
  <2> QED  BY <1>7, <2>4, <2>5, <2>6, <2>7, <2>8
<1>9. CASE EffectFor # 0
  <2>1. /\ conn' = up /\ cover' = StartCover(quiet) /\ opens' = open(up, opens)
        /\ renewal' = [renewal EXCEPT !.enabled = TRUE, !.timer = TRUE]
    BY <1>9 DEF ConnectionEffect
  <2>2. opens' = Bumped(opens) \cup {[gen |-> "now", at |-> "ticket"]}  BY <1>4, <1>9, <2>1 DEF open
  <2>3. renewal' \in [enabled : BOOLEAN, timer : BOOLEAN, waiting : BOOLEAN] /\ renewal'.enabled /\ renewal'.timer
    BY <2>1 DEF TypeOK
  <2>4. cover' \in Covers  BY <1>3, <2>1, CoverOps
  <2>5. opens' \subseteq Opens  BY <1>6, <2>2 DEF Opens
  <2>6. TypeOK'  BY <1>1, <1>2, <1>4, <1>5, <2>1, <2>3, <2>4, <2>5 DEF TypeOK, Covers, Opens, Conns
  <2>7. LockInv'  BY <1>5, <1>9 DEF LockInv, EffectFor
  <2>8. (SocketInv /\ OnlineIsTrue)'  BY <1>2, <1>4, <1>5, <1>6, <1>9, <2>1, <2>2 DEF SocketInv, OnlineIsTrue
  <2>9. RenewalAlive'  BY <2>3 DEF RenewalAlive
  <2>10. CoverAlive'
    <3>1. CASE quiet.running
      <4>1. live = 0 /\ cover' = cover  BY <2>1, <3>1, CoverOps DEF StartCover, TypeOK, Covers
      <4> QED  BY <4>1 DEF CoverAlive
    <3>2. CASE ~quiet.running
      <4>1. cover' = [quiet EXCEPT !.running = TRUE, !.starting = @ + 1]  BY <2>1, <3>2 DEF StartCover
      <4>2. cover'.starting > 0  BY <1>3, <4>1 DEF Covers
      <4> QED  BY <2>4, <4>2 DEF CoverAlive, Covers
    <3> QED  BY <3>1, <3>2
  <2> QED  BY <1>7, <2>6, <2>7, <2>8, <2>9, <2>10
<1> QED  BY <1>8, <1>9

\* Every step keeps the invariant: one step of the proof for each action of a tab.
LEMMA Step == IInv /\ [Next]_vars => IInv'
<1> SUFFICES ASSUME IInv, [Next]_vars PROVE IInv'  OBVIOUS
<1> USE DEF IInv, starting, stored, sockets, Covers, Opens, Conns, Socks
<1>0. CASE UNCHANGED vars
    BY <1>0 DEF TypeOK, BootInv, LockInv, NeverPastLock, SocketInv, OnlineIsTrue,
       RenewalAlive, CoverAlive, vars
<1>1. ASSUME RestoreReply PROVE IInv'
  <2>1. TypeOK'  BY <1>1, FreshToken DEF TypeOK, RestoreReply, KeyAtHand
  <2>2. BootInv'  BY <1>1, FreshToken DEF TypeOK, BootInv, LockInv, RestoreReply, KeyAtHand
  <2>3. (LockInv /\ NeverPastLock)'
    BY <1>1 DEF BootInv, LockInv, NeverPastLock, TypeOK, RestoreReply, KeyAtHand
  <2>4. (SocketInv /\ OnlineIsTrue /\ RenewalAlive /\ CoverAlive)'
    BY <1>1 DEF SocketInv, OnlineIsTrue, RenewalAlive, CoverAlive, RestoreReply
  <2> QED  BY <2>1, <2>2, <2>3, <2>4
<1>2. ASSUME RestoreFails PROVE IInv'
  <2>1. TypeOK'
    <3>0. UNCHANGED <<stored, auth, expired, live, renewal, reauth, sockets, cover, erasing>>
      BY <1>2 DEF RestoreFails
    <3>1. boot' \in {"loading", "ready", "offline", "locked"}
      BY <1>2 DEF TypeOK, RestoreFails, Event
    <3>2. restore' \in {"idle", "asked", "timer"}  BY <1>2 DEF TypeOK, RestoreFails, Event
    <3>3. retries' \in 0..(MAX_BOOT_RETRIES + 1)
      BY <1>2, BoundsAssumption DEF TypeOK, BootInv, RestoreFails
    <3>4. budget' \in 0..MaxEvents  BY <1>2, Spent DEF TypeOK, RestoreFails
    <3> QED  BY <3>0, <3>1, <3>2, <3>3, <3>4 DEF TypeOK
  <2>2. BootInv'  BY <1>2, BoundsAssumption DEF TypeOK, BootInv, LockInv, RestoreFails, Event
  <2>3. (LockInv /\ NeverPastLock)'
    BY <1>2 DEF BootInv, LockInv, NeverPastLock, TypeOK, RestoreFails, Event
  <2>4. (SocketInv /\ OnlineIsTrue /\ RenewalAlive /\ CoverAlive)'
    BY <1>2 DEF SocketInv, OnlineIsTrue, RenewalAlive, CoverAlive, RestoreFails
  <2> QED  BY <2>1, <2>2, <2>3, <2>4
<1>3. ASSUME RetryTimer PROVE IInv'
  <2>1. TypeOK'  BY <1>3 DEF TypeOK, RetryTimer
  <2>2. BootInv'  BY <1>3 DEF TypeOK, BootInv, LockInv, RetryTimer
  <2>3. (LockInv /\ NeverPastLock)'
    BY <1>3 DEF BootInv, LockInv, NeverPastLock, TypeOK, RetryTimer
  <2>4. (SocketInv /\ OnlineIsTrue /\ RenewalAlive /\ CoverAlive)'
    BY <1>3 DEF SocketInv, OnlineIsTrue, RenewalAlive, CoverAlive, RetryTimer
  <2> QED  BY <2>1, <2>2, <2>3, <2>4
<1>4. ASSUME tryRestore PROVE IInv'
  <2>1. TypeOK'  BY <1>4, BoundsAssumption DEF TypeOK, tryRestore
  <2>2. BootInv'  BY <1>4, BoundsAssumption DEF TypeOK, BootInv, LockInv, tryRestore
  <2>3. (LockInv /\ NeverPastLock)'
    BY <1>4 DEF BootInv, LockInv, NeverPastLock, TypeOK, tryRestore
  <2>4. (SocketInv /\ OnlineIsTrue /\ RenewalAlive /\ CoverAlive)'
    BY <1>4 DEF SocketInv, OnlineIsTrue, RenewalAlive, CoverAlive, tryRestore
  <2> QED  BY <2>1, <2>2, <2>3, <2>4
<1>5. ASSUME onUnlocked PROVE IInv'
  <2>1. TypeOK'  BY <1>5, BoundsAssumption DEF TypeOK, onUnlocked, SignedOut
  <2>2. BootInv'  BY <1>5, BoundsAssumption DEF TypeOK, BootInv, LockInv, onUnlocked, SignedOut
  <2>3. (LockInv /\ NeverPastLock)'
    BY <1>5 DEF BootInv, LockInv, NeverPastLock, TypeOK, onUnlocked, SignedOut
  <2>4. (SocketInv /\ OnlineIsTrue /\ RenewalAlive /\ CoverAlive)'
    BY <1>5 DEF SocketInv, OnlineIsTrue, RenewalAlive, CoverAlive, onUnlocked
  <2> QED  BY <2>1, <2>2, <2>3, <2>4
<1>6. ASSUME SignIn PROVE IInv'
  <2>1. TypeOK'
    <3>0. UNCHANGED <<starting, unlocked, live, renewal, reauth, sockets, cover, erasing, budget>>
      BY <1>6 DEF SignIn
    <3>1. device' \in [onboarded : BOOLEAN, lockOn : BOOLEAN]  BY <1>6 DEF TypeOK, SignIn
    <3>2. auth' \in [authed : BOOLEAN, token : 0..4]  BY <1>6, FreshToken DEF TypeOK, SignIn
    <3>3. expired' \in SUBSET (1..4)  BY <1>6, FreshToken DEF TypeOK, SignIn
    <3> QED  BY <3>0, <3>1, <3>2, <3>3 DEF TypeOK
  <2>2. (LockInv /\ NeverPastLock)'  BY <1>6 DEF BootInv, LockInv, NeverPastLock, TypeOK, SignIn
  <2>3. (BootInv /\ SocketInv /\ OnlineIsTrue /\ RenewalAlive /\ CoverAlive)'
    BY <1>6 DEF BootInv, SocketInv, OnlineIsTrue, RenewalAlive, CoverAlive, SignIn
  <2> QED  BY <2>1, <2>2, <2>3
<1>7. ASSUME SetLock PROVE IInv'
  <2>1. TypeOK'  BY <1>7, Spent DEF TypeOK, SetLock, Event
  <2>2. (LockInv /\ NeverPastLock)'
    BY <1>7 DEF BootInv, LockInv, NeverPastLock, TypeOK, SetLock, Event
  <2>3. (BootInv /\ SocketInv /\ OnlineIsTrue /\ RenewalAlive /\ CoverAlive)'
    BY <1>7 DEF BootInv, SocketInv, OnlineIsTrue, RenewalAlive, CoverAlive, SetLock
  <2> QED  BY <2>1, <2>2, <2>3
<1>8. ASSUME NEW o \in opens, TicketReply(o) PROVE IInv'
  <2>0. \/ socks' = socks
        \/ o.gen = "now" /\ ~conn.stopped /\ socks = {} /\ socks' = {[held |-> TRUE, state |-> "connecting"]}
    <3>1. CASE Superseded(o.gen)  BY <1>8, <3>1 DEF TicketReply
    <3>2. CASE ~Superseded(o.gen)
      <4>1. o.gen = "now" /\ ~conn.stopped  BY <3>2 DEF Superseded, IInv, TypeOK
      <4>2. socks = {}  BY <4>1 DEF SocketInv
      <4> QED  BY <1>8, <3>2, <4>1, <4>2 DEF TicketReply
    <3> QED  BY <3>1, <3>2
  <2>1. TypeOK'
    <3>0. UNCHANGED <<starting, stored, auth, expired, live, renewal, reauth, conn, cover, erasing, budget>>
      BY <1>8 DEF TicketReply
    <3>1. opens' \in SUBSET Opens  BY <1>8 DEF TypeOK, TicketReply, Superseded
    <3>2. socks' \in SUBSET Socks
      <4>1. [held |-> TRUE, state |-> "connecting"] \in Socks
        OBVIOUS
      <4>2. socks \in SUBSET Socks  BY DEF TypeOK
      <4> QED  BY <2>0, <4>1, <4>2
    <3> QED  BY <3>0, <3>1, <3>2 DEF TypeOK
  <2>2. (SocketInv /\ OnlineIsTrue)'
    <3>1. opens' = opens \ {o} /\ UNCHANGED <<conn, live>>  BY <1>8 DEF TicketReply
    <3>2. CASE socks' = socks  BY <3>1, <3>2 DEF SocketInv, OnlineIsTrue
    <3>3. CASE socks' # socks
      <4>1. o.gen = "now" /\ ~conn.stopped /\ socks = {} /\ socks' = {[held |-> TRUE, state |-> "connecting"]}
        BY <2>0, <3>3
      <4>2. \A p \in opens' : p.gen # "now"  BY <3>1, <4>1 DEF SocketInv
      <4>3. ~conn.online /\ conn.token # 0 /\ live # 0  BY <4>1 DEF SocketInv, OnlineIsTrue
      <4> QED  BY <3>1, <4>1, <4>2, <4>3 DEF SocketInv, OnlineIsTrue
    <3> QED  BY <3>2, <3>3
  <2>3. (BootInv /\ LockInv /\ NeverPastLock /\ RenewalAlive /\ CoverAlive)'
    BY <1>8 DEF BootInv, LockInv, NeverPastLock, RenewalAlive, CoverAlive, TicketReply
  <2> QED  BY <2>1, <2>2, <2>3
<1>9. ASSUME NEW o \in opens, TicketFails(o) PROVE IInv'
  <2>1. TypeOK'  BY <1>9, Spent DEF TypeOK, TicketFails, Superseded, scheduleReconnect, Event
  <2>2. (SocketInv /\ OnlineIsTrue)'
    BY <1>9 DEF TypeOK, LockInv, SocketInv, OnlineIsTrue, TicketFails, Superseded,
       scheduleReconnect, Event
  <2>3. (BootInv /\ LockInv /\ NeverPastLock /\ RenewalAlive /\ CoverAlive)'
    BY <1>9 DEF BootInv, LockInv, NeverPastLock, RenewalAlive, CoverAlive, TicketFails
  <2> QED  BY <2>1, <2>2, <2>3
<1>10. ASSUME NEW o \in opens, ReconnectTimer(o) PROVE IInv'
  <2>1. TypeOK'  BY <1>10 DEF TypeOK, ReconnectTimer, Superseded
  <2>2. (SocketInv /\ OnlineIsTrue)'
    BY <1>10 DEF TypeOK, LockInv, SocketInv, OnlineIsTrue, ReconnectTimer, Superseded
  <2>3. (BootInv /\ LockInv /\ NeverPastLock /\ RenewalAlive /\ CoverAlive)'
    BY <1>10 DEF BootInv, LockInv, NeverPastLock, RenewalAlive, CoverAlive, ReconnectTimer
  <2> QED  BY <2>1, <2>2, <2>3
<1>11. ASSUME NEW s \in socks, SocketOpens(s) PROVE IInv'
  <2>1. TypeOK'
    <3>0. UNCHANGED <<starting, stored, auth, expired, live, renewal, reauth, opens, cover, erasing, budget>>
      BY <1>11 DEF SocketOpens
    <3>1. socks' \in SUBSET Socks  BY <1>11 DEF TypeOK, SocketOpens
    <3>2. conn' \in Conns  BY <1>11 DEF TypeOK, SocketOpens
    <3> QED  BY <3>0, <3>1, <3>2 DEF TypeOK
  <2>2. (LockInv /\ NeverPastLock)'
    BY <1>11 DEF BootInv, LockInv, NeverPastLock, TypeOK, SocketOpens
  <2>3. (SocketInv /\ OnlineIsTrue)'
    <3>1. PICK t : t = [s EXCEPT !.state = "open"]  OBVIOUS
    <3>2. t.held /\ t.state = "open"  BY <3>1 DEF TypeOK, SocketInv
    <3>3. socks' = {t}  BY <1>11, <3>1 DEF SocketInv, SocketOpens
    <3>4. UNCHANGED <<opens, live, conn.stopped, conn.token>>  BY <1>11 DEF TypeOK, SocketOpens
    <3> QED  BY <3>2, <3>3, <3>4 DEF SocketInv, OnlineIsTrue
  <2>4. (BootInv /\ RenewalAlive /\ CoverAlive)'
    BY <1>11 DEF BootInv, RenewalAlive, CoverAlive, SocketOpens
  <2> QED  BY <2>1, <2>2, <2>3, <2>4
<1>12. ASSUME NEW s \in socks, SocketCloses(s) PROVE IInv'
  <2>1. TypeOK'
    <3>0. UNCHANGED <<starting, stored, auth, expired, live, renewal, reauth, cover, erasing>>
      BY <1>12 DEF SocketCloses
    <3>1. socks' \in SUBSET Socks
      BY <1>12 DEF TypeOK, SocketCloses, Superseded, scheduleReconnect, Event
    <3>2. conn' \in Conns
      BY <1>12 DEF TypeOK, SocketCloses, Superseded, scheduleReconnect, Event
    <3>3. opens' \in SUBSET Opens
      BY <1>12 DEF TypeOK, SocketCloses, Superseded, scheduleReconnect, Event
    <3>4. budget' \in 0..MaxEvents  BY <1>12, Spent DEF TypeOK, SocketCloses
    <3> QED  BY <3>0, <3>1, <3>2, <3>3, <3>4 DEF TypeOK
  <2>2. (LockInv /\ NeverPastLock)'
    BY <1>12 DEF BootInv, LockInv, NeverPastLock, TypeOK, SocketCloses, Superseded,
       scheduleReconnect, Event
  <2>3. (SocketInv /\ OnlineIsTrue)'
    BY <1>12 DEF TypeOK, LockInv, SocketInv, OnlineIsTrue, SocketCloses, Superseded,
       scheduleReconnect, Event
  <2>4. (BootInv /\ RenewalAlive /\ CoverAlive)'
    BY <1>12 DEF BootInv, RenewalAlive, CoverAlive, SocketCloses
  <2> QED  BY <2>1, <2>2, <2>3, <2>4
<1>13. ASSUME NEW s \in socks, SocketDies(s) PROVE IInv'
  <2>1. TypeOK'  BY <1>13, Spent DEF TypeOK, SocketDies, Event
  <2>2. (SocketInv /\ OnlineIsTrue)'
    <3>1. PICK t : t = [s EXCEPT !.state = "dead"]  OBVIOUS
    <3>2. t.held /\ t.state = "dead"  BY <3>1 DEF TypeOK, SocketInv
    <3>3. socks' = {t}  BY <1>13, <3>1 DEF SocketInv, SocketDies
    <3>4. UNCHANGED <<opens, live, conn.stopped, conn.token>>  BY <1>13 DEF TypeOK, SocketDies
    <3> QED  BY <3>2, <3>3, <3>4 DEF SocketInv, OnlineIsTrue
  <2>3. (BootInv /\ LockInv /\ NeverPastLock /\ RenewalAlive /\ CoverAlive)'
    BY <1>13 DEF BootInv, LockInv, NeverPastLock, RenewalAlive, CoverAlive, SocketDies
  <2> QED  BY <2>1, <2>2, <2>3
<1>14. ASSUME checkStaleness PROVE IInv'
  <2>1. TypeOK'
    <3>0. UNCHANGED <<starting, stored, auth, expired, live, renewal, reauth, cover, erasing>>
      BY <1>14 DEF checkStaleness
    <3>1. conn' \in Conns  BY <1>14 DEF TypeOK, checkStaleness, open, Bumped, Unheld, Event
    <3>2. opens' \in SUBSET Opens
      BY <1>14 DEF TypeOK, checkStaleness, open, Bumped, Unheld, Event
    <3>3. socks' \in SUBSET Socks
      BY <1>14 DEF TypeOK, checkStaleness, open, Bumped, Unheld, Event
    <3>4. budget' \in 0..MaxEvents  BY <1>14, Spent DEF TypeOK, checkStaleness
    <3> QED  BY <3>0, <3>1, <3>2, <3>3, <3>4 DEF TypeOK
  <2>2. (LockInv /\ NeverPastLock)'
    BY <1>14 DEF BootInv, LockInv, NeverPastLock, TypeOK, checkStaleness, open, Bumped,
       Unheld, Event
  <2>3. (SocketInv /\ OnlineIsTrue)'
    BY <1>14 DEF TypeOK, LockInv, SocketInv, OnlineIsTrue, checkStaleness, open, Bumped,
       Unheld, Event
  <2>4. (BootInv /\ RenewalAlive /\ CoverAlive)'
    BY <1>14 DEF BootInv, RenewalAlive, CoverAlive, checkStaleness
  <2> QED  BY <2>1, <2>2, <2>3, <2>4
<1>15. ASSUME CoverStarted PROVE IInv'
  <2>1. TypeOK'
    <3>0. UNCHANGED <<starting, stored, auth, expired, live, renewal, reauth, sockets, erasing, budget>>
      BY <1>15 DEF CoverStarted
    <3>1. cover' \in Covers
      <4>1. cover \in Covers  BY DEF TypeOK
      <4>2. [cover EXCEPT !.starting = @ - 1] \in Covers  BY <1>15, <4>1 DEF CoverStarted
      <4>3. cover' \in Covers  BY <1>15, <4>2, CoverOps DEF CoverStarted
      <4> QED  BY <4>3
    <3> QED  BY <3>0, <3>1 DEF TypeOK
  <2>2. (LockInv /\ NeverPastLock)'
    BY <1>15 DEF BootInv, LockInv, NeverPastLock, TypeOK, CoverStarted, SetTimer
  <2>3. (RenewalAlive /\ CoverAlive)'
    BY <1>15 DEF TypeOK, RenewalAlive, CoverAlive, CoverStarted, SetTimer
  <2>4. (BootInv /\ SocketInv /\ OnlineIsTrue)'
    BY <1>15 DEF BootInv, SocketInv, OnlineIsTrue, CoverStarted
  <2> QED  BY <2>1, <2>2, <2>3, <2>4
<1>16. ASSUME NEW own \in BOOLEAN, TickStart(own) PROVE IInv'
  <2>1. TypeOK'  BY <1>16 DEF TypeOK, TickStart
  <2>2. (LockInv /\ NeverPastLock)'
    BY <1>16 DEF BootInv, LockInv, NeverPastLock, TypeOK, TickStart
  <2>3. (RenewalAlive /\ CoverAlive)'  BY <1>16 DEF TypeOK, RenewalAlive, CoverAlive, TickStart
  <2>4. (BootInv /\ SocketInv /\ OnlineIsTrue)'
    BY <1>16 DEF BootInv, SocketInv, OnlineIsTrue, TickStart
  <2> QED  BY <2>1, <2>2, <2>3, <2>4
<1>17. ASSUME TickEnd PROVE IInv'
  <2>1. TypeOK'
    <3>0. UNCHANGED <<starting, stored, auth, expired, live, renewal, reauth, sockets, erasing, budget>>
      BY <1>17 DEF TickEnd
    <3>1. cover' \in Covers
      <4>1. cover \in Covers  BY DEF TypeOK
      <4>2. [cover EXCEPT !.ticking = @ - 1] \in Covers  BY <1>17, <4>1 DEF TickEnd
      <4>3. cover' \in Covers  BY <1>17, <4>2, CoverOps DEF TickEnd
      <4> QED  BY <4>3
    <3> QED  BY <3>0, <3>1 DEF TypeOK
  <2>2. (LockInv /\ NeverPastLock)'
    BY <1>17 DEF BootInv, LockInv, NeverPastLock, TypeOK, TickEnd, SetTimer
  <2>3. (RenewalAlive /\ CoverAlive)'
    BY <1>17 DEF TypeOK, RenewalAlive, CoverAlive, TickEnd, SetTimer
  <2>4. (BootInv /\ SocketInv /\ OnlineIsTrue)'
    BY <1>17 DEF BootInv, SocketInv, OnlineIsTrue, TickEnd
  <2> QED  BY <2>1, <2>2, <2>3, <2>4
<1>18. ASSUME TokenExpires PROVE IInv'
  <2>1. TypeOK'
    <3>0. UNCHANGED <<starting, stored, auth, live, renewal, reauth, sockets, cover, erasing>>
      BY <1>18 DEF TokenExpires
    <3>1. expired' \in SUBSET (1..4)
      <4>1. auth.token \in 1..4 /\ expired \in SUBSET (1..4)  BY <1>18 DEF TypeOK, TokenExpires
      <4> QED  BY <1>18, <4>1 DEF TokenExpires
    <3>2. budget' \in 0..MaxEvents  BY <1>18, Spent DEF TypeOK, TokenExpires
    <3> QED  BY <3>0, <3>1, <3>2 DEF TypeOK
  <2>2. (BootInv /\ LockInv /\ NeverPastLock /\ SocketInv /\ OnlineIsTrue /\ RenewalAlive /\ CoverAlive)'
    BY <1>18 DEF BootInv, LockInv, NeverPastLock, SocketInv, OnlineIsTrue, RenewalAlive,
       CoverAlive, TokenExpires
  <2> QED  BY <2>1, <2>2
<1>19. ASSUME RenewTimer PROVE IInv'
  <2>1. TypeOK'
    <3>0. UNCHANGED <<starting, stored, auth, expired, live, sockets, cover, erasing>>
      BY <1>19 DEF RenewTimer
    <3>1. renewal' \in [enabled : BOOLEAN, timer : BOOLEAN, waiting : BOOLEAN]
      BY <1>19 DEF TypeOK, RenewTimer, Event
    <3>2. reauth' \in BOOLEAN  BY <1>19 DEF TypeOK, RenewTimer, Event
    <3>3. budget' \in 0..MaxEvents  BY <1>19, Spent DEF TypeOK, RenewTimer
    <3> QED  BY <3>0, <3>1, <3>2, <3>3 DEF TypeOK
  <2>2. (RenewalAlive /\ CoverAlive)'
    BY <1>19 DEF TypeOK, RenewalAlive, CoverAlive, RenewTimer, Event
  <2>3. (BootInv /\ LockInv /\ NeverPastLock /\ SocketInv /\ OnlineIsTrue)'
    BY <1>19 DEF BootInv, LockInv, NeverPastLock, SocketInv, OnlineIsTrue, RenewTimer
  <2> QED  BY <2>1, <2>2, <2>3
<1>20. ASSUME Unauthorized PROVE IInv'
  <2>1. TypeOK'  BY <1>20 DEF TypeOK, Unauthorized
  <2>2. (RenewalAlive /\ CoverAlive)'
    BY <1>20 DEF TypeOK, RenewalAlive, CoverAlive, Unauthorized
  <2>3. (BootInv /\ LockInv /\ NeverPastLock /\ SocketInv /\ OnlineIsTrue)'
    BY <1>20 DEF BootInv, LockInv, NeverPastLock, SocketInv, OnlineIsTrue, Unauthorized
  <2> QED  BY <2>1, <2>2, <2>3
<1>21. ASSUME ReauthReply PROVE IInv'
  <2>1. TypeOK'
    <3>0. UNCHANGED <<starting, stored, live, sockets, cover, erasing, budget>>
      BY <1>21 DEF ReauthReply
    <3>1. reauth' \in BOOLEAN  BY <1>21 DEF TypeOK, ReauthReply, Renewed, Renewal, StillSignedIn
    <3>2. expired' \in SUBSET (1..4)
      BY <1>21, FreshToken DEF TypeOK, ReauthReply, Renewed, Renewal, StillSignedIn
    <3>3. auth' \in [authed : BOOLEAN, token : 0..4]
      BY <1>21, FreshToken DEF TypeOK, ReauthReply, Renewed, Renewal, StillSignedIn
    <3>4. renewal' \in [enabled : BOOLEAN, timer : BOOLEAN, waiting : BOOLEAN]
      BY <1>21 DEF TypeOK, ReauthReply, Renewed, Renewal, StillSignedIn
    <3> QED  BY <3>0, <3>1, <3>2, <3>3, <3>4 DEF TypeOK
  <2>2. (LockInv /\ NeverPastLock)'
    <3>1. UNCHANGED <<boot, device, unlocked, conn, cover>>  BY <1>21 DEF ReauthReply
    <3>2. ~auth.authed => auth' = auth  BY <1>21 DEF ReauthReply, StillSignedIn
    <3>3. boot = "locked" => ~auth.authed  BY DEF LockInv, SignedOut
    <3> QED  BY <3>1, <3>2, <3>3 DEF LockInv, NeverPastLock
  <2>3. (RenewalAlive /\ CoverAlive)'
    BY <1>21 DEF TypeOK, RenewalAlive, CoverAlive, ReauthReply, Renewed, Renewal,
       StillSignedIn
  <2>4. (BootInv /\ SocketInv /\ OnlineIsTrue)'
    BY <1>21 DEF BootInv, SocketInv, OnlineIsTrue, ReauthReply
  <2> QED  BY <2>1, <2>2, <2>3, <2>4
<1>22. ASSUME ReauthFails PROVE IInv'
  <2>1. TypeOK'
    <3>0. UNCHANGED <<starting, stored, auth, expired, live, sockets, cover, erasing>>
      BY <1>22 DEF ReauthFails
    <3>1. reauth' \in BOOLEAN
      BY <1>22 DEF TypeOK, ReauthFails, Renewed, Renewal, StillSignedIn, Event
    <3>2. renewal' \in [enabled : BOOLEAN, timer : BOOLEAN, waiting : BOOLEAN]
      BY <1>22 DEF TypeOK, ReauthFails, Renewed, Renewal, StillSignedIn, Event
    <3>3. budget' \in 0..MaxEvents  BY <1>22, Spent DEF TypeOK, ReauthFails
    <3> QED  BY <3>0, <3>1, <3>2, <3>3 DEF TypeOK
  <2>2. (RenewalAlive /\ CoverAlive)'
    BY <1>22 DEF TypeOK, RenewalAlive, CoverAlive, ReauthFails, Renewed, Renewal,
       StillSignedIn, Event
  <2>3. (BootInv /\ LockInv /\ NeverPastLock /\ SocketInv /\ OnlineIsTrue)'
    BY <1>22 DEF BootInv, LockInv, NeverPastLock, SocketInv, OnlineIsTrue, ReauthFails
  <2> QED  BY <2>1, <2>2, <2>3
<1>23. ASSUME ConnectionEffect PROVE IInv'  BY <1>23, EffectStep
<1>24. ASSUME lockApp PROVE IInv'
  <2>1. TypeOK'
    <3>0. UNCHANGED <<restore, retries, device, expired, live, renewal, reauth, erasing>>
      BY <1>24 DEF lockApp
    <3>1. boot' \in {"loading", "ready", "offline", "locked"}
      BY <1>24 DEF TypeOK, lockApp, StopCover, disconnectWebSocket, Bumped, Unheld, SignedOut,
         Event
    <3>2. unlocked' \in BOOLEAN
      BY <1>24 DEF TypeOK, lockApp, StopCover, disconnectWebSocket, Bumped, Unheld, SignedOut,
         Event
    <3>3. cover' \in Covers
      <4>1. cover \in Covers  BY DEF TypeOK
      <4> QED  BY <1>24, <4>1, CoverOps DEF lockApp
    <3>4. conn' \in Conns
      BY <1>24 DEF TypeOK, lockApp, StopCover, disconnectWebSocket, Bumped, Unheld, SignedOut,
         Event
    <3>5. opens' \in SUBSET Opens
      BY <1>24 DEF TypeOK, lockApp, StopCover, disconnectWebSocket, Bumped, Unheld, SignedOut,
         Event
    <3>6. socks' \in SUBSET Socks
      BY <1>24 DEF TypeOK, lockApp, StopCover, disconnectWebSocket, Bumped, Unheld, SignedOut,
         Event
    <3>7. auth' \in [authed : BOOLEAN, token : 0..4]
      BY <1>24, FreshToken DEF TypeOK, lockApp, StopCover, disconnectWebSocket, Bumped,
         Unheld, SignedOut, Event
    <3>8. budget' \in 0..MaxEvents  BY <1>24, Spent DEF TypeOK, lockApp
    <3> QED  BY <3>0, <3>1, <3>2, <3>3, <3>4, <3>5, <3>6, <3>7, <3>8 DEF TypeOK
  <2>2. BootInv'
    BY <1>24 DEF TypeOK, BootInv, LockInv, lockApp, StopCover, disconnectWebSocket, Bumped,
       Unheld, SignedOut, Event
  <2>3. (LockInv /\ NeverPastLock)'
    BY <1>24 DEF BootInv, LockInv, NeverPastLock, TypeOK, lockApp, StopCover,
       disconnectWebSocket, Bumped, Unheld, SignedOut, Event
  <2>4. (SocketInv /\ OnlineIsTrue)'
    BY <1>24 DEF TypeOK, LockInv, SocketInv, OnlineIsTrue, lockApp, StopCover,
       disconnectWebSocket, Bumped, Unheld, SignedOut, Event
  <2>5. (RenewalAlive /\ CoverAlive)'
    BY <1>24 DEF TypeOK, RenewalAlive, CoverAlive, lockApp, StopCover, disconnectWebSocket,
       Bumped, Unheld, SignedOut, Event
  <2> QED  BY <2>1, <2>2, <2>3, <2>4, <2>5
<1>25. ASSUME Reload PROVE IInv'
  <2>1. TypeOK'
    <3>0. UNCHANGED <<device, expired>>  BY <1>25 DEF Reload, Reloaded
    <3>1. boot' \in {"loading", "ready", "offline", "locked"}
      BY <1>25 DEF TypeOK, Reload, Reloaded, startBoot, Gated, SignedOut, Renewal,
         Disconnected, NoCover, Event
    <3>2. restore' \in {"idle", "asked", "timer"}
      BY <1>25 DEF TypeOK, Reload, Reloaded, startBoot, Gated, SignedOut, Renewal,
         Disconnected, NoCover, Event
    <3>3. retries' \in 0..(MAX_BOOT_RETRIES + 1)
      BY <1>25, BoundsAssumption DEF TypeOK, Reload, Reloaded, startBoot, Gated, SignedOut,
         Renewal, Disconnected, NoCover, Event
    <3>4. unlocked' \in BOOLEAN
      BY <1>25 DEF TypeOK, Reload, Reloaded, startBoot, Gated, SignedOut, Renewal,
         Disconnected, NoCover, Event
    <3>5. auth' \in [authed : BOOLEAN, token : 0..4]
      BY <1>25, FreshToken DEF TypeOK, Reload, Reloaded, startBoot, Gated, SignedOut, Renewal,
         Disconnected, NoCover, Event
    <3>6. live' \in 0..4
      BY <1>25 DEF TypeOK, Reload, Reloaded, startBoot, Gated, SignedOut, Renewal,
         Disconnected, NoCover, Event
    <3>7. renewal' \in [enabled : BOOLEAN, timer : BOOLEAN, waiting : BOOLEAN]
      BY <1>25 DEF TypeOK, Reload, Reloaded, startBoot, Gated, SignedOut, Renewal,
         Disconnected, NoCover, Event
    <3>8. reauth' \in BOOLEAN
      BY <1>25 DEF TypeOK, Reload, Reloaded, startBoot, Gated, SignedOut, Renewal,
         Disconnected, NoCover, Event
    <3>9. conn' \in Conns
      BY <1>25 DEF TypeOK, Reload, Reloaded, startBoot, Gated, SignedOut, Renewal,
         Disconnected, NoCover, Event
    <3>10. opens' \in SUBSET Opens
      BY <1>25 DEF TypeOK, Reload, Reloaded, startBoot, Gated, SignedOut, Renewal,
         Disconnected, NoCover, Event
    <3>11. socks' \in SUBSET Socks
      BY <1>25 DEF TypeOK, Reload, Reloaded, startBoot, Gated, SignedOut, Renewal,
         Disconnected, NoCover, Event
    <3>12. cover' \in Covers
      BY <1>25 DEF TypeOK, Reload, Reloaded, startBoot, Gated, SignedOut, Renewal,
         Disconnected, NoCover, Event
    <3>13. erasing' \in BOOLEAN
      BY <1>25 DEF TypeOK, Reload, Reloaded, startBoot, Gated, SignedOut, Renewal,
         Disconnected, NoCover, Event
    <3>14. budget' \in 0..MaxEvents  BY <1>25, Spent DEF TypeOK, Reload
    <3> QED
      BY <3>0, <3>1, <3>2, <3>3, <3>4, <3>5, <3>6, <3>7, <3>8, <3>9, <3>10, <3>11, <3>12,
         <3>13, <3>14 DEF TypeOK
  <2>2. BootInv'
    BY <1>25, BoundsAssumption DEF TypeOK, BootInv, LockInv, Reload, Reloaded, startBoot,
       Gated, SignedOut, Renewal, Disconnected, NoCover, Event
  <2>3. (LockInv /\ NeverPastLock)'
    BY <1>25 DEF BootInv, LockInv, NeverPastLock, TypeOK, Reload, Reloaded, startBoot, Gated,
       SignedOut, Renewal, Disconnected, NoCover, Event
  <2>4. (SocketInv /\ OnlineIsTrue)'
    BY <1>25 DEF TypeOK, LockInv, SocketInv, OnlineIsTrue, Reload, Reloaded, startBoot, Gated,
       SignedOut, Renewal, Disconnected, NoCover, Event
  <2>5. (RenewalAlive /\ CoverAlive)'
    BY <1>25 DEF TypeOK, RenewalAlive, CoverAlive, Reload, Reloaded, startBoot, Gated,
       SignedOut, Renewal, Disconnected, NoCover, Event
  <2> QED  BY <2>1, <2>2, <2>3, <2>4, <2>5
<1>26. ASSUME eraseThisDevice PROVE IInv'
  <2>1. TypeOK'
    <3>0. UNCHANGED <<starting, stored, auth, expired, live, renewal, reauth>>
      BY <1>26 DEF eraseThisDevice
    <3>1. erasing' \in BOOLEAN
      BY <1>26 DEF TypeOK, eraseThisDevice, StopCover, disconnectWebSocket, Bumped, Unheld,
         Event
    <3>2. cover' \in Covers
      <4>1. cover \in Covers  BY DEF TypeOK
      <4> QED  BY <1>26, <4>1, CoverOps DEF eraseThisDevice
    <3>3. conn' \in Conns
      BY <1>26 DEF TypeOK, eraseThisDevice, StopCover, disconnectWebSocket, Bumped, Unheld,
         Event
    <3>4. opens' \in SUBSET Opens
      BY <1>26 DEF TypeOK, eraseThisDevice, StopCover, disconnectWebSocket, Bumped, Unheld,
         Event
    <3>5. socks' \in SUBSET Socks
      BY <1>26 DEF TypeOK, eraseThisDevice, StopCover, disconnectWebSocket, Bumped, Unheld,
         Event
    <3>6. budget' \in 0..MaxEvents  BY <1>26, Spent DEF TypeOK, eraseThisDevice
    <3> QED  BY <3>0, <3>1, <3>2, <3>3, <3>4, <3>5, <3>6 DEF TypeOK
  <2>2. (LockInv /\ NeverPastLock)'
    BY <1>26 DEF BootInv, LockInv, NeverPastLock, TypeOK, eraseThisDevice, StopCover,
       disconnectWebSocket, Bumped, Unheld, Event
  <2>3. (SocketInv /\ OnlineIsTrue)'
    BY <1>26 DEF TypeOK, LockInv, SocketInv, OnlineIsTrue, eraseThisDevice, StopCover,
       disconnectWebSocket, Bumped, Unheld, Event
  <2>4. (RenewalAlive /\ CoverAlive)'
    BY <1>26 DEF TypeOK, RenewalAlive, CoverAlive, eraseThisDevice, StopCover,
       disconnectWebSocket, Bumped, Unheld, Event
  <2>5. BootInv'  BY <1>26 DEF BootInv, eraseThisDevice
  <2> QED  BY <2>1, <2>2, <2>3, <2>4, <2>5
<1>27. ASSUME Erased PROVE IInv'
  <2>1. TypeOK'
    <3>0. UNCHANGED <<expired, budget>>  BY <1>27 DEF Erased, Reloaded
    <3>1. boot' \in {"loading", "ready", "offline", "locked"}
      BY <1>27 DEF TypeOK, Erased, Reloaded, startBoot, Gated, SignedOut, Renewal,
         Disconnected, NoCover
    <3>2. restore' \in {"idle", "asked", "timer"}
      BY <1>27 DEF TypeOK, Erased, Reloaded, startBoot, Gated, SignedOut, Renewal,
         Disconnected, NoCover
    <3>3. retries' \in 0..(MAX_BOOT_RETRIES + 1)
      BY <1>27, BoundsAssumption DEF TypeOK, Erased, Reloaded, startBoot, Gated, SignedOut,
         Renewal, Disconnected, NoCover
    <3>4. device' \in [onboarded : BOOLEAN, lockOn : BOOLEAN]
      BY <1>27 DEF TypeOK, Erased, Reloaded, startBoot, Gated, SignedOut, Renewal,
         Disconnected, NoCover
    <3>5. unlocked' \in BOOLEAN
      BY <1>27 DEF TypeOK, Erased, Reloaded, startBoot, Gated, SignedOut, Renewal,
         Disconnected, NoCover
    <3>6. auth' \in [authed : BOOLEAN, token : 0..4]
      BY <1>27, FreshToken DEF TypeOK, Erased, Reloaded, startBoot, Gated, SignedOut, Renewal,
         Disconnected, NoCover
    <3>7. live' \in 0..4
      BY <1>27 DEF TypeOK, Erased, Reloaded, startBoot, Gated, SignedOut, Renewal,
         Disconnected, NoCover
    <3>8. renewal' \in [enabled : BOOLEAN, timer : BOOLEAN, waiting : BOOLEAN]
      BY <1>27 DEF TypeOK, Erased, Reloaded, startBoot, Gated, SignedOut, Renewal,
         Disconnected, NoCover
    <3>9. reauth' \in BOOLEAN
      BY <1>27 DEF TypeOK, Erased, Reloaded, startBoot, Gated, SignedOut, Renewal,
         Disconnected, NoCover
    <3>10. conn' \in Conns
      BY <1>27 DEF TypeOK, Erased, Reloaded, startBoot, Gated, SignedOut, Renewal,
         Disconnected, NoCover
    <3>11. opens' \in SUBSET Opens
      BY <1>27 DEF TypeOK, Erased, Reloaded, startBoot, Gated, SignedOut, Renewal,
         Disconnected, NoCover
    <3>12. socks' \in SUBSET Socks
      BY <1>27 DEF TypeOK, Erased, Reloaded, startBoot, Gated, SignedOut, Renewal,
         Disconnected, NoCover
    <3>13. cover' \in Covers
      BY <1>27 DEF TypeOK, Erased, Reloaded, startBoot, Gated, SignedOut, Renewal,
         Disconnected, NoCover
    <3>14. erasing' \in BOOLEAN
      BY <1>27 DEF TypeOK, Erased, Reloaded, startBoot, Gated, SignedOut, Renewal,
         Disconnected, NoCover
    <3> QED
      BY <3>0, <3>1, <3>2, <3>3, <3>4, <3>5, <3>6, <3>7, <3>8, <3>9, <3>10, <3>11, <3>12,
         <3>13, <3>14 DEF TypeOK
  <2>2. BootInv'
    BY <1>27, BoundsAssumption DEF TypeOK, BootInv, LockInv, Erased, Reloaded, startBoot,
       Gated, SignedOut, Renewal, Disconnected, NoCover
  <2>3. (LockInv /\ NeverPastLock)'
    BY <1>27 DEF BootInv, LockInv, NeverPastLock, TypeOK, Erased, Reloaded, startBoot, Gated,
       SignedOut, Renewal, Disconnected, NoCover
  <2>4. (SocketInv /\ OnlineIsTrue)'
    BY <1>27 DEF TypeOK, LockInv, SocketInv, OnlineIsTrue, Erased, Reloaded, startBoot, Gated,
       SignedOut, Renewal, Disconnected, NoCover
  <2>5. (RenewalAlive /\ CoverAlive)'
    BY <1>27 DEF TypeOK, RenewalAlive, CoverAlive, Erased, Reloaded, startBoot, Gated,
       SignedOut, Renewal, Disconnected, NoCover
  <2> QED  BY <2>1, <2>2, <2>3, <2>4, <2>5
<1> QED
  BY <1>0, <1>1, <1>2, <1>3, <1>4, <1>5, <1>6, <1>7, <1>8, <1>9, <1>10, <1>11, <1>12, <1>13,
     <1>14, <1>15, <1>16, <1>17, <1>18, <1>19, <1>20, <1>21, <1>22, <1>23, <1>24, <1>25,
     <1>26, <1>27 DEF Next

(***************************************************************************)
(* The invariant, and what follows from it.                                *)
(***************************************************************************)
\* The strengthening is an invariant of a tab, for every bound.
THEOREM Inductive == Spec => []IInv
  BY Start, Step, PTL DEF Spec

\* Every variable keeps its shape.
THEOREM SessionTyped == Spec => []TypeOK
<1>1. IInv => TypeOK  BY DEF IInv
<1> QED  BY <1>1, Inductive, PTL

\* Behind the lock screen there is no key, no token, no socket and no cover traffic, and
\* no start gets round it: LockedInert and NeverPastLock (session.ts, App.tsx).
THEOREM LockAlwaysHolds == Spec => []LockHolds
<1>1. IInv => LockedInert
  <2> SUFFICES ASSUME IInv, boot = "locked" PROVE LockedInert  BY DEF LockedInert
  <2>1. ~unlocked /\ auth = SignedOut /\ ~cover.running  BY DEF IInv, LockInv
  <2>2. socks = {}  BY DEF IInv, LockInv, SocketInv
  <2>3. ~conn.online  BY <2>2 DEF IInv, OnlineIsTrue
  <2> QED  BY <2>1, <2>2, <2>3 DEF LockedInert
<1>2. IInv => LockHolds  BY <1>1 DEF IInv, LockHolds
<1> QED  BY <1>2, Inductive, PTL

\* There is one socket at most, it is the one held, and the status shown is its own
\* (websocket.ts).
THEOREM SocketAlwaysTrue == Spec => []SocketTrue
<1>1. IInv => Cardinality(socks) <= 1
  <2> SUFFICES ASSUME IInv PROVE Cardinality(socks) <= 1  OBVIOUS
  <2>1. CASE socks = {}  BY <2>1, FS_EmptySet
  <2>2. CASE socks # {}
    <3>1. PICK s \in socks : TRUE  BY <2>2
    <3>2. socks = {s}  BY <3>1 DEF IInv, SocketInv
    <3> QED  BY <3>2, FS_Singleton
  <2> QED  BY <2>1, <2>2
<1>2. IInv => SocketTrue  BY <1>1 DEF IInv, SocketInv, OneSocket, SocketTrue
<1> QED  BY <1>2, Inductive, PTL

\* Neither the renewal of the token nor the loop of ticks ever dies (auth-session.ts,
\* cover-traffic.ts).
THEOREM TimersStayAlive == Spec => []TimersAlive
<1>1. IInv => TimersAlive  BY DEF IInv, TimersAlive
<1> QED  BY <1>1, Inductive, PTL
=============================================================================
