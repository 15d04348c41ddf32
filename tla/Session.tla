------------------------------- MODULE Session -------------------------------
(***************************************************************************)
(* One open tab of the web app: how it starts, signs in, keeps its token   *)
(* fresh, holds the WebSocket, runs the cover-traffic loop, locks itself   *)
(* and is erased (App.tsx, services/auth-session.ts, websocket.ts,         *)
(* cover-traffic.ts, session.ts, components/AppLockGuard.tsx).             *)
(*                                                                         *)
(* A step is what runs between two awaits, so that timers, replies of the  *)
(* server, socket events, React effects and the user's actions interleave. *)
(***************************************************************************)
EXTENDS Naturals, FiniteSets

CONSTANTS
    MAX_BOOT_RETRIES,   \* App.tsx: failed starts before the offline screen
    MaxEvents           \* bound: failures, locks, reloads, erasures, returns to the
                        \* tab and tokens that run out or are renewed, all together

ASSUME BoundsAssumption ==
    {MAX_BOOT_RETRIES, MaxEvents} \subseteq Nat

VARIABLES
    boot,       \* the screen App shows
    restore,    \* restoreSession: "idle", "asked", or "timer" before a retry
    retries,    \* App: failed starts so far
    device,     \* what storage says: [onboarded, lockOn]
    unlocked,   \* keystore: the data key is in memory
    auth,       \* store/auth: [authed, token], token 0 when there is none
    expired,    \* server: the tokens past their day
    live,       \* App: the token its connection effect is set up for, or 0
    renewal,    \* auth-session: [enabled, timer, waiting]
    reauth,     \* auth-session: reauthenticate is in flight
    conn,       \* websocket: [stopped, token, online]
    opens,      \* calls of open in flight: [gen, at]
    socks,      \* sockets not closed yet: [held, state], held: it is "ws"
    cover,      \* cover-traffic: [running, starting, timer, orphans, ticking]
    erasing,    \* eraseThisDevice has begun
    budget      \* what is left of MaxEvents

vars == <<boot, restore, retries, device, unlocked, auth, expired, live, renewal,
          reauth, conn, opens, socks, cover, erasing, budget>>

starting == <<boot, restore, retries>>
stored == <<device, unlocked>>
sockets == <<conn, opens, socks>>

SignedOut == [authed |-> FALSE, token |-> 0]
Renewal(on, armed) == [enabled |-> on, timer |-> armed, waiting |-> FALSE]
NoCover == [running |-> FALSE, starting |-> 0, timer |-> 0, orphans |-> 0, ticking |-> 0]
Disconnected == [stopped |-> FALSE, token |-> 0, online |-> FALSE]

\* getMasterKey answers: there is no lock, or it is open.
KeyAtHand == unlocked \/ ~device.lockOn

\* A token just minted: any that nobody holds, so that four names are enough.
NewToken == CHOOSE t \in 1..4 : t \notin {auth.token, live, conn.token}
Event == budget > 0 /\ budget' = budget - 1

(***************************************************************************)
(* Start: a lock gates everything; otherwise the session is restored.      *)
(***************************************************************************)
Gated(d, u) == d.lockOn /\ ~u

startBoot(d) ==
    /\ boot' = IF Gated(d, FALSE) THEN "locked" ELSE "loading"
    /\ restore' = IF Gated(d, FALSE) THEN "idle" ELSE "asked"
    /\ retries' = 0

Fresh ==
    /\ unlocked = FALSE
    /\ auth = SignedOut
    /\ live = 0
    /\ renewal = Renewal(FALSE, FALSE)
    /\ reauth = FALSE
    /\ conn = Disconnected
    /\ opens = {}
    /\ socks = {}
    /\ cover = NoCover
    /\ erasing = FALSE

Init ==
    /\ Fresh
    /\ device \in {[onboarded |-> TRUE, lockOn |-> TRUE],
                   [onboarded |-> TRUE, lockOn |-> FALSE],
                   [onboarded |-> FALSE, lockOn |-> FALSE]}
    /\ boot = IF Gated(device, FALSE) THEN "locked" ELSE "loading"
    /\ restore = IF Gated(device, FALSE) THEN "idle" ELSE "asked"
    /\ retries = 0
    /\ expired = {}
    /\ budget = MaxEvents

\* A finished identity signs in; without one the app shows the onboarding.
RestoreReply ==
    /\ restore = "asked"
    /\ KeyAtHand
    /\ boot' = "ready"
    /\ restore' = "idle"
    /\ auth' = IF device.onboarded THEN [authed |-> TRUE, token |-> NewToken] ELSE auth
    /\ expired' = expired \ {NewToken}
    /\ UNCHANGED <<retries, stored, live, renewal, reauth, sockets, cover, erasing, budget>>

RestoreFails ==
    /\ restore = "asked"
    /\ device.onboarded
    /\ Event
    /\ retries' = retries + 1
    /\ IF retries < MAX_BOOT_RETRIES
       THEN restore' = "timer" /\ boot' = boot
       ELSE restore' = "idle" /\ boot' = "offline"
    /\ UNCHANGED <<stored, auth, expired, live, renewal, reauth, sockets, cover, erasing>>

RetryTimer ==
    /\ restore = "timer"
    /\ restore' = "asked"
    /\ boot' = "loading"
    /\ UNCHANGED <<retries, stored, auth, expired, live, renewal, reauth, sockets, cover,
                   erasing, budget>>

\* The Retry button of the offline screen.
tryRestore ==
    /\ boot = "offline"
    /\ retries' = 0
    /\ restore' = "asked"
    /\ boot' = "loading"
    /\ UNCHANGED <<stored, auth, expired, live, renewal, reauth, sockets, cover, erasing, budget>>

\* The unlock screen got the data key; the session is restored unless it survived.
onUnlocked ==
    /\ boot = "locked"
    /\ unlocked' = TRUE
    /\ IF auth.authed
       THEN boot' = "ready" /\ UNCHANGED <<restore, retries>>
       ELSE boot' = "loading" /\ restore' = "asked" /\ retries' = 0
    /\ UNCHANGED <<device, auth, expired, live, renewal, reauth, sockets, cover, erasing, budget>>

\* Onboarding ends, or an account is recovered: this device is signed in.
SignIn ==
    /\ boot = "ready"
    /\ ~device.onboarded
    /\ device' = [device EXCEPT !.onboarded = TRUE]
    /\ auth' = [authed |-> TRUE, token |-> NewToken]
    /\ expired' = expired \ {NewToken}
    /\ UNCHANGED <<starting, unlocked, live, renewal, reauth, sockets, cover, erasing, budget>>

\* Settings turns the lock on (the new data key stays in memory) or off.
SetLock ==
    /\ boot = "ready"
    /\ auth.authed
    /\ device.lockOn => unlocked
    /\ Event
    /\ device' = [device EXCEPT !.lockOn = ~@]
    /\ unlocked' = TRUE
    /\ UNCHANGED <<starting, auth, expired, live, renewal, reauth, sockets, cover, erasing>>

(***************************************************************************)
(* The WebSocket.  gen is bumped by every connect and disconnect, so that  *)
(* an attempt that was overtaken ends without effect: an attempt's gen is  *)
(* "now" while it is the module's and "past" once it was bumped.           *)
(***************************************************************************)
Superseded(g) == conn.stopped \/ g = "past"
Bumped(os) == {[o EXCEPT !.gen = "past"] : o \in os}
Unheld == {s \in socks : ~s.held}

\* open(++gen), up to its await.
open(c, os) ==
    IF c.stopped \/ c.token = 0 THEN Bumped(os)
    ELSE Bumped(os) \cup {[gen |-> "now", at |-> "ticket"]}

scheduleReconnect_Once(os, g) == os

scheduleReconnect(os, g) == IF Superseded(g) THEN os ELSE os \cup {[gen |-> g, at |-> "timer"]}

\* The socket held is closed (Unheld) and gen bumped (Bumped) as well.
disconnectWebSocket == [stopped |-> TRUE, token |-> 0, online |-> FALSE]

TicketReply_Late(o) ==
    /\ o \in opens /\ o.at = "ticket"
    /\ conn.token \notin expired
    /\ opens' = opens \ {o}
    /\ socks' = {[s EXCEPT !.held = FALSE] : s \in socks} \cup {[held |-> TRUE, state |-> "connecting"]}
    /\ UNCHANGED <<starting, stored, auth, expired, live, renewal, reauth, conn, cover, erasing, budget>>

TicketReply(o) ==
    /\ o \in opens /\ o.at = "ticket"
    /\ conn.token \notin expired
    /\ opens' = opens \ {o}
    /\ socks' = IF Superseded(o.gen) THEN socks
                ELSE {[s EXCEPT !.held = FALSE] : s \in socks} \cup {[held |-> TRUE, state |-> "connecting"]}
    /\ UNCHANGED <<starting, stored, auth, expired, live, renewal, reauth, conn, cover, erasing, budget>>

\* The request fails: the server is unreachable, or refuses an expired token.
TicketFails(o) ==
    /\ o \in opens /\ o.at = "ticket"
    /\ IF conn.token \in expired THEN UNCHANGED budget ELSE Event
    /\ opens' = scheduleReconnect(opens \ {o}, o.gen)
    /\ UNCHANGED <<starting, stored, auth, expired, live, renewal, reauth, conn, socks, cover, erasing>>

ReconnectTimer(o) ==
    /\ o \in opens /\ o.at = "timer"
    /\ opens' = (opens \ {o}) \cup
                (IF Superseded(o.gen) \/ conn.token = 0 THEN {} ELSE {[o EXCEPT !.at = "ticket"]})
    /\ UNCHANGED <<starting, stored, auth, expired, live, renewal, reauth, conn, socks, cover,
                   erasing, budget>>

SocketOpens(s) ==
    /\ s \in socks /\ s.state = "connecting"
    /\ socks' = (socks \ {s}) \cup {[s EXCEPT !.state = "open"]}
    /\ conn' = [conn EXCEPT !.online = TRUE]
    /\ UNCHANGED <<starting, stored, auth, expired, live, renewal, reauth, opens, cover, erasing, budget>>

\* onclose: the network or the server ended it.
SocketCloses(s) ==
    /\ s \in socks /\ s.state \in {"connecting", "open"}
    /\ Event
    /\ socks' = socks \ {s}
    /\ IF s.held
       THEN /\ conn' = [conn EXCEPT !.online = FALSE]
            /\ opens' = scheduleReconnect(opens, "now")
       ELSE UNCHANGED <<conn, opens>>
    /\ UNCHANGED <<starting, stored, auth, expired, live, renewal, reauth, cover, erasing>>

\* A suspended tab misses the end of its socket: nothing is heard any more.
SocketDies(s) ==
    /\ s \in socks /\ s.state = "open"
    /\ Event
    /\ socks' = (socks \ {s}) \cup {[s EXCEPT !.state = "dead"]}
    /\ UNCHANGED <<starting, stored, auth, expired, live, renewal, reauth, conn, opens, cover, erasing>>

\* The tab becomes visible again and has no socket, or one from which nothing came
\* for STALE_MS.
checkStaleness ==
    /\ ~conn.stopped /\ conn.token # 0
    /\ IF Unheld = socks THEN Event
       ELSE (\E s \in socks : s.held /\ s.state = "dead") /\ UNCHANGED budget
    /\ conn' = [conn EXCEPT !.online = FALSE]
    /\ opens' = open(conn, opens)
    /\ socks' = Unheld
    /\ UNCHANGED <<starting, stored, auth, expired, live, renewal, reauth, cover, erasing>>

(***************************************************************************)
(* The cover-traffic loop.  "timer" is the timer the module can cancel;    *)
(* an orphan is a timer whose handle was overwritten.                      *)
(***************************************************************************)
StopCover(c) == [c EXCEPT !.running = FALSE, !.timer = 0]
StartCover(c) == IF c.running THEN c ELSE [c EXCEPT !.running = TRUE, !.starting = @ + 1]
SetTimer(c) == [c EXCEPT !.timer = 1, !.orphans = @ + c.timer]

\* coverLevel has been read.
CoverStarted ==
    /\ cover.starting > 0
    /\ cover' = SetTimer([cover EXCEPT !.starting = @ - 1])
    /\ UNCHANGED <<starting, stored, auth, expired, live, renewal, reauth, sockets, erasing, budget>>

TickStart(own) ==
    /\ IF own THEN cover.timer = 1 ELSE cover.orphans > 0
    /\ LET c == IF own THEN [cover EXCEPT !.timer = 0] ELSE [cover EXCEPT !.orphans = @ - 1] IN
       cover' = IF cover.running THEN [c EXCEPT !.ticking = @ + 1] ELSE c
    /\ UNCHANGED <<starting, stored, auth, expired, live, renewal, reauth, sockets, erasing, budget>>

\* runCoverCycle returned, whatever it did.
TickEnd ==
    /\ cover.ticking > 0
    /\ LET c == [cover EXCEPT !.ticking = @ - 1] IN
       cover' = IF cover.running THEN SetTimer(c) ELSE c
    /\ UNCHANGED <<starting, stored, auth, expired, live, renewal, reauth, sockets, erasing, budget>>

(***************************************************************************)
(* Token renewal and recovery from a 401.                                  *)
(***************************************************************************)
TokenExpires ==
    /\ auth.token # 0 /\ auth.token \notin expired
    /\ Event
    /\ expired' = expired \cup {auth.token}
    /\ UNCHANGED <<starting, stored, auth, live, renewal, reauth, sockets, cover, erasing>>

\* runRenewal, up to its await.
RenewTimer ==
    /\ renewal.timer
    /\ IF auth.token \in expired THEN UNCHANGED budget ELSE Event
    /\ renewal' = [renewal EXCEPT !.timer = FALSE, !.waiting = renewal.enabled]
    /\ reauth' = (reauth \/ renewal.enabled)
    /\ UNCHANGED <<starting, stored, auth, expired, live, sockets, cover, erasing>>

\* A send or a flush is refused for its token.
Unauthorized ==
    /\ auth.token \in expired
    /\ ~reauth
    /\ reauth' = TRUE
    /\ UNCHANGED <<starting, stored, auth, expired, live, renewal, sockets, cover, erasing, budget>>

Renewed_OnSuccess(ok) ==
    IF renewal.waiting /\ renewal.enabled THEN Renewal(TRUE, ok)
    ELSE [renewal EXCEPT !.waiting = FALSE]

\* runRenewal goes on as soon as reauthenticate answers, and arms the next timer.
Renewed(ok) ==
    IF renewal.waiting /\ renewal.enabled THEN Renewal(TRUE, TRUE)
    ELSE [renewal EXCEPT !.waiting = FALSE]

\* doReauth: a result for a session that has ended meanwhile is dropped.
StillSignedIn == auth.authed

ReauthReply ==
    /\ reauth
    /\ reauth' = FALSE
    /\ expired' = expired \ {NewToken}
    /\ auth' = IF StillSignedIn THEN [auth EXCEPT !.token = NewToken] ELSE auth
    /\ renewal' = Renewed(StillSignedIn)
    /\ UNCHANGED <<starting, stored, live, sockets, cover, erasing, budget>>

\* No key, or no answer.
ReauthFails ==
    /\ reauth
    /\ \/ Event
       \/ ~KeyAtHand /\ UNCHANGED budget
    /\ reauth' = FALSE
    /\ renewal' = Renewed(FALSE)
    /\ UNCHANGED <<starting, stored, auth, expired, live, sockets, cover, erasing>>

(***************************************************************************)
(* React runs the connection effect once boot, authenticated or the token  *)
(* has changed: it undoes what it set up and sets up anew.                 *)
(***************************************************************************)
EffectFor == IF boot = "ready" /\ auth.authed THEN auth.token ELSE 0

ConnectionEffect ==
    /\ live # EffectFor
    /\ live' = EffectFor
    /\ socks' = IF live = 0 THEN socks ELSE Unheld
    /\ LET quiet == IF live = 0 THEN cover ELSE StopCover(cover)
           up == [conn EXCEPT !.token = EffectFor, !.stopped = FALSE,
                              !.online = IF live = 0 THEN @ ELSE FALSE]
       IN IF EffectFor = 0
          THEN /\ conn' = disconnectWebSocket
               /\ cover' = quiet
               /\ opens' = Bumped(opens)
               /\ renewal' = [renewal EXCEPT !.enabled = FALSE, !.timer = FALSE]
          ELSE /\ conn' = up
               /\ cover' = StartCover(quiet)
               /\ opens' = open(up, opens)
               /\ renewal' = [renewal EXCEPT !.enabled = TRUE, !.timer = TRUE]
    /\ UNCHANGED <<starting, stored, auth, expired, reauth, erasing, budget>>

(***************************************************************************)
(* Lock, reload and erase.                                                 *)
(***************************************************************************)
lockApp_Deferred ==
    /\ boot = "ready"
    /\ device.lockOn
    /\ Event
    /\ boot' = "locked"
    /\ unlocked' = FALSE
    /\ auth' = SignedOut
    /\ UNCHANGED <<restore, retries, device, expired, live, renewal, reauth, sockets, cover, erasing>>

\* AppLockGuard.doLock: idle, hidden too long, frozen or restored from a cache.
lockApp ==
    /\ boot = "ready"
    /\ device.lockOn
    /\ Event
    /\ boot' = "locked"
    /\ unlocked' = FALSE
    /\ cover' = StopCover(cover)
    /\ conn' = disconnectWebSocket
    /\ opens' = Bumped(opens)
    /\ socks' = Unheld
    /\ auth' = SignedOut
    /\ UNCHANGED <<restore, retries, device, expired, live, renewal, reauth, erasing>>

\* A new page: everything kept in memory is gone.
Reloaded(d) ==
    /\ startBoot(d)
    /\ unlocked' = FALSE
    /\ auth' = SignedOut
    /\ live' = 0
    /\ renewal' = Renewal(FALSE, FALSE)
    /\ reauth' = FALSE
    /\ conn' = Disconnected
    /\ opens' = {}
    /\ socks' = {}
    /\ cover' = NoCover
    /\ erasing' = FALSE

Reload ==
    /\ Event
    /\ Reloaded(device)
    /\ UNCHANGED <<device, expired>>

\* eraseThisDevice, up to the deletion of the tables ...
eraseThisDevice ==
    /\ boot = "ready" /\ auth.authed /\ ~erasing
    /\ Event
    /\ erasing' = TRUE
    /\ cover' = StopCover(cover)
    /\ conn' = disconnectWebSocket
    /\ opens' = Bumped(opens)
    /\ socks' = Unheld
    /\ UNCHANGED <<starting, stored, auth, expired, live, renewal, reauth>>

\* ... and after it: the page is loaded again, without identity or lock.
Erased ==
    /\ erasing
    /\ device' = [onboarded |-> FALSE, lockOn |-> FALSE]
    /\ Reloaded(device')
    /\ UNCHANGED <<expired, budget>>

Next ==
    \/ RestoreReply \/ RestoreFails \/ RetryTimer \/ tryRestore \/ onUnlocked \/ SignIn \/ SetLock
    \/ \E o \in opens : TicketReply(o) \/ TicketFails(o) \/ ReconnectTimer(o)
    \/ \E s \in socks : SocketOpens(s) \/ SocketCloses(s) \/ SocketDies(s)
    \/ checkStaleness
    \/ CoverStarted \/ TickStart(TRUE) \/ TickStart(FALSE) \/ TickEnd
    \/ TokenExpires \/ RenewTimer \/ Unauthorized \/ ReauthReply \/ ReauthFails
    \/ ConnectionEffect \/ lockApp \/ Reload \/ eraseThisDevice \/ Erased

Spec == Init /\ [][Next]_vars

(***************************************************************************)
(* Timers fire, requests are answered or fail, effects run; a dead socket  *)
(* is noticed once the user is back.  Nobody has to press a button.        *)
(***************************************************************************)
FairSpec ==
    /\ Spec
    /\ WF_vars(RestoreReply) /\ WF_vars(RetryTimer)
    /\ WF_vars(\E o \in opens : TicketReply(o) \/ ReconnectTimer(o) \/ (conn.token \in expired /\ TicketFails(o)))
    /\ WF_vars(\E s \in socks : SocketOpens(s))
    /\ WF_vars(Unheld # socks /\ checkStaleness)
    /\ WF_vars(RenewTimer) /\ WF_vars(ReauthReply)
    /\ WF_vars(ConnectionEffect) /\ WF_vars(Erased)

(***************************************************************************)
(* Properties                                                              *)
(***************************************************************************)
\* Every variable keeps its shape: the screens of App, the state of the renewal
\* timer, of the connection and of the cover-traffic loop.
TypeOK ==
    /\ boot \in {"loading", "ready", "offline", "locked"}
    /\ restore \in {"idle", "asked", "timer"}
    /\ retries \in 0..(MAX_BOOT_RETRIES + 1)
    /\ device \in [onboarded : BOOLEAN, lockOn : BOOLEAN]
    /\ unlocked \in BOOLEAN /\ reauth \in BOOLEAN /\ erasing \in BOOLEAN
    /\ auth \in [authed : BOOLEAN, token : 0..4]
    /\ expired \subseteq 1..4
    /\ live \in 0..4
    /\ renewal \in [enabled : BOOLEAN, timer : BOOLEAN, waiting : BOOLEAN]
    /\ conn \in [stopped : BOOLEAN, token : 0..4, online : BOOLEAN]
    /\ opens \subseteq [gen : {"now", "past"}, at : {"ticket", "timer"}]
    /\ socks \subseteq [held : BOOLEAN, state : {"connecting", "open", "dead"}]
    /\ cover \in [running : BOOLEAN, starting : Nat, timer : 0..1, orphans : Nat, ticking : Nat]
    /\ budget \in 0..MaxEvents

\* "A locked device is INERT" (session.ts): behind the lock screen there is no
\* data key, no token, no socket and no cover traffic, whatever was in flight
\* when the app was locked (a ticket, a token renewal, a reconnect timer, a tick).
LockedInert ==
    boot = "locked" =>
        /\ ~unlocked /\ auth = SignedOut
        /\ socks = {} /\ ~conn.online /\ ~cover.running

\* A signed-in app on a device with a lock has been unlocked: neither a retry of
\* the start nor a reload gets round the lock screen (App.startBoot).
NeverPastLock == boot = "ready" /\ device.lockOn => unlocked

\* The lock holds: nobody gets past it, and nothing goes on behind it.
LockHolds == LockedInert /\ NeverPastLock

\* At most one socket exists, and it is the one the module holds: a ticket that
\* arrives after a disconnect, a renewal or a staleness check opens nothing (gen).
OneSocket == Cardinality(socks) <= 1 /\ \A s \in socks : s.held /\ ~conn.stopped

\* The status shown is "connected" only while the socket held has opened.
OnlineIsTrue == conn.online => \E s \in socks : s.held /\ s.state # "connecting"

\* There is one socket, and the status shown is its own (websocket.ts).
SocketTrue == OneSocket /\ OnlineIsTrue

\* While the app is connected for a token, a renewal is always ahead: its timer is
\* armed, or runRenewal waits for reauthenticate, whose answer arms it again, also
\* after failures, lock and unlock, and a 401 that renewed the token meanwhile.
RenewalAlive ==
    live # 0 => renewal.enabled /\ (renewal.timer \/ (renewal.waiting /\ reauth))

\* A cover-traffic loop that is meant to run has a timer, a tick or a start under
\* way, however often it was stopped and started while a tick was awaiting.
CoverAlive == cover.running => cover.starting + cover.timer + cover.orphans + cover.ticking > 0

\* Neither the renewal (auth-session.ts) nor the loop of ticks (cover-traffic.ts) ever
\* dies of a failure or of an overlap.
TimersAlive == RenewalAlive /\ CoverAlive

Connected == \E s \in socks : s.held /\ s.state = "open"

\* Once failures cease, a signed-in app gets its socket back by itself: after lost
\* tickets, closed and dead sockets, an expired token and a renewal in between.
Reconnects == (EffectFor # 0 /\ ~erasing) ~> (Connected \/ EffectFor = 0 \/ erasing)

\* The start always ends: in the app, at the lock or on the offline screen.
BootEnds == (boot = "loading") ~> (boot # "loading")

\* A tab that is left alone comes up: its start ends, and its socket opens (App.tsx,
\* websocket.ts).
ComesUp == BootEnds /\ Reconnects

\* startCoverTraffic is called idempotent: there is one loop, never two.  (It does
\* not hold; the README says why.)
OneTickLoop == cover.starting + cover.timer + cover.orphans + cover.ticking <= 1

\* Nothing that could write to the database is left running during an erasure.
\* (It does not hold; the README says why.)
EraseQuiet == erasing => socks = {} /\ ~cover.running
==============================================================================
