---------------------------- MODULE RatchetPair ----------------------------
(***************************************************************************)
(* Two clients with one session, over a network that loses, repeats and    *)
(* reorders: every message ever sent may be delivered at any time, any     *)
(* number of times, or never.  Each client saves the state a call returns  *)
(* before it makes the next (what happens when it does not is the subject  *)
(* of Messaging).                                                          *)
(***************************************************************************)
EXTENDS Ratchet

CONSTANTS MaxSends,    \* bound on the messages of each client
          MaxLeaks     \* 1 when a copy of a client's state may be taken, else 0

ASSUME PairAssumption == MaxSends \in Nat /\ MaxLeaks \in Nat

VARIABLES session,   \* the saved state of each client
          fresh,     \* how many key pairs each client has generated
          sent,      \* messages sent
          opened,    \* messages each client decrypted (history)
          leaked     \* copies taken of a client's state

vars == <<session, fresh, sent, opened, leaked>>

Clients == {"alice", "bob"}
Peer(p) == IF p = "alice" THEN "bob" ELSE "alice"
Key(p) == <<p, fresh[p] + 1>>
Secret == <<"pqxdh", 1>>

SentBy(p) == {m \in sent : m.from = p}

\* The handshake is done: Bob's first ratchet key is the signed prekey that
\* Alice used.
Init == /\ session = [p \in Clients |->
                        IF p = "alice"
                        THEN ratchet_init_alice(Secret, <<"alice", 1>>, <<"bob", 1>>)
                        ELSE ratchet_init_bob(Secret, <<"bob", 1>>)]
        /\ fresh = [p \in Clients |-> 1]
        /\ sent = {}
        /\ opened = [p \in Clients |-> {}]
        /\ leaked = {}

Encrypt(p) ==
    /\ CanEncrypt(session[p])
    /\ Cardinality(SentBy(p)) < MaxSends
    /\ sent' = sent \cup {[from |-> p, seq |-> Cardinality(SentBy(p)),
                           peer |-> session[p].dhr, msg |-> Sealed(session[p])]}
    /\ session' = [session EXCEPT ![p] = ratchet_encrypt(@)]
    /\ UNCHANGED <<fresh, opened, leaked>>

Opening(p, m) == ratchet_decrypt(session[p], m.msg, Key(p))

\* A delivery that fails leaves the saved state alone.
Decrypt(p, m) ==
    /\ m.from = Peer(p)
    /\ Opening(p, m).ok
    /\ session' = [session EXCEPT ![p] = Opening(p, m).st]
    /\ fresh' = [fresh EXCEPT ![p] = IF session'[p].dhs = Key(p) THEN @ + 1 ELSE @]
    /\ opened' = [opened EXCEPT ![p] = @ \cup {m}]
    /\ UNCHANGED <<sent, leaked>>

\* Somebody copies the stored state of a client.
Leak(p) ==
    /\ Cardinality(leaked) < MaxLeaks
    /\ leaked' = leaked \cup {[of |-> p, st |-> session[p]]}
    /\ UNCHANGED <<session, fresh, sent, opened>>

Next == \E p \in Clients : \/ Encrypt(p) \/ Leak(p)
                           \/ \E m \in sent : Decrypt(p, m)

Spec == Init /\ [][Next]_vars

----------------------------------------------------------------------------
(* Properties *)

Keys == (Clients \X Nat) \cup {NoKey}
Roots == Seq(SUBSET (Keys \cup {Secret}))
Chains == [root : Roots, at : Nat]

TypeOK ==
    /\ \A p \in Clients :
        LET st == session[p] IN
        /\ st.rk \in Roots /\ st.cks \in Chains /\ st.ckr \in Chains
        /\ st.dhs \in Keys /\ st.dhr \in Keys
        /\ st.ns \in Nat /\ st.nr \in Nat /\ st.pn \in Nat
        /\ DOMAIN st.skipped \subseteq Keys \X Nat
        /\ \A k \in DOMAIN st.skipped : st.skipped[k] \in Chains
    /\ fresh \in [Clients -> Nat]
    /\ \A p \in Clients : opened[p] \subseteq SentBy(Peer(p))
    /\ Cardinality(leaked) <= MaxLeaks

\* The counters of the two ends are never so far apart that skip_recv refuses.
InReach(p, m) ==
    LET st == session[p] IN
    IF st.dhr = m.msg.dh THEN m.msg.n <= st.nr + MaxSkip
    ELSE m.msg.pn <= st.nr + MaxSkip /\ m.msg.n <= MaxSkip

\* Whatever was lost, repeated or overtaken, a message that was never opened can
\* be opened now: its key is among the skipped ones, or skip_recv and dh_ratchet
\* arrive at it.
OpensInAnyOrder ==
    \A p \in Clients : \A m \in SentBy(Peer(p)) \ opened[p] :
        \/ Opening(p, m).ok
        \/ <<m.msg.dh, m.msg.n>> \notin DOMAIN session[p].skipped /\ ~InReach(p, m)

\* A delivery repeated at any later time, after any number of ratchet steps, is
\* refused: "replay is blocked by its single-use message keys".
OpensOnce == \A p \in Clients : \A m \in opened[p] : ~Opening(p, m).ok

\* ratchet_decrypt opens every message in reach exactly once, in whatever order and
\* however often the network delivers it.
OpensExactlyOnce == OpensInAnyOrder /\ OpensOnce

Prefix(s, t) == Len(s) <= Len(t) /\ SubSeq(t, 1, Len(s)) = s

\* What can be computed from a session state alone: the keys it keeps, those
\* further along its chains, and those of chains its ratchet key leads to.
FromChain(ck, mk) == ck.root = mk.root /\ ck.at <= mk.at
FromRoot(st, mk) ==
    /\ Len(st.rk) < Len(mk.root) /\ Prefix(st.rk, mk.root)
    /\ \A i \in Len(st.rk) + 1 .. Len(mk.root) : st.dhs \in mk.root[i]
Computable(st, mk) ==
    \/ \E k \in DOMAIN st.skipped : st.skipped[k] = mk
    \/ FromChain(st.cks, mk) \/ FromChain(st.ckr, mk)
    \/ FromRoot(st, mk)

\* "Every message gets a unique key, deleted after use.  Past messages safe even
\* if current keys leak": the sender cannot open what it has sent, nor the
\* receiver, once it has been opened, from the states they have saved.
ForwardSecrecy ==
    \A p \in Clients :
        /\ \A m \in SentBy(p) : ~Computable(session[p], m.msg.mk)
        /\ \A m \in opened[p] : ~Computable(session[p], m.msg.mk)

\* "Future messages safe even after a breach": a message whose keys were
\* exchanged after the copied client had made a new ratchet key cannot be opened
\* with the copy.
BreachHeals ==
    \A l \in leaked : \A m \in sent :
        LET used == IF m.from = l.of THEN m.msg.dh ELSE m.peer IN
        used # NoKey /\ used[2] > l.st.dhs[2] => ~Computable(l.st, m.msg.mk)

\* A state that leaks, now or at any earlier time, opens neither what was opened before
\* it nor what is sent after its owner has made a new ratchet key (dh_ratchet).
LeaksContained == ForwardSecrecy /\ BreachHeals

\* ratchet.rs: "cap skipped keys to bound DoS memory".
\* (It does not hold; the README says why.)
SkippedCapped == \A p \in Clients : Cardinality(DOMAIN session[p].skipped) <= MaxSkip
============================================================================
