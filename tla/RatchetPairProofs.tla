------------------------- MODULE RatchetPairProofs -------------------------
(***************************************************************************)
(* Proofs that the Double Ratchet opens every message in reach once, in    *)
(* any order and after any losses, and that a state that leaks opens       *)
(* neither the past nor what follows a new key: for any number of          *)
(* messages, turns and copies and every MAX_SKIP.                          *)
(*                                                                         *)
(* The argument: the two clients compute one sequence of root keys, each   *)
(* secret of which holds the names of the two newest ratchet keys, and     *)
(* take turns in extending it.  A client's state is therefore determined   *)
(* by how many keys it has made and a few counters.                        *)
(***************************************************************************)
EXTENDS RatchetPair, TLAPS

(***************************************************************************)
(* What a state holds. The keys of the two clients are numbered, and they  *)
(* take turns: the root key after k steps is Root(k), whoever computes it. *)
(***************************************************************************)
\* The length of p's root key once p has made j ratchet keys.
Turn(p, j) == IF p = "alice" THEN 2 * j ELSE 2 * j - 1

\* The number of the peer's key that p answers with its own f-th; 0 is none.
Answers(p, f) == IF p = "alice" THEN f ELSE f - 1

\* The k-th secret mixed in.
Entry(k) == IF k = 1 THEN {Secret} ELSE dh(<<"alice", k \div 2>>, <<"bob", (k + 1) \div 2>>)
Root(k) == [i \in 1 .. k |-> Entry(i)]
Chain(k, n) == [root |-> Root(k), at |-> n]

\* p has made f keys, sent ns messages on its present chain and pn on the one before, and
\* is at nr on its receiving chain; sk are the keys passed over.
State(p, f, ns, nr, pn, sk) ==
    [rk |-> Root(Turn(p, f)), dhs |-> <<p, f>>,
     dhr |-> IF Answers(p, f) = 0 THEN NoKey ELSE <<Peer(p), Answers(p, f)>>,
     cks |-> IF Answers(p, f) = 0 THEN NoChain ELSE Chain(Turn(p, f), ns),
     ckr |-> IF f = 1 THEN NoChain ELSE Chain(Turn(p, f) - 1, nr),
     ns |-> ns, nr |-> nr, pn |-> pn, skipped |-> sk]

\* Keys passed over are of the peer's chains up to the one p answers, and before nr there.
Passed(p, f, nr, sk) ==
    /\ sk = [k \in DOMAIN sk |-> sk[k]]
    /\ \A k \in DOMAIN sk : \E j \in 1 .. Answers(p, f), n \in Nat :
        /\ k = <<<<Peer(p), j>>, n>>
        /\ sk[k] = Chain(Turn(Peer(p), j), n)
        /\ j = Answers(p, f) => n < nr

\* A state p has been in while it had f keys.
Sound(st, p, f) ==
    /\ st.ns \in Nat /\ st.nr \in Nat /\ st.pn \in Nat
    /\ st = State(p, f, st.ns, st.nr, st.pn, st.skipped)
    /\ Passed(p, f, st.nr, st.skipped)
    /\ f = 1 => st.nr = 0
    /\ Answers(p, f) = 0 => st.ns = 0
    /\ Answers(p, f) <= 1 => st.pn = 0

(***************************************************************************)
(* The strengthening.                                                      *)
(***************************************************************************)
\* Each client's state is one of those, and neither is ahead by more than one turn.
TurnsInv ==
    /\ fresh \in [Clients -> Nat \ {0}]
    /\ fresh["bob"] \in {fresh["alice"], fresh["alice"] + 1}
    /\ session = [p \in Clients |-> session[p]]
    /\ \A p \in Clients : Sound(session[p], p, fresh[p])

\* A message of p's j-th key.
Made(m, p, j) ==
    /\ m.msg = [dh |-> <<p, j>>, pn |-> m.msg.pn, n |-> m.msg.n, mk |-> Chain(Turn(p, j), m.msg.n)]
    /\ m.msg.n \in Nat /\ m.msg.pn \in Nat
    /\ j \in 1 .. fresh[p] /\ Answers(p, j) # 0
    /\ m.peer = <<Peer(p), Answers(p, j)>>
    /\ j = fresh[p] => m.msg.n < session[p].ns /\ m.msg.pn = session[p].pn
    /\ j = fresh[p] - 1 => m.msg.n < session[p].pn
    /\ Answers(p, j) = 1 => m.msg.pn = 0

\* Messages are numbered within their chain.
SentInv ==
    /\ \A m \in sent : m.from \in Clients /\ \E j \in Nat : Made(m, m.from, j)
    /\ \A m, k \in sent : m.from = k.from /\ m.msg.dh = k.msg.dh /\ m.msg.n = k.msg.n => m = k

\* A client is not past what its peer has sent on its present chain.
ReadInv == \A p \in Clients :
    fresh[Peer(p)] = Answers(p, fresh[p]) => session[p].nr <= session[Peer(p)].ns

\* What was opened is behind and its key is gone; what is behind and was not opened has
\* its key kept.
Behind(p, m) ==
    \/ m.msg.dh[2] < Answers(p, fresh[p])
    \/ m.msg.dh[2] = Answers(p, fresh[p]) /\ m.msg.n < session[p].nr
KeptFor(p, m) == <<m.msg.dh, m.msg.n>> \in DOMAIN session[p].skipped
OpenInv ==
    /\ opened = [p \in Clients |-> opened[p]]
    /\ \A p \in Clients :
        /\ opened[p] \subseteq SentBy(Peer(p))
        /\ \A m \in opened[p] : Behind(p, m) /\ ~KeptFor(p, m)
        /\ \A m \in SentBy(Peer(p)) \ opened[p] : Behind(p, m) => KeptFor(p, m)

\* A copy is of a state its owner has been in.
LeakInv == \A l \in leaked : l.of \in Clients /\ \E f \in 1 .. fresh[l.of] : Sound(l.st, l.of, f)

IInv == TurnsInv /\ SentInv /\ ReadInv /\ OpenInv /\ LeakInv

(***************************************************************************)
(* Turns, roots and chains.                                                *)
(***************************************************************************)
\* Integer halves.
LEMMA Halves == \A j \in Nat : /\ (2 * j) \div 2 = j
                               /\ (2 * j + 1) \div 2 = j
OBVIOUS

\* How the numbers of the two clients go together.
LEMMA Turns ==
  ASSUME NEW p \in Clients, NEW f \in Nat \ {0}
  PROVE  /\ Peer(p) \in Clients /\ Peer(Peer(p)) = p /\ Peer(p) # p
         /\ Turn(p, f) \in Nat \ {0} /\ Answers(p, f) \in Nat
         /\ Turn(p, f + 1) = Turn(p, f) + 2 /\ Answers(p, f + 1) = Answers(p, f) + 1
         /\ Turn(Peer(p), Answers(p, f) + 1) = Turn(p, f) + 1
         /\ Turn(Peer(p), Answers(p, f)) = Turn(p, f) - 1
         /\ f # 1 => Answers(p, f) # 0
         /\ Answers(Peer(p), Answers(p, f) + 1) = f
BY DEF Clients, Peer, Turn, Answers

\* Later keys are of later turns, and the two clients' turns alternate.
LEMMA TurnsApart ==
  ASSUME NEW p \in Clients, NEW f \in Nat, NEW j \in Nat
  PROVE  /\ Turn(p, f) = Turn(p, j) => f = j
         /\ f < j => Turn(p, f) + 2 <= Turn(p, j)
         /\ Turn(p, f) # Turn(Peer(p), j)
BY DEF Clients, Peer, Turn

\* The secret of p's f-th key, and those of the turns after it.
LEMMA Entries ==
  ASSUME NEW p \in Clients, NEW f \in Nat \ {0}
  PROVE  /\ Entry(Turn(p, f) + 1) = dh(<<p, f>>, <<Peer(p), Answers(p, f) + 1>>)
         /\ Entry(Turn(p, f) + 2) = dh(<<p, f + 1>>, <<Peer(p), Answers(p, f) + 1>>)
         /\ Answers(p, f) # 0 => Entry(Turn(p, f)) = dh(<<p, f>>, <<Peer(p), Answers(p, f)>>)
<1>1. /\ (2 * f) \div 2 = f /\ (2 * f + 1) \div 2 = f
      /\ (2 * (f + 1)) \div 2 = f + 1 /\ (2 * (f - 1) + 1) \div 2 = f - 1
  BY Halves
<1>2. 2 * (f + 1) = 2 * f + 2 /\ 2 * (f - 1) + 1 = 2 * f - 1
  OBVIOUS
<1>3. CASE p = "alice"
  <2>1. Entry(2 * f) = dh(<<"alice", f>>, <<"bob", f>>)
    BY <1>1 DEF Entry
  <2>2. Entry(2 * f + 1) = dh(<<"alice", f>>, <<"bob", f + 1>>)
    BY <1>1, <1>2 DEF Entry
  <2>3. Entry(2 * f + 2) = dh(<<"alice", f + 1>>, <<"bob", f + 1>>)
    <3>1. (2 * f + 2) \div 2 = f + 1 /\ (2 * f + 2 + 1) \div 2 = f + 1
      BY Halves
    <3> QED
      BY <3>1 DEF Entry
  <2> QED
    BY <1>3, <2>1, <2>2, <2>3 DEF Turn, Answers, Peer
<1>4. CASE p = "bob"
  <2>1. 2 * f - 1 # 1 => Entry(2 * f - 1) = dh(<<"alice", f - 1>>, <<"bob", f>>)
    BY <1>1, <1>2 DEF Entry
  <2>2. Entry(2 * f) = dh(<<"alice", f>>, <<"bob", f>>)
    BY <1>1 DEF Entry
  <2>3. Entry(2 * f + 1) = dh(<<"alice", f>>, <<"bob", f + 1>>)
    BY <1>1, <1>2 DEF Entry
  <2>4. Turn(p, f) = 2 * f - 1 /\ Answers(p, f) = f - 1 /\ Peer(p) = "alice"
    BY <1>4 DEF Turn, Answers, Peer
  <2> QED
    BY <1>4, <2>1, <2>2, <2>3, <2>4 DEF dh
<1> QED
  BY <1>3, <1>4 DEF Clients

\* One more secret is mixed in.
LEMMA RootGrows ==
  ASSUME NEW k \in Nat, NEW l \in Nat
  PROVE  /\ Len(Root(k)) = k
         /\ Append(Root(k), Entry(k + 1)) = Root(k + 1)
         /\ Root(k) = Root(l) => k = l
         /\ Root(k) # <<>> \/ k = 0
<1>1. Root(k) \in Seq({Entry(i) : i \in 1 .. k}) /\ Len(Root(k)) = k /\ Len(Root(l)) = l
  BY DEF Root
<1>2. Append(Root(k), Entry(k + 1)) = Root(k + 1)
  BY DEF Root
<1> QED
  BY <1>1, <1>2

\* Whatever is mixed in, a root grows by one.
LEMMA RootLonger ==
  ASSUME NEW k \in Nat, NEW x
  PROVE  Len(Append(Root(k), x)) = k + 1
<1>1. Root(k) \in Seq({Entry(i) : i \in 1 .. k} \cup {x}) /\ Len(Root(k)) = k
  BY DEF Root
<1> QED
  BY <1>1

(***************************************************************************)
(* What the functions of ratchet.rs make of such a state.                  *)
(***************************************************************************)
\* A chain advanced t times.
LEMMA Advanced ==
  ASSUME NEW k, NEW n \in Nat, NEW t \in Nat
  PROVE  AdvanceChain(Chain(k, n), t) = Chain(k, n + t)
<1>1. PICK c : c = Chain(k, n)
  OBVIOUS
<1>2. c \in [root : {Root(k)}, at : Nat] /\ c.at = n
  BY <1>1 DEF Chain
<1>3. [c EXCEPT !.at = c.at + t] = [root |-> Root(k), at |-> n + t]
  BY <1>2
<1> QED
  BY <1>1, <1>3 DEF AdvanceChain, Chain

\* A chain is the absence of one only where there is none.
LEMMA ChainsDiffer ==
  ASSUME NEW k \in Nat, NEW n \in Nat, NEW l \in Nat, NEW i \in Nat
  PROVE  /\ k # 0 => Chain(k, n) # NoChain
         /\ Chain(k, n) = Chain(l, i) <=> k = l /\ n = i
         /\ Chain(k, n).root = Root(k) /\ Chain(k, n).at = n
BY RootGrows DEF Chain, NoChain

\* ratchet_encrypt moves the sending chain by one; the message is under the key it was at.
LEMMA EncryptState ==
  ASSUME NEW p \in Clients, NEW f \in Nat \ {0}, NEW ns \in Nat, NEW nr, NEW pn, NEW sk, Answers(p, f) # 0
  PROVE  /\ ratchet_encrypt(State(p, f, ns, nr, pn, sk)) = State(p, f, ns + 1, nr, pn, sk)
         /\ Sealed(State(p, f, ns, nr, pn, sk)) =
                [dh |-> <<p, f>>, pn |-> pn, n |-> ns, mk |-> Chain(Turn(p, f), ns)]
<1>1. PICK s : s = State(p, f, ns, nr, pn, sk)
  OBVIOUS
<1>2. PICK c : c = Chain(Turn(p, f), ns + 1)
  OBVIOUS
<1>3. /\ s.rk = Root(Turn(p, f)) /\ s.dhs = <<p, f>> /\ s.dhr = <<Peer(p), Answers(p, f)>>
      /\ s.cks = Chain(Turn(p, f), ns) /\ s.ns = ns /\ s.nr = nr /\ s.pn = pn /\ s.skipped = sk
  BY <1>1 DEF State
<1>4. c = AdvanceChain(s.cks, 1)
  BY <1>2, <1>3, Advanced
<1>5. s \in [rk : {s.rk}, dhs : {s.dhs}, dhr : {s.dhr}, cks : {s.cks, c}, ckr : {s.ckr},
             ns : {s.ns, ns + 1}, nr : {s.nr}, pn : {s.pn}, skipped : {s.skipped}]
  BY <1>1 DEF State
<1>6. PICK t : t = [s EXCEPT !.cks = c, !.ns = ns + 1]
  OBVIOUS
<1>7. /\ t \in [rk : {s.rk}, dhs : {s.dhs}, dhr : {s.dhr}, cks : {s.cks, c}, ckr : {s.ckr},
                ns : {s.ns, ns + 1}, nr : {s.nr}, pn : {s.pn}, skipped : {s.skipped}]
      /\ t.cks = c /\ t.ns = ns + 1
  BY ONLY <1>5, <1>6
<1>8. t = ratchet_encrypt(s)
  BY <1>3, <1>4, <1>6 DEF ratchet_encrypt
<1>9. t = State(p, f, ns + 1, nr, pn, sk)
  BY <1>1, <1>2, <1>3, <1>7 DEF State
<1>10. Sealed(s) = [dh |-> <<p, f>>, pn |-> pn, n |-> ns, mk |-> Chain(Turn(p, f), ns)]
  BY <1>3 DEF Sealed
<1> QED
  BY <1>1, <1>8, <1>9, <1>10

\* The keys of a chain from nr up to until, put beside those kept before.
More(d, k, nr, until, sk) ==
    Insert([i \in {d} \X (nr .. until - 1) |-> Chain(k, i[2])], sk)

\* Without a receiving chain nothing can be passed over.
LEMMA SkipNone ==
  ASSUME NEW p, NEW ns, NEW nr \in Nat, NEW pn, NEW sk, NEW until \in Nat
  PROVE  skip_recv(State(p, 1, ns, nr, pn, sk), until) =
            IF until > nr THEN Failed(State(p, 1, ns, nr, pn, sk)) ELSE Done(State(p, 1, ns, nr, pn, sk))
<1>1. PICK s : s = State(p, 1, ns, nr, pn, sk)
  OBVIOUS
<1>2. s.ckr = NoChain /\ s.nr = nr
  BY <1>1 DEF State
<1> QED
  BY <1>1, <1>2 DEF skip_recv

\* With a receiving chain, skip_recv keeps the keys up to until, within the limit.
LEMMA SkipState ==
  ASSUME NEW p \in Clients, NEW f \in Nat \ {0, 1}, NEW ns, NEW nr \in Nat, NEW pn, NEW sk, NEW until \in Nat
  PROVE  LET s == State(p, f, ns, nr, pn, sk)
             d == <<Peer(p), Answers(p, f)>>
         IN skip_recv(s, until) =
            IF until > nr + MaxSkip THEN Failed(s)
            ELSE IF until <= nr THEN Done(s)
            ELSE Done(State(p, f, ns, until, pn, More(d, Turn(p, f) - 1, nr, until, sk)))
<1>1. PICK s : s = State(p, f, ns, nr, pn, sk)
  OBVIOUS
<1> DEFINE k == Turn(p, f) - 1
           d == <<Peer(p), Answers(p, f)>>
<1>2. Answers(p, f) # 0 /\ k \in Nat /\ k # 0
  BY DEF Turn, Answers, Clients
<1>3. s.ckr = Chain(k, nr) /\ s.nr = nr /\ s.dhr = d /\ s.skipped = sk
  BY <1>1, <1>2 DEF State
<1>4. s.ckr # NoChain
  <2>1. Root(k) # <<>>
    BY <1>2, RootGrows
  <2>2. Chain(k, nr) # NoChain
    BY <2>1 DEF Chain, NoChain
  <2> QED
    BY <1>3, <2>2
<1>5. CASE until > nr + MaxSkip \/ until <= nr
  BY <1>1, <1>3, <1>4, <1>5, SkipAssumption DEF skip_recv
<1>6. CASE ~(until > nr + MaxSkip) /\ ~(until <= nr)
  <2>1. PICK c : c = Chain(k, until)
    OBVIOUS
  <2>2. c = AdvanceChain(s.ckr, until - s.nr)
    <3>1. until - nr \in Nat /\ nr + (until - nr) = until
      BY <1>6
    <3> QED
      BY <1>3, <2>1, <3>1, Advanced
  <2>3. PICK m : m = More(d, k, nr, until, sk)
    OBVIOUS
  <2>4. m = Insert([i \in {s.dhr} \X (s.nr .. until - 1) |-> AdvanceChain(s.ckr, i[2] - s.nr)], s.skipped)
    <3>1. \A i \in {d} \X (nr .. until - 1) : AdvanceChain(Chain(k, nr), i[2] - nr) = Chain(k, i[2])
      <4> SUFFICES ASSUME NEW i \in {d} \X (nr .. until - 1)
                   PROVE  AdvanceChain(Chain(k, nr), i[2] - nr) = Chain(k, i[2])
        OBVIOUS
      <4>1. i[2] \in nr .. until - 1
        OBVIOUS
      <4>2. i[2] - nr \in Nat /\ nr + (i[2] - nr) = i[2]
        BY <4>1
      <4> QED
        BY <4>2, Advanced
    <3> QED
      BY <1>3, <2>3, <3>1 DEF More
  <2>5. skip_recv(s, until) = Done([s EXCEPT !.skipped = m, !.ckr = c, !.nr = until])
    BY <1>3, <1>4, <1>6, <2>2, <2>4 DEF skip_recv
  <2>6. s \in [rk : {s.rk}, dhs : {s.dhs}, dhr : {s.dhr}, cks : {s.cks}, ckr : {s.ckr, c},
               ns : {s.ns}, nr : {s.nr, until}, pn : {s.pn}, skipped : {s.skipped, m}]
    BY <1>1 DEF State
  <2>7. PICK t : t = [s EXCEPT !.skipped = m, !.ckr = c, !.nr = until]
    OBVIOUS
  <2>8. /\ t \in [rk : {s.rk}, dhs : {s.dhs}, dhr : {s.dhr}, cks : {s.cks}, ckr : {s.ckr, c},
                  ns : {s.ns}, nr : {s.nr, until}, pn : {s.pn}, skipped : {s.skipped, m}]
        /\ t.skipped = m /\ t.ckr = c /\ t.nr = until
    BY ONLY <2>6, <2>7
  <2>9. /\ s.rk = Root(Turn(p, f)) /\ s.dhs = <<p, f>> /\ s.ns = ns /\ s.pn = pn
        /\ s.cks = Chain(Turn(p, f), ns)
    BY <1>1, <1>2 DEF State
  <2>10. t = State(p, f, ns, until, pn, m)
    BY <1>2, <1>3, <2>1, <2>8, <2>9 DEF State
  <2> QED
    BY <1>1, <1>6, <2>3, <2>5, <2>7, <2>10
<1> QED
  BY <1>1, <1>5, <1>6

\* Mixing in any key x of the peer, and a fresh one y; recv is the root after the first.
Mixed(recv, x, y, ns, sk) ==
    LET send == Append(recv, dh(y, x))
    IN [rk |-> send, dhs |-> y, dhr |-> x, cks |-> [root |-> send, at |-> 0],
        ckr |-> [root |-> recv, at |-> 0], ns |-> 0, nr |-> 0, pn |-> ns, skipped |-> sk]

LEMMA RatchetAny ==
  ASSUME NEW p, NEW f, NEW ns, NEW nr, NEW pn, NEW sk, NEW x, NEW y
  PROVE  dh_ratchet(State(p, f, ns, nr, pn, sk), x, y) =
            Mixed(Append(Root(Turn(p, f)), dh(<<p, f>>, x)), x, y, ns, sk)
<1>1. PICK s : s = State(p, f, ns, nr, pn, sk)
  OBVIOUS
<1>2. PICK a : a = Append(Root(Turn(p, f)), dh(<<p, f>>, x))
  OBVIOUS
<1>3. PICK b : b = Append(a, dh(y, x))
  OBVIOUS
<1>4. PICK c : c = [root |-> a, at |-> 0]
  OBVIOUS
<1>5. PICK e : e = [root |-> b, at |-> 0]
  OBVIOUS
<1>6. s.rk = Root(Turn(p, f)) /\ s.dhs = <<p, f>> /\ s.ns = ns /\ s.skipped = sk
  BY <1>1 DEF State
<1>7. PICK u : u = kdf_rk(s.rk, dh(s.dhs, x))
  OBVIOUS
<1>7a. u = [rk |-> a, ck |-> c]
  BY <1>2, <1>4, <1>6, <1>7 DEF kdf_rk
<1>7b. u.rk = a /\ u.ck = c
  BY ONLY <1>7a
<1>8. PICK w : w = kdf_rk(u.rk, dh(y, x))
  OBVIOUS
<1>8a. w = [rk |-> b, ck |-> e]
  BY <1>3, <1>5, <1>7b, <1>8 DEF kdf_rk
<1>8b. w.rk = b /\ w.ck = e
  BY ONLY <1>8a
<1>9. dh_ratchet(s, x, y) = [s EXCEPT !.pn = ns, !.ns = 0, !.nr = 0, !.dhr = x, !.ckr = c, !.dhs = y,
                                      !.rk = b, !.cks = e]
  BY <1>6, <1>7, <1>7b, <1>8, <1>8b DEF dh_ratchet
<1>10. s \in [rk : {s.rk, b}, dhs : {s.dhs, y}, dhr : {s.dhr, x}, cks : {s.cks, e}, ckr : {s.ckr, c},
              ns : {s.ns, 0}, nr : {s.nr, 0}, pn : {s.pn, ns}, skipped : {s.skipped}]
  BY <1>1 DEF State
<1>11. PICK t : t = [s EXCEPT !.pn = ns, !.ns = 0, !.nr = 0, !.dhr = x, !.ckr = c, !.dhs = y,
                              !.rk = b, !.cks = e]
  OBVIOUS
<1>12. /\ t \in [rk : {s.rk, b}, dhs : {s.dhs, y}, dhr : {s.dhr, x}, cks : {s.cks, e}, ckr : {s.ckr, c},
                 ns : {s.ns, 0}, nr : {s.nr, 0}, pn : {s.pn, ns}, skipped : {s.skipped}]
       /\ t.rk = b /\ t.dhs = y /\ t.dhr = x /\ t.cks = e /\ t.ckr = c /\ t.ns = 0 /\ t.nr = 0 /\ t.pn = ns
  BY ONLY <1>10, <1>11
<1>13. t = [rk |-> b, dhs |-> y, dhr |-> x, cks |-> e, ckr |-> c, ns |-> 0, nr |-> 0, pn |-> ns, skipped |-> sk]
  BY ONLY <1>6, <1>12
<1> QED
  BY <1>1, <1>2, <1>3, <1>4, <1>5, <1>9, <1>11, <1>13 DEF Mixed

\* The peer's next key: the turn after the next is ours again.
LEMMA RatchetState ==
  ASSUME NEW p \in Clients, NEW f \in Nat \ {0}, NEW ns, NEW nr, NEW pn, NEW sk
  PROVE  dh_ratchet(State(p, f, ns, nr, pn, sk), <<Peer(p), Answers(p, f) + 1>>, <<p, f + 1>>)
            = State(p, f + 1, 0, 0, ns, sk)
<1> DEFINE k == Turn(p, f)
           x == <<Peer(p), Answers(p, f) + 1>>
           y == <<p, f + 1>>
<1>1. /\ k \in Nat /\ Turn(p, f + 1) = k + 2 /\ Turn(p, f + 1) - 1 = k + 1
      /\ Answers(p, f + 1) = Answers(p, f) + 1 /\ Answers(p, f + 1) # 0 /\ f + 1 # 1
  BY Turns DEF Turn, Answers
<1>2. Append(Root(k), dh(<<p, f>>, x)) = Root(k + 1)
  <2>1. Entry(k + 1) = dh(<<p, f>>, x)
    BY Entries
  <2>2. Append(Root(k), Entry(k + 1)) = Root(k + 1)
    BY <1>1, RootGrows
  <2> QED
    BY <2>1, <2>2
<1>3. Append(Root(k + 1), dh(y, x)) = Root(k + 2)
  <2>1. Entry(k + 2) = dh(y, x)
    BY Entries
  <2>2. k + 1 \in Nat /\ (k + 1) + 1 = k + 2
    BY <1>1
  <2>3. Append(Root(k + 1), Entry((k + 1) + 1)) = Root((k + 1) + 1)
    BY <2>2, RootGrows
  <2> QED
    BY <2>1, <2>2, <2>3
<1>4. dh_ratchet(State(p, f, ns, nr, pn, sk), x, y) =
         [rk |-> Root(k + 2), dhs |-> y, dhr |-> x, cks |-> [root |-> Root(k + 2), at |-> 0],
          ckr |-> [root |-> Root(k + 1), at |-> 0], ns |-> 0, nr |-> 0, pn |-> ns, skipped |-> sk]
  <2>1. dh_ratchet(State(p, f, ns, nr, pn, sk), x, y) = Mixed(Append(Root(k), dh(<<p, f>>, x)), x, y, ns, sk)
    BY RatchetAny
  <2> QED
    BY <1>2, <1>3, <2>1 DEF Mixed
<1>5. State(p, f + 1, 0, 0, ns, sk) =
         [rk |-> Root(k + 2), dhs |-> y, dhr |-> x, cks |-> Chain(k + 2, 0),
          ckr |-> Chain(k + 1, 0), ns |-> 0, nr |-> 0, pn |-> ns, skipped |-> sk]
  BY <1>1 DEF State
<1> QED
  BY <1>4, <1>5 DEF Chain

\* The next message of the receiving chain opens, and no other.
LEMMA OpenState ==
  ASSUME NEW p \in Clients, NEW f \in Nat \ {0, 1}, NEW ns, NEW nr \in Nat, NEW pn, NEW sk, NEW msg
  PROVE  OpenNext(State(p, f, ns, nr, pn, sk), msg) =
            IF msg.mk = Chain(Turn(p, f) - 1, nr) THEN Done(State(p, f, ns, nr + 1, pn, sk))
            ELSE Failed(State(p, f, ns, nr, pn, sk))
<1>1. PICK s : s = State(p, f, ns, nr, pn, sk)
  OBVIOUS
<1> DEFINE k == Turn(p, f) - 1
<1>2. Answers(p, f) # 0 /\ k \in Nat /\ k # 0
  BY DEF Turn, Answers, Clients
<1>3. /\ s.rk = Root(Turn(p, f)) /\ s.dhs = <<p, f>> /\ s.dhr = <<Peer(p), Answers(p, f)>> /\ s.ns = ns
      /\ s.pn = pn /\ s.cks = Chain(Turn(p, f), ns) /\ s.skipped = sk /\ s.ckr = Chain(k, nr) /\ s.nr = nr
  BY <1>1, <1>2 DEF State
<1>4. s.ckr # NoChain
  <2>1. Root(k) # <<>>
    BY <1>2, RootGrows
  <2>2. Chain(k, nr) # NoChain
    BY <2>1 DEF Chain, NoChain
  <2> QED
    BY <1>3, <2>2
<1>5. CASE msg.mk # Chain(k, nr)
  BY <1>1, <1>3, <1>5 DEF OpenNext
<1>6. CASE msg.mk = Chain(k, nr)
  <2>1. PICK c : c = Chain(k, nr + 1)
    OBVIOUS
  <2>2. c = AdvanceChain(s.ckr, 1)
    BY <1>3, <2>1, Advanced
  <2>3. OpenNext(s, msg) = Done([s EXCEPT !.ckr = c, !.nr = nr + 1])
    BY <1>3, <1>4, <1>6, <2>2 DEF OpenNext
  <2>4. s \in [rk : {s.rk}, dhs : {s.dhs}, dhr : {s.dhr}, cks : {s.cks}, ckr : {s.ckr, c},
               ns : {s.ns}, nr : {s.nr, nr + 1}, pn : {s.pn}, skipped : {s.skipped}]
    BY <1>1 DEF State
  <2>5. PICK t : t = [s EXCEPT !.ckr = c, !.nr = nr + 1]
    OBVIOUS
  <2>6. /\ t \in [rk : {s.rk}, dhs : {s.dhs}, dhr : {s.dhr}, cks : {s.cks}, ckr : {s.ckr, c},
                  ns : {s.ns}, nr : {s.nr, nr + 1}, pn : {s.pn}, skipped : {s.skipped}]
        /\ t.ckr = c /\ t.nr = nr + 1
    BY ONLY <2>4, <2>5
  <2>7. t = State(p, f, ns, nr + 1, pn, sk)
    BY <1>2, <1>3, <2>1, <2>6 DEF State
  <2> QED
    BY <1>1, <1>6, <2>3, <2>5, <2>7
<1> QED
  BY <1>5, <1>6

\* A message of a turn that is over, whose key is not kept, does not open.
LEMMA OldRefused ==
  ASSUME NEW p \in Clients, NEW f \in Nat \ {0}, NEW ns, NEW nr, NEW pn, NEW sk, NEW x, NEW y,
         NEW msg, msg.n \in Nat, Len(msg.mk.root) # Turn(p, f) + 1
  PROVE  SkipAndOpen(dh_ratchet(State(p, f, ns, nr, pn, sk), x, y), msg).ok = FALSE
<1>1. PICK t : t = dh_ratchet(State(p, f, ns, nr, pn, sk), x, y)
  OBVIOUS
<1>0. PICK n \in Nat : n = msg.n
  OBVIOUS
<1>2. PICK a : a = Append(Root(Turn(p, f)), dh(<<p, f>>, x))
  OBVIOUS
<1>3. PICK b : b = Append(a, dh(y, x))
  OBVIOUS
<1>4. t = [rk |-> b, dhs |-> y, dhr |-> x, cks |-> [root |-> b, at |-> 0],
           ckr |-> [root |-> a, at |-> 0], ns |-> 0, nr |-> 0, pn |-> ns, skipped |-> sk]
  <2>1. t = Mixed(a, x, y, ns, sk)
    BY <1>1, <1>2, RatchetAny
  <2> QED
    BY <1>3, <2>1 DEF Mixed
<1>5. Len(a) = Turn(p, f) + 1
  BY <1>2, Turns, RootLonger
<1>6. PICK c : c = [root |-> a, at |-> 0]
  OBVIOUS
<1>7. t.ckr = c /\ t.nr = 0 /\ c.root = a /\ c.at = 0
  BY <1>4, <1>6
<1>8. ASSUME NEW st, st.ckr.root = a PROVE OpenNext(st, msg).ok = FALSE
  BY <1>5, <1>8 DEF OpenNext, Failed
<1>9. PICK g : g = AdvanceChain(c, n)
  OBVIOUS
<1>10. g.root = a
  <2>1. c \in [root : {a}, at : Nat]
    BY <1>6
  <2>2. g = [c EXCEPT !.at = c.at + n]
    BY <1>9 DEF AdvanceChain
  <2> QED
    BY ONLY <2>1, <2>2, <1>7, n \in Nat
<1>11. PICK r : r = skip_recv(t, n)
  OBVIOUS
<1>12. r.ok => r.st.ckr.root = a
  <2>1. CASE r = Failed(t) \/ r = Done(t)
    BY <1>7, <2>1 DEF Failed, Done
  <2>2. CASE ~(n <= t.nr) /\ t.ckr # NoChain /\ ~(n > t.nr + MaxSkip)
    <3>1. PICK m : m = Insert([k \in {t.dhr} \X (t.nr .. n - 1) |-> AdvanceChain(t.ckr, k[2] - t.nr)], t.skipped)
      OBVIOUS
    <3>2. n - t.nr = n /\ AdvanceChain(t.ckr, n - t.nr) = g
      BY <1>7, <1>9
    <3>3. r = Done([t EXCEPT !.skipped = m, !.ckr = g, !.nr = n])
      BY <1>11, <2>2, <3>1, <3>2 DEF skip_recv
    <3>4. t \in [rk : {b}, dhs : {y}, dhr : {x}, cks : {t.cks}, ckr : {c, g}, ns : {0}, nr : Nat, pn : {ns},
                 skipped : {sk, m}]
      BY <1>4, <1>6
    <3>5. PICK u : u = [t EXCEPT !.skipped = m, !.ckr = g, !.nr = n]
      OBVIOUS
    <3>6. u.ckr = g
      BY ONLY <3>4, <3>5, n \in Nat
    <3> QED
      BY <1>10, <3>3, <3>5, <3>6 DEF Done
  <2> QED
    BY <1>7, <1>11, <2>1, <2>2, SkipAssumption DEF skip_recv
<1>13. SkipAndOpen(t, msg) = IF r.ok THEN OpenNext(r.st, msg) ELSE r
  BY <1>0, <1>11 DEF SkipAndOpen
<1>14. r.ok \in BOOLEAN
  BY <1>11 DEF skip_recv, Failed, Done
<1> QED
  BY <1>1, <1>8, <1>12, <1>13, <1>14

(***************************************************************************)
(* ratchet_decrypt on a message of the peer's j-th key, case by case.      *)
(***************************************************************************)
\* The keys kept after skip_recv has gone up to until, and where it then is.
Filled(p, f, nr, until, sk) ==
    IF until <= nr THEN sk ELSE More(<<Peer(p), Answers(p, f)>>, Turn(p, f) - 1, nr, until, sk)
Later(nr, until) == IF until <= nr THEN nr ELSE until

\* Results of a step that fails and of one that is done.
LEMMA Results == \A st : /\ Failed(st).ok = FALSE /\ Done(st).ok = TRUE
                         /\ Failed(st).st = st /\ Done(st).st = st
BY DEF Failed, Done

\* Both cases of skip_recv at once.
LEMMA SkipFilled ==
  ASSUME NEW p \in Clients, NEW f \in Nat \ {0}, NEW ns, NEW nr \in Nat, NEW pn, NEW sk, NEW until \in Nat,
         f = 1 => nr = 0 /\ until = 0
  PROVE  skip_recv(State(p, f, ns, nr, pn, sk), until) =
            IF until > nr + MaxSkip THEN Failed(State(p, f, ns, nr, pn, sk))
            ELSE Done(State(p, f, ns, Later(nr, until), pn, Filled(p, f, nr, until, sk)))
<1>1. CASE f = 1
  <2>1. skip_recv(State(p, 1, ns, nr, pn, sk), until) =
            IF until > nr THEN Failed(State(p, 1, ns, nr, pn, sk)) ELSE Done(State(p, 1, ns, nr, pn, sk))
    BY SkipNone
  <2>2. until <= nr /\ ~(until > nr) /\ ~(until > nr + MaxSkip)
    BY <1>1, SkipAssumption
  <2> QED
    BY <1>1, <2>1, <2>2 DEF Filled, Later
<1>2. CASE f # 1
  <2> DEFINE s == State(p, f, ns, nr, pn, sk)
             m == More(<<Peer(p), Answers(p, f)>>, Turn(p, f) - 1, nr, until, sk)
  <2>1. skip_recv(s, until) = IF until > nr + MaxSkip THEN Failed(s)
                              ELSE IF until <= nr THEN Done(s)
                              ELSE Done(State(p, f, ns, until, pn, m))
    BY <1>2, SkipState
  <2> QED
    BY <2>1 DEF Filled, Later
<1> QED
  BY <1>1, <1>2

\* On the chain it reads, a client opens what is next or ahead within the limit.
Reached(r, p, f, ns, nr, pn, sk, n) ==
    IF nr <= n /\ n <= nr + MaxSkip
    THEN r = Done(State(p, f, ns, n + 1, pn, Filled(p, f, nr, n, sk)))
    ELSE r.ok = FALSE

LEMMA ReachState ==
  ASSUME NEW p \in Clients, NEW f \in Nat \ {0, 1}, NEW ns, NEW nr \in Nat, NEW pn, NEW sk,
         NEW msg, msg.n \in Nat, msg.mk = Chain(Turn(p, f) - 1, msg.n)
  PROVE  Reached(SkipAndOpen(State(p, f, ns, nr, pn, sk), msg), p, f, ns, nr, pn, sk, msg.n)
<1>1. PICK s : s = State(p, f, ns, nr, pn, sk)
  OBVIOUS
<1>2. PICK n \in Nat : n = msg.n
  OBVIOUS
<1>3. PICK k \in Nat : k = Turn(p, f) - 1
  BY DEF Turn, Clients
<1>4. PICK r : r = skip_recv(s, n)
  OBVIOUS
<1>5. SkipAndOpen(s, msg) = IF r.ok THEN OpenNext(r.st, msg) ELSE r
  BY <1>2, <1>4 DEF SkipAndOpen
<1>6. PICK t : t = State(p, f, ns, Later(nr, n), pn, Filled(p, f, nr, n, sk))
  OBVIOUS
<1>7. r = IF n > nr + MaxSkip THEN Failed(s) ELSE Done(t)
  BY <1>1, <1>4, <1>6, SkipFilled
<1>8. CASE n > nr + MaxSkip
  BY <1>1, <1>2, <1>5, <1>7, <1>8, Results, SkipAssumption DEF Reached
<1>9. CASE ~(n > nr + MaxSkip)
  <2>1. SkipAndOpen(s, msg) = OpenNext(t, msg)
    BY <1>5, <1>7, <1>9, Results
  <2>2. PICK l \in Nat : l = Later(nr, n)
    BY DEF Later
  <2>3. OpenNext(t, msg) = IF msg.mk = Chain(k, l)
                           THEN Done(State(p, f, ns, l + 1, pn, Filled(p, f, nr, n, sk))) ELSE Failed(t)
    BY <1>3, <1>6, <2>2, OpenState
  <2>4. msg.mk = Chain(k, l) <=> n = l
    <3>1. Chain(k, n) = Chain(k, l) <=> n = l
      BY DEF Chain
    <3> QED
      BY <1>2, <1>3, <3>1
  <2>5. n = l <=> nr <= n
    BY <2>2 DEF Later
  <2>6. n <= nr + MaxSkip
    BY <1>9, SkipAssumption
  <2>7. CASE n = l
    BY <1>1, <1>2, <2>1, <2>3, <2>4, <2>5, <2>6, <2>7 DEF Reached
  <2>8. CASE n # l
    BY <1>1, <1>2, <2>1, <2>3, <2>4, <2>5, <2>8, Results DEF Reached
  <2> QED
    BY <2>7, <2>8
<1> QED
  BY <1>8, <1>9

\* The branches of ratchet_decrypt, by what the message finds.
LEMMA Branches ==
  ASSUME NEW st, NEW msg, NEW y
  PROVE  LET held == <<msg.dh, msg.n>>
             r == ratchet_decrypt(st, msg, y)
             Same(res) == r = IF res.ok THEN res ELSE Failed(st)
         IN /\ held \in DOMAIN st.skipped /\ st.skipped[held] = msg.mk =>
                r = Done([st EXCEPT !.skipped = Remove(st.skipped, held)])
            /\ held \notin DOMAIN st.skipped /\ st.dhr = msg.dh => Same(SkipAndOpen(st, msg))
BY Results DEF ratchet_decrypt

\* A flush beyond the limit refuses the message.
LEMMA Refuses ==
  ASSUME NEW st, NEW msg, NEW y, <<msg.dh, msg.n>> \notin DOMAIN st.skipped, st.dhr # msg.dh,
         skip_recv(st, msg.pn).ok = FALSE
  PROVE  ratchet_decrypt(st, msg, y) = Failed(st)
BY DEF ratchet_decrypt

\* A message of the peer's j-th key.
IsMsg(msg, p, j) ==
    /\ msg.dh = <<Peer(p), j>> /\ msg.n \in Nat /\ msg.pn \in Nat
    /\ msg.mk = Chain(Turn(Peer(p), j), msg.n)

\* What a state of that form holds.
LEMMA Fields ==
  ASSUME NEW p, NEW f, NEW ns, NEW nr, NEW pn, NEW sk, NEW s, s = State(p, f, ns, nr, pn, sk)
  PROVE  /\ s.ns = ns /\ s.nr = nr /\ s.pn = pn /\ s.skipped = sk /\ s.dhs = <<p, f>>
         /\ s.rk = Root(Turn(p, f)) /\ (Answers(p, f) = 0 => s.dhr = NoKey)
         /\ (Answers(p, f) # 0 => s.dhr = <<Peer(p), Answers(p, f)>>)
BY DEF State

\* A key that was kept opens its message and is gone.
LEMMA OpenKept ==
  ASSUME NEW p \in Clients, NEW f \in Nat \ {0}, NEW ns, NEW nr \in Nat, NEW pn, NEW sk, NEW j \in Nat, NEW msg,
         Passed(p, f, nr, sk), IsMsg(msg, p, j), <<msg.dh, msg.n>> \in DOMAIN sk, NEW y
  PROVE  ratchet_decrypt(State(p, f, ns, nr, pn, sk), msg, y) =
            Done(State(p, f, ns, nr, pn, Remove(sk, <<msg.dh, msg.n>>)))
<1>1. PICK s : s = State(p, f, ns, nr, pn, sk)
  OBVIOUS
<1>2. PICK h : h = <<msg.dh, msg.n>>
  OBVIOUS
<1>3. sk[h] = msg.mk
  <2>1. PICK i \in 1 .. Answers(p, f), n \in Nat : h = <<<<Peer(p), i>>, n>> /\ sk[h] = Chain(Turn(Peer(p), i), n)
    BY <1>2 DEF Passed
  <2>2. i = j /\ n = msg.n
    BY <1>2, <2>1 DEF IsMsg
  <2> QED
    BY <2>1, <2>2 DEF IsMsg
<1>4. PICK m : m = Remove(sk, h)
  OBVIOUS
<1>5. s.skipped = sk
  BY <1>1, Fields
<1>6. ratchet_decrypt(s, msg, y) = Done([s EXCEPT !.skipped = m])
  BY <1>2, <1>3, <1>4, <1>5, Branches
<1>7. s \in [rk : {s.rk}, dhs : {s.dhs}, dhr : {s.dhr}, cks : {s.cks}, ckr : {s.ckr},
             ns : {s.ns}, nr : {s.nr}, pn : {s.pn}, skipped : {s.skipped, m}]
  BY <1>1 DEF State
<1>8. PICK t : t = [s EXCEPT !.skipped = m]
  OBVIOUS
<1>9. /\ t \in [rk : {s.rk}, dhs : {s.dhs}, dhr : {s.dhr}, cks : {s.cks}, ckr : {s.ckr},
                ns : {s.ns}, nr : {s.nr}, pn : {s.pn}, skipped : {s.skipped, m}]
      /\ t.skipped = m
  BY ONLY <1>7, <1>8
<1>10. t = State(p, f, ns, nr, pn, m)
  BY <1>1, <1>9 DEF State
<1> QED
  BY <1>1, <1>2, <1>4, <1>6, <1>8, <1>10

\* A message of the chain p reads, whose key is not kept.
LEMMA OpenSame ==
  ASSUME NEW p \in Clients, NEW f \in Nat \ {0, 1}, NEW ns, NEW nr \in Nat, NEW pn, NEW sk, NEW msg,
         IsMsg(msg, p, Answers(p, f)), <<msg.dh, msg.n>> \notin DOMAIN sk, NEW y
  PROVE  Reached(ratchet_decrypt(State(p, f, ns, nr, pn, sk), msg, y), p, f, ns, nr, pn, sk, msg.n)
<1>1. PICK s : s = State(p, f, ns, nr, pn, sk)
  OBVIOUS
<1>2. Answers(p, f) # 0 /\ Turn(Peer(p), Answers(p, f)) = Turn(p, f) - 1
  BY Turns
<1>3. s.skipped = sk /\ s.dhr = msg.dh
  BY <1>1, <1>2, Fields DEF IsMsg
<1>4. PICK u : u = SkipAndOpen(s, msg)
  OBVIOUS
<1>5. ratchet_decrypt(s, msg, y) = IF u.ok THEN u ELSE Failed(s)
  BY <1>3, <1>4, Branches
<1>6. msg.n \in Nat /\ msg.mk = Chain(Turn(p, f) - 1, msg.n)
  BY <1>2 DEF IsMsg
<1>7. Reached(u, p, f, ns, nr, pn, sk, msg.n)
  BY <1>1, <1>4, <1>6, ReachState
<1> QED
  BY <1>1, <1>5, <1>7, Results DEF Reached

\* A message of the peer's next key: a turn of the ratchet.
Turned(r, p, f, ns, nr, sk, mp, n) ==
    IF mp <= nr + MaxSkip /\ n <= MaxSkip
    THEN r = Done(State(p, f + 1, 0, n + 1, ns, Filled(p, f + 1, 0, n, Filled(p, f, nr, mp, sk))))
    ELSE r.ok = FALSE

LEMMA OpenNew ==
  ASSUME NEW p \in Clients, NEW f \in Nat \ {0}, NEW ns, NEW nr \in Nat, NEW pn, NEW sk, NEW msg,
         Passed(p, f, nr, sk), IsMsg(msg, p, Answers(p, f) + 1), f = 1 => nr = 0 /\ msg.pn = 0
  PROVE  Turned(ratchet_decrypt(State(p, f, ns, nr, pn, sk), msg, <<p, f + 1>>), p, f, ns, nr, sk, msg.pn, msg.n)
<1>1. PICK s : s = State(p, f, ns, nr, pn, sk)
  OBVIOUS
<1>2. PICK a \in Nat : a = Answers(p, f)
  BY Turns
<1>3. s.skipped = sk /\ (a = 0 => s.dhr = NoKey) /\ (a # 0 => s.dhr = <<Peer(p), a>>)
  BY <1>1, <1>2, Fields
<1>4. s.dhr # msg.dh
  <2>1. msg.dh = <<Peer(p), a + 1>> /\ Peer(p) # "nobody"
    BY <1>2 DEF IsMsg, Peer
  <2> QED
    BY <1>3, <2>1 DEF NoKey
<1>5. <<msg.dh, msg.n>> \notin DOMAIN sk
  <2> SUFFICES ASSUME <<msg.dh, msg.n>> \in DOMAIN sk PROVE FALSE
    OBVIOUS
  <2>1. PICK i \in 1 .. a, n \in Nat : <<msg.dh, msg.n>> = <<<<Peer(p), i>>, n>>
    BY <1>2 DEF Passed
  <2>2. msg.dh = <<Peer(p), i>> /\ msg.dh = <<Peer(p), a + 1>>
    BY <1>2, <2>1 DEF IsMsg
  <2> QED
    BY <2>2
<1>6. PICK u : u = skip_recv(s, msg.pn)
  OBVIOUS
<1>7. PICK l, m : l = Later(nr, msg.pn) /\ m = Filled(p, f, nr, msg.pn, sk)
  OBVIOUS
<1>8. u = IF msg.pn > nr + MaxSkip THEN Failed(s) ELSE Done(State(p, f, ns, l, pn, m))
  BY <1>1, <1>6, <1>7, SkipFilled DEF IsMsg
<1>9. CASE msg.pn > nr + MaxSkip
  <2>1. ratchet_decrypt(s, msg, <<p, f + 1>>) = Failed(s)
    <3>1. u.ok = FALSE
      BY <1>8, <1>9, Results
    <3> QED
      BY <1>3, <1>4, <1>5, <1>6, <3>1, Refuses
  <2> QED
    BY <1>1, <1>9, <2>1, Results, SkipAssumption DEF Turned, IsMsg
<1>10. CASE ~(msg.pn > nr + MaxSkip)
  <2>1. u.ok = TRUE /\ u.st = State(p, f, ns, l, pn, m)
    BY <1>8, <1>10, Results
  <2>2. PICK t : t = State(p, f + 1, 0, 0, ns, m)
    OBVIOUS
  <2>3. dh_ratchet(u.st, msg.dh, <<p, f + 1>>) = t
    BY <2>1, <2>2, RatchetState DEF IsMsg
  <2>4. PICK v : v = SkipAndOpen(t, msg)
    OBVIOUS
  <2>5. ratchet_decrypt(s, msg, <<p, f + 1>>) = IF v.ok THEN v ELSE Failed(s)
    <3>1. <<msg.dh, msg.n>> \notin DOMAIN s.skipped /\ v = SkipAndOpen(dh_ratchet(u.st, msg.dh, <<p, f + 1>>), msg)
      BY <1>3, <1>5, <2>3, <2>4
    <3> QED
      BY <1>4, <1>6, <2>1, <3>1 DEF ratchet_decrypt
  <2>6. msg.n \in Nat /\ msg.mk = Chain(Turn(p, f + 1) - 1, msg.n) /\ f + 1 \in Nat \ {0, 1}
    <3>1. Turn(Peer(p), Answers(p, f) + 1) = Turn(p, f) + 1 /\ Turn(p, f + 1) = Turn(p, f) + 2 /\ Turn(p, f) \in Nat
      BY Turns
    <3> QED
      BY <3>1 DEF IsMsg
  <2>7. Reached(v, p, f + 1, 0, 0, ns, m, msg.n)
    BY <2>2, <2>4, <2>6, ReachState
  <2>8. msg.n >= 0 /\ 0 + MaxSkip = MaxSkip /\ msg.pn <= nr + MaxSkip
    BY <1>10, <2>6, SkipAssumption DEF IsMsg
  <2> QED
    BY <1>1, <1>7, <2>5, <2>7, <2>8, Results DEF Reached, Turned
<1> QED
  BY <1>9, <1>10

(***************************************************************************)
(* The keys that are kept.                                                 *)
(***************************************************************************)
Fills(p, f, nr, until, m, sk) ==
    /\ p \in Clients /\ f \in Nat \ {0} /\ nr \in Nat /\ until \in Nat /\ m \in Nat
    /\ nr <= m /\ until <= m /\ Passed(p, f, nr, sk) /\ (f = 1 => until <= nr)
Grown(p, f, nr, until, m, sk) ==
    /\ Passed(p, f, m, Filled(p, f, nr, until, sk))
    /\ DOMAIN Filled(p, f, nr, until, sk) =
            DOMAIN sk \cup {<<<<Peer(p), Answers(p, f)>>, i>> : i \in nr .. until - 1}

\* Skipping adds the keys of the stretch that was passed, and only those.
LEMMA FilledKeys ==
  ASSUME NEW p, NEW f, NEW nr, NEW until, NEW m, NEW sk, Fills(p, f, nr, until, m, sk)
  PROVE  Grown(p, f, nr, until, m, sk)
<1> USE DEF Grown
<1>0. /\ p \in Clients /\ f \in Nat \ {0} /\ nr \in Nat /\ until \in Nat /\ m \in Nat
      /\ nr <= m /\ until <= m /\ Passed(p, f, nr, sk) /\ (f = 1 => until <= nr)
  BY DEF Fills
<1> DEFINE d == <<Peer(p), Answers(p, f)>>
           t == Filled(p, f, nr, until, sk)
<1>1. CASE until <= nr
  <2>1. t = sk /\ nr .. until - 1 = {}
    BY <1>0, <1>1 DEF Filled
  <2>2. Passed(p, f, m, sk)
    BY <1>0 DEF Passed
  <2> QED
    BY <1>0, <2>1, <2>2
<1>2. CASE ~(until <= nr)
  <2>1. /\ f # 1 /\ Answers(p, f) \in Nat \ {0} /\ Turn(Peer(p), Answers(p, f)) = Turn(p, f) - 1
    BY <1>0, <1>2, Turns
  <2> DEFINE new == [i \in {d} \X (nr .. until - 1) |-> Chain(Turn(p, f) - 1, i[2])]
  <2>2. t = [k \in DOMAIN new \cup DOMAIN sk |-> IF k \in DOMAIN new THEN new[k] ELSE sk[k]]
    BY <1>0, <1>2 DEF Filled, More, Insert
  <2>3. DOMAIN new = {d} \X (nr .. until - 1)
    OBVIOUS
  <2>4. DOMAIN t = DOMAIN sk \cup {<<d, i>> : i \in nr .. until - 1}
    BY <2>2, <2>3
  <2>5. ASSUME NEW k \in DOMAIN t
        PROVE  \E j \in 1 .. Answers(p, f), n \in Nat :
                  /\ k = <<<<Peer(p), j>>, n>> /\ t[k] = Chain(Turn(Peer(p), j), n)
                  /\ j = Answers(p, f) => n < m
    <3>1. CASE k \in DOMAIN new
      <4>1. PICK i \in nr .. until - 1 : k = <<d, i>>
        BY <3>1
      <4>2. t[k] = Chain(Turn(p, f) - 1, i)
        BY <2>2, <3>1, <4>1
      <4>3. i \in Nat /\ i < m /\ Answers(p, f) \in 1 .. Answers(p, f)
        BY <1>0, <2>1
      <4> QED
        BY <1>0, <2>1, <4>1, <4>2, <4>3
    <3>2. CASE k \notin DOMAIN new
      <4>1. k \in DOMAIN sk /\ t[k] = sk[k]
        BY <2>2, <2>5, <3>2
      <4>2. PICK j \in 1 .. Answers(p, f), n \in Nat :
                  /\ k = <<<<Peer(p), j>>, n>> /\ sk[k] = Chain(Turn(Peer(p), j), n)
                  /\ j = Answers(p, f) => n < nr
        BY <1>0, <4>1 DEF Passed
      <4> QED
        BY <1>0, <4>1, <4>2
    <3> QED
      BY <3>1, <3>2
  <2>6. t = [k \in DOMAIN t |-> t[k]]
    BY <2>2
  <2> QED
    BY <2>4, <2>5, <2>6 DEF Passed
<1> QED
  BY <1>1, <1>2

\* Using a key removes it alone.
LEMMA RemovedKeys ==
  ASSUME NEW p, NEW f, NEW nr, NEW sk, NEW h, Passed(p, f, nr, sk)
  PROVE  Passed(p, f, nr, Remove(sk, h)) /\ DOMAIN Remove(sk, h) = DOMAIN sk \ {h}
BY DEF Passed, Remove

\* After a turn, all the keys kept are of earlier ones.
LEMMA TurnedKeys ==
  ASSUME NEW p \in Clients, NEW f \in Nat \ {0}, NEW nr \in Nat, NEW sk, Passed(p, f, nr, sk)
  PROVE  Passed(p, f + 1, 0, sk)
<1>1. Answers(p, f) \in Nat /\ Answers(p, f + 1) = Answers(p, f) + 1
  BY Turns
<1>2. ASSUME NEW k \in DOMAIN sk
      PROVE  \E j \in 1 .. Answers(p, f + 1), n \in Nat :
                /\ k = <<<<Peer(p), j>>, n>> /\ sk[k] = Chain(Turn(Peer(p), j), n)
                /\ j = Answers(p, f + 1) => n < 0
  <2>1. PICK j \in 1 .. Answers(p, f), n \in Nat :
                k = <<<<Peer(p), j>>, n>> /\ sk[k] = Chain(Turn(Peer(p), j), n)
    BY DEF Passed
  <2>2. j \in 1 .. Answers(p, f + 1) /\ j # Answers(p, f + 1)
    BY <1>1
  <2> QED
    BY <2>1, <2>2
<1> QED
  BY <1>2 DEF Passed

(***************************************************************************)
(* What a message that opens does to a state.                              *)
(***************************************************************************)
Held(st, msg) == <<msg.dh, msg.n>> \in DOMAIN st.skipped

\* Its key was kept.
ByKept(st, msg, p, f, u) ==
    /\ Held(st, msg) /\ Sound(u, p, f)
    /\ u.nr = st.nr /\ u.ns = st.ns /\ u.pn = st.pn
    /\ DOMAIN u.skipped = DOMAIN st.skipped \ {<<msg.dh, msg.n>>}
\* It is ahead on the chain that p reads.
BySame(st, msg, p, f, u) ==
    /\ ~Held(st, msg) /\ msg.dh = <<Peer(p), Answers(p, f)>> /\ Sound(u, p, f)
    /\ u.nr = msg.n + 1 /\ u.ns = st.ns /\ u.pn = st.pn /\ st.nr <= msg.n
    /\ DOMAIN u.skipped = DOMAIN st.skipped \cup {<<msg.dh, i>> : i \in st.nr .. msg.n - 1}
\* It is of the peer's next key.
ByTurn(st, msg, p, f, u) ==
    /\ ~Held(st, msg) /\ msg.dh = <<Peer(p), Answers(p, f) + 1>> /\ Sound(u, p, f + 1)
    /\ u.nr = msg.n + 1 /\ u.ns = 0 /\ u.pn = st.ns
    /\ DOMAIN u.skipped = (DOMAIN st.skipped
            \cup {<<<<Peer(p), Answers(p, f)>>, i>> : i \in st.nr .. msg.pn - 1})
            \cup {<<msg.dh, i>> : i \in 0 .. msg.n - 1}

\* A message whose key is kept always opens.
LEMMA Kept ==
  ASSUME NEW p \in Clients, NEW f \in Nat \ {0}, NEW st, Sound(st, p, f), NEW j \in Nat, NEW msg,
         IsMsg(msg, p, j), Held(st, msg), NEW y
  PROVE  /\ ratchet_decrypt(st, msg, y).ok = TRUE
         /\ ByKept(st, msg, p, f, ratchet_decrypt(st, msg, y).st)
<1>1. PICK h : h = <<msg.dh, msg.n>>
  OBVIOUS
<1>2. PICK sk : sk = Remove(st.skipped, h)
  OBVIOUS
<1>3. Passed(p, f, st.nr, sk) /\ DOMAIN sk = DOMAIN st.skipped \ {h}
  BY <1>2, RemovedKeys DEF Sound
<1>4. PICK u : u = State(p, f, st.ns, st.nr, st.pn, sk)
  OBVIOUS
<1>5. st.nr \in Nat /\ st = State(p, f, st.ns, st.nr, st.pn, st.skipped) /\ Passed(p, f, st.nr, st.skipped)
  BY DEF Sound
<1>6. ratchet_decrypt(State(p, f, st.ns, st.nr, st.pn, st.skipped), msg, y) = Done(u)
  BY <1>1, <1>2, <1>4, <1>5, OpenKept DEF Held
<1>7. ratchet_decrypt(st, msg, y) = Done(u)
  BY <1>5, <1>6
<1>8. u.ns = st.ns /\ u.nr = st.nr /\ u.pn = st.pn /\ u.skipped = sk
  BY <1>4, Fields
<1>9. Sound(u, p, f)
  BY <1>3, <1>4, <1>8 DEF Sound
<1> QED
  BY <1>1, <1>3, <1>7, <1>8, <1>9, Results DEF ByKept

IfSame(r, st, msg, p, f) ==
    IF st.nr <= msg.n /\ msg.n <= st.nr + MaxSkip
    THEN r.ok = TRUE /\ BySame(st, msg, p, f, r.st)
    ELSE r.ok = FALSE

\* A message of the chain p reads opens when it is ahead and within the limit, else not.
LEMMA Same ==
  ASSUME NEW p \in Clients, NEW f \in Nat \ {0, 1}, NEW st, Sound(st, p, f), NEW msg,
         IsMsg(msg, p, Answers(p, f)), ~Held(st, msg), NEW y
  PROVE  IfSame(ratchet_decrypt(st, msg, y), st, msg, p, f)
<1>1. PICK sk : sk = Filled(p, f, st.nr, msg.n, st.skipped)
  OBVIOUS
<1>2. st.nr \in Nat /\ st = State(p, f, st.ns, st.nr, st.pn, st.skipped) /\ Passed(p, f, st.nr, st.skipped)
  BY DEF Sound
<1>3. PICK r : r = ratchet_decrypt(st, msg, y)
  OBVIOUS
<1>4. Reached(r, p, f, st.ns, st.nr, st.pn, st.skipped, msg.n)
  <2>1. Reached(ratchet_decrypt(State(p, f, st.ns, st.nr, st.pn, st.skipped), msg, y),
                p, f, st.ns, st.nr, st.pn, st.skipped, msg.n)
    BY <1>2, OpenSame DEF Held
  <2> QED
    BY <1>2, <1>3, <2>1
<1>5. CASE st.nr <= msg.n /\ msg.n <= st.nr + MaxSkip
  <2>1. PICK n \in Nat : n = msg.n
    BY DEF IsMsg
  <2>2. Passed(p, f, n + 1, sk)
        /\ DOMAIN sk = DOMAIN st.skipped \cup {<<<<Peer(p), Answers(p, f)>>, i>> : i \in st.nr .. n - 1}
    <3>1. st.nr <= n + 1 /\ n <= n + 1 /\ n + 1 \in Nat /\ (f = 1 => n <= st.nr)
      BY <1>2, <1>5, <2>1
    <3>2. f \in Nat \ {0} /\ sk = Filled(p, f, st.nr, n, st.skipped)
      BY <1>1, <2>1
    <3> QED
      <4>1. Fills(p, f, st.nr, n, n + 1, st.skipped)
        BY <1>2, <3>1, <3>2 DEF Fills
      <4>2. Grown(p, f, st.nr, n, n + 1, st.skipped)
        BY <4>1, FilledKeys
      <4> QED
        BY <3>2, <4>2 DEF Grown
  <2>3. PICK u : u = State(p, f, st.ns, n + 1, st.pn, sk)
    OBVIOUS
  <2>4. r = Done(u)
    BY <1>1, <1>4, <1>5, <2>1, <2>3 DEF Reached
  <2>5. u.ns = st.ns /\ u.nr = n + 1 /\ u.pn = st.pn /\ u.skipped = sk
    BY <2>3, Fields
  <2>6. Sound(u, p, f)
    BY <2>2, <2>3, <2>5 DEF Sound
  <2>7. msg.dh = <<Peer(p), Answers(p, f)>>
    BY DEF IsMsg
  <2>8. BySame(st, msg, p, f, u)
    BY <1>5, <2>1, <2>2, <2>5, <2>6, <2>7 DEF BySame
  <2> QED
    BY <1>3, <1>5, <2>4, <2>8, Results DEF IfSame
<1>6. CASE ~(st.nr <= msg.n /\ msg.n <= st.nr + MaxSkip)
  BY <1>3, <1>4, <1>6 DEF Reached, IfSame
<1> QED
  BY <1>5, <1>6

\* A message of the peer's next key turns the ratchet when both gaps are within the limit.
LEMMA Newer ==
  ASSUME NEW p \in Clients, NEW f \in Nat \ {0}, NEW st, Sound(st, p, f), NEW msg,
         IsMsg(msg, p, Answers(p, f) + 1), ~Held(st, msg), f = 1 => msg.pn = 0
  PROVE  LET r == ratchet_decrypt(st, msg, <<p, f + 1>>)
         IN IF msg.pn <= st.nr + MaxSkip /\ msg.n <= MaxSkip
            THEN r.ok = TRUE /\ ByTurn(st, msg, p, f, r.st)
            ELSE r.ok = FALSE
<1>1. PICK mid : mid = Filled(p, f, st.nr, msg.pn, st.skipped)
  OBVIOUS
<1>2. PICK sk : sk = Filled(p, f + 1, 0, msg.n, mid)
  OBVIOUS
<1>3. /\ st.nr \in Nat /\ st.ns \in Nat /\ st = State(p, f, st.ns, st.nr, st.pn, st.skipped)
      /\ Passed(p, f, st.nr, st.skipped)
      /\ f = 1 => st.nr = 0
      /\ Answers(p, f) = 0 => st.ns = 0
  BY DEF Sound
<1>4. PICK r : r = ratchet_decrypt(st, msg, <<p, f + 1>>)
  OBVIOUS
<1>5. Turned(r, p, f, st.ns, st.nr, st.skipped, msg.pn, msg.n)
  <2>1. Turned(ratchet_decrypt(State(p, f, st.ns, st.nr, st.pn, st.skipped), msg, <<p, f + 1>>),
                p, f, st.ns, st.nr, st.skipped, msg.pn, msg.n)
    BY <1>3, OpenNew
  <2> QED
    BY <1>3, <1>4, <2>1
<1>6. CASE msg.pn <= st.nr + MaxSkip /\ msg.n <= MaxSkip
  <2>1. PICK n \in Nat, q \in Nat : n = msg.n /\ q = msg.pn
    BY DEF IsMsg
  <2>2. PICK l \in Nat : st.nr <= l /\ q <= l
    <3>1. st.nr + q \in Nat /\ st.nr <= st.nr + q /\ q <= st.nr + q
      BY <1>3
    <3> QED
      BY <3>1
  <2>3. Passed(p, f, l, mid)
        /\ DOMAIN mid = DOMAIN st.skipped \cup {<<<<Peer(p), Answers(p, f)>>, i>> : i \in st.nr .. q - 1}
    <3>1. f = 1 => q <= st.nr
      BY <1>3, <2>1
    <3>2. mid = Filled(p, f, st.nr, q, st.skipped)
      BY <1>1, <2>1
    <3> QED
      <4>1. Fills(p, f, st.nr, q, l, st.skipped)
        BY <1>3, <2>2, <3>1 DEF Fills
      <4>2. Grown(p, f, st.nr, q, l, st.skipped)
        BY <4>1, FilledKeys
      <4> QED
        BY <3>2, <4>2 DEF Grown
  <2>4. Passed(p, f + 1, 0, mid)
    BY <2>3, TurnedKeys
  <2>5. /\ Passed(p, f + 1, n + 1, sk)
        /\ DOMAIN sk = DOMAIN mid \cup {<<<<Peer(p), Answers(p, f + 1)>>, i>> : i \in 0 .. n - 1}
    <3>1. 0 <= n + 1 /\ n <= n + 1 /\ n + 1 \in Nat /\ 0 \in Nat /\ f + 1 \in Nat \ {0}
          /\ (f + 1 = 1 => n <= 0)
      OBVIOUS
    <3>2. sk = Filled(p, f + 1, 0, n, mid)
      BY <1>2, <2>1
    <3> QED
      <4>1. Fills(p, f + 1, 0, n, n + 1, mid)
        BY <2>4, <3>1 DEF Fills
      <4>2. Grown(p, f + 1, 0, n, n + 1, mid)
        BY <4>1, FilledKeys
      <4> QED
        BY <3>2, <4>2 DEF Grown
  <2>6. Answers(p, f + 1) = Answers(p, f) + 1 /\ msg.dh = <<Peer(p), Answers(p, f) + 1>> /\ Answers(p, f) \in Nat
    BY Turns DEF IsMsg
  <2>7. PICK u : u = State(p, f + 1, 0, n + 1, st.ns, sk)
    OBVIOUS
  <2>8. r = Done(u)
    BY <1>1, <1>2, <1>5, <1>6, <2>1, <2>7 DEF Turned
  <2>9. u.ns = 0 /\ u.nr = n + 1 /\ u.pn = st.ns /\ u.skipped = sk
    BY <2>7, Fields
  <2>10. Sound(u, p, f + 1)
    <3>1. Answers(p, f + 1) <= 1 => st.ns = 0
      BY <1>3, <2>6
    <3> QED
      BY <1>3, <2>5, <2>6, <2>7, <2>9, <3>1 DEF Sound
  <2>11. ByTurn(st, msg, p, f, u)
    BY <2>1, <2>3, <2>5, <2>6, <2>9, <2>10 DEF ByTurn
  <2> QED
    BY <1>4, <1>6, <2>8, <2>11, Results
<1>7. CASE ~(msg.pn <= st.nr + MaxSkip /\ msg.n <= MaxSkip)
  BY <1>4, <1>5, <1>7 DEF Turned
<1> QED
  BY <1>6, <1>7

Refused(r) == r.ok = FALSE

\* A message of a turn that is over and whose key is not kept never opens.
LEMMA Older ==
  ASSUME NEW p \in Clients, NEW f \in Nat \ {0}, NEW st, Sound(st, p, f), NEW j \in Nat, NEW msg,
         j # 0, j < Answers(p, f), IsMsg(msg, p, j), ~Held(st, msg), NEW y
  PROVE  Refused(ratchet_decrypt(st, msg, y))
<1>0. PICK s, ns, nr, pn, sk : s = st /\ ns = st.ns /\ nr = st.nr /\ pn = st.pn /\ sk = st.skipped
  OBVIOUS
<1>1. s = State(p, f, ns, nr, pn, sk) /\ nr \in Nat /\ <<msg.dh, msg.n>> \notin DOMAIN sk
  BY <1>0 DEF Sound, Held
<1> SUFFICES ratchet_decrypt(s, msg, y).ok = FALSE
  BY <1>0 DEF Refused
<1>2. f # 1
  BY DEF Answers, Clients
<1>3. Answers(p, f) # 0 /\ Answers(p, f) \in Nat /\ Turn(Peer(p), Answers(p, f) + 1) = Turn(p, f) + 1
      /\ Peer(p) \in Clients
  BY <1>2, Turns
<1>4. s.skipped = sk /\ s.dhr = <<Peer(p), Answers(p, f)>>
  BY <1>1, <1>3, Fields
<1>5. s.dhr # msg.dh
  BY <1>3, <1>4 DEF IsMsg
<1>6. PICK u : u = skip_recv(s, msg.pn)
  OBVIOUS
<1>7. u = IF msg.pn > nr + MaxSkip THEN Failed(s)
          ELSE Done(State(p, f, ns, Later(nr, msg.pn), pn, Filled(p, f, nr, msg.pn, sk)))
  BY <1>1, <1>2, <1>6, SkipFilled DEF IsMsg
<1>8. CASE msg.pn > nr + MaxSkip
  <2>1. u.ok = FALSE
    BY <1>7, <1>8, Results
  <2>2. ratchet_decrypt(s, msg, y) = Failed(s)
    BY <1>1, <1>4, <1>5, <1>6, <2>1, Refuses
  <2> QED
    BY <1>1, <2>2, Results
<1>9. CASE ~(msg.pn > nr + MaxSkip)
  <2>1. PICK l, m : l = Later(nr, msg.pn) /\ m = Filled(p, f, nr, msg.pn, sk)
    OBVIOUS
  <2>2. u.ok = TRUE /\ u.st = State(p, f, ns, l, pn, m)
    BY <1>7, <1>9, <2>1, Results
  <2>3. PICK v : v = SkipAndOpen(dh_ratchet(u.st, msg.dh, y), msg)
    OBVIOUS
  <2>4. ratchet_decrypt(s, msg, y) = IF v.ok THEN v ELSE Failed(s)
    <3>1. <<msg.dh, msg.n>> \notin DOMAIN s.skipped
      BY <1>1, <1>4
    <3> QED
      BY <1>5, <1>6, <2>2, <2>3, <3>1 DEF ratchet_decrypt
  <2>5. Len(msg.mk.root) # Turn(p, f) + 1
    <3>1. PICK k \in Nat : k = Turn(Peer(p), j)
      BY <1>3 DEF Turn, Clients
    <3>2. msg.mk.root = Root(k) /\ Len(Root(k)) = k
      BY <3>1, RootGrows DEF IsMsg, Chain
    <3>3. k # Turn(Peer(p), Answers(p, f) + 1)
      BY <1>3, <3>1, TurnsApart
    <3> QED
      BY <1>3, <3>2, <3>3
  <2>6. v.ok = FALSE
    <3>1. msg.n \in Nat
      BY DEF IsMsg
    <3>2. v = SkipAndOpen(dh_ratchet(State(p, f, ns, l, pn, m), msg.dh, y), msg)
      BY <2>2, <2>3
    <3> QED
      BY <2>5, <3>1, <3>2, OldRefused
  <2> QED
    BY <1>1, <2>4, <2>6, Results
<1> QED
  BY <1>8, <1>9

(***************************************************************************)
(* The invariant.                                                          *)
(***************************************************************************)
\* Where a message of the peer is, seen from p.
Placed(p, m, j) ==
    LET f == fresh[p]
        q == Peer(p)
    IN /\ j \in Nat \ {0} /\ Made(m, q, j) /\ IsMsg(m.msg, p, j) /\ Answers(q, j) # 0
       /\ \/ j < Answers(p, f)
          \/ j = Answers(p, f) /\ f # 1 /\ j \in {fresh[q], fresh[q] - 1}
          \/ j = Answers(p, f) + 1 /\ j = fresh[q] /\ (f = 1 => m.msg.pn = 0)

\* How far either client is, seen from p.
LEMMA Abreast ==
  ASSUME TurnsInv, NEW p \in Clients
  PROVE  /\ fresh[p] \in Nat \ {0} /\ fresh[Peer(p)] \in Nat \ {0}
         /\ fresh[Peer(p)] \in {Answers(p, fresh[p]), Answers(p, fresh[p]) + 1}
         /\ Sound(session[p], p, fresh[p]) /\ Sound(session[Peer(p)], Peer(p), fresh[Peer(p)])
         /\ Answers(p, fresh[p]) \in Nat
<1>1. Peer(p) \in Clients
  BY DEF Peer, Clients
<1>2. fresh["alice"] \in Nat \ {0} /\ fresh["bob"] \in Nat \ {0} /\ fresh[p] \in Nat \ {0} /\ fresh[Peer(p)] \in Nat \ {0}
  BY <1>1 DEF TurnsInv, Clients
<1>3. fresh[Peer(p)] \in {Answers(p, fresh[p]), Answers(p, fresh[p]) + 1} /\ Answers(p, fresh[p]) \in Nat
  BY <1>2 DEF TurnsInv, Peer, Clients, Answers
<1>4. \A r \in Clients : Sound(session[r], r, fresh[r])
  BY DEF TurnsInv
<1> QED
  BY <1>1, <1>2, <1>3, <1>4

\* The fields of a message.
LEMMA MadeMsg ==
  ASSUME NEW m, NEW q \in Clients, NEW j, Made(m, q, j)
  PROVE  /\ m.msg.dh = <<q, j>> /\ m.msg.n \in Nat /\ m.msg.pn \in Nat
         /\ m.msg.mk = Chain(Turn(q, j), m.msg.n)
<1>1. PICK x, y, z : x = <<q, j>> /\ y = Chain(Turn(q, j), m.msg.n) /\ z = m.msg
  OBVIOUS
<1>2. z = [dh |-> x, pn |-> m.msg.pn, n |-> m.msg.n, mk |-> y] /\ m.msg.n \in Nat /\ m.msg.pn \in Nat
  BY <1>1 DEF Made
<1>3. z.dh = x /\ z.mk = y
  BY <1>2
<1> QED
  BY <1>1, <1>2, <1>3

\* Every message of the peer is of a key p has answered, or of the next.
LEMMA Places ==
  ASSUME TurnsInv, SentInv, NEW p \in Clients, NEW m \in SentBy(Peer(p))
  PROVE  \E j \in Nat \ {0} : Placed(p, m, j)
<1> DEFINE f == fresh[p]
           q == Peer(p)
<1>1. q \in Clients /\ Peer(q) = p
  BY DEF Peer, Clients
<1>2. f \in Nat \ {0} /\ fresh[q] \in Nat \ {0} /\ fresh[q] \in {Answers(p, f), Answers(p, f) + 1}
      /\ Answers(p, f) \in Nat
  BY Abreast
<1>3. PICK j \in Nat : Made(m, q, j)
  BY DEF SentInv, SentBy
<1>4. j \in 1 .. fresh[q] /\ Answers(q, j) # 0 /\ (Answers(q, j) = 1 => m.msg.pn = 0)
  BY <1>3 DEF Made
<1>5. j \in Nat \ {0} /\ j <= Answers(p, f) + 1
  BY <1>2, <1>4
<1>6. IsMsg(m.msg, p, j)
  BY <1>1, <1>3, MadeMsg DEF IsMsg
<1>7. j = Answers(p, f) => f # 1 /\ j \in {fresh[q], fresh[q] - 1}
  BY <1>1, <1>2, <1>4 DEF Answers, Peer, Clients
<1>8. j = Answers(p, f) + 1 => j = fresh[q] /\ (f = 1 => m.msg.pn = 0)
  <2> SUFFICES ASSUME j = Answers(p, f) + 1
               PROVE  j = fresh[q] /\ (f = 1 => m.msg.pn = 0)
    OBVIOUS
  <2>1. j = fresh[q]
    BY <1>2, <1>4
  <2>2. Answers(q, j) = f
    BY <1>1, <1>2, Turns
  <2> QED
    BY <1>4, <2>1, <2>2
<1>9. j < Answers(p, f) \/ j = Answers(p, f) \/ j = Answers(p, f) + 1
  BY <1>2, <1>5
<1>10. Placed(p, m, j)
  BY <1>3, <1>4, <1>5, <1>6, <1>7, <1>8, <1>9 DEF Placed
<1> QED
  BY <1>5, <1>10

\* The only states a message is opened from, and what becomes of them.
Opened(p, m, u) == \/ ByKept(session[p], m.msg, p, fresh[p], u)
                   \/ BySame(session[p], m.msg, p, fresh[p], u)
                   \/ ByTurn(session[p], m.msg, p, fresh[p], u)
Outcome(p, m, r) ==
    /\ r.ok \in BOOLEAN
    /\ r.ok => Opened(p, m, r.st)
    /\ Held(session[p], m.msg) => r.ok
    /\ ~Held(session[p], m.msg) /\ InReach(p, m) /\ ~Behind(p, m) => r.ok
    /\ ~Held(session[p], m.msg) /\ Behind(p, m) => ~r.ok

LEMMA Outcomes ==
  ASSUME TurnsInv, SentInv, NEW p \in Clients, NEW m \in SentBy(Peer(p))
  PROVE  Outcome(p, m, Opening(p, m))
<1>0. PICK f, q, st : f = fresh[p] /\ q = Peer(p) /\ st = session[p]
  OBVIOUS
<1>1. f \in Nat \ {0} /\ Sound(st, p, f) /\ Answers(p, f) \in Nat
  BY <1>0, Abreast
<1>2. PICK j \in Nat \ {0} : Placed(p, m, j)
  BY Places
<1>3. IsMsg(m.msg, p, j) /\ m.msg.dh = <<q, j>> /\ m.msg.dh[2] = j /\ m.msg.n \in Nat /\ m.msg.pn \in Nat
  BY <1>0, <1>2 DEF Placed, IsMsg
<1>4. PICK r : r = ratchet_decrypt(st, m.msg, <<p, f + 1>>)
  OBVIOUS
<1>5. r = Opening(p, m)
  BY <1>0, <1>4 DEF Opening, Key
<1>6. st.nr \in Nat /\ (Answers(p, f) = 0 => st.dhr = NoKey) /\ (Answers(p, f) # 0 => st.dhr = <<q, Answers(p, f)>>)
  <2>1. st.nr \in Nat /\ st = State(p, f, st.ns, st.nr, st.pn, st.skipped)
    BY <1>1 DEF Sound
  <2> QED
    BY <1>0, <2>1, Fields
<1>7. CASE Held(st, m.msg)
  <2>1. r.ok = TRUE /\ ByKept(st, m.msg, p, f, r.st)
    BY <1>1, <1>2, <1>3, <1>4, <1>7, Kept
  <2> QED
    BY <1>0, <1>5, <1>7, <2>1 DEF Outcome, Opened
<1>8. CASE ~Held(st, m.msg) /\ j < Answers(p, f)
  <2>1. r.ok = FALSE
    <3>1. j \in Nat /\ j # 0
      OBVIOUS
    <3>2. Refused(r)
      BY <1>1, <1>3, <1>4, <1>8, <3>1, Older
    <3> QED
      BY <3>2 DEF Refused
  <2>2. Behind(p, m)
    BY <1>0, <1>3, <1>8 DEF Behind
  <2> QED
    BY <1>0, <1>5, <1>8, <2>1, <2>2 DEF Outcome, Opened
<1>9. CASE ~Held(st, m.msg) /\ j = Answers(p, f)
  <2>1. f # 1
    BY <1>0, <1>2, <1>9, <1>1 DEF Placed
  <2>2. IfSame(r, st, m.msg, p, f)
    BY <1>1, <1>3, <1>4, <1>9, <2>1, Same
  <2>3. Behind(p, m) <=> m.msg.n < st.nr
    BY <1>0, <1>3, <1>6, <1>9 DEF Behind
  <2>4. InReach(p, m) <=> m.msg.n <= st.nr + MaxSkip
    BY <1>0, <1>2, <1>3, <1>6, <1>9 DEF InReach
  <2> QED
    <3>1. CASE st.nr <= m.msg.n /\ m.msg.n <= st.nr + MaxSkip
      <4>1. r.ok = TRUE /\ BySame(st, m.msg, p, f, r.st) /\ ~Behind(p, m)
        BY <1>3, <1>6, <2>2, <2>3, <3>1 DEF IfSame
      <4> QED
        BY <1>0, <1>5, <1>9, <4>1 DEF Outcome, Opened
    <3>2. CASE ~(st.nr <= m.msg.n /\ m.msg.n <= st.nr + MaxSkip)
      <4>1. r.ok = FALSE /\ ~(InReach(p, m) /\ ~Behind(p, m))
        BY <1>3, <1>6, <2>2, <2>3, <2>4, <3>2 DEF IfSame
      <4> QED
        BY <1>0, <1>5, <1>9, <4>1 DEF Outcome, Opened
    <3> QED
      BY <3>1, <3>2
<1>10. CASE ~Held(st, m.msg) /\ j = Answers(p, f) + 1
  <2>1. f = 1 => m.msg.pn = 0
    BY <1>0, <1>1, <1>2, <1>10 DEF Placed
  <2>2. IF m.msg.pn <= st.nr + MaxSkip /\ m.msg.n <= MaxSkip
        THEN r.ok = TRUE /\ ByTurn(st, m.msg, p, f, r.st) ELSE r.ok = FALSE
    BY <1>1, <1>3, <1>4, <1>10, <2>1, Newer
  <2>3. ~Behind(p, m)
    BY <1>0, <1>1, <1>3, <1>10 DEF Behind
  <2>4. st.dhr # m.msg.dh
    BY <1>0, <1>1, <1>3, <1>6, <1>10 DEF NoKey, Peer, Clients
  <2>5. InReach(p, m) <=> m.msg.pn <= st.nr + MaxSkip /\ m.msg.n <= MaxSkip
    BY <1>0, <2>4 DEF InReach
  <2> QED
    BY <1>0, <1>5, <1>10, <2>2, <2>3, <2>5 DEF Outcome, Opened
<1> QED
  BY <1>0, <1>1, <1>2, <1>7, <1>8, <1>9, <1>10 DEF Placed

\* ratchet_init_alice and ratchet_init_bob give states of that form, with one root between them.
LEMMA InitStates ==
  ASSUME Init
  PROVE  /\ session["alice"] = State("alice", 1, 0, 0, 0, NoSkipped)
         /\ session["bob"] = State("bob", 1, 0, 0, 0, NoSkipped)
<1>1. Root(1) = <<{Secret}>>
  BY DEF Root, Entry
<1>2. Append(Root(1), dh(<<"alice", 1>>, <<"bob", 1>>)) = Root(2)
  <2>1. Append(Root(1), Entry(1 + 1)) = Root(1 + 1)
    BY RootGrows
  <2>2. Entry(2) = dh(<<"alice", 1>>, <<"bob", 1>>)
    BY Halves DEF Entry
  <2> QED
    BY <2>1, <2>2
<1>3. ratchet_init_alice(Secret, <<"alice", 1>>, <<"bob", 1>>) = State("alice", 1, 0, 0, 0, NoSkipped)
  <2>1. PICK u : u = kdf_rk(<<{Secret}>>, dh(<<"alice", 1>>, <<"bob", 1>>))
    OBVIOUS
  <2>2. PICK R, c : R = Root(2) /\ c = Chain(2, 0)
    OBVIOUS
  <2>3. u = [rk |-> R, ck |-> c]
    BY <1>1, <1>2, <2>1, <2>2 DEF kdf_rk, Chain
  <2>4. u.rk = R /\ u.ck = c
    BY ONLY <2>3
  <2>5. /\ Turn("alice", 1) = 2 /\ Answers("alice", 1) = 1 /\ Peer("alice") = "bob"
    BY DEF Turn, Answers, Peer
  <2> QED
    BY <2>1, <2>2, <2>4, <2>5 DEF ratchet_init_alice, State
<1>4. ratchet_init_bob(Secret, <<"bob", 1>>) = State("bob", 1, 0, 0, 0, NoSkipped)
  <2>1. Turn("bob", 1) = 1 /\ Answers("bob", 1) = 0
    BY DEF Turn, Answers
  <2> QED
    BY <1>1, <2>1 DEF ratchet_init_bob, State
<1> QED
  BY <1>3, <1>4 DEF Init, Clients

\* The handshake establishes the invariant.
LEMMA InitHolds == Init => IInv
<1> SUFFICES ASSUME Init PROVE IInv
  OBVIOUS
<1>1. fresh = [p \in Clients |-> 1] /\ sent = {} /\ opened = [p \in Clients |-> {}] /\ leaked = {}
  BY DEF Init
<1>2. \A p \in Clients : session[p] = State(p, 1, 0, 0, 0, NoSkipped)
  BY InitStates DEF Clients
<1>3. ASSUME NEW p \in Clients PROVE Sound(session[p], p, 1) /\ session[p].nr = 0 /\ session[p].ns = 0
  <2>1. PICK st : st = session[p]
    OBVIOUS
  <2>2. st = State(p, 1, 0, 0, 0, NoSkipped)
    BY <1>2, <2>1
  <2>3. st.ns = 0 /\ st.nr = 0 /\ st.pn = 0 /\ st.skipped = NoSkipped
    BY <2>2, Fields
  <2>4. Passed(p, 1, 0, NoSkipped)
    BY DEF Passed, NoSkipped
  <2>5. Sound(st, p, 1)
    BY <2>2, <2>3, <2>4 DEF Sound
  <2> QED
    BY <2>1, <2>3, <2>5
<1>4. TurnsInv
  <2>1. session = [p \in Clients |-> session[p]]
    BY DEF Init
  <2> QED
    BY <1>1, <1>3, <2>1 DEF TurnsInv, Clients
<1>5. SentInv
  BY <1>1 DEF SentInv
<1>6. ReadInv
  <2>1. \A p \in Clients : session[p].nr = 0 /\ session[Peer(p)].ns = 0
    BY <1>3 DEF Peer, Clients
  <2> QED
    BY <2>1 DEF ReadInv
<1>7. OpenInv
  BY <1>1 DEF OpenInv, SentBy
<1>8. LeakInv
  BY <1>1 DEF LeakInv
<1> QED
  BY <1>4, <1>5, <1>6, <1>7, <1>8 DEF IInv

\* A key that is kept is of a message behind.
LEMMA KeptBehind ==
  ASSUME TurnsInv, NEW p \in Clients, NEW m, NEW j \in Nat, m.msg.dh = <<Peer(p), j>>, Held(session[p], m.msg)
  PROVE  Behind(p, m)
<1>1. Sound(session[p], p, fresh[p]) /\ Answers(p, fresh[p]) \in Nat
  BY Abreast
<1>2. PICK i \in 1 .. Answers(p, fresh[p]), n \in Nat :
            /\ <<m.msg.dh, m.msg.n>> = <<<<Peer(p), i>>, n>>
            /\ i = Answers(p, fresh[p]) => n < session[p].nr
  BY <1>1 DEF Sound, Passed, Held
<1>3. m.msg.dh[2] = i /\ m.msg.n = n
  BY <1>2
<1> QED
  BY <1>1, <1>2, <1>3 DEF Behind

\* What a delivery that opens changes.
Moved(p, m, u) ==
    \/ fresh'[p] = fresh[p] /\ ByKept(session[p], m.msg, p, fresh[p], u)
    \/ fresh'[p] = fresh[p] /\ BySame(session[p], m.msg, p, fresh[p], u)
    \/ fresh'[p] = fresh[p] + 1 /\ ByTurn(session[p], m.msg, p, fresh[p], u)
After(p, m, u) ==
    /\ m \in SentBy(Peer(p)) /\ Moved(p, m, u)
    /\ session'[p] = u /\ session'[Peer(p)] = session[Peer(p)]
    /\ fresh'[Peer(p)] = fresh[Peer(p)]
    /\ opened'[p] = opened[p] \cup {m} /\ opened'[Peer(p)] = opened[Peer(p)]
    /\ session' = [r \in Clients |-> session'[r]] /\ DOMAIN fresh' = Clients
    /\ fresh' = [r \in Clients |-> fresh'[r]]
    /\ opened' = [r \in Clients |-> opened'[r]]
    /\ sent' = sent /\ leaked' = leaked

\* A delivery that opens is one of the three cases.
LEMMA DecryptMoves ==
  ASSUME IInv, NEW p \in Clients, NEW m \in sent, Decrypt(p, m)
  PROVE  \E u : After(p, m, u)
<1>1. PICK u, f : u = Opening(p, m).st /\ f = fresh[p]
  OBVIOUS
<1>2. Peer(p) \in Clients /\ Peer(p) # p
  BY DEF Peer, Clients
<1>3. m \in SentBy(Peer(p)) /\ sent' = sent /\ leaked' = leaked
  BY DEF Decrypt, SentBy
<1>4. TurnsInv /\ SentInv /\ OpenInv
  BY DEF IInv
<1>5. f \in Nat \ {0}
  BY <1>1, <1>4, Abreast
<1>6. session = [r \in Clients |-> session[r]] /\ fresh = [r \in Clients |-> fresh[r]]
      /\ opened = [r \in Clients |-> opened[r]]
  BY <1>4 DEF TurnsInv, OpenInv
<1>7. session'[p] = u /\ session'[Peer(p)] = session[Peer(p)] /\ session' = [r \in Clients |-> session'[r]]
  <2>1. session' = [session EXCEPT ![p] = u]
    BY <1>1 DEF Decrypt
  <2> QED
    BY ONLY <1>2, <1>6, <2>1, p \in Clients
<1>8. opened'[p] = opened[p] \cup {m} /\ opened'[Peer(p)] = opened[Peer(p)] /\ opened' = [r \in Clients |-> opened'[r]]
  <2>1. opened' = [opened EXCEPT ![p] = opened[p] \cup {m}]
    BY DEF Decrypt
  <2> QED
    BY ONLY <1>2, <1>6, <2>1, p \in Clients
<1>9. /\ fresh'[p] = (IF u.dhs = <<p, f + 1>> THEN f + 1 ELSE f) /\ fresh'[Peer(p)] = fresh[Peer(p)]
      /\ fresh' = [r \in Clients |-> fresh'[r]] /\ DOMAIN fresh' = Clients
  <2>1. PICK g : g = IF u.dhs = <<p, f + 1>> THEN f + 1 ELSE f
    OBVIOUS
  <2>2. fresh' = [fresh EXCEPT ![p] = g]
    BY <1>1, <1>7, <2>1 DEF Decrypt, Key
  <2> QED
    BY ONLY <1>2, <1>6, <2>1, <2>2, p \in Clients
<1>10. Opened(p, m, u)
  <2>1. Opening(p, m).ok
    BY DEF Decrypt
  <2> QED
    BY <1>1, <1>3, <1>4, <2>1, Outcomes DEF Outcome
<1>11. ASSUME NEW g \in Nat, Sound(u, p, g) PROVE u.dhs = <<p, g>>
  BY <1>11, Fields DEF Sound
<1>12. Moved(p, m, u)
  <2>1. CASE ByKept(session[p], m.msg, p, f, u) \/ BySame(session[p], m.msg, p, f, u)
    <3>1. u.dhs = <<p, f>>
      BY <1>5, <1>11, <2>1 DEF ByKept, BySame
    <3>2. u.dhs # <<p, f + 1>>
      BY <1>5, <3>1
    <3> QED
      BY <1>1, <1>9, <2>1, <3>2 DEF Moved
  <2>2. CASE ByTurn(session[p], m.msg, p, f, u)
    <3>1. u.dhs = <<p, f + 1>>
      BY <1>5, <1>11, <2>2 DEF ByTurn
    <3> QED
      BY <1>1, <1>9, <2>2, <3>1 DEF Moved
  <2> QED
    BY <1>1, <1>10, <2>1, <2>2 DEF Opened
<1>13. After(p, m, u)
  BY <1>3, <1>7, <1>8, <1>9, <1>12 DEF After
<1> QED
  BY <1>13

\* Neither client gets ahead by more than a turn: only the peer's newest key turns the ratchet.
LEMMA DecryptTurns ==
  ASSUME IInv, NEW p \in Clients, NEW m \in sent, NEW u, After(p, m, u)
  PROVE  TurnsInv'
<1>1. TurnsInv /\ SentInv /\ m \in SentBy(Peer(p))
  BY DEF IInv, After
<1>2. PICK f, g : f = fresh[p] /\ g = fresh[Peer(p)]
  OBVIOUS
<1>3. /\ f \in Nat \ {0} /\ g \in Nat \ {0} /\ g \in {Answers(p, f), Answers(p, f) + 1} /\ Answers(p, f) \in Nat
      /\ Sound(session[Peer(p)], Peer(p), g)
  BY <1>1, <1>2, Abreast
<1>4. PICK j \in Nat \ {0} : Placed(p, m, j)
  BY <1>1, Places
<1>5. /\ Sound(u, p, fresh'[p]) /\ fresh'[p] \in Nat \ {0}
      /\ g \in {Answers(p, fresh'[p]), Answers(p, fresh'[p]) + 1}
  <2>1. CASE fresh'[p] = f
    BY <1>2, <1>3, <2>1 DEF After, Moved, ByKept, BySame
  <2>2. CASE fresh'[p] # f
    <3>1. fresh'[p] = f + 1 /\ ByTurn(session[p], m.msg, p, f, u)
      BY <1>2, <2>2 DEF After, Moved
    <3>2. m.msg.dh = <<Peer(p), Answers(p, f) + 1>> /\ m.msg.dh = <<Peer(p), j>>
      BY <1>4, <3>1 DEF ByTurn, Placed, IsMsg
    <3>3. j = Answers(p, f) + 1
      BY <3>2
    <3>4. j = g
      BY <1>2, <1>3, <1>4, <3>3 DEF Placed
    <3>5. Answers(p, f + 1) = Answers(p, f) + 1
      BY <1>3, Turns
    <3> QED
      BY <1>3, <3>1, <3>3, <3>4, <3>5 DEF ByTurn
  <2> QED
    BY <2>1, <2>2
<1>6. \A r \in Clients : r = p \/ r = Peer(p)
  BY DEF Peer, Clients
<1>7. fresh' \in [Clients -> Nat \ {0}]
  <2>1. fresh' = [r \in Clients |-> fresh'[r]] /\ \A r \in Clients : fresh'[r] \in Nat \ {0}
    BY <1>2, <1>3, <1>5, <1>6 DEF After
  <2> QED
    BY <2>1
<1>8. fresh'["bob"] \in {fresh'["alice"], fresh'["alice"] + 1}
  <2>1. fresh'[p] \in Nat \ {0} /\ fresh'[Peer(p)] \in {Answers(p, fresh'[p]), Answers(p, fresh'[p]) + 1}
    BY <1>2, <1>5 DEF After
  <2>2. fresh'["alice"] \in Nat /\ fresh'["bob"] \in Nat
    BY <1>7 DEF Clients
  <2>3. CASE p = "alice"
    BY <2>1, <2>3 DEF Peer, Answers
  <2>4. CASE p = "bob"
    BY <2>1, <2>2, <2>4 DEF Peer, Answers
  <2> QED
    BY <2>3, <2>4 DEF Clients
<1>9. \A r \in Clients : Sound(session'[r], r, fresh'[r])
  BY <1>2, <1>3, <1>5, <1>6 DEF After
<1> QED
  BY <1>7, <1>8, <1>9 DEF TurnsInv, After

\* A turn closes the sending chain at the number the next messages name as pn.
LEMMA DecryptSent ==
  ASSUME IInv, NEW p \in Clients, NEW m \in sent, NEW u, After(p, m, u)
  PROVE  SentInv'
<1>1. TurnsInv /\ SentInv /\ sent' = sent
  BY DEF IInv, After
<1>2. fresh[p] \in Nat \ {0} /\ fresh[Peer(p)] \in Nat \ {0}
  BY <1>1, Abreast
<1>3. /\ session'[p] = u /\ session'[Peer(p)] = session[Peer(p)] /\ fresh'[Peer(p)] = fresh[Peer(p)]
      /\ \/ fresh'[p] = fresh[p] /\ u.ns = session[p].ns /\ u.pn = session[p].pn
         \/ fresh'[p] = fresh[p] + 1 /\ u.pn = session[p].ns
  BY DEF After, Moved, ByKept, BySame, ByTurn
<1>4. ASSUME NEW k \in sent, NEW r \in Clients, NEW j \in Nat, Made(k, r, j) PROVE Made(k, r, j)'
  <2>1. CASE r = Peer(p)
    BY <1>3, <1>4, <2>1 DEF Made
  <2>2. CASE r = p
    <3>1. /\ j \in 1 .. fresh'[p]
          /\ j = fresh'[p] => k.msg.n < u.ns /\ k.msg.pn = u.pn
          /\ j = fresh'[p] - 1 => k.msg.n < u.pn
      BY <1>2, <1>3, <1>4, <2>2 DEF Made
    <3> QED
      BY <1>3, <1>4, <2>2, <3>1 DEF Made
  <2> QED
    BY <2>1, <2>2 DEF Peer, Clients
<1>5. \A k \in sent : k.from \in Clients /\ \E j \in Nat : Made(k, k.from, j)
  BY <1>1 DEF SentInv
<1>6. \A k \in sent : \E j \in Nat : Made(k, k.from, j)'
  BY <1>4, <1>5
<1>7. \A k, l \in sent : k.from = l.from /\ k.msg.dh = l.msg.dh /\ k.msg.n = l.msg.n => k = l
  BY <1>1 DEF SentInv
<1> QED
  BY <1>1, <1>5, <1>6, <1>7 DEF SentInv

\* What p has read was sent.
LEMMA DecryptRead ==
  ASSUME IInv, NEW p \in Clients, NEW m \in sent, NEW u, After(p, m, u)
  PROVE  ReadInv'
<1>1. TurnsInv /\ SentInv /\ ReadInv /\ m \in SentBy(Peer(p))
  BY DEF IInv, After
<1>2. PICK f, q, g : f = fresh[p] /\ q = Peer(p) /\ g = fresh[q]
  OBVIOUS
<1>3. f \in Nat \ {0} /\ g \in Nat \ {0} /\ g \in {Answers(p, f), Answers(p, f) + 1} /\ Answers(p, f) \in Nat
  BY <1>1, <1>2, Abreast
<1>4. q \in Clients /\ Peer(q) = p /\ q # p /\ Answers(p, f + 1) = Answers(p, f) + 1
      /\ Answers(q, Answers(p, f) + 1) = f
  BY <1>2, <1>3, Turns
<1>5. PICK j \in Nat \ {0} : Placed(p, m, j)
  BY <1>1, Places
<1>6. /\ m.msg.dh = <<q, j>> /\ m.msg.n \in Nat
      /\ j = g => m.msg.n < session[q].ns
  BY <1>2, <1>5 DEF Placed, Made, IsMsg
<1>7. session'[p] = u /\ session'[q] = session[q] /\ fresh'[q] = g
  BY <1>2 DEF After
<1>8. g = Answers(p, fresh'[p]) => u.nr <= session[q].ns
  <2>1. CASE ByKept(session[p], m.msg, p, f, u) /\ fresh'[p] = f
    BY <1>1, <1>2, <2>1 DEF ByKept, ReadInv
  <2>2. CASE BySame(session[p], m.msg, p, f, u) /\ fresh'[p] = f
    <3>1. j = Answers(p, f)
      BY <1>2, <1>6, <2>2 DEF BySame
    <3>2. u.nr = m.msg.n + 1 /\ session[q].ns \in Nat
      BY <1>1, <1>2, <2>2, Abreast DEF BySame, Sound
    <3> QED
      BY <1>6, <2>2, <3>1, <3>2
  <2>3. CASE ByTurn(session[p], m.msg, p, f, u) /\ fresh'[p] = f + 1
    <3>1. j = Answers(p, f + 1)
      BY <1>2, <1>4, <1>6, <2>3 DEF ByTurn
    <3>2. u.nr = m.msg.n + 1 /\ session[q].ns \in Nat
      BY <1>1, <1>2, <2>3, Abreast DEF ByTurn, Sound
    <3> QED
      BY <1>6, <2>3, <3>1, <3>2
  <2> QED
    BY <1>2, <2>1, <2>2, <2>3 DEF After, Moved
<1>9. fresh'[p] = Answers(q, g) => session[q].nr <= u.ns
  <2>1. CASE fresh'[p] = f
    <3>1. u.ns = session[p].ns
      BY <1>2, <1>3, <2>1 DEF After, Moved, ByKept, BySame
    <3> QED
      BY <1>1, <1>2, <1>4, <2>1, <3>1 DEF ReadInv
  <2>2. CASE fresh'[p] # f
    <3>1. ByTurn(session[p], m.msg, p, f, u) /\ fresh'[p] = f + 1
      BY <1>2, <2>2 DEF After, Moved
    <3>2. j = Answers(p, f) + 1
      BY <1>2, <1>6, <3>1 DEF ByTurn
    <3>3. g = j
      BY <1>2, <1>3, <1>5, <3>2 DEF Placed
    <3> QED
      BY <1>3, <1>4, <3>1, <3>2, <3>3
  <2> QED
    BY <2>1, <2>2
<1>10. \A r \in Clients : r = p \/ r = q
  BY <1>2 DEF Peer, Clients
<1> QED
  BY <1>2, <1>4, <1>7, <1>8, <1>9, <1>10 DEF ReadInv

\* A client keeps one key of a message, and two of its messages have different ones.
LEMMA DecryptOpen ==
  ASSUME IInv, NEW p \in Clients, NEW m \in sent, NEW u, After(p, m, u)
  PROVE  OpenInv'
<1>1. TurnsInv /\ SentInv /\ OpenInv /\ m \in SentBy(Peer(p)) /\ sent' = sent
  BY DEF IInv, After
<1>2. PICK f, q, st, a : f = fresh[p] /\ q = Peer(p) /\ st = session[p] /\ a = Answers(p, f)
  OBVIOUS
<1>3. f \in Nat \ {0} /\ a \in Nat /\ Answers(p, f + 1) = a + 1 /\ st.nr \in Nat
  BY <1>1, <1>2, Abreast, Turns DEF Sound
<1>4. q \in Clients /\ Peer(q) = p /\ q # p /\ \A r \in Clients : r = p \/ r = q
  BY <1>2 DEF Peer, Clients
<1>5. /\ session'[p] = u /\ session'[q] = session[q] /\ fresh'[q] = fresh[q]
      /\ opened'[p] = opened[p] \cup {m} /\ opened'[q] = opened[q]
  BY <1>2 DEF After
<1>6. PICK j \in Nat \ {0} : Placed(p, m, j)
  BY <1>1, Places
<1>7. m.msg.dh = <<q, j>> /\ m.msg.dh[2] = j /\ m.msg.n \in Nat
  BY <1>2, <1>6 DEF Placed, IsMsg
<1>8. SentBy(q)' = SentBy(q) /\ SentBy(p)' = SentBy(p)
  BY <1>1 DEF SentBy
\* What the invariant said of a message of the peer, and what it is to say.
<1> DEFINE Old(k) == k.msg.dh[2] < a \/ (k.msg.dh[2] = a /\ k.msg.n < st.nr)
           New(k) == k.msg.dh[2] < Answers(p, fresh'[p])
                        \/ (k.msg.dh[2] = Answers(p, fresh'[p]) /\ k.msg.n < u.nr)
           KeyOf(k) == <<k.msg.dh, k.msg.n>>
<1>9. /\ opened[p] \subseteq SentBy(q)
      /\ \A k \in opened[p] : Old(k) /\ KeyOf(k) \notin DOMAIN st.skipped
      /\ \A k \in SentBy(q) \ opened[p] : Old(k) => KeyOf(k) \in DOMAIN st.skipped
  BY <1>1, <1>2 DEF OpenInv, Behind, KeptFor
<1>10. ASSUME NEW k \in SentBy(q)
       PROVE  \E i \in Nat : /\ k.msg.dh = <<q, i>> /\ k.msg.dh[2] = i /\ k.msg.n \in Nat
                             /\ Made(k, q, i)
                             /\ k # m => ~(i = j /\ k.msg.n = m.msg.n)
  <2>1. PICK i \in Nat \ {0} : Placed(p, k, i)
    BY <1>1, <1>2, Places
  <2>2. k.msg.dh = <<q, i>> /\ k.msg.dh[2] = i /\ k.msg.n \in Nat /\ Made(k, q, i)
    BY <1>2, <2>1 DEF Placed, IsMsg
  <2>3. k \in sent /\ m \in sent /\ k.from = m.from
    BY <1>1, <1>2 DEF SentBy
  <2>4. i = j /\ k.msg.n = m.msg.n => k = m
    BY <1>1, <1>7, <2>2, <2>3 DEF SentInv
  <2> QED
    BY <2>2, <2>4
<1>11. /\ opened'[p] \subseteq SentBy(q)
       /\ \A k \in opened'[p] : New(k) /\ KeyOf(k) \notin DOMAIN u.skipped
       /\ \A k \in SentBy(q) \ opened'[p] : New(k) => KeyOf(k) \in DOMAIN u.skipped
  <2>1. CASE fresh'[p] = f /\ ByKept(st, m.msg, p, f, u)
    <3>1. u.nr = st.nr /\ DOMAIN u.skipped = DOMAIN st.skipped \ {KeyOf(m)} /\ Held(st, m.msg)
      BY <2>1 DEF ByKept
    <3>2. Old(m)
      <4>1. Behind(p, m)
        BY <1>1, <1>2, <1>7, <3>1, KeptBehind
      <4> QED
        BY <1>2, <4>1 DEF Behind
    <3>3. \A k : New(k) <=> Old(k)
      BY <1>2, <2>1, <3>1
    <3>4. ASSUME NEW k \in SentBy(q), k # m PROVE KeyOf(k) # KeyOf(m)
      BY <1>7, <1>10, <3>4
    <3>5. m \in SentBy(q)
      BY <1>1, <1>2
    <3> HIDE DEF Old, New, KeyOf
    <3> QED
      BY <1>5, <1>9, <3>1, <3>2, <3>3, <3>4, <3>5
  <2>2. CASE fresh'[p] = f /\ BySame(st, m.msg, p, f, u)
    <3>1. /\ u.nr = m.msg.n + 1 /\ st.nr <= m.msg.n /\ KeyOf(m) \notin DOMAIN st.skipped
          /\ DOMAIN u.skipped = DOMAIN st.skipped \cup {<<m.msg.dh, i>> : i \in st.nr .. m.msg.n - 1}
          /\ m.msg.dh = <<Peer(p), Answers(p, f)>>
      BY <2>2 DEF BySame, Held
    <3>2. j = a
      BY <1>2, <1>7, <3>1
    <3>3. New(m) /\ KeyOf(m) \notin DOMAIN u.skipped
      BY <1>2, <1>3, <1>7, <2>2, <3>1, <3>2
    <3>4. ASSUME NEW k \in SentBy(q), k # m
          PROVE  /\ Old(k) => New(k)
                 /\ Old(k) => ~\E i \in st.nr .. m.msg.n - 1 : KeyOf(k) = <<m.msg.dh, i>>
                 /\ New(k) => Old(k) \/ KeyOf(k) \in DOMAIN u.skipped
      <4>1. PICK i \in Nat : /\ k.msg.dh = <<q, i>> /\ k.msg.dh[2] = i /\ k.msg.n \in Nat
                             /\ ~(i = j /\ k.msg.n = m.msg.n)
        BY <1>10, <3>4
      <4>2. Old(k) => New(k)
        BY <1>2, <1>3, <1>7, <2>2, <3>1, <4>1
      <4>3. Old(k) => ~\E x \in st.nr .. m.msg.n - 1 : KeyOf(k) = <<m.msg.dh, x>>
        BY <1>3, <1>7, <3>2, <4>1
      <4>4. ASSUME New(k), ~Old(k) PROVE KeyOf(k) \in DOMAIN u.skipped
        <5>1. i = a /\ st.nr <= k.msg.n /\ k.msg.n < m.msg.n + 1
          BY <1>2, <1>3, <1>7, <2>2, <3>1, <4>1, <4>4
        <5>2. k.msg.n \in st.nr .. m.msg.n - 1
          BY <1>3, <1>7, <3>2, <4>1, <5>1
        <5>3. KeyOf(k) = <<m.msg.dh, k.msg.n>>
          BY <1>7, <3>2, <4>1, <5>1
        <5> QED
          BY <3>1, <5>2, <5>3
      <4> QED
        BY <4>2, <4>3, <4>4
    <3>5. m \in SentBy(q)
      BY <1>1, <1>2
    <3> HIDE DEF Old, New, KeyOf
    <3>6. \A k \in opened'[p] : New(k) /\ KeyOf(k) \notin DOMAIN u.skipped
      BY <1>5, <1>9, <3>1, <3>3, <3>4, <3>5
    <3>7. \A k \in SentBy(q) \ opened'[p] : New(k) => KeyOf(k) \in DOMAIN u.skipped
      BY <1>5, <1>9, <3>1, <3>4
    <3> QED
      BY <1>5, <1>9, <3>5, <3>6, <3>7
  <2>3. CASE fresh'[p] = f + 1 /\ ByTurn(st, m.msg, p, f, u)
    <3> DEFINE Rest == {<<<<q, a>>, i>> : i \in st.nr .. m.msg.pn - 1}
               Ahead == {<<m.msg.dh, i>> : i \in 0 .. m.msg.n - 1}
    <3>1. /\ u.nr = m.msg.n + 1 /\ KeyOf(m) \notin DOMAIN st.skipped
          /\ DOMAIN u.skipped = (DOMAIN st.skipped \cup Rest) \cup Ahead
          /\ m.msg.dh = <<Peer(p), Answers(p, f) + 1>>
      BY <1>2, <2>3 DEF ByTurn, Held
    <3>2. j = a + 1 /\ j = fresh[q] /\ Answers(p, fresh'[p]) = a + 1
      <4>1. j = a + 1
        BY <1>2, <1>7, <3>1
      <4> QED
        BY <1>2, <1>3, <1>6, <2>3, <4>1 DEF Placed
    <3>3. New(m) /\ KeyOf(m) \notin DOMAIN u.skipped
      BY <1>2, <1>3, <1>7, <3>1, <3>2
    <3>4. m.msg.pn = session[q].pn /\ m.msg.pn \in Nat
      BY <1>2, <1>6, <3>2 DEF Placed, Made
    <3>5. ASSUME NEW k \in SentBy(q), k # m
          PROVE  /\ Old(k) => New(k)
                 /\ Old(k) => KeyOf(k) \notin Rest /\ KeyOf(k) \notin Ahead
                 /\ New(k) => Old(k) \/ KeyOf(k) \in Rest \/ KeyOf(k) \in Ahead
      <4>1. PICK i \in Nat : /\ k.msg.dh = <<q, i>> /\ k.msg.dh[2] = i /\ k.msg.n \in Nat
                             /\ Made(k, q, i) /\ ~(i = j /\ k.msg.n = m.msg.n)
        BY <1>10, <3>5
      <4>2. Old(k) => New(k)
        BY <1>3, <3>2, <4>1
      <4>3. Old(k) => KeyOf(k) \notin Rest
        BY <1>3, <4>1
      <4>4. Old(k) => KeyOf(k) \notin Ahead
        BY <1>3, <1>7, <3>2, <4>1
      <4>5. ASSUME New(k), ~Old(k) PROVE KeyOf(k) \in Rest \/ KeyOf(k) \in Ahead
        <5>1. CASE i = a
          <6>1. i = fresh[q] - 1
            BY <1>3, <3>2, <5>1
          <6>2. k.msg.n < m.msg.pn
            BY <3>4, <4>1, <6>1 DEF Made
          <6>3. k.msg.n \in st.nr .. m.msg.pn - 1
            BY <1>3, <3>4, <4>1, <4>5, <5>1, <6>2
          <6> QED
            BY <4>1, <5>1, <6>3
        <5>2. CASE i # a
          <6>1. i = a + 1 /\ k.msg.n < m.msg.n + 1
            BY <1>3, <3>1, <3>2, <4>1, <4>5, <5>2
          <6>2. k.msg.n \in 0 .. m.msg.n - 1
            BY <1>7, <3>2, <4>1, <6>1
          <6>3. KeyOf(k) = <<m.msg.dh, k.msg.n>>
            BY <1>7, <3>2, <4>1, <6>1
          <6> QED
            BY <6>2, <6>3
        <5> QED
          BY <5>1, <5>2
      <4> QED
        BY <4>2, <4>3, <4>4, <4>5
    <3>6. m \in SentBy(q)
      BY <1>1, <1>2
    <3> HIDE DEF Old, New, KeyOf, Rest, Ahead
    <3>7. \A k \in opened'[p] : New(k) /\ KeyOf(k) \notin DOMAIN u.skipped
      BY <1>5, <1>9, <3>1, <3>3, <3>5, <3>6
    <3>8. \A k \in SentBy(q) \ opened'[p] : New(k) => KeyOf(k) \in DOMAIN u.skipped
      BY <1>5, <1>9, <3>1, <3>5
    <3> QED
      BY <1>5, <1>9, <3>6, <3>7, <3>8
  <2> QED
    BY <1>2, <2>1, <2>2, <2>3 DEF After, Moved
<1>12. /\ (opened[p] \subseteq SentBy(Peer(p)))'
       /\ \A k \in opened'[p] : Behind(p, k)' /\ ~KeptFor(p, k)'
       /\ \A k \in SentBy(q)' \ opened'[p] : Behind(p, k)' => KeptFor(p, k)'
  BY <1>2, <1>5, <1>8, <1>11 DEF Behind, KeptFor
<1>13. /\ (opened[q] \subseteq SentBy(p))'
       /\ \A k \in opened'[q] : Behind(q, k)' /\ ~KeptFor(q, k)'
       /\ \A k \in SentBy(p)' \ opened'[q] : Behind(q, k)' => KeptFor(q, k)'
  BY <1>1, <1>4, <1>5, <1>8 DEF OpenInv, Behind, KeptFor
<1>14. opened' = [r \in Clients |-> opened'[r]]
  BY DEF After
<1> QED
  BY <1>2, <1>4, <1>12, <1>13, <1>14 DEF OpenInv

\* Copies stay copies of earlier states.
LEMMA DecryptLeak ==
  ASSUME IInv, NEW p \in Clients, NEW m \in sent, NEW u, After(p, m, u)
  PROVE  LeakInv'
<1>1. leaked' = leaked /\ TurnsInv /\ LeakInv
  BY DEF After, IInv
<1>2. \A r \in Clients : fresh[r] \in Nat /\ fresh'[r] \in Nat /\ fresh[r] <= fresh'[r]
  <2>1. fresh[p] \in Nat /\ fresh[Peer(p)] \in Nat
    BY <1>1, Abreast
  <2> QED
    BY <2>1 DEF After, Moved, Peer, Clients
<1> QED
  BY <1>1, <1>2 DEF LeakInv

\* A message is numbered next on the present chain, and is ahead of its reader.
LEMMA EncryptStep ==
  ASSUME IInv, NEW p \in Clients, Encrypt(p)
  PROVE  IInv'
<1>1. TurnsInv /\ SentInv /\ ReadInv /\ OpenInv /\ LeakInv
  BY DEF IInv
<1>2. PICK f, q, st : f = fresh[p] /\ q = Peer(p) /\ st = session[p]
  OBVIOUS
<1>3. f \in Nat \ {0} /\ Sound(st, p, f) /\ fresh[q] \in Nat \ {0} /\ Sound(session[q], q, fresh[q])
      /\ Answers(p, f) \in Nat
  BY <1>1, <1>2, Abreast
<1>4. q \in Clients /\ Peer(q) = p /\ q # p /\ \A r \in Clients : r = p \/ r = q
  BY <1>2 DEF Peer, Clients
<1>5. st.ns \in Nat /\ st.nr \in Nat /\ st.pn \in Nat /\ st = State(p, f, st.ns, st.nr, st.pn, st.skipped)
  BY <1>3 DEF Sound
<1>6. Answers(p, f) # 0
  <2>1. st.cks # NoChain
    BY <1>2 DEF Encrypt, CanEncrypt
  <2> QED
    BY <1>5, <2>1 DEF State
<1>7. PICK u : u = State(p, f, st.ns + 1, st.nr, st.pn, st.skipped)
  OBVIOUS
<1>8. ratchet_encrypt(st) = u
      /\ Sealed(st) = [dh |-> <<p, f>>, pn |-> st.pn, n |-> st.ns, mk |-> Chain(Turn(p, f), st.ns)]
  <2>1. PICK ns, nr, pn, sk : ns = st.ns /\ nr = st.nr /\ pn = st.pn /\ sk = st.skipped
    OBVIOUS
  <2>2. st = State(p, f, ns, nr, pn, sk) /\ ns \in Nat
    BY <1>5, <2>1
  <2>3. ratchet_encrypt(State(p, f, ns, nr, pn, sk)) = State(p, f, ns + 1, nr, pn, sk)
    BY <1>3, <1>6, <2>2, EncryptState
  <2>4. Sealed(State(p, f, ns, nr, pn, sk)) = [dh |-> <<p, f>>, pn |-> pn, n |-> ns, mk |-> Chain(Turn(p, f), ns)]
    BY <1>3, <1>6, <2>2, EncryptState
  <2> QED
    BY <1>7, <2>1, <2>2, <2>3, <2>4
<1>9. u.ns = st.ns + 1 /\ u.nr = st.nr /\ u.pn = st.pn /\ u.skipped = st.skipped
  BY <1>7, Fields
<1>10. Sound(u, p, f)
  BY <1>3, <1>6, <1>7, <1>9 DEF Sound
<1>11. /\ session'[p] = u /\ session'[q] = session[q] /\ session' = [r \in Clients |-> session'[r]]
  <2>1. session' = [session EXCEPT ![p] = u]
    BY <1>2, <1>8 DEF Encrypt
  <2>2. session = [r \in Clients |-> session[r]]
    BY <1>1 DEF TurnsInv
  <2> QED
    BY ONLY <1>4, <2>1, <2>2, p \in Clients
<1>12. PICK m : m = [from |-> p, seq |-> Cardinality(SentBy(p)), peer |-> session[p].dhr, msg |-> Sealed(session[p])]
  OBVIOUS
<1>13. m.from = p /\ m.peer = st.dhr /\ m.msg = Sealed(st)
  BY <1>2, <1>12
<1>14. sent' = sent \cup {m} /\ fresh' = fresh /\ opened' = opened /\ leaked' = leaked
  BY <1>12 DEF Encrypt
<1>15. st.dhr = <<q, Answers(p, f)>>
  BY <1>2, <1>5, <1>6, Fields
<1>16. PICK x, c : x = <<p, f>> /\ c = Chain(Turn(p, f), st.ns)
  OBVIOUS
<1>17. m.msg = [dh |-> x, pn |-> st.pn, n |-> st.ns, mk |-> c]
  BY <1>8, <1>13, <1>16
<1>18. m.msg.dh = <<p, f>> /\ m.msg.n = st.ns /\ m.msg.pn = st.pn /\ m.msg.mk = Chain(Turn(p, f), st.ns)
  BY <1>16, <1>17
<1>19. TurnsInv'
  <2>1. \A r \in Clients : Sound(session'[r], r, fresh'[r])
    BY <1>2, <1>3, <1>4, <1>10, <1>11, <1>14
  <2> QED
    BY <1>1, <1>11, <1>14, <2>1 DEF TurnsInv
<1>20. SentInv'
  <2>1. Made(m, p, f)'
    <3>1. Answers(p, f) = 1 => st.pn = 0
      BY <1>3 DEF Sound
    <3>2. m.msg = [dh |-> <<p, f>>, pn |-> m.msg.pn, n |-> m.msg.n, mk |-> Chain(Turn(p, f), m.msg.n)]
      BY <1>16, <1>17, <1>18
    <3>3. f \in 1 .. f /\ f # f - 1 /\ st.ns < st.ns + 1
      BY <1>3, <1>5
    <3> QED
      BY <1>2, <1>5, <1>6, <1>9, <1>11, <1>13, <1>14, <1>15, <1>18, <3>1, <3>2, <3>3 DEF Made
  <2>2. ASSUME NEW k \in sent, NEW r \in Clients, NEW j \in Nat, Made(k, r, j) PROVE Made(k, r, j)'
    <3>1. CASE r = q
      BY <1>11, <1>14, <2>2, <3>1 DEF Made
    <3>2. CASE r = p
      <4>1. k.msg.n \in Nat /\ (j = fresh[p] => k.msg.n < u.ns /\ k.msg.pn = u.pn)
            /\ (j = fresh[p] - 1 => k.msg.n < u.pn)
        BY <1>2, <1>5, <1>9, <2>2, <3>2 DEF Made
      <4> QED
        BY <1>11, <1>14, <2>2, <3>2, <4>1 DEF Made
    <3> QED
      BY <1>4, <3>1, <3>2
  <2>3. \A k \in sent : k.from \in Clients /\ \E j \in Nat : Made(k, k.from, j)
    BY <1>1 DEF SentInv
  <2>4. \A k \in sent' : k.from \in Clients /\ \E j \in Nat : Made(k, k.from, j)'
    <3>1. \A k \in sent : \E j \in Nat : Made(k, k.from, j)'
      BY <2>2, <2>3
    <3>2. m.from \in Clients /\ \E j \in Nat : Made(m, m.from, j)'
      BY <1>3, <1>13, <2>1
    <3> QED
      BY <1>14, <2>3, <3>1, <3>2
  <2>5. ASSUME NEW k \in sent, k.from = p, k.msg.dh = m.msg.dh PROVE k.msg.n # m.msg.n
    <3>1. PICK j \in Nat : Made(k, p, j)
      BY <2>3, <2>5
    <3>2. k.msg.dh = <<p, j>>
      BY <3>1, MadeMsg
    <3>3. j = f
      BY <1>18, <2>5, <3>2
    <3>4. k.msg.n < st.ns /\ k.msg.n \in Nat
      BY <1>2, <3>1, <3>3 DEF Made
    <3> QED
      BY <1>5, <1>18, <3>4
  <2>6. \A k, l \in sent : k.from = l.from /\ k.msg.dh = l.msg.dh /\ k.msg.n = l.msg.n => k = l
    BY <1>1 DEF SentInv
  <2>7. \A k, l \in sent' : k.from = l.from /\ k.msg.dh = l.msg.dh /\ k.msg.n = l.msg.n => k = l
    BY <1>13, <1>14, <2>5, <2>6
  <2> QED
    BY <2>4, <2>7 DEF SentInv
<1>21. ReadInv'
  <2>1. fresh[q] = Answers(p, fresh[p]) => u.nr <= session[q].ns
    BY <1>1, <1>2, <1>9 DEF ReadInv
  <2>2. fresh[p] = Answers(q, fresh[q]) => session[q].nr <= u.ns
    <3>1. fresh[p] = Answers(q, fresh[q]) => session[q].nr <= st.ns
      BY <1>1, <1>2, <1>4 DEF ReadInv
    <3>2. session[q].nr \in Nat
      BY <1>3 DEF Sound
    <3> QED
      BY <1>5, <1>9, <3>1, <3>2
  <2> QED
    BY <1>2, <1>4, <1>11, <1>14, <2>1, <2>2 DEF ReadInv
<1>22. OpenInv'
  <2>1. SentBy(q)' = SentBy(q) /\ SentBy(p)' = SentBy(p) \cup {m}
    BY <1>4, <1>13, <1>14 DEF SentBy
  <2>2. ASSUME NEW k PROVE (Behind(p, k)' <=> Behind(p, k)) /\ (KeptFor(p, k)' <=> KeptFor(p, k))
    BY <1>2, <1>9, <1>11, <1>14 DEF Behind, KeptFor
  <2>3. ASSUME NEW k PROVE (Behind(q, k)' <=> Behind(q, k)) /\ (KeptFor(q, k)' <=> KeptFor(q, k))
    BY <1>11, <1>14 DEF Behind, KeptFor
  <2>4. ~Behind(q, m)
    <3>1. m.msg.dh[2] = f
      BY <1>18
    <3>2. f \in {Answers(q, fresh[q]), Answers(q, fresh[q]) + 1} /\ Answers(q, fresh[q]) \in Nat
      BY <1>1, <1>2, <1>4, Abreast
    <3>3. f = Answers(q, fresh[q]) => session[q].nr <= st.ns
      BY <1>1, <1>2, <1>4 DEF ReadInv
    <3>4. session[q].nr \in Nat
      BY <1>3 DEF Sound
    <3> QED
      BY <1>5, <1>18, <3>1, <3>2, <3>3, <3>4 DEF Behind
  <2>5. /\ opened[p] \subseteq SentBy(q) /\ \A k \in opened[p] : Behind(p, k) /\ ~KeptFor(p, k)
        /\ \A k \in SentBy(q) \ opened[p] : Behind(p, k) => KeptFor(p, k)
    BY <1>1, <1>2 DEF OpenInv
  <2>6. /\ opened[q] \subseteq SentBy(p) /\ \A k \in opened[q] : Behind(q, k) /\ ~KeptFor(q, k)
        /\ \A k \in SentBy(p) \ opened[q] : Behind(q, k) => KeptFor(q, k)
    BY <1>1, <1>4 DEF OpenInv
  <2>7. /\ opened'[p] \subseteq SentBy(q)' /\ \A k \in opened'[p] : Behind(p, k)' /\ ~KeptFor(p, k)'
        /\ \A k \in SentBy(q)' \ opened'[p] : Behind(p, k)' => KeptFor(p, k)'
    BY <1>14, <2>1, <2>2, <2>5
  <2>8. /\ opened'[q] \subseteq SentBy(p)' /\ \A k \in opened'[q] : Behind(q, k)' /\ ~KeptFor(q, k)'
        /\ \A k \in SentBy(p)' \ opened'[q] : Behind(q, k)' => KeptFor(q, k)'
    BY <1>14, <2>1, <2>3, <2>4, <2>6
  <2>9. opened' = [r \in Clients |-> opened'[r]]
    BY <1>1, <1>14 DEF OpenInv
  <2> QED
    BY <1>2, <1>4, <2>7, <2>8, <2>9 DEF OpenInv
<1>23. LeakInv'
  BY <1>1, <1>14 DEF LeakInv
<1> QED
  BY <1>19, <1>20, <1>21, <1>22, <1>23 DEF IInv

\* A copy is of the present state.
LEMMA LeakStep ==
  ASSUME IInv, NEW p \in Clients, Leak(p)
  PROVE  IInv'
<1>1. UNCHANGED <<session, fresh, sent, opened>> /\ leaked' = leaked \cup {[of |-> p, st |-> session[p]]}
  BY DEF Leak
<1>2. TurnsInv' /\ SentInv' /\ ReadInv' /\ OpenInv'
  BY <1>1 DEF IInv, TurnsInv, SentInv, Made, ReadInv, OpenInv, SentBy, Behind, KeptFor
<1>3. LeakInv'
  <2>1. Sound(session[p], p, fresh[p]) /\ fresh[p] \in 1 .. fresh[p]
    BY Abreast DEF IInv
  <2>2. PICK l : l = [of |-> p, st |-> session[p]]
    OBVIOUS
  <2>3. l.of = p /\ l.st = session[p]
    BY <2>2
  <2> QED
    BY <1>1, <2>1, <2>2, <2>3 DEF LeakInv, IInv
<1> QED
  BY <1>2, <1>3 DEF IInv

\* The invariant holds in every state: of any number of messages, lost, repeated or reordered
\* by the network in any way, and for any MAX_SKIP.
THEOREM Inductive == Spec => []IInv
<1>1. Init => IInv
  BY InitHolds
<1>2. IInv /\ [Next]_vars => IInv'
  <2> SUFFICES ASSUME IInv, [Next]_vars PROVE IInv'
    OBVIOUS
  <2>1. ASSUME NEW p \in Clients, Encrypt(p) PROVE IInv'
    BY <2>1, EncryptStep
  <2>2. ASSUME NEW p \in Clients, Leak(p) PROVE IInv'
    BY <2>2, LeakStep
  <2>3. ASSUME NEW p \in Clients, NEW m \in sent, Decrypt(p, m) PROVE IInv'
    <3>1. PICK u : After(p, m, u)
      BY <2>3, DecryptMoves
    <3>2. TurnsInv' /\ SentInv'
      BY <3>1, DecryptTurns, DecryptSent
    <3>3. ReadInv' /\ OpenInv' /\ LeakInv'
      BY <3>1, DecryptRead, DecryptOpen, DecryptLeak
    <3> QED
      BY <3>2, <3>3 DEF IInv
  <2>4. CASE UNCHANGED vars
    BY <2>4 DEF vars, IInv, TurnsInv, SentInv, Made, ReadInv, OpenInv, SentBy, Behind, KeptFor, LeakInv
  <2> QED
    BY <2>1, <2>2, <2>3, <2>4 DEF Next
<1> QED
  BY <1>1, <1>2, PTL DEF Spec

(***************************************************************************)
(* What follows from it.                                                   *)
(***************************************************************************)
\* ratchet_decrypt opens every message in reach, whatever was lost, repeated or overtaken
\* before it, and opens none twice.
THEOREM OpensOnceEach == Spec => []OpensExactlyOnce
<1>1. IInv => OpensExactlyOnce
  <2> SUFFICES ASSUME IInv PROVE OpensExactlyOnce
    OBVIOUS
  <2>1. TurnsInv /\ SentInv /\ OpenInv
    BY DEF IInv
  <2>2. ASSUME NEW p \in Clients, NEW m \in SentBy(Peer(p)) PROVE Outcome(p, m, Opening(p, m))
    BY <2>1, Outcomes
  <2>3. ASSUME NEW p \in Clients, NEW m \in SentBy(Peer(p)) \ opened[p]
        PROVE  Opening(p, m).ok \/ (<<m.msg.dh, m.msg.n>> \notin DOMAIN session[p].skipped /\ ~InReach(p, m))
    <3>1. Behind(p, m) => Held(session[p], m.msg)
      BY <2>1 DEF OpenInv, KeptFor, Held
    <3> QED
      BY <2>2, <3>1 DEF Outcome, Held
  <2>4. ASSUME NEW p \in Clients, NEW m \in opened[p] PROVE ~Opening(p, m).ok
    <3>1. m \in SentBy(Peer(p)) /\ Behind(p, m) /\ ~Held(session[p], m.msg)
      BY <2>1 DEF OpenInv, KeptFor, Held
    <3> QED
      BY <2>2, <3>1 DEF Outcome
  <2> QED
    BY <2>3, <2>4 DEF OpensExactlyOnce, OpensInAnyOrder, OpensOnce
<1> QED
  BY <1>1, Inductive, PTL

\* What a state of p with f keys leads to: keys it passed over, the rest of its two chains,
\* and whatever follows its root with its own key alone.
Within(p, f, st, k, n) ==
    \/ \E i \in 1 .. Answers(p, f) : k = Turn(Peer(p), i) /\ <<<<Peer(p), i>>, n>> \in DOMAIN st.skipped
    \/ k = Turn(p, f) /\ st.ns <= n
    \/ f # 1 /\ k = Turn(p, f) - 1 /\ st.nr <= n
    \/ k = Turn(p, f) + 1

LEMMA Reaches ==
  ASSUME NEW p \in Clients, NEW f \in Nat \ {0}, NEW st, Sound(st, p, f), NEW k \in Nat \ {0}, NEW n \in Nat,
         Computable(st, Chain(k, n))
  PROVE  Within(p, f, st, k, n)
<1> USE DEF Within
<1>0. PICK mk : mk = Chain(k, n)
  OBVIOUS
<1>1. PICK t, a : t = Turn(p, f) /\ a = Answers(p, f)
  OBVIOUS
<1>2. t \in Nat \ {0} /\ a \in Nat /\ (f # 1 => a # 0 /\ t - 1 \in Nat)
  BY <1>1, Turns
<1>3. mk.root = Root(k) /\ mk.at = n /\ Len(Root(k)) = k /\ Root(k) # <<>>
  <2>1. mk.root = Root(k) /\ mk.at = n
    BY <1>0 DEF Chain
  <2>2. Len(Root(k)) = k /\ Root(k) # <<>>
    BY RootGrows
  <2> QED
    BY <2>1, <2>2
<1>4. st = State(p, f, st.ns, st.nr, st.pn, st.skipped) /\ Passed(p, f, st.nr, st.skipped)
  BY DEF Sound
<1>5. /\ st.rk = Root(t) /\ st.dhs = <<p, f>>
      /\ st.cks = IF a = 0 THEN NoChain ELSE Chain(t, st.ns)
      /\ st.ckr = IF f = 1 THEN NoChain ELSE Chain(t - 1, st.nr)
  BY <1>1, <1>4 DEF State
<1>6. ASSUME NEW l \in Nat, NEW x, FromChain(Chain(l, x), mk) PROVE k = l /\ x <= n
  <2>1. Chain(l, x).root = Root(l) /\ Chain(l, x).at = x
    BY DEF Chain
  <2>2. Root(l) = Root(k) /\ x <= n
    BY <1>3, <1>6, <2>1 DEF FromChain
  <2> QED
    BY <2>2, RootGrows
<1>7. ~FromChain(NoChain, mk)
  BY <1>3 DEF FromChain, NoChain
<1>8. CASE \E h \in DOMAIN st.skipped : st.skipped[h] = mk
  <2>1. PICK h \in DOMAIN st.skipped : st.skipped[h] = mk
    BY <1>8
  <2>2. PICK i \in 1 .. a, x \in Nat : h = <<<<Peer(p), i>>, x>> /\ st.skipped[h] = Chain(Turn(Peer(p), i), x)
    BY <1>1, <1>4 DEF Passed
  <2>3. PICK l \in Nat : l = Turn(Peer(p), i)
    BY <1>2 DEF Turn, Peer
  <2>4. Chain(l, x) = Chain(k, n)
    BY <1>0, <2>1, <2>2, <2>3
  <2>5. l = k /\ x = n
    <3>1. Root(l) = Root(k) /\ x = n
      BY <2>4 DEF Chain
    <3> QED
      BY <3>1, RootGrows
  <2> QED
    BY <1>1, <2>2, <2>3, <2>5
<1>9. CASE FromChain(st.cks, mk)
  BY <1>1, <1>2, <1>5, <1>6, <1>7, <1>9
<1>10. CASE FromChain(st.ckr, mk)
  BY <1>1, <1>2, <1>5, <1>6, <1>7, <1>10
<1>11. CASE FromRoot(st, mk)
  <2>1. Len(Root(t)) = t
    BY <1>2, RootGrows
  <2>2. t < k /\ \A i \in t + 1 .. k : <<p, f>> \in Root(k)[i]
    BY <1>3, <1>5, <1>11, <2>1 DEF FromRoot
  <2>3. ASSUME t + 2 <= k PROVE FALSE
    <3>1. t + 2 \in t + 1 .. k /\ t + 2 \in 1 .. k
      BY <1>2, <2>3
    <3>2. Root(k)[t + 2] = Entry(t + 2)
      BY <3>1 DEF Root
    <3>3. Entry(t + 2) = dh(<<p, f + 1>>, <<Peer(p), a + 1>>)
      BY <1>1, Entries
    <3>4. <<p, f>> \in {<<p, f + 1>>, <<Peer(p), a + 1>>}
      BY <2>2, <3>1, <3>2, <3>3 DEF dh
    <3>5. Peer(p) # p
      BY Turns
    <3> QED
      BY <3>4, <3>5
  <2> QED
    BY <1>1, <1>2, <2>2, <2>3
<1> QED
  BY <1>0, <1>8, <1>9, <1>10, <1>11 DEF Computable

\* A state that leaks opens neither what was opened before, nor what is sent after its owner
\* has made a new ratchet key.
THEOREM LeaksStay == Spec => []LeaksContained
<1>1. IInv => LeaksContained
  <2> SUFFICES ASSUME IInv PROVE LeaksContained
    OBVIOUS
  <2>1. TurnsInv /\ SentInv /\ OpenInv /\ LeakInv
    BY DEF IInv
  <2>2. ASSUME NEW p \in Clients, NEW m \in SentBy(p) PROVE ~Computable(session[p], m.msg.mk)
    <3> SUFFICES ASSUME Computable(session[p], m.msg.mk) PROVE FALSE
      OBVIOUS
    <3>1. PICK f : f = fresh[p]
      OBVIOUS
    <3>2. f \in Nat \ {0} /\ Sound(session[p], p, f) /\ Answers(p, f) \in Nat
      BY <2>1, <3>1, Abreast
    <3>3. PICK j \in Nat : Made(m, p, j)
      BY <2>1 DEF SentInv, SentBy
    <3>4. j \in 1 .. f /\ j \in Nat \ {0} /\ (j = f => m.msg.n < session[p].ns) /\ m.msg.n \in Nat
      BY <3>1, <3>3 DEF Made
    <3>5. m.msg.mk = Chain(Turn(p, j), m.msg.n)
      BY <3>3, MadeMsg
    <3>6. Turn(p, j) \in Nat \ {0} /\ Turn(p, f) \in Nat
      BY <3>2, <3>4, Turns
    <3>7. Within(p, f, session[p], Turn(p, j), m.msg.n)
      BY <3>2, <3>4, <3>5, <3>6, Reaches
    <3>8. \A i \in Nat : Turn(p, j) # Turn(Peer(p), i)
      BY TurnsApart
    <3>9. Turn(p, f) - 1 = Turn(Peer(p), Answers(p, f)) /\ Turn(p, f) + 1 = Turn(Peer(p), Answers(p, f) + 1)
      BY <3>2, Turns
    <3>10. Turn(p, j) = Turn(p, f) => j = f
      BY <3>2, TurnsApart
    <3>11. session[p].ns \in Nat
      BY <3>2 DEF Sound
    <3> QED
      <4>1. CASE \E i \in 1 .. Answers(p, f) : Turn(p, j) = Turn(Peer(p), i)
        BY <3>2, <3>8, <4>1
      <4>2. CASE Turn(p, j) = Turn(p, f) /\ session[p].ns <= m.msg.n
        BY <3>4, <3>10, <3>11, <4>2
      <4>3. CASE Turn(p, j) \in {Turn(p, f) - 1, Turn(p, f) + 1}
        <5>1. Answers(p, f) + 1 \in Nat
          BY <3>2
        <5> QED
          BY <3>2, <3>8, <3>9, <4>3, <5>1
      <4> QED
        BY <3>7, <4>1, <4>2, <4>3 DEF Within
  <2>3. ASSUME NEW p \in Clients, NEW m \in opened[p] PROVE ~Computable(session[p], m.msg.mk)
    <3> SUFFICES ASSUME Computable(session[p], m.msg.mk) PROVE FALSE
      OBVIOUS
    <3>1. PICK f, q : f = fresh[p] /\ q = Peer(p)
      OBVIOUS
    <3>2. f \in Nat \ {0} /\ Sound(session[p], p, f) /\ Answers(p, f) \in Nat /\ session[p].nr \in Nat
      BY <2>1, <3>1, Abreast DEF Sound
    <3>3. m \in SentBy(q) /\ Behind(p, m) /\ ~KeptFor(p, m)
      BY <2>1, <3>1 DEF OpenInv
    <3>4. q \in Clients /\ Peer(q) = p
      BY <3>1 DEF Peer, Clients
    <3>5. PICK j \in Nat : Made(m, q, j)
      BY <2>1, <3>3 DEF SentInv, SentBy
    <3>6. j \in Nat \ {0} /\ m.msg.n \in Nat
      BY <3>5 DEF Made
    <3>7. m.msg.mk = Chain(Turn(q, j), m.msg.n) /\ m.msg.dh = <<q, j>> /\ m.msg.dh[2] = j
      BY <3>4, <3>5, MadeMsg
    <3>8. j < Answers(p, f) \/ (j = Answers(p, f) /\ m.msg.n < session[p].nr)
      BY <3>1, <3>3, <3>7 DEF Behind
    <3>9. Turn(q, j) \in Nat \ {0}
      BY <3>4, <3>6, Turns
    <3>10. Within(p, f, session[p], Turn(q, j), m.msg.n)
      BY <3>1, <3>2, <3>6, <3>7, <3>9, Reaches
    <3>11. \A i \in Nat : Turn(q, j) = Turn(q, i) => j = i
      BY <3>4, TurnsApart
    <3>12. Turn(q, j) # Turn(p, f)
      BY <3>2, <3>4, TurnsApart
    <3>13. Turn(p, f) - 1 = Turn(q, Answers(p, f)) /\ Turn(p, f) + 1 = Turn(q, Answers(p, f) + 1)
      BY <3>1, <3>2, Turns
    <3>14. <<<<q, j>>, m.msg.n>> \notin DOMAIN session[p].skipped
      BY <3>3, <3>7 DEF KeptFor
    <3> QED
      <4>1. CASE \E i \in 1 .. Answers(p, f) : Turn(q, j) = Turn(q, i) /\ <<<<q, i>>, m.msg.n>> \in DOMAIN session[p].skipped
        BY <3>2, <3>11, <3>14, <4>1
      <4>2. CASE Turn(q, j) = Turn(q, Answers(p, f)) /\ session[p].nr <= m.msg.n
        <5>1. j = Answers(p, f)
          BY <3>2, <3>11, <4>2
        <5> QED
          BY <3>2, <3>6, <3>8, <4>2, <5>1
      <4>3. CASE Turn(q, j) = Turn(q, Answers(p, f) + 1)
        <5>1. j = Answers(p, f) + 1
          BY <3>2, <3>11, <4>3
        <5> QED
          BY <3>2, <3>6, <3>8, <5>1
      <4> QED
        BY <3>1, <3>10, <3>12, <3>13, <4>1, <4>2, <4>3 DEF Within
  <2>4. ASSUME NEW l \in leaked, NEW m \in sent,
               (IF m.from = l.of THEN m.msg.dh ELSE m.peer)[2] > l.st.dhs[2]
        PROVE  ~Computable(l.st, m.msg.mk)
    <3> SUFFICES ASSUME Computable(l.st, m.msg.mk) PROVE FALSE
      OBVIOUS
    <3>1. PICK p, q, st : p = l.of /\ q = Peer(p) /\ st = l.st
      OBVIOUS
    <3>2. p \in Clients /\ q \in Clients /\ Peer(q) = p /\ q # p
      BY <2>1, <3>1 DEF LeakInv, Peer, Clients
    <3>3. PICK g \in 1 .. fresh[p] : Sound(st, p, g)
      BY <2>1, <3>1 DEF LeakInv
    <3>4. g \in Nat \ {0} /\ fresh[p] \in Nat
      BY <2>1, <3>2, <3>3, Abreast
    <3>5. st.dhs = <<p, g>> /\ st.dhs[2] = g
      BY <3>3, Fields DEF Sound
    <3>6. PICK r \in Clients, j \in Nat : r = m.from /\ Made(m, r, j)
      BY <2>1 DEF SentInv
    <3>7. j \in Nat \ {0} /\ m.msg.n \in Nat /\ m.peer = <<Peer(r), Answers(r, j)>> /\ m.peer[2] = Answers(r, j)
      BY <3>6 DEF Made
    <3>8. m.msg.mk = Chain(Turn(r, j), m.msg.n) /\ m.msg.dh = <<r, j>> /\ m.msg.dh[2] = j
      <4>1. m.msg.mk = Chain(Turn(r, j), m.msg.n) /\ m.msg.dh = <<r, j>>
        BY <3>6, MadeMsg
      <4> QED
        BY <4>1
    <3>9. Turn(r, j) \in Nat \ {0} /\ Turn(p, g) \in Nat /\ Answers(p, g) \in Nat
          /\ Turn(q, Answers(p, g)) = Turn(p, g) - 1
      BY <3>1, <3>2, <3>4, <3>6, <3>7, Turns
    <3>10. Within(p, g, st, Turn(r, j), m.msg.n)
      BY <3>1, <3>2, <3>3, <3>4, <3>7, <3>8, <3>9, Reaches
    <3>11. Turn(r, j) >= Turn(p, g) + 2
      <4>1. CASE r = p
        <5>1. g < j
          BY <2>4, <3>1, <3>4, <3>5, <3>6, <3>7, <3>8, <4>1
        <5> QED
          BY <3>2, <3>4, <3>9, <4>1, <5>1, TurnsApart
      <4>2. CASE r = q
        <5>1. g < Answers(q, j) /\ Answers(q, j) \in Nat
          BY <2>4, <3>1, <3>2, <3>4, <3>5, <3>6, <3>7, <4>2, Turns
        <5>2. Turn(p, Answers(q, j)) = Turn(q, j) - 1
          BY <3>2, <3>7, Turns
        <5>3. Turn(p, g) + 2 <= Turn(p, Answers(q, j))
          BY <3>2, <3>4, <5>1, TurnsApart
        <5> QED
          BY <3>9, <4>2, <5>2, <5>3
      <4> QED
        BY <3>1, <3>2, <3>6, <4>1, <4>2 DEF Peer, Clients
    <3>12. ASSUME NEW i \in 1 .. Answers(p, g) PROVE Turn(q, i) <= Turn(p, g) - 1
      <4>1. i = Answers(p, g) \/ i < Answers(p, g)
        BY <3>9
      <4> QED
        BY <3>2, <3>9, <4>1 DEF Turn, Clients
    <3> QED
      <4>1. PICK a \in Nat, b \in Nat : a = Turn(r, j) /\ b = Turn(p, g)
        BY <3>9
      <4>2. a = b \/ a = b - 1 \/ a = b + 1 \/ \E i \in 1 .. Answers(p, g) : a = Turn(q, i)
        BY <3>1, <3>10, <4>1 DEF Within
      <4>3. ASSUME NEW i \in 1 .. Answers(p, g), a = Turn(q, i) PROVE a <= b - 1
        BY <3>12, <4>1, <4>3
      <4> QED
        BY <3>11, <4>1, <4>2, <4>3
  <2>5. ForwardSecrecy
    BY <2>2, <2>3 DEF ForwardSecrecy
  <2>6. BreachHeals
    BY <2>4 DEF BreachHeals
  <2> QED
    BY <2>5, <2>6 DEF LeaksContained
<1> QED
  BY <1>1, Inductive, PTL
============================================================================
