------------------------------ MODULE Ratchet ------------------------------
(***************************************************************************)
(* The Double Ratchet of packages/crypto-wasm/src/ratchet.rs, as operators *)
(* from one session state to the next: the Rust functions take serialised  *)
(* bytes and return new ones, and keep no state of their own.              *)
(*                                                                         *)
(* The cryptography is symbolic.  A key pair is a name.  A Diffie-Hellman  *)
(* output is the set of the two names.  A root key is the sequence of      *)
(* secrets mixed into it, a chain key is the root key it came from with    *)
(* the number of times it was advanced, and a message key is the chain key *)
(* it was derived from.  A ciphertext opens under the key it was made with *)
(* and the header it was made with, and under nothing else.                *)
(***************************************************************************)
EXTENDS Integers, Sequences, FiniteSets

CONSTANT MaxSkip   \* MAX_SKIP

ASSUME SkipAssumption == MaxSkip \in Nat

NoKey == <<"nobody", 0>>
NoChain == [root |-> <<>>, at |-> 0]

dh(a, b) == {a, b}

\* Mutant: only the first exchange is mixed in, again and again.
kdf_rk_Once(rk, out) ==
    LET new == Append(rk, IF Len(rk) = 1 THEN out ELSE rk[2])
    IN  [rk |-> new, ck |-> [root |-> new, at |-> 0]]

kdf_rk(rk, out) == LET new == Append(rk, out)
                   IN  [rk |-> new, ck |-> [root |-> new, at |-> 0]]

\* kdf_ck applied "times" times; the message key of each step is the chain key
\* it was taken from.
AdvanceChain(ck, times) == [ck EXCEPT !.at = @ + times]

NoSkipped == [k \in {} |-> NoChain]

ratchet_init_alice(secret, mine, bobs) ==
    LET root == kdf_rk(<<{secret}>>, dh(mine, bobs)) IN
    [rk |-> root.rk, dhs |-> mine, dhr |-> bobs, cks |-> root.ck, ckr |-> NoChain,
     ns |-> 0, nr |-> 0, pn |-> 0, skipped |-> NoSkipped]

ratchet_init_bob(secret, mine) ==
    [rk |-> <<{secret}>>, dhs |-> mine, dhr |-> NoKey, cks |-> NoChain, ckr |-> NoChain,
     ns |-> 0, nr |-> 0, pn |-> 0, skipped |-> NoSkipped]

\* Without a sending chain the call is an error.
CanEncrypt(st) == st.cks # NoChain

\* The message: its header, and the key that opens it.
Sealed(st) == [dh |-> st.dhs, pn |-> st.pn, n |-> st.ns, mk |-> st.cks]

ratchet_encrypt(st) == [st EXCEPT !.cks = AdvanceChain(@, 1), !.ns = @ + 1]

\* Results of the fallible steps.  A failed step returns no new state.
Failed(st) == [ok |-> FALSE, st |-> st]
Done(st)   == [ok |-> TRUE, st |-> st]

\* BTreeMap insertion: the new entries win.
Insert(new, old) == [k \in DOMAIN new \cup DOMAIN old |->
                        IF k \in DOMAIN new THEN new[k] ELSE old[k]]

Remove(old, k) == [j \in DOMAIN old \ {k} |-> old[j]]

\* Mutant: the keys passed over are not kept.
skip_recv_Forget(st, until) ==
    IF until > st.nr + MaxSkip \/ (st.ckr = NoChain /\ until > st.nr) THEN Failed(st)
    ELSE IF until <= st.nr THEN Done(st)
    ELSE Done([st EXCEPT !.ckr = AdvanceChain(@, until - st.nr), !.nr = until])

\* Keep the keys of the messages of the receiving chain before "until".
skip_recv(st, until) ==
    IF st.ckr = NoChain
    THEN IF until > st.nr THEN Failed(st) ELSE Done(st)
    ELSE IF until > st.nr + MaxSkip THEN Failed(st)
    ELSE IF until <= st.nr THEN Done(st)
    ELSE Done([st EXCEPT
            !.skipped = Insert([k \in {st.dhr} \X (st.nr .. until - 1) |->
                                    AdvanceChain(st.ckr, k[2] - st.nr)], @),
            !.ckr = AdvanceChain(@, until - st.nr),
            !.nr = until])

\* Mix in the peer's new key, then a fresh key of our own.
dh_ratchet(st, theirs, fresh) ==
    LET recv == kdf_rk(st.rk, dh(st.dhs, theirs))
        send == kdf_rk(recv.rk, dh(fresh, theirs))
    IN  [st EXCEPT !.pn = st.ns, !.ns = 0, !.nr = 0, !.dhr = theirs,
                   !.ckr = recv.ck, !.dhs = fresh, !.rk = send.rk, !.cks = send.ck]

\* The message is under the next key of the receiving chain, or fails to open.
OpenNext(st, msg) ==
    IF st.ckr # NoChain /\ st.ckr = msg.mk
    THEN Done([st EXCEPT !.ckr = AdvanceChain(@, 1), !.nr = @ + 1])
    ELSE Failed(st)

SkipAndOpen(st, msg) ==
    LET caught == skip_recv(st, msg.n)
    IN  IF caught.ok THEN OpenNext(caught.st, msg) ELSE caught

ratchet_decrypt(st, msg, fresh) ==
    LET held == <<msg.dh, msg.n>>
        flushed == skip_recv(st, msg.pn)
        result ==
            IF held \in DOMAIN st.skipped
            THEN IF st.skipped[held] = msg.mk
                 THEN Done([st EXCEPT !.skipped = Remove(@, held)])
                 ELSE Failed(st)
            ELSE IF st.dhr = msg.dh THEN SkipAndOpen(st, msg)
            ELSE IF flushed.ok THEN SkipAndOpen(dh_ratchet(flushed.st, msg.dh, fresh), msg)
            ELSE flushed
    IN  IF result.ok THEN result ELSE Failed(st)
============================================================================
