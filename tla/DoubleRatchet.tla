---------------------------- MODULE DoubleRatchet ----------------------------
(***************************************************************************)
(* Two participants who exchange ratchet messages over a network that may  *)
(* lose, duplicate, delay and reorder them (a relay that drops what an     *)
(* offline peer misses, retries after reconnecting, a queue of pending     *)
(* ciphertexts in the receiver).  Each encryption and each decryption is   *)
(* one step, as the ratchet lock of useLiveRatchetChat.ts makes it; module *)
(* ChatSession looks at what happens outside that lock.                    *)
(***************************************************************************)
EXTENDS Ratchet, FiniteSets

CONSTANT MaxMsgs    \* bound: messages one participant sends

ASSUME MaxMsgsAssumption == MaxMsgs \in Nat

VARIABLES
    session,    \* session[p]: the RatchetSession p has stored
    keyGen,     \* keyGen[p]: number of the last key pair p generated
    count,      \* count[p]: how many messages p has sent
    sent,       \* every message ever sent; any of them may (again) arrive
    received    \* received[p][i]: how often p opened the peer's i-th message

vars == <<session, keyGen, count, sent, received>>

MsgId == 1 .. MaxMsgs

Message ==
    [from : Party, id : MsgId, dh : Key, pn : Nat, n : Nat, key : MessageKey]

Init ==
    /\ session = [p \in Party |-> CreateBidirectionalSession(p)]
    /\ keyGen = [p \in Party |-> 0]
    /\ count = [p \in Party |-> 0]
    /\ sent = {}
    /\ received = [p \in Party |-> [i \in MsgId |-> 0]]

NewKeyPair(p) == KeyPair(p, keyGen[p] + 1)

\* The pair a step of p generated is the one p now sends under, if any: a pair
\* generated by a decryption that throws is dropped with its session.
UseKeyPair(p, s) == keyGen' = [keyGen EXCEPT ![p] = s.dhSend.gen]

\* ratchetEncrypt: seal the next message and store the session.
Encrypt(p) ==
    LET s == SendingSession(session[p], NewKeyPair(p))
        m == Sealed(s)
    IN  /\ count[p] < MaxMsgs
        /\ count' = [count EXCEPT ![p] = @ + 1]
        /\ session' = [session EXCEPT ![p] = AfterEncrypt(s)]
        /\ UseKeyPair(p, s)
        /\ sent' = sent \cup {[from |-> p, id |-> count[p] + 1, dh |-> m.dh,
                               pn |-> m.pn, n |-> m.n, key |-> m.key]}
        /\ UNCHANGED received

\* ratchetDecrypt: open a message of the peer, for the first time or again.  When
\* it throws, the caller keeps the session it had: nothing changes.
Decrypt(p, m) ==
    LET s == AfterDecrypt(session[p], m, NewKeyPair(p)) IN
    /\ m.from # p
    /\ CanDecrypt(session[p], m, NewKeyPair(p))
    /\ session' = [session EXCEPT ![p] = s]
    /\ UseKeyPair(p, s)
    /\ received' = [received EXCEPT ![p][m.id] = @ + 1]
    /\ UNCHANGED <<count, sent>>

Next ==
    \/ \E p \in Party : Encrypt(p)
    \/ \E p \in Party, m \in sent : Decrypt(p, m)

Spec == Init /\ [][Next]_vars

-----------------------------------------------------------------------------
(* Properties                                                              *)

\* The types of the sessions and of what is on the network.
TypeOK ==
    /\ session \in [Party -> RatchetSession]
    /\ keyGen \in [Party -> Nat]
    /\ count \in [Party -> 0 .. MaxMsgs]
    /\ sent \subseteq Message
    /\ received \in [Party -> [MsgId -> Nat]]

Opened(p, m) == received[p][m.id] > 0

ForParty(p) == {m \in sent : m.from # p}

\* No message is opened twice, however often the network repeats it: a consumed
\* message key is never derived again, neither from the cache of skipped keys
\* nor from a chain nor by turning the ratchet to an old DH key.
AtMostOnce == \A p \in Party, i \in MsgId : received[p][i] <= 1

\* No two messages, of either participant, are ever sealed with one message key:
\* every chain is used by one sender, and every position of it once.
NoKeyReuse == \A m1, m2 \in sent : m1.key = m2.key => m1 = m2

\* The session forgets a message key once it was used: no receiver can still
\* derive the key of a message it opened, no sender that of a message it sent.
Derivable(key, ck) == ck.chain = key.chain /\ ck.pos <= key.n

SpentKeysGone ==
    \A m \in sent :
        /\ ~Derivable(m.key, session[m.from].chainKeySend)
        /\ \A p \in Party : m.from # p /\ Opened(p, m) =>
                /\ ~Derivable(m.key, session[p].chainKeyRecv)
                /\ \A e \in session[p].skippedKeys : e.key # m.key

\* Every key in the cache of skipped keys opens a message that was really sent
\* under that header and was not opened yet: the cache never holds a dead key.
SkippedKeysAreAwaited ==
    \A p \in Party : \A e \in session[p].skippedKeys :
        \E m \in ForParty(p) :
            /\ ~Opened(p, m)
            /\ m.dh = e.dh /\ m.n = e.n /\ m.key = e.key

\* The participants' root keys have parted: neither is a continuation of the
\* other, so neither side can ever follow the other's next turn.
Prefix(r1, r2) == Len(r1) <= Len(r2) /\ SubSeq(r2, 1, Len(r1)) = r1

Diverged(p) ==
    LET mine == session[p].rootKey
        theirs == session[Peer(p)].rootKey
    IN  ~Prefix(mine, theirs) /\ ~Prefix(theirs, mine)

\* The skip bound forbids opening m now: one skip would pass more than MaxSkip.
BeyondSkip(p, m) ==
    LET s == session[p] IN
    \/ m.dh = s.dhRecv /\ m.n - s.recvN > MaxSkip
    \/ /\ m.dh.gen > s.dhRecv.gen
       /\ m.pn - s.recvN > MaxSkip \/ m.n > MaxSkip

\* A message that was lost, delayed or overtaken can still be opened whenever it
\* arrives, as long as it is within the skip bound.
Openable(p, m) ==
    Opened(p, m) \/ BeyondSkip(p, m) \/ CanDecrypt(session[p], m, NewKeyPair(p))

\* In a pair of sessions that did not part, every message is openable: counters,
\* chains, cache and ratchet turns of the two sides always fit together.
Recoverable ==
    \A p \in Party : ~Diverged(p) => \A m \in ForParty(p) : Openable(p, m)

\* Break-in recovery: whatever a participant sends after opening a message is
\* sealed under a root key with more DH outputs in it than that message's.
RepliesTurnRatchet ==
    \A p \in Party : \A m \in ForParty(p) : Opened(p, m) =>
        Len(m.key.chain.root)
            < Len(SendingSession(session[p], NewKeyPair(p)).rootKey)

\* Sessions part in one way only: both participants answered the other's initial
\* chain at once, each mixing a DH output of its own into the first root key.
DivergesOnlyAtFirstTurn ==
    \A p \in Party : Diverged(p) =>
        session[p].rootKey = <<{KeyPair(p, 1), IdentityKey(Peer(p))}>>

\* What crypto.ts says of the initial chains, "either participant can send the
\* first message": whoever starts, and both may, every message is openable.
EitherMaySendFirst ==
    \A p \in Party : \A m \in ForParty(p) : Openable(p, m)

\* The ratchet implements the channel: a step sends a message or opens one that
\* was sent and not opened before.
Channel == INSTANCE SecureChannel WITH count <- count, received <- received

ImplementsChannel == Channel!Spec
=============================================================================
