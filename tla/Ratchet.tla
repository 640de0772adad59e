------------------------------- MODULE Ratchet -------------------------------
(***************************************************************************)
(* The ratchet operations of frontend/src/crypto/double-ratchet.ts, as     *)
(* pure functions of a session, with symbolic cryptography.                *)
(*                                                                         *)
(*   key pair     who generated it and which of the owner's pairs it is;   *)
(*                pair 0 is the long-term identity key of crypto.ts        *)
(*   DH output    the set of the two keys: both sides compute the same     *)
(*   root key     the sequence of DH outputs mixed into the shared secret  *)
(*   chain key    the root key it was derived from and its position        *)
(*   message key  the chain and the position it was derived at             *)
(*                                                                         *)
(* Two symbolic values are equal exactly when the byte strings of the code *)
(* are (HKDF and HMAC do not collide), and AES-GCM opens a ciphertext      *)
(* exactly when the derived message key is the one it was sealed with: the *)
(* header, bound as associated data, is delivered as it was sent.          *)
(***************************************************************************)
EXTENDS Integers, Sequences

CONSTANTS
    Party,      \* the two participants of a room
    MaxSkip     \* MAX_SKIP: the most keys one skip may derive (100 in the code)

ASSUME PartyAssumption == \E a, b \in Party : a # b /\ Party = {a, b}
ASSUME MaxSkipAssumption == MaxSkip \in Nat

Peer(p) == CHOOSE q \in Party : q # p

Key == [owner : Party, gen : Nat]

RootKey == Seq(SUBSET Key)

\* "dir" tells the two initial chains apart, which hang off the same root key.
Chain == [root : RootKey, dir : SUBSET Party]

ChainKey == [chain : Chain, pos : Nat]

MessageKey == [chain : Chain, n : Nat]

\* An entry of the Map skippedKeys: (dh, n), the map's key, and a message key.
SkippedEntry == [dh : Key, n : Nat, key : MessageKey]

RatchetSession ==
    [dhSend             : Key,
     dhRecv             : Key,
     rootKey            : RootKey,
     chainKeySend       : ChainKey,
     chainKeyRecv       : ChainKey,
     sendN              : Nat,
     recvN              : Nat,
     prevSendN          : Nat,
     skippedKeys        : SUBSET SkippedEntry,
     initialChain       : BOOLEAN,
     pendingSendRatchet : BOOLEAN]

-----------------------------------------------------------------------------
(* Key derivation                                                          *)

KeyPair(p, k) == [owner |-> p, gen |-> k]

IdentityKey(p) == KeyPair(p, 0)

DH(mine, theirs) == {mine, theirs}

\* kdfRK: one HKDF call gives the new root key and a chain key under it.
KdfRK(root, dhOutput) == Append(root, dhOutput)

FirstChainKey(root) == [chain |-> [root |-> root, dir |-> {}], pos |-> 0]

\* kdfCK: the message key at a chain key, and the chain key some steps further.
MessageKeyAt(ck) == [chain |-> ck.chain, n |-> ck.pos]

Advance(ck, steps) == [chain |-> ck.chain, pos |-> ck.pos + steps]

-----------------------------------------------------------------------------
(* Session initialization                                                  *)

InitialChainKey(sender) ==
    [chain |-> [root |-> <<>>, dir |-> {sender}], pos |-> 0]

CreateBidirectionalSession(p) ==
    [dhSend             |-> IdentityKey(p),
     dhRecv             |-> IdentityKey(Peer(p)),
     rootKey            |-> <<>>,
     chainKeySend       |-> InitialChainKey(p),
     chainKeyRecv       |-> InitialChainKey(Peer(p)),
     sendN              |-> 0,
     recvN              |-> 0,
     prevSendN          |-> 0,
     skippedKeys        |-> {},
     initialChain       |-> TRUE,
     pendingSendRatchet |-> FALSE]

-----------------------------------------------------------------------------
(* Ratchet steps                                                           *)

SendRatchetStep(s, newDH) ==
    LET root == KdfRK(s.rootKey, DH(newDH, s.dhRecv)) IN
    [s EXCEPT !.dhSend = newDH,
              !.rootKey = root,
              !.chainKeySend = FirstChainKey(root),
              !.prevSendN = s.sendN,
              !.sendN = 0,
              !.initialChain = FALSE,
              !.pendingSendRatchet = FALSE]

\* Fault: the length of the chain that ends is not kept for the headers.
FaultyDHRatchetStepNoLength(s, peerDH, newDH) ==
    LET recvRoot == KdfRK(s.rootKey, DH(s.dhSend, peerDH))
        sendRoot == KdfRK(recvRoot, DH(newDH, peerDH))
    IN  [s EXCEPT !.dhSend = newDH, !.dhRecv = peerDH, !.rootKey = sendRoot,
                  !.chainKeySend = FirstChainKey(sendRoot),
                  !.chainKeyRecv = FirstChainKey(recvRoot),
                  !.prevSendN = 0, !.sendN = 0, !.recvN = 0,
                  !.initialChain = FALSE, !.pendingSendRatchet = FALSE]

DHRatchetStep(s, peerDH, newDH) ==
    LET recvRoot == KdfRK(s.rootKey, DH(s.dhSend, peerDH))
        sendRoot == KdfRK(recvRoot, DH(newDH, peerDH))
    IN  [s EXCEPT !.dhSend = newDH,
                  !.dhRecv = peerDH,
                  !.rootKey = sendRoot,
                  !.chainKeySend = FirstChainKey(sendRoot),
                  !.chainKeyRecv = FirstChainKey(recvRoot),
                  !.prevSendN = s.sendN,
                  !.sendN = 0,
                  !.recvN = 0,
                  !.initialChain = FALSE,
                  !.pendingSendRatchet = FALSE]

-----------------------------------------------------------------------------
(* Encrypt                                                                 *)

\* The session ratchetEncrypt sends from; newDH is the pair it generates if the
\* first reply to an initial chain is due.
SendingSession(s, newDH) ==
    IF s.pendingSendRatchet THEN SendRatchetStep(s, newDH) ELSE s

\* What the peer receives: the header and the key the text is sealed with.
Sealed(s) ==
    [dh |-> s.dhSend, pn |-> s.prevSendN, n |-> s.sendN,
     key |-> MessageKeyAt(s.chainKeySend)]

\* Fault: the counter moves on and the chain key does not.
FaultyAfterEncrypt(s) == [s EXCEPT !.sendN = @ + 1]

AfterEncrypt(s) ==
    [s EXCEPT !.chainKeySend = Advance(@, 1), !.sendN = @ + 1]

-----------------------------------------------------------------------------
(* Decrypt                                                                 *)

IsCached(s, m) == \E e \in s.skippedKeys : e.dh = m.dh /\ e.n = m.n

\* skipMessageKeys throws when it would derive more than MaxSkip keys.
MaySkip(s, until) == until - s.recvN <= MaxSkip

\* Fault: the key of the message itself is stored with the skipped ones.
FaultyNewlySkipped(s, until) ==
    {[dh |-> s.dhRecv, n |-> i,
      key |-> MessageKeyAt(Advance(s.chainKeyRecv, i - s.recvN))] :
        i \in s.recvN .. until}

\* The keys of the current receiving chain that a skip to "until" stores.
NewlySkipped(s, until) ==
    {[dh |-> s.dhRecv, n |-> i,
      key |-> MessageKeyAt(Advance(s.chainKeyRecv, i - s.recvN))] :
        i \in s.recvN .. until - 1}

SkipMessageKeys(s, until) ==
    IF until <= s.recvN THEN s
    ELSE [s EXCEPT
            !.skippedKeys =
                {e \in @ : e.dh = s.dhRecv => e.n \notin s.recvN .. until - 1}
                    \cup NewlySkipped(s, until),
            !.chainKeyRecv = Advance(@, until - s.recvN),
            !.recvN = until]

\* Fault: the old chain is closed at n, the position in the new one.
FaultyOnChainOf(s, m, newDH) ==
    IF m.dh = s.dhRecv THEN s
    ELSE DHRatchetStep(SkipMessageKeys(s, m.n), m.dh, newDH)

\* A header with an unknown DH key closes the receiving chain at its length pn
\* and turns the ratchet.
OnChainOf(s, m, newDH) ==
    IF m.dh = s.dhRecv THEN s
    ELSE DHRatchetStep(SkipMessageKeys(s, m.pn), m.dh, newDH)

\* The session whose receiving chain key is to open the message.
AtMessage(s, m, newDH) == SkipMessageKeys(OnChainOf(s, m, newDH), m.n)

\* ratchetDecrypt returns, instead of throwing.
CanDecrypt(s, m, newDH) ==
    IF IsCached(s, m)
    THEN \E e \in s.skippedKeys : e.dh = m.dh /\ e.n = m.n /\ e.key = m.key
    ELSE /\ m.dh # s.dhRecv => MaySkip(s, m.pn)
         /\ MaySkip(OnChainOf(s, m, newDH), m.n)
         /\ MessageKeyAt(AtMessage(s, m, newDH).chainKeyRecv) = m.key

\* Fault: the receive counter moves on and the chain key does not.
FaultyAfterDecryptKeepsChain(s, m, newDH) ==
    IF IsCached(s, m)
    THEN [s EXCEPT !.skippedKeys = {e \in @ : ~(e.dh = m.dh /\ e.n = m.n)}]
    ELSE LET t == AtMessage(s, m, newDH) IN
         [t EXCEPT !.recvN = @ + 1,
                   !.pendingSendRatchet =
                        @ \/ (s.initialChain /\ m.dh = s.dhRecv)]

\* Fault: every message on a known receiving chain makes a ratchet turn due.
FaultyAfterDecryptAlwaysDue(s, m, newDH) ==
    IF IsCached(s, m)
    THEN [s EXCEPT !.skippedKeys = {e \in @ : ~(e.dh = m.dh /\ e.n = m.n)}]
    ELSE LET t == AtMessage(s, m, newDH) IN
         [t EXCEPT !.chainKeyRecv = Advance(@, 1), !.recvN = @ + 1,
                   !.pendingSendRatchet = @ \/ m.dh = s.dhRecv]

\* Fault: a message on the initial chain does not make a ratchet turn due.
FaultyAfterDecryptNoTurn(s, m, newDH) ==
    IF IsCached(s, m)
    THEN [s EXCEPT !.skippedKeys = {e \in @ : ~(e.dh = m.dh /\ e.n = m.n)}]
    ELSE LET t == AtMessage(s, m, newDH) IN
         [t EXCEPT !.chainKeyRecv = Advance(@, 1), !.recvN = @ + 1]

\* The session ratchetDecrypt returns.
AfterDecrypt(s, m, newDH) ==
    IF IsCached(s, m)
    THEN [s EXCEPT !.skippedKeys = {e \in @ : ~(e.dh = m.dh /\ e.n = m.n)}]
    ELSE LET t == AtMessage(s, m, newDH) IN
         [t EXCEPT !.chainKeyRecv = Advance(@, 1),
                   !.recvN = @ + 1,
                   !.pendingSendRatchet =
                        @ \/ (s.initialChain /\ m.dh = s.dhRecv)]
=============================================================================
