------------------------- MODULE DoubleRatchetProofs -------------------------
(***************************************************************************)
(* Theorems of DoubleRatchet, for every skip bound and every number of     *)
(* messages.                                                               *)
(*                                                                         *)
(* First what one ratchet operation does to one session.  Then four        *)
(* inductive invariants of the two sessions and the network, of which the  *)
(* last two rest on the first two:                                         *)
(*   Inv       keys: who seals under which chain (SendInv), what the       *)
(*             receiving side has used up (RecvInv), message numbers       *)
(*   TurnsInv  turns: the two sessions are level, one is ahead of the      *)
(*             other by one turn, or they crossed                          *)
(*   GapInv    positions: chains are sent without gaps, and what a skip    *)
(*             caches is the key of a message that was sent                *)
(*   ReachInv  messages: each one is opened, cached or still to come       *)
(***************************************************************************)
EXTENDS DoubleRatchet, TLAPS

-----------------------------------------------------------------------------
(* One session: what the ratchet operations return                         *)

(* Two participants: everyone but p is the peer of p.                      *)
LEMMA PeerIsOther ==
    ASSUME NEW p \in Party
    PROVE  /\ Peer(p) \in Party
           /\ Peer(p) # p
           /\ \A q \in Party : q # p => q = Peer(p)
<1>1. PICK a \in Party, b \in Party : a # b /\ Party = {a, b}
  BY PartyAssumption
<1>2. \E q \in Party : q # p
  BY <1>1
<1>3. Peer(p) \in Party /\ Peer(p) # p
  BY <1>2 DEF Peer
<1> QED
  BY <1>1, <1>3

-----------------------------------------------------------------------------
(* Types                                                                   *)

(* A new session of either participant is a session.                       *)
LEMMA CreateType ==
    ASSUME NEW p \in Party
    PROVE  CreateBidirectionalSession(p) \in RatchetSession
<1>1. Peer(p) \in Party
  BY PeerIsOther
<1>2. IdentityKey(p) \in Key /\ IdentityKey(Peer(p)) \in Key
  BY <1>1 DEF IdentityKey, KeyPair, Key
<1>3. <<>> \in RootKey
  BY DEF RootKey
<1>4. InitialChainKey(p) \in ChainKey /\ InitialChainKey(Peer(p)) \in ChainKey
  BY <1>1, <1>3 DEF InitialChainKey, ChainKey, Chain
<1> QED
  BY <1>2, <1>3, <1>4 DEF CreateBidirectionalSession, RatchetSession

(* Mixing a DH output into a root key gives a root key one longer, and the *)
(* chain key under it is at position 0.                                    *)
LEMMA KdfRKType ==
    ASSUME NEW root \in RootKey, NEW k1 \in Key, NEW k2 \in Key
    PROVE  /\ KdfRK(root, DH(k1, k2)) \in RootKey
           /\ FirstChainKey(KdfRK(root, DH(k1, k2))) \in ChainKey
           /\ Len(KdfRK(root, DH(k1, k2))) = Len(root) + 1
<1>1. DH(k1, k2) \in SUBSET Key
  BY DEF DH
<1>2. /\ KdfRK(root, DH(k1, k2)) \in RootKey
      /\ Len(KdfRK(root, DH(k1, k2))) = Len(root) + 1
  BY <1>1 DEF KdfRK, RootKey
<1> QED
  BY <1>2 DEF FirstChainKey, ChainKey, Chain

(* Deriving keys from a chain key keeps the chain.                         *)
LEMMA ChainKeyType ==
    ASSUME NEW ck \in ChainKey, NEW i \in Nat
    PROVE  /\ Advance(ck, i) \in ChainKey
           /\ MessageKeyAt(ck) \in MessageKey
           /\ Advance(ck, i).chain = ck.chain
           /\ Advance(ck, i).pos = ck.pos + i
           /\ MessageKeyAt(Advance(ck, i)) = [chain |-> ck.chain, n |-> ck.pos + i]
  BY DEF Advance, MessageKeyAt, ChainKey, MessageKey

(* What a skip changes: the cache gains the keys between the old and the   *)
(* new receive counter, each under a position of its own.                  *)
LEMMA SkipShape ==
    ASSUME NEW s \in RatchetSession, NEW until \in Nat
    PROVE  LET t == SkipMessageKeys(s, until) IN
           /\ t \in RatchetSession
           /\ t.dhSend = s.dhSend /\ t.dhRecv = s.dhRecv
           /\ t.rootKey = s.rootKey /\ t.chainKeySend = s.chainKeySend
           /\ t.sendN = s.sendN /\ t.prevSendN = s.prevSendN
           /\ t.initialChain = s.initialChain
           /\ t.pendingSendRatchet = s.pendingSendRatchet
           /\ t.chainKeyRecv.chain = s.chainKeyRecv.chain
           /\ t.chainKeyRecv.pos >= s.chainKeyRecv.pos
           /\ t.chainKeyRecv.pos - t.recvN = s.chainKeyRecv.pos - s.recvN
           /\ \A e \in t.skippedKeys :
                \/ e \in s.skippedKeys
                \/ /\ e.key.chain = s.chainKeyRecv.chain
                   /\ e.key.n >= s.chainKeyRecv.pos
                   /\ e.key.n < t.chainKeyRecv.pos
                   /\ e.dh = s.dhRecv
                   /\ e.key.n = s.chainKeyRecv.pos + (e.n - s.recvN)
<1> DEFINE t == SkipMessageKeys(s, until)
<1>1. CASE until <= s.recvN
  BY <1>1 DEF SkipMessageKeys, RatchetSession, ChainKey
<1>2. CASE ~(until <= s.recvN)
  <2> DEFINE kept == {e \in s.skippedKeys :
                        e.dh = s.dhRecv => e.n \notin s.recvN .. until - 1}
             ck == Advance(s.chainKeyRecv, until - s.recvN)
  <2>0. /\ s.recvN \in Nat /\ s.chainKeyRecv \in ChainKey /\ s.dhRecv \in Key
        /\ s.skippedKeys \subseteq SkippedEntry
        /\ s.chainKeyRecv.pos \in Nat
    BY DEF RatchetSession, ChainKey
  <2>1. t = [s EXCEPT !.skippedKeys = kept \cup NewlySkipped(s, until),
                      !.chainKeyRecv = ck,
                      !.recvN = until]
    BY <1>2 DEF SkipMessageKeys, RatchetSession
  <2>2. /\ ck \in ChainKey
        /\ ck.chain = s.chainKeyRecv.chain
        /\ ck.pos = s.chainKeyRecv.pos + (until - s.recvN)
    <3>1. until - s.recvN \in Nat
      BY <1>2, <2>0
    <3> QED
      BY <2>0, <3>1, ChainKeyType
  <2>3. ASSUME NEW e \in NewlySkipped(s, until)
        PROVE  /\ e \in SkippedEntry
               /\ e.key.chain = s.chainKeyRecv.chain
               /\ e.key.n >= s.chainKeyRecv.pos
               /\ e.key.n < ck.pos
               /\ e.dh = s.dhRecv
               /\ e.key.n = s.chainKeyRecv.pos + (e.n - s.recvN)
    <3>1. PICK i \in s.recvN .. until - 1 :
            e = [dh |-> s.dhRecv, n |-> i,
                 key |-> MessageKeyAt(Advance(s.chainKeyRecv, i - s.recvN))]
      BY <2>3 DEF NewlySkipped
    <3>2. i \in Nat /\ i - s.recvN \in Nat /\ i < until
      BY <2>0, <3>1
    <3>3. MessageKeyAt(Advance(s.chainKeyRecv, i - s.recvN))
            = [chain |-> s.chainKeyRecv.chain,
               n |-> s.chainKeyRecv.pos + (i - s.recvN)]
      BY <2>0, <3>2, ChainKeyType
    <3>4. MessageKeyAt(Advance(s.chainKeyRecv, i - s.recvN)) \in MessageKey
      BY <2>0, <3>2, ChainKeyType
    <3> QED
      BY <2>0, <2>2, <3>1, <3>2, <3>3, <3>4 DEF SkippedEntry
  <2>4. kept \cup NewlySkipped(s, until) \subseteq SkippedEntry
    BY <2>0, <2>3
  <2>5. t \in RatchetSession
    <3> HIDE DEF kept, ck, t
    <3> QED
      BY <2>1, <2>2, <2>4 DEF RatchetSession
  <2>6. /\ t.skippedKeys = kept \cup NewlySkipped(s, until)
        /\ t.chainKeyRecv = ck /\ t.recvN = until
        /\ t.dhSend = s.dhSend /\ t.dhRecv = s.dhRecv
        /\ t.rootKey = s.rootKey /\ t.chainKeySend = s.chainKeySend
        /\ t.sendN = s.sendN /\ t.prevSendN = s.prevSendN
        /\ t.initialChain = s.initialChain
        /\ t.pendingSendRatchet = s.pendingSendRatchet
    <3> HIDE DEF kept, ck, t
    <3> QED
      BY <2>1 DEF RatchetSession
  <2>7. \A e \in kept : e \in s.skippedKeys
    OBVIOUS
  <2> HIDE DEF kept, ck, t
  <2>8. t.chainKeyRecv.pos >= s.chainKeyRecv.pos
    BY <1>2, <2>0, <2>2, <2>6
  <2>9. t.chainKeyRecv.pos - t.recvN = s.chainKeyRecv.pos - s.recvN
    BY <2>0, <2>2, <2>6
  <2> QED
    BY <2>2, <2>3, <2>5, <2>6, <2>7, <2>8, <2>9 DEF t
<1> QED
  BY <1>1, <1>2

(* Turning the ratchet gives a session whose root key is longer.           *)
LEMMA TurnShape ==
    ASSUME NEW s \in RatchetSession, NEW peerDH \in Key, NEW newDH \in Key
    PROVE  LET t == DHRatchetStep(s, peerDH, newDH) IN
           /\ t \in RatchetSession
           /\ t.dhSend = newDH /\ t.dhRecv = peerDH
           /\ t.skippedKeys = s.skippedKeys
           /\ Len(t.rootKey) = Len(s.rootKey) + 2
           /\ Len(t.chainKeyRecv.chain.root) = Len(s.rootKey) + 1
           /\ t.chainKeySend = FirstChainKey(t.rootKey)
           /\ t.chainKeyRecv = FirstChainKey(KdfRK(s.rootKey, DH(s.dhSend, peerDH)))
           /\ t.rootKey = KdfRK(KdfRK(s.rootKey, DH(s.dhSend, peerDH)),
                                DH(newDH, peerDH))
           /\ t.sendN = 0 /\ t.recvN = 0 /\ t.prevSendN = s.sendN
           /\ ~t.initialChain /\ ~t.pendingSendRatchet
<1> DEFINE t == DHRatchetStep(s, peerDH, newDH)
           recvRoot == KdfRK(s.rootKey, DH(s.dhSend, peerDH))
           sendRoot == KdfRK(recvRoot, DH(newDH, peerDH))
<1>1. s.rootKey \in RootKey /\ s.dhSend \in Key /\ s.sendN \in Nat
  BY DEF RatchetSession
<1>2. /\ recvRoot \in RootKey /\ FirstChainKey(recvRoot) \in ChainKey
      /\ Len(recvRoot) = Len(s.rootKey) + 1
  BY <1>1, KdfRKType
<1> HIDE DEF recvRoot
<1>3. /\ sendRoot \in RootKey /\ FirstChainKey(sendRoot) \in ChainKey
      /\ Len(sendRoot) = Len(recvRoot) + 1
  BY <1>2, KdfRKType
<1> HIDE DEF sendRoot, t
<1>4. t = [s EXCEPT !.dhSend = newDH,
                    !.dhRecv = peerDH,
                    !.rootKey = sendRoot,
                    !.chainKeySend = FirstChainKey(sendRoot),
                    !.chainKeyRecv = FirstChainKey(recvRoot),
                    !.prevSendN = s.sendN,
                    !.sendN = 0,
                    !.recvN = 0,
                    !.initialChain = FALSE,
                    !.pendingSendRatchet = FALSE]
  BY DEF DHRatchetStep, sendRoot, recvRoot, t
<1>5. t \in RatchetSession
  BY <1>1, <1>2, <1>3, <1>4 DEF RatchetSession
<1>6. /\ t.dhSend = newDH /\ t.dhRecv = peerDH
      /\ t.skippedKeys = s.skippedKeys
      /\ t.rootKey = sendRoot
      /\ t.chainKeyRecv = FirstChainKey(recvRoot)
      /\ t.chainKeySend = FirstChainKey(sendRoot)
      /\ t.sendN = 0 /\ t.recvN = 0 /\ t.prevSendN = s.sendN
      /\ ~t.initialChain /\ ~t.pendingSendRatchet
  BY <1>4 DEF RatchetSession
<1>7. /\ FirstChainKey(recvRoot).chain.root = recvRoot
      /\ Len(s.rootKey) \in Nat
  BY <1>1 DEF FirstChainKey, RootKey
<1>8. Len(sendRoot) = Len(s.rootKey) + 2
  BY <1>2, <1>3, <1>7
<1> QED
  BY <1>2, <1>5, <1>6, <1>7, <1>8 DEF t, sendRoot, recvRoot

(* The send ratchet changes the sending side and the root key only.        *)
LEMMA SendTurnShape ==
    ASSUME NEW s \in RatchetSession, NEW newDH \in Key
    PROVE  LET t == SendRatchetStep(s, newDH) IN
           /\ t \in RatchetSession
           /\ t.dhSend = newDH /\ t.dhRecv = s.dhRecv
           /\ t.skippedKeys = s.skippedKeys
           /\ t.chainKeyRecv = s.chainKeyRecv
           /\ t.recvN = s.recvN
           /\ Len(t.rootKey) = Len(s.rootKey) + 1
           /\ t.rootKey = KdfRK(s.rootKey, DH(newDH, s.dhRecv))
           /\ t.chainKeySend = FirstChainKey(t.rootKey)
           /\ t.sendN = 0 /\ t.prevSendN = s.sendN
           /\ ~t.initialChain /\ ~t.pendingSendRatchet
<1> DEFINE root == KdfRK(s.rootKey, DH(newDH, s.dhRecv))
           t == SendRatchetStep(s, newDH)
<1>1. s.rootKey \in RootKey /\ s.dhRecv \in Key /\ s.sendN \in Nat
  BY DEF RatchetSession
<1>2. /\ root \in RootKey /\ FirstChainKey(root) \in ChainKey
      /\ Len(root) = Len(s.rootKey) + 1
  BY <1>1, KdfRKType
<1> HIDE DEF root, t
<1>3. t = [s EXCEPT !.dhSend = newDH,
                    !.rootKey = root,
                    !.chainKeySend = FirstChainKey(root),
                    !.prevSendN = s.sendN,
                    !.sendN = 0,
                    !.initialChain = FALSE,
                    !.pendingSendRatchet = FALSE]
  BY DEF SendRatchetStep, root, t
<1>4. t \in RatchetSession
  BY <1>1, <1>2, <1>3 DEF RatchetSession
<1>5. /\ t.dhSend = newDH /\ t.dhRecv = s.dhRecv
      /\ t.skippedKeys = s.skippedKeys /\ t.recvN = s.recvN
      /\ t.chainKeyRecv = s.chainKeyRecv
      /\ t.rootKey = root /\ t.chainKeySend = FirstChainKey(root)
      /\ t.sendN = 0 /\ t.prevSendN = s.sendN
      /\ ~t.initialChain /\ ~t.pendingSendRatchet
  BY <1>3 DEF RatchetSession
<1> QED
  BY <1>2, <1>4, <1>5 DEF t, root

(* Sealing a message moves the sending chain on by one key.                *)
LEMMA AfterEncryptShape ==
    ASSUME NEW s \in RatchetSession
    PROVE  LET t == AfterEncrypt(s) IN
           /\ t \in RatchetSession
           /\ t.dhSend = s.dhSend /\ t.dhRecv = s.dhRecv
           /\ t.rootKey = s.rootKey /\ t.skippedKeys = s.skippedKeys
           /\ t.chainKeyRecv = s.chainKeyRecv
           /\ t.chainKeySend.chain = s.chainKeySend.chain
           /\ t.chainKeySend.pos = s.chainKeySend.pos + 1
           /\ t.sendN = s.sendN + 1 /\ t.prevSendN = s.prevSendN
           /\ t.recvN = s.recvN /\ t.initialChain = s.initialChain
           /\ t.pendingSendRatchet = s.pendingSendRatchet
<1>1. /\ Advance(s.chainKeySend, 1) \in ChainKey
      /\ Advance(s.chainKeySend, 1).chain = s.chainKeySend.chain
      /\ Advance(s.chainKeySend, 1).pos = s.chainKeySend.pos + 1
  <2>1. s.chainKeySend \in ChainKey
    BY DEF RatchetSession
  <2> QED
    BY <2>1, ChainKeyType
<1> DEFINE ck == Advance(s.chainKeySend, 1)
<1>2. AfterEncrypt(s) = [s EXCEPT !.chainKeySend = ck, !.sendN = s.sendN + 1]
  BY DEF AfterEncrypt, RatchetSession
<1>3. ck \in ChainKey /\ s.sendN + 1 \in Nat
  BY <1>1 DEF RatchetSession
<1> HIDE DEF ck
<1>4. AfterEncrypt(s) \in RatchetSession
  BY <1>2, <1>3 DEF RatchetSession
<1>5. LET t == AfterEncrypt(s) IN
      /\ t.dhSend = s.dhSend /\ t.dhRecv = s.dhRecv
      /\ t.rootKey = s.rootKey /\ t.skippedKeys = s.skippedKeys
      /\ t.chainKeyRecv = s.chainKeyRecv
      /\ t.chainKeySend = ck
      /\ t.sendN = s.sendN + 1 /\ t.prevSendN = s.prevSendN
      /\ t.recvN = s.recvN /\ t.initialChain = s.initialChain
      /\ t.pendingSendRatchet = s.pendingSendRatchet
  BY <1>2 DEF RatchetSession
<1> QED
  BY <1>1, <1>4, <1>5 DEF ck

-----------------------------------------------------------------------------
(* Used keys stay used                                                     *)

\* The receiving side of s has passed the key k: its chain is an older one, or
\* the current one at an earlier position.
Passed(s, k) ==
    /\ Len(k.chain.root) <= Len(s.rootKey)
    /\ k.chain = s.chainKeyRecv.chain => k.n < s.chainKeyRecv.pos

\* The receiving side of a session in which the message keys "spent" were used:
\* it has passed them and the cached ones, and it caches none of them again.
ReceivingInv(s, spent) ==
    /\ Len(s.chainKeyRecv.chain.root) <= Len(s.rootKey)
    /\ \A k \in spent : Passed(s, k)
    /\ \A e \in s.skippedKeys : Passed(s, e.key) /\ e.key \notin spent
    /\ \A e1, e2 \in s.skippedKeys : e1.key = e2.key => e1 = e2

(* Skipping passes more keys and caches only keys that were not passed     *)
(* before.                                                                 *)
LEMMA SkipPreserves ==
    ASSUME NEW s \in RatchetSession, NEW until \in Nat,
           NEW spent \in SUBSET MessageKey,
           ReceivingInv(s, spent)
    PROVE  ReceivingInv(SkipMessageKeys(s, until), spent)
<1> DEFINE t == SkipMessageKeys(s, until)
<1>1. /\ t \in RatchetSession
      /\ t.dhRecv = s.dhRecv
      /\ t.rootKey = s.rootKey
      /\ t.chainKeyRecv.chain = s.chainKeyRecv.chain
      /\ t.chainKeyRecv.pos >= s.chainKeyRecv.pos
      /\ \A e \in t.skippedKeys :
           \/ e \in s.skippedKeys
           \/ /\ e.key.chain = s.chainKeyRecv.chain
              /\ e.key.n >= s.chainKeyRecv.pos
              /\ e.key.n < t.chainKeyRecv.pos
              /\ e.dh = s.dhRecv
              /\ e.key.n = s.chainKeyRecv.pos + (e.n - s.recvN)
  BY SkipShape
<1> HIDE DEF t
<1>2. /\ s.chainKeyRecv.pos \in Nat /\ t.chainKeyRecv.pos \in Nat
      /\ s.recvN \in Nat
      /\ s.skippedKeys \subseteq SkippedEntry /\ t.skippedKeys \subseteq SkippedEntry
  BY <1>1 DEF RatchetSession, ChainKey
<1>3. \A k \in MessageKey : Passed(s, k) => Passed(t, k)
  BY <1>1, <1>2 DEF Passed, MessageKey
<1>4. \A e \in SkippedEntry : e.key \in MessageKey /\ e.n \in Nat /\ e.key.n \in Nat
  BY DEF SkippedEntry, MessageKey
<1>5. ASSUME NEW e \in t.skippedKeys
      PROVE  Passed(t, e.key) /\ e.key \notin spent
  <2>1. CASE e \in s.skippedKeys
    BY <1>2, <1>3, <1>4, <2>1 DEF ReceivingInv
  <2>2. CASE e \notin s.skippedKeys
    <3>1. /\ e.key.chain = s.chainKeyRecv.chain
          /\ e.key.n >= s.chainKeyRecv.pos
          /\ e.key.n < t.chainKeyRecv.pos
      BY <1>1, <2>2
    <3>2. ~Passed(s, e.key)
      BY <1>2, <1>4, <1>5, <3>1 DEF Passed
    <3>3. Passed(t, e.key)
      BY <1>1, <3>1 DEF Passed, ReceivingInv
    <3> QED
      BY <3>2, <3>3 DEF ReceivingInv
  <2> QED
    BY <2>1, <2>2
<1>6. ASSUME NEW e1 \in t.skippedKeys, NEW e2 \in t.skippedKeys, e1.key = e2.key
      PROVE  e1 = e2
  <2>1. \A e \in t.skippedKeys :
          e \notin s.skippedKeys =>
            /\ ~Passed(s, e.key)
            /\ e.dh = s.dhRecv
            /\ e.key.n = s.chainKeyRecv.pos + (e.n - s.recvN)
    BY <1>1, <1>2, <1>4 DEF Passed
  <2>2. \A e \in s.skippedKeys : Passed(s, e.key)
    BY DEF ReceivingInv
  <2>3. CASE e1 \in s.skippedKeys /\ e2 \in s.skippedKeys
    BY <1>6, <2>3 DEF ReceivingInv
  <2>4. CASE e1 \notin s.skippedKeys /\ e2 \notin s.skippedKeys
    <3>1. e1.dh = e2.dh /\ e1.n = e2.n
      BY <1>2, <1>4, <1>6, <2>1, <2>4
    <3> QED
      BY <1>2, <1>6, <3>1 DEF SkippedEntry
  <2> QED
    BY <1>6, <2>1, <2>2, <2>3, <2>4
<1>7. /\ \A k \in spent : Passed(t, k)
      /\ Len(t.chainKeyRecv.chain.root) <= Len(t.rootKey)
  BY <1>1, <1>3 DEF ReceivingInv
<1> QED
  BY <1>5, <1>6, <1>7 DEF ReceivingInv, t

(* Turning the ratchet starts a chain no passed key is on.                 *)
LEMMA TurnPreserves ==
    ASSUME NEW s \in RatchetSession, NEW peerDH \in Key, NEW newDH \in Key,
           NEW spent \in SUBSET MessageKey,
           ReceivingInv(s, spent)
    PROVE  ReceivingInv(DHRatchetStep(s, peerDH, newDH), spent)
<1> DEFINE t == DHRatchetStep(s, peerDH, newDH)
<1>1. /\ t \in RatchetSession
      /\ t.skippedKeys = s.skippedKeys
      /\ Len(t.rootKey) = Len(s.rootKey) + 2
      /\ Len(t.chainKeyRecv.chain.root) = Len(s.rootKey) + 1
  BY TurnShape
<1> HIDE DEF t
<1>2. Len(s.rootKey) \in Nat /\ s.skippedKeys \subseteq SkippedEntry
  BY DEF RatchetSession, RootKey
<1>3. \A k \in MessageKey : Len(k.chain.root) \in Nat
  BY DEF MessageKey, Chain, RootKey
<1>4. ASSUME NEW k \in MessageKey, Passed(s, k)
      PROVE  Passed(t, k)
  <2>1. Len(k.chain.root) < Len(t.chainKeyRecv.chain.root)
    BY <1>1, <1>2, <1>3, <1>4 DEF Passed
  <2> QED
    BY <1>1, <1>2, <1>3, <1>4, <2>1 DEF Passed
<1>5. \A e \in SkippedEntry : e.key \in MessageKey
  BY DEF SkippedEntry
<1> QED
  BY <1>1, <1>2, <1>4, <1>5 DEF ReceivingInv, t

(* Encrypting leaves the receiving side alone; the send ratchet only makes *)
(* the root key longer.                                                    *)
LEMMA EncryptPreserves ==
    ASSUME NEW s \in RatchetSession, NEW newDH \in Key,
           NEW spent \in SUBSET MessageKey,
           ReceivingInv(s, spent)
    PROVE  /\ SendingSession(s, newDH) \in RatchetSession
           /\ AfterEncrypt(SendingSession(s, newDH)) \in RatchetSession
           /\ ReceivingInv(AfterEncrypt(SendingSession(s, newDH)), spent)
<1> DEFINE t == SendingSession(s, newDH)
           u == AfterEncrypt(t)
<1>1. /\ t \in RatchetSession
      /\ t.chainKeyRecv = s.chainKeyRecv /\ t.skippedKeys = s.skippedKeys
      /\ Len(t.rootKey) \in {Len(s.rootKey), Len(s.rootKey) + 1}
  BY SendTurnShape DEF SendingSession
<1> HIDE DEF t
<1>2. /\ u \in RatchetSession
      /\ u.rootKey = t.rootKey /\ u.skippedKeys = t.skippedKeys
      /\ u.chainKeyRecv = t.chainKeyRecv
  BY <1>1, AfterEncryptShape
<1> HIDE DEF u
<1>3. /\ Len(s.rootKey) \in Nat /\ s.skippedKeys \subseteq SkippedEntry
      /\ s.chainKeyRecv \in ChainKey
  BY DEF RatchetSession, RootKey
<1>4. /\ \A k \in MessageKey : Len(k.chain.root) \in Nat
      /\ \A e \in SkippedEntry : e.key \in MessageKey
      /\ Len(s.chainKeyRecv.chain.root) \in Nat
  BY <1>3 DEF MessageKey, SkippedEntry, ChainKey, Chain, RootKey
<1>5. \A k \in MessageKey : Passed(s, k) => Passed(u, k)
  BY <1>1, <1>2, <1>3, <1>4 DEF Passed
<1>6. Len(u.chainKeyRecv.chain.root) <= Len(u.rootKey)
  BY <1>1, <1>2, <1>3, <1>4 DEF ReceivingInv
<1>7. /\ \A k \in spent : Passed(u, k)
      /\ \A e \in u.skippedKeys : Passed(u, e.key) /\ e.key \notin spent
      /\ \A e1, e2 \in u.skippedKeys : e1.key = e2.key => e1 = e2
  BY <1>1, <1>2, <1>3, <1>4, <1>5 DEF ReceivingInv
<1> QED
  BY <1>1, <1>2, <1>6, <1>7 DEF ReceivingInv, t, u

\* What a decryption needs of a message: the header is well-formed.
Header(m) == m.dh \in Key /\ m.pn \in Nat /\ m.n \in Nat /\ m.key \in MessageKey

(* The session a decryption tries the message in is a session, and has     *)
(* brought back no used key.                                               *)
LEMMA AtMessageShape ==
    ASSUME NEW s \in RatchetSession, NEW m, Header(m), NEW newDH \in Key,
           NEW spent \in SUBSET MessageKey,
           ReceivingInv(s, spent)
    PROVE  LET t == AtMessage(s, m, newDH) IN
           /\ t \in RatchetSession
           /\ ReceivingInv(t, spent)
           /\ m.dh = s.dhRecv => /\ t.dhSend = s.dhSend
                                 /\ t.chainKeySend = s.chainKeySend
           /\ m.dh # s.dhRecv =>
                /\ t.dhSend = newDH
                /\ t.chainKeySend =
                     FirstChainKey(KdfRK(KdfRK(s.rootKey, DH(s.dhSend, m.dh)),
                                         DH(newDH, m.dh)))
           /\ t.dhRecv = m.dh
<1> DEFINE c == SkipMessageKeys(s, m.pn)
           o == OnChainOf(s, m, newDH)
           t == AtMessage(s, m, newDH)
<1>1. m.dh \in Key /\ m.pn \in Nat /\ m.n \in Nat
  BY DEF Header
<1>2. /\ c \in RatchetSession /\ ReceivingInv(c, spent)
      /\ c.rootKey = s.rootKey /\ c.dhSend = s.dhSend
  BY <1>1, SkipShape, SkipPreserves
<1>3. /\ o \in RatchetSession /\ ReceivingInv(o, spent)
      /\ m.dh = s.dhRecv => o = s
      /\ m.dh # s.dhRecv =>
           /\ o.dhSend = newDH
           /\ o.chainKeySend =
                FirstChainKey(KdfRK(KdfRK(s.rootKey, DH(s.dhSend, m.dh)),
                                    DH(newDH, m.dh)))
      /\ o.dhRecv = m.dh
  <2>1. CASE m.dh = s.dhRecv
    BY <2>1 DEF OnChainOf
  <2>2. CASE m.dh # s.dhRecv
    <3>1. o = DHRatchetStep(c, m.dh, newDH)
      BY <2>2 DEF OnChainOf
    <3> HIDE DEF c, o
    <3>2. ReceivingInv(o, spent)
      BY <1>1, <1>2, <3>1, TurnPreserves
    <3>3. /\ o \in RatchetSession /\ o.dhSend = newDH /\ o.dhRecv = m.dh
          /\ o.chainKeySend = FirstChainKey(o.rootKey)
          /\ o.rootKey = KdfRK(KdfRK(c.rootKey, DH(c.dhSend, m.dh)),
                               DH(newDH, m.dh))
      BY <1>1, <1>2, <3>1, TurnShape
    <3> QED
      BY <1>2, <2>2, <3>2, <3>3
  <2> QED
    BY <2>1, <2>2
<1> HIDE DEF o
<1>4. t = SkipMessageKeys(o, m.n)
  BY DEF AtMessage, o
<1> HIDE DEF t
<1>5. /\ t \in RatchetSession /\ ReceivingInv(t, spent)
      /\ t.dhSend = o.dhSend /\ t.chainKeySend = o.chainKeySend
      /\ t.dhRecv = o.dhRecv
  BY <1>1, <1>3, <1>4, SkipShape, SkipPreserves
<1> QED
  BY <1>3, <1>5 DEF t

(* A message that can be decrypted is sealed with a key that was not used, *)
(* and its key counts as used in the session the decryption returns.       *)
LEMMA DecryptSpends ==
    ASSUME NEW s \in RatchetSession, NEW m, Header(m), NEW newDH \in Key,
           NEW spent \in SUBSET MessageKey,
           ReceivingInv(s, spent),
           CanDecrypt(s, m, newDH)
    PROVE  LET t == AfterDecrypt(s, m, newDH) IN
           /\ m.key \notin spent
           /\ t \in RatchetSession
           /\ ReceivingInv(t, spent \cup {m.key})
           /\ \/ t.dhSend = s.dhSend /\ t.chainKeySend = s.chainKeySend
              \/ /\ t.dhSend = newDH
                 /\ t.chainKeySend =
                      FirstChainKey(KdfRK(KdfRK(s.rootKey, DH(s.dhSend, m.dh)),
                                          DH(newDH, m.dh)))
           /\ t.dhRecv \in {s.dhRecv, m.dh}
<1> DEFINE t == AfterDecrypt(s, m, newDH)
<1>1. m.key \in MessageKey
  BY DEF Header
<1>2. CASE IsCached(s, m)
  <2> DEFINE kept == {e \in s.skippedKeys : ~(e.dh = m.dh /\ e.n = m.n)}
  <2>1. t = [s EXCEPT !.skippedKeys = kept]
    BY <1>2 DEF AfterDecrypt
  <2>2. PICK e0 \in s.skippedKeys : e0.dh = m.dh /\ e0.n = m.n /\ e0.key = m.key
    BY <1>2 DEF CanDecrypt
  <2>3. /\ kept \subseteq s.skippedKeys
        /\ e0 \notin kept
    BY <2>2
  <2>4. s.skippedKeys \subseteq SkippedEntry
    BY DEF RatchetSession
  <2> HIDE DEF kept, t
  <2>5. /\ t \in RatchetSession
        /\ t.skippedKeys = kept /\ t.rootKey = s.rootKey
        /\ t.chainKeyRecv = s.chainKeyRecv /\ t.dhSend = s.dhSend
        /\ t.chainKeySend = s.chainKeySend /\ t.dhRecv = s.dhRecv
    BY <2>1, <2>3, <2>4 DEF RatchetSession
  <2>6. m.key \notin spent
    BY <2>2 DEF ReceivingInv
  <2>7. ReceivingInv(t, spent \cup {m.key})
    BY <2>2, <2>3, <2>5 DEF ReceivingInv, Passed
  <2> QED
    BY <2>5, <2>6, <2>7 DEF t
<1>3. CASE ~IsCached(s, m)
  <2> DEFINE u == AtMessage(s, m, newDH)
             ck == Advance(u.chainKeyRecv, 1)
             due == u.pendingSendRatchet \/ (s.initialChain /\ m.dh = s.dhRecv)
  <2>1. /\ u \in RatchetSession /\ ReceivingInv(u, spent)
        /\ u.dhRecv = m.dh
        /\ \/ u.dhSend = s.dhSend /\ u.chainKeySend = s.chainKeySend
           \/ /\ u.dhSend = newDH
              /\ u.chainKeySend =
                   FirstChainKey(KdfRK(KdfRK(s.rootKey, DH(s.dhSend, m.dh)),
                                       DH(newDH, m.dh)))
    BY AtMessageShape
  <2>2. m.key = MessageKeyAt(u.chainKeyRecv)
    BY <1>3 DEF CanDecrypt
  <2>3. t = [u EXCEPT !.chainKeyRecv = ck,
                      !.recvN = u.recvN + 1,
                      !.pendingSendRatchet = due]
    BY <1>3 DEF AfterDecrypt
  <2>4. due \in BOOLEAN
    OBVIOUS
  <2> HIDE DEF u, t, due
  <2>5. u.chainKeyRecv \in ChainKey /\ u.recvN \in Nat
        /\ u.skippedKeys \subseteq SkippedEntry
    BY <2>1 DEF RatchetSession
  <2>6. /\ ck \in ChainKey
        /\ ck.chain = u.chainKeyRecv.chain
        /\ ck.pos = u.chainKeyRecv.pos + 1
    BY <2>5, ChainKeyType
  <2>7. /\ m.key.chain = u.chainKeyRecv.chain
        /\ m.key.n = u.chainKeyRecv.pos
        /\ u.chainKeyRecv.pos \in Nat
    BY <2>2, <2>5 DEF MessageKeyAt, ChainKey
  <2> HIDE DEF ck
  <2>8. /\ t \in RatchetSession
        /\ t.skippedKeys = u.skippedKeys /\ t.rootKey = u.rootKey
        /\ t.chainKeyRecv = ck /\ t.dhSend = u.dhSend
        /\ t.chainKeySend = u.chainKeySend /\ t.dhRecv = u.dhRecv
    <3>1. u.recvN + 1 \in Nat
      BY <2>5
    <3> QED
      BY <2>1, <2>3, <2>4, <2>6, <3>1 DEF RatchetSession
  <2>9. ~Passed(u, m.key)
    BY <2>7 DEF Passed
  <2>10. m.key \notin spent /\ \A e \in u.skippedKeys : e.key # m.key
    BY <2>1, <2>9 DEF ReceivingInv
  <2>11. \A k \in MessageKey : Passed(u, k) => Passed(t, k)
    BY <2>6, <2>7, <2>8 DEF Passed, MessageKey
  <2>12. Passed(t, m.key)
    BY <2>1, <2>6, <2>7, <2>8 DEF Passed, ReceivingInv
  <2>13. \A e \in u.skippedKeys : e.key \in MessageKey
    BY <2>5 DEF SkippedEntry
  <2>14. ReceivingInv(t, spent \cup {m.key})
    <3>1. Len(t.chainKeyRecv.chain.root) <= Len(t.rootKey)
      BY <2>1, <2>6, <2>8 DEF ReceivingInv
    <3> QED
      BY <2>1, <2>8, <2>10, <2>11, <2>12, <2>13, <3>1 DEF ReceivingInv
  <2> QED
    BY <2>1, <2>8, <2>10, <2>14 DEF t
<1> QED
  BY <1>2, <1>3

-----------------------------------------------------------------------------
(* The invariant of the keys                                               *)

\* Messages are numbered by their senders, and only sent ones were opened.
IdInv ==
    /\ \A m \in sent : m.id <= count[m.from]
    /\ \A m1, m2 \in sent : m1.from = m2.from /\ m1.id = m2.id => m1 = m2
    /\ \A p, q \in Party, i \in MsgId : q # p /\ i > count[q] => received[p][i] = 0

\* Every key in the last DH output of the root key of a chain was generated.
Generated(gen, chain) ==
    Len(chain.root) > 0 =>
        \A k \in chain.root[Len(chain.root)] : k.gen <= gen[k.owner]

SendInv ==
    /\ \A p \in Party :
        /\ session[p].dhSend = KeyPair(p, keyGen[p])
        /\ session[p].dhRecv.gen <= keyGen[session[p].dhRecv.owner]
        /\ Generated(keyGen, session[p].chainKeySend.chain)
    /\ \A p, q \in Party : p # q =>
        session[p].chainKeySend.chain # session[q].chainKeySend.chain
    /\ \A m \in sent :
        /\ m.dh.gen <= keyGen[m.dh.owner]
        /\ Generated(keyGen, m.key.chain)
        /\ \A p \in Party : m.key.chain = session[p].chainKeySend.chain =>
            m.from = p /\ m.key.n < session[p].chainKeySend.pos

OpenedKeys(p) == {m.key : m \in {m1 \in ForParty(p) : Opened(p, m1)}}

RecvInv == \A p \in Party : ReceivingInv(session[p], OpenedKeys(p))

Inv == TypeOK /\ IdInv /\ SendInv /\ RecvInv /\ NoKeyReuse /\ AtMostOnce

-----------------------------------------------------------------------------

(* Two fresh sessions satisfy the inductive invariant: the initial chains  *)
(* differ, and nothing was sent, skipped or opened.                        *)
LEMMA InitInv == Init => Inv
<1> SUFFICES ASSUME Init PROVE Inv
  OBVIOUS
<1>1. TypeOK
  <2>1. session \in [Party -> RatchetSession]
    BY CreateType DEF Init
  <2> QED
    BY <2>1, MaxMsgsAssumption DEF Init, TypeOK
<1>2. IdInv
  BY DEF Init, IdInv
<1>3. SendInv
  <2>1. ASSUME NEW p \in Party
        PROVE  /\ session[p].dhSend = KeyPair(p, keyGen[p])
               /\ session[p].dhRecv.gen <= keyGen[session[p].dhRecv.owner]
               /\ Generated(keyGen, session[p].chainKeySend.chain)
               /\ session[p].chainKeySend.chain.dir = {p}
    <3>1. session[p] = CreateBidirectionalSession(p) /\ keyGen = [q \in Party |-> 0]
      BY DEF Init
    <3>2. /\ session[p].dhSend = KeyPair(p, 0)
          /\ session[p].dhRecv = KeyPair(Peer(p), 0)
          /\ session[p].chainKeySend = InitialChainKey(p)
      BY <3>1 DEF CreateBidirectionalSession, IdentityKey
    <3>3. session[p].dhRecv.gen = 0 /\ session[p].dhRecv.owner = Peer(p)
      BY <3>2 DEF KeyPair
    <3>4. /\ session[p].chainKeySend.chain.dir = {p}
          /\ session[p].chainKeySend.chain.root = <<>>
      BY <3>2 DEF InitialChainKey
    <3>5. Generated(keyGen, session[p].chainKeySend.chain)
      BY <3>4 DEF Generated
    <3>6. keyGen[p] = 0 /\ keyGen[Peer(p)] = 0
      BY <3>1, PeerIsOther
    <3> QED
      BY <3>2, <3>3, <3>4, <3>5, <3>6
  <2>2. ASSUME NEW p \in Party, NEW q \in Party, p # q
        PROVE  session[p].chainKeySend.chain # session[q].chainKeySend.chain
    <3>1. session[p].chainKeySend.chain.dir = {p} /\ session[q].chainKeySend.chain.dir = {q}
      BY <2>1
    <3>2. {p} # {q}
      BY <2>2
    <3> QED
      BY <3>1, <3>2
  <2> QED
    BY <2>1, <2>2 DEF Init, SendInv
<1>4. RecvInv
  <2>1. ASSUME NEW p \in Party
        PROVE  ReceivingInv(session[p], OpenedKeys(p))
    <3>1. OpenedKeys(p) = {}
      BY DEF Init, OpenedKeys, ForParty
    <3>2. session[p].skippedKeys = {} /\ session[p].rootKey = <<>>
          /\ session[p].chainKeyRecv.chain.root = <<>>
      BY DEF Init, CreateBidirectionalSession, InitialChainKey
    <3> QED
      BY <3>1, <3>2 DEF ReceivingInv
  <2> QED
    BY <2>1 DEF RecvInv
<1>5. NoKeyReuse /\ AtMostOnce
  BY DEF Init, NoKeyReuse, AtMostOnce
<1> QED
  BY <1>1, <1>2, <1>3, <1>4, <1>5 DEF Inv

(* The pair a participant may generate next is a key.                      *)
LEMMA NewKeyPairType ==
    ASSUME TypeOK, NEW p \in Party
    PROVE  /\ NewKeyPair(p) \in Key
           /\ NewKeyPair(p).owner = p /\ NewKeyPair(p).gen = keyGen[p] + 1
  BY DEF TypeOK, NewKeyPair, KeyPair, Key

-----------------------------------------------------------------------------
(* Encrypt                                                                 *)

\* The chain a step moves p's sending side to: the one it has, or the first key
\* under a root key whose last DH output has p's new pair in it.
Turned(p, s) ==
    /\ s.dhSend = NewKeyPair(p)
    /\ s.chainKeySend.pos = 0
    /\ LET root == s.chainKeySend.chain.root IN
       /\ Len(root) > 0
       /\ \E k \in Key : /\ k.gen <= keyGen[k.owner]
                         /\ root[Len(root)] = {NewKeyPair(p), k}

(* A chain under a root key that ends with a DH output of the new pair is  *)
(* used by nobody yet.                                                     *)
LEMMA TurnedIsFresh ==
    ASSUME TypeOK, NEW p \in Party, NEW s, Turned(p, s),
           NEW chain, Generated(keyGen, chain)
    PROVE  chain # s.chainKeySend.chain
<1>1. NewKeyPair(p).owner = p /\ NewKeyPair(p).gen = keyGen[p] + 1
  BY NewKeyPairType
<1>2. keyGen[p] \in Nat
  BY DEF TypeOK
<1> SUFFICES ASSUME chain = s.chainKeySend.chain PROVE FALSE
  OBVIOUS
<1>3. NewKeyPair(p) \in chain.root[Len(chain.root)] /\ Len(chain.root) > 0
  BY DEF Turned
<1>4. NewKeyPair(p).gen <= keyGen[p]
  BY <1>1, <1>3 DEF Generated
<1> QED
  BY <1>1, <1>2, <1>4

(* The session Encrypt seals in, and whether it turned the ratchet.        *)
LEMMA SendingShape ==
    ASSUME TypeOK, SendInv, NEW p \in Party
    PROVE  LET s == SendingSession(session[p], NewKeyPair(p)) IN
           /\ s \in RatchetSession
           /\ s.dhRecv = session[p].dhRecv
           /\ \/ s.dhSend = session[p].dhSend
                 /\ s.chainKeySend = session[p].chainKeySend
              \/ Turned(p, s)
<1> DEFINE s == SendingSession(session[p], NewKeyPair(p))
           o == session[p]
<1>1. o \in RatchetSession /\ NewKeyPair(p) \in Key
  BY NewKeyPairType DEF TypeOK
<1>2. o.rootKey \in RootKey /\ o.dhRecv \in Key
  BY <1>1 DEF RatchetSession
<1>3. CASE ~o.pendingSendRatchet
  BY <1>1, <1>3 DEF SendingSession
<1>4. CASE o.pendingSendRatchet
  <2>1. s = SendRatchetStep(o, NewKeyPair(p))
    BY <1>4 DEF SendingSession
  <2> HIDE DEF s
  <2>2. /\ s \in RatchetSession /\ s.dhSend = NewKeyPair(p)
        /\ s.dhRecv = o.dhRecv
        /\ s.rootKey = KdfRK(o.rootKey, DH(NewKeyPair(p), o.dhRecv))
        /\ s.chainKeySend = FirstChainKey(s.rootKey)
    BY <1>1, <2>1, SendTurnShape
  <2>3. /\ s.chainKeySend.pos = 0
        /\ s.chainKeySend.chain.root
             = Append(o.rootKey, {NewKeyPair(p), o.dhRecv})
    BY <2>2 DEF FirstChainKey, KdfRK, DH
  <2>4. LET root == Append(o.rootKey, {NewKeyPair(p), o.dhRecv}) IN
        Len(root) > 0 /\ root[Len(root)] = {NewKeyPair(p), o.dhRecv}
    BY <1>1, <1>2 DEF RootKey
  <2>5. o.dhRecv.gen <= keyGen[o.dhRecv.owner]
    BY DEF SendInv
  <2>6. Turned(p, s)
    BY <1>2, <2>2, <2>3, <2>4, <2>5 DEF Turned
  <2> QED
    BY <2>2, <2>6 DEF s
<1> QED
  BY <1>3, <1>4

(* A step of p that keeps its sending chain or starts a fresh one keeps    *)
(* apart what the participants seal with.                                  *)
LEMMA SendSide ==
    ASSUME TypeOK, SendInv, NEW p \in Party, NEW s \in RatchetSession,
           \/ s.dhSend = session[p].dhSend
              /\ s.chainKeySend = session[p].chainKeySend
           \/ Turned(p, s),
           s.dhRecv.gen <= keyGen[s.dhRecv.owner],
           keyGen' = [keyGen EXCEPT ![p] = s.dhSend.gen]
    PROVE  /\ keyGen' \in [Party -> Nat]
           /\ s.dhSend = KeyPair(p, keyGen'[p])
           /\ \A k \in Key : k.gen <= keyGen[k.owner] => k.gen <= keyGen'[k.owner]
           /\ \A q \in Party : q # p => keyGen'[q] = keyGen[q]
           /\ Generated(keyGen', s.chainKeySend.chain)
           /\ \A chain \in Chain : Generated(keyGen, chain) => Generated(keyGen', chain)
           /\ \A q \in Party : q # p =>
                session[q].chainKeySend.chain # s.chainKeySend.chain
           /\ \A m \in sent : m.key.chain = s.chainKeySend.chain =>
                m.from = p /\ m.key.n < s.chainKeySend.pos
<1>1. NewKeyPair(p) \in Key /\ NewKeyPair(p).gen = keyGen[p] + 1
      /\ NewKeyPair(p).owner = p
  BY NewKeyPairType
<1>2. /\ s.dhSend \in Key
      /\ s.dhSend = KeyPair(p, s.dhSend.gen)
      /\ s.dhSend.gen >= keyGen[p] /\ s.dhSend.gen \in Nat
      /\ keyGen[p] \in Nat
  <2>1. keyGen[p] \in Nat /\ s.dhSend \in Key
    BY DEF TypeOK, RatchetSession
  <2>2. CASE s.dhSend = session[p].dhSend
    <3>1. s.dhSend = KeyPair(p, keyGen[p])
      BY <2>2 DEF SendInv
    <3>2. s.dhSend.gen = keyGen[p]
      BY <3>1 DEF KeyPair
    <3> QED
      BY <2>1, <3>1, <3>2
  <2>3. CASE s.dhSend = NewKeyPair(p)
    <3>1. s.dhSend = KeyPair(p, keyGen[p] + 1)
      BY <2>3 DEF NewKeyPair
    <3>2. s.dhSend.gen = keyGen[p] + 1
      BY <3>1 DEF KeyPair
    <3> QED
      BY <2>1, <3>1, <3>2
  <2> QED
    BY <2>1, <2>2, <2>3 DEF Turned
<1>3. /\ keyGen' \in [Party -> Nat]
      /\ \A q \in Party : keyGen[q] <= keyGen'[q]
      /\ \A q \in Party : q # p => keyGen'[q] = keyGen[q]
      /\ keyGen'[p] = s.dhSend.gen
  BY <1>2 DEF TypeOK
<1>4. \A k \in Key : k.gen <= keyGen[k.owner] => k.gen <= keyGen'[k.owner]
  BY <1>3 DEF TypeOK, Key
<1>5. ASSUME NEW chain \in Chain, Generated(keyGen, chain)
      PROVE  Generated(keyGen', chain)
  <2> SUFFICES ASSUME Len(chain.root) > 0,
                      NEW k \in chain.root[Len(chain.root)]
               PROVE  k.gen <= keyGen'[k.owner]
    BY DEF Generated
  <2>1. k \in Key
    BY DEF Chain, RootKey
  <2> QED
    BY <1>4, <1>5, <2>1 DEF Generated
<1>6. s.chainKeySend.chain \in Chain
  BY DEF RatchetSession, ChainKey
<1>7. Generated(keyGen', s.chainKeySend.chain)
  <2>1. CASE s.chainKeySend = session[p].chainKeySend
    BY <1>5, <1>6, <2>1 DEF SendInv
  <2>2. CASE Turned(p, s)
    <3>1. PICK k \in Key : /\ k.gen <= keyGen[k.owner]
                           /\ s.chainKeySend.chain.root[Len(s.chainKeySend.chain.root)]
                                = {NewKeyPair(p), k}
      BY <2>2 DEF Turned
    <3>2. NewKeyPair(p).gen <= keyGen'[NewKeyPair(p).owner]
      BY <1>1, <1>2, <1>3, <2>2 DEF Turned
    <3> QED
      BY <1>4, <3>1, <3>2 DEF Generated
  <2> QED
    BY <2>1, <2>2
<1>8. CASE s.chainKeySend = session[p].chainKeySend
  <2>1. /\ \A q \in Party : q # p =>
             session[q].chainKeySend.chain # s.chainKeySend.chain
        /\ \A m \in sent : m.key.chain = s.chainKeySend.chain =>
             m.from = p /\ m.key.n < s.chainKeySend.pos
    BY <1>8 DEF SendInv
  <2>2. s.dhSend = KeyPair(p, keyGen'[p])
    BY <1>2, <1>3
  <2> QED
    BY <1>3, <1>4, <1>5, <1>7, <2>1, <2>2
<1>9. CASE Turned(p, s)
  <2>1. \A q \in Party : Generated(keyGen, session[q].chainKeySend.chain)
    BY DEF SendInv
  <2>2. \A m \in sent : Generated(keyGen, m.key.chain)
    BY DEF SendInv
  <2>3. \A chain : Generated(keyGen, chain) => chain # s.chainKeySend.chain
    BY <1>9, TurnedIsFresh
  <2> QED
    BY <1>2, <1>3, <1>4, <1>5, <1>7, <2>1, <2>2, <2>3
<1> QED
  BY <1>8, <1>9

(* Sealing a message keeps the inductive invariant: its key is on a chain  *)
(* only the sender is on, at a position the sender has not reached before. *)
LEMMA EncryptInv ==
    ASSUME Inv, NEW p \in Party, Encrypt(p)
    PROVE  Inv'
<1> DEFINE s == SendingSession(session[p], NewKeyPair(p))
           t == AfterEncrypt(s)
           new == [from |-> p, id |-> count[p] + 1, dh |-> Sealed(s).dh,
                   pn |-> Sealed(s).pn, n |-> Sealed(s).n, key |-> Sealed(s).key]
<1>1. /\ count[p] < MaxMsgs
      /\ count' = [count EXCEPT ![p] = @ + 1]
      /\ session' = [session EXCEPT ![p] = t]
      /\ keyGen' = [keyGen EXCEPT ![p] = s.dhSend.gen]
      /\ sent' = sent \cup {new}
      /\ received' = received
  BY DEF Encrypt, UseKeyPair
<1>2. TypeOK /\ IdInv /\ SendInv /\ RecvInv /\ NoKeyReuse /\ AtMostOnce
  BY DEF Inv
<1>3. /\ s \in RatchetSession
      /\ s.dhRecv = session[p].dhRecv
      /\ \/ s.dhSend = session[p].dhSend
            /\ s.chainKeySend = session[p].chainKeySend
         \/ Turned(p, s)
  BY <1>2, SendingShape
<1>4. NewKeyPair(p) \in Key /\ NewKeyPair(p).gen = keyGen[p] + 1
      /\ NewKeyPair(p).owner = p
  BY <1>2, NewKeyPairType
<1>5. ReceivingInv(t, OpenedKeys(p)) /\ t \in RatchetSession
  <2>1. OpenedKeys(p) \in SUBSET MessageKey
    BY <1>2 DEF TypeOK, OpenedKeys, ForParty, Message
  <2>2. session[p] \in RatchetSession /\ ReceivingInv(session[p], OpenedKeys(p))
    BY <1>2 DEF TypeOK, RecvInv
  <2> HIDE DEF s, t
  <2> QED
    BY <1>4, <2>1, <2>2, EncryptPreserves DEF s, t
<1>6. /\ t.dhSend = s.dhSend /\ t.dhRecv = s.dhRecv
      /\ t.chainKeySend.chain = s.chainKeySend.chain
      /\ t.chainKeySend.pos = s.chainKeySend.pos + 1
  BY <1>3, AfterEncryptShape
<1> HIDE DEF s, t
<1>7. /\ new \in Message
      /\ new.from = p /\ new.id = count[p] + 1 /\ new.dh = s.dhSend
      /\ new.key.chain = s.chainKeySend.chain
      /\ new.key.n = s.chainKeySend.pos
  <2>1. /\ Sealed(s).dh = s.dhSend /\ Sealed(s).dh \in Key
        /\ Sealed(s).pn \in Nat /\ Sealed(s).n \in Nat
        /\ Sealed(s).key = MessageKeyAt(s.chainKeySend)
    BY <1>3 DEF Sealed, RatchetSession
  <2>2. s.chainKeySend \in ChainKey
    BY <1>3 DEF RatchetSession
  <2>3. /\ Sealed(s).key \in MessageKey
        /\ Sealed(s).key.chain = s.chainKeySend.chain
        /\ Sealed(s).key.n = s.chainKeySend.pos
    <3>1. /\ MessageKeyAt(s.chainKeySend) \in MessageKey
          /\ MessageKeyAt(s.chainKeySend).chain = s.chainKeySend.chain
          /\ MessageKeyAt(s.chainKeySend).n = s.chainKeySend.pos
      BY <2>2 DEF MessageKeyAt, MessageKey, ChainKey
    <3> QED
      BY <2>1, <3>1
  <2>4. count[p] + 1 \in MsgId
    BY <1>1, <1>2, MaxMsgsAssumption DEF TypeOK, MsgId
  <2> QED
    BY <2>1, <2>3, <2>4 DEF Message
<1> HIDE DEF new
<1>8. /\ keyGen' \in [Party -> Nat]
      /\ s.dhSend = KeyPair(p, keyGen'[p])
      /\ \A k \in Key : k.gen <= keyGen[k.owner] => k.gen <= keyGen'[k.owner]
      /\ \A q \in Party : q # p => keyGen'[q] = keyGen[q]
      /\ Generated(keyGen', s.chainKeySend.chain)
      /\ \A chain \in Chain : Generated(keyGen, chain) => Generated(keyGen', chain)
      /\ \A q \in Party : q # p =>
           session[q].chainKeySend.chain # s.chainKeySend.chain
      /\ \A m \in sent : m.key.chain = s.chainKeySend.chain =>
           m.from = p /\ m.key.n < s.chainKeySend.pos
  <2>1. s.dhRecv.gen <= keyGen[s.dhRecv.owner]
    BY <1>2, <1>3 DEF SendInv
  <2> QED
    BY <1>1, <1>2, <1>3, <2>1, SendSide
<1>9. TypeOK'
  <2>1. session' \in [Party -> RatchetSession]
    BY <1>1, <1>2, <1>5 DEF TypeOK
  <2>2. count' \in [Party -> 0 .. MaxMsgs]
    BY <1>1, <1>2, MaxMsgsAssumption DEF TypeOK
  <2>3. sent' \subseteq Message /\ received' \in [Party -> [MsgId -> Nat]]
    BY <1>1, <1>2, <1>7 DEF TypeOK, MsgId
  <2> QED
    BY <1>8, <2>1, <2>2, <2>3 DEF TypeOK
<1>10. IdInv'
  <2>1. /\ count[p] \in Nat /\ count'[p] = count[p] + 1
        /\ \A q \in Party : q # p => count'[q] = count[q]
        /\ \A q \in Party : count[q] \in Nat
        /\ \A m \in sent : m.from \in Party /\ m.id \in Nat
    BY <1>1, <1>2 DEF TypeOK, Message, MsgId
  <2>2. \A m \in sent' : m.id <= count'[m.from]
    BY <1>1, <1>2, <1>7, <2>1 DEF IdInv
  <2>3. \A m1, m2 \in sent' : m1.from = m2.from /\ m1.id = m2.id => m1 = m2
    <3>1. \A m \in sent : m.from = p => m.id # new.id
      BY <1>2, <1>7, <2>1 DEF IdInv
    <3> QED
      BY <1>1, <1>2, <1>7, <3>1 DEF IdInv
  <2>4. \A q1, q2 \in Party, i \in MsgId :
          q2 # q1 /\ i > count'[q2] => received'[q1][i] = 0
    BY <1>1, <1>2, <2>1 DEF IdInv, MsgId
  <2> QED
    BY <2>2, <2>3, <2>4 DEF IdInv
<1>11. SendInv'
  <2>1. /\ session'[p] = t
        /\ \A q \in Party : q # p => session'[q] = session[q]
        /\ \A q \in Party : session[q] \in RatchetSession
    BY <1>1, <1>2 DEF TypeOK
  <2>2. \A q \in Party : /\ session[q].dhRecv \in Key
                         /\ session[q].chainKeySend.chain \in Chain
    BY <2>1 DEF RatchetSession, ChainKey
  <2>3. ASSUME NEW q \in Party
        PROVE  /\ session'[q].dhSend = KeyPair(q, keyGen'[q])
               /\ session'[q].dhRecv.gen <= keyGen'[session'[q].dhRecv.owner]
               /\ Generated(keyGen', session'[q].chainKeySend.chain)
    <3>1. CASE q = p
      BY <1>2, <1>3, <1>6, <1>8, <2>1, <2>2, <3>1 DEF SendInv
    <3>2. CASE q # p
      BY <1>2, <1>8, <2>1, <2>2, <3>2 DEF SendInv
    <3> QED
      BY <3>1, <3>2
  <2>4. \A q1, q2 \in Party : q1 # q2 =>
          session'[q1].chainKeySend.chain # session'[q2].chainKeySend.chain
    BY <1>2, <1>6, <1>8, <2>1 DEF SendInv
  <2>5. s.chainKeySend.pos \in Nat
    BY <1>3 DEF RatchetSession, ChainKey
  <2>6. ASSUME NEW m \in sent'
        PROVE  /\ m.dh.gen <= keyGen'[m.dh.owner]
               /\ Generated(keyGen', m.key.chain)
               /\ \A q \in Party : m.key.chain = session'[q].chainKeySend.chain =>
                    m.from = q /\ m.key.n < session'[q].chainKeySend.pos
    <3>1. CASE m \in sent
      <4>1. m.dh \in Key /\ m.key.chain \in Chain /\ m.key.n \in Nat
        BY <1>2, <3>1 DEF TypeOK, Message, MessageKey
      <4> QED
        BY <1>2, <1>6, <1>8, <2>1, <2>5, <3>1, <4>1 DEF SendInv
    <3>2. CASE m = new
      <4>1. m.dh.gen <= keyGen'[m.dh.owner]
        BY <1>7, <1>8, <3>2 DEF KeyPair, TypeOK
      <4> QED
        BY <1>6, <1>7, <1>8, <2>1, <2>5, <3>2, <4>1
    <3> QED
      BY <1>1, <3>1, <3>2
  <2> QED
    BY <2>3, <2>4, <2>6 DEF SendInv
<1>12. RecvInv'
  <2>1. ASSUME NEW q \in Party
        PROVE  OpenedKeys(q)' = OpenedKeys(q)
    <3>1. q # p => received[q][new.id] = 0
      BY <1>1, <1>2, <1>7 DEF IdInv, TypeOK, Message
    <3>2. {m \in ForParty(q) : Opened(q, m)}' = {m \in ForParty(q) : Opened(q, m)}
      BY <1>1, <1>7, <3>1 DEF ForParty, Opened
    <3> QED
      BY <3>2 DEF OpenedKeys
  <2>2. ASSUME NEW q \in Party
        PROVE  ReceivingInv(session'[q], OpenedKeys(q)')
    BY <1>1, <1>2, <1>5, <2>1 DEF RecvInv, TypeOK
  <2> QED
    BY <2>2 DEF RecvInv
<1>13. NoKeyReuse'
  <2>1. s.chainKeySend.pos \in Nat
    BY <1>3 DEF RatchetSession, ChainKey
  <2>2. \A m \in sent : m.key # new.key
    BY <1>7, <1>8, <2>1
  <2> QED
    BY <1>1, <1>2, <2>2 DEF NoKeyReuse
<1>14. AtMostOnce'
  BY <1>1, <1>2 DEF AtMostOnce
<1> QED
  BY <1>9, <1>10, <1>11, <1>12, <1>13, <1>14 DEF Inv

-----------------------------------------------------------------------------
(* Decrypt                                                                 *)

(* A ratchet turn that answers a DH key of a sent message starts a fresh   *)
(* chain.                                                                  *)
LEMMA AnswerTurns ==
    ASSUME TypeOK, NEW p \in Party, NEW t \in RatchetSession,
           NEW root \in RootKey, NEW k \in Key, k.gen <= keyGen[k.owner],
           t.dhSend = NewKeyPair(p),
           t.chainKeySend = FirstChainKey(KdfRK(root, DH(NewKeyPair(p), k)))
    PROVE  Turned(p, t)
<1>1. /\ t.chainKeySend.pos = 0
      /\ t.chainKeySend.chain.root = Append(root, {NewKeyPair(p), k})
  BY DEF FirstChainKey, KdfRK, DH
<1>2. LET r == Append(root, {NewKeyPair(p), k}) IN
      Len(r) > 0 /\ r[Len(r)] = {NewKeyPair(p), k}
  BY DEF RootKey
<1> QED
  BY <1>1, <1>2 DEF Turned

(* Opening a message keeps the inductive invariant, and the message was    *)
(* not opened before.                                                      *)
LEMMA DecryptInv ==
    ASSUME Inv, NEW p \in Party, NEW m \in sent, Decrypt(p, m)
    PROVE  Inv' /\ received[p][m.id] = 0
<1> DEFINE s == session[p]
           t == AfterDecrypt(s, m, NewKeyPair(p))
           spent == OpenedKeys(p)
<1>1. /\ m.from # p
      /\ CanDecrypt(s, m, NewKeyPair(p))
      /\ session' = [session EXCEPT ![p] = t]
      /\ keyGen' = [keyGen EXCEPT ![p] = t.dhSend.gen]
      /\ received' = [received EXCEPT ![p][m.id] = @ + 1]
      /\ count' = count /\ sent' = sent
  BY DEF Decrypt, UseKeyPair
<1>2. TypeOK /\ IdInv /\ SendInv /\ RecvInv /\ NoKeyReuse /\ AtMostOnce
  BY DEF Inv
<1>3. /\ m \in Message /\ m.from \in Party /\ m.id \in MsgId
      /\ m.dh \in Key /\ m.key \in MessageKey /\ Header(m)
  BY <1>2 DEF TypeOK, Message, Header
<1>4. NewKeyPair(p) \in Key
  BY <1>2, NewKeyPairType
<1>5. /\ s \in RatchetSession /\ ReceivingInv(s, spent)
      /\ spent \in SUBSET MessageKey
  BY <1>2 DEF TypeOK, RecvInv, OpenedKeys, ForParty, Message
<1>6. /\ m.key \notin spent
      /\ t \in RatchetSession
      /\ ReceivingInv(t, spent \cup {m.key})
      /\ \/ t.dhSend = s.dhSend /\ t.chainKeySend = s.chainKeySend
         \/ /\ t.dhSend = NewKeyPair(p)
            /\ t.chainKeySend =
                 FirstChainKey(KdfRK(KdfRK(s.rootKey, DH(s.dhSend, m.dh)),
                                     DH(NewKeyPair(p), m.dh)))
      /\ t.dhRecv \in {s.dhRecv, m.dh}
  <2> HIDE DEF s, t, spent
  <2> QED
    BY <1>1, <1>3, <1>4, <1>5, DecryptSpends DEF t
<1> HIDE DEF t
<1>7. \/ t.dhSend = session[p].dhSend /\ t.chainKeySend = session[p].chainKeySend
      \/ Turned(p, t)
  <2>1. CASE t.dhSend = s.dhSend /\ t.chainKeySend = s.chainKeySend
    BY <2>1
  <2>2. CASE /\ t.dhSend = NewKeyPair(p)
             /\ t.chainKeySend =
                  FirstChainKey(KdfRK(KdfRK(s.rootKey, DH(s.dhSend, m.dh)),
                                      DH(NewKeyPair(p), m.dh)))
    <3>1. s.rootKey \in RootKey /\ s.dhSend \in Key
      BY <1>5 DEF RatchetSession
    <3>2. KdfRK(s.rootKey, DH(s.dhSend, m.dh)) \in RootKey
      BY <1>3, <3>1, KdfRKType
    <3>3. m.dh.gen <= keyGen[m.dh.owner]
      BY <1>2 DEF SendInv
    <3> QED
      BY <1>2, <1>3, <1>6, <2>2, <3>2, <3>3, AnswerTurns
  <2> QED
    BY <1>6, <2>1, <2>2
<1>8. t.dhRecv.gen <= keyGen[t.dhRecv.owner]
  BY <1>2, <1>6 DEF SendInv
<1>9. /\ keyGen' \in [Party -> Nat]
      /\ t.dhSend = KeyPair(p, keyGen'[p])
      /\ \A k \in Key : k.gen <= keyGen[k.owner] => k.gen <= keyGen'[k.owner]
      /\ \A q \in Party : q # p => keyGen'[q] = keyGen[q]
      /\ Generated(keyGen', t.chainKeySend.chain)
      /\ \A chain \in Chain : Generated(keyGen, chain) => Generated(keyGen', chain)
      /\ \A q \in Party : q # p =>
           session[q].chainKeySend.chain # t.chainKeySend.chain
      /\ \A m1 \in sent : m1.key.chain = t.chainKeySend.chain =>
           m1.from = p /\ m1.key.n < t.chainKeySend.pos
  BY <1>1, <1>2, <1>6, <1>7, <1>8, SendSide
<1>10. received[p][m.id] = 0
  <2>1. ~Opened(p, m)
    BY <1>1, <1>6 DEF OpenedKeys, ForParty
  <2>2. received[p][m.id] \in Nat
    BY <1>2, <1>3 DEF TypeOK
  <2> QED
    BY <2>1, <2>2 DEF Opened
<1>11. TypeOK'
  <2>1. session' \in [Party -> RatchetSession]
    BY <1>1, <1>2, <1>6 DEF TypeOK
  <2>2. received' \in [Party -> [MsgId -> Nat]]
    BY <1>1, <1>2, <1>3 DEF TypeOK
  <2> QED
    BY <1>1, <1>2, <1>9, <2>1, <2>2 DEF TypeOK, MsgId
<1>12. IdInv'
  <2>1. \A q1, q2 \in Party, i \in MsgId :
          q2 # q1 /\ i > count'[q2] => received'[q1][i] = 0
    <3> SUFFICES ASSUME NEW q1 \in Party, NEW q2 \in Party, NEW i \in MsgId,
                        q2 # q1, i > count[q2]
                 PROVE  received'[q1][i] = 0
      BY <1>1
    <3>1. received[q1][i] = 0
      BY <1>2 DEF IdInv
    <3>2. CASE q1 = p /\ i = m.id
      <4>1. q2 = m.from
        BY <1>1, <1>3, <3>2, PeerIsOther
      <4>2. m.id <= count[m.from] /\ m.id \in Nat /\ count[m.from] \in Nat
        BY <1>2, <1>3 DEF IdInv, TypeOK, MsgId
      <4> QED
        BY <3>2, <4>1, <4>2
    <3>3. CASE ~(q1 = p /\ i = m.id)
      BY <1>1, <1>2, <1>3, <3>1, <3>3 DEF TypeOK
    <3> QED
      BY <3>2, <3>3
  <2> QED
    BY <1>1, <1>2, <2>1 DEF IdInv
<1>13. SendInv'
  <2>1. /\ session'[p] = t
        /\ \A q \in Party : q # p => session'[q] = session[q]
        /\ \A q \in Party : session[q] \in RatchetSession
    BY <1>1, <1>2 DEF TypeOK
  <2>2. /\ \A q \in Party : /\ session[q].dhRecv \in Key
                            /\ session[q].chainKeySend.chain \in Chain
        /\ t.dhRecv \in Key
    BY <1>6, <2>1 DEF RatchetSession, ChainKey
  <2>3. ASSUME NEW q \in Party
        PROVE  /\ session'[q].dhSend = KeyPair(q, keyGen'[q])
               /\ session'[q].dhRecv.gen <= keyGen'[session'[q].dhRecv.owner]
               /\ Generated(keyGen', session'[q].chainKeySend.chain)
    <3>1. CASE q = p
      BY <1>8, <1>9, <2>1, <2>2, <3>1
    <3>2. CASE q # p
      BY <1>2, <1>9, <2>1, <2>2, <3>2 DEF SendInv
    <3> QED
      BY <3>1, <3>2
  <2>4. \A q1, q2 \in Party : q1 # q2 =>
          session'[q1].chainKeySend.chain # session'[q2].chainKeySend.chain
    BY <1>2, <1>9, <2>1 DEF SendInv
  <2>5. ASSUME NEW m1 \in sent'
        PROVE  /\ m1.dh.gen <= keyGen'[m1.dh.owner]
               /\ Generated(keyGen', m1.key.chain)
               /\ \A q \in Party : m1.key.chain = session'[q].chainKeySend.chain =>
                    m1.from = q /\ m1.key.n < session'[q].chainKeySend.pos
    <3>1. m1 \in sent /\ m1.dh \in Key /\ m1.key.chain \in Chain
      BY <1>1, <1>2 DEF TypeOK, Message, MessageKey
    <3> QED
      BY <1>2, <1>9, <2>1, <3>1 DEF SendInv
  <2> QED
    BY <2>3, <2>4, <2>5 DEF SendInv
<1>14. RecvInv'
  <2>1. ASSUME NEW q \in Party, q # p
        PROVE  ReceivingInv(session'[q], OpenedKeys(q)')
    <3>1. received'[q] = received[q] /\ session'[q] = session[q]
      BY <1>1, <1>2, <2>1 DEF TypeOK
    <3>2. OpenedKeys(q)' = OpenedKeys(q)
      BY <1>1, <3>1 DEF OpenedKeys, ForParty, Opened
    <3> QED
      BY <1>2, <3>1, <3>2 DEF RecvInv
  <2>2. ReceivingInv(session'[p], OpenedKeys(p)')
    <3>1. /\ received'[p][m.id] = 1
          /\ \A i \in MsgId : i # m.id => received'[p][i] = received[p][i]
      BY <1>1, <1>2, <1>3, <1>10 DEF TypeOK
    <3>2. \A m1 \in sent : m1.from # p /\ m1.id = m.id => m1 = m
      <4>1. \A m1 \in sent : m1.from # p => m1.from = m.from
        BY <1>1, <1>2, <1>3, PeerIsOther DEF TypeOK, Message
      <4> QED
        BY <1>2, <4>1 DEF IdInv
    <3>3. \A m1 \in sent : m1.id \in MsgId
      BY <1>2 DEF TypeOK, Message
    <3>4. ForParty(p)' = ForParty(p)
      BY <1>1 DEF ForParty
    <3>5. {m1 \in ForParty(p) : Opened(p, m1)}'
            = {m1 \in ForParty(p) : Opened(p, m1)} \cup {m}
      BY <1>1, <3>1, <3>2, <3>3, <3>4 DEF ForParty, Opened
    <3>6. OpenedKeys(p)' = OpenedKeys(p) \cup {m.key}
      BY <3>5 DEF OpenedKeys
    <3>7. session'[p] = t
      BY <1>1, <1>2 DEF TypeOK
    <3> QED
      BY <1>6, <3>6, <3>7
  <2> QED
    BY <2>1, <2>2 DEF RecvInv
<1>15. AtMostOnce'
  BY <1>1, <1>2, <1>3, <1>10 DEF AtMostOnce, TypeOK
<1>16. NoKeyReuse'
  BY <1>1, <1>2 DEF NoKeyReuse
<1> QED
  BY <1>10, <1>11, <1>12, <1>13, <1>14, <1>15, <1>16 DEF Inv

-----------------------------------------------------------------------------
(* Theorems                                                                *)

(* A step that changes nothing keeps the inductive invariant.              *)
LEMMA StutterInv == Inv /\ UNCHANGED vars => Inv'
<1> SUFFICES ASSUME Inv, UNCHANGED vars PROVE Inv'
  OBVIOUS
<1>1. /\ session' = session /\ keyGen' = keyGen /\ count' = count
      /\ sent' = sent /\ received' = received
  BY DEF vars
<1>2. TypeOK'
  BY <1>1 DEF Inv, TypeOK
<1>3. IdInv'
  BY <1>1 DEF Inv, IdInv
<1>4. SendInv'
  BY <1>1 DEF Inv, SendInv
<1>5. RecvInv'
  BY <1>1 DEF Inv, RecvInv, OpenedKeys, ForParty, Opened
<1>6. NoKeyReuse' /\ AtMostOnce'
  BY <1>1 DEF Inv, NoKeyReuse, AtMostOnce
<1> QED
  BY <1>2, <1>3, <1>4, <1>5, <1>6 DEF Inv

(* The inductive invariant holds in every reachable state.                 *)
THEOREM InvHolds == Spec => []Inv
<1>1. Inv /\ [Next]_vars => Inv'
  BY EncryptInv, DecryptInv, StutterInv DEF Next
<1> QED
  BY InitInv, <1>1, PTL DEF Spec

(* Every variable keeps its type: the stored sessions are well-formed.     *)
THEOREM TypeCorrect == Spec => []TypeOK
<1>1. Inv => TypeOK
  BY DEF Inv
<1> QED
  BY InvHolds, <1>1, PTL

(* No message is opened twice, whatever the network repeats.               *)
THEOREM AtMostOnceHolds == Spec => []AtMostOnce
<1>1. Inv => AtMostOnce
  BY DEF Inv
<1> QED
  BY InvHolds, <1>1, PTL

(* No message key seals two messages, of one participant or of both.       *)
THEOREM NoKeyReuseHolds == Spec => []NoKeyReuse
<1>1. Inv => NoKeyReuse
  BY DEF Inv
<1> QED
  BY InvHolds, <1>1, PTL

(* No session can derive again a message key that it used.                 *)
THEOREM SpentKeysGoneHolds == Spec => []SpentKeysGone
<1>1. ASSUME Inv PROVE SpentKeysGone
  <2>1. ASSUME NEW m \in sent
        PROVE  ~Derivable(m.key, session[m.from].chainKeySend)
    <3>1. m.from \in Party /\ m.key.n \in Nat
          /\ session[m.from].chainKeySend.pos \in Nat
      BY <1>1 DEF Inv, TypeOK, Message, MessageKey, RatchetSession, ChainKey
    <3> QED
      BY <1>1, <3>1 DEF Inv, SendInv, Derivable
  <2>2. ASSUME NEW m \in sent, NEW p \in Party, m.from # p, Opened(p, m)
        PROVE  /\ ~Derivable(m.key, session[p].chainKeyRecv)
               /\ \A e \in session[p].skippedKeys : e.key # m.key
    <3>1. m.key \in OpenedKeys(p)
      BY <2>2 DEF OpenedKeys, ForParty
    <3>2. ReceivingInv(session[p], OpenedKeys(p))
      BY <1>1 DEF Inv, RecvInv
    <3>3. m.key.n \in Nat /\ session[p].chainKeyRecv.pos \in Nat
      BY <1>1 DEF Inv, TypeOK, Message, MessageKey, RatchetSession, ChainKey
    <3> QED
      BY <3>1, <3>2, <3>3 DEF ReceivingInv, Passed, Derivable
  <2> QED
    BY <2>1, <2>2 DEF SpentKeysGone
<1> QED
  BY InvHolds, <1>1, PTL

(* Two sessions over the faulty network are a channel that opens what was  *)
(* sent, each message at most once.                                        *)
THEOREM Refinement == Spec => ImplementsChannel
<1>1. Init => Channel!Init
  BY DEF Init, Channel!Init, MsgId, Channel!MsgId
<1>2. ASSUME Inv, [Next]_vars
      PROVE  [Channel!Next]_Channel!vars
  <2>1. ASSUME NEW p \in Party, Encrypt(p)
        PROVE  Channel!Next
    BY <2>1 DEF Encrypt, Channel!Next, Channel!Send
  <2>2. ASSUME NEW p \in Party, NEW m \in sent, Decrypt(p, m)
        PROVE  Channel!Next
    <3>1. received[p][m.id] = 0
      BY <1>2, <2>2, DecryptInv
    <3>2. /\ m.from \in Party /\ m.id \in MsgId /\ m.id <= count[m.from]
      BY <1>2 DEF Inv, TypeOK, Message, IdInv
    <3>3. /\ m.from # p /\ count' = count
          /\ received' = [received EXCEPT ![p][m.id] = 1]
      BY <2>2, <3>1 DEF Decrypt
    <3>4. Channel!Receive(p, m.from, m.id)
      BY <3>1, <3>2, <3>3 DEF Channel!Receive
    <3> QED
      BY <3>2, <3>4 DEF Channel!Next, MsgId, Channel!MsgId
  <2>3. CASE UNCHANGED vars
    BY <2>3 DEF vars, Channel!vars
  <2> QED
    BY <1>2, <2>1, <2>2, <2>3 DEF Next
<1> QED
  BY InvHolds, <1>1, <1>2, PTL DEF Spec, ImplementsChannel, Channel!Spec

-----------------------------------------------------------------------------
(* What the operations do to a session whose counters fit its chains       *)

KeyOn(chain, n) == [chain |-> chain, n |-> n]

\* Cache t holds the keys of a chain at the positions from "first" below "until",
\* under the header key dh, in addition to what cache s holds.
Caches(s, t, dh, chain, first, until) ==
    /\ \A e \in t : 
         \/ e \in s
         \/ /\ e.dh = dh /\ e.key = KeyOn(chain, e.n)
            /\ first <= e.n /\ e.n < until
    /\ \A e \in s : e \in t \/ (e.dh = dh /\ first <= e.n /\ e.n < until)
    /\ \A i \in Nat : first <= i /\ i < until =>
         \E e \in t : e.dh = dh /\ e.n = i /\ e.key = KeyOn(chain, i)

(* A skip caches exactly the keys between the two receive counters.        *)
LEMMA SkipCaches ==
    ASSUME NEW s \in RatchetSession, NEW until \in Nat,
           s.recvN = s.chainKeyRecv.pos
    PROVE  LET t == SkipMessageKeys(s, until)
               chain == s.chainKeyRecv.chain IN
           /\ t.recvN = t.chainKeyRecv.pos
           /\ t.recvN = IF until <= s.recvN THEN s.recvN ELSE until
           /\ Caches(s.skippedKeys, t.skippedKeys, s.dhRecv, chain, s.recvN, until)
<1> DEFINE t == SkipMessageKeys(s, until)
           chain == s.chainKeyRecv.chain
<1>1. /\ s.recvN \in Nat /\ s.chainKeyRecv \in ChainKey
      /\ s.skippedKeys \subseteq SkippedEntry
  BY DEF RatchetSession
<1>2. CASE until <= s.recvN
  <2>1. t = s
    BY <1>2 DEF SkipMessageKeys
  <2> QED
    BY <1>1, <1>2, <2>1 DEF Caches
<1>3. CASE ~(until <= s.recvN)
  <2> DEFINE kept == {e \in s.skippedKeys :
                        e.dh = s.dhRecv => e.n \notin s.recvN .. until - 1}
             ck == Advance(s.chainKeyRecv, until - s.recvN)
             entry(i) == [dh |-> s.dhRecv, n |-> i, key |-> KeyOn(chain, i)]
  <2>1. t = [s EXCEPT !.skippedKeys = kept \cup NewlySkipped(s, until),
                      !.chainKeyRecv = ck,
                      !.recvN = until]
    BY <1>3 DEF SkipMessageKeys, RatchetSession
  <2>2. ck.pos = until
    <3>1. until - s.recvN \in Nat
      BY <1>1, <1>3
    <3>2. ck.pos = s.chainKeyRecv.pos + (until - s.recvN)
      BY <1>1, <3>1, ChainKeyType
    <3> QED
      BY <1>1, <3>2 DEF ChainKey
  <2>3. /\ t.skippedKeys = kept \cup NewlySkipped(s, until)
        /\ t.chainKeyRecv = ck /\ t.recvN = until
    <3> HIDE DEF kept, ck, t
    <3> QED
      BY <2>1 DEF RatchetSession
  <2>4. ASSUME NEW i \in s.recvN .. until - 1
        PROVE  [dh |-> s.dhRecv, n |-> i,
                key |-> MessageKeyAt(Advance(s.chainKeyRecv, i - s.recvN))] = entry(i)
    <3>1. i - s.recvN \in Nat /\ s.chainKeyRecv.pos + (i - s.recvN) = i
      BY <1>1
    <3>2. MessageKeyAt(Advance(s.chainKeyRecv, i - s.recvN)) = KeyOn(chain, i)
      BY <1>1, <3>1, ChainKeyType DEF KeyOn
    <3> QED
      BY <3>2
  <2>5. NewlySkipped(s, until) = {entry(i) : i \in s.recvN .. until - 1}
    BY <2>4 DEF NewlySkipped
  <2>6. ASSUME NEW i \in s.recvN .. until - 1
        PROVE  /\ entry(i) \in t.skippedKeys
               /\ entry(i).dh = s.dhRecv /\ entry(i).n = i
               /\ entry(i).key = KeyOn(chain, i)
    BY <2>3, <2>5
  <2>7. \A e \in t.skippedKeys :
           \/ e \in s.skippedKeys
           \/ \E i \in s.recvN .. until - 1 : e = entry(i)
    BY <2>3, <2>5
  <2>8. \A e \in s.skippedKeys :
           e \in t.skippedKeys \/ (e.dh = s.dhRecv /\ e.n \in s.recvN .. until - 1)
    BY <2>3
  <2> HIDE DEF kept, ck, t, entry
  <2>9. \A e \in t.skippedKeys :
                \/ e \in s.skippedKeys
                \/ /\ e.dh = s.dhRecv /\ e.key = KeyOn(chain, e.n)
                   /\ s.recvN <= e.n /\ e.n < until
    BY <1>1, <2>6, <2>7
  <2>10. \A e \in s.skippedKeys :
                \/ e \in t.skippedKeys
                \/ e.dh = s.dhRecv /\ s.recvN <= e.n /\ e.n < until
    BY <1>1, <2>8
  <2>11. \A i \in Nat : s.recvN <= i /\ i < until =>
                \E e \in t.skippedKeys :
                    e.dh = s.dhRecv /\ e.n = i /\ e.key = KeyOn(chain, i)
    <3> SUFFICES ASSUME NEW i \in Nat, s.recvN <= i, i < until
                 PROVE  \E e \in t.skippedKeys :
                            e.dh = s.dhRecv /\ e.n = i /\ e.key = KeyOn(chain, i)
      OBVIOUS
    <3>1. i \in s.recvN .. until - 1
      BY <1>1
    <3> QED
      BY <2>6, <3>1
  <2> QED
    BY <1>3, <2>2, <2>3, <2>9, <2>10, <2>11 DEF t, Caches
<1> QED
  BY <1>2, <1>3

\* A session that counts what it derived: the counters of the headers are the
\* positions of the chain keys.
Counted(s) == s.sendN = s.chainKeySend.pos /\ s.recvN = s.chainKeyRecv.pos

\* What an encryption does to a session: it leaves the receiving side alone, and
\* seals at the next position of the sending chain, or turns the ratchet first.
SameReceivingSide(s, t) ==
    /\ t.dhRecv = s.dhRecv
    /\ t.chainKeyRecv = s.chainKeyRecv
    /\ t.recvN = s.recvN
    /\ t.skippedKeys = s.skippedKeys

SameSendingSide(s, t) ==
    /\ t.dhSend = s.dhSend
    /\ t.rootKey = s.rootKey
    /\ t.chainKeySend = s.chainKeySend
    /\ t.sendN = s.sendN
    /\ t.prevSendN = s.prevSendN
    /\ t.initialChain = s.initialChain

SealsOnChain(s, t) ==
    /\ ~s.pendingSendRatchet
    /\ t.dhSend = s.dhSend
    /\ t.rootKey = s.rootKey
    /\ t.chainKeySend.chain = s.chainKeySend.chain
    /\ t.sendN = s.sendN + 1
    /\ t.prevSendN = s.prevSendN
    /\ t.initialChain = s.initialChain
    /\ ~t.pendingSendRatchet

SealsAfterTurn(s, t, newDH) ==
    /\ s.pendingSendRatchet
    /\ t.dhSend = newDH
    /\ t.rootKey = Append(s.rootKey, {newDH, s.dhRecv})
    /\ t.chainKeySend.chain = FirstChainKey(t.rootKey).chain
    /\ t.sendN = 1
    /\ t.prevSendN = s.sendN
    /\ ~t.initialChain
    /\ ~t.pendingSendRatchet

(* What ratchetEncrypt does to the session and what it puts on the wire.   *)
LEMMA EncryptEffect ==
    ASSUME NEW s \in RatchetSession, NEW newDH \in Key, Counted(s)
    PROVE  LET u == SendingSession(s, newDH)
               t == AfterEncrypt(u)
           IN  /\ t \in RatchetSession /\ Counted(t)
               /\ SameReceivingSide(s, t)
               /\ SealsOnChain(s, t) \/ SealsAfterTurn(s, t, newDH)
               /\ Sealed(u).dh = t.dhSend /\ Sealed(u).pn = t.prevSendN
               /\ Sealed(u).n = t.sendN - 1
               /\ Sealed(u).key = KeyOn(t.chainKeySend.chain, t.sendN - 1)
<1> DEFINE u == SendingSession(s, newDH)
           t == AfterEncrypt(u)
<1>1. /\ u \in RatchetSession /\ Counted(u)
      /\ SameReceivingSide(s, u)
      /\ \/ ~s.pendingSendRatchet /\ u = s
         \/ /\ s.pendingSendRatchet
            /\ u.dhSend = newDH
            /\ u.rootKey = Append(s.rootKey, {newDH, s.dhRecv})
            /\ u.chainKeySend.chain = FirstChainKey(u.rootKey).chain
            /\ u.sendN = 0 /\ u.prevSendN = s.sendN
            /\ ~u.initialChain /\ ~u.pendingSendRatchet
  <2>1. CASE ~s.pendingSendRatchet
    BY <2>1 DEF SendingSession, SameReceivingSide
  <2>2. CASE s.pendingSendRatchet
    <3>1. u = SendRatchetStep(s, newDH)
      BY <2>2 DEF SendingSession
    <3> HIDE DEF u
    <3>2. /\ u \in RatchetSession
          /\ u.dhSend = newDH /\ u.dhRecv = s.dhRecv
          /\ u.skippedKeys = s.skippedKeys
          /\ u.chainKeyRecv = s.chainKeyRecv
          /\ u.recvN = s.recvN
          /\ u.rootKey = KdfRK(s.rootKey, DH(newDH, s.dhRecv))
          /\ u.chainKeySend = FirstChainKey(u.rootKey)
          /\ u.sendN = 0 /\ u.prevSendN = s.sendN
          /\ ~u.initialChain /\ ~u.pendingSendRatchet
      BY <3>1, SendTurnShape
    <3>3. u.chainKeySend.pos = 0
      BY <3>2 DEF FirstChainKey
    <3>4. Counted(u) /\ SameReceivingSide(s, u)
      BY <3>2, <3>3 DEF Counted, SameReceivingSide
    <3> QED
      BY <2>2, <3>2, <3>4 DEF KdfRK, DH
  <2> QED
    BY <2>1, <2>2
<1>2. /\ Sealed(u).dh = u.dhSend /\ Sealed(u).pn = u.prevSendN
      /\ Sealed(u).n = u.sendN
      /\ Sealed(u).key = KeyOn(u.chainKeySend.chain, u.sendN)
  BY <1>1 DEF Sealed, MessageKeyAt, KeyOn, Counted
<1> HIDE DEF u
<1>3. /\ t \in RatchetSession
      /\ t.dhSend = u.dhSend /\ t.dhRecv = u.dhRecv
      /\ t.rootKey = u.rootKey /\ t.skippedKeys = u.skippedKeys
      /\ t.chainKeyRecv = u.chainKeyRecv
      /\ t.chainKeySend.chain = u.chainKeySend.chain
      /\ t.chainKeySend.pos = u.chainKeySend.pos + 1
      /\ t.sendN = u.sendN + 1 /\ t.prevSendN = u.prevSendN
      /\ t.recvN = u.recvN /\ t.initialChain = u.initialChain
      /\ t.pendingSendRatchet = u.pendingSendRatchet
  BY <1>1, AfterEncryptShape
<1> HIDE DEF t
<1>4. u.sendN \in Nat
  BY <1>1 DEF RatchetSession
<1>5. Counted(t) /\ SameReceivingSide(s, t)
  BY <1>1, <1>3 DEF Counted, SameReceivingSide
<1>6. t.sendN - 1 = u.sendN
  BY <1>3, <1>4
<1>7. SealsOnChain(s, t) \/ SealsAfterTurn(s, t, newDH)
  <2>1. CASE ~s.pendingSendRatchet /\ u = s
    BY <1>3, <2>1 DEF SealsOnChain
  <2>2. CASE s.pendingSendRatchet /\ u.sendN = 0
    BY <1>1, <1>3, <2>2 DEF SealsAfterTurn
  <2> QED
    BY <1>1, <2>1, <2>2
<1> QED
  BY <1>2, <1>3, <1>5, <1>6, <1>7 DEF t, u

\* What a decryption does to a session: it takes a cached key, or it walks its
\* receiving chain, or it turns the ratchet and walks the new one; it caches the
\* keys it passes, and those entries replace cached ones at the same header.
OpensCached(s, t, m) ==
    /\ SameSendingSide(s, t)
    /\ t.pendingSendRatchet = s.pendingSendRatchet
    /\ t.dhRecv = s.dhRecv
    /\ t.chainKeyRecv = s.chainKeyRecv
    /\ t.recvN = s.recvN
    /\ \E e \in s.skippedKeys : e.dh = m.dh /\ e.n = m.n /\ e.key = m.key
    /\ t.skippedKeys = {e \in s.skippedKeys : ~(e.dh = m.dh /\ e.n = m.n)}

OpensOnChain(s, t, m) ==
    /\ SameSendingSide(s, t)
    /\ m.dh = s.dhRecv /\ t.dhRecv = s.dhRecv
    /\ m.key.chain = s.chainKeyRecv.chain
    /\ t.chainKeyRecv.chain = s.chainKeyRecv.chain
    /\ m.n >= s.recvN
    /\ t.recvN = m.n + 1
    /\ t.pendingSendRatchet <=> s.pendingSendRatchet \/ s.initialChain
    /\ Caches(s.skippedKeys, t.skippedKeys, s.dhRecv, s.chainKeyRecv.chain,
              s.recvN, m.n)

OpensAfterTurn(s, t, m, newDH) ==
    /\ m.dh # s.dhRecv
    /\ m.key.chain = FirstChainKey(Append(s.rootKey, {s.dhSend, m.dh})).chain
    /\ t.dhSend = newDH /\ t.dhRecv = m.dh
    /\ t.rootKey = Append(Append(s.rootKey, {s.dhSend, m.dh}), {newDH, m.dh})
    /\ t.chainKeySend.chain = FirstChainKey(t.rootKey).chain
    /\ t.chainKeyRecv.chain = m.key.chain
    /\ t.sendN = 0 /\ t.prevSendN = s.sendN /\ t.recvN = m.n + 1
    /\ ~t.initialChain /\ ~t.pendingSendRatchet
    /\ \E cache \in SUBSET SkippedEntry :
         /\ Caches(s.skippedKeys, cache, s.dhRecv, s.chainKeyRecv.chain,
                   s.recvN, m.pn)
         /\ Caches(cache, t.skippedKeys, m.dh, m.key.chain, 0, m.n)

(* What ratchetDecrypt does to the session when it does not throw.         *)
LEMMA DecryptEffect ==
    ASSUME NEW s \in RatchetSession, NEW m, Header(m), NEW newDH \in Key,
           Counted(s), m.n = m.key.n, CanDecrypt(s, m, newDH)
    PROVE  LET t == AfterDecrypt(s, m, newDH) IN
           /\ Counted(t)
           /\ \/ OpensCached(s, t, m)
              \/ ~IsCached(s, m) /\ OpensOnChain(s, t, m)
              \/ ~IsCached(s, m) /\ OpensAfterTurn(s, t, m, newDH)
<1> DEFINE t == AfterDecrypt(s, m, newDH)
<1>1. m.key \in MessageKey /\ m.dh \in Key /\ m.pn \in Nat /\ m.n \in Nat
  BY DEF Header
<1>2. CASE IsCached(s, m)
  <2> DEFINE kept == {e \in s.skippedKeys : ~(e.dh = m.dh /\ e.n = m.n)}
  <2>1. t = [s EXCEPT !.skippedKeys = kept]
    BY <1>2 DEF AfterDecrypt
  <2>2. \E e \in s.skippedKeys : e.dh = m.dh /\ e.n = m.n /\ e.key = m.key
    BY <1>2 DEF CanDecrypt
  <2> HIDE DEF kept, t
  <2>3. /\ t.skippedKeys = kept
        /\ SameSendingSide(s, t)
        /\ t.chainKeyRecv = s.chainKeyRecv /\ t.recvN = s.recvN
        /\ t.pendingSendRatchet = s.pendingSendRatchet /\ t.dhRecv = s.dhRecv
    BY <2>1 DEF RatchetSession, SameSendingSide
  <2>4. OpensCached(s, t, m)
    BY <2>2, <2>3 DEF OpensCached, kept
  <2>5. Counted(t)
    BY <2>3 DEF Counted, SameSendingSide
  <2> QED
    BY <2>4, <2>5 DEF t
<1>3. CASE ~IsCached(s, m)
  <2> DEFINE o == OnChainOf(s, m, newDH)
             u == SkipMessageKeys(o, m.n)
             due == u.pendingSendRatchet \/ (s.initialChain /\ m.dh = s.dhRecv)
             ck == Advance(u.chainKeyRecv, 1)
  <2>1. t = [u EXCEPT !.chainKeyRecv = ck,
                      !.recvN = u.recvN + 1,
                      !.pendingSendRatchet = due]
    BY <1>3 DEF AfterDecrypt, AtMessage
  <2>2. MessageKeyAt(u.chainKeyRecv) = m.key
    BY <1>3 DEF CanDecrypt, AtMessage
  <2> DEFINE c == SkipMessageKeys(s, m.pn)
  <2>3. /\ c \in RatchetSession
        /\ c.dhSend = s.dhSend /\ c.rootKey = s.rootKey /\ c.sendN = s.sendN
        /\ c.skippedKeys \in SUBSET SkippedEntry
        /\ Caches(s.skippedKeys, c.skippedKeys, s.dhRecv, s.chainKeyRecv.chain,
                  s.recvN, m.pn)
    <3>1. s.recvN = s.chainKeyRecv.pos
      BY DEF Counted
    <3> HIDE DEF c
    <3>2. /\ c \in RatchetSession
          /\ c.dhSend = s.dhSend /\ c.rootKey = s.rootKey /\ c.sendN = s.sendN
          /\ Caches(s.skippedKeys, c.skippedKeys, s.dhRecv, s.chainKeyRecv.chain,
                    s.recvN, m.pn)
      BY <1>1, <3>1, SkipShape, SkipCaches DEF c
    <3> QED
      BY <3>2 DEF RatchetSession
  <2> HIDE DEF c
  <2>4. /\ o \in RatchetSession /\ Counted(o) /\ o.dhRecv = m.dh
        /\ \/ m.dh = s.dhRecv /\ o = s
           \/ /\ m.dh # s.dhRecv
              /\ o.dhSend = newDH
              /\ o.skippedKeys = c.skippedKeys
              /\ o.rootKey = Append(Append(s.rootKey, {s.dhSend, m.dh}), {newDH, m.dh})
              /\ o.chainKeySend.chain = FirstChainKey(o.rootKey).chain
              /\ o.chainKeyRecv.chain = FirstChainKey(Append(s.rootKey, {s.dhSend, m.dh})).chain
              /\ o.sendN = 0 /\ o.recvN = 0 /\ o.prevSendN = s.sendN
              /\ ~o.initialChain /\ ~o.pendingSendRatchet
    <3>1. CASE m.dh = s.dhRecv
      BY <3>1 DEF OnChainOf
    <3>2. CASE m.dh # s.dhRecv
      <4>1. o = DHRatchetStep(c, m.dh, newDH)
        BY <3>2 DEF OnChainOf, c
      <4> HIDE DEF o
      <4>2. /\ o \in RatchetSession
            /\ o.dhSend = newDH /\ o.dhRecv = m.dh
            /\ o.skippedKeys = c.skippedKeys
            /\ o.chainKeySend = FirstChainKey(o.rootKey)
            /\ o.chainKeyRecv = FirstChainKey(KdfRK(c.rootKey, DH(c.dhSend, m.dh)))
            /\ o.rootKey = KdfRK(KdfRK(c.rootKey, DH(c.dhSend, m.dh)),
                                 DH(newDH, m.dh))
            /\ o.sendN = 0 /\ o.recvN = 0 /\ o.prevSendN = c.sendN
            /\ ~o.initialChain /\ ~o.pendingSendRatchet
        <5>1. c \in RatchetSession /\ m.dh \in Key
          BY <1>1, <2>3
        <5> QED
          BY <4>1, <5>1, TurnShape
      <4>3. Counted(o)
        BY <4>2 DEF Counted, FirstChainKey
      <4> QED
        BY <2>3, <3>2, <4>2, <4>3 DEF KdfRK, DH
    <3> QED
      BY <3>1, <3>2
  <2> HIDE DEF o
  <2>5. /\ u \in RatchetSession
        /\ u.dhSend = o.dhSend /\ u.dhRecv = o.dhRecv
        /\ u.rootKey = o.rootKey /\ u.chainKeySend = o.chainKeySend
        /\ u.sendN = o.sendN /\ u.prevSendN = o.prevSendN
        /\ u.initialChain = o.initialChain
        /\ u.pendingSendRatchet = o.pendingSendRatchet
        /\ u.chainKeyRecv.chain = o.chainKeyRecv.chain
    BY <1>1, <2>4, SkipShape
  <2>6. /\ u.recvN = u.chainKeyRecv.pos
        /\ u.recvN = IF m.n <= o.recvN THEN o.recvN ELSE m.n
        /\ Caches(o.skippedKeys, u.skippedKeys, o.dhRecv, o.chainKeyRecv.chain,
                  o.recvN, m.n)
    <3>1. o.recvN = o.chainKeyRecv.pos
      BY <2>4 DEF Counted
    <3> QED
      BY <1>1, <2>4, <3>1, SkipCaches
  <2> HIDE DEF u
  <2>7. /\ u.chainKeyRecv \in ChainKey
        /\ u.recvN \in Nat /\ o.recvN \in Nat
    BY <2>4, <2>5 DEF RatchetSession
  <2>8. m.key.chain = u.chainKeyRecv.chain /\ m.n = u.recvN /\ m.n >= o.recvN
    <3>1. m.key.chain = u.chainKeyRecv.chain /\ m.key.n = u.chainKeyRecv.pos
      BY <2>2 DEF MessageKeyAt
    <3> QED
      BY <1>1, <2>6, <2>7, <3>1
  <2>9. ck.chain = u.chainKeyRecv.chain /\ ck.pos = u.chainKeyRecv.pos + 1
    BY <2>7, ChainKeyType
  <2> HIDE DEF ck, due, t
  <2>10. /\ t.chainKeyRecv = ck /\ t.recvN = u.recvN + 1
         /\ t.pendingSendRatchet = due
         /\ t.skippedKeys = u.skippedKeys /\ t.dhRecv = u.dhRecv
         /\ SameSendingSide(u, t)
    BY <2>1, <2>5 DEF RatchetSession, SameSendingSide
  <2>11. SameSendingSide(o, t)
    BY <2>5, <2>10 DEF SameSendingSide
  <2>12. Counted(t)
    BY <2>4, <2>6, <2>9, <2>10, <2>11 DEF Counted, SameSendingSide
  <2>13. t.chainKeyRecv.chain = m.key.chain /\ t.recvN = m.n + 1 /\ t.dhRecv = m.dh
    BY <2>4, <2>5, <2>8, <2>9, <2>10
  <2>14. CASE m.dh = s.dhRecv /\ o = s
    <3>1. t.pendingSendRatchet <=> s.pendingSendRatchet \/ s.initialChain
      BY <2>5, <2>10, <2>14 DEF due
    <3>2. OpensOnChain(s, t, m)
      BY <2>5, <2>6, <2>8, <2>10, <2>11, <2>13, <2>14, <3>1 DEF OpensOnChain
    <3> QED
      BY <1>3, <2>12, <3>2 DEF t
  <2>15. CASE m.dh # s.dhRecv
    <3>1. /\ o.dhSend = newDH
          /\ o.skippedKeys = c.skippedKeys
          /\ o.rootKey = Append(Append(s.rootKey, {s.dhSend, m.dh}), {newDH, m.dh})
          /\ o.chainKeySend.chain = FirstChainKey(o.rootKey).chain
          /\ o.chainKeyRecv.chain = FirstChainKey(Append(s.rootKey, {s.dhSend, m.dh})).chain
          /\ o.sendN = 0 /\ o.recvN = 0 /\ o.prevSendN = s.sendN
          /\ ~o.initialChain /\ ~o.pendingSendRatchet
      BY <2>4, <2>15
    <3>2. ~t.pendingSendRatchet
      BY <2>5, <2>10, <2>15, <3>1 DEF due
    <3>3. m.key.chain = FirstChainKey(Append(s.rootKey, {s.dhSend, m.dh})).chain
      BY <2>5, <2>8, <3>1
    <3>4. Caches(c.skippedKeys, t.skippedKeys, m.dh, m.key.chain, 0, m.n)
      BY <2>4, <2>5, <2>6, <2>8, <2>10, <3>1
    <3>5. /\ t.dhSend = newDH
          /\ t.rootKey = Append(Append(s.rootKey, {s.dhSend, m.dh}), {newDH, m.dh})
          /\ t.chainKeySend.chain = FirstChainKey(t.rootKey).chain
          /\ t.sendN = 0 /\ t.prevSendN = s.sendN
          /\ ~t.initialChain
      BY <2>11, <3>1 DEF SameSendingSide
    <3>6. OpensAfterTurn(s, t, m, newDH)
      BY <2>3, <2>13, <2>15, <3>2, <3>3, <3>4, <3>5 DEF OpensAfterTurn
    <3> QED
      BY <1>3, <2>12, <3>6 DEF t
  <2> QED
    BY <2>4, <2>14, <2>15
<1> QED
  BY <1>2, <1>3

-----------------------------------------------------------------------------
(* The invariant of the ratchet turns                                      *)

\* The fields of p's session fit together: until its first turn it is on the
\* initial chains, and from then on it sends under its root key.
Shaped(p, s) ==
    /\ Counted(s)
    /\ s.pendingSendRatchet => s.initialChain
    /\ s.initialChain <=> s.rootKey = <<>>
    /\ s.chainKeySend.chain.root = s.rootKey
    /\ s.initialChain =>
        /\ s.dhSend = IdentityKey(p) /\ s.dhRecv = IdentityKey(Peer(p))
        /\ s.chainKeySend.chain = InitialChainKey(p).chain
        /\ s.chainKeyRecv.chain = InitialChainKey(Peer(p)).chain
    /\ ~s.initialChain =>
        /\ s.chainKeySend.chain = FirstChainKey(s.rootKey).chain
        /\ Len(s.chainKeyRecv.chain.root) < Len(s.rootKey)

ShapeInv == \A p \in Party : Shaped(p, session[p])

\* Where two sessions stand to each other: neither has turned the ratchet; one
\* turned it in answer to what the other sends under now; or both answered the
\* other's initial chain.
Level(p, q) == session[p].rootKey = <<>> /\ session[q].rootKey = <<>>

Ahead(p, q) ==
    /\ session[p].rootKey
         = Append(session[q].rootKey, {session[p].dhSend, session[q].dhSend})
    /\ session[p].dhRecv = session[q].dhSend
    /\ session[p].chainKeyRecv.chain = session[q].chainKeySend.chain
    /\ session[q].dhRecv.gen < session[p].dhSend.gen
    /\ session[q].rootKey = <<>> => session[p].dhSend = KeyPair(p, 1)

Answered(p, q) ==
    /\ session[p].rootKey = <<{KeyPair(p, 1), IdentityKey(q)}>>
    /\ session[p].dhSend = KeyPair(p, 1)
    /\ session[p].dhRecv = IdentityKey(q)
    /\ session[p].chainKeyRecv.chain = InitialChainKey(q).chain

Crossed(p, q) == Answered(p, q) /\ Answered(q, p)

RootInv == \A p, q \in Party : p # q =>
    Level(p, q) \/ Ahead(p, q) \/ Ahead(q, p) \/ Crossed(p, q)

\* What was sent fits the sender's session: one DH key per chain, the current
\* ones together, older chains under shorter root keys.
HeaderInv ==
    /\ \A m \in sent :
        LET s == session[m.from] IN
        /\ m.n = m.key.n
        /\ Len(m.key.chain.root) <= Len(s.rootKey)
        /\ Len(m.key.chain.root) = Len(s.rootKey) =>
             m.key.chain = s.chainKeySend.chain
        /\ m.dh = s.dhSend <=> m.key.chain = s.chainKeySend.chain
        /\ m.key.chain = s.chainKeySend.chain => m.pn = s.prevSendN
    /\ \A m1, m2 \in sent : m1.from = m2.from =>
        (m1.dh = m2.dh <=> m1.key.chain = m2.key.chain)

\* What p opened or cached is not on a later chain than the one it receives on,
\* and if p has not turned since it received first, its turn is due.
AnswerInv ==
    \A p \in Party :
        /\ \A m \in ForParty(p) : Opened(p, m) =>
             /\ Len(m.key.chain.root) <= Len(session[p].chainKeyRecv.chain.root)
             /\ session[p].initialChain => session[p].pendingSendRatchet
        /\ \A e \in session[p].skippedKeys :
             /\ Len(e.key.chain.root) <= Len(session[p].chainKeyRecv.chain.root)
             /\ session[p].initialChain => session[p].pendingSendRatchet

(* An encryption keeps the shape of a session.                             *)
LEMMA SealsShaped ==
    ASSUME NEW p \in Party, NEW s \in RatchetSession, NEW t \in RatchetSession,
           NEW newDH \in Key,
           Shaped(p, s), Counted(t), SameReceivingSide(s, t),
           SealsOnChain(s, t) \/ SealsAfterTurn(s, t, newDH)
    PROVE  Shaped(p, t)
<1>1. CASE SealsOnChain(s, t)
  BY <1>1 DEF Shaped, SealsOnChain, SameReceivingSide
<1>2. CASE SealsAfterTurn(s, t, newDH)
  <2>1. /\ s.rootKey = <<>> /\ s.chainKeyRecv.chain = InitialChainKey(Peer(p)).chain
        /\ t.rootKey = Append(s.rootKey, {newDH, s.dhRecv})
    BY <1>2 DEF Shaped, SealsAfterTurn
  <2>2. Len(t.rootKey) = 1 /\ t.rootKey # <<>>
    BY <2>1
  <2>3. Len(t.chainKeyRecv.chain.root) = 0
    BY <2>1 DEF InitialChainKey, SameReceivingSide
  <2>4. t.chainKeySend.chain.root = t.rootKey
    BY <1>2 DEF SealsAfterTurn, FirstChainKey
  <2>5. /\ ~t.initialChain /\ ~t.pendingSendRatchet
        /\ t.chainKeySend.chain = FirstChainKey(t.rootKey).chain
    BY <1>2 DEF SealsAfterTurn
  <2>6. Len(t.chainKeyRecv.chain.root) < Len(t.rootKey)
    BY <2>2, <2>3
  <2> QED
    BY <2>2, <2>4, <2>5, <2>6 DEF Shaped
<1> QED
  BY <1>1, <1>2

(* A decryption keeps the shape of a session.                              *)
LEMMA OpensShaped ==
    ASSUME NEW p \in Party, NEW s \in RatchetSession, NEW t \in RatchetSession,
           NEW newDH \in Key, NEW m, Header(m),
           Shaped(p, s), Counted(t),
           \/ OpensCached(s, t, m)
           \/ OpensOnChain(s, t, m)
           \/ OpensAfterTurn(s, t, m, newDH)
    PROVE  Shaped(p, t)
<1>1. CASE OpensCached(s, t, m)
  BY <1>1 DEF Shaped, OpensCached, SameSendingSide
<1>2. CASE OpensOnChain(s, t, m)
  BY <1>2 DEF Shaped, OpensOnChain, SameSendingSide
<1>3. CASE OpensAfterTurn(s, t, m, newDH)
  <2>1. /\ s.rootKey \in Seq(SUBSET Key) /\ {s.dhSend, m.dh} \in SUBSET Key
        /\ {newDH, m.dh} \in SUBSET Key
    BY DEF RatchetSession, RootKey, Header
  <2> DEFINE r == Append(s.rootKey, {s.dhSend, m.dh})
  <2>2. r \in Seq(SUBSET Key) /\ Len(r) = Len(s.rootKey) + 1 /\ Len(s.rootKey) \in Nat
    BY <2>1
  <2>3. /\ t.rootKey = Append(r, {newDH, m.dh})
        /\ t.chainKeyRecv.chain.root = r
        /\ t.chainKeySend.chain.root = t.rootKey
    <3>1. \A root : FirstChainKey(root).chain.root = root
      BY DEF FirstChainKey
    <3> QED
      BY <1>3, <3>1 DEF OpensAfterTurn
  <2> HIDE DEF r
  <2>4. Len(t.rootKey) = Len(r) + 1 /\ t.rootKey # <<>>
    BY <2>1, <2>2, <2>3
  <2>5. Len(t.chainKeyRecv.chain.root) < Len(t.rootKey)
    BY <2>2, <2>3, <2>4
  <2> QED
    BY <1>3, <2>3, <2>4, <2>5 DEF Shaped, OpensAfterTurn
<1> QED
  BY <1>1, <1>2, <1>3

(* A step of Encrypt, seen from the state.                                 *)
LEMMA EncryptStep ==
    ASSUME Inv, ShapeInv, NEW p \in Party, Encrypt(p)
    PROVE  /\ session'[p] \in RatchetSession
           /\ Shaped(p, session'[p])
           /\ SameReceivingSide(session[p], session'[p])
           /\ \/ SealsOnChain(session[p], session'[p])
              \/ SealsAfterTurn(session[p], session'[p], NewKeyPair(p))
           /\ \A q \in Party : q # p => session'[q] = session[q]
           /\ received' = received
           /\ \E m \in Message :
                /\ sent' = sent \cup {m}
                /\ m.from = p
                /\ m.dh = session'[p].dhSend
                /\ m.pn = session'[p].prevSendN
                /\ m.n = session'[p].sendN - 1
                /\ m.key = KeyOn(session'[p].chainKeySend.chain, m.n)
                /\ \A q \in Party : q # p => ~Opened(q, m)
<1> DEFINE s == session[p]
           u == SendingSession(s, NewKeyPair(p))
           t == AfterEncrypt(u)
           m == [from |-> p, id |-> count[p] + 1, dh |-> Sealed(u).dh,
                 pn |-> Sealed(u).pn, n |-> Sealed(u).n, key |-> Sealed(u).key]
<1>1. /\ session' = [session EXCEPT ![p] = t]
      /\ sent' = sent \cup {m}
      /\ received' = received
      /\ count[p] < MaxMsgs
  BY DEF Encrypt
<1>2. s \in RatchetSession /\ NewKeyPair(p) \in Key /\ Counted(s) /\ Shaped(p, s)
  BY NewKeyPairType DEF Inv, TypeOK, ShapeInv, Shaped
<1>3. /\ t \in RatchetSession /\ Counted(t)
      /\ SameReceivingSide(s, t)
      /\ SealsOnChain(s, t) \/ SealsAfterTurn(s, t, NewKeyPair(p))
      /\ Sealed(u).dh = t.dhSend /\ Sealed(u).pn = t.prevSendN
      /\ Sealed(u).n = t.sendN - 1
      /\ Sealed(u).key = KeyOn(t.chainKeySend.chain, t.sendN - 1)
  <2> HIDE DEF s
  <2> QED
    BY <1>2, EncryptEffect
<1> HIDE DEF t, u
<1>4. session'[p] = t /\ \A q \in Party : q # p => session'[q] = session[q]
  BY <1>1 DEF Inv, TypeOK
<1>5. Shaped(p, t)
  BY <1>2, <1>3, SealsShaped
<1>6. /\ m.from = p /\ m.dh = t.dhSend /\ m.pn = t.prevSendN
      /\ m.n = t.sendN - 1 /\ m.key = KeyOn(t.chainKeySend.chain, m.n)
      /\ m.id = count[p] + 1
  BY <1>3
<1> HIDE DEF m
<1>7. count[p] + 1 \in MsgId /\ count[p] \in Nat
  BY <1>1, MaxMsgsAssumption DEF Inv, TypeOK, MsgId
<1>8. m \in Message
  BY EncryptInv, <1>1 DEF Inv, TypeOK
<1>9. \A q \in Party : q # p => ~Opened(q, m)
  BY <1>6, <1>7 DEF Inv, IdInv, Opened
<1> QED
  BY <1>1, <1>3, <1>4, <1>5, <1>6, <1>8, <1>9

(* A step of Decrypt, seen from the state.                                 *)
LEMMA DecryptStep ==
    ASSUME Inv, ShapeInv, HeaderInv, NEW p \in Party, NEW m \in sent, Decrypt(p, m)
    PROVE  /\ m \in Message /\ m.from \in Party /\ m.from # p
           /\ session'[p] \in RatchetSession
           /\ Shaped(p, session'[p])
           /\ \/ OpensCached(session[p], session'[p], m)
              \/ /\ ~IsCached(session[p], m)
                 /\ OpensOnChain(session[p], session'[p], m)
              \/ /\ ~IsCached(session[p], m)
                 /\ OpensAfterTurn(session[p], session'[p], m, NewKeyPair(p))
           /\ \A q \in Party : q # p => session'[q] = session[q]
           /\ sent' = sent
           /\ \A m1 \in ForParty(p) : Opened(p, m1)' <=> Opened(p, m1) \/ m1 = m
           /\ \A q \in Party, m1 \in sent : q # p =>
                (Opened(q, m1)' <=> Opened(q, m1))
<1> DEFINE s == session[p]
           t == AfterDecrypt(s, m, NewKeyPair(p))
<1>1. /\ session' = [session EXCEPT ![p] = t]
      /\ sent' = sent
      /\ received' = [received EXCEPT ![p][m.id] = @ + 1]
      /\ m.from # p
      /\ CanDecrypt(s, m, NewKeyPair(p))
  BY DEF Decrypt
<1>2. /\ s \in RatchetSession /\ NewKeyPair(p) \in Key /\ Counted(s) /\ Shaped(p, s)
      /\ m \in Message /\ m.n = m.key.n
  BY NewKeyPairType DEF Inv, TypeOK, ShapeInv, Shaped, HeaderInv
<1>3. m.from \in Party /\ Header(m) /\ m.id \in MsgId
  BY <1>2 DEF Message, Header
<1>4. /\ Counted(t)
      /\ \/ OpensCached(s, t, m)
         \/ ~IsCached(s, m) /\ OpensOnChain(s, t, m)
         \/ ~IsCached(s, m) /\ OpensAfterTurn(s, t, m, NewKeyPair(p))
  <2> HIDE DEF s
  <2> QED
    BY <1>1, <1>2, <1>3, DecryptEffect
<1> HIDE DEF t
<1>5. session'[p] = t /\ \A q \in Party : q # p => session'[q] = session[q]
  BY <1>1 DEF Inv, TypeOK
<1>6. t \in RatchetSession
  BY <1>5, DecryptInv DEF Inv, TypeOK
<1>7. Shaped(p, t)
  BY <1>2, <1>3, <1>4, <1>6, OpensShaped
<1>8. /\ \A i \in MsgId : i # m.id => received'[p][i] = received[p][i]
      /\ received'[p][m.id] = received[p][m.id] + 1
      /\ received[p][m.id] \in Nat
      /\ \A q \in Party : q # p => received'[q] = received[q]
  BY <1>1, <1>3 DEF Inv, TypeOK
<1>9. \A m1 \in ForParty(p) : m1.id \in MsgId /\ (m1.id = m.id => m1 = m)
  <2>1. \A m1 \in ForParty(p) : m1 \in sent /\ m1.from \in Party /\ m1.from # p /\ m1.id \in MsgId
    BY DEF ForParty, Inv, TypeOK, Message
  <2>2. \A m1 \in ForParty(p) : m1.from = m.from
    BY <1>1, <1>3, <2>1, PeerIsOther
  <2> QED
    BY <2>1, <2>2 DEF Inv, IdInv
<1>10. \A m1 \in ForParty(p) : Opened(p, m1)' <=> Opened(p, m1) \/ m1 = m
  BY <1>8, <1>9 DEF Opened
<1>11. \A q \in Party, m1 \in sent : q # p => (Opened(q, m1)' <=> Opened(q, m1))
  BY <1>8 DEF Opened
<1> QED
  BY <1>1, <1>2, <1>3, <1>4, <1>5, <1>6, <1>7, <1>10, <1>11

TurnsInv == ShapeInv /\ RootInv /\ HeaderInv /\ AnswerInv

(* The types the arguments about root keys and chains rest on.             *)
LEMMA RootTypes ==
    ASSUME Inv, NEW p \in Party
    PROVE  LET s == session[p] IN
           /\ s \in RatchetSession
           /\ s.rootKey \in Seq(SUBSET Key) /\ Len(s.rootKey) \in Nat
           /\ s.dhSend \in Key /\ s.dhRecv \in Key
           /\ s.sendN \in Nat /\ s.recvN \in Nat /\ s.prevSendN \in Nat
           /\ s.initialChain \in BOOLEAN /\ s.pendingSendRatchet \in BOOLEAN
           /\ s.chainKeySend \in ChainKey /\ s.chainKeyRecv \in ChainKey
           /\ Len(s.chainKeySend.chain.root) \in Nat
           /\ Len(s.chainKeyRecv.chain.root) \in Nat
           /\ Len(s.chainKeyRecv.chain.root) <= Len(s.rootKey)
           /\ \A e \in s.skippedKeys : /\ e.dh \in Key /\ e.n \in Nat
                                       /\ e.key \in MessageKey
                                       /\ Len(e.key.chain.root) \in Nat
<1>1. session[p] \in RatchetSession
  BY DEF Inv, TypeOK
<1>2. ReceivingInv(session[p], OpenedKeys(p))
  BY DEF Inv, RecvInv
<1>3. \A ck \in ChainKey : Len(ck.chain.root) \in Nat
  BY DEF ChainKey, Chain, RootKey
<1>4. \A e \in SkippedEntry : /\ e.dh \in Key /\ e.n \in Nat
                              /\ e.key \in MessageKey
                              /\ Len(e.key.chain.root) \in Nat
  BY DEF SkippedEntry, MessageKey, Chain, RootKey
<1> QED
  BY <1>1, <1>2, <1>3, <1>4 DEF RatchetSession, RootKey, ReceivingInv

(* The types of a message on the network.                                  *)
LEMMA SentTypes ==
    ASSUME Inv, NEW m \in sent
    PROVE  /\ m.from \in Party /\ m.dh \in Key /\ m.pn \in Nat /\ m.n \in Nat
           /\ m.key \in MessageKey /\ m.key.n \in Nat
           /\ Len(m.key.chain.root) \in Nat
  BY DEF Inv, TypeOK, Message, MessageKey, Chain, RootKey

(* How the lengths of the root keys tell the relations apart.              *)
LEMMA RelationLengths ==
    ASSUME Inv, NEW p \in Party, NEW q \in Party, p # q
    PROVE  /\ Level(p, q) =>
                Len(session[p].rootKey) = 0 /\ Len(session[q].rootKey) = 0
           /\ Ahead(p, q) => Len(session[p].rootKey) = Len(session[q].rootKey) + 1
           /\ Crossed(p, q) =>
                Len(session[p].rootKey) = 1 /\ Len(session[q].rootKey) = 1
<1>1. /\ session[q].rootKey \in Seq(SUBSET Key)
      /\ {session[p].dhSend, session[q].dhSend} \in SUBSET Key
  BY RootTypes
<1>2. Level(p, q) => Len(session[p].rootKey) = 0 /\ Len(session[q].rootKey) = 0
  BY DEF Level
<1>3. Ahead(p, q) => Len(session[p].rootKey) = Len(session[q].rootKey) + 1
  BY <1>1 DEF Ahead
<1>4. Crossed(p, q) => Len(session[p].rootKey) = 1 /\ Len(session[q].rootKey) = 1
  BY DEF Crossed, Answered
<1> QED
  BY <1>2, <1>3, <1>4

(* Nobody has seen the pair a participant generates next.                  *)
LEMMA NewPairUnseen ==
    ASSUME Inv, NEW p \in Party
    PROVE  /\ \A m \in sent : m.dh # NewKeyPair(p)
           /\ \A q \in Party : /\ session[q].dhSend # NewKeyPair(p)
                               /\ session[q].dhRecv # NewKeyPair(p)
<1>1. /\ NewKeyPair(p).owner = p /\ NewKeyPair(p).gen = keyGen[p] + 1
      /\ keyGen[p] \in Nat
  BY NewKeyPairType DEF Inv, TypeOK
<1>2. \A k : k.gen <= keyGen[k.owner] => k # NewKeyPair(p)
  BY <1>1
<1>3. \A q \in Party : session[q].dhSend.gen <= keyGen[session[q].dhSend.owner]
  <2> TAKE q \in Party
  <2>1. session[q].dhSend = KeyPair(q, keyGen[q]) /\ keyGen[q] \in Nat
    BY DEF Inv, SendInv, TypeOK
  <2> QED
    BY <2>1 DEF KeyPair
<1> QED
  BY <1>2, <1>3 DEF Inv, SendInv

(* How an encryption changes where the sessions stand.                     *)
LEMMA EncryptRelation ==
    ASSUME Inv, TurnsInv, NEW p \in Party, NEW q \in Party, p # q, Encrypt(p)
    PROVE  /\ SealsOnChain(session[p], session'[p]) =>
                /\ Level(p, q)' <=> Level(p, q)
                /\ Ahead(p, q)' <=> Ahead(p, q)
                /\ Ahead(q, p)' <=> Ahead(q, p)
                /\ Crossed(p, q)' <=> Crossed(p, q)
           /\ SealsAfterTurn(session[p], session'[p], NewKeyPair(p)) =>
                \/ Level(p, q) /\ Ahead(p, q)'
                \/ Ahead(q, p) /\ Crossed(p, q)'
<1>1. /\ session'[q] = session[q]
      /\ SameReceivingSide(session[p], session'[p])
  BY EncryptStep DEF TurnsInv
<1>2. ASSUME SealsOnChain(session[p], session'[p])
      PROVE  /\ Level(p, q)' <=> Level(p, q)
             /\ Ahead(p, q)' <=> Ahead(p, q)
             /\ Ahead(q, p)' <=> Ahead(q, p)
             /\ Crossed(p, q)' <=> Crossed(p, q)
  <2>1. /\ session'[p].rootKey = session[p].rootKey
        /\ session'[p].dhSend = session[p].dhSend
        /\ session'[p].dhRecv = session[p].dhRecv
        /\ session'[p].chainKeyRecv = session[p].chainKeyRecv
        /\ session'[p].chainKeySend.chain = session[p].chainKeySend.chain
    BY <1>1, <1>2 DEF SealsOnChain, SameReceivingSide
  <2> QED
    BY <1>1, <2>1 DEF Level, Ahead, Crossed, Answered
<1>3. ASSUME SealsAfterTurn(session[p], session'[p], NewKeyPair(p))
      PROVE  \/ Level(p, q) /\ Ahead(p, q)'
             \/ Ahead(q, p) /\ Crossed(p, q)'
  <2>0. q = Peer(p) /\ p = Peer(q)
    BY PeerIsOther
  <2>1. Shaped(p, session[p]) /\ Shaped(q, session[q])
    BY DEF TurnsInv, ShapeInv
  <2>2. /\ session[p].rootKey = <<>>
        /\ session[p].dhSend = IdentityKey(p) /\ session[p].dhRecv = IdentityKey(q)
        /\ session[p].chainKeySend.chain = InitialChainKey(p).chain
        /\ session[p].chainKeyRecv.chain = InitialChainKey(q).chain
    BY <1>3, <2>0, <2>1 DEF Shaped, SealsAfterTurn
  <2>3. keyGen[p] = 0
    <3>1. session[p].dhSend = KeyPair(p, keyGen[p])
      BY DEF Inv, SendInv
    <3> QED
      BY <2>2, <3>1 DEF IdentityKey, KeyPair
  <2>4. NewKeyPair(p) = KeyPair(p, 1)
    BY <2>3 DEF NewKeyPair
  <2>5. /\ session'[p].dhSend = KeyPair(p, 1)
        /\ session'[p].rootKey = <<{KeyPair(p, 1), IdentityKey(q)}>>
        /\ session'[p].rootKey = Append(<<>>, {KeyPair(p, 1), IdentityKey(q)})
        /\ session'[p].dhRecv = IdentityKey(q)
        /\ session'[p].chainKeyRecv.chain = InitialChainKey(q).chain
    BY <1>1, <1>3, <2>2, <2>4 DEF SealsAfterTurn, SameReceivingSide
  <2>6. Level(p, q) \/ Ahead(p, q) \/ Ahead(q, p) \/ Crossed(p, q)
    BY DEF TurnsInv, RootInv
  <2>7. Len(session[p].rootKey) = 0 /\ Len(session[q].rootKey) \in Nat
    BY <2>2, RootTypes
  <2>8. CASE Level(p, q)
    <3>1. /\ session[q].rootKey = <<>>
          /\ session[q].dhSend = IdentityKey(q) /\ session[q].dhRecv = IdentityKey(p)
          /\ session[q].chainKeySend.chain = InitialChainKey(q).chain
      BY <2>0, <2>1, <2>8 DEF Level, Shaped
    <3>2. session[q].dhRecv.gen < session'[p].dhSend.gen
      BY <2>5, <3>1 DEF IdentityKey, KeyPair
    <3>3. Ahead(p, q)'
      BY <1>1, <2>5, <3>1, <3>2 DEF Ahead
    <3> QED
      BY <2>8, <3>3
  <2>9. CASE Ahead(q, p)
    <3>1. /\ session[q].rootKey = Append(<<>>, {session[q].dhSend, IdentityKey(p)})
          /\ session[q].dhSend = KeyPair(q, 1)
          /\ session[q].dhRecv = IdentityKey(p)
          /\ session[q].chainKeyRecv.chain = InitialChainKey(p).chain
      BY <2>2, <2>9 DEF Ahead
    <3>2. Crossed(p, q)'
      BY <1>1, <2>5, <3>1 DEF Crossed, Answered
    <3> QED
      BY <2>9, <3>2
  <2>10. ~Ahead(p, q) /\ ~Crossed(p, q)
    <3>1. /\ Ahead(p, q) => Len(session[p].rootKey) = Len(session[q].rootKey) + 1
          /\ Crossed(p, q) => Len(session[p].rootKey) = 1
      BY RelationLengths
    <3> QED
      BY <2>7, <3>1
  <2> QED
    BY <2>6, <2>8, <2>9, <2>10
<1> QED
  BY <1>2, <1>3

(* How a decryption changes where the sessions stand: the ratchet is only  *)
(* turned by the side that is behind, to the chain the peer sends on.      *)
LEMMA DecryptRelation ==
    ASSUME Inv, TurnsInv, NEW p \in Party, NEW q \in Party, p # q,
           NEW m \in sent, Decrypt(p, m)
    PROVE  /\ (\/ OpensCached(session[p], session'[p], m)
               \/ OpensOnChain(session[p], session'[p], m)) =>
                /\ Level(p, q)' <=> Level(p, q)
                /\ Ahead(p, q)' <=> Ahead(p, q)
                /\ Ahead(q, p)' <=> Ahead(q, p)
                /\ Crossed(p, q)' <=> Crossed(p, q)
           /\ OpensAfterTurn(session[p], session'[p], m, NewKeyPair(p)) =>
                /\ Ahead(q, p) /\ Ahead(p, q)'
                /\ m.key.chain = session[q].chainKeySend.chain
                /\ m.dh = session[q].dhSend
                /\ m.pn = session[q].prevSendN
<1>1. /\ session'[q] = session[q]
      /\ m.from = q
  BY DecryptStep, PeerIsOther DEF TurnsInv
<1>2. ASSUME \/ OpensCached(session[p], session'[p], m)
             \/ OpensOnChain(session[p], session'[p], m)
      PROVE  /\ Level(p, q)' <=> Level(p, q)
             /\ Ahead(p, q)' <=> Ahead(p, q)
             /\ Ahead(q, p)' <=> Ahead(q, p)
             /\ Crossed(p, q)' <=> Crossed(p, q)
  <2>1. /\ session'[p].rootKey = session[p].rootKey
        /\ session'[p].dhSend = session[p].dhSend
        /\ session'[p].dhRecv = session[p].dhRecv
        /\ session'[p].chainKeyRecv.chain = session[p].chainKeyRecv.chain
        /\ session'[p].chainKeySend.chain = session[p].chainKeySend.chain
    BY <1>2 DEF OpensCached, OpensOnChain, SameSendingSide
  <2> QED
    BY <1>1, <2>1 DEF Level, Ahead, Crossed, Answered
<1>3. ASSUME OpensAfterTurn(session[p], session'[p], m, NewKeyPair(p))
      PROVE  /\ Ahead(q, p) /\ Ahead(p, q)'
             /\ m.key.chain = session[q].chainKeySend.chain
             /\ m.dh = session[q].dhSend
             /\ m.pn = session[q].prevSendN
  <2> DEFINE r == Append(session[p].rootKey, {session[p].dhSend, m.dh})
  <2>1. /\ m.key.chain = FirstChainKey(r).chain
        /\ session'[p].rootKey = Append(r, {NewKeyPair(p), m.dh})
        /\ session'[p].dhSend = NewKeyPair(p)
        /\ session'[p].dhRecv = m.dh
        /\ session'[p].chainKeyRecv.chain = m.key.chain
    BY <1>3 DEF OpensAfterTurn
  <2>2. m.key.chain.root = r
    BY <2>1 DEF FirstChainKey
  <2>3. Len(r) = Len(session[p].rootKey) + 1 /\ Len(session[p].rootKey) \in Nat
    BY RootTypes, SentTypes
  <2> HIDE DEF r
  <2>4. Len(r) <= Len(session[q].rootKey)
    BY <1>1, <2>2 DEF TurnsInv, HeaderInv
  <2>5. Level(p, q) \/ Ahead(p, q) \/ Ahead(q, p) \/ Crossed(p, q)
    BY DEF TurnsInv, RootInv
  <2>6. /\ Ahead(q, p)
        /\ Len(session[q].rootKey) = Len(session[p].rootKey) + 1
    <3>1. Len(session[q].rootKey) \in Nat
      BY RootTypes
    <3> QED
      BY <2>3, <2>4, <2>5, <3>1, RelationLengths
  <2>7. m.key.chain = session[q].chainKeySend.chain
    BY <1>1, <2>2, <2>3, <2>6 DEF TurnsInv, HeaderInv
  <2>8. m.dh = session[q].dhSend /\ m.pn = session[q].prevSendN
    BY <1>1, <2>7 DEF TurnsInv, HeaderInv
  <2>9. Ahead(p, q)'
    <3>1. session[q].chainKeySend.chain.root = session[q].rootKey
      BY DEF TurnsInv, ShapeInv, Shaped
    <3>2. session'[p].rootKey
            = Append(session'[q].rootKey, {session'[p].dhSend, session'[q].dhSend})
      BY <1>1, <2>1, <2>2, <2>7, <2>8, <3>1
    <3>3. session'[q].dhRecv.gen < session'[p].dhSend.gen
      <4>1. session[q].dhRecv = session[p].dhSend
        BY <2>6 DEF Ahead
      <4>2. session[p].dhSend = KeyPair(p, keyGen[p])
            /\ NewKeyPair(p) = KeyPair(p, keyGen[p] + 1) /\ keyGen[p] \in Nat
        BY DEF Inv, SendInv, NewKeyPair, TypeOK
      <4>3. session[p].dhSend.gen = keyGen[p] /\ NewKeyPair(p).gen = keyGen[p] + 1
        BY <4>2 DEF KeyPair
      <4> QED
        BY <1>1, <2>1, <4>1, <4>2, <4>3
    <3>4. session[q].rootKey # <<>>
      BY <2>3, <2>6
    <3> QED
      BY <1>1, <2>1, <2>7, <2>8, <3>2, <3>3, <3>4 DEF Ahead
  <2> QED
    BY <2>6, <2>7, <2>8, <2>9
<1> QED
  BY <1>2, <1>3

(* Two fresh sessions are level, and nothing was sent or cached.           *)
LEMMA TurnsInit == Init => TurnsInv
<1> SUFFICES ASSUME Init PROVE TurnsInv
  OBVIOUS
<1>1. /\ sent = {}
      /\ \A p \in Party : session[p] = CreateBidirectionalSession(p)
  BY DEF Init
<1>2. ASSUME NEW p \in Party
      PROVE  Shaped(p, session[p]) /\ session[p].rootKey = <<>>
             /\ session[p].skippedKeys = {}
  <2> DEFINE c == CreateBidirectionalSession(p)
  <2>0. session[p] = c
    BY <1>1
  <2>1. /\ c.dhSend = IdentityKey(p) /\ c.dhRecv = IdentityKey(Peer(p))
        /\ c.rootKey = <<>> /\ c.skippedKeys = {}
        /\ c.chainKeySend = InitialChainKey(p)
        /\ c.chainKeyRecv = InitialChainKey(Peer(p))
        /\ c.sendN = 0 /\ c.recvN = 0
    BY DEF CreateBidirectionalSession
  <2>5. c.initialChain = TRUE /\ c.pendingSendRatchet = FALSE
    BY DEF CreateBidirectionalSession
  <2> HIDE DEF c
  <2>2. /\ InitialChainKey(p).pos = 0 /\ InitialChainKey(Peer(p)).pos = 0
        /\ InitialChainKey(p).chain.root = <<>>
    BY DEF InitialChainKey
  <2>3. Counted(c)
    BY <2>1, <2>2 DEF Counted
  <2>4. Shaped(p, c)
    BY <2>1, <2>2, <2>3, <2>5 DEF Shaped
  <2> QED
    BY <2>0, <2>1, <2>4
<1> QED
  BY <1>1, <1>2 DEF TurnsInv, ShapeInv, RootInv, Level, HeaderInv, AnswerInv, ForParty

\* What HeaderInv says of a message of a participant whose session is s.
Fits(m, s) ==
    /\ m.n = m.key.n
    /\ Len(m.key.chain.root) <= Len(s.rootKey)
    /\ Len(m.key.chain.root) = Len(s.rootKey) =>
         m.key.chain = s.chainKeySend.chain
    /\ m.dh = s.dhSend <=> m.key.chain = s.chainKeySend.chain
    /\ m.key.chain = s.chainKeySend.chain => m.pn = s.prevSendN

(* Sent messages keep fitting their sender's session, whether its sending  *)
(* side stays on the chain or moves on under a new pair.                   *)
LEMMA FitsKept ==
    ASSUME Inv, HeaderInv, NEW p \in Party, NEW m \in sent, m.from = p,
           NEW t \in RatchetSession,
           \/ /\ t.dhSend = session[p].dhSend
              /\ t.rootKey = session[p].rootKey
              /\ t.chainKeySend.chain = session[p].chainKeySend.chain
              /\ t.prevSendN = session[p].prevSendN
           \/ /\ t.dhSend = NewKeyPair(p)
              /\ Len(t.rootKey) > Len(session[p].rootKey)
              /\ t.chainKeySend.chain.root = t.rootKey
    PROVE  Fits(m, t)
<1>1. Fits(m, session[p])
  BY DEF HeaderInv, Fits
<1>2. CASE /\ t.dhSend = session[p].dhSend
           /\ t.rootKey = session[p].rootKey
           /\ t.chainKeySend.chain = session[p].chainKeySend.chain
           /\ t.prevSendN = session[p].prevSendN
  BY <1>1, <1>2 DEF Fits
<1>3. CASE /\ t.dhSend = NewKeyPair(p)
           /\ Len(t.rootKey) > Len(session[p].rootKey)
           /\ t.chainKeySend.chain.root = t.rootKey
  <2>1. m.dh # t.dhSend
    BY <1>3, NewPairUnseen
  <2>2. Len(m.key.chain.root) < Len(t.rootKey)
    <3>1. /\ Len(m.key.chain.root) \in Nat /\ Len(session[p].rootKey) \in Nat
          /\ Len(t.rootKey) \in Nat
      BY SentTypes, RootTypes DEF RatchetSession, RootKey
    <3> QED
      BY <1>1, <1>3, <3>1 DEF Fits
  <2>3. /\ m.key.chain # t.chainKeySend.chain
        /\ Len(m.key.chain.root) # Len(t.rootKey)
        /\ Len(m.key.chain.root) <= Len(t.rootKey)
    <3>1. Len(m.key.chain.root) \in Nat /\ Len(t.rootKey) \in Nat
      BY SentTypes DEF RatchetSession, RootKey
    <3> QED
      BY <1>3, <2>2, <3>1
  <2> QED
    BY <1>1, <2>1, <2>3 DEF Fits
<1> QED
  BY <1>2, <1>3

(* Sealing a message keeps the relation of the sessions.                   *)
LEMMA EncryptTurns ==
    ASSUME Inv, TurnsInv, NEW p \in Party, Encrypt(p)
    PROVE  TurnsInv'
<1>1. /\ session'[p] \in RatchetSession
      /\ Shaped(p, session'[p])
      /\ SameReceivingSide(session[p], session'[p])
      /\ \/ SealsOnChain(session[p], session'[p])
         \/ SealsAfterTurn(session[p], session'[p], NewKeyPair(p))
      /\ \A q \in Party : q # p => session'[q] = session[q]
      /\ received' = received
  BY EncryptStep DEF TurnsInv
<1>2. PICK m \in Message :
            /\ sent' = sent \cup {m}
            /\ m.from = p
            /\ m.dh = session'[p].dhSend
            /\ m.pn = session'[p].prevSendN
            /\ m.n = session'[p].sendN - 1
            /\ m.key = KeyOn(session'[p].chainKeySend.chain, m.n)
            /\ \A q \in Party : q # p => ~Opened(q, m)
  BY EncryptStep DEF TurnsInv
<1>3. ShapeInv'
  <2>1. \A q \in Party : Shaped(q, session'[q])
    BY <1>1 DEF TurnsInv, ShapeInv
  <2> QED
    BY <2>1 DEF ShapeInv
<1>4. RootInv'
  <2>1. ASSUME NEW q \in Party, q # p
        PROVE  Level(p, q)' \/ Ahead(p, q)' \/ Ahead(q, p)' \/ Crossed(p, q)'
    <3>1. Level(p, q) \/ Ahead(p, q) \/ Ahead(q, p) \/ Crossed(p, q)
      BY <2>1 DEF TurnsInv, RootInv
    <3> QED
      BY <1>1, <2>1, <3>1, EncryptRelation
  <2>2. \A q1, q2 \in Party : /\ Level(q1, q2)' <=> Level(q2, q1)'
                              /\ Crossed(q1, q2)' <=> Crossed(q2, q1)'
    BY DEF Level, Crossed
  <2>3. \A q1, q2 \in Party : q1 # q2 => q1 = p \/ q2 = p
    BY PeerIsOther
  <2>4. ASSUME NEW q1 \in Party, NEW q2 \in Party, q1 # q2
        PROVE  Level(q1, q2)' \/ Ahead(q1, q2)' \/ Ahead(q2, q1)' \/ Crossed(q1, q2)'
    BY <2>1, <2>2, <2>3, <2>4
  <2> QED
    BY <2>4 DEF RootInv
<1>5. HeaderInv'
  <2>1. ASSUME NEW m1 \in sent PROVE Fits(m1, session'[m1.from])
    <3>1. CASE m1.from # p
      <4>1. m1.from \in Party
        BY SentTypes
      <4> QED
        BY <1>1, <3>1, <4>1 DEF TurnsInv, HeaderInv, Fits
    <3>2. CASE m1.from = p
      <4>1. CASE SealsOnChain(session[p], session'[p])
        <5>1. /\ session'[p].dhSend = session[p].dhSend
              /\ session'[p].rootKey = session[p].rootKey
              /\ session'[p].chainKeySend.chain = session[p].chainKeySend.chain
              /\ session'[p].prevSendN = session[p].prevSendN
          BY <4>1 DEF SealsOnChain
        <5> QED
          BY <1>1, <3>2, <5>1, FitsKept DEF TurnsInv
      <4>2. CASE SealsAfterTurn(session[p], session'[p], NewKeyPair(p))
        <5>1. session'[p].rootKey = Append(session[p].rootKey, {NewKeyPair(p), session[p].dhRecv})
              /\ session'[p].dhSend = NewKeyPair(p)
          BY <4>2 DEF SealsAfterTurn
        <5>2. /\ session[p].rootKey \in Seq(SUBSET Key)
              /\ {NewKeyPair(p), session[p].dhRecv} \in SUBSET Key
          BY RootTypes, NewKeyPairType DEF Inv
        <5>3. Len(session'[p].rootKey) > Len(session[p].rootKey)
          BY <5>1, <5>2
        <5>4. session'[p].chainKeySend.chain.root = session'[p].rootKey
          BY <1>1 DEF Shaped
        <5> QED
          BY <1>1, <3>2, <5>1, <5>3, <5>4, FitsKept DEF TurnsInv
      <4> QED
        BY <1>1, <4>1, <4>2
    <3> QED
      BY <3>1, <3>2
  <2>2. Fits(m, session'[m.from])
    <3>1. m.key.chain = session'[p].chainKeySend.chain /\ m.key.n = m.n
      BY <1>2 DEF KeyOn
    <3>2. session'[p].chainKeySend.chain.root = session'[p].rootKey
      BY <1>1 DEF Shaped
    <3>3. Len(session'[p].rootKey) \in Nat
      BY <1>1 DEF RatchetSession, RootKey
    <3> QED
      BY <1>2, <3>1, <3>2, <3>3 DEF Fits
  <2>3. \A m1 \in sent' : Fits(m1, session'[m1.from])
    BY <1>2, <2>1, <2>2
  <2>4. ASSUME NEW m1 \in sent', NEW m2 \in sent', m1.from = m2.from
        PROVE  m1.dh = m2.dh <=> m1.key.chain = m2.key.chain
    <3>1. m.dh = session'[p].dhSend /\ m.key.chain = session'[p].chainKeySend.chain
      BY <1>2 DEF KeyOn
    <3>2. CASE m1 = m \/ m2 = m
      <4>1. Fits(m1, session'[p]) /\ Fits(m2, session'[p])
        BY <1>2, <2>3, <2>4, <3>2
      <4> QED
        BY <3>1, <3>2, <4>1 DEF Fits
    <3>3. CASE m1 \in sent /\ m2 \in sent
      BY <2>4, <3>3 DEF TurnsInv, HeaderInv
    <3> QED
      BY <1>2, <3>2, <3>3
  <2> QED
    BY <2>3, <2>4 DEF HeaderInv, Fits
<1>6. AnswerInv'
  <2>1. ASSUME NEW q \in Party
        PROVE  /\ session'[q].chainKeyRecv = session[q].chainKeyRecv
               /\ session'[q].skippedKeys = session[q].skippedKeys
               /\ session'[q].initialChain =>
                    /\ session[q].initialChain
                    /\ session[q].pendingSendRatchet => session'[q].pendingSendRatchet
    <3>1. CASE q # p
      BY <1>1, <3>1
    <3>2. CASE q = p
      BY <1>1, <3>2 DEF SealsOnChain, SealsAfterTurn, SameReceivingSide
    <3> QED
      BY <3>1, <3>2
  <2>2. \A q \in Party : \A m1 \in ForParty(q)' :
            Opened(q, m1)' => m1 \in ForParty(q) /\ Opened(q, m1)
    BY <1>1, <1>2 DEF ForParty, Opened
  <2>3. ASSUME NEW q \in Party
        PROVE  /\ \A m1 \in ForParty(q)' : Opened(q, m1)' =>
                    /\ Len(m1.key.chain.root) <= Len(session'[q].chainKeyRecv.chain.root)
                    /\ session'[q].initialChain => session'[q].pendingSendRatchet
               /\ \A e \in session'[q].skippedKeys :
                    /\ Len(e.key.chain.root) <= Len(session'[q].chainKeyRecv.chain.root)
                    /\ session'[q].initialChain => session'[q].pendingSendRatchet
    BY <2>1, <2>2 DEF TurnsInv, AnswerInv
  <2> QED
    BY <2>3 DEF AnswerInv
<1> QED
  BY <1>3, <1>4, <1>5, <1>6 DEF TurnsInv

(* Turning the ratchet on a header makes the root key two longer, and the  *)
(* receiving chain hangs off the root key in between.                      *)
LEMMA TurnedRoots ==
    ASSUME Inv, NEW p \in Party, NEW t \in RatchetSession, NEW m \in sent,
           Shaped(p, t),
           OpensAfterTurn(session[p], t, m, NewKeyPair(p))
    PROVE  /\ t.dhSend = NewKeyPair(p)
           /\ Len(t.rootKey) = Len(session[p].rootKey) + 2
           /\ t.chainKeySend.chain.root = t.rootKey
           /\ Len(m.key.chain.root) = Len(session[p].rootKey) + 1
           /\ t.chainKeyRecv.chain = m.key.chain
           /\ ~t.initialChain
<1> DEFINE r == Append(session[p].rootKey, {session[p].dhSend, m.dh})
<1>1. /\ m.key.chain = FirstChainKey(r).chain
      /\ t.rootKey = Append(r, {NewKeyPair(p), m.dh})
      /\ t.dhSend = NewKeyPair(p)
      /\ t.chainKeyRecv.chain = m.key.chain
      /\ ~t.initialChain
  BY DEF OpensAfterTurn
<1>2. m.key.chain.root = r
  BY <1>1 DEF FirstChainKey
<1>3. /\ session[p].rootKey \in Seq(SUBSET Key)
      /\ {session[p].dhSend, m.dh} \in SUBSET Key
      /\ {NewKeyPair(p), m.dh} \in SUBSET Key
  BY RootTypes, SentTypes, NewKeyPairType DEF Inv
<1>4. r \in Seq(SUBSET Key) /\ Len(r) = Len(session[p].rootKey) + 1
      /\ Len(session[p].rootKey) \in Nat
  BY <1>3
<1> HIDE DEF r
<1>5. Len(t.rootKey) = Len(session[p].rootKey) + 2
  BY <1>1, <1>3, <1>4
<1>6. t.chainKeySend.chain.root = t.rootKey
  BY DEF Shaped
<1> QED
  BY <1>1, <1>2, <1>4, <1>5, <1>6

(* The entries two skips add are the keys of the two chains they walk.     *)
LEMMA TurnCaches ==
    ASSUME NEW s, NEW t, NEW m, NEW newDH, OpensAfterTurn(s, t, m, newDH)
    PROVE  \A e \in t.skippedKeys :
             \/ e \in s.skippedKeys
             \/ /\ e.dh = s.dhRecv /\ e.key = KeyOn(s.chainKeyRecv.chain, e.n)
                /\ s.recvN <= e.n /\ e.n < m.pn
             \/ /\ e.dh = m.dh /\ e.key = KeyOn(m.key.chain, e.n)
                /\ 0 <= e.n /\ e.n < m.n
  BY DEF OpensAfterTurn, Caches

(* Opening a message keeps the relation of the sessions.                   *)
LEMMA DecryptTurns ==
    ASSUME Inv, TurnsInv, NEW p \in Party, NEW m \in sent, Decrypt(p, m)
    PROVE  TurnsInv'
<1>1. /\ m \in Message /\ m.from \in Party /\ m.from # p
      /\ session'[p] \in RatchetSession
      /\ Shaped(p, session'[p])
      /\ \/ OpensCached(session[p], session'[p], m)
         \/ OpensOnChain(session[p], session'[p], m)
         \/ OpensAfterTurn(session[p], session'[p], m, NewKeyPair(p))
      /\ \A q \in Party : q # p => session'[q] = session[q]
      /\ sent' = sent
      /\ \A m1 \in ForParty(p) : Opened(p, m1)' <=> Opened(p, m1) \/ m1 = m
      /\ \A q \in Party, m1 \in sent : q # p =>
           (Opened(q, m1)' <=> Opened(q, m1))
  BY DecryptStep DEF TurnsInv
<1>3. ShapeInv'
  <2>1. \A q \in Party : Shaped(q, session'[q])
    BY <1>1 DEF TurnsInv, ShapeInv
  <2> QED
    BY <2>1 DEF ShapeInv
<1>4. RootInv'
  <2>1. ASSUME NEW q \in Party, q # p
        PROVE  Level(p, q)' \/ Ahead(p, q)' \/ Ahead(q, p)' \/ Crossed(p, q)'
    <3>1. Level(p, q) \/ Ahead(p, q) \/ Ahead(q, p) \/ Crossed(p, q)
      BY <2>1 DEF TurnsInv, RootInv
    <3> QED
      BY <1>1, <2>1, <3>1, DecryptRelation
  <2>2. \A q1, q2 \in Party : /\ Level(q1, q2)' <=> Level(q2, q1)'
                              /\ Crossed(q1, q2)' <=> Crossed(q2, q1)'
    BY DEF Level, Crossed
  <2>3. \A q1, q2 \in Party : q1 # q2 => q1 = p \/ q2 = p
    BY PeerIsOther
  <2>4. ASSUME NEW q1 \in Party, NEW q2 \in Party, q1 # q2
        PROVE  Level(q1, q2)' \/ Ahead(q1, q2)' \/ Ahead(q2, q1)' \/ Crossed(q1, q2)'
    BY <2>1, <2>2, <2>3, <2>4
  <2> QED
    BY <2>4 DEF RootInv
<1>5. HeaderInv'
  <2>1. ASSUME NEW m1 \in sent PROVE Fits(m1, session'[m1.from])
    <3>1. CASE m1.from # p
      <4>1. m1.from \in Party
        BY SentTypes
      <4> QED
        BY <1>1, <3>1, <4>1 DEF TurnsInv, HeaderInv, Fits
    <3>2. CASE m1.from = p
      <4>1. CASE \/ OpensCached(session[p], session'[p], m)
                 \/ OpensOnChain(session[p], session'[p], m)
        <5>1. /\ session'[p].dhSend = session[p].dhSend
              /\ session'[p].rootKey = session[p].rootKey
              /\ session'[p].chainKeySend.chain = session[p].chainKeySend.chain
              /\ session'[p].prevSendN = session[p].prevSendN
          BY <4>1 DEF OpensCached, OpensOnChain, SameSendingSide
        <5> QED
          BY <1>1, <3>2, <5>1, FitsKept DEF TurnsInv
      <4>2. CASE OpensAfterTurn(session[p], session'[p], m, NewKeyPair(p))
        <5>1. /\ session'[p].dhSend = NewKeyPair(p)
              /\ Len(session'[p].rootKey) = Len(session[p].rootKey) + 2
              /\ session'[p].chainKeySend.chain.root = session'[p].rootKey
          BY <1>1, <4>2, TurnedRoots
        <5>2. Len(session'[p].rootKey) > Len(session[p].rootKey)
          BY <5>1, RootTypes
        <5> QED
          BY <1>1, <3>2, <5>1, <5>2, FitsKept DEF TurnsInv
      <4> QED
        BY <1>1, <4>1, <4>2
    <3> QED
      BY <3>1, <3>2
  <2> QED
    BY <1>1, <2>1 DEF HeaderInv, Fits, TurnsInv
<1>6. AnswerInv'
  <2> DEFINE len == Len(session[p].chainKeyRecv.chain.root)
             len1 == Len(session'[p].chainKeyRecv.chain.root)
             due == session'[p].initialChain => session'[p].pendingSendRatchet
  <2>1. /\ \A m1 \in ForParty(p) : Opened(p, m1) =>
             Len(m1.key.chain.root) <= len1 /\ due
        /\ \A e \in session'[p].skippedKeys :
             Len(e.key.chain.root) <= len1 /\ due
        /\ Len(m.key.chain.root) <= len1 /\ due
    <3>1. \A m1 \in ForParty(p) : Opened(p, m1) =>
             /\ Len(m1.key.chain.root) <= len
             /\ session[p].initialChain => session[p].pendingSendRatchet
      BY DEF TurnsInv, AnswerInv
    <3>2. \A e \in session[p].skippedKeys :
             /\ Len(e.key.chain.root) <= len
             /\ session[p].initialChain => session[p].pendingSendRatchet
      BY DEF TurnsInv, AnswerInv
    <3>3. CASE OpensCached(session[p], session'[p], m)
      <4>1. /\ session'[p].chainKeyRecv = session[p].chainKeyRecv
            /\ session'[p].initialChain = session[p].initialChain
            /\ session'[p].pendingSendRatchet = session[p].pendingSendRatchet
            /\ \A e \in session'[p].skippedKeys : e \in session[p].skippedKeys
            /\ \E e \in session[p].skippedKeys : e.key = m.key
        BY <3>3 DEF OpensCached, SameSendingSide
      <4> QED
        BY <3>1, <3>2, <4>1
    <3>4. CASE OpensOnChain(session[p], session'[p], m)
      <4>1. /\ session'[p].chainKeyRecv.chain = session[p].chainKeyRecv.chain
            /\ session'[p].initialChain = session[p].initialChain
            /\ session[p].initialChain => session'[p].pendingSendRatchet
            /\ m.key.chain = session[p].chainKeyRecv.chain
            /\ \A e \in session'[p].skippedKeys :
                 \/ e \in session[p].skippedKeys
                 \/ e.key = KeyOn(session[p].chainKeyRecv.chain, e.n)
        BY <3>4 DEF OpensOnChain, SameSendingSide, Caches
      <4>2. len \in Nat /\ len1 = len
        BY <4>1, RootTypes
      <4>3. \A n : KeyOn(session[p].chainKeyRecv.chain, n).chain
                     = session[p].chainKeyRecv.chain
        BY DEF KeyOn
      <4> QED
        BY <3>1, <3>2, <4>1, <4>2, <4>3
    <3>5. CASE OpensAfterTurn(session[p], session'[p], m, NewKeyPair(p))
      <4>1. /\ Len(m.key.chain.root) = Len(session[p].rootKey) + 1
            /\ session'[p].chainKeyRecv.chain = m.key.chain
            /\ due
        BY <1>1, <3>5, TurnedRoots
      <4>2. len \in Nat /\ len <= Len(session[p].rootKey)
            /\ Len(session[p].rootKey) \in Nat
        BY RootTypes
      <4>3. \A e \in session'[p].skippedKeys :
              \/ e \in session[p].skippedKeys
              \/ e.key.chain = session[p].chainKeyRecv.chain
              \/ e.key.chain = m.key.chain
        <5>1. \A e \in session'[p].skippedKeys :
                \/ e \in session[p].skippedKeys
                \/ e.key = KeyOn(session[p].chainKeyRecv.chain, e.n)
                \/ e.key = KeyOn(m.key.chain, e.n)
          BY <3>5, TurnCaches
        <5>2. \A chain, n : KeyOn(chain, n).chain = chain
          BY DEF KeyOn
        <5> QED
          BY <5>1, <5>2
      <4>4. /\ \A m1 \in sent : Len(m1.key.chain.root) \in Nat
            /\ \A m1 \in ForParty(p) : m1 \in sent
            /\ \A e \in session[p].skippedKeys : Len(e.key.chain.root) \in Nat
        BY SentTypes, RootTypes DEF ForParty
      <4>5. len1 = Len(session[p].rootKey) + 1
        BY <4>1
      <4> HIDE DEF len, len1, due
      <4>6. \A m1 \in ForParty(p) : Opened(p, m1) => Len(m1.key.chain.root) <= len1
        BY <3>1, <4>2, <4>4, <4>5
      <4>7. \A e \in session[p].skippedKeys : Len(e.key.chain.root) <= len1
        BY <3>2, <4>2, <4>4, <4>5
      <4>8. \A e \in session'[p].skippedKeys : Len(e.key.chain.root) <= len1
        <5>1. Len(session[p].chainKeyRecv.chain.root) <= len1
              /\ Len(m.key.chain.root) <= len1
          BY <4>1, <4>2, <4>5 DEF len
        <5> QED
          BY <4>3, <4>7, <5>1
      <4> QED
        BY <4>1, <4>2, <4>5, <4>6, <4>8
    <3> QED
      BY <1>1, <3>3, <3>4, <3>5
  <2>2. ASSUME NEW q \in Party
        PROVE  /\ \A m1 \in ForParty(q)' : Opened(q, m1)' =>
                    /\ Len(m1.key.chain.root) <= Len(session'[q].chainKeyRecv.chain.root)
                    /\ session'[q].initialChain => session'[q].pendingSendRatchet
               /\ \A e \in session'[q].skippedKeys :
                    /\ Len(e.key.chain.root) <= Len(session'[q].chainKeyRecv.chain.root)
                    /\ session'[q].initialChain => session'[q].pendingSendRatchet
    <3>1. ForParty(q)' = ForParty(q) /\ \A m1 \in ForParty(q) : m1 \in sent
      BY <1>1 DEF ForParty
    <3>2. CASE q # p
      BY <1>1, <3>1, <3>2 DEF TurnsInv, AnswerInv
    <3>3. CASE q = p
      BY <1>1, <2>1, <3>1, <3>3
    <3> QED
      BY <3>2, <3>3
  <2> QED
    BY <2>2 DEF AnswerInv
<1> QED
  BY <1>3, <1>4, <1>5, <1>6 DEF TurnsInv

(* A step that changes nothing keeps the relation of the sessions.         *)
LEMMA StutterTurns == TurnsInv /\ UNCHANGED vars => TurnsInv'
<1> SUFFICES ASSUME TurnsInv, UNCHANGED vars PROVE TurnsInv'
  OBVIOUS
<1>1. session' = session /\ sent' = sent /\ received' = received
  BY DEF vars
<1>2. ShapeInv'
  BY <1>1 DEF TurnsInv, ShapeInv
<1>3. RootInv'
  <2>1. \A p, q \in Party : /\ Level(p, q)' <=> Level(p, q)
                            /\ Ahead(p, q)' <=> Ahead(p, q)
                            /\ Crossed(p, q)' <=> Crossed(p, q)
    BY <1>1 DEF Level, Ahead, Crossed, Answered
  <2> QED
    BY <2>1 DEF TurnsInv, RootInv
<1>4. HeaderInv'
  BY <1>1 DEF TurnsInv, HeaderInv
<1>5. AnswerInv'
  BY <1>1 DEF TurnsInv, AnswerInv, ForParty, Opened
<1> QED
  BY <1>2, <1>3, <1>4, <1>5 DEF TurnsInv

(* The sessions stand in one of the four relations in every state.         *)
THEOREM TurnsInvHolds == Spec => []TurnsInv
<1>1. Inv /\ TurnsInv /\ [Next]_vars => TurnsInv'
  BY EncryptTurns, DecryptTurns, StutterTurns DEF Next
<1> QED
  BY InvHolds, TurnsInit, <1>1, PTL DEF Spec

(* Break-in recovery: what a participant sends after it opened a message   *)
(* is sealed under a root key with more DH outputs in it than that of the  *)
(* message, because a turn of the ratchet happened since or is due.        *)
THEOREM RepliesTurnRatchetHolds == Spec => []RepliesTurnRatchet
<1>1. ASSUME Inv, TurnsInv PROVE RepliesTurnRatchet
  <2> SUFFICES ASSUME NEW p \in Party, NEW m \in ForParty(p), Opened(p, m)
               PROVE  Len(m.key.chain.root)
                        < Len(SendingSession(session[p], NewKeyPair(p)).rootKey)
    BY DEF RepliesTurnRatchet
  <2>1. /\ Len(m.key.chain.root) <= Len(session[p].chainKeyRecv.chain.root)
        /\ session[p].initialChain => session[p].pendingSendRatchet
    BY <1>1 DEF TurnsInv, AnswerInv
  <2>2. Shaped(p, session[p])
    BY <1>1 DEF TurnsInv, ShapeInv
  <2>3. /\ Len(m.key.chain.root) \in Nat
        /\ Len(session[p].chainKeyRecv.chain.root) \in Nat
        /\ Len(session[p].chainKeyRecv.chain.root) <= Len(session[p].rootKey)
        /\ Len(session[p].rootKey) \in Nat
    BY <1>1, RootTypes, SentTypes DEF ForParty
  <2>4. \A i, j, k \in Nat : i <= j /\ j <= k => i < k + 1
    OBVIOUS
  <2>5. \A i, j, k \in Nat : i <= j /\ j < k => i < k
    OBVIOUS
  <2>6. CASE session[p].pendingSendRatchet
    <3>1. SendingSession(session[p], NewKeyPair(p))
            = SendRatchetStep(session[p], NewKeyPair(p))
      BY <2>6 DEF SendingSession
    <3>2. Len(SendRatchetStep(session[p], NewKeyPair(p)).rootKey)
            = Len(session[p].rootKey) + 1
      BY <1>1, RootTypes, NewKeyPairType, SendTurnShape DEF Inv
    <3>3. Len(m.key.chain.root) < Len(session[p].rootKey) + 1
      BY <2>1, <2>3, <2>4
    <3> QED
      BY <3>1, <3>2, <3>3
  <2>7. CASE ~session[p].pendingSendRatchet
    <3>1. SendingSession(session[p], NewKeyPair(p)) = session[p]
      BY <2>7 DEF SendingSession
    <3>2. Len(session[p].chainKeyRecv.chain.root) < Len(session[p].rootKey)
      BY <2>1, <2>2, <2>7 DEF Shaped
    <3>3. Len(m.key.chain.root) < Len(session[p].rootKey)
      BY <2>1, <2>3, <2>5, <3>2
    <3> QED
      BY <3>1, <3>3
  <2> QED
    BY <2>6, <2>7
<1> QED
  BY InvHolds, TurnsInvHolds, <1>1, PTL

(* A root key is a prefix of every root key with more DH outputs mixed in. *)
LEMMA AppendPrefix ==
    ASSUME NEW S, NEW r \in Seq(S), NEW x \in S
    PROVE  Prefix(r, Append(r, x)) /\ Prefix(r, r)
<1>1. Len(Append(r, x)) = Len(r) + 1 /\ Len(r) \in Nat
  OBVIOUS
<1>2. SubSeq(Append(r, x), 1, Len(r)) = r
  OBVIOUS
<1>3. SubSeq(r, 1, Len(r)) = r
  OBVIOUS
<1> QED
  BY <1>1, <1>2, <1>3 DEF Prefix

(* The root keys of two sessions part only when both answered the other's  *)
(* initial chain.                                                          *)
LEMMA DivergedIsCrossed ==
    ASSUME Inv, TurnsInv, NEW p \in Party, Diverged(p)
    PROVE  Crossed(p, Peer(p))
<1> DEFINE q == Peer(p)
<1>1. q \in Party /\ p # q
  BY PeerIsOther
<1> HIDE DEF q
<1>2. Level(p, q) \/ Ahead(p, q) \/ Ahead(q, p) \/ Crossed(p, q)
  BY <1>1 DEF TurnsInv, RootInv
<1>3. ~Prefix(session[p].rootKey, session[q].rootKey)
      /\ ~Prefix(session[q].rootKey, session[p].rootKey)
  BY DEF Diverged, q
<1>4. /\ session[p].rootKey \in Seq(SUBSET Key) /\ session[q].rootKey \in Seq(SUBSET Key)
      /\ {session[p].dhSend, session[q].dhSend} \in SUBSET Key
      /\ {session[q].dhSend, session[p].dhSend} \in SUBSET Key
  BY <1>1, RootTypes
<1>5. ~Level(p, q)
  BY <1>3, <1>4, AppendPrefix DEF Level
<1>6. ~Ahead(p, q) /\ ~Ahead(q, p)
  BY <1>3, <1>4, AppendPrefix DEF Ahead
<1> QED
  BY <1>2, <1>5, <1>6 DEF q

(* Sessions part in one way only: both participants answered the other's   *)
(* initial chain with a turn of their own.                                 *)
THEOREM DivergesOnlyAtFirstTurnHolds == Spec => []DivergesOnlyAtFirstTurn
<1>1. Inv /\ TurnsInv => DivergesOnlyAtFirstTurn
  BY DivergedIsCrossed DEF DivergesOnlyAtFirstTurn, Crossed, Answered
<1> QED
  BY InvHolds, TurnsInvHolds, <1>1, PTL

-----------------------------------------------------------------------------
(* The invariant of the cache                                              *)

\* Among the messages S, p sent one at every position of the chain below len.
Dense(S, p, dh, chain, len) ==
    \A i \in Nat : i < len =>
        \E m \in S : m.from = p /\ m.dh = dh /\ m.n = i /\ m.key = KeyOn(chain, i)

\* A chain is sent without gaps.
DenseInv ==
    /\ \A p \in Party :
        LET s == session[p] IN
        Dense(sent, p, s.dhSend, s.chainKeySend.chain, s.sendN)
    /\ \A m \in sent : Dense(sent, m.from, m.dh, m.key.chain, m.n)

\* The length in the header closes the chain that the peer still receives on.
EndedInv ==
    \A p, q \in Party : p # q /\ Ahead(p, q) =>
        Dense(sent, p, session[q].dhRecv, session[q].chainKeyRecv.chain,
              session[p].prevSendN)

\* A cached key is that of a message under the header it is cached for.
CacheInv ==
    \A p \in Party : \A e \in session[p].skippedKeys :
        \E m \in ForParty(p) : m.dh = e.dh /\ m.n = e.n /\ m.key = e.key

GapInv == DenseInv /\ EndedInv /\ CacheInv

(* A chain without gaps stays one when more is sent.                       *)
LEMMA DenseGrows ==
    ASSUME NEW S, NEW T, S \subseteq T,
           NEW p, NEW dh, NEW chain, NEW len, Dense(S, p, dh, chain, len)
    PROVE  Dense(T, p, dh, chain, len)
  BY DEF Dense

\* The two sessions are in one relation at a time.
OneRelation ==
    \A p, q \in Party : p # q =>
        /\ Ahead(p, q) => ~Ahead(q, p) /\ ~Crossed(p, q) /\ ~Crossed(q, p)
        /\ Level(p, q) => ~Ahead(p, q) /\ ~Ahead(q, p) /\ ~Crossed(p, q)

(* The lengths of the root keys leave the sessions in one relation only.   *)
LEMMA RelationsApart == Inv => OneRelation
<1> SUFFICES ASSUME Inv, NEW p \in Party, NEW q \in Party, p # q
             PROVE  /\ Ahead(p, q) => ~Ahead(q, p) /\ ~Crossed(p, q) /\ ~Crossed(q, p)
                    /\ Level(p, q) => ~Ahead(p, q) /\ ~Ahead(q, p) /\ ~Crossed(p, q)
  BY DEF OneRelation
<1> DEFINE i == Len(session[p].rootKey)
           j == Len(session[q].rootKey)
<1>1. i \in Nat /\ j \in Nat
  BY RootTypes
<1>2. /\ Level(p, q) => i = 0 /\ j = 0
      /\ Ahead(p, q) => i = j + 1
      /\ Ahead(q, p) => j = i + 1
      /\ Crossed(p, q) => i = 1 /\ j = 1
      /\ Crossed(q, p) => i = 1 /\ j = 1
  BY RelationLengths
<1> HIDE DEF i, j
<1> QED
  BY <1>1, <1>2

(* At the start nothing is sent and nothing is cached.                     *)
LEMMA GapInit == Init => GapInv
<1> SUFFICES ASSUME Init PROVE GapInv
  OBVIOUS
<1>1. sent = {}
  BY DEF Init
<1>2. ASSUME NEW p \in Party
      PROVE  session[p].sendN = 0 /\ session[p].skippedKeys = {}
             /\ session[p].rootKey = <<>>
  <2>1. session[p] = CreateBidirectionalSession(p)
    BY DEF Init
  <2>2. /\ CreateBidirectionalSession(p).sendN = 0
        /\ CreateBidirectionalSession(p).skippedKeys = {}
        /\ CreateBidirectionalSession(p).rootKey = <<>>
    BY DEF CreateBidirectionalSession
  <2> QED
    BY <2>1, <2>2
<1>3. DenseInv
  BY <1>1, <1>2 DEF DenseInv, Dense
<1>4. EndedInv
  <2>1. Inv
    BY InitInv
  <2>2. \A p, q \in Party : p # q => Level(p, q)
    BY <1>2 DEF Level
  <2> QED
    BY <2>1, <2>2, RelationsApart DEF EndedInv, OneRelation
<1>5. CacheInv
  BY <1>2 DEF CacheInv
<1> QED
  BY <1>3, <1>4, <1>5 DEF GapInv

(* Sealing a message leaves no gap behind it.                              *)
LEMMA EncryptGap ==
    ASSUME Inv, Inv', TurnsInv, GapInv, NEW p \in Party, Encrypt(p)
    PROVE  GapInv'
<1>1. /\ session'[p] \in RatchetSession
      /\ SameReceivingSide(session[p], session'[p])
      /\ \/ SealsOnChain(session[p], session'[p])
         \/ SealsAfterTurn(session[p], session'[p], NewKeyPair(p))
      /\ \A q \in Party : q # p => session'[q] = session[q]
  BY EncryptStep DEF TurnsInv
<1>2. PICK m \in Message :
            /\ sent' = sent \cup {m}
            /\ m.from = p
            /\ m.dh = session'[p].dhSend
            /\ m.pn = session'[p].prevSendN
            /\ m.n = session'[p].sendN - 1
            /\ m.key = KeyOn(session'[p].chainKeySend.chain, m.n)
  BY EncryptStep DEF TurnsInv
<1>3. /\ sent \subseteq sent' /\ m \in sent'
      /\ session[p].sendN \in Nat /\ session'[p].sendN \in Nat
  BY <1>1, <1>2, RootTypes DEF RatchetSession
<1>4. Dense(sent', p, session'[p].dhSend, session'[p].chainKeySend.chain,
            session'[p].sendN)
  <2>1. CASE SealsOnChain(session[p], session'[p])
    <3>1. /\ session'[p].dhSend = session[p].dhSend
          /\ session'[p].chainKeySend.chain = session[p].chainKeySend.chain
          /\ session'[p].sendN = session[p].sendN + 1
      BY <2>1 DEF SealsOnChain
    <3>2. Dense(sent, p, session'[p].dhSend, session'[p].chainKeySend.chain,
                session[p].sendN)
      BY <3>1 DEF GapInv, DenseInv
    <3>3. m.n = session[p].sendN
      BY <1>2, <1>3, <3>1
    <3>4. \A i \in Nat : i < session'[p].sendN => i < session[p].sendN \/ i = m.n
      BY <1>3, <3>1, <3>3
    <3> QED
      BY <1>2, <1>3, <3>2, <3>4 DEF Dense
  <2>2. CASE SealsAfterTurn(session[p], session'[p], NewKeyPair(p))
    <3>1. session'[p].sendN = 1 /\ m.n = 0
      BY <1>2, <2>2 DEF SealsAfterTurn
    <3>2. \A i \in Nat : i < session'[p].sendN => i = m.n
      BY <3>1
    <3> QED
      BY <1>2, <1>3, <3>2 DEF Dense
  <2> QED
    BY <1>1, <2>1, <2>2
<1>5. DenseInv'
  <2>1. ASSUME NEW q \in Party
        PROVE  Dense(sent', q, session'[q].dhSend, session'[q].chainKeySend.chain,
                     session'[q].sendN)
    <3>1. CASE q = p
      BY <1>4, <3>1
    <3>2. CASE q # p
      BY <1>1, <1>3, <3>2, DenseGrows DEF GapInv, DenseInv
    <3> QED
      BY <3>1, <3>2
  <2>2. ASSUME NEW m1 \in sent'
        PROVE  Dense(sent', m1.from, m1.dh, m1.key.chain, m1.n)
    <3>1. CASE m1 \in sent
      BY <1>3, <3>1, DenseGrows DEF GapInv, DenseInv
    <3>2. CASE m1 = m
      <4>1. m.key.chain = session'[p].chainKeySend.chain
        BY <1>2 DEF KeyOn
      <4>2. \A i \in Nat : i < m.n => i < session'[p].sendN
        BY <1>2, <1>3
      <4>3. Dense(sent', p, session'[p].dhSend, session'[p].chainKeySend.chain, m.n)
        BY <1>4, <4>2 DEF Dense
      <4> QED
        BY <1>2, <3>2, <4>1, <4>3
    <3> QED
      BY <1>2, <3>1, <3>2
  <2> QED
    BY <2>1, <2>2 DEF DenseInv
<1>6. EndedInv'
  <2>1. \A q1, q2 \in Party : q1 # q2 => q1 = p \/ q2 = p
    BY PeerIsOther
  <2>0. OneRelation'
    BY RelationsApart, PTL
  <2>2. \A q1, q2 \in Party : q1 # q2 =>
          /\ Ahead(q1, q2)' =>
               ~Ahead(q2, q1)' /\ ~Crossed(q1, q2)' /\ ~Crossed(q2, q1)'
    BY <2>0 DEF OneRelation
  <2>3. ASSUME NEW q \in Party, q # p, Ahead(p, q)'
        PROVE  Dense(sent', p, session'[q].dhRecv, session'[q].chainKeyRecv.chain,
                     session'[p].prevSendN)
    <3>1. session'[q] = session[q]
      BY <1>1, <2>3
    <3>2. CASE SealsOnChain(session[p], session'[p])
      <4>1. Ahead(p, q)
        BY <2>3, <3>2, EncryptRelation
      <4>2. session'[p].prevSendN = session[p].prevSendN
        BY <3>2 DEF SealsOnChain
      <4> QED
        BY <1>3, <2>3, <3>1, <4>1, <4>2, DenseGrows DEF GapInv, EndedInv
    <3>3. CASE SealsAfterTurn(session[p], session'[p], NewKeyPair(p))
      <4>1. Level(p, q)
        BY <2>2, <2>3, <3>3, EncryptRelation
      <4>2. session'[p].prevSendN = session[p].sendN
        BY <3>3 DEF SealsAfterTurn
      <4>3. p = Peer(q)
        BY <2>3, PeerIsOther
      <4>4. /\ session[q].dhRecv = session[p].dhSend
            /\ session[q].chainKeyRecv.chain = session[p].chainKeySend.chain
        <5>1. Shaped(p, session[p]) /\ Shaped(q, session[q])
          BY DEF TurnsInv, ShapeInv
        <5>2. session[p].rootKey = <<>> /\ session[q].rootKey = <<>>
          BY <4>1 DEF Level
        <5> QED
          BY <4>3, <5>1, <5>2 DEF Shaped
      <4>5. Dense(sent, p, session[p].dhSend, session[p].chainKeySend.chain,
                  session[p].sendN)
        BY DEF GapInv, DenseInv
      <4> QED
        BY <1>3, <3>1, <4>2, <4>4, <4>5, DenseGrows
    <3> QED
      BY <1>1, <3>2, <3>3
  <2>4. ASSUME NEW q \in Party, q # p, Ahead(q, p)'
        PROVE  Dense(sent', q, session'[p].dhRecv, session'[p].chainKeyRecv.chain,
                     session'[q].prevSendN)
    <3>1. /\ session'[q] = session[q]
          /\ session'[p].dhRecv = session[p].dhRecv
          /\ session'[p].chainKeyRecv = session[p].chainKeyRecv
      BY <1>1, <2>4 DEF SameReceivingSide
    <3>2. Ahead(q, p)
      <4>1. ~Ahead(p, q)' /\ ~Crossed(p, q)'
        BY <2>2, <2>4
      <4> QED
        BY <1>1, <2>4, <4>1, EncryptRelation
    <3> QED
      BY <1>3, <2>4, <3>1, <3>2, DenseGrows DEF GapInv, EndedInv
  <2>5. ASSUME NEW q1 \in Party, NEW q2 \in Party, q1 # q2, Ahead(q1, q2)'
        PROVE  Dense(sent', q1, session'[q2].dhRecv, session'[q2].chainKeyRecv.chain,
                     session'[q1].prevSendN)
    <3>1. CASE q1 = p
      BY <2>3, <2>5, <3>1
    <3>2. CASE q2 = p
      BY <2>4, <2>5, <3>2
    <3> QED
      BY <2>1, <2>5, <3>1, <3>2
  <2> QED
    BY <2>5 DEF EndedInv
<1>7. CacheInv'
  <2>1. ASSUME NEW q \in Party
        PROVE  /\ session'[q].skippedKeys = session[q].skippedKeys
               /\ ForParty(q) \subseteq ForParty(q)'
    <3>1. session'[q].skippedKeys = session[q].skippedKeys
      BY <1>1 DEF SameReceivingSide
    <3> QED
      BY <1>3, <3>1 DEF ForParty
  <2>2. ASSUME NEW q \in Party, NEW e \in session'[q].skippedKeys
        PROVE  \E m1 \in ForParty(q)' : m1.dh = e.dh /\ m1.n = e.n /\ m1.key = e.key
    BY <2>1, <2>2 DEF GapInv, CacheInv
  <2> QED
    BY <2>2 DEF CacheInv
<1> QED
  BY <1>5, <1>6, <1>7 DEF GapInv

(* Opening a message caches keys of messages that were sent, and of those  *)
(* only: a chain has no gaps below a position that a header names.         *)
LEMMA DecryptGap ==
    ASSUME Inv, Inv', TurnsInv, GapInv, NEW p \in Party, NEW m \in sent, Decrypt(p, m)
    PROVE  GapInv'
<1>1. /\ m.from \in Party /\ m.from # p
      /\ session'[p] \in RatchetSession
      /\ \/ OpensCached(session[p], session'[p], m)
         \/ OpensOnChain(session[p], session'[p], m)
         \/ OpensAfterTurn(session[p], session'[p], m, NewKeyPair(p))
      /\ \A q \in Party : q # p => session'[q] = session[q]
      /\ sent' = sent
  BY DecryptStep DEF TurnsInv
<1>2. Dense(sent, m.from, m.dh, m.key.chain, m.n)
  BY DEF GapInv, DenseInv
<1>3. DenseInv'
  <2>1. ASSUME NEW q \in Party
        PROVE  Dense(sent, q, session'[q].dhSend, session'[q].chainKeySend.chain,
                     session'[q].sendN)
    <3>1. CASE q # p
      BY <1>1, <3>1 DEF GapInv, DenseInv
    <3>2. CASE q = p
      <4>1. CASE \/ OpensCached(session[p], session'[p], m)
                 \/ OpensOnChain(session[p], session'[p], m)
        <5>1. /\ session'[p].dhSend = session[p].dhSend
              /\ session'[p].chainKeySend = session[p].chainKeySend
              /\ session'[p].sendN = session[p].sendN
          BY <4>1 DEF OpensCached, OpensOnChain, SameSendingSide
        <5> QED
          BY <3>2, <5>1 DEF GapInv, DenseInv
      <4>2. CASE OpensAfterTurn(session[p], session'[p], m, NewKeyPair(p))
        <5>1. session'[p].sendN = 0
          BY <4>2 DEF OpensAfterTurn
        <5> QED
          BY <3>2, <5>1 DEF Dense
      <4> QED
        BY <1>1, <4>1, <4>2
    <3> QED
      BY <3>1, <3>2
  <2> QED
    BY <1>1, <2>1 DEF GapInv, DenseInv
<1>4. EndedInv'
  <2>1. \A q1, q2 \in Party : q1 # q2 => q1 = p \/ q2 = p
    BY PeerIsOther
  <2>2. OneRelation'
    BY RelationsApart, PTL
  <2>3. ASSUME NEW q \in Party, q # p, Ahead(p, q)'
        PROVE  Dense(sent, p, session'[q].dhRecv, session'[q].chainKeyRecv.chain,
                     session'[p].prevSendN)
    <3>1. session'[q] = session[q]
      BY <1>1, <2>3
    <3>2. CASE \/ OpensCached(session[p], session'[p], m)
               \/ OpensOnChain(session[p], session'[p], m)
      <4>1. Ahead(p, q)
        BY <2>3, <3>2, DecryptRelation
      <4>2. session'[p].prevSendN = session[p].prevSendN
        BY <3>2 DEF OpensCached, OpensOnChain, SameSendingSide
      <4> QED
        BY <2>3, <3>1, <4>1, <4>2 DEF GapInv, EndedInv
    <3>3. CASE OpensAfterTurn(session[p], session'[p], m, NewKeyPair(p))
      <4>1. Ahead(q, p)
        BY <2>3, <3>3, DecryptRelation
      <4>2. session'[p].prevSendN = session[p].sendN
        BY <3>3 DEF OpensAfterTurn
      <4>3. /\ session[q].dhRecv = session[p].dhSend
            /\ session[q].chainKeyRecv.chain = session[p].chainKeySend.chain
        BY <4>1 DEF Ahead
      <4>4. Dense(sent, p, session[p].dhSend, session[p].chainKeySend.chain,
                  session[p].sendN)
        BY DEF GapInv, DenseInv
      <4> QED
        BY <3>1, <4>2, <4>3, <4>4
    <3> QED
      BY <1>1, <3>2, <3>3
  <2>4. ASSUME NEW q \in Party, q # p, Ahead(q, p)'
        PROVE  Dense(sent, q, session'[p].dhRecv, session'[p].chainKeyRecv.chain,
                     session'[q].prevSendN)
    <3>1. ~Ahead(p, q)' /\ session'[q] = session[q]
      BY <1>1, <2>2, <2>4 DEF OneRelation
    <3>2. \/ OpensCached(session[p], session'[p], m)
          \/ OpensOnChain(session[p], session'[p], m)
      BY <1>1, <2>4, <3>1, DecryptRelation
    <3>3. Ahead(q, p)
      BY <2>4, <3>2, DecryptRelation
    <3>4. /\ session'[p].dhRecv = session[p].dhRecv
          /\ session'[p].chainKeyRecv.chain = session[p].chainKeyRecv.chain
      BY <3>2 DEF OpensCached, OpensOnChain
    <3> QED
      BY <2>4, <3>1, <3>3, <3>4 DEF GapInv, EndedInv
  <2>5. ASSUME NEW q1 \in Party, NEW q2 \in Party, q1 # q2, Ahead(q1, q2)'
        PROVE  Dense(sent, q1, session'[q2].dhRecv, session'[q2].chainKeyRecv.chain,
                     session'[q1].prevSendN)
    <3>1. CASE q1 = p
      BY <2>3, <2>5, <3>1
    <3>2. CASE q2 = p
      BY <2>4, <2>5, <3>2
    <3> QED
      BY <2>1, <2>5, <3>1, <3>2
  <2> QED
    BY <1>1, <2>5 DEF EndedInv
<1>5. CacheInv'
  <2>1. \A m1 \in sent : m1.from # p => m1 \in ForParty(p)
    BY DEF ForParty
  <2>2. ASSUME NEW e \in session[p].skippedKeys
        PROVE  \E m1 \in ForParty(p) : m1.dh = e.dh /\ m1.n = e.n /\ m1.key = e.key
    BY DEF GapInv, CacheInv
  <2>3. ASSUME NEW e, e.n \in Nat, e.n < m.n, e.dh = m.dh,
               e.key = KeyOn(m.key.chain, e.n)
        PROVE  \E m1 \in ForParty(p) : m1.dh = e.dh /\ m1.n = e.n /\ m1.key = e.key
    <3>1. \E m1 \in sent : /\ m1.from = m.from /\ m1.dh = m.dh /\ m1.n = e.n
                           /\ m1.key = KeyOn(m.key.chain, e.n)
      BY <1>2, <2>3 DEF Dense
    <3> QED
      BY <1>1, <2>1, <2>3, <3>1
  <2>4. session'[p].skippedKeys \subseteq SkippedEntry
        /\ \A e \in SkippedEntry : e.n \in Nat
    BY <1>1 DEF RatchetSession, SkippedEntry
  <2>5. ASSUME NEW e \in session'[p].skippedKeys
        PROVE  \E m1 \in ForParty(p) : m1.dh = e.dh /\ m1.n = e.n /\ m1.key = e.key
    <3>1. CASE OpensCached(session[p], session'[p], m)
      BY <2>2, <2>5, <3>1 DEF OpensCached
    <3>2. CASE OpensOnChain(session[p], session'[p], m)
      <4>1. /\ m.dh = session[p].dhRecv
            /\ m.key.chain = session[p].chainKeyRecv.chain
            /\ \/ e \in session[p].skippedKeys
               \/ /\ e.dh = session[p].dhRecv
                  /\ e.key = KeyOn(session[p].chainKeyRecv.chain, e.n)
                  /\ e.n < m.n
        BY <2>5, <3>2 DEF OpensOnChain, Caches
      <4> QED
        BY <2>2, <2>3, <2>4, <2>5, <4>1
    <3>3. CASE OpensAfterTurn(session[p], session'[p], m, NewKeyPair(p))
      <4>1. \/ e \in session[p].skippedKeys
            \/ /\ e.dh = session[p].dhRecv
               /\ e.key = KeyOn(session[p].chainKeyRecv.chain, e.n)
               /\ e.n < m.pn
            \/ /\ e.dh = m.dh /\ e.key = KeyOn(m.key.chain, e.n)
               /\ e.n < m.n
        BY <2>5, <3>3, TurnCaches
      <4>2. CASE /\ e.dh = session[p].dhRecv
                 /\ e.key = KeyOn(session[p].chainKeyRecv.chain, e.n)
                 /\ e.n < m.pn
        <5>1. Ahead(m.from, p) /\ m.pn = session[m.from].prevSendN
          BY <1>1, <3>3, DecryptRelation
        <5>2. Dense(sent, m.from, session[p].dhRecv,
                    session[p].chainKeyRecv.chain, m.pn)
          BY <1>1, <5>1 DEF GapInv, EndedInv
        <5>3. \E m1 \in sent : /\ m1.from = m.from /\ m1.dh = e.dh /\ m1.n = e.n
                               /\ m1.key = e.key
          BY <2>4, <2>5, <4>2, <5>2 DEF Dense
        <5> QED
          BY <1>1, <2>1, <5>3
      <4> QED
        BY <2>2, <2>3, <2>4, <2>5, <4>1, <4>2
    <3> QED
      BY <1>1, <3>1, <3>2, <3>3
  <2>6. ASSUME NEW q \in Party, NEW e \in session'[q].skippedKeys
        PROVE  \E m1 \in ForParty(q)' : m1.dh = e.dh /\ m1.n = e.n /\ m1.key = e.key
    <3>1. ForParty(q)' = ForParty(q)
      BY <1>1 DEF ForParty
    <3>2. CASE q = p
      BY <2>5, <2>6, <3>1, <3>2
    <3>3. CASE q # p
      BY <1>1, <2>6, <3>1, <3>3 DEF GapInv, CacheInv
    <3> QED
      BY <3>2, <3>3
  <2> QED
    BY <2>6 DEF CacheInv
<1> QED
  BY <1>3, <1>4, <1>5 DEF GapInv

(* A step that changes nothing keeps chains and caches as they were.       *)
LEMMA StutterGap == GapInv /\ UNCHANGED vars => GapInv'
<1> SUFFICES ASSUME GapInv, UNCHANGED vars PROVE GapInv'
  OBVIOUS
<1>1. session' = session /\ sent' = sent
  BY DEF vars
<1>2. DenseInv'
  BY <1>1 DEF GapInv, DenseInv
<1>3. EndedInv'
  <2>1. \A p, q \in Party : Ahead(p, q)' <=> Ahead(p, q)
    BY <1>1 DEF Ahead
  <2> QED
    BY <1>1, <2>1 DEF GapInv, EndedInv
<1>4. CacheInv'
  BY <1>1 DEF GapInv, CacheInv, ForParty
<1> QED
  BY <1>2, <1>3, <1>4 DEF GapInv

(* Chains have no gaps, and the cache only holds keys of sent messages.    *)
THEOREM GapInvHolds == Spec => []GapInv
<1>1. Inv /\ Inv' /\ TurnsInv /\ GapInv /\ [Next]_vars => GapInv'
  BY EncryptGap, DecryptGap, StutterGap DEF Next
<1> QED
  BY InvHolds, TurnsInvHolds, GapInit, <1>1, PTL DEF Spec

(* Every cached key opens a message that was sent and not opened yet.      *)
THEOREM SkippedKeysAreAwaitedHolds == Spec => []SkippedKeysAreAwaited
<1>1. ASSUME Inv, GapInv PROVE SkippedKeysAreAwaited
  <2> SUFFICES ASSUME NEW p \in Party, NEW e \in session[p].skippedKeys
               PROVE  \E m \in ForParty(p) :
                        /\ ~Opened(p, m)
                        /\ m.dh = e.dh /\ m.n = e.n /\ m.key = e.key
    BY DEF SkippedKeysAreAwaited
  <2>1. PICK m \in ForParty(p) : m.dh = e.dh /\ m.n = e.n /\ m.key = e.key
    BY <1>1 DEF GapInv, CacheInv
  <2>2. e.key \notin OpenedKeys(p)
    BY <1>1 DEF Inv, RecvInv, ReceivingInv
  <2>3. ~Opened(p, m)
    BY <2>1, <2>2 DEF OpenedKeys
  <2> QED
    BY <2>1, <2>3
<1> QED
  BY InvHolds, GapInvHolds, <1>1, PTL

-----------------------------------------------------------------------------
(* The invariant of what can still be opened                               *)

\* Nobody has received further on the peer's sending chain than it was sent.
BoundInv ==
    \A p, q \in Party :
        p # q /\ session[p].chainKeyRecv.chain = session[q].chainKeySend.chain =>
            session[p].recvN <= session[q].sendN

\* The header key p receives under goes with the chain it receives on.
MatchInv ==
    \A p \in Party : \A m \in ForParty(p) :
        m.dh = session[p].dhRecv <=> m.key.chain = session[p].chainKeyRecv.chain

\* The length in the header covers all that was sent on the chain that ended.
LastInv ==
    \A p, q \in Party : p # q /\ Ahead(p, q) =>
        \A m \in sent :
            m.from = p /\ m.key.chain = session[q].chainKeyRecv.chain =>
                m.n < session[p].prevSendN

CachedIn(S, m) == \E e \in S : e.dh = m.dh /\ e.n = m.n /\ e.key = m.key

\* Where a message of q is, as p sees it: opened, cached, still to come on the
\* chain p receives on, or on the chain q turned to.
Placed(p, q, m) ==
    \/ Opened(p, m)
    \/ CachedIn(session[p].skippedKeys, m)
    \/ m.key.chain = session[p].chainKeyRecv.chain /\ m.n >= session[p].recvN
    \/ Ahead(q, p) /\ m.key.chain = session[q].chainKeySend.chain

PlaceInv ==
    \A p, q \in Party : p # q /\ ~Crossed(p, q) =>
        \A m \in sent : m.from = q => Placed(p, q, m)

ReachInv == BoundInv /\ MatchInv /\ LastInv /\ PlaceInv

(* A key is the one at the position its message names.                     *)
LEMMA KeyIsOnChain ==
    ASSUME Inv, HeaderInv, NEW m \in sent
    PROVE  m.key = KeyOn(m.key.chain, m.n)
  BY DEF Inv, TypeOK, Message, MessageKey, HeaderInv, KeyOn

(* A sender's messages are told apart by their headers.                    *)
LEMMA HeaderIdentifies ==
    ASSUME Inv, HeaderInv, NEW m1 \in sent, NEW m2 \in sent, m1.from = m2.from,
           m1.n = m2.n, m1.dh = m2.dh \/ m1.key.chain = m2.key.chain
    PROVE  m1 = m2
<1>1. m1.key.chain = m2.key.chain
  BY DEF HeaderInv
<1>2. m1.key = m2.key
  BY <1>1, KeyIsOnChain
<1> QED
  BY <1>2 DEF Inv, NoKeyReuse

(* A skip keeps what was cached, under the entry it had or a new one.      *)
LEMMA CachesKeeps ==
    ASSUME NEW S, NEW T, NEW dh, NEW chain, NEW first, NEW until,
           Caches(S, T, dh, chain, first, until),
           NEW m, m.n \in Nat, CachedIn(S, m),
           m.dh = dh => m.key = KeyOn(chain, m.n)
    PROVE  CachedIn(T, m)
<1>1. PICK e \in S : e.dh = m.dh /\ e.n = m.n /\ e.key = m.key
  BY DEF CachedIn
<1>2. CASE e \in T
  BY <1>1, <1>2 DEF CachedIn
<1>3. CASE e.dh = dh /\ first <= e.n /\ e.n < until
  BY <1>1, <1>3 DEF CachedIn, Caches
<1> QED
  BY <1>2, <1>3 DEF Caches

(* A skip caches the key of every message it passes.                       *)
LEMMA CachesAdds ==
    ASSUME NEW S, NEW T, NEW dh, NEW chain, NEW first, NEW until,
           Caches(S, T, dh, chain, first, until),
           NEW m, m.n \in Nat, m.dh = dh, m.key = KeyOn(chain, m.n),
           first <= m.n, m.n < until
    PROVE  CachedIn(T, m)
  BY DEF CachedIn, Caches

\* What a participant sends under now is what the peer receives under exactly if
\* they are on the same chain.
SidesMatch ==
    \A p, q \in Party : p # q =>
        (session[q].dhSend = session[p].dhRecv <=>
         session[q].chainKeySend.chain = session[p].chainKeyRecv.chain)

(* Header key and chain go together across the two sessions.               *)
LEMMA SendMatchesReceive == Inv /\ TurnsInv => SidesMatch
<1> SUFFICES ASSUME Inv, TurnsInv, NEW p \in Party, NEW q \in Party, p # q
             PROVE  session[q].dhSend = session[p].dhRecv <=>
                    session[q].chainKeySend.chain = session[p].chainKeyRecv.chain
  BY DEF SidesMatch
<1>1. Level(p, q) \/ Ahead(p, q) \/ Ahead(q, p) \/ Crossed(p, q)
  BY DEF TurnsInv, RootInv
<1>2. /\ Shaped(p, session[p]) /\ Shaped(q, session[q])
      /\ q = Peer(p)
  BY PeerIsOther DEF TurnsInv, ShapeInv
<1>3. CASE Level(p, q)
  BY <1>2, <1>3 DEF Level, Shaped
<1>4. CASE Ahead(p, q)
  BY <1>4 DEF Ahead
<1>5. CASE Ahead(q, p)
  <2>1. session[q].dhSend # session[p].dhRecv
    <3>1. session[p].dhRecv.gen < session[q].dhSend.gen
      BY <1>5 DEF Ahead
    <3>2. session[p].dhRecv.gen \in Nat
      BY RootTypes DEF Key
    <3> QED
      BY <3>1, <3>2
  <2>2. session[q].chainKeySend.chain # session[p].chainKeyRecv.chain
    <3> DEFINE i == Len(session[p].rootKey)
               j == Len(session[q].rootKey)
               k == Len(session[p].chainKeyRecv.chain.root)
    <3>1. i \in Nat /\ j \in Nat /\ k \in Nat /\ k <= i
      BY RootTypes
    <3>2. j = i + 1
      BY <1>5, RelationLengths
    <3>3. session[q].chainKeySend.chain = session[p].chainKeyRecv.chain => k = j
      BY <1>2 DEF Shaped
    <3> HIDE DEF i, j, k
    <3> QED
      BY <3>1, <3>2, <3>3
  <2> QED
    BY <2>1, <2>2
<1>6. CASE Crossed(p, q)
  <2>1. /\ session[q].dhSend = KeyPair(q, 1) /\ session[p].dhRecv = KeyPair(q, 0)
        /\ session[p].chainKeyRecv.chain = InitialChainKey(q).chain
        /\ session[q].rootKey = <<{KeyPair(q, 1), IdentityKey(p)}>>
    BY <1>6 DEF Crossed, Answered, IdentityKey
  <2>2. session[q].dhSend # session[p].dhRecv
    BY <2>1 DEF KeyPair
  <2>3. session[q].chainKeySend.chain.root # session[p].chainKeyRecv.chain.root
    <3>1. session[q].chainKeySend.chain.root = session[q].rootKey
      BY <1>2 DEF Shaped
    <3>2. session[p].chainKeyRecv.chain.root = <<>>
      BY <2>1 DEF InitialChainKey
    <3> QED
      BY <2>1, <3>1, <3>2
  <2> QED
    BY <2>2, <2>3
<1> QED
  BY <1>1, <1>3, <1>4, <1>5, <1>6

(* At the start nobody has sent or received.                               *)
LEMMA ReachInit == Init => ReachInv
<1> SUFFICES ASSUME Init PROVE ReachInv
  OBVIOUS
<1>1. sent = {}
  BY DEF Init
<1>2. ASSUME NEW p \in Party
      PROVE  session[p].sendN = 0 /\ session[p].recvN = 0
  <2>1. session[p] = CreateBidirectionalSession(p)
    BY DEF Init
  <2>2. /\ CreateBidirectionalSession(p).sendN = 0
        /\ CreateBidirectionalSession(p).recvN = 0
    BY DEF CreateBidirectionalSession
  <2> QED
    BY <2>1, <2>2
<1> QED
  BY <1>1, <1>2 DEF ReachInv, BoundInv, MatchInv, LastInv, PlaceInv, ForParty

(* A turn starts a sending chain that the peer is not on.                  *)
LEMMA NewPairNotReceived ==
    ASSUME Inv, SidesMatch', NEW p \in Party, NEW q \in Party, p # q,
           session'[p].dhSend = NewKeyPair(p), session'[q] = session[q]
    PROVE  session'[p].chainKeySend.chain # session'[q].chainKeyRecv.chain
<1>1. session[q].dhRecv # NewKeyPair(p)
  BY NewPairUnseen
<1> QED
  BY <1>1 DEF SidesMatch

(* The messages on the chain a participant sends on are fewer than sendN.  *)
LEMMA OnSendingChain ==
    ASSUME Inv, TurnsInv, NEW p \in Party, NEW m \in sent,
           m.key.chain = session[p].chainKeySend.chain
    PROVE  m.from = p /\ m.n < session[p].sendN
<1>1. m.from = p /\ m.key.n < session[p].chainKeySend.pos
  BY DEF Inv, SendInv
<1>2. m.n = m.key.n /\ session[p].sendN = session[p].chainKeySend.pos
  BY DEF TurnsInv, HeaderInv, ShapeInv, Shaped, Counted
<1> QED
  BY <1>1, <1>2

(* Sealing a message loses track of no message of either side.             *)
LEMMA EncryptReach ==
    ASSUME Inv, Inv', TurnsInv, TurnsInv', ReachInv, NEW p \in Party, Encrypt(p)
    PROVE  ReachInv'
<1>1. /\ session'[p] \in RatchetSession
      /\ SameReceivingSide(session[p], session'[p])
      /\ \/ SealsOnChain(session[p], session'[p])
         \/ SealsAfterTurn(session[p], session'[p], NewKeyPair(p))
      /\ \A q \in Party : q # p => session'[q] = session[q]
      /\ received' = received
  BY EncryptStep DEF TurnsInv
<1>2. PICK m \in Message :
            /\ sent' = sent \cup {m}
            /\ m.from = p
            /\ m.dh = session'[p].dhSend
            /\ m.n = session'[p].sendN - 1
            /\ m.key = KeyOn(session'[p].chainKeySend.chain, m.n)
  BY EncryptStep DEF TurnsInv
<1>3. /\ SidesMatch /\ SidesMatch' /\ OneRelation /\ OneRelation'
  BY SendMatchesReceive, RelationsApart, PTL
<1>4. m.key.chain = session'[p].chainKeySend.chain
  BY <1>2 DEF KeyOn
<1>5. /\ session'[p].dhRecv = session[p].dhRecv
      /\ session'[p].chainKeyRecv = session[p].chainKeyRecv
      /\ session'[p].recvN = session[p].recvN
      /\ session'[p].skippedKeys = session[p].skippedKeys
  BY <1>1 DEF SameReceivingSide
<1>6. \A q1, q2 \in Party : q1 # q2 => q1 = p \/ q2 = p
  BY PeerIsOther
<1>7. \A q \in Party : q # p =>
        /\ SealsAfterTurn(session[p], session'[p], NewKeyPair(p)) =>
             session'[p].chainKeySend.chain # session'[q].chainKeyRecv.chain
        /\ SealsOnChain(session[p], session'[p]) =>
             /\ session'[p].chainKeySend.chain = session[p].chainKeySend.chain
             /\ session'[p].sendN = session[p].sendN + 1
             /\ session'[p].prevSendN = session[p].prevSendN
  BY <1>1, <1>3, NewPairNotReceived DEF SealsAfterTurn, SealsOnChain
<1>8. session[p].sendN \in Nat /\ session'[p].sendN \in Nat
      /\ \A q \in Party : session[q].recvN \in Nat
  BY <1>1, RootTypes DEF RatchetSession
<1>9. BoundInv'
  <2>1. ASSUME NEW q1 \in Party, NEW q2 \in Party, q1 # q2,
               session'[q1].chainKeyRecv.chain = session'[q2].chainKeySend.chain
        PROVE  session'[q1].recvN <= session'[q2].sendN
    <3>1. CASE q1 = p
      BY <1>1, <1>5, <2>1, <3>1 DEF ReachInv, BoundInv
    <3>2. CASE q2 = p
      <4>1. SealsOnChain(session[p], session'[p])
        BY <1>1, <1>7, <2>1, <3>2
      <4>2. session[q1].recvN <= session[p].sendN
        BY <1>1, <1>7, <2>1, <3>2, <4>1 DEF ReachInv, BoundInv
      <4> QED
        BY <1>1, <1>7, <1>8, <2>1, <3>2, <4>1, <4>2
    <3> QED
      BY <1>6, <2>1, <3>1, <3>2
  <2> QED
    BY <2>1 DEF BoundInv
<1>10. MatchInv'
  <2>1. ASSUME NEW q \in Party, NEW m1 \in ForParty(q)'
        PROVE  m1.dh = session'[q].dhRecv <=>
               m1.key.chain = session'[q].chainKeyRecv.chain
    <3>1. m1 \in sent' /\ m1.from # q
      BY DEF ForParty
    <3>2. /\ session'[q].dhRecv = session[q].dhRecv
          /\ session'[q].chainKeyRecv = session[q].chainKeyRecv
      BY <1>1, <1>5
    <3>3. CASE m1 \in sent
      BY <3>1, <3>2, <3>3 DEF ReachInv, MatchInv, ForParty
    <3>4. CASE m1 = m
      BY <1>2, <1>3, <1>4, <3>1, <3>4 DEF SidesMatch
    <3> QED
      BY <1>2, <3>1, <3>3, <3>4
  <2> QED
    BY <2>1 DEF MatchInv
<1>11. LastInv'
  <2>1. ASSUME NEW q1 \in Party, NEW q2 \in Party, q1 # q2, Ahead(q1, q2)',
               NEW m1 \in sent', m1.from = q1,
               m1.key.chain = session'[q2].chainKeyRecv.chain
        PROVE  m1.n < session'[q1].prevSendN
    <3>1. CASE q1 = p
      <4>1. session'[q2] = session[q2]
        BY <1>1, <2>1, <3>1
      <4>2. m1 \in sent
        <5>1. session'[p].chainKeySend.chain # session'[q2].chainKeyRecv.chain
          <6>1. session'[q2].dhRecv.gen < session'[p].dhSend.gen
            BY <2>1, <3>1 DEF Ahead
          <6>2. session'[q2].dhRecv.gen \in Nat
            BY <4>1, RootTypes DEF Key
          <6> QED
            BY <1>3, <2>1, <3>1, <6>1, <6>2 DEF SidesMatch
        <5> QED
          BY <1>2, <1>4, <2>1, <3>1, <5>1
      <4>3. CASE SealsOnChain(session[p], session'[p])
        <5>1. Ahead(p, q2)
          BY <2>1, <3>1, <4>3, EncryptRelation
        <5> QED
          BY <1>7, <2>1, <3>1, <4>1, <4>2, <4>3, <5>1 DEF ReachInv, LastInv
      <4>4. CASE SealsAfterTurn(session[p], session'[p], NewKeyPair(p))
        <5>1. Level(p, q2)
          BY <1>3, <2>1, <3>1, <4>4, EncryptRelation DEF OneRelation
        <5>2. session[q2].chainKeyRecv.chain = session[p].chainKeySend.chain
          <6>1. Shaped(p, session[p]) /\ Shaped(q2, session[q2]) /\ p = Peer(q2)
            BY <2>1, <3>1, PeerIsOther DEF TurnsInv, ShapeInv
          <6> QED
            BY <5>1, <6>1 DEF Level, Shaped
        <5>3. session'[p].prevSendN = session[p].sendN
          BY <4>4 DEF SealsAfterTurn
        <5> QED
          BY <2>1, <3>1, <4>1, <4>2, <5>2, <5>3, OnSendingChain
      <4> QED
        BY <1>1, <4>3, <4>4
    <3>2. CASE q2 = p
      <4>1. Ahead(q1, p)
        BY <1>1, <1>3, <2>1, <3>2, EncryptRelation DEF OneRelation
      <4>2. m1 \in sent /\ session'[q1] = session[q1]
        BY <1>1, <1>2, <2>1, <3>2
      <4> QED
        BY <1>5, <2>1, <3>2, <4>1, <4>2 DEF ReachInv, LastInv
    <3> QED
      BY <1>6, <2>1, <3>1, <3>2
  <2> QED
    BY <2>1 DEF LastInv
<1>12. PlaceInv'
  <2>1. \A q \in Party, m1 \in sent : Opened(q, m1)' <=> Opened(q, m1)
    BY <1>1 DEF Opened
  <2>2. ASSUME NEW q \in Party, q # p, ~Crossed(p, q)', NEW m1 \in sent
        PROVE  /\ m1.from = p => Placed(q, p, m1)'
               /\ m1.from = q => Placed(p, q, m1)'
    <3>1. session'[q] = session[q]
      BY <1>1, <2>2
    <3>2. CASE SealsOnChain(session[p], session'[p])
      <4>1. /\ ~Crossed(p, q) /\ ~Crossed(q, p)
            /\ Ahead(p, q)' <=> Ahead(p, q)
            /\ Ahead(q, p)' <=> Ahead(q, p)
        BY <2>2, <3>2, EncryptRelation DEF Crossed
      <4>2. /\ m1.from = p => Placed(q, p, m1)
            /\ m1.from = q => Placed(p, q, m1)
        BY <2>2, <4>1 DEF ReachInv, PlaceInv
      <4> QED
        BY <1>5, <1>7, <2>1, <2>2, <3>1, <3>2, <4>1, <4>2 DEF Placed
    <3>3. CASE SealsAfterTurn(session[p], session'[p], NewKeyPair(p))
      <4>1. Level(p, q)
        BY <2>2, <3>3, EncryptRelation
      <4>2. /\ ~Crossed(p, q) /\ ~Crossed(q, p) /\ ~Ahead(p, q) /\ ~Ahead(q, p)
        BY <1>3, <2>2, <4>1 DEF OneRelation, Crossed
      <4>3. /\ m1.from = p => Placed(q, p, m1)
            /\ m1.from = q => Placed(p, q, m1)
        BY <2>2, <4>2 DEF ReachInv, PlaceInv
      <4> QED
        BY <1>5, <2>1, <2>2, <3>1, <4>2, <4>3 DEF Placed
    <3> QED
      BY <1>1, <3>2, <3>3
  <2>3. ASSUME NEW q \in Party, q # p, ~Crossed(p, q)'
        PROVE  Placed(q, p, m)'
    <3>1. session'[q] = session[q]
      BY <1>1, <2>3
    <3>2. Level(p, q)' \/ Ahead(p, q)' \/ Ahead(q, p)'
      BY <2>3 DEF TurnsInv, RootInv
    <3>3. CASE Ahead(p, q)'
      BY <1>4, <3>3 DEF Placed
    <3>4. CASE Level(p, q)' \/ Ahead(q, p)'
      <4>1. session'[q].chainKeyRecv.chain = session'[p].chainKeySend.chain
        <5>1. CASE Level(p, q)'
          <6>1. Shaped(p, session'[p]) /\ Shaped(q, session'[q]) /\ p = Peer(q)
            BY <2>3, PeerIsOther DEF TurnsInv, ShapeInv
          <6> QED
            BY <5>1, <6>1 DEF Level, Shaped
        <5>2. CASE Ahead(q, p)'
          BY <5>2 DEF Ahead
        <5> QED
          BY <3>4, <5>1, <5>2
      <4>2. SealsOnChain(session[p], session'[p])
        BY <1>1, <1>7, <2>3, <4>1
      <4>3. session[q].recvN <= session[p].sendN
        BY <1>7, <2>3, <3>1, <4>1, <4>2 DEF ReachInv, BoundInv
      <4>4. m.n >= session[q].recvN
        BY <1>2, <1>7, <1>8, <2>3, <4>2, <4>3
      <4> QED
        BY <1>4, <3>1, <4>1, <4>4 DEF Placed
    <3> QED
      BY <3>2, <3>3, <3>4
  <2>4. ASSUME NEW q1 \in Party, NEW q2 \in Party, q1 # q2, ~Crossed(q1, q2)',
               NEW m1 \in sent', m1.from = q2
        PROVE  Placed(q1, q2, m1)'
    <3>1. Crossed(q1, q2)' <=> Crossed(q2, q1)'
      BY DEF Crossed
    <3>2. CASE m1 \in sent
      BY <1>6, <2>2, <2>4, <3>1, <3>2
    <3>3. CASE m1 = m
      BY <1>2, <2>3, <2>4, <3>1, <3>3
    <3> QED
      BY <1>2, <2>4, <3>2, <3>3
  <2> QED
    BY <2>4 DEF PlaceInv
<1> QED
  BY <1>9, <1>10, <1>11, <1>12 DEF ReachInv

(* Opening a message loses track of no other message: what it passes over  *)
(* is cached, what is still to come stays on the chain.                    *)
LEMMA DecryptReach ==
    ASSUME Inv, Inv', TurnsInv, TurnsInv', ReachInv,
           NEW p \in Party, NEW m \in sent, Decrypt(p, m)
    PROVE  ReachInv'
<1> DEFINE q == m.from
           stays == \/ OpensCached(session[p], session'[p], m)
                    \/ OpensOnChain(session[p], session'[p], m)
           turns == OpensAfterTurn(session[p], session'[p], m, NewKeyPair(p))
<1>1. /\ q \in Party /\ q # p /\ m.n \in Nat /\ m.pn \in Nat
      /\ session'[p] \in RatchetSession
      /\ stays \/ turns
      /\ \A q1 \in Party : q1 # p => session'[q1] = session[q1]
      /\ sent' = sent
      /\ \A m1 \in ForParty(p) : Opened(p, m1)' <=> Opened(p, m1) \/ m1 = m
      /\ \A q1 \in Party, m1 \in sent : q1 # p =>
           (Opened(q1, m1)' <=> Opened(q1, m1))
  BY DecryptStep DEF TurnsInv, Message
<1>2. \A q1, q2 \in Party : q1 # q2 => (q1 = p /\ q2 = q) \/ (q1 = q /\ q2 = p)
  BY <1>1, PeerIsOther
<1>3. /\ SidesMatch' /\ OneRelation /\ OneRelation'
  BY SendMatchesReceive, RelationsApart, PTL
<1>4. stays =>
        /\ session'[p].dhSend = session[p].dhSend
        /\ session'[p].chainKeySend.chain = session[p].chainKeySend.chain
        /\ session'[p].sendN = session[p].sendN
        /\ session'[p].prevSendN = session[p].prevSendN
        /\ session'[p].dhRecv = session[p].dhRecv
        /\ session'[p].chainKeyRecv.chain = session[p].chainKeyRecv.chain
        /\ Ahead(p, q)' <=> Ahead(p, q)
        /\ Ahead(q, p)' <=> Ahead(q, p)
        /\ Crossed(p, q)' <=> Crossed(p, q)
  <2> SUFFICES ASSUME stays
               PROVE  /\ session'[p].dhSend = session[p].dhSend
                      /\ session'[p].chainKeySend.chain = session[p].chainKeySend.chain
                      /\ session'[p].sendN = session[p].sendN
                      /\ session'[p].prevSendN = session[p].prevSendN
                      /\ session'[p].dhRecv = session[p].dhRecv
                      /\ session'[p].chainKeyRecv.chain = session[p].chainKeyRecv.chain
                      /\ Ahead(p, q)' <=> Ahead(p, q)
                      /\ Ahead(q, p)' <=> Ahead(q, p)
                      /\ Crossed(p, q)' <=> Crossed(p, q)
    OBVIOUS
  <2>1. /\ session'[p].dhSend = session[p].dhSend
        /\ session'[p].chainKeySend.chain = session[p].chainKeySend.chain
        /\ session'[p].sendN = session[p].sendN
        /\ session'[p].prevSendN = session[p].prevSendN
        /\ session'[p].dhRecv = session[p].dhRecv
        /\ session'[p].chainKeyRecv.chain = session[p].chainKeyRecv.chain
    BY DEF OpensCached, OpensOnChain, SameSendingSide
  <2>2. /\ Ahead(p, q)' <=> Ahead(p, q)
        /\ Ahead(q, p)' <=> Ahead(q, p)
        /\ Crossed(p, q)' <=> Crossed(p, q)
    BY <1>1, DecryptRelation
  <2> QED
    BY <2>1, <2>2
<1>5. turns =>
        /\ Ahead(q, p) /\ Ahead(p, q)'
        /\ m.key.chain = session[q].chainKeySend.chain
        /\ m.pn = session[q].prevSendN
        /\ session'[p].prevSendN = session[p].sendN
        /\ session'[p].dhSend = NewKeyPair(p)
        /\ session'[p].dhRecv = m.dh
        /\ session'[p].chainKeyRecv.chain = m.key.chain
        /\ session'[p].recvN = m.n + 1
  <2>1. turns => /\ session'[p].prevSendN = session[p].sendN
                 /\ session'[p].dhSend = NewKeyPair(p)
                 /\ session'[p].dhRecv = m.dh
                 /\ session'[p].chainKeyRecv.chain = m.key.chain
                 /\ session'[p].recvN = m.n + 1
    BY DEF OpensAfterTurn
  <2>2. turns => /\ Ahead(q, p) /\ Ahead(p, q)'
                 /\ m.key.chain = session[q].chainKeySend.chain
                 /\ m.pn = session[q].prevSendN
    BY <1>1, DecryptRelation
  <2> QED
    BY <2>1, <2>2
<1>6. session'[q] = session[q]
  BY <1>1
<1>7. /\ OpensCached(session[p], session'[p], m) =>
           session'[p].recvN = session[p].recvN
      /\ OpensOnChain(session[p], session'[p], m) =>
           /\ session'[p].recvN = m.n + 1
           /\ m.key.chain = session[p].chainKeyRecv.chain
           /\ m.dh = session[p].dhRecv
  BY DEF OpensCached, OpensOnChain
<1>8. /\ turns => session'[p].chainKeySend.chain # session[q].chainKeyRecv.chain
      /\ session[q].sendN \in Nat /\ session[p].recvN \in Nat
      /\ \A m1 \in sent : m1.n \in Nat
  <2>1. turns => session'[p].chainKeySend.chain # session[q].chainKeyRecv.chain
    BY <1>1, <1>3, <1>5, <1>6, NewPairNotReceived
  <2> QED
    BY <1>1, <2>1, RootTypes, SentTypes
<1>9. m.from = q
  OBVIOUS
<1> HIDE DEF q, stays, turns
<1>10. BoundInv'
  <2>1. session'[p].chainKeyRecv.chain = session'[q].chainKeySend.chain =>
          session'[p].recvN <= session'[q].sendN
    <3>1. m.key.chain = session[q].chainKeySend.chain => m.n + 1 <= session[q].sendN
      BY <1>1, <1>8, OnSendingChain
    <3>2. CASE OpensCached(session[p], session'[p], m)
      BY <1>1, <1>4, <1>6, <1>7, <3>2 DEF stays, ReachInv, BoundInv
    <3>3. CASE OpensOnChain(session[p], session'[p], m)
      BY <1>4, <1>6, <1>7, <3>1, <3>3 DEF stays
    <3>4. CASE turns
      BY <1>5, <1>6, <3>1, <3>4
    <3> QED
      BY <1>1, <3>2, <3>3, <3>4 DEF stays
  <2>2. session'[q].chainKeyRecv.chain = session'[p].chainKeySend.chain =>
          session'[q].recvN <= session'[p].sendN
    <3>1. CASE stays
      BY <1>1, <1>4, <1>6, <3>1 DEF ReachInv, BoundInv
    <3>2. CASE turns
      BY <1>6, <1>8, <3>2
    <3> QED
      BY <1>1, <3>1, <3>2
  <2>3. \A q1, q2 \in Party :
          q1 # q2 /\ session'[q1].chainKeyRecv.chain = session'[q2].chainKeySend.chain =>
            session'[q1].recvN <= session'[q2].sendN
    BY <1>2, <2>1, <2>2
  <2> QED
    BY <2>3 DEF BoundInv
<1>11. MatchInv'
  <2>1. ASSUME NEW q1 \in Party, NEW m1 \in ForParty(q1)
        PROVE  m1.dh = session'[q1].dhRecv <=>
               m1.key.chain = session'[q1].chainKeyRecv.chain
    <3>1. m1 \in sent /\ m1.from # q1 /\ m1.from \in Party
      BY SentTypes DEF ForParty
    <3>2. CASE q1 # p
      BY <1>1, <2>1, <3>2 DEF ReachInv, MatchInv
    <3>3. CASE q1 = p /\ stays
      BY <1>4, <2>1, <3>3 DEF ReachInv, MatchInv
    <3>4. CASE q1 = p /\ turns
      <4>1. m1.from = m.from
        BY <1>2, <1>9, <3>1, <3>4
      <4>2. m1.dh = m.dh <=> m1.key.chain = m.key.chain
        BY <3>1, <4>1 DEF TurnsInv, HeaderInv
      <4> QED
        BY <1>5, <3>4, <4>2
    <3> QED
      BY <1>1, <3>2, <3>3, <3>4
  <2>2. \A q1 \in Party : ForParty(q1)' = ForParty(q1)
    BY <1>1 DEF ForParty
  <2> QED
    BY <2>1, <2>2 DEF MatchInv
<1>12. LastInv'
  <2>1. ASSUME Ahead(p, q)', NEW m1 \in sent, m1.from = p,
               m1.key.chain = session'[q].chainKeyRecv.chain
        PROVE  m1.n < session'[p].prevSendN
    <3>1. CASE stays
      BY <1>1, <1>4, <1>6, <2>1, <3>1 DEF ReachInv, LastInv
    <3>2. CASE turns
      <4>1. session[q].chainKeyRecv.chain = session[p].chainKeySend.chain
        BY <1>5, <3>2 DEF Ahead
      <4> QED
        BY <1>5, <1>6, <2>1, <3>2, <4>1, OnSendingChain
    <3> QED
      BY <1>1, <3>1, <3>2
  <2>2. ASSUME Ahead(q, p)', NEW m1 \in sent, m1.from = q,
               m1.key.chain = session'[p].chainKeyRecv.chain
        PROVE  m1.n < session'[q].prevSendN
    <3>1. stays
      BY <1>1, <1>3, <1>5, <2>2 DEF OneRelation
    <3> QED
      BY <1>1, <1>4, <1>6, <2>2, <3>1 DEF ReachInv, LastInv
  <2>3. ASSUME NEW q1 \in Party, NEW q2 \in Party, q1 # q2, Ahead(q1, q2)',
               NEW m1 \in sent, m1.from = q1,
               m1.key.chain = session'[q2].chainKeyRecv.chain
        PROVE  m1.n < session'[q1].prevSendN
    BY <1>2, <2>1, <2>2, <2>3
  <2> QED
    BY <1>1, <2>3 DEF LastInv
<1>13. PlaceInv'
  <2>1. ASSUME ~Crossed(p, q)', NEW m1 \in sent, m1.from = p
        PROVE  Placed(q, p, m1)'
    <3>1. Opened(q, m1)' <=> Opened(q, m1)
      BY <1>1
    <3>2. CASE stays
      <4>1. ~Crossed(q, p)
        BY <1>4, <2>1, <3>2 DEF Crossed
      <4>2. Placed(q, p, m1)
        BY <1>1, <2>1, <4>1 DEF ReachInv, PlaceInv
      <4> QED
        BY <1>4, <1>6, <3>1, <3>2, <4>2 DEF Placed
    <3>3. CASE turns
      <4>1. ~Crossed(q, p) /\ ~Ahead(p, q)
        BY <1>1, <1>3, <1>5, <3>3 DEF OneRelation
      <4>2. Placed(q, p, m1)
        BY <1>1, <2>1, <4>1 DEF ReachInv, PlaceInv
      <4> QED
        BY <1>6, <3>1, <4>1, <4>2 DEF Placed
    <3> QED
      BY <1>1, <3>2, <3>3
  <2>2. ASSUME ~Crossed(p, q)', NEW m1 \in sent, m1.from = q
        PROVE  Placed(p, q, m1)'
    <3>1. m1 \in ForParty(p) /\ m1.n \in Nat
      BY <1>1, <1>8, <2>2 DEF ForParty
    <3>2. Opened(p, m1)' <=> Opened(p, m1) \/ m1 = m
      BY <1>1, <3>1
    <3>3. ~Crossed(p, q)
      BY <1>1, <1>3, <1>4, <1>5, <2>2 DEF OneRelation
    <3>4. Placed(p, q, m1)
      BY <1>1, <2>2, <3>3 DEF ReachInv, PlaceInv
    <3>5. /\ m1.key = KeyOn(m1.key.chain, m1.n)
          /\ m1.dh = session[p].dhRecv <=> m1.key.chain = session[p].chainKeyRecv.chain
          /\ m1.dh = m.dh <=> m1.key.chain = m.key.chain
          /\ m1.n = m.n /\ m1.dh = m.dh => m1 = m
      <4>1. m1.key = KeyOn(m1.key.chain, m1.n)
        BY KeyIsOnChain DEF TurnsInv
      <4>2. m1.dh = session[p].dhRecv <=> m1.key.chain = session[p].chainKeyRecv.chain
        BY <3>1 DEF ReachInv, MatchInv
      <4>3. m1.dh = m.dh <=> m1.key.chain = m.key.chain
        BY <1>9, <2>2 DEF TurnsInv, HeaderInv
      <4>4. m1.n = m.n /\ m1.dh = m.dh => m1 = m
        BY <1>9, <2>2, HeaderIdentifies DEF TurnsInv
      <4> QED
        BY <4>1, <4>2, <4>3, <4>4
    <3>6. CASE m1 = m
      BY <3>2, <3>6 DEF Placed
    <3>7. CASE m1 # m /\ OpensCached(session[p], session'[p], m)
      <4>1. stays
        BY <3>7 DEF stays
      <4>2. CachedIn(session[p].skippedKeys, m1) =>
              CachedIn(session'[p].skippedKeys, m1)
        BY <3>5, <3>7 DEF CachedIn, OpensCached
      <4> QED
        BY <1>4, <1>6, <1>7, <3>2, <3>4, <3>7, <4>1, <4>2 DEF Placed
    <3>8. CASE m1 # m /\ OpensOnChain(session[p], session'[p], m)
      <4>1. stays
        BY <3>8 DEF stays
      <4>2. Caches(session[p].skippedKeys, session'[p].skippedKeys,
                   session[p].dhRecv, session[p].chainKeyRecv.chain,
                   session[p].recvN, m.n)
        BY <3>8 DEF OpensOnChain
      <4>3. CachedIn(session[p].skippedKeys, m1) =>
              CachedIn(session'[p].skippedKeys, m1)
        BY <3>1, <3>5, <4>2, CachesKeeps
      <4>4. ASSUME m1.key.chain = session[p].chainKeyRecv.chain,
                   m1.n >= session[p].recvN
            PROVE  \/ CachedIn(session'[p].skippedKeys, m1)
                   \/ m1.n >= session'[p].recvN
        <5>1. CASE m1.n < m.n
          BY <1>8, <3>1, <3>5, <4>2, <4>4, <5>1, CachesAdds
        <5>2. CASE m1.n > m.n
          BY <1>1, <1>7, <3>1, <3>8, <5>2
        <5>3. m1.n # m.n
          BY <1>7, <3>5, <3>8, <4>4
        <5> QED
          BY <1>1, <3>1, <5>1, <5>2, <5>3
      <4> QED
        BY <1>4, <1>6, <3>2, <3>4, <4>1, <4>3, <4>4 DEF Placed
    <3>9. CASE m1 # m /\ turns
      <4>1. PICK cache \in SUBSET SkippedEntry :
              /\ Caches(session[p].skippedKeys, cache, session[p].dhRecv,
                        session[p].chainKeyRecv.chain, session[p].recvN, m.pn)
              /\ Caches(cache, session'[p].skippedKeys, m.dh, m.key.chain, 0, m.n)
        BY <3>9 DEF turns, OpensAfterTurn
      <4>2. CachedIn(session[p].skippedKeys, m1) => CachedIn(cache, m1)
        BY <3>1, <3>5, <4>1, CachesKeeps
      <4>3. CachedIn(cache, m1) => CachedIn(session'[p].skippedKeys, m1)
        BY <3>1, <3>5, <4>1, CachesKeeps
      <4>4. ASSUME m1.key.chain = session[p].chainKeyRecv.chain,
                   m1.n >= session[p].recvN
            PROVE  CachedIn(cache, m1)
        <5>1. m1.n < m.pn
          BY <1>1, <1>5, <2>2, <3>9, <4>4 DEF ReachInv, LastInv
        <5> QED
          BY <1>8, <3>1, <3>5, <4>1, <4>4, <5>1, CachesAdds
      <4>5. ASSUME m1.key.chain = session[q].chainKeySend.chain
            PROVE  \/ CachedIn(session'[p].skippedKeys, m1)
                   \/ /\ m1.key.chain = session'[p].chainKeyRecv.chain
                      /\ m1.n >= session'[p].recvN
        <5>1. m1.key.chain = m.key.chain /\ m1.n # m.n
          BY <1>5, <3>5, <3>9, <4>5
        <5>2. CASE m1.n < m.n
          <6>1. 0 <= m1.n
            BY <3>1
          <6> QED
            BY <3>1, <3>5, <4>1, <5>1, <5>2, <6>1, CachesAdds
        <5>3. CASE m1.n > m.n
          BY <1>1, <1>5, <3>1, <3>9, <5>1, <5>3
        <5> QED
          BY <1>1, <3>1, <5>1, <5>2, <5>3
      <4> QED
        BY <3>2, <3>4, <4>2, <4>3, <4>4, <4>5 DEF Placed
    <3> QED
      BY <1>1, <3>6, <3>7, <3>8, <3>9 DEF stays
  <2>3. ASSUME NEW q1 \in Party, NEW q2 \in Party, q1 # q2, ~Crossed(q1, q2)',
               NEW m1 \in sent, m1.from = q2
        PROVE  Placed(q1, q2, m1)'
    <3>1. Crossed(q1, q2)' <=> Crossed(q2, q1)'
      BY DEF Crossed
    <3> QED
      BY <1>2, <2>1, <2>2, <2>3, <3>1
  <2> QED
    BY <1>1, <2>3 DEF PlaceInv
<1> QED
  BY <1>10, <1>11, <1>12, <1>13 DEF ReachInv

(* A step that changes nothing keeps the invariant.                        *)
LEMMA StutterReach == ReachInv /\ UNCHANGED vars => ReachInv'
<1> SUFFICES ASSUME ReachInv, UNCHANGED vars PROVE ReachInv'
  OBVIOUS
<1>1. session' = session /\ sent' = sent /\ received' = received
  BY DEF vars
<1>2. \A p, q \in Party : /\ Ahead(p, q)' <=> Ahead(p, q)
                          /\ Crossed(p, q)' <=> Crossed(p, q)
  BY <1>1 DEF Ahead, Crossed, Answered
<1>3. BoundInv'
  BY <1>1 DEF ReachInv, BoundInv
<1>4. MatchInv'
  BY <1>1 DEF ReachInv, MatchInv, ForParty
<1>5. LastInv'
  BY <1>1, <1>2 DEF ReachInv, LastInv
<1>6. PlaceInv'
  <2>1. \A p, q \in Party : \A m \in sent : Placed(p, q, m)' <=> Placed(p, q, m)
    BY <1>1, <1>2 DEF Placed, Opened
  <2> QED
    BY <1>1, <1>2, <2>1 DEF ReachInv, PlaceInv
<1> QED
  BY <1>3, <1>4, <1>5, <1>6 DEF ReachInv

(* Every message is where its receiver can find it.                        *)
THEOREM ReachInvHolds == Spec => []ReachInv
<1>1. Inv /\ Inv' /\ TurnsInv /\ TurnsInv' /\ ReachInv /\ [Next]_vars => ReachInv'
  BY EncryptReach, DecryptReach, StutterReach DEF Next
<1> QED
  BY InvHolds, TurnsInvHolds, ReachInit, <1>1, PTL DEF Spec

(* A key on the receiving chain, not before the receive counter, opens.    *)
LEMMA OpensOnReceivingChain ==
    ASSUME NEW s \in RatchetSession, Counted(s), NEW newDH, NEW m,
           m.n \in Nat, m.dh = s.dhRecv, ~IsCached(s, m),
           m.key = KeyOn(s.chainKeyRecv.chain, m.n),
           s.recvN <= m.n, m.n - s.recvN <= MaxSkip
    PROVE  CanDecrypt(s, m, newDH)
<1> DEFINE t == SkipMessageKeys(s, m.n)
<1>1. OnChainOf(s, m, newDH) = s
  BY DEF OnChainOf
<1>2. AtMessage(s, m, newDH) = t
  BY <1>1 DEF AtMessage
<1>3. /\ t.chainKeyRecv.chain = s.chainKeyRecv.chain
      /\ t.recvN = t.chainKeyRecv.pos
      /\ t.recvN = IF m.n <= s.recvN THEN s.recvN ELSE m.n
  BY SkipShape, SkipCaches DEF Counted
<1>4. t.chainKeyRecv.pos = m.n
  <2>1. s.recvN \in Nat
    BY DEF RatchetSession
  <2> HIDE DEF t
  <2> QED
    BY <1>3, <2>1
<1>5. MessageKeyAt(t.chainKeyRecv) = m.key
  BY <1>3, <1>4 DEF MessageKeyAt, KeyOn
<1>6. MaySkip(s, m.n)
  BY DEF MaySkip
<1> QED
  BY <1>1, <1>2, <1>5, <1>6 DEF CanDecrypt

(* A key on the chain that a turn of the ratchet leads to opens.           *)
LEMMA OpensOnNextChain ==
    ASSUME NEW s \in RatchetSession, Counted(s), NEW newDH \in Key, NEW m,
           m.dh \in Key, m.n \in Nat, m.pn \in Nat, m.dh # s.dhRecv, ~IsCached(s, m),
           m.key = KeyOn(FirstChainKey(Append(s.rootKey, {s.dhSend, m.dh})).chain, m.n),
           m.pn - s.recvN <= MaxSkip, m.n <= MaxSkip
    PROVE  CanDecrypt(s, m, newDH)
<1> DEFINE c == SkipMessageKeys(s, m.pn)
           o == DHRatchetStep(c, m.dh, newDH)
           t == SkipMessageKeys(o, m.n)
           next == FirstChainKey(Append(s.rootKey, {s.dhSend, m.dh}))
<1>1. c \in RatchetSession /\ c.rootKey = s.rootKey /\ c.dhSend = s.dhSend
  BY SkipShape
<1> HIDE DEF c
<1>2. /\ o \in RatchetSession /\ o.recvN = 0
      /\ o.chainKeyRecv = FirstChainKey(KdfRK(c.rootKey, DH(c.dhSend, m.dh)))
  BY <1>1, TurnShape
<1> HIDE DEF o
<1>3. o.chainKeyRecv = next /\ next.pos = 0
  BY <1>1, <1>2 DEF KdfRK, DH, FirstChainKey
<1>4. OnChainOf(s, m, newDH) = o /\ AtMessage(s, m, newDH) = t
  BY DEF OnChainOf, AtMessage, c, o
<1>5. /\ t.chainKeyRecv.chain = o.chainKeyRecv.chain
      /\ t.recvN = t.chainKeyRecv.pos
      /\ t.recvN = IF m.n <= o.recvN THEN o.recvN ELSE m.n
  <2>1. o.recvN = o.chainKeyRecv.pos
    BY <1>2, <1>3
  <2> QED
    BY <1>2, <2>1, SkipShape, SkipCaches
<1> HIDE DEF t
<1>6. t.chainKeyRecv.pos = m.n
  BY <1>2, <1>5
<1>7. MessageKeyAt(t.chainKeyRecv) = m.key
  BY <1>3, <1>5, <1>6 DEF MessageKeyAt, KeyOn
<1>8. MaySkip(s, m.pn) /\ MaySkip(o, m.n)
  BY <1>2 DEF MaySkip
<1> QED
  BY <1>4, <1>7, <1>8 DEF CanDecrypt

(* A cached message opens: its entry is the only one under its header.     *)
LEMMA OpensFromCache ==
    ASSUME Inv, TurnsInv, GapInv, NEW p \in Party, NEW m \in ForParty(p),
           IsCached(session[p], m), NEW newDH
    PROVE  CanDecrypt(session[p], m, newDH)
<1>1. PICK e \in session[p].skippedKeys : e.dh = m.dh /\ e.n = m.n
  BY DEF IsCached
<1>2. PICK m1 \in ForParty(p) : m1.dh = e.dh /\ m1.n = e.n /\ m1.key = e.key
  BY DEF GapInv, CacheInv
<1>3. m1.from = m.from
  BY SentTypes, PeerIsOther DEF ForParty
<1>4. m1 = m
  BY <1>1, <1>2, <1>3, HeaderIdentifies DEF ForParty, TurnsInv
<1> QED
  BY <1>1, <1>2, <1>4 DEF CanDecrypt

(* Sessions that both answered the other's initial chain have parted.      *)
LEMMA CrossedDiverges ==
    ASSUME NEW p \in Party, Crossed(p, Peer(p))
    PROVE  Diverged(p)
<1> DEFINE q == Peer(p)
           mine == session[p].rootKey
           theirs == session[q].rootKey
<1>1. q \in Party /\ p # q
  BY PeerIsOther
<1>2. /\ mine = <<{KeyPair(p, 1), IdentityKey(q)}>>
      /\ theirs = <<{KeyPair(q, 1), IdentityKey(p)}>>
  BY DEF Crossed, Answered
<1>3. KeyPair(p, 1) \notin {KeyPair(q, 1), IdentityKey(p)}
  BY <1>1 DEF KeyPair, IdentityKey
<1>4. mine # theirs
  <2>1. KeyPair(p, 1) \in mine[1] /\ KeyPair(p, 1) \notin theirs[1]
    BY <1>2, <1>3
  <2> QED
    BY <2>1
<1>5. /\ Len(mine) = 1 /\ Len(theirs) = 1
      /\ SubSeq(mine, 1, 1) = mine /\ SubSeq(theirs, 1, 1) = theirs
  <2>1. ASSUME NEW x
        PROVE  Len(<<x>>) = 1 /\ SubSeq(<<x>>, 1, 1) = <<x>>
    <3>1. <<x>> \in Seq({x}) /\ Len(<<x>>) = 1
      OBVIOUS
    <3>2. \A r \in Seq({x}) : SubSeq(r, 1, Len(r)) = r
      OBVIOUS
    <3> QED
      BY <3>1, <3>2
  <2> HIDE DEF mine, theirs
  <2> QED
    BY <1>2, <2>1
<1> HIDE DEF mine, theirs
<1>6. ~Prefix(mine, theirs) /\ ~Prefix(theirs, mine)
  BY <1>4, <1>5 DEF Prefix
<1> QED
  BY <1>6 DEF Diverged, mine, theirs, q

(* What was lost, delayed or overtaken can still be opened: in sessions    *)
(* that did not part, a message that is not beyond the skip bound is open, *)
(* or its key is cached or derivable whenever it arrives.                  *)
THEOREM RecoverableHolds == Spec => []Recoverable
<1>1. ASSUME Inv, TurnsInv, GapInv, ReachInv PROVE Recoverable
  <2> SUFFICES ASSUME NEW p \in Party, ~Diverged(p), NEW m \in ForParty(p),
                      ~Opened(p, m), ~BeyondSkip(p, m)
               PROVE  CanDecrypt(session[p], m, NewKeyPair(p))
    BY DEF Recoverable, Openable
  <2> DEFINE s == session[p]
             q == m.from
  <2>1. m \in sent /\ q \in Party /\ q # p /\ q = Peer(p)
    BY <1>1, SentTypes, PeerIsOther DEF ForParty
  <2>2. /\ s \in RatchetSession /\ s.recvN \in Nat /\ s.dhRecv.gen \in Nat
        /\ m.dh \in Key /\ m.dh.gen \in Nat /\ m.pn \in Nat /\ m.n \in Nat
    BY <1>1, <2>1, RootTypes, SentTypes DEF Key
  <2>3. Counted(s) /\ m.key = KeyOn(m.key.chain, m.n)
    BY <1>1, <2>1, KeyIsOnChain DEF TurnsInv, ShapeInv, Shaped
  <2>4. NewKeyPair(p) \in Key
    BY <1>1, NewKeyPairType DEF Inv
  <2>5. Placed(p, q, m)
    BY <1>1, <2>1, CrossedDiverges DEF ReachInv, PlaceInv
  <2>6. CASE IsCached(s, m)
    BY <1>1, <2>6, OpensFromCache
  <2>7. CASE ~IsCached(s, m) /\ m.key.chain = s.chainKeyRecv.chain /\ m.n >= s.recvN
    <3>1. m.dh = s.dhRecv
      BY <1>1, <2>7 DEF ReachInv, MatchInv
    <3>2. m.n - s.recvN <= MaxSkip
      BY <2>2, <3>1, MaxSkipAssumption DEF BeyondSkip
    <3> QED
      BY <2>2, <2>3, <2>7, <3>1, <3>2, OpensOnReceivingChain
  <2>8. CASE /\ ~IsCached(s, m)
             /\ Ahead(q, p) /\ m.key.chain = session[q].chainKeySend.chain
    <3>1. m.dh = session[q].dhSend
      BY <1>1, <2>1, <2>8 DEF TurnsInv, HeaderInv
    <3>2. s.dhRecv.gen < m.dh.gen
      BY <2>8, <3>1 DEF Ahead
    <3>3. m.pn - s.recvN <= MaxSkip /\ m.n <= MaxSkip
      BY <2>2, <3>2, MaxSkipAssumption DEF BeyondSkip
    <3>4. session[q].rootKey = Append(s.rootKey, {m.dh, s.dhSend})
      BY <2>8, <3>1 DEF Ahead
    <3>5. session[q].chainKeySend.chain = FirstChainKey(session[q].rootKey).chain
      <4>1. Shaped(q, session[q]) /\ session[q].initialChain \in BOOLEAN
        BY <1>1, <2>1, RootTypes DEF TurnsInv, ShapeInv
      <4>2. session[q].rootKey # <<>>
        BY <1>1, <2>1, <2>8, RelationLengths, RootTypes
      <4> QED
        BY <4>1, <4>2 DEF Shaped
    <3>6. {m.dh, s.dhSend} = {s.dhSend, m.dh}
      OBVIOUS
    <3>7. m.key = KeyOn(FirstChainKey(Append(s.rootKey, {s.dhSend, m.dh})).chain, m.n)
      BY <2>3, <2>8, <3>4, <3>5, <3>6
    <3>8. m.dh # s.dhRecv
      BY <2>2, <3>2
    <3> QED
      BY <2>2, <2>3, <2>4, <2>8, <3>3, <3>7, <3>8, OpensOnNextChain
  <2>9. CachedIn(s.skippedKeys, m) => IsCached(s, m)
    BY DEF CachedIn, IsCached
  <2> QED
    BY <2>5, <2>6, <2>7, <2>8, <2>9 DEF Placed
<1> QED
  BY InvHolds, TurnsInvHolds, GapInvHolds, ReachInvHolds, <1>1, PTL
=============================================================================
