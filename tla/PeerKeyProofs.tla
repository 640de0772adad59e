---------------------------- MODULE PeerKeyProofs ----------------------------
(***************************************************************************)
(* Theorems of KeyAudit and of PeerVerification, for any keys, audits,     *)
(* calls and bounds.                                                       *)
(***************************************************************************)
EXTENDS KeyAudit, PeerVerification, TLAPS

-----------------------------------------------------------------------------
(* KeyAudit                                                                *)

\* An audit is of a key that was received, and once a key was pinned one is.
PinsFollow ==
    /\ \A i \in Call : audit[i] # None => audit[i].key \in received
    /\ pins # {} => pinned # None

\* The key on file is in the log, but for one that was registered and for one whose
\* publication was cut.
FiledIsLogged == publicKey \in Range(keyLog) \cup torn \cup {registered}

Inv == /\ TypeOK /\ PinsFollow /\ FiledIsLogged
       /\ WarningJustified /\ PinChangeWarned /\ OnRecord

\* Nothing was received, pinned or published at the start: the key on file, if any, is
\* the registered one.
LEMMA InitInv == Init => Inv
<1> SUFFICES ASSUME Init PROVE Inv
  OBVIOUS
<1>1. <<>> \in Seq(Key) /\ Len(<<>>) = 0 /\ 0 <= MaxLog /\ 0 <= MaxFrames
  BY AuditBoundsAssumption
<1>2. audit \in [Call -> Audit \cup {None}]
  BY DEF Init
<1>3. TypeOK
  BY <1>1, <1>2 DEF Init, TypeOK
<1>4. PinsFollow
  BY DEF Init, PinsFollow
<1> QED
  BY <1>3, <1>4 DEF Init, Inv, FiledIsLogged, WarningJustified, PinChangeWarned,
                    OnRecord, Several

\* What appending adds to the elements of a sequence.
LEMMA RangeAppend ==
    ASSUME NEW S, NEW s \in Seq(S), NEW e \in S
    PROVE  Range(Append(s, e)) = Range(s) \cup {e}
<1>1. DOMAIN Append(s, e) = 1 .. Len(s) + 1 /\ DOMAIN s = 1 .. Len(s) /\ Len(s) \in Nat
  OBVIOUS
<1>2. \A x \in 1 .. Len(s) : Append(s, e)[x] = s[x]
  OBVIOUS
<1>3. Append(s, e)[Len(s) + 1] = e
  OBVIOUS
<1>4. ASSUME NEW y \in Range(Append(s, e)) PROVE y \in Range(s) \cup {e}
  <2>1. PICK x \in 1 .. Len(s) + 1 : y = Append(s, e)[x]
    BY <1>1 DEF Range
  <2> QED
    BY <1>1, <1>2, <1>3, <2>1 DEF Range
<1>5. ASSUME NEW y \in Range(s) PROVE y \in Range(Append(s, e))
  <2>1. PICK x \in 1 .. Len(s) : y = s[x]
    BY <1>1 DEF Range
  <2>2. x \in 1 .. Len(s) + 1 /\ y = Append(s, e)[x]
    BY <1>1, <1>2, <2>1
  <2> QED
    BY <1>1, <2>2 DEF Range
<1>6. e \in Range(Append(s, e))
  BY <1>1, <1>3 DEF Range
<1> QED
  BY <1>4, <1>5, <1>6

\* Publishing or showing a key only adds to what is under way.
LEMMA UseTypes ==
    ASSUME Inv, NEW k \in Key, NEW what \in {"publish", "show"}, Use(k, what)
    PROVE  requests' \subseteq Key /\ toClient' \in Seq(Key) /\ Len(toClient') <= MaxFrames
<1>1. requests \subseteq Key /\ toClient \in Seq(Key) /\ Len(toClient) <= MaxFrames
  BY DEF Inv, TypeOK
<1>2. Append(toClient, k) \in Seq(Key)
  BY <1>1
<1> QED
  BY <1>1, <1>2 DEF Use

\* What the browser of the peer may change.
PeerTypes ==
    /\ stored \in Key \cup {None} /\ making \subseteq Making
    /\ requests \subseteq Key /\ toClient \in Seq(Key) /\ Len(toClient) <= MaxFrames

\* The browser of the peer touches neither the server nor what was received.
LEMMA PeerKeeps == ASSUME Inv, PeerStep PROVE Inv'
<1>1. UNCHANGED <<serverVars, auditVars, received>>
  BY DEF PeerStep, EnsureKeys, StartKeys, FinishKeys, ClearKeys
<1>2. PeerTypes
  BY DEF Inv, TypeOK, PeerTypes
<1>3. PeerTypes'
  <2>1. ASSUME NEW what \in {"publish", "show"}, EnsureKeys(what) PROVE PeerTypes'
    <3>1. stored \in Key /\ Use(stored, what) /\ UNCHANGED <<stored, making>>
      BY <2>1, <1>2 DEF EnsureKeys, PeerTypes
    <3> QED
      BY <3>1, <1>2, UseTypes DEF PeerTypes
  <2>2. ASSUME NEW what \in {"publish", "show"}, NEW k \in Key, StartKeys(k, what)
        PROVE  PeerTypes'
    <3>1. [key |-> k, what |-> what] \in Making
      BY DEF Making
    <3> QED
      BY <3>1, <2>2, <1>2 DEF StartKeys, PeerTypes
  <2>3. ASSUME NEW c \in making, FinishKeys(c) PROVE PeerTypes'
    <3>1. c.key \in Key /\ c.what \in {"publish", "show"}
      BY <1>2 DEF PeerTypes, Making
    <3>2. Use(c.key, c.what) /\ stored' = c.key /\ making' = making \ {c}
      BY <2>3 DEF FinishKeys
    <3> QED
      BY <3>1, <3>2, <1>2, UseTypes DEF PeerTypes
  <2>4. CASE ClearKeys
    BY <2>4, <1>2 DEF ClearKeys, PeerTypes
  <2> QED
    BY <2>1, <2>2, <2>3, <2>4 DEF PeerStep
<1>4. TypeOK'
  BY <1>1, <1>3 DEF serverVars, auditVars, Inv, TypeOK, PeerTypes
<1> QED
  BY <1>1, <1>4 DEF serverVars, auditVars, Inv, PinsFollow, FiledIsLogged,
                    WarningJustified, PinChangeWarned, OnRecord

\* What the audits and the client have is left alone by the server.
LEMMA ServerKeeps == ASSUME Inv, ServerStep PROVE Inv'
<1> USE AuditBoundsAssumption
<1>1. UNCHANGED <<stored, making, auditVars, received>>
  BY DEF ServerStep, PublishKey, PublishTorn, LoseRequest, Join, peerVars
<1>2. PinsFollow' /\ WarningJustified' /\ PinChangeWarned'
  BY <1>1 DEF auditVars, Inv, PinsFollow, WarningJustified, PinChangeWarned
<1>3. keyLog \in Seq(Key) /\ Len(keyLog) \in Nat
  BY DEF Inv, TypeOK
<1>4. ASSUME NEW k \in Key, PublishKey(k) PROVE Inv'
  <2>1. /\ requests' = requests \ {k} /\ publicKey' = k
        /\ keyLog' = Append(keyLog, k) /\ Len(keyLog) < MaxLog
        /\ UNCHANGED <<registered, torn, handed, toClient>>
    BY <1>4 DEF PublishKey, AppendKeyLog
  <2>2. Range(keyLog') = Range(keyLog) \cup {k}
    BY <1>3, <2>1, RangeAppend
  <2>3. keyLog' \in Seq(Key) /\ Len(keyLog') = Len(keyLog) + 1
    BY <1>3, <2>1
  <2>4. Len(keyLog') <= MaxLog
    BY <1>3, <2>1, <2>3
  <2>5. TypeOK'
    BY <1>1, <2>1, <2>3, <2>4 DEF auditVars, Inv, TypeOK
  <2> QED
    BY <1>2, <2>1, <2>2, <2>5 DEF Inv, FiledIsLogged, OnRecord
<1>5. ASSUME NEW k \in Key, PublishTorn(k) PROVE Inv'
  <2>1. /\ requests' = requests \ {k} /\ publicKey' = k /\ torn' = torn \cup {k}
        /\ UNCHANGED <<keyLog, registered, handed, toClient>>
    BY <1>5 DEF PublishTorn
  <2>2. TypeOK'
    BY <1>1, <2>1 DEF auditVars, Inv, TypeOK
  <2> QED
    BY <1>2, <2>1, <2>2 DEF Inv, FiledIsLogged, OnRecord
<1>6. ASSUME NEW k \in Key, LoseRequest(k) PROVE Inv'
  <2>1. /\ requests' = requests \ {k}
        /\ UNCHANGED <<publicKey, keyLog, registered, torn, handed, toClient>>
    BY <1>6 DEF LoseRequest, serverVars
  <2>2. TypeOK'
    BY <1>1, <2>1 DEF auditVars, Inv, TypeOK
  <2> QED
    BY <1>2, <2>1, <2>2 DEF Inv, FiledIsLogged, OnRecord
<1>7. ASSUME Join PROVE Inv'
  <2>1. /\ publicKey \in Key /\ publicKey # None /\ toClient' = <<publicKey>>
        /\ handed' = handed \cup {publicKey}
        /\ UNCHANGED <<requests, publicKey, keyLog, registered, torn>>
    BY <1>7 DEF Join, peerVars, Inv, TypeOK
  <2>2. toClient' \in Seq(Key) /\ Len(toClient') = 1
    BY <2>1
  <2>3. Len(toClient') <= MaxFrames
    BY <2>2
  <2>4. TypeOK'
    BY <1>1, <2>1, <2>2, <2>3 DEF auditVars, Inv, TypeOK
  <2> QED
    BY <1>2, <2>1, <2>4 DEF Inv, FiledIsLogged, OnRecord
<1> QED
  BY <1>4, <1>5, <1>6, <1>7 DEF ServerStep

\* An audit begins, reads the log or fails: nothing is pinned and no banner shown.
LEMMA AuditMoves ==
    ASSUME Inv, NEW i \in Call, HandlePublicKey(i) \/ ReadKeyLog(i) \/ AuditFail(i)
    PROVE  Inv'
<1> USE AuditBoundsAssumption
<1>1. UNCHANGED <<peerVars, serverVars, pinned, warning, pins, warned>>
  BY DEF HandlePublicKey, ReadKeyLog, AuditFail
<1>2. /\ toClient \in Seq(Key) /\ Len(toClient) <= MaxFrames /\ keyLog \in Seq(Key)
      /\ Len(keyLog) <= MaxLog /\ received \subseteq Key
      /\ audit \in [Call -> Audit \cup {None}]
  BY DEF Inv, TypeOK
<1>3. PICK a \in Audit \cup {None} :
        /\ audit' = [audit EXCEPT ![i] = a]
        /\ a # None => a.key \in received'
        /\ received' \subseteq Key /\ received \subseteq received'
        /\ toClient' \in Seq(Key) /\ Len(toClient') <= MaxFrames
        /\ failed' \in BOOLEAN
  <2>1. CASE HandlePublicKey(i)
    <3> DEFINE new == [key |-> Head(toClient), entries |-> None]
    <3>1. /\ toClient # <<>> /\ audit' = [audit EXCEPT ![i] = new]
          /\ received' = received \cup {Head(toClient)} /\ toClient' = Tail(toClient)
          /\ failed' = failed
      BY <2>1 DEF HandlePublicKey
    <3>2. Head(toClient) \in Key /\ Tail(toClient) \in Seq(Key)
          /\ Len(Tail(toClient)) <= MaxFrames
      BY <1>2, <3>1
    <3>3. new \in Audit /\ new.key = Head(toClient)
      BY <3>2 DEF Audit
    <3> HIDE DEF new
    <3> QED
      BY <1>2, <3>1, <3>2, <3>3 DEF Inv, TypeOK
  <2>2. CASE ReadKeyLog(i)
    <3> DEFINE new == [audit[i] EXCEPT !.entries = Len(keyLog)]
    <3>1. /\ audit[i] # None /\ audit' = [audit EXCEPT ![i] = new]
          /\ UNCHANGED <<received, toClient, failed>>
      BY <1>2, <2>2 DEF ReadKeyLog
    <3>2. audit[i] \in Audit /\ Len(keyLog) \in 0 .. MaxLog
      BY <1>2, <3>1
    <3>3. new \in Audit /\ new.key = audit[i].key
      BY <3>2 DEF Audit
    <3>4. audit[i].key \in received
      BY <3>1 DEF Inv, PinsFollow
    <3> HIDE DEF new
    <3> QED
      BY <1>2, <3>1, <3>3, <3>4 DEF Inv, TypeOK
  <2>3. CASE AuditFail(i)
    <3>1. /\ audit' = [audit EXCEPT ![i] = None] /\ failed' = TRUE
          /\ UNCHANGED <<received, toClient>>
      BY <2>3 DEF AuditFail
    <3> QED
      BY <1>2, <3>1
  <2> QED
    BY <2>1, <2>2, <2>3
<1>4. audit' \in [Call -> Audit \cup {None}]
      /\ \A c \in Call : audit'[c] = IF c = i THEN a ELSE audit[c]
  BY <1>2, <1>3
<1>5. TypeOK'
  BY <1>1, <1>3, <1>4 DEF peerVars, serverVars, Inv, TypeOK
<1>6. PinsFollow'
  BY <1>1, <1>3, <1>4 DEF Inv, PinsFollow
<1>7. WarningJustified'
  BY <1>1, <1>3 DEF Inv, WarningJustified, Several
<1> QED
  BY <1>1, <1>5, <1>6, <1>7 DEF serverVars, Inv, FiledIsLogged, PinChangeWarned, OnRecord

\* An audit ends: the one step that compares, warns and pins.
LEMMA AuditDoneKeeps ==
    ASSUME Inv, NEW i \in Call, AuditDone(i)
    PROVE  Inv'
<1> DEFINE k == audit[i].key
<1>1. audit \in [Call -> Audit \cup {None}] /\ pinned \in pins \cup {None}
      /\ pins \subseteq received /\ received \subseteq Key
  BY DEF Inv, TypeOK
<1>2. audit[i] # None /\ k \in received
  BY DEF AuditDone, Inv, PinsFollow
<1>3. UNCHANGED <<peerVars, serverVars, toClient, received, failed>>
  BY DEF AuditDone
<1>4. /\ audit' = [audit EXCEPT ![i] = None]
      /\ warning' \in BOOLEAN /\ warned' = (warned \/ warning')
      /\ \/ /\ pinned' = k /\ pins' = pins \cup {k}
            /\ warning' = (pinned # None /\ pinned # k)
         \/ UNCHANGED <<pinned, pins>> /\ ~warning'
  BY DEF AuditDone, HasHistory, Differs
<1> HIDE DEF k
<1>5. audit' \in [Call -> Audit \cup {None}]
      /\ \A c \in Call : audit'[c] = IF c = i THEN None ELSE audit[c]
  BY <1>1, <1>4
<1>6. k # None
  BY <1>1, <1>2, KeyAssumption
<1>7. TypeOK'
  <2>1. pinned' \in pins' \cup {None} /\ pins' \subseteq received'
    BY <1>1, <1>2, <1>3, <1>4
  <2>2. warned' \in BOOLEAN
    BY <1>4 DEF Inv, TypeOK
  <2> QED
    BY <1>3, <1>4, <1>5, <2>1, <2>2 DEF peerVars, serverVars, Inv, TypeOK
<1>8. PinsFollow'
  BY <1>3, <1>4, <1>5, <1>6 DEF Inv, PinsFollow
<1>9. WarningJustified'
  BY <1>1, <1>2, <1>3, <1>4 DEF WarningJustified, Several
<1>10. PinChangeWarned'
  <2>1. CASE UNCHANGED <<pinned, pins>>
    BY <2>1, <1>4 DEF Inv, PinChangeWarned
  <2>2. CASE pinned' = k /\ pins' = pins \cup {k} /\ warning' = (pinned # None /\ pinned # k)
    <3>1. CASE Several(pins)
      BY <3>1, <1>4 DEF Inv, PinChangeWarned
    <3>2. CASE ~Several(pins)
      <4>1. pins = {} \/ pins = {pinned}
        BY <3>2, <1>1 DEF Several, Inv, PinsFollow
      <4>2. ASSUME Several(pins') PROVE warning'
        BY <4>1, <4>2, <2>2 DEF Several, Inv, PinsFollow
      <4> QED
        BY <4>2, <1>4 DEF PinChangeWarned
    <3> QED
      BY <3>1, <3>2
  <2> QED
    BY <2>1, <2>2, <1>4
<1> QED
  BY <1>3, <1>7, <1>8, <1>9, <1>10 DEF serverVars, Inv, FiledIsLogged, OnRecord

\* The banner goes, or the page is reloaded: what is pinned stays.
LEMMA DropKeeps == ASSUME Inv, DropWarning \/ Reload PROVE Inv'
<1> USE AuditBoundsAssumption
<1>1. /\ UNCHANGED <<peerVars, serverVars, received, pinned, pins, warned>>
      /\ warning' = FALSE /\ failed' \in BOOLEAN
  <2>1. CASE DropWarning
    BY <2>1 DEF DropWarning, Inv, TypeOK
  <2>2. CASE Reload
    BY <2>2 DEF Reload
  <2> QED
    BY <2>1, <2>2
<1>2. toClient' \in {toClient, <<>>}
      /\ (audit' = audit \/ audit' = [i \in Call |-> None])
  BY DEF DropWarning, Reload
<1>3. toClient' \in Seq(Key) /\ Len(toClient') <= MaxFrames
  <2>1. toClient \in Seq(Key) /\ Len(toClient) <= MaxFrames
    BY DEF Inv, TypeOK
  <2>2. <<>> \in Seq(Key) /\ Len(<<>>) = 0 /\ 0 <= MaxFrames
    OBVIOUS
  <2> QED
    BY <1>2, <2>1, <2>2
<1>4. audit' \in [Call -> Audit \cup {None}]
  BY <1>2 DEF Inv, TypeOK
<1>5. TypeOK'
  BY <1>1, <1>3, <1>4 DEF peerVars, serverVars, Inv, TypeOK
<1>6. PinsFollow'
  BY <1>1, <1>2 DEF Inv, PinsFollow
<1> QED
  BY <1>1, <1>5, <1>6 DEF serverVars, Inv, FiledIsLogged, WarningJustified, PinChangeWarned,
                          OnRecord

LEMMA NextInv == Inv /\ [Next]_vars => Inv'
<1> SUFFICES ASSUME Inv, [Next]_vars PROVE Inv'
  OBVIOUS
<1>1. CASE PeerStep
  BY <1>1, PeerKeeps
<1>2. CASE ServerStep
  BY <1>2, ServerKeeps
<1>3. ASSUME NEW i \in Call, ReadKeyLog(i) \/ AuditFail(i) \/ HandlePublicKey(i) PROVE Inv'
  BY <1>3, AuditMoves
<1>4. ASSUME NEW i \in Call, AuditDone(i) PROVE Inv'
  BY <1>4, AuditDoneKeeps
<1>5. CASE DropWarning \/ Reload
  BY <1>5, DropKeeps
<1>6. CASE UNCHANGED vars
  <2>1. TypeOK'
    BY <1>6 DEF vars, peerVars, serverVars, auditVars, Inv, TypeOK
  <2>2. PinsFollow'
    BY <1>6 DEF vars, auditVars, Inv, PinsFollow
  <2> QED
    BY <1>6, <2>1, <2>2 DEF vars, serverVars, auditVars, Inv, FiledIsLogged,
                            WarningJustified, PinChangeWarned, OnRecord
<1> QED
  BY <1>1, <1>2, <1>3, <1>4, <1>5, <1>6 DEF Next, AuditStep

LEMMA InvHolds == Spec => []Inv
  BY InitInv, NextInv, PTL DEF Spec

\* The variables keep their types, and every key that was pinned was received.
THEOREM TypeCorrect == Spec => []TypeOK
  BY InvHolds, PTL DEF Inv

\* The banner (usePeerKeyAudit) is shown only to a client that received two keys.
THEOREM WarningJustifiedHolds == Spec => []WarningJustified
  BY InvHolds, PTL DEF Inv

\* The pinned key never changes without the banner, however audits overlap.
THEOREM PinChangeWarnedHolds == Spec => []PinChangeWarned
  BY InvHolds, PTL DEF Inv

\* Every key a join was answered with is in the key log (keyService.js), but for the
\* key the account was registered with (authService.js), which no log takes, and keys
\* in whose publication the server stopped between its two statements.
THEOREM OnRecordHolds == Spec => []OnRecord
  BY InvHolds, PTL DEF Inv

-----------------------------------------------------------------------------
(* PeerVerification                                                        *)

\* What a refresh has found out, and what a mark is about to record, rest on a
\* confirmation too.
CallsConfirmed ==
    /\ \A c \in RefreshCall : refresh[c] # None /\ refresh[c].verified
                          => refresh[c].key \in confirmed
    /\ mark # None => mark.number \in confirmed

TrustInv == TrustTypeOK /\ CallsConfirmed /\ ConfirmedOnly /\ VerifiedWasConfirmed

\* There is nothing to confirm at the start.
LEMMA TrustInitInv == TrustInit => TrustInv
  BY DEF TrustInit, TrustInv, TrustTypeOK, CallsConfirmed, ConfirmedOnly, VerifiedWasConfirmed

\* The clean-up of an effect leaves what its call has found out.
LEMMA CancelledKeeps ==
    ASSUME TrustInv
    PROVE  /\ Cancelled \in [RefreshCall -> Refresh \cup {None}]
           /\ \A c \in RefreshCall : Cancelled[c] # None /\ Cancelled[c].verified
                                 => Cancelled[c].key \in confirmed
<1>1. refresh \in [RefreshCall -> Refresh \cup {None}]
  BY DEF TrustInv, TrustTypeOK
<1>2. ASSUME NEW c \in RefreshCall, refresh[c] # None
      PROVE  /\ [refresh[c] EXCEPT !.live = FALSE] \in Refresh
             /\ [refresh[c] EXCEPT !.live = FALSE].verified = refresh[c].verified
             /\ [refresh[c] EXCEPT !.live = FALSE].key = refresh[c].key
  <2>1. refresh[c] \in Refresh
    BY <1>1, <1>2
  <2> QED
    BY <2>1 DEF Refresh
<1>3. Cancelled \in [RefreshCall -> Refresh \cup {None}]
  BY <1>2 DEF Cancelled
<1>4. ASSUME NEW c \in RefreshCall, Cancelled[c] # None, Cancelled[c].verified
      PROVE  Cancelled[c].key \in confirmed
  <2>1. refresh[c] # None /\ Cancelled[c] = [refresh[c] EXCEPT !.live = FALSE]
    BY <1>4 DEF Cancelled
  <2> QED
    BY <2>1, <1>2, <1>4 DEF TrustInv, CallsConfirmed
<1> QED
  BY <1>3, <1>4

\* A peer without a call of refresh, or none: nothing is shown of anybody.
LEMMA NoPeerKeeps ==
    ASSUME TrustInv, NoPeer, identity' \in Key \cup {None},
           UNCHANGED <<record, mark, reset, confirmed>>
    PROVE  TrustInv'
<1>1. /\ Cancelled \in [RefreshCall -> Refresh \cup {None}]
      /\ \A c \in RefreshCall : Cancelled[c] # None /\ Cancelled[c].verified
                            => Cancelled[c].key \in confirmed
  BY CancelledKeeps
<1>2. refresh' = Cancelled /\ status' = "no_peer" /\ safety' = None /\ about' = None
      /\ disturbed' \in BOOLEAN
  BY DEF NoPeer, FreshStart, Quiet
<1>3. TrustTypeOK'
  BY <1>1, <1>2 DEF TrustInv, TrustTypeOK
<1>4. CallsConfirmed'
  BY <1>1, <1>2 DEF TrustInv, CallsConfirmed
<1> QED
  BY <1>2, <1>3, <1>4 DEF TrustInv, ConfirmedOnly, VerifiedWasConfirmed

\* A new peer is shown: its refresh has found nothing out yet.
LEMMA ShowPeerKeeps ==
    ASSUME TrustInv, NEW k \in Key, NEW c \in RefreshCall, ShowPeer(k, c)
    PROVE  TrustInv'
<1> DEFINE new == [key |-> k, at |-> "hashing", found |-> FALSE, verified |-> FALSE,
                   live |-> TRUE]
<1>1. /\ Cancelled \in [RefreshCall -> Refresh \cup {None}]
      /\ \A d \in RefreshCall : Cancelled[d] # None /\ Cancelled[d].verified
                            => Cancelled[d].key \in confirmed
  BY CancelledKeeps
<1>2. new \in Refresh /\ ~new.verified
  BY DEF Refresh
<1>3. /\ identity' = k /\ refresh' = [Cancelled EXCEPT ![c] = new]
      /\ disturbed' \in BOOLEAN /\ UNCHANGED <<safety, status, about, record, mark, reset,
                                              confirmed>>
  BY DEF ShowPeer, FreshStart, Quiet, screen
<1> HIDE DEF new
<1>4. refresh' \in [RefreshCall -> Refresh \cup {None}]
  BY <1>1, <1>2, <1>3
<1>5. \A d \in RefreshCall : refresh'[d] = IF d = c THEN new ELSE Cancelled[d]
  BY <1>1, <1>3
<1>6. TrustTypeOK'
  BY <1>3, <1>4 DEF TrustInv, TrustTypeOK
<1>7. CallsConfirmed'
  BY <1>1, <1>2, <1>3, <1>5 DEF TrustInv, CallsConfirmed
<1> QED
  BY <1>3, <1>6, <1>7 DEF TrustInv, ConfirmedOnly, VerifiedWasConfirmed

\* Of a refresh under way only the check of the record finds a key verified, and
\* the record holds none that was not confirmed.
LEMMA RefreshKeeps ==
    ASSUME TrustInv, NEW c \in RefreshCall,
           RefreshHash(c) \/ RefreshRead(c) \/ RefreshCheck(c)
    PROVE  TrustInv'
<1>1. refresh \in [RefreshCall -> Refresh \cup {None}]
  BY DEF TrustInv, TrustTypeOK
<1>2. refresh[c] # None /\ refresh[c] \in Refresh
  BY <1>1 DEF RefreshHash, RefreshRead, RefreshCheck, At
<1>3. PICK r \in Refresh : /\ refresh' = [refresh EXCEPT ![c] = r]
                           /\ r.key = refresh[c].key
                           /\ r.verified => refresh[c].verified \/ record = refresh[c].key
  <2>1. CASE RefreshHash(c)
    <3> DEFINE new == [refresh[c] EXCEPT !.at = "reading"]
    <3>1. refresh' = [refresh EXCEPT ![c] = new]
      BY <2>1, <1>1 DEF RefreshHash
    <3>2. new \in Refresh /\ new.key = refresh[c].key
      BY <1>2 DEF Refresh
    <3>3. new.verified = refresh[c].verified
      BY <1>2 DEF Refresh
    <3> HIDE DEF new
    <3> QED
      BY <3>1, <3>2, <3>3
  <2>2. CASE RefreshRead(c)
    <3> DEFINE new == [refresh[c] EXCEPT !.at = "checking", !.found = (record # None)]
    <3>1. refresh' = [refresh EXCEPT ![c] = new]
      BY <2>2, <1>1 DEF RefreshRead
    <3>2. new \in Refresh /\ new.key = refresh[c].key
      BY <1>2 DEF Refresh
    <3>3. new.verified = refresh[c].verified
      BY <1>2 DEF Refresh
    <3> HIDE DEF new
    <3> QED
      BY <3>1, <3>2, <3>3
  <2>3. CASE RefreshCheck(c)
    <3> DEFINE new == [refresh[c] EXCEPT !.at = "done",
                                      !.verified = (record = refresh[c].key)]
    <3>1. refresh' = [refresh EXCEPT ![c] = new]
      BY <2>3, <1>1 DEF RefreshCheck, IsVerifiedForKey
    <3>2. new \in Refresh /\ new.key = refresh[c].key
      BY <1>2 DEF Refresh
    <3>3. new.verified => record = refresh[c].key
      BY <1>2 DEF Refresh
    <3> HIDE DEF new
    <3> QED
      BY <3>1, <3>2, <3>3
  <2> QED
    BY <2>1, <2>2, <2>3
<1>4. UNCHANGED <<identity, safety, status, about, record, mark, reset, confirmed,
                  disturbed>>
  BY DEF RefreshHash, RefreshRead, RefreshCheck, screen
<1>5. refresh[c].key \in Key /\ refresh[c].key # None
  BY <1>2, KeyAssumption DEF Refresh
<1>6. r.verified => r.key \in confirmed
  BY <1>2, <1>3, <1>5 DEF TrustInv, CallsConfirmed, ConfirmedOnly
<1>7. refresh' \in [RefreshCall -> Refresh \cup {None}]
      /\ \A d \in RefreshCall : refresh'[d] = IF d = c THEN r ELSE refresh[d]
  BY <1>1, <1>3
<1>8. TrustTypeOK'
  BY <1>4, <1>7 DEF TrustInv, TrustTypeOK
<1>9. CallsConfirmed'
  BY <1>4, <1>6, <1>7 DEF TrustInv, CallsConfirmed
<1> QED
  BY <1>4, <1>8, <1>9 DEF TrustInv, ConfirmedOnly, VerifiedWasConfirmed

\* A refresh ends: "verified" is set only if it was found for the key of the call.
LEMMA RefreshEndKeeps ==
    ASSUME TrustInv, NEW c \in RefreshCall, RefreshApply(c) \/ RefreshFail(c)
    PROVE  TrustInv'
<1>1. refresh \in [RefreshCall -> Refresh \cup {None}]
  BY DEF TrustInv, TrustTypeOK
<1>2. refresh[c] # None /\ refresh[c] \in Refresh
  BY <1>1 DEF RefreshApply, RefreshFail, At
<1>3. refresh[c].key \in Key /\ refresh[c].key # None
  BY <1>2, KeyAssumption DEF Refresh
<1>4. /\ refresh' = [refresh EXCEPT ![c] = None]
      /\ UNCHANGED <<identity, record, mark, reset, confirmed>>
  BY DEF RefreshApply, RefreshFail
<1>5. refresh' \in [RefreshCall -> Refresh \cup {None}]
      /\ \A d \in RefreshCall : refresh'[d] = IF d = c THEN None ELSE refresh[d]
  BY <1>1, <1>4
<1>6. CallsConfirmed'
  BY <1>4, <1>5 DEF TrustInv, CallsConfirmed
<1>7. CASE RefreshApply(c)
  <2>1. /\ safety' = refresh[c].key /\ about' = refresh[c].key
        /\ status' = StatusOf(refresh[c]) /\ disturbed' = disturbed
    BY <1>7 DEF RefreshApply
  <2>2. status' = "verified" => refresh[c].verified
    BY <2>1 DEF StatusOf
  <2>3. VerifiedWasConfirmed'
    BY <1>2, <1>4, <2>1, <2>2 DEF TrustInv, CallsConfirmed, VerifiedWasConfirmed
  <2>4. TrustTypeOK'
    BY <1>3, <1>4, <1>5, <2>1 DEF TrustInv, TrustTypeOK, StatusOf
  <2> QED
    BY <1>4, <1>6, <2>3, <2>4 DEF TrustInv, ConfirmedOnly
<1>8. CASE RefreshFail(c)
  <2>1. /\ safety' = safety /\ disturbed' = TRUE
        /\ \/ status' = "unverified" /\ about' = refresh[c].key
           \/ UNCHANGED <<status, about>>
    BY <1>8 DEF RefreshFail
  <2>2. TrustTypeOK'
    BY <1>3, <1>4, <1>5, <2>1 DEF TrustInv, TrustTypeOK
  <2> QED
    BY <1>4, <1>6, <2>1, <2>2 DEF TrustInv, ConfirmedOnly, VerifiedWasConfirmed
<1> QED
  BY <1>7, <1>8

\* Marking records and shows what was confirmed when the call began.
LEMMA MarkKeeps ==
    ASSUME TrustInv, MarkStart \/ MarkSave \/ MarkDone \/ MarkFail
    PROVE  TrustInv'
<1>1. UNCHANGED <<identity, safety, refresh, reset>> /\ disturbed' \in BOOLEAN
  BY DEF MarkStart, MarkSave, MarkDone, MarkFail, Begin, screen, Quiet, TrustInv, TrustTypeOK
<1>2. mark # None => mark \in Mark /\ mark.number \in Key /\ mark.number # None
                     /\ mark.number \in confirmed
  BY KeyAssumption DEF TrustInv, TrustTypeOK, CallsConfirmed, Mark
<1>3. CASE MarkStart
  <2>1. /\ mark' = [number |-> safety, at |-> "saving"] /\ safety \in Key
        /\ confirmed' = confirmed \cup {safety} /\ UNCHANGED <<record, status, about>>
    BY <1>3 DEF MarkStart, screen, TrustInv, TrustTypeOK
  <2>2. mark' \in Mark /\ mark'.number \in confirmed'
    BY <2>1 DEF Mark
  <2>3. TrustTypeOK'
    BY <1>1, <2>1, <2>2 DEF TrustInv, TrustTypeOK
  <2>4. CallsConfirmed'
    BY <1>1, <2>1, <2>2 DEF TrustInv, CallsConfirmed
  <2> QED
    BY <2>1, <2>3, <2>4 DEF TrustInv, ConfirmedOnly, VerifiedWasConfirmed
<1>4. CASE MarkSave
  <2>1. /\ mark # None /\ record' = mark.number
        /\ mark' = [mark EXCEPT !.at = "saved"] /\ UNCHANGED <<confirmed, status, about>>
    BY <1>4 DEF MarkSave, Recorded, screen
  <2>2. mark' \in Mark /\ mark'.number = mark.number
    BY <1>2, <2>1 DEF Mark
  <2>3. TrustTypeOK'
    BY <1>1, <1>2, <2>1, <2>2 DEF TrustInv, TrustTypeOK
  <2>4. CallsConfirmed'
    BY <1>1, <1>2, <2>1, <2>2 DEF TrustInv, CallsConfirmed
  <2> QED
    BY <1>2, <2>1, <2>3, <2>4 DEF TrustInv, ConfirmedOnly, VerifiedWasConfirmed
<1>5. CASE MarkDone
  <2>1. /\ mark # None /\ status' = "verified" /\ about' = mark.number
        /\ mark' = None /\ UNCHANGED <<confirmed, record>>
    BY <1>5 DEF MarkDone
  <2>2. TrustTypeOK'
    BY <1>1, <1>2, <2>1 DEF TrustInv, TrustTypeOK
  <2>3. CallsConfirmed'
    BY <1>1, <2>1 DEF TrustInv, CallsConfirmed
  <2> QED
    BY <1>2, <2>1, <2>2, <2>3 DEF TrustInv, ConfirmedOnly, VerifiedWasConfirmed
<1>6. CASE MarkFail
  <2>1. mark' = None /\ UNCHANGED <<confirmed, record, status, about>>
    BY <1>6 DEF MarkFail, screen
  <2>2. TrustTypeOK'
    BY <1>1, <2>1 DEF TrustInv, TrustTypeOK
  <2>3. CallsConfirmed'
    BY <1>1, <2>1 DEF TrustInv, CallsConfirmed
  <2> QED
    BY <2>1, <2>2, <2>3 DEF TrustInv, ConfirmedOnly, VerifiedWasConfirmed
<1> QED
  BY <1>3, <1>4, <1>5, <1>6

\* Resetting deletes the record and never shows "verified".
LEMMA ResetKeeps ==
    ASSUME TrustInv, ResetStart \/ ResetDelete \/ ResetDone \/ ResetFail
    PROVE  TrustInv'
<1>1. UNCHANGED <<identity, safety, refresh, mark, confirmed>> /\ disturbed' \in BOOLEAN
  BY DEF ResetStart, ResetDelete, ResetDone, ResetFail, Begin, screen, Quiet, TrustInv, TrustTypeOK
<1>2. reset # None => reset \in Reset /\ reset.key \in Key /\ reset.key # None
  BY KeyAssumption DEF TrustInv, TrustTypeOK, Reset
<1>3. CallsConfirmed'
  BY <1>1 DEF TrustInv, CallsConfirmed
<1>4. CASE ResetStart
  <2>1. /\ reset' = [key |-> identity, number |-> safety, at |-> "deleting"]
        /\ identity \in Key /\ safety \in Key \cup {None}
        /\ UNCHANGED <<record, status, about>>
    BY <1>4 DEF ResetStart, screen, TrustInv, TrustTypeOK
  <2>2. reset' \in Reset
    BY <2>1 DEF Reset
  <2>3. TrustTypeOK'
    BY <1>1, <2>1, <2>2 DEF TrustInv, TrustTypeOK
  <2> QED
    BY <1>1, <1>3, <2>1, <2>3 DEF TrustInv, ConfirmedOnly, VerifiedWasConfirmed
<1>5. CASE ResetDelete
  <2>1. /\ reset # None /\ record' = None /\ reset' = [reset EXCEPT !.at = "deleted"]
        /\ UNCHANGED <<status, about>>
    BY <1>5 DEF ResetDelete, screen
  <2>2. reset' \in Reset
    BY <1>2, <2>1 DEF Reset
  <2>3. TrustTypeOK'
    BY <1>1, <2>1, <2>2 DEF TrustInv, TrustTypeOK
  <2> QED
    BY <1>1, <1>3, <2>1, <2>3 DEF TrustInv, ConfirmedOnly, VerifiedWasConfirmed
<1>6. CASE ResetDone
  <2>1. /\ reset # None /\ about' = reset.key /\ reset' = None
        /\ status' \in {"unverified", "no_peer"} /\ UNCHANGED record
    BY <1>6 DEF ResetDone
  <2>2. TrustTypeOK'
    BY <1>1, <1>2, <2>1 DEF TrustInv, TrustTypeOK
  <2> QED
    BY <1>1, <1>3, <2>1, <2>2 DEF TrustInv, ConfirmedOnly, VerifiedWasConfirmed
<1>7. CASE ResetFail
  <2>1. reset' = None /\ UNCHANGED <<record, status, about>>
    BY <1>7 DEF ResetFail, screen
  <2>2. TrustTypeOK'
    BY <1>1, <2>1 DEF TrustInv, TrustTypeOK
  <2> QED
    BY <1>1, <1>3, <2>1, <2>2 DEF TrustInv, ConfirmedOnly, VerifiedWasConfirmed
<1> QED
  BY <1>4, <1>5, <1>6, <1>7

\* A reload forgets the calls under way and what was shown.
LEMMA ReloadKeeps == ASSUME TrustInv, ReloadPage PROVE TrustInv'
<1>1. /\ identity' = None /\ safety' = None /\ status' = "no_peer" /\ about' = None
      /\ mark' = None /\ reset' = None /\ disturbed' = FALSE
      /\ UNCHANGED <<record, confirmed>>
  BY DEF ReloadPage
<1>2. refresh' \in [RefreshCall -> {None}]
  BY DEF ReloadPage
<1>3. TrustTypeOK'
  BY <1>1, <1>2 DEF TrustInv, TrustTypeOK
<1>4. CallsConfirmed'
  BY <1>1, <1>2 DEF CallsConfirmed
<1> QED
  BY <1>1, <1>3, <1>4 DEF TrustInv, ConfirmedOnly, VerifiedWasConfirmed

LEMMA TrustNextInv == TrustInv /\ [TrustNext]_trustVars => TrustInv'
<1> SUFFICES ASSUME TrustInv, [TrustNext]_trustVars PROVE TrustInv'
  OBVIOUS
<1>1. ASSUME NEW k \in Key, ShowPeerKeyless(k) PROVE TrustInv'
  BY <1>1, NoPeerKeeps DEF ShowPeerKeyless
<1>2. ASSUME NEW k \in Key, NEW c \in RefreshCall, ShowPeer(k, c) PROVE TrustInv'
  BY <1>2, ShowPeerKeeps
<1>3. CASE ShowNone
  BY <1>3, NoPeerKeeps DEF ShowNone
<1>4. CASE ReloadPage
  BY <1>4, ReloadKeeps
<1>5. ASSUME NEW c \in RefreshCall,
             \/ RefreshHash(c) \/ RefreshRead(c) \/ RefreshCheck(c)
             \/ RefreshApply(c) \/ RefreshFail(c)
      PROVE  TrustInv'
  BY <1>5, RefreshKeeps, RefreshEndKeeps
<1>6. CASE MarkStart \/ MarkSave \/ MarkDone \/ MarkFail
  BY <1>6, MarkKeeps
<1>7. CASE ResetStart \/ ResetDelete \/ ResetDone \/ ResetFail
  BY <1>7, ResetKeeps
<1>8. CASE UNCHANGED trustVars
  <2>1. TrustTypeOK'
    BY <1>8 DEF trustVars, screen, TrustInv, TrustTypeOK
  <2>2. CallsConfirmed'
    BY <1>8 DEF trustVars, screen, TrustInv, CallsConfirmed
  <2> QED
    BY <1>8, <2>1, <2>2 DEF trustVars, screen, TrustInv, ConfirmedOnly, VerifiedWasConfirmed
<1> QED
  BY <1>1, <1>2, <1>3, <1>4, <1>5, <1>6, <1>7, <1>8 DEF TrustNext

LEMMA TrustInvHolds == TrustSpec => []TrustInv
  BY TrustInitInv, TrustNextInv, PTL DEF TrustSpec

\* The variables keep their types, and every status shown is about some key.
THEOREM TrustTypeCorrect == TrustSpec => []TrustTypeOK
  BY TrustInvHolds, PTL DEF TrustInv

\* The verification record holds only a number that the user confirmed on the screen
\* (markPeerVerified), for any interleaving of refreshes, marks and resets.
THEOREM ConfirmedOnlyHolds == TrustSpec => []ConfirmedOnly
  BY TrustInvHolds, PTL DEF TrustInv

\* "Verified" is only ever set by a call about a key that the user confirmed.
THEOREM VerifiedWasConfirmedHolds == TrustSpec => []VerifiedWasConfirmed
  BY TrustInvHolds, PTL DEF TrustInv
-----------------------------------------------------------------------------
(* The status after calls that neither overlapped nor failed                  *)

\* Since a fresh start there is one call at a time.
OneAtATime ==
    /\ \A c, d \in RefreshCall : refresh[c] # None /\ refresh[d] # None => c = d
    /\ \A c \in RefreshCall : refresh[c] # None => mark = None /\ reset = None
    /\ mark = None \/ reset = None

\* The refresh under way is about the present key, and what it has found out of the
\* record is so still.
RefreshIsCurrent ==
    \A c \in RefreshCall : refresh[c] # None =>
        /\ refresh[c].key = identity
        /\ refresh[c].at \in {"checking", "done"} => refresh[c].found = (record # None)
        /\ refresh[c].at = "done" => refresh[c].verified = (record = identity)

\* Without one the number on the screen is of the present key, and a mark or a reset
\* under way has either changed the record or left the status as it was.
ScreenIsCurrent ==
    (\A c \in RefreshCall : refresh[c] = None) =>
        /\ safety # None => safety = identity
        /\ mark # None => /\ mark.number = identity
                          /\ mark.at = "saved" => record = identity
                          /\ mark.at = "saving" => Agrees
        /\ reset # None => /\ reset.key = identity
                           /\ reset.at = "deleted" => record = None
                           /\ reset.at = "deleting" => Agrees
        /\ mark = None /\ reset = None => Agrees

InTurn == ~disturbed => OneAtATime /\ RefreshIsCurrent /\ ScreenIsCurrent

\* Opening the chat disturbs nothing yet.
LEMMA InitInTurn == TrustInit => InTurn
  BY DEF TrustInit, InTurn, OneAtATime, RefreshIsCurrent, ScreenIsCurrent, Agrees

\* "No peer" agrees with any record, and in a fresh start nothing else is under way.
LEMMA NoPeerInTurn ==
    ASSUME TrustInv, NoPeer, UNCHANGED <<record, mark, reset>>
    PROVE  InTurn'
<1> SUFFICES ASSUME ~disturbed' PROVE (OneAtATime /\ RefreshIsCurrent /\ ScreenIsCurrent)'
  BY DEF InTurn
<1>1. Quiet
  BY DEF NoPeer, FreshStart
<1>2. /\ \A c \in RefreshCall : refresh'[c] = None
      /\ mark' = None /\ reset' = None /\ safety' = None /\ status' = "no_peer"
  BY <1>1 DEF Quiet, NoPeer, Cancelled
<1>3. Agrees'
  BY <1>2 DEF Agrees
<1> QED
  BY <1>2, <1>3 DEF OneAtATime, RefreshIsCurrent, ScreenIsCurrent

\* In a fresh start the refresh of the new peer is the only call.
LEMMA ShowPeerInTurn ==
    ASSUME TrustInv, NEW k \in Key, NEW c \in RefreshCall, ShowPeer(k, c)
    PROVE  InTurn'
<1> DEFINE new == [key |-> k, at |-> "hashing", found |-> FALSE, verified |-> FALSE,
                   live |-> TRUE]
<1> SUFFICES ASSUME ~disturbed' PROVE (OneAtATime /\ RefreshIsCurrent /\ ScreenIsCurrent)'
  BY DEF InTurn
<1>1. Quiet
  BY DEF ShowPeer, FreshStart
<1>2. Cancelled \in [RefreshCall -> Refresh \cup {None}]
  BY CancelledKeeps
<1>3. \A d \in RefreshCall : Cancelled[d] = None
  BY <1>1 DEF Quiet, Cancelled
<1>4. new \in Refresh /\ new.key = k /\ new.at = "hashing"
  BY DEF Refresh
<1>5. new # None
  BY <1>4, CallAssumption
<1>6. /\ refresh' = [Cancelled EXCEPT ![c] = new]
      /\ identity' = k /\ mark' = None /\ reset' = None
  BY <1>1 DEF ShowPeer, Quiet
<1> HIDE DEF new
<1>7. \A d \in RefreshCall : refresh'[d] = IF d = c THEN new ELSE None
  BY <1>2, <1>3, <1>6
<1>8. OneAtATime'
  BY <1>6, <1>7 DEF OneAtATime
<1>9. RefreshIsCurrent'
  BY <1>4, <1>6, <1>7 DEF RefreshIsCurrent
<1> QED
  BY <1>5, <1>7, <1>8, <1>9 DEF ScreenIsCurrent

\* What a refresh reads of the record stays so: nothing else is under way.
LEMMA RefreshInTurn ==
    ASSUME TrustInv, InTurn, NEW c \in RefreshCall,
           RefreshHash(c) \/ RefreshRead(c) \/ RefreshCheck(c)
    PROVE  InTurn'
<1>1. refresh \in [RefreshCall -> Refresh \cup {None}] /\ refresh[c] # None
  BY DEF TrustInv, TrustTypeOK, RefreshHash, RefreshRead, RefreshCheck, At
<1>2. refresh[c] \in Refresh
  BY <1>1
<1>3. UNCHANGED <<identity, safety, status, record, mark, reset, disturbed>>
  BY DEF RefreshHash, RefreshRead, RefreshCheck, screen
<1> SUFFICES ASSUME ~disturbed PROVE (OneAtATime /\ RefreshIsCurrent /\ ScreenIsCurrent)'
  BY <1>3 DEF InTurn
<1>4. OneAtATime /\ RefreshIsCurrent /\ refresh[c].key = identity
  BY <1>1 DEF InTurn, RefreshIsCurrent
<1>5. PICK r \in Refresh :
        /\ refresh' = [refresh EXCEPT ![c] = r]
        /\ r.key = identity
        /\ r.at \in {"checking", "done"} => r.found = (record # None)
        /\ r.at = "done" => r.verified = (record = identity)
  <2>1. CASE RefreshHash(c)
    <3> DEFINE new == [refresh[c] EXCEPT !.at = "reading"]
    <3>1. refresh' = [refresh EXCEPT ![c] = new]
      BY <2>1, <1>1 DEF RefreshHash
    <3>2. new \in Refresh /\ new.key = identity /\ new.at = "reading"
      BY <1>2, <1>4 DEF Refresh
    <3> HIDE DEF new
    <3> QED
      BY <3>1, <3>2
  <2>2. CASE RefreshRead(c)
    <3> DEFINE new == [refresh[c] EXCEPT !.at = "checking", !.found = (record # None)]
    <3>1. refresh' = [refresh EXCEPT ![c] = new]
      BY <2>2, <1>1 DEF RefreshRead
    <3>2. new \in Refresh /\ new.key = identity /\ new.at = "checking"
      BY <1>2, <1>4 DEF Refresh
    <3>3. new.found = (record # None)
      BY <1>2 DEF Refresh
    <3> HIDE DEF new
    <3> QED
      BY <3>1, <3>2, <3>3
  <2>3. CASE RefreshCheck(c)
    <3> DEFINE new == [refresh[c] EXCEPT !.at = "done",
                                      !.verified = (record = refresh[c].key)]
    <3>1. refresh' = [refresh EXCEPT ![c] = new] /\ refresh[c].at = "checking"
      BY <2>3, <1>1 DEF RefreshCheck, IsVerifiedForKey, At
    <3>2. new \in Refresh /\ new.key = identity /\ new.found = refresh[c].found
      BY <1>2, <1>4 DEF Refresh
    <3>3. new.verified = (record = identity)
      BY <1>2, <1>4 DEF Refresh
    <3>4. refresh[c].found = (record # None)
      BY <1>1, <1>4, <3>1 DEF RefreshIsCurrent
    <3> HIDE DEF new
    <3> QED
      BY <3>1, <3>2, <3>3, <3>4
  <2> QED
    BY <2>1, <2>2, <2>3
<1>6. \A d \in RefreshCall : refresh'[d] = IF d = c THEN r ELSE refresh[d]
  BY <1>1, <1>5
<1>7. r # None
  BY CallAssumption
<1>8. OneAtATime'
  BY <1>1, <1>3, <1>4, <1>6 DEF OneAtATime
<1>9. RefreshIsCurrent'
  BY <1>3, <1>4, <1>5, <1>6 DEF RefreshIsCurrent
<1> QED
  BY <1>6, <1>7, <1>8, <1>9 DEF ScreenIsCurrent

\* The only call ends with what the record says of the present key; a failure
\* counts as a disturbance.
LEMMA RefreshEndInTurn ==
    ASSUME TrustInv, InTurn, NEW c \in RefreshCall, RefreshApply(c) \/ RefreshFail(c)
    PROVE  InTurn'
<1> SUFFICES ASSUME ~disturbed' PROVE (OneAtATime /\ RefreshIsCurrent /\ ScreenIsCurrent)'
  BY DEF InTurn
<1>1. RefreshApply(c)
  BY DEF RefreshFail
<1>2. refresh \in [RefreshCall -> Refresh \cup {None}] /\ refresh[c] # None
  BY <1>1 DEF TrustInv, TrustTypeOK, RefreshApply, At
<1>3. refresh[c] \in Refresh /\ refresh[c].at = "done" /\ ~disturbed
  BY <1>1, <1>2 DEF RefreshApply, At
<1>4. /\ safety' = refresh[c].key /\ status' = StatusOf(refresh[c])
      /\ refresh' = [refresh EXCEPT ![c] = None]
      /\ UNCHANGED <<identity, record, mark, reset>>
  BY <1>1 DEF RefreshApply
<1>5. /\ mark = None /\ reset = None /\ \A d \in RefreshCall : d # c => refresh[d] = None
      /\ refresh[c].key = identity /\ refresh[c].found = (record # None)
      /\ refresh[c].verified = (record = identity)
  BY <1>2, <1>3 DEF InTurn, OneAtATime, RefreshIsCurrent
<1>6. identity # None
  BY <1>3, <1>5, KeyAssumption DEF Refresh
<1>7. \A d \in RefreshCall : refresh'[d] = None
  BY <1>2, <1>4, <1>5
<1>8. Agrees'
  BY <1>4, <1>5, <1>6 DEF Agrees, StatusOf
<1> QED
  BY <1>4, <1>5, <1>7, <1>8 DEF OneAtATime, RefreshIsCurrent, ScreenIsCurrent

\* A mark in turn records the key that is present.
LEMMA MarkInTurn ==
    ASSUME TrustInv, InTurn, MarkStart \/ MarkSave \/ MarkDone \/ MarkFail
    PROVE  InTurn'
<1> SUFFICES ASSUME ~disturbed' PROVE (OneAtATime /\ RefreshIsCurrent /\ ScreenIsCurrent)'
  BY DEF InTurn
<1>1. UNCHANGED <<identity, safety, refresh, reset>> /\ ~disturbed
  <2>1. CASE MarkStart
    BY <2>1 DEF MarkStart, Begin, screen
  <2>2. CASE MarkSave \/ MarkDone \/ MarkFail
    BY <2>2 DEF MarkSave, MarkDone, MarkFail, screen
  <2> QED
    BY <2>1, <2>2
<1>2. OneAtATime /\ RefreshIsCurrent /\ ScreenIsCurrent
  BY <1>1 DEF InTurn
<1>3. mark # None => mark \in Mark /\ mark.number # None
  BY KeyAssumption DEF TrustInv, TrustTypeOK, Mark
<1>4. CASE MarkStart
  <2>1. Quiet
    BY <1>4 DEF MarkStart, Begin
  <2>2. /\ mark' = [number |-> safety, at |-> "saving"] /\ safety # None
        /\ UNCHANGED <<record, status>>
    BY <1>4 DEF MarkStart, screen
  <2>3. Agrees /\ safety = identity
    BY <1>2, <2>1, <2>2 DEF Quiet, ScreenIsCurrent
  <2>4. Agrees'
    BY <1>1, <2>2, <2>3 DEF Agrees
  <2> QED
    BY <1>1, <2>1, <2>2, <2>3, <2>4
       DEF Quiet, OneAtATime, RefreshIsCurrent, ScreenIsCurrent
<1>5. CASE MarkSave \/ MarkDone \/ MarkFail
  <2>1. mark # None
    BY <1>5 DEF MarkSave, MarkDone, MarkFail
  <2>2. /\ \A c \in RefreshCall : refresh[c] = None
        /\ reset = None /\ mark.number = identity /\ identity # None
        /\ safety # None => safety = identity
    BY <1>2, <1>3, <2>1 DEF OneAtATime, ScreenIsCurrent
  <2>3. /\ \A c \in RefreshCall : refresh'[c] = None
        /\ reset' = None
        /\ safety' # None => safety' = identity'
    BY <1>1, <2>2
  <2>4. OneAtATime' /\ RefreshIsCurrent'
    BY <2>3 DEF OneAtATime, RefreshIsCurrent
  <2>5. CASE MarkSave
    <3>1. record' = identity /\ mark' = [mark EXCEPT !.at = "saved"]
      BY <2>2, <2>5 DEF MarkSave, Recorded
    <3>2. mark'.number = identity /\ mark'.at = "saved" /\ mark' \in Mark
      BY <1>3, <2>1, <2>2, <3>1 DEF Mark
    <3>3. mark' # None
      BY <3>2, CallAssumption
    <3> QED
      BY <1>1, <2>3, <2>4, <3>1, <3>2, <3>3 DEF ScreenIsCurrent
  <2>6. CASE MarkDone
    <3>1. record = identity
      BY <1>2, <2>1, <2>2, <2>6 DEF MarkDone, ScreenIsCurrent
    <3>2. status' = "verified" /\ mark' = None /\ record' = identity
      BY <2>6, <3>1 DEF MarkDone
    <3>3. Agrees'
      BY <1>1, <2>2, <3>2 DEF Agrees
    <3> QED
      BY <2>3, <2>4, <3>2, <3>3 DEF ScreenIsCurrent
  <2>7. CASE MarkFail
    <3>1. Agrees
      BY <1>2, <2>1, <2>2, <2>7 DEF MarkFail, ScreenIsCurrent
    <3>2. mark' = None /\ UNCHANGED <<record, status>>
      BY <2>7 DEF MarkFail, screen
    <3>3. Agrees'
      BY <1>1, <3>1, <3>2 DEF Agrees
    <3> QED
      BY <2>3, <2>4, <3>2, <3>3 DEF ScreenIsCurrent
  <2> QED
    BY <1>5, <2>5, <2>6, <2>7
<1> QED
  BY <1>4, <1>5

\* A reset in turn leaves no record, and says so of the key that is present.
LEMMA ResetInTurn ==
    ASSUME TrustInv, InTurn, ResetStart \/ ResetDelete \/ ResetDone \/ ResetFail
    PROVE  InTurn'
<1> SUFFICES ASSUME ~disturbed' PROVE (OneAtATime /\ RefreshIsCurrent /\ ScreenIsCurrent)'
  BY DEF InTurn
<1>1. UNCHANGED <<identity, safety, refresh, mark>> /\ ~disturbed
  <2>1. CASE ResetStart
    BY <2>1 DEF ResetStart, Begin, screen
  <2>2. CASE ResetDelete \/ ResetDone \/ ResetFail
    BY <2>2 DEF ResetDelete, ResetDone, ResetFail, screen
  <2> QED
    BY <2>1, <2>2
<1>2. OneAtATime /\ RefreshIsCurrent /\ ScreenIsCurrent
  BY <1>1 DEF InTurn
<1>3. reset # None => reset \in Reset /\ reset.key # None
  BY KeyAssumption DEF TrustInv, TrustTypeOK, Reset
<1>4. CASE ResetStart
  <2>1. Quiet
    BY <1>4 DEF ResetStart, Begin
  <2>2. /\ reset' = [key |-> identity, number |-> safety, at |-> "deleting"]
        /\ UNCHANGED <<record, status>>
    BY <1>4 DEF ResetStart, screen
  <2>3. Agrees /\ (safety # None => safety = identity)
    BY <1>2, <2>1 DEF Quiet, ScreenIsCurrent
  <2>4. Agrees'
    BY <1>1, <2>2, <2>3 DEF Agrees
  <2>5. reset'.key = identity /\ reset'.at = "deleting" /\ reset' # None
    <3>1. reset' \in Reset
      BY <1>4, <2>2 DEF ResetStart, TrustInv, TrustTypeOK, Reset
    <3> QED
      BY <2>2, <3>1, CallAssumption
  <2> QED
    BY <1>1, <2>1, <2>3, <2>4, <2>5
       DEF Quiet, OneAtATime, RefreshIsCurrent, ScreenIsCurrent
<1>5. CASE ResetDelete \/ ResetDone \/ ResetFail
  <2>1. reset # None
    BY <1>5 DEF ResetDelete, ResetDone, ResetFail
  <2>2. /\ \A c \in RefreshCall : refresh[c] = None
        /\ mark = None /\ reset.key = identity /\ identity # None
        /\ safety # None => safety = identity
    BY <1>2, <1>3, <2>1 DEF OneAtATime, ScreenIsCurrent
  <2>3. /\ \A c \in RefreshCall : refresh'[c] = None
        /\ mark' = None
        /\ safety' # None => safety' = identity'
    BY <1>1, <2>2
  <2>4. OneAtATime' /\ RefreshIsCurrent'
    BY <2>3 DEF OneAtATime, RefreshIsCurrent
  <2>5. CASE ResetDelete
    <3>1. record' = None /\ reset' = [reset EXCEPT !.at = "deleted"]
      BY <2>5 DEF ResetDelete
    <3>2. reset'.key = identity /\ reset'.at = "deleted" /\ reset' \in Reset
      BY <1>3, <2>1, <2>2, <3>1 DEF Reset
    <3>3. reset' # None
      BY <3>2, CallAssumption
    <3> QED
      BY <1>1, <2>3, <2>4, <3>1, <3>2, <3>3 DEF ScreenIsCurrent
  <2>6. CASE ResetDone
    <3>1. record = None
      BY <1>2, <2>1, <2>2, <2>6 DEF ResetDone, ScreenIsCurrent
    <3>2. status' \in {"unverified", "no_peer"} /\ reset' = None /\ record' = None
      BY <2>6, <3>1 DEF ResetDone
    <3>3. Agrees'
      BY <1>1, <2>2, <3>2 DEF Agrees
    <3> QED
      BY <2>3, <2>4, <3>2, <3>3 DEF ScreenIsCurrent
  <2>7. CASE ResetFail
    <3>1. Agrees
      BY <1>2, <2>1, <2>2, <2>7 DEF ResetFail, ScreenIsCurrent
    <3>2. reset' = None /\ UNCHANGED <<record, status>>
      BY <2>7 DEF ResetFail, screen
    <3>3. Agrees'
      BY <1>1, <3>1, <3>2 DEF Agrees
    <3> QED
      BY <2>3, <2>4, <3>2, <3>3 DEF ScreenIsCurrent
  <2> QED
    BY <1>5, <2>5, <2>6, <2>7
<1> QED
  BY <1>4, <1>5

LEMMA NextInTurn == TrustInv /\ InTurn /\ [TrustNext]_trustVars => InTurn'
<1> SUFFICES ASSUME TrustInv, InTurn, [TrustNext]_trustVars PROVE InTurn'
  OBVIOUS
<1>1. ASSUME NEW k \in Key, ShowPeerKeyless(k) PROVE InTurn'
  BY <1>1, NoPeerInTurn DEF ShowPeerKeyless
<1>2. ASSUME NEW k \in Key, NEW c \in RefreshCall, ShowPeer(k, c) PROVE InTurn'
  BY <1>2, ShowPeerInTurn
<1>3. CASE ShowNone
  BY <1>3, NoPeerInTurn DEF ShowNone
<1>4. CASE ReloadPage
  <2>1. /\ \A c \in RefreshCall : refresh'[c] = None
        /\ mark' = None /\ reset' = None /\ safety' = None /\ status' = "no_peer"
    BY <1>4 DEF ReloadPage
  <2> QED
    BY <2>1 DEF InTurn, OneAtATime, RefreshIsCurrent, ScreenIsCurrent, Agrees
<1>5. ASSUME NEW c \in RefreshCall,
             \/ RefreshHash(c) \/ RefreshRead(c) \/ RefreshCheck(c)
             \/ RefreshApply(c) \/ RefreshFail(c)
      PROVE  InTurn'
  BY <1>5, RefreshInTurn, RefreshEndInTurn
<1>6. CASE MarkStart \/ MarkSave \/ MarkDone \/ MarkFail
  BY <1>6, MarkInTurn
<1>7. CASE ResetStart \/ ResetDelete \/ ResetDone \/ ResetFail
  BY <1>7, ResetInTurn
<1>8. CASE UNCHANGED trustVars
  BY <1>8 DEF trustVars, screen, InTurn, OneAtATime, RefreshIsCurrent, ScreenIsCurrent, Agrees
<1> QED
  BY <1>1, <1>2, <1>3, <1>4, <1>5, <1>6, <1>7, <1>8 DEF TrustNext

\* As long as no call overlapped another and none failed since the peer was shown, the
\* status the panel shows is what the verification record says of the present key.
THEOREM StatusAgreesHolds == TrustSpec => []StatusAgrees
<1>1. TrustSpec => []InTurn
  BY TrustInvHolds, InitInTurn, NextInTurn, PTL DEF TrustSpec
<1>2. InTurn => StatusAgrees
  BY DEF InTurn, ScreenIsCurrent, StatusAgrees, Quiet
<1> QED
  BY <1>1, <1>2, PTL
=============================================================================
