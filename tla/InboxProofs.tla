------------------------------ MODULE InboxProofs ------------------------------
(* Proofs about Inbox, for any messages and keys of the peer, and any number  *)
(* of times that the room is opened and the key changes.                       *)
EXTENDS Inbox, TLAPS

\* What the plaintexts in memory and in IndexedDB say was opened, was opened.
KeptWasOpened ==
    /\ keys \cup transcript \subseteq spent
    /\ \A j \in Job : call[j] = "opened" => j[1] \in spent

\* A room that became ready in turn has been loaded and has a session, and only a
\* ready room is drained.
ReadyInTurn ==
    /\ ready /\ ~early => ref # None /\ chat = "open"
    /\ drain # {} => ready

\* A room that is not open yet has no key that a session could be derived from.
NoKeyBeforeOpen == chat # "open" => ~initDue /\ deriving = None

\* With nothing of an earlier key about, all that is under way is of the present
\* one: sessions in memory, derived and being saved.  Before anything is decrypted
\* the record is, too, if there is one.
OfPresentKey ==
    clean =>
        /\ chat # "away"
        /\ chat = "loading" => stored = None /\ peer = None
        /\ ref # None => ref.key = peer
        /\ deriving # None => deriving = peer
        /\ \A s \in saves : s.session.key = peer
        /\ initDue => ref = None /\ deriving = None /\ saves = {} /\ ~ready /\ Idle
        /\ ready \/ ~Idle => peer # None /\ (stored # None => stored.key = peer)

Inv == /\ TypeOK
       /\ KeptWasOpened /\ QueueKept
       /\ ReadyInTurn /\ DrainedWhenReady
       /\ NoKeyBeforeOpen /\ OfPresentKey

\* The room is away and nothing has been opened.
LEMMA InitInv == Init => Inv
<1> SUFFICES ASSUME Init PROVE Inv
  OBVIOUS
<1>1. stored \in Session \cup {None}
  BY DEF Init, Session
<1>2. call \in [Job -> Phase] /\ \A j \in Job : call[j] = "idle"
  BY DEF Init, Phase
<1>3. TypeOK
  <2>1. opens \in 0 .. MaxOpen /\ changes \in 0 .. MaxKeys
    BY InboxBoundsAssumption DEF Init
  <2> QED
    BY <1>1, <1>2, <2>1 DEF Init, TypeOK
<1>4. KeptWasOpened /\ QueueKept
  BY <1>2 DEF Init, KeptWasOpened, QueueKept
<1>5. ReadyInTurn /\ DrainedWhenReady /\ NoKeyBeforeOpen /\ OfPresentKey
  BY DEF Init, ReadyInTurn, DrainedWhenReady, Usable, NoKeyBeforeOpen, OfPresentKey
<1> QED
  BY <1>3, <1>4, <1>5 DEF Inv

-----------------------------------------------------------------------------
(* What the steps of decryptCiphertextMsg do                                  *)

\* The session that has opened the message replaces the one it was made from.
LEMMA OpenEffect ==
    ASSUME TypeOK, NEW j \in Job, Open(j)
    PROVE  \E s \in Session :
              /\ s # None /\ s.key = Current.key
              /\ stored' = s /\ ref' = IF chat # "away" THEN s ELSE ref
<1>1. Current \in Session
  BY DEF TypeOK, Open, Current
<1>2. j[1] \in Msg
  BY DEF Job
<1> DEFINE s == [Current EXCEPT !.opened = @ \cup {j[1]}]
<1>3. s \in Session /\ s.key = Current.key
  BY <1>1, <1>2 DEF Session
<1>4. stored' = s /\ ref' = IF chat # "away" THEN s ELSE ref
  BY DEF Open
<1> HIDE DEF s
<1> QED
  BY <1>3, <1>4, NoSessionAssumption

\* A call that ends is not waited for any longer.
LEMMA EndEffect ==
    ASSUME TypeOK, NEW j \in Job, End(j)
    PROVE  /\ call' \in [Job -> Phase]
           /\ \A i \in Job : call'[i] = IF i = j THEN "idle" ELSE call[i]
           /\ current' \in Msg \cup {None}
           /\ current' # None => call'[<<current', "drain">>] # "idle"
<1>1. call' = [call EXCEPT ![j] = "idle"] /\ call \in [Job -> Phase]
  BY DEF End, TypeOK
<1>2. call' \in [Job -> Phase] /\ \A i \in Job : call'[i] = IF i = j THEN "idle" ELSE call[i]
  BY <1>1 DEF Phase
<1>3. ASSUME current' # None
      PROVE  call'[<<current', "drain">>] # "idle"
  <2>1. current' = current /\ j # <<current, "drain">>
    BY <1>3 DEF End
  <2>2. <<current, "drain">> \in Job /\ call[<<current, "drain">>] # "idle"
    BY <1>3, <2>1 DEF TypeOK, Job
  <2> QED
    BY <1>2, <2>1, <2>2
<1>4. current' \in Msg \cup {None}
  BY DEF End, TypeOK
<1> QED
  BY <1>2, <1>3, <1>4

-----------------------------------------------------------------------------
(* Types                                                                      *)

LEMMA RoomTypes ==
    ASSUME TypeOK, OpenRoom \/ LoadRoom \/ LoadFail \/ CloseRoom \/ Crash \/ LeaveRoom
    PROVE  TypeOK'
<1>1. CASE OpenRoom
  <2>1. opens' \in 0 .. MaxOpen
    BY <1>1, InboxBoundsAssumption DEF OpenRoom, TypeOK
  <2>2. clean' \in BOOLEAN
    BY <1>1 DEF OpenRoom
  <2> QED
    BY <1>1, <2>1, <2>2 DEF OpenRoom, BecomeUnready, queueVars, TypeOK
<1>2. CASE LoadRoom
  BY <1>2 DEF LoadRoom, BecomeReady, queueVars, TypeOK
<1>3. CASE LoadFail
  BY <1>3 DEF LoadFail, sessionVars, drainVars, callVars, queueVars, TypeOK
<1>4. CASE CloseRoom
  <2>1. ASSUME NEW x \in saves'
        PROVE  x \in [session : Session, init : BOOLEAN]
    <3>1. \/ x \in saves
          \/ x = [session |-> ref, init |-> FALSE] /\ ref # None
      BY <1>4, <2>1 DEF CloseRoom
    <3>2. saves \subseteq [session : Session, init : BOOLEAN]
      BY DEF TypeOK
    <3>3. ref # None => [session |-> ref, init |-> FALSE] \in [session : Session, init : BOOLEAN]
      BY DEF TypeOK
    <3> QED
      BY <3>1, <3>2, <3>3
  <2>2. /\ chat' = "away" /\ peer' = None /\ ref' = None /\ initDue' = FALSE
        /\ deriving' = None /\ ready' = FALSE /\ early' = FALSE /\ clean' = FALSE
        /\ drainDue' = FALSE /\ drain' = {} /\ current' = None
        /\ deferred' = {} /\ keys' = {}
        /\ UNCHANGED <<opens, changes, call, transcript, spent, queuing, queued,
                       wasQueued, stored, tried>>
    BY <1>4 DEF CloseRoom, BecomeUnready, queueVars
  <2> QED
    BY <2>1, <2>2 DEF TypeOK
<1>5. CASE Crash
  BY <1>5 DEF Crash, BecomeUnready, Phase, TypeOK
<1>6. CASE LeaveRoom
  BY <1>6 DEF LeaveRoom, roomVars, sessionVars, drainVars, TypeOK
<1> QED
  BY <1>1, <1>2, <1>3, <1>4, <1>5, <1>6

LEMMA SessionTypes ==
    ASSUME TypeOK,
           \/ \E k \in Key : HandlePublicKey(k)
           \/ InitEffect \/ Derived
           \/ \E s \in saves : SettleSave(s)
    PROVE  TypeOK'
<1>1. ASSUME NEW k \in Key, HandlePublicKey(k) PROVE TypeOK'
  <2>1. changes' \in 0 .. MaxKeys
    BY <1>1, InboxBoundsAssumption DEF HandlePublicKey, TypeOK
  <2>2. clean' \in BOOLEAN
    BY <1>1 DEF HandlePublicKey, TypeOK
  <2> QED
    BY <1>1, <2>1, <2>2
       DEF HandlePublicKey, DropSession, BecomeUnready, drainVars, callVars, queueVars,
           TypeOK
<1>2. CASE InitEffect
  BY <1>2 DEF InitEffect, BecomeReady, roomVars, callVars, queueVars, TypeOK
<1>3. CASE Derived
  <2> DEFINE s == [key |-> deriving, opened |-> {}]
  <2>1. s \in Session
    BY <1>3 DEF Derived, TypeOK, Session
  <2>2. ref' = s /\ saves' = saves \cup {[session |-> s, init |-> TRUE]}
    BY <1>3 DEF Derived
  <2> HIDE DEF s
  <2>3. [session |-> s, init |-> TRUE] \in [session : Session, init : BOOLEAN]
    BY <2>1
  <2>4. /\ deriving' = None
        /\ UNCHANGED <<chat, opens, changes, peer, ready, initDue, early, clean>>
        /\ UNCHANGED <<drainDue, deferred, drain, current, keys, call, transcript, spent>>
        /\ UNCHANGED <<queuing, queued, wasQueued, stored, tried>>
    BY <1>3 DEF Derived, roomVars, drainVars, callVars, queueVars
  <2> QED
    BY <2>1, <2>2, <2>3, <2>4 DEF TypeOK
<1>4. ASSUME NEW s \in saves, SettleSave(s) PROVE TypeOK'
  <2>1. s.session \in Session
    BY DEF TypeOK
  <2>2. early' \in BOOLEAN /\ drainDue' \in BOOLEAN /\ ready' \in BOOLEAN
    BY <1>4 DEF SettleSave, BecomeReady, TypeOK
  <2> QED
    BY <1>4, <2>1, <2>2
       DEF SettleSave, roomVars, callVars, queueVars, TypeOK
<1> QED
  BY <1>1, <1>2, <1>3, <1>4

LEMMA MessageTypes ==
    ASSUME TypeOK,
           NEW m \in Msg,
           HandleCiphertext(m) \/ QueueCiphertext(m) \/ QueueSaved(m) \/ DrainNext(m)
    PROVE  TypeOK'
<1>1. <<m, "socket">> \in Job /\ <<m, "drain">> \in Job
  BY DEF Job
<1>2. CASE HandleCiphertext(m)
  <2>1. /\ call' \in [Job -> Phase]
        /\ \A j \in Job : call[j] # "idle" => call'[j] # "idle"
        /\ deferred' \subseteq Msg /\ tried' \subseteq Msg
    BY <1>1, <1>2 DEF HandleCiphertext, TypeOK, Phase
  <2>2. current # None => call'[<<current, "drain">>] # "idle"
    BY <2>1 DEF TypeOK, Job
  <2>3. /\ UNCHANGED <<chat, opens, changes, peer, ref, ready, initDue, deriving>>
        /\ UNCHANGED <<saves, early, clean, drainDue, drain, current, keys, transcript>>
        /\ UNCHANGED <<spent, queuing, queued, wasQueued, stored>>
    BY <1>2 DEF HandleCiphertext, roomVars, sessionVars, queueVars
  <2> QED
    BY <2>1, <2>2, <2>3 DEF TypeOK
<1>3. CASE QueueCiphertext(m)
  BY <1>3 DEF QueueCiphertext, roomVars, sessionVars, drainVars, callVars, TypeOK
<1>4. CASE QueueSaved(m)
  BY <1>4 DEF QueueSaved, roomVars, sessionVars, drainVars, callVars, TypeOK
<1>5. CASE DrainNext(m)
  <2>1. call' \in [Job -> Phase] /\ call'[<<m, "drain">>] # "idle"
    BY <1>1, <1>5 DEF DrainNext, TypeOK, Phase
  <2> QED
    BY <1>5, <2>1 DEF DrainNext, roomVars, sessionVars, queueVars, TypeOK
<1> QED
  BY <1>2, <1>3, <1>4, <1>5

LEMMA DrainTypes == ASSUME TypeOK, DrainEffect PROVE TypeOK'
  BY DEF DrainEffect, roomVars, sessionVars, callVars, queueVars, TypeOK

LEMMA DecryptTypes ==
    ASSUME TypeOK, NEW j \in Job, DecryptStep(j)
    PROVE  TypeOK'
<1>1. j[1] \in Msg
  BY DEF Job
<1>2. CASE Open(j)
  <2>1. ref' \in Session \cup {None} /\ stored' \in Session
    BY <1>2, OpenEffect DEF TypeOK
  <2>2. /\ call' \in [Job -> Phase]
        /\ current # None => call'[<<current, "drain">>] # "idle"
    BY <1>2 DEF Open, TypeOK, Phase
  <2>3. keys' \subseteq Msg /\ spent' \subseteq Msg /\ tried' \subseteq Msg
    BY <1>1, <1>2 DEF Open, Waiting, TypeOK
  <2> QED
    BY <1>2, <2>1, <2>2, <2>3 DEF Open, roomVars, drainVars, queueVars, TypeOK
<1>3. CASE Duplicate(j)
  BY <1>1, <1>3, EndEffect
     DEF Duplicate, Waiting, Unqueue, roomVars, sessionVars, TypeOK
<1>4. CASE Reject(j)
  BY <1>1, <1>4, EndEffect DEF Reject, Waiting, roomVars, sessionVars, queueVars, TypeOK
<1>5. CASE KeepPlaintext(j)
  BY <1>1, <1>5, EndEffect DEF KeepPlaintext, Unqueue, roomVars, sessionVars, TypeOK
<1> QED
  BY <1>2, <1>3, <1>4, <1>5 DEF DecryptStep

LEMMA NextTypes == TypeOK /\ [Next]_vars => TypeOK'
<1> SUFFICES ASSUME TypeOK, [Next]_vars PROVE TypeOK'
  OBVIOUS
<1>1. CASE OpenRoom \/ LoadRoom \/ LoadFail \/ CloseRoom \/ Crash \/ LeaveRoom
  BY <1>1, RoomTypes
<1>2. CASE \/ \E k \in Key : HandlePublicKey(k)
           \/ InitEffect \/ Derived
           \/ \E s \in saves : SettleSave(s)
  BY <1>2, SessionTypes
<1>3. ASSUME NEW m \in Msg,
             HandleCiphertext(m) \/ QueueCiphertext(m) \/ QueueSaved(m) \/ DrainNext(m)
      PROVE  TypeOK'
  BY <1>3, MessageTypes
<1>4. CASE DrainEffect
  BY <1>4, DrainTypes
<1>5. ASSUME NEW j \in Job, DecryptStep(j) PROVE TypeOK'
  BY <1>5, DecryptTypes
<1>6. CASE UNCHANGED vars
  BY <1>6 DEF vars, roomVars, sessionVars, drainVars, callVars, queueVars, TypeOK
<1> QED
  BY <1>1, <1>2, <1>3, <1>4, <1>5, <1>6 DEF Next

-----------------------------------------------------------------------------
(* Queued ciphertexts                                                         *)

\* What a step may take from the records was opened, and what counts as opened was.
LEMMA NextKept ==
    ASSUME Inv, [Next]_vars
    PROVE  KeptWasOpened' /\ QueueKept'
<1>1. TypeOK /\ KeptWasOpened /\ QueueKept
  BY DEF Inv
<1>2. \A j \in Job : j[1] \in Msg
  BY DEF Job
<1>3. CASE OpenRoom \/ LoadFail \/ CloseRoom
  <2>1. /\ keys' \subseteq keys
        /\ UNCHANGED <<call, transcript, spent, wasQueued, queued>>
    BY <1>3 DEF OpenRoom, LoadFail, CloseRoom, callVars, queueVars
  <2> QED
    BY <1>1, <2>1 DEF KeptWasOpened, QueueKept
<1>4. CASE LoadRoom
  <2>1. keys' = transcript /\ UNCHANGED <<call, transcript, spent, wasQueued, queued>>
    BY <1>4 DEF LoadRoom, queueVars
  <2> QED
    BY <1>1, <2>1 DEF KeptWasOpened, QueueKept
<1>5. CASE Crash
  <2>1. /\ keys' = {} /\ \A j \in Job : call'[j] = "idle"
        /\ UNCHANGED <<transcript, spent, wasQueued, queued>>
    BY <1>5 DEF Crash
  <2> QED
    BY <1>1, <2>1 DEF KeptWasOpened, QueueKept
<1>6. CASE \/ \E k \in Key : HandlePublicKey(k)
           \/ InitEffect \/ Derived \/ DrainEffect
           \/ \E s \in saves : SettleSave(s)
           \/ \E m \in Msg : QueueCiphertext(m)
           \/ UNCHANGED vars
  <2>1. UNCHANGED <<keys, call, transcript, spent, wasQueued, queued>>
    BY <1>6 DEF HandlePublicKey, InitEffect, Derived, DrainEffect, SettleSave,
                QueueCiphertext, vars, callVars, queueVars
  <2> QED
    BY <1>1, <2>1 DEF KeptWasOpened, QueueKept
<1>7. ASSUME NEW m \in Msg, QueueSaved(m)
      PROVE  KeptWasOpened' /\ QueueKept'
  <2>1. /\ UNCHANGED <<keys, call, transcript, spent>>
        /\ \/ queued' = queued \cup {m} /\ wasQueued' = wasQueued \cup {m}
           \/ UNCHANGED <<queued, wasQueued>>
    BY <1>7 DEF QueueSaved, callVars
  <2> QED
    BY <1>1, <2>1 DEF KeptWasOpened, QueueKept
<1>8. ASSUME NEW m \in Msg, HandleCiphertext(m) \/ DrainNext(m)
      PROVE  KeptWasOpened' /\ QueueKept'
  <2>1. UNCHANGED <<keys, transcript, spent, wasQueued, queued>>
    BY <1>8 DEF HandleCiphertext, DrainNext, queueVars
  <2>2. \A j \in Job : call'[j] = "opened" => call[j] = "opened"
    BY <1>1, <1>8 DEF HandleCiphertext, DrainNext, TypeOK
  <2> QED
    BY <1>1, <2>1, <2>2 DEF KeptWasOpened, QueueKept
<1>9. ASSUME NEW j \in Job, Open(j)
      PROVE  KeptWasOpened' /\ QueueKept'
  <2>1. /\ keys' = keys \cup {j[1]} /\ spent' = spent \cup {j[1]}
        /\ UNCHANGED <<transcript, wasQueued, queued>>
    BY <1>9 DEF Open, queueVars
  <2>2. \A i \in Job : call'[i] = "opened" => i = j \/ call[i] = "opened"
    BY <1>1, <1>9 DEF Open, TypeOK
  <2> QED
    BY <1>1, <2>1, <2>2 DEF KeptWasOpened, QueueKept
<1>10. ASSUME NEW j \in Job, Duplicate(j) \/ Reject(j) \/ KeepPlaintext(j)
       PROVE  KeptWasOpened' /\ QueueKept'
  <2>1. End(j) /\ UNCHANGED <<keys, spent, wasQueued>>
    BY <1>10 DEF Duplicate, Reject, KeepPlaintext, queueVars
  <2>2. \A i \in Job : call'[i] = "opened" => call[i] = "opened"
    BY <1>1, <2>1, EndEffect
  <2>3. transcript' = transcript \/ (j[1] \in spent /\ transcript' = transcript \cup {j[1]})
    BY <1>1, <1>10 DEF Duplicate, Reject, KeepPlaintext, KeptWasOpened
  <2>4. queued' = queued \/ (j[1] \in spent /\ queued' = queued \ {j[1]})
    BY <1>1, <1>10 DEF Duplicate, Reject, KeepPlaintext, KeptWasOpened, Unqueue, queueVars
  <2> QED
    BY <1>1, <2>1, <2>2, <2>3, <2>4 DEF KeptWasOpened, QueueKept
<1>11. CASE LeaveRoom
  <2>1. transcript' = {} /\ wasQueued' = {} /\ UNCHANGED <<keys, call, spent>>
    BY <1>11 DEF LeaveRoom
  <2> QED
    BY <1>1, <2>1 DEF KeptWasOpened, QueueKept
<1> QED
  BY <1>3, <1>4, <1>5, <1>6, <1>7, <1>8, <1>9, <1>10, <1>11 DEF Next, DecryptStep

-----------------------------------------------------------------------------
(* Readiness and the drain                                                    *)

\* A step that makes the room usable lets the effect of being ready run, unless the
\* room was ready too early.
LEMMA NextReady ==
    ASSUME Inv, [Next]_vars
    PROVE  ReadyInTurn' /\ DrainedWhenReady' /\ NoKeyBeforeOpen'
<1>1. TypeOK /\ ReadyInTurn /\ DrainedWhenReady /\ NoKeyBeforeOpen
  BY DEF Inv
<1> USE DEF ReadyInTurn, DrainedWhenReady, NoKeyBeforeOpen, Usable
<1>2. CASE OpenRoom \/ CloseRoom \/ Crash
  BY <1>1, <1>2 DEF OpenRoom, CloseRoom, Crash, BecomeUnready
<1>3. CASE LoadRoom
  BY <1>1, <1>3 DEF LoadRoom, BecomeReady, TypeOK
<1>4. CASE LoadFail
  BY <1>1, <1>4 DEF LoadFail, sessionVars, drainVars
<1>5. ASSUME NEW k \in Key, HandlePublicKey(k)
      PROVE  ReadyInTurn' /\ DrainedWhenReady' /\ NoKeyBeforeOpen'
  BY <1>1, <1>5 DEF HandlePublicKey, DropSession, BecomeUnready, drainVars
<1>6. CASE InitEffect
  BY <1>1, <1>6 DEF InitEffect, BecomeReady, roomVars, TypeOK
<1>7. CASE Derived
  BY <1>1, <1>7, NoSessionAssumption DEF Derived, roomVars, drainVars, TypeOK, Session
<1>8. ASSUME NEW s \in saves, SettleSave(s)
      PROVE  ReadyInTurn' /\ DrainedWhenReady' /\ NoKeyBeforeOpen'
  BY <1>1, <1>8 DEF SettleSave, BecomeReady, roomVars, TypeOK
<1>9. ASSUME NEW m \in Msg, HandleCiphertext(m)
      PROVE  ReadyInTurn' /\ DrainedWhenReady' /\ NoKeyBeforeOpen'
  BY <1>1, <1>9 DEF HandleCiphertext, IsDeferred, roomVars, sessionVars
<1>10. ASSUME NEW m \in Msg, QueueCiphertext(m) \/ QueueSaved(m)
       PROVE  ReadyInTurn' /\ DrainedWhenReady' /\ NoKeyBeforeOpen'
  BY <1>1, <1>10 DEF QueueCiphertext, QueueSaved, roomVars, sessionVars, drainVars
<1>11. ASSUME NEW m \in Msg, DrainNext(m)
       PROVE  ReadyInTurn' /\ DrainedWhenReady' /\ NoKeyBeforeOpen'
  BY <1>1, <1>11 DEF DrainNext, roomVars, sessionVars
<1>12. CASE DrainEffect
  BY <1>1, <1>12 DEF DrainEffect, roomVars, sessionVars
<1>13. ASSUME NEW j \in Job, Open(j)
       PROVE  ReadyInTurn' /\ DrainedWhenReady' /\ NoKeyBeforeOpen'
  <2>1. /\ ref' # None \/ ref' = ref
        /\ ref' = ref \/ chat # "away"
    BY <1>1, <1>13, OpenEffect
  <2>2. UNCHANGED <<chat, ready, initDue, deriving, early, drainDue, deferred, drain>>
    BY <1>13 DEF Open, roomVars, drainVars
  <2> QED
    BY <1>1, <2>1, <2>2
<1>14. ASSUME NEW j \in Job, Duplicate(j) \/ Reject(j) \/ KeepPlaintext(j)
       PROVE  ReadyInTurn' /\ DrainedWhenReady' /\ NoKeyBeforeOpen'
  BY <1>1, <1>14 DEF Duplicate, Reject, KeepPlaintext, roomVars, sessionVars
<1>15. CASE LeaveRoom \/ UNCHANGED vars
  BY <1>1, <1>15 DEF LeaveRoom, vars, roomVars, sessionVars, drainVars
<1> QED
  BY <1>2, <1>3, <1>4, <1>5, <1>6, <1>7, <1>8, <1>9, <1>10, <1>11, <1>12, <1>13, <1>14,
     <1>15 DEF Next, DecryptStep

-----------------------------------------------------------------------------
(* The session of the present key                                             *)

\* Opening the room with no record and nothing under way, and another key when
\* nothing of the one before is under way, leave nothing of another key about.
LEMMA CleanStart ==
    ASSUME Inv, OpenRoom \/ \E k \in Key : HandlePublicKey(k)
    PROVE  OfPresentKey'
<1>1. TypeOK /\ NoKeyBeforeOpen /\ OfPresentKey
  BY DEF Inv
<1>2. CASE OpenRoom
  <2> SUFFICES ASSUME clean' PROVE OfPresentKey'
    BY DEF OfPresentKey
  <2>1. stored = None /\ saves = {} /\ Idle /\ chat = "away"
    BY <1>2 DEF OpenRoom
  <2>2. /\ chat' = "loading" /\ peer' = None /\ ref' = None /\ ready' = FALSE
        /\ UNCHANGED <<initDue, deriving, saves, call, stored>>
    BY <1>2 DEF OpenRoom, BecomeUnready
  <2>3. ~initDue /\ deriving = None
    BY <1>1, <2>1 DEF NoKeyBeforeOpen
  <2> QED
    BY <2>1, <2>2, <2>3 DEF OfPresentKey, Idle
<1>3. ASSUME NEW k \in Key, HandlePublicKey(k)
      PROVE  OfPresentKey'
  <2> SUFFICES ASSUME clean' PROVE OfPresentKey'
    BY DEF OfPresentKey
  <2>1. /\ chat = "open" /\ peer' = k
        /\ UNCHANGED <<chat, deriving, saves, call, stored>>
    BY <1>3 DEF HandlePublicKey, callVars
  <2>2. CASE peer # None
    <3>1. Idle /\ saves = {} /\ deriving = None
      BY <1>3, <2>2 DEF HandlePublicKey
    <3>2. ref' = None /\ ready' = FALSE
      BY <1>3, <2>2 DEF HandlePublicKey, DropSession, BecomeUnready
    <3> QED
      BY <2>1, <3>1, <3>2 DEF OfPresentKey, Idle
  <2>3. CASE peer = None
    <3>1. UNCHANGED <<ref, ready>> /\ clean
      BY <1>3, <2>3 DEF HandlePublicKey
    <3>2. ref = None /\ deriving = None /\ saves = {} /\ ~ready /\ Idle
      <4>1. ref = None
        BY <1>1, <2>3, <3>1, KeyAssumption DEF OfPresentKey, TypeOK, Session
      <4>2. deriving = None
        BY <1>1, <2>3, <3>1 DEF OfPresentKey
      <4>3. saves = {}
        BY <1>1, <2>3, <3>1, KeyAssumption DEF OfPresentKey, TypeOK, Session
      <4>4. ~ready /\ Idle
        BY <1>1, <2>3, <3>1, KeyAssumption DEF OfPresentKey, TypeOK, Session
      <4> QED
        BY <4>1, <4>2, <4>3, <4>4
    <3> QED
      BY <2>1, <3>1, <3>2 DEF OfPresentKey, Idle
  <2> QED
    BY <2>2, <2>3
<1> QED
  BY <1>2, <1>3

LEMMA NextOfPresentKey ==
    ASSUME Inv, [Next]_vars
    PROVE  OfPresentKey'
<1>1. TypeOK /\ ReadyInTurn /\ NoKeyBeforeOpen /\ OfPresentKey
  BY DEF Inv
<1>2. CASE OpenRoom \/ \E k \in Key : HandlePublicKey(k)
  BY <1>2, CleanStart
<1>3. CASE CloseRoom \/ Crash
  BY <1>3 DEF CloseRoom, Crash, OfPresentKey
<1>4. CASE LoadRoom \/ LoadFail
  <2>1. /\ clean => stored = None
        /\ chat' = "open" /\ UNCHANGED <<peer, initDue, deriving, saves, clean, call, stored>>
        /\ stored = None => UNCHANGED <<ref, ready>>
    BY <1>1, <1>4 DEF LoadRoom, LoadFail, sessionVars, callVars, OfPresentKey
  <2> QED
    BY <1>1, <2>1 DEF OfPresentKey, Idle
<1>5. CASE InitEffect
  <2>1. /\ initDue /\ ~initDue' /\ UNCHANGED <<chat, peer, ref, saves, clean, call, stored>>
        /\ ref = None => deriving' = peer /\ UNCHANGED ready
    BY <1>5 DEF InitEffect, roomVars, callVars
  <2>2. clean => ref = None
    BY <1>1, <2>1 DEF OfPresentKey
  <2> QED
    BY <1>1, <2>1, <2>2 DEF OfPresentKey, Idle
<1>6. CASE Derived
  <2> DEFINE s == [key |-> deriving, opened |-> {}]
  <2>1. /\ deriving # None /\ deriving' = None /\ ref' = s
        /\ saves' = saves \cup {[session |-> s, init |-> TRUE]}
        /\ UNCHANGED <<chat, peer, ready, initDue, clean, call, stored>>
    BY <1>6 DEF Derived, roomVars, callVars
  <2>2. s.key = deriving
    OBVIOUS
  <2> HIDE DEF s
  <2>3. chat = "open"
    BY <1>1, <2>1 DEF NoKeyBeforeOpen
  <2>4. clean => deriving = peer /\ ~initDue
    BY <1>1, <2>1 DEF OfPresentKey
  <2>5. clean => \A t \in saves' : t.session.key = peer
    BY <1>1, <2>1, <2>2, <2>4 DEF OfPresentKey
  <2> QED
    BY <1>1, <2>1, <2>2, <2>3, <2>4, <2>5 DEF OfPresentKey, Idle
<1>7. ASSUME NEW s \in saves, SettleSave(s)
      PROVE  OfPresentKey'
  <2>1. /\ saves' \subseteq saves /\ UNCHANGED <<chat, peer, ref, initDue, deriving, clean, call>>
        /\ \/ stored' = s.session
           \/ UNCHANGED <<stored, ready>>
    BY <1>7 DEF SettleSave, roomVars, callVars
  <2>2. s.session # None
    BY <1>1, NoSessionAssumption DEF TypeOK
  <2>3. clean => s.session.key = peer /\ ~initDue
    BY <1>1 DEF OfPresentKey
  <2>4. s.session.key # None
    BY <1>1, KeyAssumption DEF TypeOK, Session
  <2>5. clean => chat = "open"
    BY <1>1, <2>3, <2>4 DEF OfPresentKey, TypeOK
  <2> QED
    BY <1>1, <2>1, <2>2, <2>3, <2>4, <2>5 DEF OfPresentKey, Idle
<1>8. ASSUME NEW m \in Msg, HandleCiphertext(m) \/ DrainNext(m)
      PROVE  OfPresentKey'
  <2>1. UNCHANGED <<chat, peer, ref, ready, initDue, deriving, saves, clean, stored>>
    BY <1>8 DEF HandleCiphertext, DrainNext, roomVars, sessionVars
  <2>2. call' = call \/ ready
    BY <1>1, <1>8 DEF HandleCiphertext, DrainNext, IsDeferred, ReadyInTurn, TypeOK
  <2> QED
    BY <1>1, <2>1, <2>2 DEF OfPresentKey, Idle
<1>9. ASSUME NEW j \in Job, Open(j)
      PROVE  OfPresentKey'
  <2>1. UNCHANGED <<chat, peer, ready, initDue, deriving, saves, clean>>
    BY <1>9 DEF Open, roomVars
  <2>2. ~Idle
    BY <1>9 DEF Open, Waiting, Idle
  <2>3. PICK s \in Session :
           /\ s # None /\ s.key = Current.key
           /\ stored' = s /\ ref' = IF chat # "away" THEN s ELSE ref
    BY <1>1, <1>9, OpenEffect
  <2>4. clean => peer # None /\ chat = "open" /\ ~initDue
    BY <1>1, <2>2 DEF OfPresentKey, TypeOK
  <2>5. clean => s.key = peer
    <3>1. Current # None
      BY <1>9 DEF Open
    <3>2. clean => Current.key = peer
      BY <1>1, <2>2, <3>1 DEF OfPresentKey, Current
    <3> QED
      BY <2>3, <3>2
  <2> QED
    BY <1>1, <2>1, <2>2, <2>3, <2>4, <2>5 DEF OfPresentKey
<1>10. ASSUME NEW j \in Job, Duplicate(j) \/ Reject(j) \/ KeepPlaintext(j)
       PROVE  OfPresentKey'
  <2>1. End(j) /\ UNCHANGED <<chat, peer, ref, ready, initDue, deriving, saves, clean, stored>>
    BY <1>10 DEF Duplicate, Reject, KeepPlaintext, roomVars, sessionVars
  <2>2. Idle => Idle'
    BY <1>1, <2>1, EndEffect DEF Idle
  <2> QED
    BY <1>1, <2>1, <2>2 DEF OfPresentKey
<1>11. CASE \/ \E m \in Msg : QueueCiphertext(m) \/ QueueSaved(m)
            \/ DrainEffect \/ UNCHANGED vars
  <2>1. UNCHANGED <<chat, peer, ref, ready, initDue, deriving, saves, clean, call, stored>>
    BY <1>11 DEF QueueCiphertext, QueueSaved, DrainEffect, vars, roomVars, sessionVars, callVars
  <2> QED
    BY <1>1, <2>1 DEF OfPresentKey, Idle
<1>12. CASE LeaveRoom
  <2>1. /\ UNCHANGED <<chat, peer, ref, ready, initDue, deriving, saves, clean, call>>
        /\ stored' = None
    BY <1>12 DEF LeaveRoom, roomVars, sessionVars
  <2> QED
    BY <1>1, <2>1 DEF OfPresentKey, Idle
<1> QED
  BY <1>2, <1>3, <1>4, <1>5, <1>6, <1>7, <1>8, <1>9, <1>10, <1>11, <1>12
     DEF Next, DecryptStep

-----------------------------------------------------------------------------

LEMMA InvHolds == Spec => []Inv
<1>1. Inv /\ [Next]_vars => Inv'
  BY NextTypes, NextKept, NextReady, NextOfPresentKey DEF Inv
<1> QED
  BY InitInv, <1>1, PTL DEF Spec

\* The variables keep their types: the drain that waits, waits for a call under way.
THEOREM TypeCorrect == Spec => []TypeOK
  BY InvHolds, PTL DEF Inv

\* queueInboundCiphertext and its records: whatever fails, closes or is opened in
\* between, a record goes only when the ratchet has opened its message or the user
\* leaves the room.
THEOREM QueueKeptHolds == Spec => []QueueKept
  BY InvHolds, PTL DEF Inv

\* pendingCiphertextRef: in a usable room whose effect has run, no message waits in
\* memory, unless the room was called ready before it was loaded or had a session.
THEOREM DrainedWhenReadyHolds == Spec => []DrainedWhenReady
  BY InvHolds, PTL DEF Inv

\* handlePublicKey and the init effect: where no save, call or derivation of an earlier
\* key was under way when the present key came, messages are opened with a session of
\* the present key.
THEOREM SessionOfPresentKeyHolds == Spec => []SessionOfPresentKey
<1>1. Inv => SessionOfPresentKey
  BY DEF Inv, OfPresentKey, SessionOfPresentKey, Usable
<1> QED
  BY InvHolds, <1>1, PTL
=============================================================================
