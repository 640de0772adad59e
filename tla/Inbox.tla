-------------------------------- MODULE Inbox --------------------------------
(***************************************************************************)
(* Ciphertexts on their way to the ratchet, for one room in one tab of     *)
(* useLiveRatchetChat.ts: those that come while the session is not ready   *)
(* wait in memory (pendingCiphertextRef), those that come while another    *)
(* room is open wait in IndexedDB (pending-ciphertext records) until the   *)
(* room is opened; and how the session they wait for comes about, from the *)
(* record or from the key of the peer.                                     *)
(*                                                                         *)
(* React effects run some time after the state that they depend on was     *)
(* set.  What happens under the ratchet lock is one step; ChatSession has  *)
(* its inside, several tabs, and encryption.                               *)
(***************************************************************************)
EXTENDS Naturals, FiniteSets

CONSTANTS
    Msg,      \* ciphertexts of the peer
    Key,      \* identity keys of the peer
    MaxOpen,  \* bound: how often the room is opened
    MaxKeys,  \* bound: how many frames announce another key than the one before
    None      \* no key, no session, no message

ASSUME KeyAssumption == None \notin Key
ASSUME InboxBoundsAssumption == MaxOpen \in Nat /\ MaxKeys \in Nat

VARIABLES
    chat,       \* the room: another one is open, being loaded, open
    peer,       \* the peer's key: peerIdentity and recipientPublicKey
    ref,        \* ratchetSessionRef
    ready,      \* sessionReady
    initDue,    \* the effect that depends on recipientPublicKey is about to run
    deriving,   \* the key that a session is being derived from
    drainDue,   \* the effect that depends on sessionReady is about to run
    deferred,   \* pendingCiphertextRef
    drain,      \* the messages that the drain under way has still to open
    current,    \* the message that it waits for
    keys,       \* inboundMessageKeysRef
    call,       \* the calls of decryptCiphertextMsg, for the socket and the drain
    saves,      \* saves of the session under way outside the lock
    stored,     \* the session record
    transcript, \* the messages in IndexedDB
    queuing,    \* ciphertexts being saved
    queued,     \* the pending-ciphertext records
    opens, changes,
    wasQueued,  \* history: messages that were in a record since the user last left
    spent,      \* history: messages that some session opened and saved
    tried,      \* history: messages that were tried since they were deferred last
    early,      \* history: the room became ready before it had a session or was loaded
    clean       \* history: nothing of an earlier key was about when the present came

roomVars == <<chat, opens, changes>>
sessionVars == <<peer, ref, ready, initDue, deriving, saves, early, clean>>
drainVars == <<drainDue, deferred, drain, current>>
callVars == <<keys, call, transcript, spent>>
queueVars == <<queuing, queued, wasQueued>>
vars == <<roomVars, sessionVars, drainVars, callVars, queueVars, stored, tried>>

\* A session: the key it was derived with and the messages it has opened.
Session == [key : Key, opened : SUBSET Msg]

ASSUME NoSessionAssumption == None \notin Session

Job == Msg \X {"socket", "drain"}

\* A call waits for the lock; it has opened the message and not kept it yet.
Phase == {"idle", "waiting", "opened"}

Init ==
    /\ chat = "away" /\ opens = 0 /\ changes = 0
    /\ peer = None /\ ref = None /\ ready = FALSE
    /\ initDue = FALSE /\ deriving = None /\ saves = {}
    /\ drainDue = FALSE /\ deferred = {} /\ drain = {} /\ current = None
    /\ keys = {} /\ call = [j \in Job |-> "idle"]
    /\ stored \in {None} \cup [key : Key, opened : {{}}]
    /\ transcript = {}
    /\ queuing = {} /\ queued \in SUBSET Msg
    /\ wasQueued = queued /\ spent = {} /\ tried = {}
    /\ early = FALSE /\ clean = FALSE

-----------------------------------------------------------------------------
(* Readiness                                                               *)

\* Fault: the flag is set and nothing is rendered, so that no effect runs.
FaultyBecomeReady == ready' = TRUE /\ UNCHANGED drainDue

\* setSessionReady(true): the drain effect will run if that is a change.
BecomeReady ==
    /\ ready' = TRUE
    /\ drainDue' = (drainDue \/ ~ready)

\* setSessionReady(false), which also cleans up the drain effect: the drain ends
\* when its present call does.
BecomeUnready ==
    /\ ready' = FALSE /\ early' = FALSE
    /\ drainDue' = FALSE /\ drain' = {} /\ current' = None

Usable == chat = "open" /\ ready /\ ref # None

Idle == \A j \in Job : call[j] = "idle"

-----------------------------------------------------------------------------
(* Opening and closing the room                                            *)

OpenRoom ==
    /\ chat = "away" /\ opens < MaxOpen
    /\ chat' = "loading" /\ opens' = opens + 1
    /\ peer' = None /\ ref' = None
    /\ BecomeUnready
    /\ deferred' = {} /\ keys' = {}
    /\ clean' = (stored = None /\ saves = {} /\ Idle)
    /\ UNCHANGED <<changes, initDue, deriving, saves, call, transcript, spent,
                   queueVars, stored, tried>>

\* The transcript, the session and the queued ciphertexts have been read.
LoadRoom ==
    /\ chat = "loading"
    /\ chat' = "open"
    /\ keys' = transcript
    /\ deferred' = queued
    /\ tried' = tried \ queued
    /\ IF stored # None THEN ref' = stored /\ BecomeReady
       ELSE UNCHANGED <<ref, ready, drainDue>>
    /\ UNCHANGED <<opens, changes, peer, initDue, deriving, saves, early, clean,
                   drain, current, call, transcript, spent, queueVars, stored>>

\* IndexedDB fails: the room opens without any of it.
LoadFail ==
    /\ chat = "loading"
    /\ chat' = "open"
    /\ UNCHANGED <<opens, changes, sessionVars, drainVars, callVars, queueVars, stored,
                   tried>>

\* Another room is selected.  The session in memory is saved; calls, and saves
\* under way, go on.
CloseRoom ==
    /\ chat # "away"
    /\ chat' = "away"
    /\ saves' = saves \cup {[session |-> s, init |-> FALSE] : s \in {ref} \ {None}}
    /\ peer' = None /\ ref' = None /\ initDue' = FALSE /\ deriving' = None
    /\ BecomeUnready
    /\ deferred' = {} /\ keys' = {} /\ clean' = FALSE
    /\ UNCHANGED <<opens, changes, call, transcript, spent, queueVars, stored, tried>>

\* The tab closes: what is in IndexedDB stays.
Crash ==
    /\ chat' = "away"
    /\ peer' = None /\ ref' = None /\ initDue' = FALSE /\ deriving' = None
    /\ BecomeUnready
    /\ saves' = {} /\ deferred' = {} /\ keys' = {} /\ clean' = FALSE
    /\ call' = [j \in Job |-> "idle"]
    /\ queuing' = {}
    /\ UNCHANGED <<opens, changes, transcript, spent, queued, wasQueued, stored, tried>>

\* The user leaves the room for good: clearRoomLocalState deletes its records in one
\* transaction.  Calls, saves and what is in memory go on, and selecting another room
\* is the CloseRoom after it.  A clear that fails is no step, and one of no records
\* is left out; so is leaving a room that could not be opened again (MaxOpen).
LeaveRoom ==
    /\ opens < MaxOpen
    /\ stored # None \/ transcript # {} \/ queued # {}
    /\ stored' = None /\ transcript' = {}
    /\ queued' = {} /\ wasQueued' = {}
    /\ UNCHANGED <<roomVars, sessionVars, drainVars, keys, call, spent, queuing, tried>>

-----------------------------------------------------------------------------
(* The key of the peer and the session derived from it                     *)

\* Fault: a new key leaves the session in memory.
FaultyDropSession == UNCHANGED <<ref, ready, early, drainDue, drain, current, deferred>>

DropSession == /\ ref' = None /\ deferred' = {}
               /\ BecomeUnready

\* public_key: the first key of the room, the same again, or another one, which
\* drops the session and the messages deferred.  The init effect runs if the key
\* is not the one before.
HandlePublicKey(k) ==
    /\ chat = "open" /\ k # peer
    /\ changes < MaxKeys
    /\ changes' = changes + 1
    /\ peer' = k /\ initDue' = TRUE
    /\ IF peer # None
       THEN /\ DropSession
            /\ clean' = (Idle /\ saves = {} /\ ~initDue /\ deriving = None)
       ELSE UNCHANGED <<ref, ready, early, drainVars, clean>>
    /\ UNCHANGED <<chat, opens, deriving, saves, callVars, queueVars, stored, tried>>

\* The effect: a session in memory will do, whatever key it is of; otherwise one is
\* derived, and an earlier derivation is cancelled.
InitEffect ==
    /\ initDue
    /\ initDue' = FALSE
    /\ IF ref # None THEN BecomeReady /\ deriving' = None
       ELSE deriving' = peer /\ UNCHANGED <<ready, drainDue>>
    /\ UNCHANGED <<roomVars, peer, ref, saves, early, clean, deferred, drain, current, callVars,
                   queueVars, stored, tried>>

\* initDoubleRatchet is done; the new session is saved, without the lock.
Derived ==
    LET s == [key |-> deriving, opened |-> {}] IN
    /\ deriving # None
    /\ deriving' = None
    /\ ref' = s
    /\ saves' = saves \cup {[session |-> s, init |-> TRUE]}
    /\ UNCHANGED <<roomVars, peer, ready, initDue, early, clean, drainVars, callVars,
                   queueVars, stored, tried>>

\* A save settles.  After the first save of a session the room is ready, whatever
\* key and whatever room it has by then; a save that fails leaves it as it is.
SettleSave(s) ==
    /\ saves' = saves \ {s}
    /\ \/ /\ stored' = s.session
          /\ IF s.init
             THEN /\ BecomeReady
                  /\ early' = (early \/ (~ready /\ (ref = None \/ chat # "open")))
             ELSE UNCHANGED <<ready, drainDue, early>>
       \/ UNCHANGED <<stored, ready, drainDue, early>>
    /\ UNCHANGED <<roomVars, peer, ref, initDue, deriving, clean, deferred, drain,
                   current, callVars, queueVars, tried>>

-----------------------------------------------------------------------------
(* Ciphertexts arriving                                                    *)

\* Fault: a message queues up behind the drain.
FaultyIsDeferred == ~ready \/ ref = None \/ drain # {}

IsDeferred == ~ready \/ ref = None

\* A ciphertext of this room arrives while the room is open.
HandleCiphertext(m) ==
    /\ chat = "open"
    /\ \/ /\ IsDeferred
          /\ deferred' = deferred \cup {m} /\ tried' = tried \ {m}
          /\ UNCHANGED call
       \/ /\ ~IsDeferred /\ call[<<m, "socket">>] = "idle"
          /\ call' = [call EXCEPT ![<<m, "socket">>] = "waiting"]
          /\ UNCHANGED <<deferred, tried>>
    /\ UNCHANGED <<roomVars, sessionVars, drainDue, drain, current, keys, transcript,
                   spent, queueVars, stored>>

\* The same while another room is open: queueInboundCiphertext.
QueueCiphertext(m) ==
    /\ chat = "away"
    /\ queuing' = queuing \cup {m}
    /\ UNCHANGED <<roomVars, sessionVars, drainVars, callVars, queued, wasQueued, stored,
                   tried>>

\* savePendingInboundCiphertext settles, whatever room is open by then, or fails.
QueueSaved(m) ==
    /\ m \in queuing
    /\ queuing' = queuing \ {m}
    /\ \/ queued' = queued \cup {m} /\ wasQueued' = wasQueued \cup {m}
       \/ UNCHANGED <<queued, wasQueued>>
    /\ UNCHANGED <<roomVars, sessionVars, drainVars, callVars, stored, tried>>

-----------------------------------------------------------------------------
(* The drain                                                               *)

\* The effect of becoming ready takes all that was deferred.
DrainEffect ==
    /\ drainDue
    /\ drainDue' = FALSE
    /\ IF ready /\ ref # None THEN drain' = deferred /\ deferred' = {}
       ELSE UNCHANGED <<drain, deferred>>
    /\ UNCHANGED <<roomVars, sessionVars, current, callVars, queueVars, stored, tried>>

\* The next message is decrypted.
DrainNext(m) ==
    /\ m \in drain /\ current = None /\ call[<<m, "drain">>] = "idle"
    /\ drain' = drain \ {m} /\ current' = m
    /\ call' = [call EXCEPT ![<<m, "drain">>] = "waiting"]
    /\ UNCHANGED <<roomVars, sessionVars, drainDue, deferred, keys, transcript, spent,
                   queueVars, stored, tried>>

-----------------------------------------------------------------------------
(* decryptCiphertextMsg                                                    *)

\* The call ends, with a result or an error, which the drain only reports.
End(j) ==
    /\ call' = [call EXCEPT ![j] = "idle"]
    /\ current' = IF j = <<current, "drain">> THEN None ELSE current

Waiting(j) == call[j] = "waiting" /\ tried' = tried \cup {j[1]}

Current == IF stored # None THEN stored ELSE ref

\* The lock is granted: the message is new, and the session opens it and is saved.
Open(j) ==
    LET s == [Current EXCEPT !.opened = @ \cup {j[1]}] IN
    /\ Waiting(j) /\ j[1] \notin keys
    /\ Current # None /\ j[1] \notin Current.opened
    /\ stored' = s
    /\ keys' = keys \cup {j[1]}
    /\ spent' = spent \cup {j[1]}
    /\ ref' = IF chat # "away" THEN s ELSE ref
    /\ call' = [call EXCEPT ![j] = "opened"]
    /\ UNCHANGED <<roomVars, peer, ready, initDue, deriving, saves, early, clean,
                   drainVars, transcript, queueVars>>

\* deletePendingInboundCiphertext; it may fail.
Unqueue(m) == queued' \in {queued, queued \ {m}}

\* This tab has opened the message before.
Duplicate(j) ==
    /\ Waiting(j) /\ j[1] \in keys
    /\ Unqueue(j[1])
    /\ End(j)
    /\ UNCHANGED <<roomVars, sessionVars, drainDue, deferred, drain, keys, transcript,
                   spent, queuing, wasQueued, stored>>

\* Fault: a message is no longer queued once it was tried.
FaultyReject(j) ==
    /\ Waiting(j)
    /\ End(j)
    /\ Unqueue(j[1])
    /\ UNCHANGED <<roomVars, sessionVars, drainDue, deferred, drain, keys, transcript, spent,
                   queuing, wasQueued, stored>>

\* It cannot be opened, or the session cannot be loaded or saved.
Reject(j) ==
    /\ Waiting(j)
    /\ End(j)
    /\ UNCHANGED <<roomVars, sessionVars, drainDue, deferred, drain, keys, transcript, spent,
                   queueVars, stored>>

\* saveLocalMessage and then the record is deleted; either may fail.
KeepPlaintext(j) ==
    /\ call[j] = "opened"
    /\ \/ transcript' = transcript \cup {j[1]} /\ Unqueue(j[1])
       \/ UNCHANGED <<transcript, queued>>
    /\ End(j)
    /\ UNCHANGED <<roomVars, sessionVars, drainDue, deferred, drain, keys, spent,
                   queuing, wasQueued, stored, tried>>

-----------------------------------------------------------------------------

DecryptStep(j) == Open(j) \/ Duplicate(j) \/ Reject(j) \/ KeepPlaintext(j)

Next ==
    \/ OpenRoom \/ LoadRoom \/ LoadFail \/ CloseRoom \/ Crash \/ LeaveRoom
    \/ \E k \in Key : HandlePublicKey(k)
    \/ InitEffect \/ Derived
    \/ \E s \in saves : SettleSave(s)
    \/ \E m \in Msg : \/ HandleCiphertext(m) \/ QueueCiphertext(m) \/ QueueSaved(m)
                      \/ DrainNext(m)
    \/ DrainEffect
    \/ \E j \in Job : DecryptStep(j)

Spec == Init /\ [][Next]_vars

\* Effects run, and a call that waits for the lock or for IndexedDB goes on.
Fairness ==
    /\ WF_vars(DrainEffect) /\ WF_vars(\E m \in Msg : DrainNext(m))
    /\ \A j \in Job : WF_vars(DecryptStep(j))

FairSpec == Spec /\ Fairness

-----------------------------------------------------------------------------
(* Properties                                                              *)

\* The types; the drain waits for a call of its own.
TypeOK ==
    /\ chat \in {"away", "loading", "open"}
    /\ peer \in Key \cup {None} /\ ref \in Session \cup {None}
    /\ ready \in BOOLEAN /\ initDue \in BOOLEAN /\ deriving \in Key \cup {None}
    /\ saves \subseteq [session : Session, init : BOOLEAN]
    /\ drainDue \in BOOLEAN /\ deferred \subseteq Msg /\ drain \subseteq Msg
    /\ current \in Msg \cup {None}
    /\ current # None => call[<<current, "drain">>] # "idle"
    /\ keys \subseteq Msg /\ call \in [Job -> Phase]
    /\ stored \in Session \cup {None} /\ transcript \subseteq Msg
    /\ queuing \subseteq Msg /\ queued \subseteq Msg
    /\ opens \in 0 .. MaxOpen /\ changes \in 0 .. MaxKeys
    /\ wasQueued \subseteq Msg /\ spent \subseteq Msg /\ tried \subseteq Msg
    /\ early \in BOOLEAN /\ clean \in BOOLEAN

\* A ciphertext that was queued for its room stays queued until the ratchet has
\* opened it or the user leaves the room, over crashes, other rooms, failed calls and
\* new keys.
QueueKept == wasQueued \subseteq queued \cup spent

\* Once the room is usable and the effect has run, nothing waits in memory: a
\* message is never put behind the drain.
DrainedWhenReady == Usable /\ ~early /\ ~drainDue => deferred = {}

\* The session in use is of the key that the peer announced last, if nothing of an
\* earlier key was about when it did.
SessionOfPresentKey == Usable /\ clean => ref.key = peer

\* A message that waits for a usable room is tried, whatever else is
\* under way, unless the room is closed or gets another key.
DeferredIsTried ==
    \A m \in Msg : (m \in deferred /\ Usable /\ ~early) ~> (m \in tried \/ ~Usable)

\* What the documents promise of queued ciphertexts and the code does not keep: once
\* the room is ready and nothing is under way, none of them waits in memory.
QueueDrained == Usable /\ ~drainDue /\ saves = {} => deferred = {}
=============================================================================
