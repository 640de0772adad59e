----------------------------- MODULE ChatSession -----------------------------
(***************************************************************************)
(* The ratchet session of one room of one user, as useLiveRatchetChat.ts   *)
(* keeps it: in the memory of every tab that shows the room                *)
(* (ratchetSessionRef) and in IndexedDB, which the tabs share              *)
(* (localEncryptedStore.ts).  Encrypting and decrypting load, advance and  *)
(* save the session under a Web Lock; initialising it and closing the room *)
(* save it without.  Every await between two accesses to shared state is a *)
(* boundary between two steps.                                             *)
(*                                                                         *)
(* A session is what the properties tell apart: how many messages it has   *)
(* sealed, which numbers the next one, and which it has opened.  What the  *)
(* ratchet does besides is module Ratchet.                                 *)
(***************************************************************************)
EXTENDS Integers, FiniteSets

CONSTANTS
    Tab,
    Out,      \* messages the user writes
    In,       \* messages that the peer sent
    Leaver,   \* bound: the tabs in which the user leaves the room
    MaxSent,  \* bound: the sending chain stops here
    MaxOpen,  \* bound: how often the room is opened, in all tabs
    None      \* no session, nobody holding the lock, no message held

ASSUME SetsAssumption == Out \cap In = {} /\ None \notin Tab \X (Out \cup In)
ASSUME BoundsAssumption == Leaver \subseteq Tab /\ MaxSent \in Nat /\ MaxOpen \in Nat

Session == [sent : 0 .. MaxSent, opened : SUBSET In]
Job == Tab \X (Out \cup In)

ASSUME NoSessionAssumption ==
    None \notin Session /\ None \notin [n : 0 .. MaxSent - 1, by : Job]

VARIABLES
    chat,        \* of each tab: is the room the selected one?
    ref,         \* ratchetSessionRef of each tab
    ready,       \* sessionReadyRef of each tab
    keys,        \* inboundMessageKeysRef of each tab
    derivation,  \* of each tab: has the effect run that derives a session?
    job,         \* the calls of flushOutbox and decryptCiphertextMsg
    lock,        \* the Web Lock of the room: the call that holds it
    saves,       \* saveRatchetSession calls under way outside the lock
    stored,      \* the session record in IndexedDB
    transcript,  \* the messages of the peer saved in IndexedDB
    acked,       \* history: deliveries that were acknowledged
    sealed,      \* history: the number each ciphertext was sealed under
    rolledBack,  \* history: a write outside the lock took the record back
    left,        \* history: the user left the room
    opens        \* how often the room was opened

tabVars == <<chat, ref, ready, keys, derivation>>
vars == <<chat, ref, ready, keys, derivation, job, lock, saves, stored, transcript, acked,
          sealed, rolledBack, left, opens>>

Idle == [phase |-> "idle", session |-> None, live |-> FALSE]
Phase == {"idle", "waiting", "saving", "saved", "rendering", "acking", "done",
          "failed"}

\* What initDoubleRatchet derives from the identity keys: the same every time.
Fresh == [sent |-> 0, opened |-> {}]

Init ==
    /\ chat = [t \in Tab |-> "away"]
    /\ ref = [t \in Tab |-> None]
    /\ ready = [t \in Tab |-> FALSE]
    /\ keys = [t \in Tab |-> {}]
    /\ derivation = [t \in Tab |-> "due"]
    /\ job = [j \in Job |-> Idle]
    /\ lock = None
    /\ saves = {}
    /\ stored = None
    /\ transcript = {}
    /\ acked = {}
    /\ sealed = {}
    /\ rolledBack = FALSE
    /\ left = FALSE
    /\ opens = 0

AtMost(s, s2) == s.sent <= s2.sent /\ s.opened \subseteq s2.opened

-----------------------------------------------------------------------------
(* Opening and closing the room in a tab                                   *)

\* The connection effect starts: the room is selected, nothing is loaded.
OpenRoom(t) ==
    /\ chat[t] = "away" /\ opens < MaxOpen
    /\ opens' = opens + 1
    /\ chat' = [chat EXCEPT ![t] = "loading"]
    /\ ref' = [ref EXCEPT ![t] = None]
    /\ ready' = [ready EXCEPT ![t] = FALSE]
    /\ keys' = [keys EXCEPT ![t] = {}]
    /\ left' = FALSE
    /\ UNCHANGED <<derivation, job, lock, saves, stored, transcript, acked, sealed, rolledBack>>

\* The transcript and the session have been read.
LoadRoom(t) ==
    /\ chat[t] = "loading"
    /\ chat' = [chat EXCEPT ![t] = "open"]
    /\ ref' = [ref EXCEPT ![t] = IF stored = None THEN ref[t] ELSE stored]
    /\ ready' = [ready EXCEPT ![t] = @ \/ stored # None]
    /\ keys' = [keys EXCEPT ![t] = transcript]
    /\ UNCHANGED <<derivation, job, lock, saves, stored, transcript, acked, sealed,
                   rolledBack, left, opens>>

\* IndexedDB fails: the room opens without a transcript and a session.
LoadFail(t) ==
    /\ chat[t] = "loading"
    /\ chat' = [chat EXCEPT ![t] = "open"]
    /\ UNCHANGED <<ref, ready, keys, derivation, job, lock, saves, stored, transcript,
                   acked, sealed, rolledBack, left, opens>>

\* The effect that runs when the peer's key is known: a session in memory will do,
\* such as one that a call of an earlier generation left there; otherwise one is
\* derived.
InitSession(t) ==
    /\ chat[t] = "open" /\ derivation[t] = "due"
    /\ IF ref[t] # None
       THEN /\ ready' = [ready EXCEPT ![t] = TRUE]
            /\ derivation' = [derivation EXCEPT ![t] = "over"]
       ELSE /\ derivation' = [derivation EXCEPT ![t] = "under way"]
            /\ UNCHANGED ready
    /\ UNCHANGED <<chat, ref, keys, job, lock, saves, stored, transcript, acked, sealed,
                   rolledBack, left, opens>>

\* initDoubleRatchet is done: the session takes the place of whatever is in memory by
\* then, and is saved without the lock.
Derived(t) ==
    /\ derivation[t] = "under way"
    /\ derivation' = [derivation EXCEPT ![t] = "over"]
    /\ ref' = [ref EXCEPT ![t] = Fresh]
    /\ saves' = saves \cup {[tab |-> t, session |-> Fresh, init |-> TRUE]}
    /\ UNCHANGED <<chat, ready, keys, job, lock, stored, transcript, acked, sealed,
                   rolledBack, left, opens>>

\* A save without the lock settles: it writes the record or fails.
SettleSave(s) ==
    /\ saves' = saves \ {s}
    /\ \/ /\ stored' = s.session
          /\ rolledBack' = (rolledBack \/ (stored # None /\ ~AtMost(stored, s.session)))
          /\ ready' = [ready EXCEPT ![s.tab] = @ \/ s.init]
       \/ UNCHANGED <<stored, rolledBack, ready>>
    /\ UNCHANGED <<chat, ref, keys, derivation, job, lock, transcript, acked, sealed,
                   left, opens>>

\* Cleanup of the effects: another room is selected, or none.  A derivation is
\* cancelled; calls under way go on, but belong to an old generation.
CloseRoom(t) ==
    /\ chat[t] # "away"
    /\ chat' = [chat EXCEPT ![t] = "away"]
    /\ saves' = saves \cup {[tab |-> t, session |-> s, init |-> FALSE] :
                                s \in {ref[t]} \ {None}}
    /\ ref' = [ref EXCEPT ![t] = None]
    /\ ready' = [ready EXCEPT ![t] = FALSE]
    /\ derivation' = [derivation EXCEPT ![t] = "due"]
    /\ job' = [j \in Job |-> IF j[1] = t THEN [job[j] EXCEPT !.live = FALSE]
                             ELSE job[j]]
    /\ UNCHANGED <<keys, lock, stored, transcript, acked, sealed, rolledBack, left, opens>>

\* leaveRoom of the room list: clearRoomLocalState, then (CloseRoom) another
\* room is selected.
LeaveRoom(t) ==
    /\ chat[t] = "open" /\ t \in Leaver
    /\ stored' = None
    /\ transcript' = {}
    /\ rolledBack' = (rolledBack \/ stored # None)
    /\ left' = TRUE
    /\ UNCHANGED <<tabVars, job, lock, saves, acked, sealed, opens>>

\* The tab is closed or crashes: its memory is gone, and the lock is released.
Crash(t) ==
    /\ chat' = [chat EXCEPT ![t] = "away"]
    /\ ref' = [ref EXCEPT ![t] = None]
    /\ ready' = [ready EXCEPT ![t] = FALSE]
    /\ keys' = [keys EXCEPT ![t] = {}]
    /\ derivation' = [derivation EXCEPT ![t] = "due"]
    /\ job' = [j \in Job |-> IF j[1] = t THEN Idle ELSE job[j]]
    /\ lock' = IF lock # None /\ lock[1] = t THEN None ELSE lock
    /\ saves' = {s \in saves : s.tab # t}
    /\ UNCHANGED <<stored, transcript, acked, sealed, rolledBack, left, opens>>

-----------------------------------------------------------------------------
(* Calls that change the session                                           *)

InPhase(j, phase) == job[j].phase = phase

Usable(t) == chat[t] = "open" /\ ready[t] /\ ref[t] # None

\* flushOutbox has come to a message: it asks for the lock, with the session in
\* memory at hand.  A tab flushes one message at a time.
RequestEncrypt(t, o) ==
    /\ Usable(t)
    /\ InPhase(<<t, o>>, "idle") \/ InPhase(<<t, o>>, "failed")
    /\ \A o2 \in Out : job[<<t, o2>>].phase \notin {"waiting", "saving", "saved"}
    /\ job' = [job EXCEPT ![<<t, o>>] =
                    [phase |-> "waiting", session |-> ref[t], live |-> TRUE]]
    /\ UNCHANGED <<tabVars, lock, saves, stored, transcript, acked, sealed,
                   rolledBack, left, opens>>

\* A ciphertext arrives, for the first time or again, or is taken from the ones
\* deferred or queued until the session was ready.
RequestDecrypt(t, m) ==
    /\ Usable(t)
    /\ job[<<t, m>>].phase \in {"idle", "done", "failed"}
    /\ job' = [job EXCEPT ![<<t, m>>] =
                    [phase |-> "waiting", session |-> None, live |-> TRUE]]
    /\ UNCHANGED <<tabVars, lock, saves, stored, transcript, acked, sealed,
                   rolledBack, left, opens>>

\* Fault: the lock is not asked for.
FaultyMayEnter(j) == TRUE

\* The Web Lock is granted to one call at a time, over all tabs.
MayEnter(j) == lock = None

\* The stored session, or the one in memory: of the time of the request when
\* encrypting, of now when decrypting.
CurrentSession(j) ==
    IF stored # None THEN stored
    ELSE IF j[2] \in Out THEN job[j].session ELSE ref[j[1]]

\* Fault: the session is kept in memory before it is saved.
FaultyEnterEncrypt(j) ==
    LET s == CurrentSession(j) IN
    /\ InPhase(j, "waiting") /\ j[2] \in Out /\ MayEnter(j)
    /\ s.sent < MaxSent
    /\ lock' = j
    /\ job' = [job EXCEPT ![j].phase = "saving", ![j].session = [s EXCEPT !.sent = @ + 1]]
    /\ ref' = [ref EXCEPT ![j[1]] = [s EXCEPT !.sent = @ + 1]]
    /\ UNCHANGED <<chat, ready, keys, derivation, saves, stored, transcript, acked, sealed,
                   rolledBack, left, opens>>

\* The lock is granted, the session is loaded and advanced.
EnterEncrypt(j) ==
    LET s == CurrentSession(j) IN
    /\ InPhase(j, "waiting") /\ j[2] \in Out /\ MayEnter(j)
    /\ s.sent < MaxSent
    /\ lock' = j
    /\ job' = [job EXCEPT ![j].phase = "saving", ![j].session = [s EXCEPT !.sent = @ + 1]]
    /\ UNCHANGED <<tabVars, saves, stored, transcript, acked, sealed, rolledBack,
                   left, opens>>

\* Fault: the message is marked as opened before the session is saved.
FaultyEnterDecrypt(j) ==
    LET s == CurrentSession(j) IN
    /\ InPhase(j, "waiting") /\ j[2] \in In /\ MayEnter(j)
    /\ j[2] \notin keys[j[1]]
    /\ s # None /\ j[2] \notin s.opened
    /\ lock' = j
    /\ job' = [job EXCEPT ![j].phase = "saving",
                          ![j].session = [s EXCEPT !.opened = @ \cup {j[2]}]]
    /\ keys' = [keys EXCEPT ![j[1]] = @ \cup {j[2]}]
    /\ UNCHANGED <<chat, ref, ready, derivation, saves, stored, transcript, acked, sealed,
                   rolledBack, left, opens>>

EnterDecrypt(j) ==
    LET s == CurrentSession(j) IN
    /\ InPhase(j, "waiting") /\ j[2] \in In /\ MayEnter(j)
    /\ j[2] \notin keys[j[1]]
    /\ s # None /\ j[2] \notin s.opened
    /\ lock' = j
    /\ job' = [job EXCEPT ![j].phase = "saving",
                          ![j].session = [s EXCEPT !.opened = @ \cup {j[2]}]]
    /\ UNCHANGED <<tabVars, saves, stored, transcript, acked, sealed, rolledBack,
                   left, opens>>

\* The message was opened by this tab before: it is acknowledged once more.
Duplicate(j) ==
    /\ InPhase(j, "waiting") /\ j[2] \in In /\ MayEnter(j)
    /\ j[2] \in keys[j[1]]
    /\ job' = [job EXCEPT ![j].phase = "acking"]
    /\ UNCHANGED <<tabVars, lock, saves, stored, transcript, acked, sealed,
                   rolledBack, left, opens>>

Save(j) ==
    /\ InPhase(j, "saving")
    /\ stored' = job[j].session
    /\ job' = [job EXCEPT ![j].phase = "saved"]
    /\ UNCHANGED <<tabVars, lock, saves, transcript, acked, sealed, rolledBack, left, opens>>

\* Loading, decrypting or saving fails: the call throws, which releases the lock.
\* A message whose key is spent ends here.
Reject(j) ==
    /\ \/ InPhase(j, "waiting") /\ MayEnter(j)
       \/ InPhase(j, "saving")
    /\ job' = [job EXCEPT ![j] = [@ EXCEPT !.phase = "failed", !.session = None]]
    /\ lock' = None
    /\ UNCHANGED <<tabVars, saves, stored, transcript, acked, sealed, rolledBack,
                   left, opens>>

\* The number of the message sealed last.
NumberSealed(s) == s.sent - 1

\* The encrypted message is kept in memory, if the room was not left meanwhile;
\* the lock is released and the ciphertext goes out.
LeaveEncrypt(j) ==
    LET t == j[1] s == job[j].session IN
    /\ InPhase(j, "saved") /\ j[2] \in Out
    /\ lock' = None
    /\ ref' = [ref EXCEPT ![t] = IF chat[t] # "away" /\ job[j].live THEN s ELSE @]
    /\ sealed' = sealed \cup {[n |-> NumberSealed(s), by |-> j]}
    /\ job' = [job EXCEPT ![j] = [@ EXCEPT !.phase = "done", !.session = None]]
    /\ UNCHANGED <<chat, ready, keys, derivation, saves, stored, transcript, acked,
                   rolledBack, left, opens>>

\* The same after decrypting, which looks at the room only.
LeaveDecrypt(j) ==
    LET t == j[1] s == job[j].session IN
    /\ InPhase(j, "saved") /\ j[2] \in In
    /\ lock' = None
    /\ keys' = [keys EXCEPT ![t] = @ \cup {j[2]}]
    /\ ref' = [ref EXCEPT ![t] = IF chat[t] # "away" THEN s ELSE @]
    /\ job' = [job EXCEPT ![j] = [@ EXCEPT !.phase = "rendering", !.session = None]]
    /\ UNCHANGED <<chat, ready, derivation, saves, stored, transcript, acked, sealed,
                   rolledBack, left, opens>>

\* saveLocalMessage, after the lock is released.
KeepPlaintext(j) ==
    /\ InPhase(j, "rendering")
    /\ transcript' = transcript \cup {j[2]}
    /\ job' = [job EXCEPT ![j].phase = "acking"]
    /\ UNCHANGED <<tabVars, lock, saves, stored, acked, sealed, rolledBack, left, opens>>

\* sendRecipientDeliveryAck; skipped when the room is not connected.
SendDeliveryAck(j) ==
    /\ InPhase(j, "acking")
    /\ acked' = IF chat[j[1]] = "open" THEN acked \cup {j[2]} ELSE acked
    /\ job' = [job EXCEPT ![j].phase = "done"]
    /\ UNCHANGED <<tabVars, lock, saves, stored, transcript, sealed, rolledBack,
                   left, opens>>

Enter(j) == EnterEncrypt(j) \/ EnterDecrypt(j) \/ Duplicate(j)
Proceed(j) == \/ Save(j) \/ LeaveEncrypt(j) \/ LeaveDecrypt(j)
              \/ KeepPlaintext(j) \/ SendDeliveryAck(j)

Next ==
    \/ \E t \in Tab : \/ OpenRoom(t) \/ LoadRoom(t) \/ LoadFail(t)
                      \/ InitSession(t) \/ Derived(t)
                      \/ CloseRoom(t) \/ LeaveRoom(t) \/ Crash(t)
    \/ \E s \in saves : SettleSave(s)
    \/ \E t \in Tab, o \in Out : RequestEncrypt(t, o)
    \/ \E t \in Tab, m \in In : RequestDecrypt(t, m)
    \/ \E j \in Job : Enter(j) \/ Reject(j) \/ Proceed(j)

Spec == Init /\ [][Next]_vars

-----------------------------------------------------------------------------
(* Properties                                                              *)

\* The types of the variables; a sealed number lies within the sending chain.
TypeOK ==
    /\ chat \in [Tab -> {"away", "loading", "open"}]
    /\ ref \in [Tab -> Session \cup {None}]
    /\ ready \in [Tab -> BOOLEAN]
    /\ keys \in [Tab -> SUBSET In]
    /\ derivation \in [Tab -> {"due", "under way", "over"}]
    /\ job \in [Job -> [phase : Phase, session : Session \cup {None}, live : BOOLEAN]]
    /\ lock \in Job \cup {None}
    /\ saves \subseteq [tab : Tab, session : Session, init : BOOLEAN]
    /\ stored \in Session \cup {None}
    /\ transcript \subseteq In
    /\ acked \subseteq In
    /\ sealed \subseteq [n : 0 .. MaxSent - 1, by : Job]
    /\ rolledBack \in BOOLEAN
    /\ left \in BOOLEAN
    /\ opens \in 0 .. MaxOpen

\* What the documents promise of several tabs: no number of the sending chain
\* seals two messages.
NoNumberReuse == \A s1, s2 \in sealed : s1.n = s2.n => s1 = s2

\* The Web Lock and the reload under it do their part: as long as no write
\* outside the lock takes the record back, no two tabs and no two generations of
\* a tab ever seal two messages under one number.
ReuseNeedsRollback == ~rolledBack => NoNumberReuse

\* "a failed write cannot leave the ratchet ahead of durable state": the session
\* in the memory of a tab is never ahead of the record.
RefNotAhead ==
    ~rolledBack /\ stored # None =>
        \A t \in Tab : ref[t] # None => AtMost(ref[t], stored)

\* A message that was acknowledged can never be opened again: its key is spent in
\* the durable session, so a peer told "delivered" was not told so in vain.
AckedIsSpent ==
    ~rolledBack => \A m \in acked : stored # None /\ m \in stored.opened

\* What the documents promise of leaving a room and the code does not keep: once
\* everything has settled, no session of the room is left in IndexedDB.
LeavingForgets ==
    left /\ saves = {} /\ (\A t \in Tab : chat[t] = "away")
         /\ (\A j \in Job : job[j].phase \in {"idle", "done", "failed"})
        => stored = None

\* The message that is sealed and saved and has not gone out yet.
Held ==
    LET holding == {j \in Tab \X Out : InPhase(j, "saved")}
    IN  IF holding = {} THEN None
        ELSE LET j == CHOOSE j \in holding : TRUE
             IN  [n |-> NumberSealed(job[j].session), by |-> j]

Serial == INSTANCE SerialSession WITH By <- Tab \X Out, Max <- MaxSent,
                                      session <- stored, held <- Held, taken <- rolledBack

\* "Serializes every ratchet state transition": over all tabs the durable session
\* moves by one whole operation at a time, each from where the last one left it, as
\* SerialSession says, until a write outside the lock takes it back.
ImplementsSerialSession == Serial!Spec
=============================================================================
