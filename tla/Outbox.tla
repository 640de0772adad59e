-------------------------------- MODULE Outbox --------------------------------
(***************************************************************************)
(* The outbox of one room in one tab, useLiveRatchetChat.ts: writing,      *)
(* flushing, retrying and settling messages while the socket closes and    *)
(* comes back, with the relay and the peer as far as the client sees them  *)
(* (modules Relay and ChatSession have the rest).                          *)
(*                                                                         *)
(* persistOutboxEntry writes the entry in memory at once and then awaits   *)
(* IndexedDB, so each of its calls ends a step; between two steps anything *)
(* else may run.  A flush keeps its own copy of the entry it works on.     *)
(* Time is abstract: a retry time that lies ahead passes at any moment.    *)
(***************************************************************************)
EXTENDS Integers, Sequences

CONSTANTS
    NumMsgs,      \* how many messages the user writes, numbered by createdAt
    MaxAttempts,  \* OUTBOX_MAX_SEND_ATTEMPTS
    MaxConns,     \* bound: how often the socket is opened
    MaxSeals,     \* bound: how often a message is encrypted
    MaxQueue,     \* bound: the frames under way in one direction
    None          \* no entry

ASSUME BoundsAssumption ==
    /\ NumMsgs \in Nat /\ MaxAttempts \in Nat \ {0}
    /\ MaxConns \in Nat /\ MaxSeals \in Nat /\ MaxQueue \in Nat

VARIABLES
    written,    \* how many messages the user has written
    outbox,     \* outboxRef: the entry of each message
    flush,      \* the call of flushOutbox under way
    reset,      \* what is left to do of a markRoomOutboxPending call
    conn,       \* the number of the socket, 0 before the first
    connected,  \* connectionState is 'connected' and the session is ready
    toServer,   \* frames on the socket
    toClient,
    relayed,    \* messages on their way to the peer
    opened,     \* history: messages the peer has opened
    sends,      \* history: socket sends of each message since it was (re)queued
    seals,      \* history: encryptions of each message
    overwritten \* history: a reset put an old copy of an entry back

clientVars == <<written, outbox, flush, reset, sends, seals, overwritten>>
netVars == <<conn, connected, toServer, toClient>>
serverVars == <<relayed, opened>>
vars == <<clientVars, netVars, serverVars>>

Msg == 1 .. NumMsgs

Entry == [status : {"pending", "sending", "sent", "failed"}, retryCount : 0 .. MaxAttempts,
          ciphertext : 0 .. MaxSeals, due : BOOLEAN]

\* "ciphertext" counts the encryptions, 0: none; "due": nextRetryAt has passed.
NewEntry == [status |-> "pending", retryCount |-> 0, ciphertext |-> 0, due |-> TRUE]

ASSUME NoEntryAssumption == None \notin Entry

Snapshot == [msg : Msg, entry : Entry]

\* Of a flush: the loop has entries to go, after an await ("loop") or without
\* one ("now": nothing else runs before its next step); it has persisted
\* "sending", has encrypted, has counted the attempt.  "live": the room has not
\* been closed since the flush began (its generation is the current one).
NoFlush == [at |-> "idle", todo |-> {}, msg |-> None, entry |-> None, socket |-> 0,
            live |-> TRUE]

Init ==
    /\ written = 0
    /\ outbox = [m \in Msg |-> None]
    /\ flush = NoFlush
    /\ reset = {}
    /\ conn = 0 /\ connected = FALSE
    /\ toServer = <<>> /\ toClient = <<>>
    /\ relayed = {} /\ opened = {}
    /\ sends = [m \in Msg |-> 0]
    /\ seals = [m \in Msg |-> 0]
    /\ overwritten = FALSE

-----------------------------------------------------------------------------
(* The user                                                                *)

\* send
Write ==
    /\ written < NumMsgs
    /\ written' = written + 1
    /\ outbox' = [outbox EXCEPT ![written'] = NewEntry]
    /\ UNCHANGED <<flush, reset, sends, seals, overwritten, netVars, serverVars>>

\* retryMessage
Retry(m) ==
    /\ outbox[m] # None /\ outbox[m].status = "failed"
    /\ outbox' = [outbox EXCEPT ![m] = [@ EXCEPT !.status = "pending", !.retryCount = 0,
                                                 !.due = TRUE]]
    /\ sends' = [sends EXCEPT ![m] = 0]
    /\ UNCHANGED <<written, flush, reset, seals, overwritten, netVars, serverVars>>

\* nextRetryAt passes.
Elapse(m) ==
    /\ outbox[m] # None /\ ~outbox[m].due
    /\ outbox' = [outbox EXCEPT ![m].due = TRUE]
    /\ UNCHANGED <<written, flush, reset, sends, seals, overwritten, netVars, serverVars>>

-----------------------------------------------------------------------------
(* flushOutbox                                                             *)

Put(m, entry) == outbox' = [outbox EXCEPT ![m] = entry]

\* Fault: a message that is being sent is not looked at again.
FaultyIsDue(entry) == entry # None /\ entry.status = "pending" /\ entry.due

IsDue(entry) ==
    /\ entry # None
    /\ entry.status \in {"pending", "sending"} /\ entry.due

\* Copies of the entries of some messages, which are worked on in the order the
\* messages were written.
SnapshotsOf(msgs) == {[msg |-> m, entry |-> outbox[m]] : m \in msgs}

First(snapshots) == CHOOSE s \in snapshots : \A t \in snapshots : s.msg <= t.msg

Others(snapshots) == snapshots \ {First(snapshots)}

FlushStart ==
    /\ flush.at = "idle" /\ connected
    /\ \E m \in Msg : IsDue(outbox[m])
    /\ flush' = [NoFlush EXCEPT !.at = "now",
                                !.todo = SnapshotsOf({m \in Msg : IsDue(outbox[m])})]
    /\ UNCHANGED <<written, outbox, reset, sends, seals, overwritten, netVars, serverVars>>

\* The entry of the moment, or the one the flush began with.
Latest == LET s == First(flush.todo)
          IN  IF outbox[s.msg] # None THEN outbox[s.msg] ELSE s.entry

Rest(at) ==
    IF Others(flush.todo) = {} THEN NoFlush
    ELSE [NoFlush EXCEPT !.at = at, !.todo = Others(flush.todo), !.live = flush.live]

\* isRoomReadyToFlush
RoomReady == connected /\ flush.live

AtEntry == flush.at \in {"now", "loop"} /\ flush.todo # {}

\* Fault: one attempt more.
FaultyIsExhausted(entry) == entry.retryCount > MaxAttempts

IsExhausted(entry) == entry.retryCount >= MaxAttempts

HasFailed == Latest.status = "failed"

\* markOutboxFailed: 'Message was not acknowledged after retries.'  An entry that
\* has failed already is passed over.
FlushGiveUp ==
    /\ AtEntry
    /\ HasFailed \/ IsExhausted(Latest)
    /\ Put(First(flush.todo).msg, [Latest EXCEPT !.status = "failed"])
    /\ flush' = Rest(IF HasFailed THEN "now" ELSE "loop")
    /\ UNCHANGED <<written, reset, sends, seals, overwritten, netVars, serverVars>>

AtTry == AtEntry /\ ~HasFailed /\ ~IsExhausted(Latest)

FlushBreak ==
    /\ AtTry /\ ~RoomReady
    /\ flush' = NoFlush
    /\ UNCHANGED <<written, outbox, reset, sends, seals, overwritten, netVars, serverVars>>

FlushTake ==
    LET entry == [Latest EXCEPT !.status = "sending"] IN
    /\ AtTry /\ RoomReady
    /\ Put(First(flush.todo).msg, entry)
    /\ flush' = [flush EXCEPT !.at = "taken", !.msg = First(flush.todo).msg,
                              !.entry = entry]
    /\ UNCHANGED <<written, reset, sends, seals, overwritten, netVars, serverVars>>

\* The session is gone.
FlushNoSession ==
    /\ flush.at = "taken" /\ flush.entry.ciphertext = 0 /\ ~connected
    /\ flush' = NoFlush
    /\ UNCHANGED <<written, outbox, reset, sends, seals, overwritten, netVars, serverVars>>

\* The ratchet seals the message, or fails: 'Encryption failed.'
FlushSeal ==
    LET m == flush.msg
        entry == [flush.entry EXCEPT !.ciphertext = seals[m] + 1] IN
    /\ flush.at = "taken" /\ flush.entry.ciphertext = 0
    /\ \/ /\ seals[m] < MaxSeals
          /\ Put(m, entry)
          /\ seals' = [seals EXCEPT ![m] = @ + 1]
          /\ flush' = [flush EXCEPT !.at = "sealed", !.entry = entry]
       \/ /\ Put(m, [flush.entry EXCEPT !.status = "failed"])
          /\ flush' = Rest("loop")
          /\ UNCHANGED seals
    /\ UNCHANGED <<written, reset, sends, overwritten, netVars, serverVars>>

\* Fault: a message is sent as it was written if it has no ciphertext.
FaultyHasCiphertext == flush.at \in {"taken", "sealed"}

HasCiphertext == flush.at \in {"taken", "sealed"} /\ flush.entry.ciphertext > 0

\* Fault: the envelope is not kept.
FaultyRequeued(entry) == [entry EXCEPT !.status = "pending", !.due = TRUE, !.ciphertext = 0]

Requeued(entry) == [entry EXCEPT !.status = "pending", !.due = TRUE]

FlushPutBack ==
    /\ HasCiphertext /\ ~RoomReady
    /\ Put(flush.msg, Requeued(flush.entry))
    /\ flush' = NoFlush
    /\ UNCHANGED <<written, reset, sends, seals, overwritten, netVars, serverVars>>

FlushAttempt ==
    LET entry == [flush.entry EXCEPT !.status = "sending", !.retryCount = @ + 1,
                                     !.due = FALSE] IN
    /\ HasCiphertext /\ RoomReady
    /\ Put(flush.msg, entry)
    /\ flush' = [flush EXCEPT !.at = "attempt", !.entry = entry, !.socket = conn]
    /\ UNCHANGED <<written, reset, sends, seals, overwritten, netVars, serverVars>>

\* socket.send: a socket that has closed meanwhile drops the frame.  So does a
\* full queue, which is a bound.
FlushSend ==
    /\ flush.at = "attempt"
    /\ toServer' = IF connected /\ flush.socket = conn /\ Len(toServer) < MaxQueue
                   THEN Append(toServer, flush.msg) ELSE toServer
    /\ sends' = [sends EXCEPT ![flush.msg] = @ + 1]
    /\ flush' = Rest("now")
    /\ UNCHANGED <<written, outbox, reset, seals, overwritten, conn, connected,
                   toClient, serverVars>>

-----------------------------------------------------------------------------
(* The socket                                                              *)

\* Connected, authenticated, joined, and the session is ready.
Join ==
    /\ ~connected /\ conn < MaxConns
    /\ conn' = conn + 1 /\ connected' = TRUE
    /\ UNCHANGED <<clientVars, toServer, toClient, serverVars>>

\* Fault: what the server has accepted is reset too.
FaultyIsSending(entry) == entry # None /\ entry.status \in {"sending", "sent"}

IsSending(entry) == entry # None /\ entry.status = "sending"

\* markRoomOutboxPending reads the entries that are being sent and writes the
\* first; each other one comes after an await.
StartReset ==
    LET snapshots == SnapshotsOf({m \in Msg : IsSending(outbox[m])}) IN
    IF snapshots = {} THEN UNCHANGED <<outbox, reset>>
    ELSE /\ Put(First(snapshots).msg, Requeued(First(snapshots).entry))
         /\ reset' = Others(snapshots)

\* The socket closes.
Lose ==
    /\ connected /\ reset = {}
    /\ connected' = FALSE
    /\ toServer' = <<>> /\ toClient' = <<>>
    /\ StartReset
    /\ UNCHANGED <<written, flush, sends, seals, overwritten, conn, serverVars>>

\* The entry has not been sealed, tried or settled since it was read.
IsCurrent(s) ==
    LET entry == outbox[s.msg] IN
    /\ entry # None
    /\ entry.ciphertext = s.entry.ciphertext /\ entry.retryCount = s.entry.retryCount

ResetNext ==
    /\ reset # {}
    /\ Put(First(reset).msg, Requeued(First(reset).entry))
    /\ reset' = Others(reset)
    /\ overwritten' = (overwritten \/ ~IsCurrent(First(reset)))
    /\ UNCHANGED <<written, flush, sends, seals, netVars, serverVars>>

\* Fault: a message is forgotten as soon as the server has it.
FaultySettled(entry) == None

\* markOutboxSent
Settled(entry) == [entry EXCEPT !.status = "sent"]

\* message.accepted
HandleAccepted ==
    /\ toClient # <<>> /\ Head(toClient).type = "accepted"
    /\ LET m == Head(toClient).msg IN
        IF outbox[m] = None \/ outbox[m].status = "failed" THEN UNCHANGED outbox
        ELSE Put(m, Settled(outbox[m]))
    /\ toClient' = Tail(toClient)
    /\ UNCHANGED <<written, flush, reset, sends, seals, overwritten, conn, connected,
                   toServer, serverVars>>

\* message.delivered; removeOutboxEntry
HandleDelivered ==
    /\ toClient # <<>> /\ Head(toClient).type = "delivered"
    /\ Put(Head(toClient).msg, None)
    /\ toClient' = Tail(toClient)
    /\ UNCHANGED <<written, flush, reset, sends, seals, overwritten, conn, connected,
                   toServer, serverVars>>

HandleFrame == HandleAccepted \/ HandleDelivered

-----------------------------------------------------------------------------
(* The server and the peer                                                 *)

Reply(type, m) == toClient' = Append(toClient, [type |-> type, msg |-> m])

\* handleCiphertext: a new message is relayed if the peer is there, and every
\* message is acknowledged; one over the rate limit is refused.
ServerAccept ==
    /\ toServer # <<>> /\ Len(toClient) < MaxQueue
    /\ relayed' \in {relayed, relayed \cup {Head(toServer)}}
    /\ Reply("accepted", Head(toServer))
    /\ toServer' = Tail(toServer)
    /\ UNCHANGED <<clientVars, conn, connected, opened>>

ServerRefuse ==
    /\ toServer # <<>>
    /\ toServer' = Tail(toServer)
    /\ UNCHANGED <<clientVars, conn, connected, toClient, serverVars>>

\* The peer opens the message and acknowledges it; the server passes that on if
\* the sender is there.
PeerOpen(m) ==
    /\ Len(toClient) < MaxQueue
    /\ relayed' = relayed \ {m}
    /\ opened' = opened \cup {m}
    /\ IF connected THEN Reply("delivered", m) ELSE UNCHANGED toClient
    /\ UNCHANGED <<clientVars, conn, connected, toServer>>

\* The peer's socket closes on the message, or it cannot be opened.
PeerLose(m) ==
    /\ relayed' = relayed \ {m}
    /\ UNCHANGED <<clientVars, netVars, opened>>

-----------------------------------------------------------------------------

FlushStep ==
    \/ FlushStart \/ FlushGiveUp \/ FlushBreak \/ FlushTake
    \/ FlushNoSession \/ FlushSeal \/ FlushPutBack \/ FlushAttempt \/ FlushSend

Elsewhere ==
    \/ Write
    \/ \E m \in Msg : Retry(m) \/ Elapse(m)
    \/ Join \/ Lose \/ ResetNext
    \/ HandleFrame
    \/ ServerAccept \/ ServerRefuse
    \/ \E m \in relayed : PeerOpen(m) \/ PeerLose(m)

Next == FlushStep \/ (flush.at # "now" /\ Elsewhere)

Spec == Init /\ [][Next]_vars

\* Timers fire, IndexedDB calls settle (the steps of a flush and of a reset), and
\* frames that have arrived are handled.  Neither the network nor the server owes
\* anything.
Fairness ==
    /\ WF_vars(FlushStep) /\ WF_vars(ResetNext) /\ WF_vars(HandleFrame)
    /\ \A m \in Msg : WF_vars(Elapse(m))

FairSpec == Spec /\ Fairness

-----------------------------------------------------------------------------
(* Properties                                                              *)

Frame == [type : {"accepted", "delivered"}, msg : Msg]

\* The types; a flush that is under way has an entry to work on.
TypeOK ==
    /\ written \in 0 .. NumMsgs
    /\ outbox \in [Msg -> Entry \cup {None}]
    /\ flush \in [at : {"idle", "now", "loop", "taken", "sealed", "attempt"},
                  todo : SUBSET Snapshot, msg : Msg \cup {None},
                  entry : Entry \cup {None}, socket : 0 .. MaxConns, live : BOOLEAN]
    /\ flush.at # "idle" => flush.todo # {}
    /\ reset \subseteq Snapshot
    /\ conn \in 0 .. MaxConns
    /\ connected \in BOOLEAN
    /\ toServer \in Seq(Msg) /\ Len(toServer) <= MaxQueue
    /\ toClient \in Seq(Frame) /\ Len(toClient) <= MaxQueue
    /\ relayed \subseteq Msg
    /\ opened \subseteq Msg
    /\ sends \in [Msg -> Nat]
    /\ seals \in [Msg -> 0 .. MaxSeals]
    /\ overwritten \in BOOLEAN

Written == 1 .. written

\* The outbox lets go of a message only when the peer has opened it, whatever was
\* lost, refused or sent twice on the way.
NoMessageLost == \A m \in Written : outbox[m] = None => m \in opened

\* A message goes out at most MaxAttempts times before the user is asked, unless
\* a reset that ran late brought an old count back.
AttemptsBounded == ~overwritten => \A m \in Msg : sends[m] <= MaxAttempts

\* "retries the same encrypted envelope": the ratchet seals a message once, unless
\* a reset that ran late brought back a copy without the ciphertext.
OneEnvelope == ~overwritten => \A m \in Msg : seals[m] <= 1

\* What a flush or a reset holds a copy of.
InWork == {s.msg : s \in flush.todo \cup reset}

\* "keeps accepted messages sent until a recipient delivery ack arrives": nothing
\* asks for a message again that the server has accepted, unless a flush or a
\* reset still works on a copy from before (it then writes "sending" back).
SentUntilDelivered ==
    [][\A m \in Msg \ InWork : outbox[m] # None /\ outbox[m].status = "sent"
                                => outbox'[m] = None \/ outbox'[m].status = "sent"]_vars

IsQueued(m) == outbox[m] # None /\ outbox[m].status \in {"pending", "sending"}

\* While the room stays connected, every message settles: it is acknowledged or
\* handed back to the user as failed.
Settles == \A m \in Msg : IsQueued(m) ~> (~IsQueued(m) \/ ~connected)

Kept == {m \in Msg : outbox[m] # None}

Sealed == {m \in Msg : seals[m] > 0}

Promise == INSTANCE Delivery WITH kept <- Kept, sealed <- Sealed

\* What a message goes through, on whatever detours: it is written, then sealed by
\* the ratchet, then opened by the peer, then let go of, and nothing else ends it
\* (the entry of a failed message waits for the user).
ImplementsDelivery == Promise!Spec
=============================================================================
