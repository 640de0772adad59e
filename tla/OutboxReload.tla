----------------------------- MODULE OutboxReload -----------------------------
(***************************************************************************)
(* The outbox of a room (module Outbox) with what it survives: the records *)
(* in IndexedDB, selecting another room and coming back, a tab that closes *)
(* at any moment, and the user leaving the room, which deletes the         *)
(* records.  Opening a room reads the records and then replaces the        *)
(* entries in memory by them.                                              *)
(*                                                                         *)
(* A record is written behind an encryption of its own, so writes under    *)
(* way settle in any order, or fail, and only their own caller waits for   *)
(* them: a flush and a reset do, everything else leaves them behind.       *)
(***************************************************************************)
EXTENDS Outbox, FiniteSets

CONSTANTS
    MaxOpens,  \* bound: how often the room is opened
    MaxWrites  \* bound: writes under way at once

ASSUME ReloadAssumption == MaxOpens \in Nat /\ MaxWrites \in Nat \ {0}

VARIABLES
    room,      \* the selected room: this one is away, loading, read or open;
               \* blind: open after a load that failed
    opens,     \* how often it was opened
    snapshot,  \* the records that the load under way has read
    disk,      \* the outbox records
    writes,    \* the calls of saveOutboxEntry and deleteOutboxEntry under way
    saved,     \* history: messages whose record was written since the user last
               \* left the room
    unread     \* history: messages that the latest load read too early to find

storeVars == <<disk, writes, saved>>
roomVars == <<room, opens, snapshot, unread>>
reloadVars == <<vars, storeVars, roomVars>>

Record == Entry \cup {None}

Caller == {"flush", "reset", "other"}

Nothing == [m \in Msg |-> None]

ReloadInit ==
    /\ Init
    /\ room = "away" /\ opens = 0 /\ snapshot = Nothing
    /\ disk = Nothing
    /\ writes = {} /\ saved = {} /\ unread = {}

-----------------------------------------------------------------------------
(* IndexedDB                                                               *)

\* persistOutboxEntry, removeOutboxEntry: what a step does to the entries in
\* memory it also asks of IndexedDB.  Writing an entry again as it is is left out.
Persist(caller) ==
    /\ writes' = writes \cup {[msg |-> m, entry |-> outbox'[m], by |-> caller] :
                                 m \in {m \in Msg : outbox'[m] # outbox[m]}}
    /\ Cardinality(writes') <= MaxWrites
    /\ UNCHANGED <<disk, saved>>

Awaits(caller) == \E w \in writes : w.by = caller

Settle(w) ==
    /\ writes' = writes \ {w}
    /\ disk' = [disk EXCEPT ![w.msg] = w.entry]
    /\ saved' = IF w.entry = None THEN saved ELSE saved \cup {w.msg}
    /\ UNCHANGED <<vars, roomVars>>

\* 'failed to persist outbox entry'
SettleFail(w) ==
    /\ writes' = writes \ {w}
    /\ UNCHANGED <<vars, roomVars, disk, saved>>

-----------------------------------------------------------------------------
(* The room                                                                *)

OpenRoom ==
    /\ room = "away" /\ opens < MaxOpens
    /\ room' = "loading" /\ opens' = opens + 1
    /\ unread' = {}
    /\ UNCHANGED <<vars, storeVars, snapshot>>

\* loadOutboxEntries
ReadRecords ==
    /\ room = "loading"
    /\ room' = "read" /\ snapshot' = disk
    /\ unread' = (1 .. written) \ saved
    /\ UNCHANGED <<vars, storeVars, opens>>

\* Fault: what was being sent when the tab closed is left out.
FaultyNormalized(entry) ==
    IF entry # None /\ entry.status = "sending" THEN None ELSE entry

\* A message that was being sent is sent again.
Normalized(entry) ==
    IF entry # None /\ entry.status = "sending" THEN Requeued(entry) ELSE entry

\* The rest of the load: the entries in memory give way to those that were read.
FinishLoad ==
    /\ room = "read"
    /\ room' = "open"
    /\ outbox' = [m \in Msg |-> Normalized(snapshot[m])]
    /\ snapshot' = Nothing
    /\ UNCHANGED <<written, flush, reset, sends, seals, overwritten, netVars,
                   relayed, opened, storeVars, opens, unread>>

\* 'failed to load local chat state'
FailLoad ==
    /\ room = "loading"
    /\ room' = "blind"
    /\ UNCHANGED <<vars, storeVars, opens, snapshot, unread>>

\* The clean-up of the effect: the socket goes, a flush under way is of an older
\* generation, and markRoomOutboxPending starts.  The entries stay in memory.
CloseRoom ==
    /\ room # "away" /\ reset = {}
    /\ room' = "away" /\ snapshot' = Nothing
    /\ connected' = FALSE /\ toServer' = <<>> /\ toClient' = <<>>
    /\ flush' = IF flush.at = "idle" THEN flush ELSE [flush EXCEPT !.live = FALSE]
    /\ StartReset
    /\ Persist("reset")
    /\ UNCHANGED <<written, sends, seals, overwritten, conn, relayed, opened, opens,
                   unread>>

\* The user leaves the room for good: clearRoomLocalState deletes its records in one
\* transaction.  Writes under way are not called off, the entries stay in memory, and
\* selecting another room is the CloseRoom after it.  A clear that fails is no step,
\* and one of no records is left out.
LeaveRoom ==
    /\ disk # Nothing \/ saved # {}
    /\ disk' = Nothing /\ saved' = {}
    /\ UNCHANGED <<vars, writes, roomVars>>

\* The tab closes, with all it has in memory and every write under way.
Crash ==
    /\ opens > 0 /\ opens < MaxOpens
    /\ room' = "away" /\ snapshot' = Nothing
    /\ outbox' = Nothing
    /\ flush' = NoFlush /\ reset' = {}
    /\ connected' = FALSE /\ toServer' = <<>> /\ toClient' = <<>>
    /\ writes' = {}
    /\ UNCHANGED <<written, sends, seals, overwritten, conn, relayed, opened, disk, saved,
                   opens, unread>>

\* The peer opens a message while another room is selected, whose socket carries
\* the acknowledgement: the entry is removed if it is in memory.
DeliveredElsewhere(m) ==
    /\ room = "away"
    /\ relayed' = relayed \ {m} /\ opened' = opened \cup {m}
    /\ Put(m, None)
    /\ Persist("other")
    /\ UNCHANGED <<written, flush, reset, sends, seals, overwritten, netVars, roomVars>>

-----------------------------------------------------------------------------
(* The steps of module Outbox                                              *)

FlushInRoom == FlushStep /\ ~Awaits("flush") /\ Persist("flush") /\ UNCHANGED roomVars

\* A message that is written while the room loads is not in what was read.
WriteInRoom ==
    /\ room # "away"
    /\ Write /\ Persist("other")
    /\ unread' = IF room = "read" THEN unread \cup {written'} ELSE unread
    /\ UNCHANGED <<room, opens, snapshot>>

RetryInRoom(m) == room # "away" /\ Retry(m) /\ Persist("other") /\ UNCHANGED roomVars

ElapseInRoom(m) == Elapse(m) /\ UNCHANGED <<storeVars, roomVars>>

\* The socket is opened when the load is over.
JoinInRoom == room \in {"open", "blind"} /\ Join /\ UNCHANGED <<storeVars, roomVars>>

LoseInRoom == Lose /\ Persist("reset") /\ UNCHANGED roomVars

ResetInRoom == ResetNext /\ ~Awaits("reset") /\ Persist("reset") /\ UNCHANGED roomVars

FrameInRoom == HandleFrame /\ Persist("other") /\ UNCHANGED roomVars

ServerInRoom ==
    /\ \/ ServerAccept \/ ServerRefuse
       \/ \E m \in relayed : PeerOpen(m) \/ PeerLose(m)
    /\ UNCHANGED <<storeVars, roomVars>>

ElsewhereInRoom ==
    \/ \E w \in writes : Settle(w) \/ SettleFail(w)
    \/ OpenRoom \/ ReadRecords \/ FinishLoad \/ FailLoad \/ CloseRoom \/ LeaveRoom
    \/ Crash
    \/ \E m \in relayed : DeliveredElsewhere(m)
    \/ WriteInRoom \/ \E m \in Msg : RetryInRoom(m) \/ ElapseInRoom(m)
    \/ JoinInRoom \/ LoseInRoom \/ ResetInRoom \/ FrameInRoom \/ ServerInRoom

ReloadNext == FlushInRoom \/ (flush.at # "now" /\ ElsewhereInRoom)

ReloadSpec == ReloadInit /\ [][ReloadNext]_reloadVars

SettleWrite == \E w \in writes : Settle(w) \/ SettleFail(w)

\* IndexedDB calls settle, timers fire, and frames that have arrived are handled.
\* Nothing is owed by the network, the server, the peer or the user.
ReloadFairness ==
    /\ WF_reloadVars(FlushInRoom) /\ WF_reloadVars(ResetInRoom)
    /\ WF_reloadVars(FrameInRoom) /\ WF_reloadVars(SettleWrite)
    /\ \A m \in Msg : WF_reloadVars(ElapseInRoom(m))

FairReloadSpec == ReloadSpec /\ ReloadFairness

-----------------------------------------------------------------------------
(* Properties (Settles of module Outbox is checked here, under             *)
(* FairReloadSpec: what a reload brought back settles too)                 *)

\* The types, and that only an open room has a connection.
ReloadTypeOK ==
    /\ TypeOK
    /\ room \in {"away", "loading", "read", "open", "blind"}
    /\ opens \in 0 .. MaxOpens
    /\ snapshot \in [Msg -> Record] /\ disk \in [Msg -> Record]
    /\ \A w \in writes : w.msg \in Msg /\ w.entry \in Record /\ w.by \in Caller
    /\ saved \subseteq Msg /\ unread \subseteq Msg
    /\ connected => room \in {"open", "blind"}

\* Once a message is on disk, it stays there until the peer has opened it or the user
\* leaves the room for good: no order of settling, selecting another room, coming back
\* and closing the tab loses it.
Durable == \A m \in saved : disk[m] # None \/ m \in opened

\* A message that is on disk, and was when the room was opened, is in the outbox of the
\* open room again, whatever it was doing when the tab closed or another room was
\* selected.
Restored ==
    room = "open" => \A m \in saved \ (opened \cup unread) : outbox[m] # None
=============================================================================
