----------------------------- MODULE OutboxProofs -----------------------------
(***************************************************************************)
(* Theorems of Outbox and of OutboxReload, for any numbers of messages,    *)
(* attempts, sockets, encryptions and frames: the invariants of Outbox     *)
(* (OutboxInv), that it implements Delivery (with CopiesInv), and the      *)
(* invariants of OutboxReload (ReloadInv).                                 *)
(***************************************************************************)
EXTENDS OutboxReload, WellFoundedInduction, TLAPS

-----------------------------------------------------------------------------
(* Sets of snapshots, and frames                                           *)

(* There is a first message to work on.                                    *)
LEMMA FirstIsLeast ==
    ASSUME NEW S \in SUBSET Snapshot, S # {}
    PROVE  /\ First(S) \in S
           /\ \A t \in S : First(S).msg <= t.msg
<1> DEFINE T == {s.msg : s \in S}
<1>1. T \subseteq Nat /\ T # {}
  BY DEF Snapshot, Msg
<1>2. PICK m \in T : \A n \in T : <<n, m>> \notin OpToRel(<, Nat)
  BY <1>1, WFMin, NatLessThanWellFounded, Zenon
<1>3. ASSUME NEW n \in T  PROVE  m <= n
  <2>1. n \in Nat /\ m \in Nat
    BY <1>1
  <2>2. n < m => <<n, m>> \in OpToRel(<, Nat)
    BY <2>1, Zenon DEF OpToRel
  <2>3. ~(n < m)
    BY <2>2, <1>2, Zenon
  <2> QED
    BY <2>1, <2>3
<1>4. PICK s \in S : s.msg = m
  OBVIOUS
<1>5. \A t \in S : s.msg <= t.msg
  BY <1>1, <1>3, <1>4
<1> QED
  BY <1>5 DEF First

(* It is a snapshot, and the others are fewer.                             *)
LEMMA FirstTypes ==
    ASSUME NEW S \in SUBSET Snapshot, S # {}
    PROVE  /\ First(S) \in S /\ First(S) \in Snapshot
           /\ First(S).msg \in Msg /\ First(S).entry \in Entry
           /\ Others(S) \subseteq S /\ Others(S) \in SUBSET Snapshot
           /\ First(S) \notin Others(S)
  BY FirstIsLeast DEF Snapshot, Others

(* Copies of entries are snapshots, one of each message.                   *)
LEMMA SnapshotTypes ==
    ASSUME TypeOK, NEW msgs \in SUBSET Msg, \A m \in msgs : outbox[m] # None
    PROVE  /\ SnapshotsOf(msgs) \in SUBSET Snapshot
           /\ \A s \in SnapshotsOf(msgs) : s.msg \in msgs /\ s.entry = outbox[s.msg]
           /\ \A s, t \in SnapshotsOf(msgs) : s.msg = t.msg => s = t
           /\ msgs # {} => SnapshotsOf(msgs) # {}
<1>1. \A m \in msgs : outbox[m] \in Entry
  BY DEF TypeOK
<1>2. \A m \in msgs : [msg |-> m, entry |-> outbox[m]] \in Snapshot
  BY <1>1 DEF Snapshot
<1>3. \A s \in SnapshotsOf(msgs) : s.msg \in msgs /\ s.entry = outbox[s.msg] /\ s \in Snapshot
  BY <1>2 DEF SnapshotsOf
<1>4. \A s, t \in SnapshotsOf(msgs) : s.msg = t.msg => s = t
  BY DEF SnapshotsOf
<1>5. msgs # {} => SnapshotsOf(msgs) # {}
  BY Zenon DEF SnapshotsOf
<1> QED
  BY <1>3, <1>4, <1>5

(* What the head and the tail of a queue are.                              *)
LEMMA Dequeue ==
    ASSUME NEW S, NEW q \in Seq(S), q # <<>>
    PROVE  /\ Head(q) \in S /\ Tail(q) \in Seq(S) /\ Len(q) \in Nat
           /\ Len(q) > 0 /\ Len(Tail(q)) = Len(q) - 1
           /\ Head(q) = q[1]
           /\ \A i \in 1 .. Len(Tail(q)) : i + 1 \in 1 .. Len(q) /\ Tail(q)[i] = q[i + 1]
  OBVIOUS

(* What a queue is after one more frame.                                   *)
LEMMA Enqueue ==
    ASSUME NEW S, NEW q \in Seq(S), NEW e \in S
    PROVE  /\ Append(q, e) \in Seq(S) /\ Len(q) \in Nat
           /\ Len(Append(q, e)) = Len(q) + 1
           /\ Append(q, e)[Len(q) + 1] = e
           /\ \A i \in 1 .. Len(q) : Append(q, e)[i] = q[i]
  OBVIOUS

-----------------------------------------------------------------------------
(* The parts of the invariants                                             *)

InHand == flush.at \in {"taken", "sealed", "attempt"}

\* The flush has the first of its messages in hand, which has attempts left.
HandInv ==
    /\ \A s, t \in flush.todo : s.msg = t.msg => s = t
    /\ InHand =>
        /\ flush.msg \in Msg /\ flush.msg = First(flush.todo).msg
        /\ flush.entry \in Entry /\ flush.entry.status = "sending"
        /\ flush.at # "attempt" => flush.entry.retryCount < MaxAttempts

\* What has not been written yet is nowhere.
WrittenInv ==
    /\ \A m \in Msg : m > written => outbox[m] = None
    /\ \A s \in flush.todo \cup reset : s.msg <= written

\* The peer has opened what it acknowledged.
FramesInv ==
    \A i \in 1 .. Len(toClient) :
        toClient[i].type = "delivered" => toClient[i].msg \in opened

\* The attempt that is counted and not made yet.
Counted(m) == IF flush.at = "attempt" /\ flush.msg = m THEN 1 ELSE 0

\* A copy of an entry knows how often its message was sealed, and of all the times
\* it was sent.
UpToDate(m, entry) ==
    sends[m] + Counted(m) <= entry.retryCount /\ entry.ciphertext = seals[m]

CountInv ==
    /\ \A m \in Msg : m > written => sends[m] = 0 /\ seals[m] = 0
    /\ InHand /\ outbox[flush.msg] # None => outbox[flush.msg].status # "failed"
    /\ ~overwritten =>
        /\ \A m \in Msg : sends[m] <= MaxAttempts /\ seals[m] <= 1
        /\ \A m \in Msg : outbox[m] # None => UpToDate(m, outbox[m])
        /\ \A s \in flush.todo : (InHand /\ s.msg = flush.msg) \/ UpToDate(s.msg, s.entry)
        /\ InHand => UpToDate(flush.msg, flush.entry)

OutboxInv == TypeOK /\ HandInv /\ WrittenInv /\ FramesInv /\ NoMessageLost /\ CountInv

\* What is on disk, on its way there or read from there was written, and a record is
\* deleted by itself only of a message that was opened.
RecordsInv ==
    /\ saved \subseteq Written
    /\ \A m \in Msg : disk[m] # None => m \in saved
    /\ \A m \in Msg : snapshot[m] # None => m \in Written
    /\ \A w \in writes : w.msg \in Written /\ (w.entry = None => w.msg \in opened)

\* What a load reads, and then the open room, lacks no message but those opened or
\* written too late for the load.
LoadInv ==
    /\ room = "read" => \A m \in Written \ (opened \cup unread) : snapshot[m] # None
    /\ room = "open" => \A m \in Written \ (opened \cup unread) : outbox[m] # None

ReloadInv == ReloadTypeOK /\ HandInv /\ WrittenInv /\ FramesInv /\ RecordsInv /\ Durable /\ LoadInv

-----------------------------------------------------------------------------
(* The types                                                               *)

(* The entry that a flush works on is an entry.                            *)
LEMMA LatestTypes ==
    ASSUME TypeOK, flush.todo # {}
    PROVE  /\ Latest \in Entry
           /\ First(flush.todo) \in flush.todo
           /\ First(flush.todo).msg \in Msg /\ First(flush.todo).entry \in Entry
           /\ outbox[First(flush.todo).msg] # None
                => Latest = outbox[First(flush.todo).msg]
           /\ outbox[First(flush.todo).msg] = None => Latest = First(flush.todo).entry
<1>1. flush.todo \in SUBSET Snapshot /\ outbox \in [Msg -> Entry \cup {None}]
  BY DEF TypeOK
<1> QED
  BY <1>1, FirstTypes DEF Latest

(* A flush under way is a record, and its copies are snapshots.            *)
LEMMA FlushIsRecord ==
    ASSUME TypeOK
    PROVE  /\ flush.at \in {"idle", "now", "loop", "taken", "sealed", "attempt"}
           /\ flush.todo \in SUBSET Snapshot
           /\ flush.socket \in 0 .. MaxConns /\ flush.live \in BOOLEAN
           /\ flush.at # "idle" => flush.todo # {}
  BY DEF TypeOK

\* What is said of a flush alone.
FlushOK(f) ==
    /\ f \in [at : {"idle", "now", "loop", "taken", "sealed", "attempt"},
              todo : SUBSET Snapshot, msg : Msg \cup {None},
              entry : Entry \cup {None}, socket : 0 .. MaxConns, live : BOOLEAN]
    /\ f.at # "idle" => f.todo # {}
    /\ \A s, t \in f.todo : s.msg = t.msg => s = t
    /\ f.at \in {"taken", "sealed", "attempt"} =>
        /\ f.msg \in Msg /\ f.msg = First(f.todo).msg
        /\ f.entry \in Entry /\ f.entry.status = "sending"
        /\ f.at # "attempt" => f.entry.retryCount < MaxAttempts

(* That is what TypeOK and HandInv say of it.                              *)
LEMMA FlushOKIs == TypeOK /\ HandInv => FlushOK(flush)
  BY DEF TypeOK, HandInv, InHand, FlushOK

(* No flush is one.                                                        *)
LEMMA NoFlushOK == FlushOK(NoFlush) /\ NoFlush.todo = {} /\ NoFlush.at = "idle"
<1>1. 0 \in 0 .. MaxConns
  BY BoundsAssumption
<1> QED
  BY <1>1 DEF FlushOK, NoFlush

(* What is left of a flush when it is done with a message.                 *)
LEMMA RestOK ==
    ASSUME TypeOK, HandInv, flush.todo # {}, NEW at \in {"now", "loop"}
    PROVE  /\ FlushOK(Rest(at))
           /\ Rest(at).todo = Others(flush.todo)
           /\ Rest(at).at \in {"idle", at}
           /\ \A s \in Others(flush.todo) : s \in flush.todo /\ s.msg # First(flush.todo).msg
<1>1. FlushOK(flush) /\ flush.todo \in SUBSET Snapshot /\ flush.live \in BOOLEAN
  BY FlushOKIs, FlushIsRecord
<1>2. /\ First(flush.todo) \in flush.todo
      /\ Others(flush.todo) \subseteq flush.todo /\ Others(flush.todo) \in SUBSET Snapshot
      /\ First(flush.todo) \notin Others(flush.todo)
  BY <1>1, FirstTypes
<1>3. \A s \in Others(flush.todo) : s \in flush.todo /\ s.msg # First(flush.todo).msg
  BY <1>1, <1>2 DEF FlushOK
<1>4. CASE Others(flush.todo) = {}
  BY <1>3, <1>4, NoFlushOK DEF Rest
<1>5. CASE Others(flush.todo) # {}
  <2>1. Rest(at) = [at |-> at, todo |-> Others(flush.todo), msg |-> None, entry |-> None,
                    socket |-> 0, live |-> flush.live]
    BY <1>5 DEF Rest, NoFlush
  <2>2. 0 \in 0 .. MaxConns
    BY BoundsAssumption
  <2>3. \A s, t \in Others(flush.todo) : s.msg = t.msg => s = t
    BY <1>1, <1>2 DEF FlushOK
  <2>4. FlushOK(Rest(at))
    BY <2>1, <2>2, <2>3, <1>1, <1>2, <1>5 DEF FlushOK
  <2> QED
    BY <2>1, <2>4, <1>3
<1> QED
  BY <1>4, <1>5

\* What every step of a flush leaves alone.
FlushFrame ==
    UNCHANGED <<written, reset, overwritten, conn, connected, toClient, relayed, opened>>

\* What a flush does to the outbox.
FlushPut ==
    \/ outbox' = outbox
    \/ flush.todo # {} /\ \E e \in Entry : Put(First(flush.todo).msg, e)

\* What it may still do afterwards.
FlushTodo ==
    \/ flush'.todo \subseteq flush.todo
    \/ flush'.todo = SnapshotsOf({m \in Msg : IsDue(outbox[m])})

(* A change of an entry is an entry.                                       *)
LEMMA EntryTypes ==
    ASSUME NEW e \in Entry
    PROVE  /\ e.status \in {"pending", "sending", "sent", "failed"}
           /\ e.retryCount \in 0 .. MaxAttempts /\ e.ciphertext \in 0 .. MaxSeals
           /\ e.due \in BOOLEAN /\ e # None
           /\ \A st \in {"pending", "sending", "sent", "failed"} :
                [e EXCEPT !.status = st] \in Entry
           /\ \A c \in 0 .. MaxSeals : [e EXCEPT !.ciphertext = c] \in Entry
           /\ [e EXCEPT !.due = TRUE] \in Entry
           /\ Requeued(e) \in Entry /\ Settled(e) \in Entry
           /\ [e EXCEPT !.status = "pending", !.retryCount = 0, !.due = TRUE] \in Entry
<1>1. 0 \in 0 .. MaxAttempts
  BY BoundsAssumption
<1>2. e # None
  BY NoEntryAssumption
<1> QED
  BY <1>1, <1>2 DEF Entry, Requeued, Settled

\* What a step of a flush keeps of the types.
FlushStepOK ==
    /\ FlushFrame /\ FlushPut /\ FlushTodo
    /\ FlushOK(flush')
    /\ toServer' \in Seq(Msg) /\ Len(toServer') <= MaxQueue
    /\ sends' \in [Msg -> Nat] /\ seals' \in [Msg -> 0 .. MaxSeals]

(* A step of a flush writes at most the entry of its first message, and    *)
(* goes on with the messages it has or with the ones that are due.         *)
LEMMA FlushEffect ==
    ASSUME TypeOK, HandInv, FlushStep
    PROVE  FlushStepOK
<1>0. /\ toServer \in Seq(Msg) /\ Len(toServer) <= MaxQueue
      /\ sends \in [Msg -> Nat] /\ seals \in [Msg -> 0 .. MaxSeals]
      /\ conn \in 0 .. MaxConns /\ outbox \in [Msg -> Entry \cup {None}]
      /\ MaxAttempts \in Nat /\ MaxSeals \in Nat /\ MaxQueue \in Nat
  BY BoundsAssumption DEF TypeOK
<1>1. /\ FlushOK(flush) /\ flush.todo \in SUBSET Snapshot
      /\ flush.at # "idle" => flush.todo # {}
  BY FlushOKIs, FlushIsRecord
<1>2. CASE FlushStart
  <2> DEFINE due == {m \in Msg : IsDue(outbox[m])}
  <2>1. due \in SUBSET Msg /\ due # {} /\ \A m \in due : outbox[m] # None
    BY <1>2 DEF FlushStart, IsDue
  <2>2. /\ SnapshotsOf(due) \in SUBSET Snapshot /\ SnapshotsOf(due) # {}
        /\ \A s, t \in SnapshotsOf(due) : s.msg = t.msg => s = t
    BY <2>1, SnapshotTypes
  <2>3. flush' = [NoFlush EXCEPT !.at = "now", !.todo = SnapshotsOf(due)]
    BY <1>2 DEF FlushStart
  <2> HIDE DEF due
  <2>4. flush' = [at |-> "now", todo |-> SnapshotsOf(due), msg |-> None, entry |-> None,
                  socket |-> 0, live |-> TRUE]
    BY <2>3 DEF NoFlush
  <2>5. FlushOK(flush')
    <3>1. 0 \in 0 .. MaxConns
      BY BoundsAssumption
    <3> QED
      BY <2>2, <2>4, <3>1 DEF FlushOK
  <2>6. FlushTodo
    BY <2>4 DEF FlushTodo, due
  <2> QED
    BY <1>0, <1>2, <2>5, <2>6
       DEF FlushStart, FlushStepOK, FlushFrame, FlushPut, netVars, serverVars
<1>3. CASE FlushGiveUp
  <2>1. flush.todo # {}
    BY <1>3 DEF FlushGiveUp, AtEntry
  <2>2. [Latest EXCEPT !.status = "failed"] \in Entry
    BY <2>1, LatestTypes, EntryTypes
  <2>3. PICK at \in {"now", "loop"} : flush' = Rest(at)
    BY <1>3 DEF FlushGiveUp
  <2>4. FlushOK(flush') /\ flush'.todo \subseteq flush.todo
    BY <2>1, <2>3, RestOK
  <2>5. FlushPut
    BY <1>3, <2>1, <2>2 DEF FlushGiveUp, FlushPut
  <2> QED
    BY <1>0, <1>3, <2>4, <2>5
       DEF FlushGiveUp, FlushStepOK, FlushFrame, FlushTodo, netVars, serverVars
<1>4. CASE FlushBreak
  BY <1>0, <1>4, NoFlushOK
     DEF FlushBreak, FlushStepOK, FlushFrame, FlushPut, FlushTodo, netVars, serverVars
<1>5. CASE FlushTake
  <2> DEFINE entry == [Latest EXCEPT !.status = "sending"]
  <2>1. flush.todo # {} /\ First(flush.todo).msg \in Msg /\ Latest \in Entry
    BY <1>5, LatestTypes DEF FlushTake, AtTry, AtEntry
  <2>2. entry \in Entry /\ entry.retryCount = Latest.retryCount /\ entry.status = "sending"
    BY <2>1, EntryTypes DEF Entry
  <2> HIDE DEF entry
  <2>3. entry.retryCount < MaxAttempts
    <3>1. ~(Latest.retryCount >= MaxAttempts)
      BY <1>5 DEF FlushTake, AtTry, IsExhausted
    <3>2. Latest.retryCount \in 0 .. MaxAttempts
      BY <2>1, EntryTypes
    <3> QED
      BY <1>0, <2>2, <3>1, <3>2
  <2> USE DEF entry
  <2>4. /\ flush' = [flush EXCEPT !.at = "taken", !.msg = First(flush.todo).msg,
                                  !.entry = entry]
        /\ Put(First(flush.todo).msg, entry)
    BY <1>5 DEF FlushTake
  <2> HIDE DEF entry
  <2>5. FlushOK(flush') /\ flush'.todo \subseteq flush.todo
    BY <1>1, <2>1, <2>2, <2>3, <2>4 DEF FlushOK
  <2>6. FlushPut
    BY <2>1, <2>2, <2>4 DEF FlushPut
  <2> QED
    BY <1>0, <1>5, <2>5, <2>6
       DEF FlushTake, FlushStepOK, FlushFrame, FlushTodo, netVars, serverVars
<1>6. CASE FlushNoSession
  BY <1>0, <1>6, NoFlushOK
     DEF FlushNoSession, FlushStepOK, FlushFrame, FlushPut, FlushTodo, netVars, serverVars
<1>7. CASE FlushSeal
  <2> DEFINE m == flush.msg
             entry == [flush.entry EXCEPT !.ciphertext = seals[m] + 1]
  <2>1. /\ flush.at = "taken" /\ flush.todo # {}
        /\ flush.entry \in Entry /\ m \in Msg /\ m = First(flush.todo).msg
        /\ flush.entry.retryCount < MaxAttempts /\ flush.entry.status = "sending"
    BY <1>1, <1>7 DEF FlushSeal, FlushOK
  <2>2. CASE /\ seals[m] < MaxSeals
             /\ Put(m, entry)
             /\ seals' = [seals EXCEPT ![m] = @ + 1]
             /\ flush' = [flush EXCEPT !.at = "sealed", !.entry = entry]
    <3>1. seals[m] + 1 \in 0 .. MaxSeals /\ seals' \in [Msg -> 0 .. MaxSeals]
      BY <1>0, <2>1, <2>2
    <3>2. /\ entry \in Entry /\ entry.retryCount = flush.entry.retryCount
          /\ entry.status = "sending"
      BY <2>1, <3>1, EntryTypes DEF Entry
    <3> HIDE DEF entry
    <3>3. FlushOK(flush') /\ flush'.todo \subseteq flush.todo
      BY <1>1, <2>1, <2>2, <3>2 DEF FlushOK
    <3>4. FlushPut
      BY <2>1, <2>2, <3>2 DEF FlushPut
    <3> QED
      BY <1>0, <1>7, <3>1, <3>3, <3>4
         DEF FlushSeal, FlushStepOK, FlushFrame, FlushTodo, netVars, serverVars
  <2>3. CASE /\ Put(m, [flush.entry EXCEPT !.status = "failed"])
             /\ flush' = Rest("loop")
             /\ UNCHANGED seals
    <3>1. [flush.entry EXCEPT !.status = "failed"] \in Entry
      BY <2>1, EntryTypes
    <3>2. FlushOK(flush') /\ flush'.todo \subseteq flush.todo
      BY <2>1, <2>3, RestOK
    <3>3. FlushPut
      BY <2>1, <2>3, <3>1 DEF FlushPut
    <3> QED
      BY <1>0, <1>7, <2>3, <3>2, <3>3
         DEF FlushSeal, FlushStepOK, FlushFrame, FlushTodo, netVars, serverVars
  <2> QED
    BY <1>7, <2>2, <2>3 DEF FlushSeal
<1>8. CASE FlushPutBack
  <2>1. /\ flush.todo # {} /\ flush.entry \in Entry
        /\ flush.msg = First(flush.todo).msg
    BY <1>1, <1>8 DEF FlushPutBack, HasCiphertext, FlushOK
  <2>2. FlushPut
    BY <1>8, <2>1, EntryTypes DEF FlushPutBack, FlushPut
  <2> QED
    BY <1>0, <1>8, <2>2, NoFlushOK
       DEF FlushPutBack, FlushStepOK, FlushFrame, FlushTodo, netVars, serverVars
<1>9. CASE FlushAttempt
  <2> DEFINE entry == [flush.entry EXCEPT !.status = "sending", !.retryCount = @ + 1,
                                          !.due = FALSE]
  <2>1. /\ flush.todo # {} /\ flush.entry \in Entry /\ flush.entry.retryCount < MaxAttempts
        /\ flush.msg \in Msg /\ flush.msg = First(flush.todo).msg
    BY <1>1, <1>9 DEF FlushAttempt, HasCiphertext, FlushOK
  <2>2. entry \in Entry /\ entry.status = "sending"
    <3>1. flush.entry.retryCount + 1 \in 0 .. MaxAttempts
      BY <1>0, <2>1 DEF Entry
    <3> QED
      BY <2>1, <3>1 DEF Entry
  <2>3. /\ flush' = [flush EXCEPT !.at = "attempt", !.entry = entry, !.socket = conn]
        /\ Put(flush.msg, entry)
    BY <1>9 DEF FlushAttempt
  <2> HIDE DEF entry
  <2>4. FlushOK(flush') /\ flush'.todo \subseteq flush.todo
    BY <1>0, <1>1, <2>1, <2>2, <2>3 DEF FlushOK
  <2>5. FlushPut
    BY <2>1, <2>2, <2>3 DEF FlushPut
  <2> QED
    BY <1>0, <1>9, <2>4, <2>5
       DEF FlushAttempt, FlushStepOK, FlushFrame, FlushTodo, netVars, serverVars
<1>10. CASE FlushSend
  <2>1. flush.todo # {} /\ flush.msg \in Msg
    BY <1>1, <1>10 DEF FlushSend, FlushOK
  <2>2. FlushOK(flush') /\ flush'.todo \subseteq flush.todo
    BY <1>10, <2>1, RestOK DEF FlushSend
  <2>3. sends' \in [Msg -> Nat]
    BY <1>0, <1>10, <2>1 DEF FlushSend
  <2>4. toServer' \in Seq(Msg) /\ Len(toServer') <= MaxQueue
    <3>1. Append(toServer, flush.msg) \in Seq(Msg)
          /\ Len(Append(toServer, flush.msg)) = Len(toServer) + 1 /\ Len(toServer) \in Nat
      BY <1>0, <2>1, Enqueue
    <3>2. \/ toServer' = toServer
          \/ toServer' = Append(toServer, flush.msg) /\ Len(toServer) < MaxQueue
      BY <1>10 DEF FlushSend
    <3>3. CASE toServer' = toServer
      BY <1>0, <3>3
    <3>4. CASE toServer' = Append(toServer, flush.msg) /\ Len(toServer) < MaxQueue
      <4>1. Len(toServer) + 1 <= MaxQueue
        BY <1>0, <3>1, <3>4
      <4> QED
        BY <3>1, <3>4, <4>1
    <3> QED
      BY <3>2, <3>3, <3>4
  <2> QED
    BY <1>0, <1>10, <2>2, <2>3, <2>4
       DEF FlushSend, FlushStepOK, FlushFrame, FlushPut, FlushTodo, serverVars
<1> QED
  BY <1>2, <1>3, <1>4, <1>5, <1>6, <1>7, <1>8, <1>9, <1>10 DEF FlushStep

(* FlushOK says of a flush what the invariants say of it.                  *)
LEMMA FlushOKIsInvariant ==
    ASSUME FlushOK(flush)
    PROVE  /\ HandInv
           /\ flush \in [at : {"idle", "now", "loop", "taken", "sealed", "attempt"},
                         todo : SUBSET Snapshot, msg : Msg \cup {None},
                         entry : Entry \cup {None}, socket : 0 .. MaxConns, live : BOOLEAN]
           /\ flush.at # "idle" => flush.todo # {}
  BY DEF FlushOK, HandInv, InHand

(* A flush keeps the types.                                                *)
LEMMA FlushTypes ==
    ASSUME TypeOK, HandInv, FlushStep
    PROVE  TypeOK' /\ HandInv'
<1>1. FlushStepOK
  BY FlushEffect
<1>2. FlushOK(flush)'
  BY <1>1 DEF FlushStepOK, FlushOK, First, Msg, Entry, Snapshot
<1>3. /\ HandInv'
      /\ (flush \in [at : {"idle", "now", "loop", "taken", "sealed", "attempt"},
                     todo : SUBSET Snapshot, msg : Msg \cup {None},
                     entry : Entry \cup {None}, socket : 0 .. MaxConns, live : BOOLEAN])'
      /\ (flush.at # "idle" => flush.todo # {})'
  BY <1>2, FlushOKIsInvariant, PTL
<1>4. outbox' \in [Msg -> Entry \cup {None}]
  <2>1. outbox \in [Msg -> Entry \cup {None}] /\ flush.todo \in SUBSET Snapshot
    BY FlushIsRecord DEF TypeOK
  <2>2. FlushPut
    BY <1>1 DEF FlushStepOK
  <2>3. flush.todo # {} => First(flush.todo).msg \in Msg
    BY <2>1, FirstTypes
  <2> QED
    BY <2>1, <2>2, <2>3 DEF FlushPut, Put
<1>5. FlushFrame
  BY <1>1 DEF FlushStepOK
<1> QED
  BY <1>1, <1>3, <1>4, <1>5 DEF FlushStepOK, FlushFrame, TypeOK


(* What a reset does: it puts back messages that are being sent.           *)
LEMMA StartResetEffect ==
    ASSUME TypeOK, StartReset
    PROVE  /\ outbox' \in [Msg -> Entry \cup {None}]
           /\ \A m \in Msg : \/ outbox'[m] = outbox[m]
                             \/ IsSending(outbox[m]) /\ outbox'[m] = Requeued(outbox[m])
           /\ reset' = reset \/ reset' \in SUBSET Snapshot
           /\ \A s \in reset' : s \in reset \/ outbox[s.msg] # None
<1> DEFINE sending == {m \in Msg : IsSending(outbox[m])}
           S == SnapshotsOf(sending)
<1>1. sending \in SUBSET Msg /\ \A m \in sending : outbox[m] # None
  BY DEF IsSending
<1>2. /\ S \in SUBSET Snapshot
      /\ \A s \in S : s.msg \in sending /\ s.entry = outbox[s.msg]
  BY <1>1, SnapshotTypes
<1>3. outbox \in [Msg -> Entry \cup {None}]
  BY DEF TypeOK
<1>4. CASE S = {}
  <2>1. UNCHANGED <<outbox, reset>>
    BY <1>4 DEF StartReset
  <2> QED
    BY <1>3, <2>1
<1>5. CASE S # {}
  <2>1. Put(First(S).msg, Requeued(First(S).entry)) /\ reset' = Others(S)
    BY <1>5 DEF StartReset
  <2> HIDE DEF S
  <2>2. /\ First(S) \in S /\ First(S).msg \in Msg /\ First(S).entry \in Entry
        /\ Others(S) \subseteq S /\ Others(S) \in SUBSET Snapshot
    BY <1>2, <1>5, FirstTypes
  <2>3. /\ First(S).msg \in sending /\ First(S).entry = outbox[First(S).msg]
    BY <1>2, <2>2
  <2>4. Requeued(First(S).entry) \in Entry
    BY <2>2, EntryTypes
  <2>5. outbox' = [outbox EXCEPT ![First(S).msg] = Requeued(First(S).entry)]
    BY <2>1 DEF Put
  <2>6. outbox' \in [Msg -> Entry \cup {None}]
    BY <1>3, <2>2, <2>4, <2>5
  <2>7. \A m \in Msg : \/ outbox'[m] = outbox[m]
                       \/ IsSending(outbox[m]) /\ outbox'[m] = Requeued(outbox[m])
    BY <1>3, <2>2, <2>3, <2>5
  <2>8. \A s \in reset' : outbox[s.msg] # None
    BY <1>1, <1>2, <2>1, <2>2
  <2> QED
    BY <2>1, <2>2, <2>6, <2>7, <2>8
<1> QED
  BY <1>4, <1>5

\* What a step does to the messages that were written.
Lets ==
    /\ opened \subseteq opened'
    /\ written' = written \/ written' = written + 1
    /\ \A m \in Msg : outbox'[m] = None =>
        \/ outbox[m] = None /\ (m <= written \/ m > written')
        \/ m \in opened'

\* What a step elsewhere keeps.
ElsewhereOK == TypeOK' /\ WrittenInv' /\ FramesInv' /\ Lets

(* What the next frame says.                                               *)
LEMMA NextFrame ==
    ASSUME TypeOK, FramesInv, toClient # <<>>
    PROVE  /\ Head(toClient).msg \in Msg
           /\ Head(toClient).type = "delivered" => Head(toClient).msg \in opened
           /\ Tail(toClient) \in Seq(Frame) /\ Len(Tail(toClient)) <= MaxQueue
           /\ \A i \in 1 .. Len(Tail(toClient)) :
                Tail(toClient)[i].type = "delivered" => Tail(toClient)[i].msg \in opened
<1>1. toClient \in Seq(Frame) /\ Len(toClient) <= MaxQueue /\ MaxQueue \in Nat
  BY BoundsAssumption DEF TypeOK
<1> DEFINE q == toClient
<1>2. /\ Head(q) \in Frame /\ Tail(q) \in Seq(Frame) /\ Len(q) \in Nat
      /\ Len(q) > 0 /\ Len(Tail(q)) = Len(q) - 1
      /\ Head(q) = q[1]
      /\ \A i \in 1 .. Len(Tail(q)) : i + 1 \in 1 .. Len(q) /\ Tail(q)[i] = q[i + 1]
  BY <1>1, Dequeue
<1>3. Head(q).msg \in Msg
  BY <1>2 DEF Frame
<1>4. 1 \in 1 .. Len(q) /\ Len(Tail(q)) <= MaxQueue
  BY <1>1, <1>2
<1>5. Head(q).type = "delivered" => Head(q).msg \in opened
  BY <1>2, <1>4 DEF FramesInv
<1>6. \A i \in 1 .. Len(Tail(q)) : Tail(q)[i].type = "delivered" => Tail(q)[i].msg \in opened
  BY <1>2 DEF FramesInv
<1> QED
  BY <1>2, <1>3, <1>4, <1>5, <1>6

(* What a reply adds to the frames.                                        *)
LEMMA ReplyFrame ==
    ASSUME TypeOK, NEW type \in {"accepted", "delivered"}, NEW m \in Msg,
           Len(toClient) < MaxQueue, Reply(type, m)
    PROVE  /\ toClient' \in Seq(Frame) /\ Len(toClient') <= MaxQueue
           /\ \A i \in 1 .. Len(toClient') :
                \/ i \in 1 .. Len(toClient) /\ toClient'[i] = toClient[i]
                \/ toClient'[i].type = type /\ toClient'[i].msg = m
<1> DEFINE f == [type |-> type, msg |-> m]
<1>1. toClient \in Seq(Frame) /\ f \in Frame /\ MaxQueue \in Nat
  BY BoundsAssumption DEF TypeOK, Frame
<1>2. toClient' = Append(toClient, f)
  BY DEF Reply
<1> HIDE DEF f
<1>3. /\ Append(toClient, f) \in Seq(Frame) /\ Len(toClient) \in Nat
      /\ Len(Append(toClient, f)) = Len(toClient) + 1
      /\ Append(toClient, f)[Len(toClient) + 1] = f
      /\ \A i \in 1 .. Len(toClient) : Append(toClient, f)[i] = toClient[i]
  BY <1>1, Enqueue
<1>4. Len(toClient) + 1 <= MaxQueue
  BY <1>1, <1>3
<1>5. f.type = type /\ f.msg = m
  BY DEF f
<1>6. ASSUME NEW i \in 1 .. Len(toClient')
      PROVE  \/ i \in 1 .. Len(toClient) /\ toClient'[i] = toClient[i]
             \/ toClient'[i].type = type /\ toClient'[i].msg = m
  <2>1. i \in 1 .. Len(toClient) \/ i = Len(toClient) + 1
    BY <1>2, <1>3
  <2> QED
    BY <1>2, <1>3, <1>5, <2>1
<1> QED
  BY <1>2, <1>3, <1>4, <1>6

(* A step that does not touch the flush keeps its types.                   *)
LEMMA FlushKept ==
    ASSUME TypeOK, HandInv, flush' = flush
    PROVE  /\ HandInv'
           /\ (flush \in [at : {"idle", "now", "loop", "taken", "sealed", "attempt"},
                          todo : SUBSET Snapshot, msg : Msg \cup {None},
                          entry : Entry \cup {None}, socket : 0 .. MaxConns,
                          live : BOOLEAN])'
           /\ (flush.at # "idle" => flush.todo # {})'
<1>1. FlushOK(flush)
  BY FlushOKIs
<1>2. FlushOK(flush)'
  BY <1>1 DEF FlushOK, First, Msg, Entry, Snapshot
<1> QED
  BY <1>2, FlushOKIsInvariant, PTL

(* What the user, the sockets, the server and the peer do keeps the types, *)
(* and lets go of an entry only when its message has been opened.          *)
LEMMA ElsewhereEffect ==
    ASSUME TypeOK, HandInv, WrittenInv, FramesInv, Elsewhere
    PROVE  flush' = flush /\ HandInv' /\ ElsewhereOK
<1>1. flush' = flush
  BY DEF Elsewhere, Write, Retry, Elapse, Join, Lose, ResetNext, HandleFrame,
         HandleAccepted, HandleDelivered, ServerAccept, ServerRefuse, PeerOpen, PeerLose,
         clientVars
<1>2. /\ HandInv'
      /\ (flush \in [at : {"idle", "now", "loop", "taken", "sealed", "attempt"},
                     todo : SUBSET Snapshot, msg : Msg \cup {None},
                     entry : Entry \cup {None}, socket : 0 .. MaxConns, live : BOOLEAN])'
      /\ (flush.at # "idle" => flush.todo # {})'
  BY <1>1, FlushKept
<1> DEFINE FlushTyped ==
             /\ (flush \in [at : {"idle", "now", "loop", "taken", "sealed", "attempt"},
                            todo : SUBSET Snapshot, msg : Msg \cup {None},
                            entry : Entry \cup {None}, socket : 0 .. MaxConns,
                            live : BOOLEAN])'
             /\ (flush.at # "idle" => flush.todo # {})'
<1>3. /\ written \in 0 .. NumMsgs /\ NumMsgs \in Nat
      /\ outbox \in [Msg -> Entry \cup {None}]
      /\ reset \in SUBSET Snapshot
      /\ conn \in 0 .. MaxConns /\ MaxConns \in Nat /\ connected \in BOOLEAN
      /\ toServer \in Seq(Msg) /\ Len(toServer) <= MaxQueue /\ MaxQueue \in Nat
      /\ toClient \in Seq(Frame) /\ Len(toClient) <= MaxQueue
      /\ relayed \subseteq Msg /\ opened \subseteq Msg
      /\ sends \in [Msg -> Nat] /\ seals \in [Msg -> 0 .. MaxSeals]
      /\ overwritten \in BOOLEAN
  BY BoundsAssumption DEF TypeOK
<1>4. FlushTyped
  BY <1>2
<1> HIDE DEF FlushTyped
<1>5. ASSUME written' = written, outbox' = outbox, reset' = reset, sends' = sends,
             seals' = seals, overwritten' = overwritten,
             conn' \in 0 .. MaxConns, connected' \in BOOLEAN,
             toServer' \in Seq(Msg), Len(toServer') <= MaxQueue,
             toClient' \in Seq(Frame), Len(toClient') <= MaxQueue,
             relayed' \subseteq Msg, opened' \subseteq Msg,
             opened \subseteq opened', FramesInv'
      PROVE  ElsewhereOK
  <2>1. TypeOK'
    BY <1>3, <1>4, <1>5 DEF TypeOK, FlushTyped
  <2>2. WrittenInv'
    BY <1>1, <1>5 DEF WrittenInv
  <2>3. Lets
    BY <1>3, <1>5 DEF Lets, Msg
  <2> QED
    BY <1>5, <2>1, <2>2, <2>3 DEF ElsewhereOK
<1>6. ASSUME outbox' \in [Msg -> Entry \cup {None}], written' = written,
             \A m \in Msg : outbox[m] = None => outbox'[m] = None \/ m <= written,
             \A m \in Msg : outbox'[m] = None => outbox[m] = None \/ m \in opened,
             reset' \in SUBSET Snapshot, \A s \in reset' : s.msg <= written,
             sends' \in [Msg -> Nat], seals' = seals, overwritten' \in BOOLEAN,
             conn' = conn, connected' \in BOOLEAN,
             toServer' \in Seq(Msg), Len(toServer') <= MaxQueue,
             toClient' \in Seq(Frame), Len(toClient') <= MaxQueue,
             relayed' = relayed, opened' = opened, FramesInv'
      PROVE  ElsewhereOK
  <2>1. TypeOK'
    BY <1>3, <1>4, <1>6 DEF TypeOK, FlushTyped
  <2>2. WrittenInv'
    <3>1. \A m \in Msg : m > written => outbox'[m] = None
      BY <1>3, <1>6 DEF WrittenInv, Msg
    <3>2. \A s \in flush.todo : s.msg <= written
      BY DEF WrittenInv
    <3> QED
      BY <1>1, <1>6, <3>1, <3>2 DEF WrittenInv
  <2>3. Lets
    BY <1>3, <1>6 DEF Lets, Msg
  <2> QED
    BY <1>6, <2>1, <2>2, <2>3 DEF ElsewhereOK
<1>7. ASSUME Write  PROVE  ElsewhereOK
  <2>1. /\ written < NumMsgs /\ written' = written + 1
        /\ outbox' = [outbox EXCEPT ![written'] = NewEntry]
        /\ UNCHANGED <<flush, reset, sends, seals, overwritten, netVars, serverVars>>
    BY <1>7 DEF Write
  <2>2. NewEntry \in Entry /\ NewEntry # None
    <3>1. 0 \in 0 .. MaxAttempts /\ 0 \in 0 .. MaxSeals
      BY BoundsAssumption
    <3>2. NewEntry \in Entry
      BY <3>1 DEF NewEntry, Entry
    <3> QED
      BY <3>2, NoEntryAssumption
  <2>3. written' \in Msg /\ written' \in 0 .. NumMsgs
    BY <1>3, <2>1 DEF Msg
  <2>4. outbox' \in [Msg -> Entry \cup {None}]
    BY <1>3, <2>1, <2>2
  <2>5. TypeOK'
    BY <1>3, <1>4, <2>1, <2>3, <2>4 DEF TypeOK, FlushTyped, netVars, serverVars
  <2>6. WrittenInv'
    <3>1. \A m \in Msg : m > written' => outbox'[m] = None
      BY <1>3, <2>1, <2>3 DEF WrittenInv, Msg
    <3>2. \A s \in flush.todo \cup reset : s.msg <= written /\ s.msg \in Nat
      BY FlushIsRecord, <1>3 DEF WrittenInv, Snapshot, Msg
    <3>3. \A s \in (flush.todo \cup reset)' : s.msg <= written'
      BY <1>1, <1>3, <2>1, <3>2
    <3> QED
      BY <3>1, <3>3 DEF WrittenInv
  <2>7. FramesInv'
    BY <2>1 DEF FramesInv, netVars, serverVars
  <2>8. Lets
    <3>1. ASSUME NEW m \in Msg, outbox'[m] = None
          PROVE  outbox[m] = None /\ (m <= written \/ m > written')
      <4>1. m # written'
        BY <1>3, <2>1, <2>2, <2>3, <3>1
      <4>2. outbox'[m] = outbox[m]
        BY <1>3, <2>1, <4>1
      <4> QED
        BY <1>3, <2>1, <3>1, <4>1, <4>2 DEF Msg
    <3> QED
      BY <2>1, <3>1 DEF Lets, serverVars
  <2> QED
    BY <2>5, <2>6, <2>7, <2>8 DEF ElsewhereOK
<1>8. ASSUME NEW m \in Msg, Retry(m)  PROVE  ElsewhereOK
  <2>1. outbox[m] \in Entry /\ outbox[m] # None
    BY <1>3, <1>8 DEF Retry
  <2>2. outbox' = [outbox EXCEPT ![m] = [outbox[m] EXCEPT !.status = "pending",
                                                    !.retryCount = 0, !.due = TRUE]]
    BY <1>8 DEF Retry
  <2> DEFINE entry == [outbox[m] EXCEPT !.status = "pending", !.retryCount = 0, !.due = TRUE]
  <2>3. entry \in Entry /\ entry # None
    BY <2>1, EntryTypes, NoEntryAssumption
  <2> HIDE DEF entry
  <2>4. outbox' = [outbox EXCEPT ![m] = entry]
    BY <2>2 DEF entry
  <2>5. /\ outbox' \in [Msg -> Entry \cup {None}]
        /\ \A n \in Msg : outbox'[n] = None <=> outbox[n] = None
    BY <1>3, <2>1, <2>3, <2>4
  <2>6. sends' \in [Msg -> Nat]
    BY <1>3, <1>8 DEF Retry
  <2>7. UNCHANGED <<written, reset, seals, overwritten, netVars, serverVars>>
    BY <1>8 DEF Retry
  <2>8. FramesInv' /\ \A s \in reset' : s.msg <= written
    BY <2>7 DEF FramesInv, WrittenInv, netVars, serverVars
  <2> QED
    BY <1>3, <1>6, <2>5, <2>6, <2>7, <2>8 DEF netVars, serverVars
<1>9. ASSUME NEW m \in Msg, Elapse(m)  PROVE  ElsewhereOK
  <2> DEFINE entry == [outbox[m] EXCEPT !.due = TRUE]
  <2>1. outbox[m] \in Entry /\ outbox[m] # None
    BY <1>3, <1>9 DEF Elapse
  <2>2. outbox' = [outbox EXCEPT ![m] = entry]
    BY <1>9 DEF Elapse
  <2>3. entry \in Entry /\ entry # None
    BY <2>1, EntryTypes, NoEntryAssumption
  <2> HIDE DEF entry
  <2>5. /\ outbox' \in [Msg -> Entry \cup {None}]
        /\ \A n \in Msg : outbox'[n] = None <=> outbox[n] = None
    BY <1>3, <2>1, <2>2, <2>3
  <2>7. UNCHANGED <<written, reset, sends, seals, overwritten, netVars, serverVars>>
    BY <1>9 DEF Elapse
  <2>8. FramesInv' /\ \A s \in reset' : s.msg <= written
    BY <2>7 DEF FramesInv, WrittenInv, netVars, serverVars
  <2> QED
    BY <1>3, <1>6, <2>5, <2>7, <2>8 DEF netVars, serverVars
<1>10. ASSUME Join  PROVE  ElsewhereOK
  <2>1. /\ conn' \in 0 .. MaxConns /\ connected' \in BOOLEAN
        /\ UNCHANGED <<clientVars, toServer, toClient, serverVars>>
    BY <1>3, <1>10 DEF Join
  <2>2. FramesInv'
    BY <2>1 DEF FramesInv, serverVars
  <2> QED
    BY <1>3, <1>5, <2>1, <2>2 DEF clientVars, serverVars
<1>11. ASSUME Lose  PROVE  ElsewhereOK
  <2>1. /\ reset = {} /\ connected' = FALSE /\ toServer' = <<>> /\ toClient' = <<>>
        /\ StartReset
        /\ UNCHANGED <<written, flush, sends, seals, overwritten, conn, serverVars>>
    BY <1>11 DEF Lose
  <2>2. /\ outbox' \in [Msg -> Entry \cup {None}]
        /\ \A m \in Msg : \/ outbox'[m] = outbox[m]
                          \/ IsSending(outbox[m]) /\ outbox'[m] = Requeued(outbox[m])
        /\ reset' = reset \/ reset' \in SUBSET Snapshot
        /\ \A s \in reset' : s \in reset \/ outbox[s.msg] # None
    BY <2>1, StartResetEffect
  <2>3. \A m \in Msg : outbox'[m] = None <=> outbox[m] = None
    <3>1. \A m \in Msg : IsSending(outbox[m]) =>
            outbox[m] # None /\ Requeued(outbox[m]) # None
      BY <1>3, EntryTypes, NoEntryAssumption DEF IsSending
    <3> QED
      BY <2>2, <3>1
  <2>4. reset' \in SUBSET Snapshot
    BY <1>3, <2>2
  <2>5. \A s \in reset' : s.msg <= written
    <3> TAKE s \in reset'
    <3>1. s.msg \in Msg /\ outbox[s.msg] # None
      BY <2>1, <2>2, <2>4 DEF Snapshot
    <3> QED
      BY <1>3, <3>1 DEF WrittenInv, Msg
  <2>6. FramesInv'
    BY <2>1 DEF FramesInv
  <2>7. <<>> \in Seq(Msg) /\ <<>> \in Seq(Frame) /\ Len(<<>>) <= MaxQueue
    BY <1>3
  <2> QED
    BY <1>3, <1>6, <2>1, <2>2, <2>3, <2>4, <2>5, <2>6, <2>7 DEF serverVars
<1>12. ASSUME ResetNext  PROVE  ElsewhereOK
  <2> DEFINE m == First(reset).msg
             entry == Requeued(First(reset).entry)
  <2>1. /\ reset # {}
        /\ outbox' = [outbox EXCEPT ![m] = entry]
        /\ reset' = Others(reset)
        /\ overwritten' = (overwritten \/ ~IsCurrent(First(reset)))
        /\ UNCHANGED <<written, flush, sends, seals, netVars, serverVars>>
    BY <1>12 DEF ResetNext, Put
  <2>2. /\ First(reset) \in reset /\ m \in Msg /\ First(reset).entry \in Entry
        /\ Others(reset) \subseteq reset /\ Others(reset) \in SUBSET Snapshot
    BY <1>3, <2>1, FirstTypes
  <2>3. entry \in Entry /\ entry # None
    BY <2>2, EntryTypes, NoEntryAssumption
  <2>4. m <= written
    BY <2>2 DEF WrittenInv
  <2> HIDE DEF m, entry
  <2>5. outbox' \in [Msg -> Entry \cup {None}]
    BY <1>3, <2>1, <2>2, <2>3
  <2>6. \A n \in Msg : outbox[n] = None => outbox'[n] = None \/ n <= written
    BY <1>3, <2>1, <2>2, <2>4
  <2>7. \A n \in Msg : outbox'[n] = None => outbox[n] = None
    BY <1>3, <2>1, <2>2, <2>3
  <2>8. FramesInv' /\ \A s \in reset' : s.msg <= written
    BY <2>1, <2>2 DEF FramesInv, WrittenInv, netVars, serverVars
  <2>9. overwritten' \in BOOLEAN
    BY <2>1
  <2> QED
    BY <1>3, <1>6, <2>1, <2>2, <2>5, <2>6, <2>7, <2>8, <2>9 DEF netVars, serverVars
<1>13. ASSUME HandleFrame  PROVE  ElsewhereOK
  <2>1. /\ toClient # <<>> /\ toClient' = Tail(toClient)
        /\ UNCHANGED <<written, reset, sends, seals, overwritten, conn, connected,
                       toServer, serverVars>>
    BY <1>13 DEF HandleFrame, HandleAccepted, HandleDelivered
  <2>2. /\ Head(toClient).msg \in Msg
        /\ Head(toClient).type = "delivered" => Head(toClient).msg \in opened
        /\ Tail(toClient) \in Seq(Frame) /\ Len(Tail(toClient)) <= MaxQueue
        /\ \A i \in 1 .. Len(Tail(toClient)) :
             Tail(toClient)[i].type = "delivered" => Tail(toClient)[i].msg \in opened
    BY <2>1, NextFrame
  <2>3. FramesInv'
    BY <2>1, <2>2 DEF FramesInv, serverVars
  <2> DEFINE m == Head(toClient).msg
  <2>4. /\ outbox' \in [Msg -> Entry \cup {None}]
        /\ \A n \in Msg : outbox[n] = None => outbox'[n] = None
        /\ \A n \in Msg : outbox'[n] = None => outbox[n] = None \/ n \in opened
    <3>1. CASE HandleAccepted
      <4>1. \/ outbox' = outbox
            \/ outbox[m] # None /\ outbox' = [outbox EXCEPT ![m] = Settled(outbox[m])]
        BY <3>1 DEF HandleAccepted, Put
      <4>2. outbox[m] # None => Settled(outbox[m]) \in Entry /\ Settled(outbox[m]) # None
        BY <1>3, <2>2, EntryTypes, NoEntryAssumption
      <4> QED
        BY <1>3, <2>2, <4>1, <4>2
    <3>2. CASE HandleDelivered
      <4>1. outbox' = [outbox EXCEPT ![m] = None] /\ m \in opened
        BY <2>2, <3>2 DEF HandleDelivered, Put
      <4> QED
        BY <1>3, <2>2, <4>1
    <3> QED
      BY <1>13, <3>1, <3>2 DEF HandleFrame
  <2>5. \A s \in reset' : s.msg <= written
    BY <2>1 DEF WrittenInv
  <2> QED
    BY <1>3, <1>6, <2>1, <2>2, <2>3, <2>4, <2>5 DEF serverVars
<1>14. ASSUME ServerAccept  PROVE  ElsewhereOK
  <2>1. /\ toServer # <<>> /\ Len(toClient) < MaxQueue
        /\ relayed' \in {relayed, relayed \cup {Head(toServer)}}
        /\ Reply("accepted", Head(toServer))
        /\ toServer' = Tail(toServer)
        /\ UNCHANGED <<clientVars, conn, connected, opened>>
    BY <1>14 DEF ServerAccept
  <2>2. /\ Head(toServer) \in Msg /\ Tail(toServer) \in Seq(Msg)
        /\ Len(Tail(toServer)) <= MaxQueue
    <3>1. /\ Head(toServer) \in Msg /\ Tail(toServer) \in Seq(Msg) /\ Len(toServer) \in Nat
          /\ Len(Tail(toServer)) = Len(toServer) - 1
      BY <1>3, <2>1, Dequeue
    <3> QED
      BY <1>3, <3>1
  <2>3. /\ toClient' \in Seq(Frame) /\ Len(toClient') <= MaxQueue
        /\ \A i \in 1 .. Len(toClient') :
             \/ i \in 1 .. Len(toClient) /\ toClient'[i] = toClient[i]
             \/ toClient'[i].type = "accepted" /\ toClient'[i].msg = Head(toServer)
    BY <2>1, <2>2, ReplyFrame
  <2>4. FramesInv'
    BY <2>1, <2>3 DEF FramesInv
  <2> QED
    BY <1>3, <1>5, <2>1, <2>2, <2>3, <2>4 DEF clientVars
<1>15. ASSUME ServerRefuse  PROVE  ElsewhereOK
  <2>1. /\ toServer # <<>> /\ toServer' = Tail(toServer)
        /\ UNCHANGED <<clientVars, conn, connected, toClient, serverVars>>
    BY <1>15 DEF ServerRefuse
  <2>2. Tail(toServer) \in Seq(Msg) /\ Len(Tail(toServer)) <= MaxQueue
    <3>1. /\ Tail(toServer) \in Seq(Msg) /\ Len(toServer) \in Nat
          /\ Len(Tail(toServer)) = Len(toServer) - 1
      BY <1>3, <2>1, Dequeue
    <3> QED
      BY <1>3, <3>1
  <2>3. FramesInv'
    BY <2>1 DEF FramesInv, serverVars
  <2> QED
    BY <1>3, <1>5, <2>1, <2>2, <2>3 DEF clientVars, serverVars
<1>16. ASSUME NEW m \in relayed, PeerOpen(m)  PROVE  ElsewhereOK
  <2>1. /\ Len(toClient) < MaxQueue
        /\ relayed' = relayed \ {m} /\ opened' = opened \cup {m}
        /\ Reply("delivered", m) \/ toClient' = toClient
        /\ UNCHANGED <<clientVars, conn, connected, toServer>>
    BY <1>16 DEF PeerOpen
  <2>2. m \in Msg
    BY <1>3
  <2>3. CASE toClient' = toClient
    <3>1. FramesInv'
      BY <2>1, <2>3 DEF FramesInv
    <3> QED
      BY <1>3, <1>5, <2>1, <2>2, <2>3, <3>1 DEF clientVars
  <2>4. CASE Reply("delivered", m)
    <3>1. /\ toClient' \in Seq(Frame) /\ Len(toClient') <= MaxQueue
          /\ \A i \in 1 .. Len(toClient') :
               \/ i \in 1 .. Len(toClient) /\ toClient'[i] = toClient[i]
               \/ toClient'[i].type = "delivered" /\ toClient'[i].msg = m
      BY <2>1, <2>2, <2>4, ReplyFrame
    <3>2. FramesInv'
      BY <2>1, <3>1 DEF FramesInv
    <3> QED
      BY <1>3, <1>5, <2>1, <2>2, <3>1, <3>2 DEF clientVars
  <2> QED
    BY <2>1, <2>3, <2>4
<1>17. ASSUME NEW m \in relayed, PeerLose(m)  PROVE  ElsewhereOK
  <2>1. relayed' = relayed \ {m} /\ UNCHANGED <<clientVars, netVars, opened>>
    BY <1>17 DEF PeerLose
  <2>2. FramesInv'
    BY <2>1 DEF FramesInv, netVars
  <2> QED
    BY <1>3, <1>5, <2>1, <2>2 DEF clientVars, netVars
<1>18. ElsewhereOK
  <2> HIDE DEF ElsewhereOK
  <2>1. CASE \E m \in Msg : Retry(m) \/ Elapse(m)
    BY <1>8, <1>9, <2>1, Zenon
  <2>2. CASE \E m \in relayed : PeerOpen(m) \/ PeerLose(m)
    BY <1>16, <1>17, <2>2, Zenon
  <2> QED
    BY <1>7, <1>10, <1>11, <1>12, <1>13, <1>14, <1>15, <2>1, <2>2, Zenon DEF Elsewhere
<1> QED
  BY <1>1, <1>2, <1>18

(* A flush keeps what the messages it works on were written for, and lets  *)
(* go of nothing.                                                          *)
LEMMA FlushKeeps ==
    ASSUME TypeOK, HandInv, WrittenInv, FramesInv, FlushStep
    PROVE  HandInv' /\ ElsewhereOK
<1>1. FlushStepOK /\ TypeOK' /\ HandInv'
  BY FlushEffect, FlushTypes
<1>2. FlushFrame /\ FlushPut /\ FlushTodo
  BY <1>1 DEF FlushStepOK
<1>3. /\ outbox \in [Msg -> Entry \cup {None}] /\ flush.todo \in SUBSET Snapshot
      /\ written \in 0 .. NumMsgs
  BY FlushIsRecord DEF TypeOK
<1>4. flush.todo # {} => First(flush.todo).msg \in Msg /\ First(flush.todo).msg <= written
  BY <1>3, FirstTypes DEF WrittenInv
<1>5. \A m \in Msg : outbox'[m] = None => outbox[m] = None
  BY <1>2, <1>3, <1>4, NoEntryAssumption DEF FlushPut, Put
<1>6. \A m \in Msg : m > written => outbox'[m] = None
  <2>1. ASSUME NEW m \in Msg, m > written  PROVE  outbox'[m] = outbox[m]
    <3>1. flush.todo # {} => m # First(flush.todo).msg
      BY <1>3, <1>4, <2>1 DEF Msg
    <3> QED
      BY <1>2, <1>3, <3>1 DEF FlushPut, Put
  <2> QED
    BY <2>1 DEF WrittenInv
<1>7. \A s \in flush'.todo : s.msg <= written
  <2>1. CASE flush'.todo \subseteq flush.todo
    BY <2>1 DEF WrittenInv
  <2>2. CASE flush'.todo = SnapshotsOf({m \in Msg : IsDue(outbox[m])})
    <3> DEFINE due == {m \in Msg : IsDue(outbox[m])}
    <3>1. due \in SUBSET Msg /\ \A m \in due : outbox[m] # None
      BY DEF IsDue
    <3>2. \A s \in flush'.todo : s.msg \in due
      BY <2>2, <3>1, SnapshotTypes
    <3> QED
      BY <1>3, <3>1, <3>2 DEF WrittenInv, Msg
  <2> QED
    BY <1>2, <2>1, <2>2 DEF FlushTodo
<1>8. \A s \in reset : s.msg <= written
  BY DEF WrittenInv
<1>9. WrittenInv'
  BY <1>2, <1>6, <1>7, <1>8 DEF WrittenInv, FlushFrame
<1>10. FramesInv'
  BY <1>2 DEF FramesInv, FlushFrame
<1>11. Lets
  BY <1>2, <1>3, <1>5 DEF Lets, FlushFrame, Msg
<1> QED
  BY <1>1, <1>9, <1>10, <1>11 DEF ElsewhereOK

(* A message that is lost was lost before, or has been opened.             *)
LEMMA LetsKeeps ==
    ASSUME TypeOK, NoMessageLost, Lets, TypeOK'
    PROVE  NoMessageLost'
<1>1. written \in 0 .. NumMsgs /\ written' \in 0 .. NumMsgs /\ NumMsgs \in Nat
  BY BoundsAssumption DEF TypeOK
<1>2. ASSUME NEW m \in 1 .. written', outbox'[m] = None, m \in Msg  PROVE  m \in opened'
  <2>1. (outbox[m] = None /\ (m <= written \/ m > written')) \/ m \in opened'
    BY <1>2 DEF Lets
  <2>2. outbox[m] = None /\ m \in 1 .. written => m \in opened'
    BY DEF Lets, NoMessageLost, Written
  <2> QED
    BY <1>1, <2>1, <2>2
<1> QED
  BY <1>1, <1>2 DEF NoMessageLost, Written, Msg

-----------------------------------------------------------------------------
(* Attempts and envelopes                                                  *)

\* What OneEnvelope and AttemptsBounded rest on, as long as no reset ran late.
Bounds == \A m \in Msg : sends[m] <= MaxAttempts /\ seals[m] <= 1

EntriesUpToDate == \A m \in Msg : outbox[m] # None => UpToDate(m, outbox[m])

TodoUpToDate ==
    \A s \in flush.todo : (InHand /\ s.msg = flush.msg) \/ UpToDate(s.msg, s.entry)

HandUpToDate == InHand => UpToDate(flush.msg, flush.entry)

\* What is in hand has not been given up.
HandQueued == InHand /\ outbox[flush.msg] # None => outbox[flush.msg].status # "failed"

\* What is not written yet has not been sealed or sent.
UnwrittenUnsent == \A m \in Msg : m > written => sends[m] = 0 /\ seals[m] = 0

(* The parts of CountInv.                                                  *)
LEMMA CountParts ==
    CountInv <=> /\ UnwrittenUnsent /\ HandQueued
                 /\ ~overwritten => Bounds /\ EntriesUpToDate /\ TodoUpToDate /\ HandUpToDate
  BY DEF CountInv, Bounds, EntriesUpToDate, TodoUpToDate, HandUpToDate, HandQueued,
         UnwrittenUnsent

(* The entry that a flush begins to work on is up to date.                 *)
LEMMA LatestUpToDate ==
    ASSUME TypeOK, ~InHand, flush.todo # {}, EntriesUpToDate, TodoUpToDate
    PROVE  UpToDate(First(flush.todo).msg, Latest)
<1>1. /\ First(flush.todo) \in flush.todo /\ First(flush.todo).msg \in Msg
      /\ outbox[First(flush.todo).msg] # None => Latest = outbox[First(flush.todo).msg]
      /\ outbox[First(flush.todo).msg] = None => Latest = First(flush.todo).entry
  BY LatestTypes
<1> QED
  BY <1>1 DEF EntriesUpToDate, TodoUpToDate

\* A copy knows how often its message was sealed and sent.
Fits(sent, sealed, at, entry) ==
    /\ sent + (IF at = "attempt" THEN 1 ELSE 0) <= entry.retryCount
    /\ entry.ciphertext = sealed

(* A step of a flush that works on one message need be looked at for that  *)
(* message only.                                                           *)
LEMMA OneMessage ==
    ASSUME TypeOK, HandInv, EntriesUpToDate, TodoUpToDate, Bounds,
           NEW m \in Msg,
           \A n \in Msg \ {m} : /\ outbox'[n] = outbox[n]
                                /\ sends'[n] = sends[n] /\ seals'[n] = seals[n],
           InHand => flush.msg = m, InHand' => flush'.msg = m,
           \A s \in flush'.todo : s \in flush.todo /\ (InHand' \/ s.msg # m),
           sends'[m] <= MaxAttempts, seals'[m] <= 1,
           outbox'[m] # None => Fits(sends'[m], seals'[m], flush'.at, outbox'[m]),
           InHand' => Fits(sends'[m], seals'[m], flush'.at, flush'.entry)
    PROVE  Bounds' /\ EntriesUpToDate' /\ TodoUpToDate' /\ HandUpToDate'
<1>1. Bounds'
  BY DEF Bounds, Msg
<1>2. ASSUME NEW n \in Msg, n # m
      PROVE  /\ Counted(n) = 0 /\ Counted(n)' = 0
             /\ sends'[n] = sends[n] /\ seals'[n] = seals[n] /\ outbox'[n] = outbox[n]
  BY <1>2 DEF Counted, InHand
<1>3. EntriesUpToDate'
  <2>1. ASSUME NEW n \in Msg, outbox'[n] # None
        PROVE  sends'[n] + Counted(n)' <= outbox'[n].retryCount /\ outbox'[n].ciphertext = seals'[n]
    <3>1. CASE n = m
      <4>1. Counted(m)' = IF flush'.at = "attempt" THEN 1 ELSE 0
        BY DEF Counted, InHand
      <4> QED
        BY <2>1, <3>1, <4>1 DEF Fits
    <3>2. CASE n # m
      <4>1. UpToDate(n, outbox[n])
        BY <1>2, <2>1, <3>2 DEF EntriesUpToDate
      <4> QED
        BY <1>2, <3>2, <4>1 DEF UpToDate
    <3> QED
      BY <3>1, <3>2
  <2> QED
    BY <2>1 DEF EntriesUpToDate, UpToDate, Msg
<1>4. TodoUpToDate'
  <2>1. ASSUME NEW s \in flush'.todo
        PROVE  \/ InHand' /\ s.msg = flush'.msg
               \/ sends'[s.msg] + Counted(s.msg)' <= s.entry.retryCount
                  /\ s.entry.ciphertext = seals'[s.msg]
    <3>1. s \in flush.todo /\ s.msg \in Msg
      BY <2>1, FlushIsRecord DEF Snapshot
    <3>2. CASE s.msg = m
      BY <2>1, <3>2
    <3>3. CASE s.msg # m
      <4>1. UpToDate(s.msg, s.entry)
        BY <3>1, <3>3 DEF TodoUpToDate
      <4> QED
        BY <1>2, <3>1, <3>3, <4>1 DEF UpToDate
    <3> QED
      BY <3>2, <3>3
  <2> QED
    BY <2>1 DEF TodoUpToDate, UpToDate
<1>5. HandUpToDate'
  <2>1. InHand' => Counted(m)' = IF flush'.at = "attempt" THEN 1 ELSE 0
    BY DEF Counted
  <2> QED
    BY <2>1 DEF HandUpToDate, UpToDate, Fits
<1> QED
  BY <1>1, <1>3, <1>4, <1>5

(* A flush keeps the counts.                                               *)
LEMMA FlushCounts ==
    ASSUME TypeOK, HandInv, WrittenInv, CountInv, FlushStep
    PROVE  CountInv'
<1>1. /\ FlushOK(flush) /\ flush.todo \in SUBSET Snapshot
      /\ flush.at # "idle" => flush.todo # {}
  BY FlushOKIs, FlushIsRecord
<1>2. /\ outbox \in [Msg -> Entry \cup {None}] /\ written \in 0 .. NumMsgs
      /\ sends \in [Msg -> Nat] /\ seals \in [Msg -> 0 .. MaxSeals]
      /\ MaxAttempts \in Nat \ {0} /\ MaxSeals \in Nat
  BY BoundsAssumption DEF TypeOK
<1>3. UnwrittenUnsent /\ HandQueued
  BY CountParts
<1>4. FlushFrame
  BY FlushEffect DEF FlushStepOK
<1> DEFINE m == First(flush.todo).msg
<1>5. /\ flush.todo # {} => m \in Msg /\ m <= written
      /\ flush.todo # {} =>
           \A s \in Others(flush.todo) : s \in flush.todo /\ s.msg # m
      /\ \A at \in {"now", "loop"} : flush.todo # {} =>
           Rest(at).todo = Others(flush.todo) /\ Rest(at).at \in {"idle", at}
      /\ InHand => flush.msg = m /\ flush.todo # {}
  BY <1>1, FirstTypes, RestOK DEF WrittenInv, HandInv, InHand
<1> HIDE DEF m
<1>6. ASSUME flush.todo # {},
             \A n \in Msg \ {m} : sends'[n] = sends[n] /\ seals'[n] = seals[n]
      PROVE  UnwrittenUnsent'
  <2>1. \A n \in Msg : n > written => n # m
    BY <1>2, <1>5, <1>6 DEF Msg
  <2>2. ASSUME NEW n \in Msg, n > written  PROVE  sends'[n] = 0 /\ seals'[n] = 0
    BY <1>3, <1>6, <2>1, <2>2 DEF UnwrittenUnsent
  <2>3. written' = written
    BY <1>4 DEF FlushFrame
  <2> QED
    BY <2>2, <2>3 DEF UnwrittenUnsent
<1>7. ASSUME UnwrittenUnsent', HandQueued',
             EntriesUpToDate /\ TodoUpToDate /\ Bounds /\ HandUpToDate
               => Bounds' /\ EntriesUpToDate' /\ TodoUpToDate' /\ HandUpToDate'
      PROVE  CountInv'
  <2>1. overwritten' = overwritten
    BY <1>4 DEF FlushFrame
  <2>2. ~overwritten => Bounds /\ EntriesUpToDate /\ TodoUpToDate /\ HandUpToDate
    BY CountParts
  <2>3. ~overwritten' => Bounds' /\ EntriesUpToDate' /\ TodoUpToDate' /\ HandUpToDate'
    BY <1>7, <2>1, <2>2
  <2>4. CountInv' <=> /\ UnwrittenUnsent' /\ HandQueued'
                      /\ ~overwritten' => Bounds' /\ EntriesUpToDate' /\ TodoUpToDate'
                                          /\ HandUpToDate'
    BY CountParts, PTL
  <2> QED
    BY <1>7, <2>3, <2>4
<1>8. ASSUME ~InHand'  PROVE  HandQueued' /\ HandUpToDate'
  BY <1>8 DEF HandQueued, HandUpToDate
<1>9. ASSUME flush.todo # {},
             flush' = NoFlush \/ \E at \in {"now", "loop"} : flush' = Rest(at)
      PROVE  /\ ~InHand' /\ flush'.at # "attempt"
             /\ \A s \in flush'.todo : s \in flush.todo /\ s.msg # m
  BY <1>5, <1>9, NoFlushOK DEF InHand
<1>10. CASE FlushStart
  <2> DEFINE due == {n \in Msg : IsDue(outbox[n])}
  <2>1. due \in SUBSET Msg /\ \A n \in due : outbox[n] # None
    BY DEF IsDue
  <2>2. \A s \in SnapshotsOf(due) : s.msg \in due /\ s.entry = outbox[s.msg]
    BY <2>1, SnapshotTypes
  <2>3. /\ flush.at = "idle" /\ flush'.at = "now" /\ flush'.todo = SnapshotsOf(due)
        /\ UNCHANGED <<written, outbox, sends, seals>>
    BY <1>10 DEF FlushStart, NoFlush
  <2> HIDE DEF due
  <2>4. ~InHand /\ ~InHand' /\ \A n \in Msg : Counted(n) = 0 /\ Counted(n)' = 0
    BY <2>3 DEF InHand, Counted
  <2>5. UnwrittenUnsent'
    BY <1>3, <2>3 DEF UnwrittenUnsent
  <2>6. ASSUME EntriesUpToDate, Bounds  PROVE  Bounds' /\ EntriesUpToDate' /\ TodoUpToDate'
    <3>1. Bounds'
      BY <2>3, <2>6 DEF Bounds
    <3>2. \A n \in Msg : outbox[n] # None =>
             sends[n] <= outbox[n].retryCount /\ outbox[n].ciphertext = seals[n]
      BY <1>2, <2>4, <2>6 DEF EntriesUpToDate, UpToDate
    <3>3. \A n \in Msg : sends'[n] + Counted(n)' = sends[n]
      BY <1>2, <2>3, <2>4
    <3>4. EntriesUpToDate'
      BY <2>3, <3>2, <3>3 DEF EntriesUpToDate, UpToDate
    <3>5. \A s \in flush'.todo : /\ sends'[s.msg] + Counted(s.msg)' <= s.entry.retryCount
                                 /\ s.entry.ciphertext = seals'[s.msg]
      BY <2>1, <2>2, <2>3, <3>2, <3>3
    <3>6. TodoUpToDate'
      BY <3>5 DEF TodoUpToDate, UpToDate
    <3> QED
      BY <3>1, <3>4, <3>6
  <2> QED
    BY <1>7, <1>8, <2>4, <2>5, <2>6
<1>11. CASE FlushGiveUp
  <2>1. /\ flush.todo # {} /\ ~InHand
        /\ outbox' = [outbox EXCEPT ![m] = [Latest EXCEPT !.status = "failed"]]
        /\ flush' = NoFlush \/ \E at \in {"now", "loop"} : flush' = Rest(at)
        /\ UNCHANGED <<sends, seals>>
    BY <1>11 DEF FlushGiveUp, AtEntry, InHand, Put, m
  <2>2. UnwrittenUnsent' /\ HandQueued'
    BY <1>6, <1>8, <1>9, <2>1
  <2>3. ASSUME EntriesUpToDate, TodoUpToDate, Bounds
        PROVE  Bounds' /\ EntriesUpToDate' /\ TodoUpToDate' /\ HandUpToDate'
    <3>1. UpToDate(m, Latest) /\ Latest \in Entry
      BY <2>1, <2>3, LatestUpToDate, LatestTypes DEF m
    <3>2. Counted(m) = 0
      BY <2>1 DEF Counted, InHand
    <3>3. Fits(sends'[m], seals'[m], flush'.at, outbox'[m])
      <4>1. outbox'[m] = [Latest EXCEPT !.status = "failed"]
        BY <1>2, <1>5, <2>1
      <4>2. /\ outbox'[m].retryCount = Latest.retryCount
            /\ outbox'[m].ciphertext = Latest.ciphertext
        BY <3>1, <4>1 DEF Entry
      <4> QED
        BY <1>9, <2>1, <3>1, <3>2, <4>2 DEF UpToDate, Fits
    <3>4. sends'[m] <= MaxAttempts /\ seals'[m] <= 1
      BY <1>5, <2>1, <2>3 DEF Bounds
    <3>5. \A n \in Msg \ {m} : outbox'[n] = outbox[n]
      BY <1>2, <2>1
    <3> QED
      BY <1>5, <1>9, <2>1, <2>3, <3>3, <3>4, <3>5, OneMessage
  <2> QED
    BY <1>7, <2>2, <2>3
<1>12. ASSUME ~InHand \/ flush.at # "attempt", flush.todo # {}, flush' = NoFlush,
              UNCHANGED <<outbox, sends, seals>>
       PROVE  CountInv'
  <2>1. UnwrittenUnsent' /\ HandQueued'
    BY <1>6, <1>8, <1>9, <1>12
  <2>2. ASSUME EntriesUpToDate, TodoUpToDate, Bounds
        PROVE  Bounds' /\ EntriesUpToDate' /\ TodoUpToDate' /\ HandUpToDate'
    <3>1. Counted(m) = 0
      BY <1>12 DEF Counted, InHand
    <3>2. outbox[m] # None => Fits(sends[m], seals[m], flush'.at, outbox[m])
      BY <1>5, <1>9, <1>12, <2>2, <3>1 DEF EntriesUpToDate, UpToDate, Fits
    <3>3. sends[m] <= MaxAttempts /\ seals[m] <= 1
      BY <1>5, <1>12, <2>2 DEF Bounds
    <3> QED
      BY <1>5, <1>9, <1>12, <2>2, <3>2, <3>3, OneMessage
  <2> QED
    BY <1>7, <2>1, <2>2
<1>13. CASE FlushBreak
  BY <1>12, <1>13 DEF FlushBreak, AtTry, AtEntry, InHand
<1>14. CASE FlushNoSession
  BY <1>5, <1>12, <1>14 DEF FlushNoSession, InHand
<1>15. CASE FlushTake
  <2> DEFINE entry == [Latest EXCEPT !.status = "sending"]
  <2>1. /\ flush.todo # {} /\ ~InHand
        /\ outbox' = [outbox EXCEPT ![m] = entry]
        /\ flush' = [flush EXCEPT !.at = "taken", !.msg = m, !.entry = entry]
        /\ UNCHANGED <<sends, seals>>
    BY <1>15 DEF FlushTake, AtTry, AtEntry, InHand, Put, m
  <2>2. Latest \in Entry
    BY <2>1, LatestTypes
  <2>3. /\ entry.status = "sending" /\ entry.retryCount = Latest.retryCount
        /\ entry.ciphertext = Latest.ciphertext
    BY <2>2 DEF Entry
  <2> HIDE DEF entry
  <2>4. /\ flush'.at = "taken" /\ flush'.msg = m /\ flush'.entry = entry
        /\ flush'.todo = flush.todo
    BY <1>1, <2>1 DEF FlushOK
  <2>5. InHand' /\ outbox'[m] = entry
    BY <1>2, <1>5, <2>1, <2>4 DEF InHand
  <2>6. HandQueued'
    BY <2>3, <2>4, <2>5 DEF HandQueued
  <2>7. UnwrittenUnsent'
    BY <1>6, <2>1
  <2>8. ASSUME EntriesUpToDate, TodoUpToDate, Bounds
        PROVE  Bounds' /\ EntriesUpToDate' /\ TodoUpToDate' /\ HandUpToDate'
    <3>1. UpToDate(m, Latest) /\ Counted(m) = 0
      BY <2>1, <2>8, LatestUpToDate DEF m, Counted, InHand
    <3>2. Fits(sends'[m], seals'[m], flush'.at, entry)
      BY <2>1, <2>3, <2>4, <3>1 DEF UpToDate, Fits
    <3>3. sends'[m] <= MaxAttempts /\ seals'[m] <= 1
      BY <1>5, <2>1, <2>8 DEF Bounds
    <3>4. \A n \in Msg \ {m} : outbox'[n] = outbox[n]
      BY <1>2, <2>1
    <3> QED
      BY <1>5, <2>1, <2>4, <2>5, <2>8, <3>2, <3>3, <3>4, OneMessage
  <2> QED
    BY <1>7, <2>6, <2>7, <2>8
<1>16. CASE FlushSeal
  <2> DEFINE entry == [flush.entry EXCEPT !.ciphertext = seals[m] + 1]
             failed == [flush.entry EXCEPT !.status = "failed"]
  <2>1. /\ flush.at = "taken" /\ InHand /\ flush.msg = m /\ flush.todo # {} /\ m \in Msg
        /\ flush.entry \in Entry /\ flush.entry.status = "sending"
        /\ flush.entry.ciphertext = 0
    BY <1>1, <1>5, <1>16 DEF FlushSeal, FlushOK, InHand
  <2>2. CASE /\ outbox' = [outbox EXCEPT ![m] = entry]
             /\ seals' = [seals EXCEPT ![m] = @ + 1]
             /\ flush' = [flush EXCEPT !.at = "sealed", !.entry = entry]
    <3>1. /\ entry.status = "sending" /\ entry.retryCount = flush.entry.retryCount
          /\ entry.ciphertext = seals[m] + 1
      BY <2>1 DEF Entry
    <3> HIDE DEF entry
    <3>2. /\ flush'.at = "sealed" /\ flush'.msg = m /\ flush'.entry = entry
          /\ flush'.todo = flush.todo
      BY <1>1, <2>1, <2>2 DEF FlushOK
    <3>3. /\ InHand' /\ outbox'[m] = entry /\ sends' = sends /\ seals'[m] = seals[m] + 1
          /\ \A n \in Msg \ {m} : outbox'[n] = outbox[n] /\ seals'[n] = seals[n]
      BY <1>2, <1>16, <2>1, <2>2, <3>2 DEF InHand, FlushSeal
    <3>4. HandQueued'
      BY <3>1, <3>2, <3>3 DEF HandQueued
    <3>5. UnwrittenUnsent'
      BY <1>6, <2>1, <3>3
    <3>6. ASSUME EntriesUpToDate, TodoUpToDate, Bounds, HandUpToDate
          PROVE  Bounds' /\ EntriesUpToDate' /\ TodoUpToDate' /\ HandUpToDate'
      <4>1. UpToDate(m, flush.entry) /\ Counted(m) = 0
        BY <2>1, <3>6 DEF HandUpToDate, Counted
      <4>2. Fits(sends'[m], seals'[m], flush'.at, entry)
        BY <3>1, <3>2, <3>3, <4>1 DEF UpToDate, Fits
      <4>3. sends'[m] <= MaxAttempts /\ seals'[m] <= 1
        BY <1>2, <2>1, <3>3, <3>6, <4>1 DEF Bounds, UpToDate
      <4> QED
        BY <2>1, <3>2, <3>3, <3>6, <4>2, <4>3, OneMessage
    <3> QED
      BY <1>7, <3>4, <3>5, <3>6
  <2>3. CASE /\ outbox' = [outbox EXCEPT ![m] = failed]
             /\ flush' = Rest("loop")
             /\ UNCHANGED seals
    <3>1. /\ failed.retryCount = flush.entry.retryCount
          /\ failed.ciphertext = flush.entry.ciphertext
      BY <2>1 DEF Entry
    <3> HIDE DEF failed
    <3>2. /\ outbox'[m] = failed /\ UNCHANGED <<sends, seals>>
          /\ \A n \in Msg \ {m} : outbox'[n] = outbox[n]
      BY <1>2, <1>16, <2>1, <2>3 DEF FlushSeal
    <3>3. /\ ~InHand' /\ flush'.at # "attempt"
          /\ \A s \in flush'.todo : s \in flush.todo /\ s.msg # m
      BY <1>9, <2>1, <2>3
    <3>4. UnwrittenUnsent' /\ HandQueued'
      BY <1>6, <1>8, <2>1, <3>2, <3>3
    <3>5. ASSUME EntriesUpToDate, TodoUpToDate, Bounds, HandUpToDate
          PROVE  Bounds' /\ EntriesUpToDate' /\ TodoUpToDate' /\ HandUpToDate'
      <4>1. UpToDate(m, flush.entry) /\ Counted(m) = 0
        BY <2>1, <3>5 DEF HandUpToDate, Counted
      <4>2. Fits(sends'[m], seals'[m], flush'.at, outbox'[m])
        BY <3>1, <3>2, <3>3, <4>1 DEF UpToDate, Fits
      <4>3. sends'[m] <= MaxAttempts /\ seals'[m] <= 1
        BY <2>1, <3>2, <3>5 DEF Bounds
      <4> QED
        BY <2>1, <3>2, <3>3, <3>5, <4>2, <4>3, OneMessage
    <3> QED
      BY <1>7, <3>4, <3>5
  <2> QED
    BY <1>16, <2>1, <2>2, <2>3 DEF FlushSeal, Put
<1>17. CASE FlushPutBack
  <2> DEFINE entry == Requeued(flush.entry)
  <2>1. /\ flush.at \in {"taken", "sealed"} /\ InHand /\ flush.msg = m
        /\ flush.todo # {} /\ m \in Msg /\ flush.entry \in Entry
        /\ outbox' = [outbox EXCEPT ![m] = entry] /\ flush' = NoFlush
        /\ UNCHANGED <<sends, seals>>
    BY <1>1, <1>5, <1>17 DEF FlushPutBack, HasCiphertext, FlushOK, InHand, Put
  <2>2. /\ entry.retryCount = flush.entry.retryCount
        /\ entry.ciphertext = flush.entry.ciphertext
    BY <2>1 DEF Entry, Requeued
  <2> HIDE DEF entry
  <2>3. /\ outbox'[m] = entry /\ \A n \in Msg \ {m} : outbox'[n] = outbox[n]
    BY <1>2, <2>1
  <2>4. /\ ~InHand' /\ flush'.at # "attempt"
        /\ \A s \in flush'.todo : s \in flush.todo /\ s.msg # m
    BY <1>9, <2>1
  <2>5. UnwrittenUnsent' /\ HandQueued'
    BY <1>6, <1>8, <2>1, <2>4
  <2>6. ASSUME EntriesUpToDate, TodoUpToDate, Bounds, HandUpToDate
        PROVE  Bounds' /\ EntriesUpToDate' /\ TodoUpToDate' /\ HandUpToDate'
    <3>1. UpToDate(m, flush.entry) /\ Counted(m) = 0
      BY <2>1, <2>6 DEF HandUpToDate, Counted
    <3>2. Fits(sends'[m], seals'[m], flush'.at, outbox'[m])
      BY <2>1, <2>2, <2>3, <2>4, <3>1 DEF UpToDate, Fits
    <3>3. sends'[m] <= MaxAttempts /\ seals'[m] <= 1
      BY <2>1, <2>6 DEF Bounds
    <3> QED
      BY <2>1, <2>3, <2>4, <2>6, <3>2, <3>3, OneMessage
  <2> QED
    BY <1>7, <2>5, <2>6
<1>18. CASE FlushAttempt
  <2> DEFINE entry == [flush.entry EXCEPT !.status = "sending", !.retryCount = @ + 1,
                                          !.due = FALSE]
  <2>1. /\ flush.at \in {"taken", "sealed"} /\ InHand /\ flush.msg = m
        /\ flush.todo # {} /\ m \in Msg /\ flush.entry \in Entry
        /\ outbox' = [outbox EXCEPT ![m] = entry]
        /\ flush' = [flush EXCEPT !.at = "attempt", !.entry = entry, !.socket = conn]
        /\ UNCHANGED <<sends, seals>>
    BY <1>1, <1>5, <1>18 DEF FlushAttempt, HasCiphertext, FlushOK, InHand, Put
  <2>2. /\ entry.status = "sending" /\ entry.retryCount = flush.entry.retryCount + 1
        /\ entry.ciphertext = flush.entry.ciphertext
    BY <2>1 DEF Entry
  <2> HIDE DEF entry
  <2>3. /\ flush'.at = "attempt" /\ flush'.msg = m /\ flush'.entry = entry
        /\ flush'.todo = flush.todo
    BY <1>1, <2>1 DEF FlushOK
  <2>4. /\ InHand' /\ outbox'[m] = entry /\ \A n \in Msg \ {m} : outbox'[n] = outbox[n]
    BY <1>2, <2>1, <2>3 DEF InHand
  <2>5. HandQueued'
    BY <2>2, <2>3, <2>4 DEF HandQueued
  <2>6. UnwrittenUnsent'
    BY <1>6, <2>1
  <2>7. ASSUME EntriesUpToDate, TodoUpToDate, Bounds, HandUpToDate
        PROVE  Bounds' /\ EntriesUpToDate' /\ TodoUpToDate' /\ HandUpToDate'
    <3>1. UpToDate(m, flush.entry) /\ Counted(m) = 0
      BY <2>1, <2>7 DEF HandUpToDate, Counted
    <3>2. flush.entry.retryCount \in Nat /\ sends[m] \in Nat
      BY <1>2, <2>1 DEF Entry
    <3>3. Fits(sends'[m], seals'[m], flush'.at, entry)
      BY <2>1, <2>2, <2>3, <3>1, <3>2 DEF UpToDate, Fits
    <3>4. sends'[m] <= MaxAttempts /\ seals'[m] <= 1
      BY <2>1, <2>7 DEF Bounds
    <3> QED
      BY <2>1, <2>3, <2>4, <2>7, <3>3, <3>4, OneMessage
  <2> QED
    BY <1>7, <2>5, <2>6, <2>7
<1>19. CASE FlushSend
  <2>1. /\ flush.at = "attempt" /\ InHand /\ flush.msg = m
        /\ flush.todo # {} /\ m \in Msg /\ flush.entry \in Entry
        /\ sends' = [sends EXCEPT ![m] = @ + 1] /\ flush' = Rest("now")
        /\ UNCHANGED <<outbox, seals>>
    BY <1>1, <1>5, <1>19 DEF FlushSend, FlushOK, InHand
  <2>2. /\ sends'[m] = sends[m] + 1 /\ \A n \in Msg \ {m} : sends'[n] = sends[n]
    BY <1>2, <2>1
  <2>3. /\ ~InHand' /\ flush'.at # "attempt"
        /\ \A s \in flush'.todo : s \in flush.todo /\ s.msg # m
    BY <1>9, <2>1
  <2>4. UnwrittenUnsent' /\ HandQueued'
    BY <1>6, <1>8, <2>1, <2>2, <2>3
  <2>5. ASSUME EntriesUpToDate, TodoUpToDate, Bounds, HandUpToDate
        PROVE  Bounds' /\ EntriesUpToDate' /\ TodoUpToDate' /\ HandUpToDate'
    <3>1. UpToDate(m, flush.entry) /\ Counted(m) = 1
      BY <2>1, <2>5 DEF HandUpToDate, Counted
    <3>2. flush.entry.retryCount \in 0 .. MaxAttempts /\ sends[m] \in Nat
      BY <1>2, <2>1 DEF Entry
    <3>3. outbox'[m] # None => Fits(sends'[m], seals'[m], flush'.at, outbox'[m])
      <4>1. outbox[m] # None => UpToDate(m, outbox[m]) /\ outbox[m].retryCount \in Nat
        BY <1>2, <2>1, <2>5 DEF EntriesUpToDate, Entry
      <4> QED
        BY <2>1, <2>2, <2>3, <3>1, <3>2, <4>1 DEF UpToDate, Fits
    <3>4. sends'[m] <= MaxAttempts /\ seals'[m] <= 1
      BY <1>2, <2>1, <2>2, <2>5, <3>1, <3>2 DEF Bounds, UpToDate
    <3> QED
      BY <2>1, <2>2, <2>3, <2>5, <3>3, <3>4, OneMessage
  <2> QED
    BY <1>7, <2>4, <2>5
<1> QED
  BY <1>10, <1>11, <1>13, <1>14, <1>15, <1>16, <1>17, <1>18, <1>19 DEF FlushStep

\* Two copies agree on how often the message was sealed and sent.
SameCounts(a, b) == a.retryCount = b.retryCount /\ a.ciphertext = b.ciphertext

(* What the user, the sockets, the server and the peer do keeps the        *)
(* counts.                                                                 *)
LEMMA ElsewhereCounts ==
    ASSUME TypeOK, HandInv, WrittenInv, CountInv, Elsewhere
    PROVE  CountInv'
<1>1. /\ FlushOK(flush) /\ flush.todo \in SUBSET Snapshot
      /\ flush.at # "idle" => flush.todo # {}
  BY FlushOKIs, FlushIsRecord
<1>2. /\ outbox \in [Msg -> Entry \cup {None}]
      /\ written \in 0 .. NumMsgs /\ NumMsgs \in Nat
      /\ reset \in SUBSET Snapshot
      /\ sends \in [Msg -> Nat] /\ seals \in [Msg -> 0 .. MaxSeals]
      /\ MaxAttempts \in Nat \ {0}
  BY BoundsAssumption DEF TypeOK
<1>3. UnwrittenUnsent /\ HandQueued
  BY CountParts
<1>4. InHand => flush.msg \in Msg /\ flush.msg <= written
  BY <1>1, FirstTypes DEF HandInv, InHand, WrittenInv
<1>5. ASSUME flush' = flush, seals' = seals,
             written' = written \/ written' = written + 1,
             overwritten => overwritten',
             \A n \in Msg : sends'[n] = sends[n] \/ (sends'[n] = 0 /\ Counted(n) = 0),
             InHand /\ outbox'[flush.msg] # None => outbox'[flush.msg].status # "failed",
             EntriesUpToDate /\ ~overwritten' =>
               \A n \in Msg : outbox'[n] # None =>
                 \/ /\ outbox[n] # None /\ sends'[n] = sends[n]
                    /\ SameCounts(outbox'[n], outbox[n])
                 \/ /\ sends'[n] = 0 /\ Counted(n) = 0 /\ 0 <= outbox'[n].retryCount
                    /\ outbox'[n].ciphertext = seals[n]
      PROVE  CountInv'
  <2>1. (InHand' <=> InHand) /\ \A n \in Msg : Counted(n)' = Counted(n)
    BY <1>5 DEF InHand, Counted
  <2>2. UnwrittenUnsent'
    <3>1. ASSUME NEW n \in Msg, n > written'  PROVE  sends'[n] = 0 /\ seals'[n] = 0
      <4>1. n > written
        BY <1>2, <1>5, <3>1 DEF Msg
      <4> QED
        BY <1>3, <1>5, <4>1 DEF UnwrittenUnsent
    <3> QED
      BY <3>1 DEF UnwrittenUnsent
  <2>3. HandQueued'
    BY <1>5, <2>1 DEF HandQueued
  <2>4. ASSUME ~overwritten'
        PROVE  Bounds' /\ EntriesUpToDate' /\ TodoUpToDate' /\ HandUpToDate'
    <3>1. Bounds /\ EntriesUpToDate /\ TodoUpToDate /\ HandUpToDate
      BY <1>5, <2>4, CountParts
    <3>2. Bounds'
      BY <1>2, <1>5, <3>1 DEF Bounds
    <3>3. ASSUME NEW n \in Msg, NEW e, UpToDate(n, e), e.retryCount \in Nat
          PROVE  sends'[n] + Counted(n)' <= e.retryCount /\ e.ciphertext = seals'[n]
      <4>1. sends[n] + Counted(n) <= e.retryCount /\ e.ciphertext = seals[n]
        BY <3>3 DEF UpToDate
      <4>2. sends'[n] + Counted(n)' <= e.retryCount
        BY <1>2, <1>5, <2>1, <3>3, <4>1
      <4> QED
        BY <1>5, <4>1, <4>2
    <3>4. ASSUME NEW n \in Msg, outbox'[n] # None
          PROVE  /\ sends'[n] + Counted(n)' <= outbox'[n].retryCount
                 /\ outbox'[n].ciphertext = seals'[n]
      <4>1. CASE /\ outbox[n] # None /\ sends'[n] = sends[n]
                 /\ SameCounts(outbox'[n], outbox[n])
        <5>1. sends[n] + Counted(n) <= outbox[n].retryCount /\ outbox[n].ciphertext = seals[n]
          BY <3>1, <4>1 DEF EntriesUpToDate, UpToDate
        <5> QED
          BY <1>5, <2>1, <4>1, <5>1 DEF SameCounts
      <4>2. CASE /\ sends'[n] = 0 /\ Counted(n) = 0 /\ 0 <= outbox'[n].retryCount
                 /\ outbox'[n].ciphertext = seals[n]
        BY <1>5, <2>1, <4>2
      <4> QED
        BY <1>5, <2>4, <3>1, <3>4, <4>1, <4>2
    <3>5. EntriesUpToDate'
      BY <3>4 DEF EntriesUpToDate, UpToDate, Msg
    <3>6. ASSUME NEW s \in flush'.todo
          PROVE  \/ InHand' /\ s.msg = flush'.msg
                 \/ /\ sends'[s.msg] + Counted(s.msg)' <= s.entry.retryCount
                    /\ s.entry.ciphertext = seals'[s.msg]
      <4>1. s \in flush.todo /\ s.msg \in Msg /\ s.entry \in Entry
        BY <1>1, <1>5 DEF Snapshot
      <4>2. s.entry.retryCount \in Nat
        BY <4>1 DEF Entry
      <4>3. (InHand /\ s.msg = flush.msg) \/ UpToDate(s.msg, s.entry)
        BY <3>1, <4>1 DEF TodoUpToDate
      <4> QED
        BY <1>5, <2>1, <3>3, <4>1, <4>2, <4>3
    <3>7. TodoUpToDate'
      BY <3>6 DEF TodoUpToDate, UpToDate
    <3>8. ASSUME InHand
          PROVE  /\ sends'[flush.msg] + Counted(flush.msg) <= flush.entry.retryCount
                 /\ flush.entry.ciphertext = seals'[flush.msg]
      <4>1. flush.msg \in Msg /\ flush.entry \in Entry
        BY <1>1, <3>8 DEF FlushOK, InHand
      <4>2. flush.entry.retryCount \in Nat
        BY <4>1 DEF Entry
      <4>3. UpToDate(flush.msg, flush.entry)
        BY <3>1, <3>8 DEF HandUpToDate
      <4> QED
        BY <2>1, <3>3, <4>1, <4>2, <4>3
    <3>9. InHand => Counted(flush.msg)' = Counted(flush.msg)
      BY <1>5 DEF Counted
    <3>10. HandUpToDate'
      BY <1>5, <2>1, <3>8, <3>9 DEF HandUpToDate, UpToDate
    <3> QED
      BY <3>2, <3>5, <3>7, <3>10
  <2>5. CountInv' <=> /\ UnwrittenUnsent' /\ HandQueued'
                      /\ ~overwritten' => Bounds' /\ EntriesUpToDate' /\ TodoUpToDate'
                                          /\ HandUpToDate'
    BY CountParts, PTL
  <2> QED
    BY <2>2, <2>3, <2>4, <2>5
<1>6. InHand /\ outbox[flush.msg] # None => outbox[flush.msg].status # "failed"
  BY <1>3 DEF HandQueued
<1>7. CASE Write
  <2>1. /\ written' = written + 1 /\ written' \in Msg
        /\ outbox' = [outbox EXCEPT ![written'] = NewEntry]
        /\ UNCHANGED <<flush, sends, seals, overwritten>>
    BY <1>2, <1>7 DEF Write, Msg
  <2>2. sends[written'] = 0 /\ seals[written'] = 0 /\ Counted(written') = 0
    <3>1. written' > written
      BY <1>2, <2>1
    <3>2. ~(InHand /\ flush.msg = written')
      BY <1>2, <1>4, <2>1, <3>1
    <3> QED
      BY <1>3, <2>1, <3>1, <3>2 DEF UnwrittenUnsent, Counted, InHand
  <2>3. NewEntry.status = "pending" /\ NewEntry.retryCount = 0 /\ NewEntry.ciphertext = 0
    BY DEF NewEntry
  <2>4. outbox'[written'] = NewEntry /\ \A n \in Msg \ {written'} : outbox'[n] = outbox[n]
    BY <1>2, <2>1
  <2>5. \A n \in Msg : outbox'[n] # None =>
          \/ outbox[n] # None /\ sends'[n] = sends[n] /\ SameCounts(outbox'[n], outbox[n])
          \/ /\ sends'[n] = 0 /\ Counted(n) = 0 /\ 0 <= outbox'[n].retryCount
             /\ outbox'[n].ciphertext = seals[n]
    BY <2>1, <2>2, <2>3, <2>4 DEF SameCounts
  <2>6. InHand /\ outbox'[flush.msg] # None => outbox'[flush.msg].status # "failed"
    BY <1>4, <1>6, <2>3, <2>4
  <2> QED
    BY <1>5, <2>1, <2>5, <2>6
<1>8. ASSUME NEW m \in Msg, Retry(m)  PROVE  CountInv'
  <2> DEFINE entry == [outbox[m] EXCEPT !.status = "pending", !.retryCount = 0, !.due = TRUE]
  <2>1. /\ outbox[m] # None /\ outbox[m].status = "failed"
        /\ outbox' = [outbox EXCEPT ![m] = entry]
        /\ sends' = [sends EXCEPT ![m] = 0]
        /\ UNCHANGED <<written, flush, seals, overwritten>>
    BY <1>8 DEF Retry
  <2>2. outbox[m] \in Entry
    BY <1>2, <2>1
  <2>3. entry.status = "pending" /\ entry.retryCount = 0 /\ entry.ciphertext = outbox[m].ciphertext
    BY <2>2 DEF Entry
  <2> HIDE DEF entry
  <2>4. /\ outbox'[m] = entry /\ \A n \in Msg \ {m} : outbox'[n] = outbox[n]
        /\ sends'[m] = 0 /\ \A n \in Msg \ {m} : sends'[n] = sends[n]
    BY <1>2, <2>1
  <2>5. ~(InHand /\ flush.msg = m) /\ Counted(m) = 0
    BY <1>6, <2>1 DEF Counted, InHand
  <2>6. EntriesUpToDate => \A n \in Msg : outbox'[n] # None =>
          \/ outbox[n] # None /\ sends'[n] = sends[n] /\ SameCounts(outbox'[n], outbox[n])
          \/ /\ sends'[n] = 0 /\ Counted(n) = 0 /\ 0 <= outbox'[n].retryCount
             /\ outbox'[n].ciphertext = seals[n]
    BY <2>1, <2>3, <2>4, <2>5 DEF SameCounts, EntriesUpToDate, UpToDate
  <2>7. InHand /\ outbox'[flush.msg] # None => outbox'[flush.msg].status # "failed"
    BY <1>4, <1>6, <2>4, <2>5
  <2>8. \A n \in Msg : sends'[n] = sends[n] \/ (sends'[n] = 0 /\ Counted(n) = 0)
    BY <2>4, <2>5
  <2> QED
    BY <1>5, <2>1, <2>6, <2>7, <2>8
<1>9. ASSUME UNCHANGED <<flush, sends, seals, written>>, overwritten => overwritten',
             \A n \in Msg : outbox'[n] # None =>
               \/ overwritten'
               \/ outbox[n] # None /\ SameCounts(outbox'[n], outbox[n]),
             \A n \in Msg : outbox'[n] # None /\ outbox'[n].status = "failed" =>
               outbox[n] # None /\ outbox[n].status = "failed"
      PROVE  CountInv'
  <2>1. InHand /\ outbox'[flush.msg] # None => outbox'[flush.msg].status # "failed"
    BY <1>4, <1>6, <1>9
  <2>2. ~overwritten' => \A n \in Msg : outbox'[n] # None =>
          outbox[n] # None /\ sends'[n] = sends[n] /\ SameCounts(outbox'[n], outbox[n])
    BY <1>9
  <2> QED
    BY <1>5, <1>9, <2>1, <2>2
<1>10. ASSUME NEW m \in Msg, Elapse(m)  PROVE  CountInv'
  <2> DEFINE entry == [outbox[m] EXCEPT !.due = TRUE]
  <2>1. /\ outbox[m] # None /\ outbox' = [outbox EXCEPT ![m] = entry]
        /\ UNCHANGED <<written, flush, sends, seals, overwritten>>
    BY <1>10 DEF Elapse
  <2>2. outbox[m] \in Entry
    BY <1>2, <2>1
  <2>3. entry.status = outbox[m].status /\ SameCounts(entry, outbox[m])
    BY <2>2 DEF Entry, SameCounts
  <2> HIDE DEF entry
  <2>4. outbox'[m] = entry /\ \A n \in Msg \ {m} : outbox'[n] = outbox[n]
    BY <1>2, <2>1
  <2>5. \A n \in Msg : outbox'[n] # None => outbox[n] # None /\ SameCounts(outbox'[n], outbox[n])
    BY <2>1, <2>3, <2>4 DEF SameCounts
  <2>6. \A n \in Msg : outbox'[n] # None /\ outbox'[n].status = "failed" =>
          outbox[n] # None /\ outbox[n].status = "failed"
    BY <2>1, <2>3, <2>4
  <2> QED
    BY <1>9, <2>1, <2>5, <2>6
<1>11. ASSUME UNCHANGED clientVars  PROVE  CountInv'
  <2>1. UNCHANGED <<flush, outbox, sends, seals, written, overwritten>>
    BY <1>11 DEF clientVars
  <2>2. \A n \in Msg : SameCounts(outbox[n], outbox[n])
    BY DEF SameCounts
  <2> QED
    BY <1>9, <2>1, <2>2
<1>12. CASE Lose
  <2>1. StartReset /\ UNCHANGED <<written, flush, sends, seals, overwritten>>
    BY <1>12 DEF Lose
  <2>2. \A m \in Msg : \/ outbox'[m] = outbox[m]
                       \/ IsSending(outbox[m]) /\ outbox'[m] = Requeued(outbox[m])
    BY <2>1, StartResetEffect
  <2>3. \A m \in Msg : IsSending(outbox[m]) =>
          /\ outbox[m] # None /\ SameCounts(Requeued(outbox[m]), outbox[m])
          /\ Requeued(outbox[m]).status = "pending"
    BY <1>2 DEF IsSending, Requeued, SameCounts, Entry
  <2>4. \A n \in Msg : outbox'[n] # None => outbox[n] # None /\ SameCounts(outbox'[n], outbox[n])
    BY <2>2, <2>3 DEF SameCounts
  <2>5. \A n \in Msg : outbox'[n] # None /\ outbox'[n].status = "failed" =>
          outbox[n] # None /\ outbox[n].status = "failed"
    BY <2>2, <2>3
  <2> QED
    BY <1>9, <2>1, <2>4, <2>5
<1>13. CASE ResetNext
  <2> DEFINE m == First(reset).msg
             entry == Requeued(First(reset).entry)
  <2>1. /\ reset # {}
        /\ outbox' = [outbox EXCEPT ![m] = entry]
        /\ overwritten' = (overwritten \/ ~IsCurrent(First(reset)))
        /\ UNCHANGED <<written, flush, sends, seals>>
    BY <1>13 DEF ResetNext, Put
  <2>2. m \in Msg /\ First(reset).entry \in Entry
    BY <1>2, <2>1, FirstTypes
  <2>3. entry.status = "pending" /\ SameCounts(entry, First(reset).entry)
    BY <2>2 DEF Entry, Requeued, SameCounts
  <2>4. IsCurrent(First(reset)) => outbox[m] # None /\ SameCounts(First(reset).entry, outbox[m])
    BY DEF IsCurrent, SameCounts
  <2> HIDE DEF m, entry
  <2>5. outbox'[m] = entry /\ \A n \in Msg \ {m} : outbox'[n] = outbox[n]
    BY <1>2, <2>1, <2>2
  <2>6. \A n \in Msg : outbox'[n] # None =>
          \/ overwritten'
          \/ outbox[n] # None /\ SameCounts(outbox'[n], outbox[n])
    BY <2>1, <2>3, <2>4, <2>5 DEF SameCounts
  <2>7. \A n \in Msg : outbox'[n] # None /\ outbox'[n].status = "failed" =>
          outbox[n] # None /\ outbox[n].status = "failed"
    BY <2>3, <2>5
  <2> QED
    BY <1>9, <2>1, <2>6, <2>7
<1>14. CASE HandleFrame
  <2> DEFINE m == Head(toClient).msg
  <2>1. UNCHANGED <<written, flush, sends, seals, overwritten>>
    BY <1>14 DEF HandleFrame, HandleAccepted, HandleDelivered
  <2>2. \/ outbox' = outbox
        \/ outbox' = [outbox EXCEPT ![m] = None]
        \/ outbox[m] # None /\ outbox' = [outbox EXCEPT ![m] = Settled(outbox[m])]
    BY <1>14 DEF HandleFrame, HandleAccepted, HandleDelivered, Put
  <2>3. \A n \in Msg : outbox[n] # None =>
          SameCounts(Settled(outbox[n]), outbox[n]) /\ Settled(outbox[n]).status = "sent"
    BY <1>2 DEF Settled, SameCounts, Entry
  <2>4. \A n \in Msg : outbox'[n] # None =>
          outbox[n] # None /\ (outbox'[n] = outbox[n] \/ outbox'[n] = Settled(outbox[n]))
    BY <1>2, <2>2
  <2>5. \A n \in Msg : outbox'[n] # None => outbox[n] # None /\ SameCounts(outbox'[n], outbox[n])
    BY <2>3, <2>4 DEF SameCounts
  <2>6. \A n \in Msg : outbox'[n] # None /\ outbox'[n].status = "failed" =>
          outbox[n] # None /\ outbox[n].status = "failed"
    BY <2>3, <2>4
  <2> QED
    BY <1>9, <2>1, <2>5, <2>6
<1>15. CASE Join \/ ServerAccept \/ ServerRefuse
  BY <1>11, <1>15 DEF Join, ServerAccept, ServerRefuse
<1>16. ASSUME NEW m \in relayed, PeerOpen(m) \/ PeerLose(m)  PROVE  CountInv'
  BY <1>11, <1>16 DEF PeerOpen, PeerLose
<1>17. CASE \E m \in Msg : Retry(m) \/ Elapse(m)
  BY <1>8, <1>10, <1>17, Zenon
<1> QED
  BY <1>7, <1>12, <1>13, <1>14, <1>15, <1>16, <1>17, Zenon DEF Elsewhere

-----------------------------------------------------------------------------
(* The theorems of Outbox                                                  *)

(* The outbox begins in the invariant.                                     *)
LEMMA OutboxInitInv == Init => OutboxInv
<1> SUFFICES ASSUME Init  PROVE OutboxInv
  OBVIOUS
<1>1. FlushOK(flush) /\ flush.todo = {} /\ flush.at = "idle"
  BY NoFlushOK DEF Init
<1>2. HandInv /\ ~InHand
  BY <1>1, FlushOKIsInvariant DEF InHand
<1>3. TypeOK
  <2>1. /\ 0 \in 0 .. NumMsgs /\ 0 \in 0 .. MaxConns /\ 0 \in 0 .. MaxSeals /\ 0 <= MaxQueue
        /\ <<>> \in Seq(Msg) /\ <<>> \in Seq(Frame) /\ Len(<<>>) = 0
    BY BoundsAssumption
  <2>2. /\ flush \in [at : {"idle", "now", "loop", "taken", "sealed", "attempt"},
                     todo : SUBSET Snapshot, msg : Msg \cup {None},
                     entry : Entry \cup {None}, socket : 0 .. MaxConns, live : BOOLEAN]
        /\ flush.at # "idle" => flush.todo # {}
    BY <1>1, FlushOKIsInvariant
  <2>3. /\ outbox \in [Msg -> Entry \cup {None}] /\ sends \in [Msg -> Nat]
        /\ seals \in [Msg -> 0 .. MaxSeals]
    BY <2>1 DEF Init
  <2> QED
    BY <2>1, <2>2, <2>3 DEF Init, TypeOK
<1>4. WrittenInv /\ FramesInv /\ NoMessageLost
  BY <1>1 DEF Init, WrittenInv, FramesInv, NoMessageLost, Written
<1>5. CountInv
  <2>1. UnwrittenUnsent /\ HandQueued /\ HandUpToDate /\ TodoUpToDate
    BY <1>1, <1>2 DEF Init, UnwrittenUnsent, HandQueued, HandUpToDate, TodoUpToDate
  <2>2. Bounds /\ EntriesUpToDate
    BY BoundsAssumption DEF Init, Bounds, EntriesUpToDate
  <2> QED
    BY <2>1, <2>2, CountParts
<1> QED
  BY <1>2, <1>3, <1>4, <1>5 DEF OutboxInv

(* Every step keeps it.                                                    *)
LEMMA OutboxNextInv == OutboxInv /\ [Next]_vars => OutboxInv'
<1> SUFFICES ASSUME OutboxInv, [Next]_vars  PROVE OutboxInv'
  OBVIOUS
<1>1. TypeOK /\ HandInv /\ WrittenInv /\ FramesInv /\ NoMessageLost /\ CountInv
  BY DEF OutboxInv
<1>2. CASE FlushStep
  <2>1. HandInv' /\ ElsewhereOK /\ CountInv'
    BY <1>1, <1>2, FlushKeeps, FlushCounts
  <2> QED
    BY <1>1, <2>1, LetsKeeps DEF ElsewhereOK, OutboxInv
<1>3. CASE Elsewhere
  <2>1. HandInv' /\ ElsewhereOK /\ CountInv'
    BY <1>1, <1>3, ElsewhereEffect, ElsewhereCounts
  <2> QED
    BY <1>1, <2>1, LetsKeeps DEF ElsewhereOK, OutboxInv
<1>4. CASE UNCHANGED vars
  <2>1. UNCHANGED <<written, outbox, flush, reset, sends, seals, overwritten, conn, connected,
                    toServer, toClient, relayed, opened>>
    BY <1>4 DEF vars, clientVars, netVars, serverVars
  <2>2. TypeOK'
    BY <1>1, <2>1, FlushKept DEF TypeOK
  <2>3. HandInv'
    BY <1>1, <2>1, FlushKept
  <2>4. WrittenInv' /\ FramesInv' /\ NoMessageLost'
    BY <1>1, <2>1 DEF WrittenInv, FramesInv, NoMessageLost, Written
  <2>5. CountInv'
    BY <1>1, <2>1 DEF CountInv, InHand, UpToDate, Counted
  <2> QED
    BY <2>2, <2>3, <2>4, <2>5 DEF OutboxInv
<1> QED
  BY <1>2, <1>3, <1>4 DEF Next

(* The invariant of the outbox.                                            *)
THEOREM OutboxInvHolds == Spec => []OutboxInv
  BY OutboxInitInv, OutboxNextInv, PTL DEF Spec

(* The types: a flush that is under way has an entry to work on.           *)
THEOREM OutboxTypeCorrect == Spec => []TypeOK
<1>1. OutboxInv => TypeOK
  BY DEF OutboxInv
<1> QED
  BY <1>1, OutboxInvHolds, PTL

(* No message leaves the outbox before the peer has opened it, whatever    *)
(* the network, the server and the peer lose, refuse or repeat.            *)
THEOREM NoMessageLostHolds == Spec => []NoMessageLost
<1>1. OutboxInv => NoMessageLost
  BY DEF OutboxInv
<1> QED
  BY <1>1, OutboxInvHolds, PTL

(* A message goes out at most MaxAttempts times before the user is asked,  *)
(* as long as no reset brings an old count back.                           *)
THEOREM AttemptsBoundedHolds == Spec => []AttemptsBounded
<1>1. OutboxInv => AttemptsBounded
  BY DEF OutboxInv, CountInv, AttemptsBounded
<1> QED
  BY <1>1, OutboxInvHolds, PTL

(* The ratchet seals a message once, as long as no reset brings back a     *)
(* copy without the ciphertext.                                            *)
THEOREM OneEnvelopeHolds == Spec => []OneEnvelope
<1>1. OutboxInv => OneEnvelope
  BY DEF OutboxInv, CountInv, OneEnvelope
<1> QED
  BY <1>1, OutboxInvHolds, PTL

\* It is let go of or stays accepted.
StaysSent(m) == outbox'[m] = None \/ outbox'[m].status = "sent"

\* What a step does to the accepted messages that nothing works on.
KeepsSent ==
    \A m \in Msg \ InWork : outbox[m] # None /\ outbox[m].status = "sent"
                              => outbox'[m] = None \/ outbox'[m].status = "sent"

(* A step keeps them.                                                      *)
LEMMA StepKeepsSent ==
    ASSUME TypeOK, HandInv, WrittenInv, [Next]_vars
    PROVE  KeepsSent
<1>1. outbox \in [Msg -> Entry \cup {None}] /\ written \in 0 .. NumMsgs /\ NumMsgs \in Nat
      /\ reset \in SUBSET Snapshot /\ flush.todo \in SUBSET Snapshot
  BY BoundsAssumption DEF TypeOK
<1>2. ASSUME NEW m \in Msg \ InWork, outbox[m] # None, outbox[m].status = "sent"
      PROVE  outbox'[m] = None \/ outbox'[m].status = "sent"
  <2> SUFFICES StaysSent(m)
    BY DEF StaysSent
  <2>1. ASSUME outbox'[m] = outbox[m]  PROVE  StaysSent(m)
    BY <1>2, <2>1 DEF StaysSent
  <2>2. CASE FlushStep
    <3>1. FlushPut
      BY <2>2, FlushEffect DEF FlushStepOK
    <3>2. flush.todo # {} => First(flush.todo).msg # m
      BY <1>1, <1>2, FirstTypes DEF InWork
    <3>3. outbox'[m] = outbox[m]
      BY <1>1, <3>1, <3>2 DEF FlushPut, Put
    <3> QED
      BY <2>1, <3>3
  <2>3. CASE Write
    <3>1. written' # m
      BY <1>1, <1>2, <2>3 DEF Write, WrittenInv, Msg
    <3> QED
      <4>1. outbox'[m] = outbox[m]
        BY <1>1, <2>3, <3>1 DEF Write
      <4> QED
        BY <2>1, <4>1
  <2>4. ASSUME NEW n \in Msg, Retry(n)  PROVE  StaysSent(m)
    <3>1. outbox'[m] = outbox[m]
      BY <1>1, <1>2, <2>4 DEF Retry
    <3> QED
      BY <2>1, <3>1
  <2>5. ASSUME NEW n \in Msg, Elapse(n)  PROVE  StaysSent(m)
    <3>1. outbox' = [outbox EXCEPT ![n] = [outbox[n] EXCEPT !.due = TRUE]]
      BY <2>5 DEF Elapse
    <3>2. [outbox[m] EXCEPT !.due = TRUE].status = outbox[m].status
      BY <1>1, <1>2 DEF Entry
    <3> QED
      BY <1>1, <1>2, <3>1, <3>2 DEF StaysSent
  <2>6. CASE Lose
    <3>1. \/ outbox'[m] = outbox[m]
          \/ IsSending(outbox[m]) /\ outbox'[m] = Requeued(outbox[m])
      BY <2>6, StartResetEffect DEF Lose
    <3> QED
      BY <1>2, <2>1, <3>1 DEF IsSending
  <2>7. CASE ResetNext
    <3>1. /\ reset # {}
          /\ outbox' = [outbox EXCEPT ![First(reset).msg] = Requeued(First(reset).entry)]
      BY <2>7 DEF ResetNext, Put
    <3>2. First(reset).msg # m
      BY <1>1, <1>2, <3>1, FirstTypes DEF InWork
    <3>3. outbox'[m] = outbox[m]
      BY <1>1, <3>1, <3>2
    <3> QED
      BY <2>1, <3>3
  <2>8. CASE HandleFrame
    <3> DEFINE n == Head(toClient).msg
    <3>1. \/ outbox' = outbox
          \/ outbox' = [outbox EXCEPT ![n] = None]
          \/ outbox' = [outbox EXCEPT ![n] = Settled(outbox[n])]
      BY <2>8 DEF HandleFrame, HandleAccepted, HandleDelivered, Put
    <3>2. outbox'[m] = outbox[m] \/ outbox'[m] = None \/ outbox'[m] = Settled(outbox[m])
      BY <1>1, <3>1
    <3>3. Settled(outbox[m]).status = "sent"
      BY <1>1, <1>2 DEF Settled, Entry
    <3> QED
      BY <2>1, <3>2, <3>3 DEF StaysSent
  <2>9. CASE UNCHANGED outbox
    BY <2>1, <2>9
  <2>10. CASE Join \/ ServerAccept \/ ServerRefuse
    BY <2>9, <2>10 DEF Join, ServerAccept, ServerRefuse, clientVars
  <2>11. ASSUME NEW n \in relayed, PeerOpen(n) \/ PeerLose(n)  PROVE  StaysSent(m)
    BY <2>9, <2>11 DEF PeerOpen, PeerLose, clientVars
  <2>12. CASE Elsewhere
    BY <2>3, <2>4, <2>5, <2>6, <2>7, <2>8, <2>10, <2>11, <2>12, Zenon DEF Elsewhere
  <2>13. CASE UNCHANGED vars
    BY <2>9, <2>13 DEF vars, clientVars
  <2> QED
    BY <2>2, <2>12, <2>13 DEF Next
<1> QED
  BY <1>2 DEF KeepsSent

(* Nothing asks again for a message that the server has accepted, unless a *)
(* flush or a reset still works on a copy from before.                     *)
THEOREM SentUntilDeliveredHolds == Spec => SentUntilDelivered
<1>1. OutboxInv /\ [Next]_vars => KeepsSent
  BY StepKeepsSent DEF OutboxInv
<1>2. KeepsSent => [\A m \in Msg \ InWork :
                      outbox[m] # None /\ outbox[m].status = "sent"
                        => outbox'[m] = None \/ outbox'[m].status = "sent"]_vars
  BY DEF KeepsSent
<1> QED
  BY <1>1, <1>2, OutboxInvHolds, PTL DEF Spec, SentUntilDelivered

-----------------------------------------------------------------------------
(* What the outbox promises: the refinement of Delivery                    *)

\* Every copy of an entry has a ciphertext of its message, if any, and what goes
\* out was sealed.
CopiesInv ==
    /\ \A m \in Msg : outbox[m] # None => outbox[m].ciphertext <= seals[m]
    /\ \A s \in flush.todo \cup reset : s.entry.ciphertext <= seals[s.msg]
    /\ InHand => flush.entry.ciphertext <= seals[flush.msg]
    /\ flush.at = "attempt" => flush.entry.ciphertext > 0
    /\ \A i \in 1 .. Len(toServer) : seals[toServer[i]] > 0
    /\ \A m \in relayed \cup opened : seals[m] > 0

\* What a step does to the copies: those that are new are of that kind too.
CopiesStep ==
    /\ \A m \in Msg : seals[m] <= seals'[m]
    /\ \A m \in Msg : outbox'[m] # None
                        => outbox'[m] = outbox[m] \/ outbox'[m].ciphertext <= seals'[m]
    /\ \A s \in flush'.todo \cup reset' :
            s \in flush.todo \cup reset \/ s.entry.ciphertext <= seals[s.msg]
    /\ InHand' => \/ flush' = flush
                  \/ /\ flush'.entry.ciphertext <= seals'[flush'.msg]
                     /\ flush'.at = "attempt" => flush'.entry.ciphertext > 0
    /\ \A i \in 1 .. Len(toServer') : seals'[toServer'[i]] > 0
    /\ \A m \in relayed' \cup opened' : m \in relayed \cup opened \/ seals[m] > 0

\* The types of what has to do with copies.
CopiesTyped ==
    /\ outbox \in [Msg -> Entry \cup {None}] /\ flush.todo \in SUBSET Snapshot
    /\ reset \in SUBSET Snapshot /\ seals \in [Msg -> Nat]
    /\ relayed \subseteq Msg /\ opened \subseteq Msg

(* They follow from TypeOK.                                                *)
LEMMA TypedCopies == TypeOK => CopiesTyped
<1>1. MaxSeals \in Nat
  BY BoundsAssumption
<1> QED
  BY <1>1, FlushIsRecord DEF TypeOK, CopiesTyped

(* Such a step keeps them.                                                 *)
LEMMA CopiesKept ==
    ASSUME TypeOK, HandInv, TypeOK', HandInv', CopiesInv, CopiesStep
    PROVE  CopiesInv'
<1>1. CopiesTyped /\ CopiesTyped'
  BY TypedCopies, PTL
<1>2. /\ outbox \in [Msg -> Entry \cup {None}] /\ flush.todo \in SUBSET Snapshot
      /\ reset \in SUBSET Snapshot
      /\ \A m \in Msg : seals[m] \in Nat
      /\ relayed \subseteq Msg /\ opened \subseteq Msg
      /\ outbox' \in [Msg -> Entry \cup {None}]
      /\ \A m \in Msg : seals'[m] \in Nat
      /\ flush'.todo \in SUBSET Snapshot /\ reset' \in SUBSET Snapshot
      /\ relayed' \subseteq Msg /\ opened' \subseteq Msg
  BY <1>1 DEF CopiesTyped, Msg, Entry, Snapshot
<1>3. \A e \in Entry : e.ciphertext \in Nat
  BY BoundsAssumption DEF Entry
<1>4. \A m \in Msg : outbox'[m] # None => outbox'[m].ciphertext <= seals'[m]
  BY <1>2, <1>3 DEF CopiesInv, CopiesStep
<1>5. \A s \in flush'.todo \cup reset' : s.entry.ciphertext <= seals'[s.msg]
  <2>1. ASSUME NEW s \in flush'.todo \cup reset'
        PROVE  s.entry.ciphertext <= seals'[s.msg]
    <3>1. s.msg \in Msg /\ s.entry.ciphertext \in Nat
      BY <1>2, <1>3 DEF Snapshot
    <3>2. s.entry.ciphertext <= seals[s.msg]
      BY <2>1 DEF CopiesInv, CopiesStep
    <3>3. seals[s.msg] <= seals'[s.msg] /\ seals[s.msg] \in Nat /\ seals'[s.msg] \in Nat
      BY <1>2, <3>1 DEF CopiesStep
    <3> QED
      BY <3>1, <3>2, <3>3
  <2> QED
    BY <2>1
<1>6. InHand' => /\ flush'.entry.ciphertext <= seals'[flush'.msg]
                 /\ flush'.at = "attempt" => flush'.entry.ciphertext > 0
  <2>1. CASE InHand' /\ flush' = flush
    <3>1. InHand /\ flush.msg \in Msg /\ flush.entry.ciphertext \in Nat
      BY <2>1, <1>3 DEF InHand, HandInv
    <3>2. /\ flush.entry.ciphertext <= seals[flush.msg]
          /\ flush.at = "attempt" => flush.entry.ciphertext > 0
      BY <3>1 DEF CopiesInv
    <3>3. /\ seals[flush.msg] <= seals'[flush.msg]
          /\ seals[flush.msg] \in Nat /\ seals'[flush.msg] \in Nat
      BY <1>2, <3>1 DEF CopiesStep
    <3>4. flush.entry.ciphertext <= seals'[flush.msg]
      BY <3>1, <3>2, <3>3
    <3> QED
      BY <2>1, <3>2, <3>4
  <2>2. CASE InHand' /\ flush' # flush
    BY <2>2 DEF CopiesStep
  <2> QED
    BY <2>1, <2>2
<1>7. \A m \in relayed' \cup opened' : seals'[m] > 0
  <2>1. ASSUME NEW m \in relayed' \cup opened'  PROVE  seals'[m] > 0
    <3>1. m \in Msg
      BY <1>2
    <3>2. seals[m] > 0
      BY <2>1 DEF CopiesInv, CopiesStep
    <3>3. seals[m] <= seals'[m] /\ seals[m] \in Nat /\ seals'[m] \in Nat
      BY <1>2, <3>1 DEF CopiesStep
    <3> QED
      BY <3>2, <3>3
  <2> QED
    BY <2>1
<1>8. flush'.at = "attempt" => InHand'
  BY DEF InHand
<1>9. \A i \in 1 .. Len(toServer') : seals'[toServer'[i]] > 0
  BY DEF CopiesStep
<1> QED
  BY <1>4, <1>5, <1>6, <1>7, <1>8, <1>9 DEF CopiesInv

(* A flush keeps them.                                                     *)
LEMMA FlushCopies ==
    ASSUME TypeOK, HandInv, CopiesInv, FlushStep
    PROVE  CopiesStep
<1>1. /\ outbox \in [Msg -> Entry \cup {None}] /\ seals \in [Msg -> Nat]
      /\ flush.todo \in SUBSET Snapshot
      /\ relayed \subseteq Msg /\ opened \subseteq Msg
  BY TypedCopies DEF CopiesTyped
<1>2. \A e \in Entry : e.ciphertext \in Nat
  BY BoundsAssumption DEF Entry
<1>3. FlushFrame
  BY FlushEffect DEF FlushStepOK
<1>4. /\ reset' = reset
      /\ \A m \in relayed' \cup opened' : m \in relayed \cup opened
  BY <1>3 DEF FlushFrame
<1>5. \A i \in 1 .. Len(toServer) : seals[toServer[i]] > 0
  BY DEF CopiesInv
<1>6. ASSUME seals' = seals, toServer' = toServer,
             flush'.todo \subseteq flush.todo,
             \/ outbox' = outbox
             \/ \E m \in Msg, e \in Entry : Put(m, e) /\ e.ciphertext <= seals[m],
             InHand' => /\ flush'.msg \in Msg /\ flush'.entry.ciphertext <= seals[flush'.msg]
                        /\ flush'.at = "attempt" => flush'.entry.ciphertext > 0
      PROVE  CopiesStep
  <2>1. \A m \in Msg : seals[m] <= seals'[m]
    BY <1>1, <1>6
  <2>2. \A m \in Msg : outbox'[m] # None
                         => outbox'[m] = outbox[m] \/ outbox'[m].ciphertext <= seals'[m]
    BY <1>1, <1>6 DEF Put
  <2>3. \A s \in flush'.todo \cup reset' : s \in flush.todo \cup reset
    BY <1>4, <1>6
  <2> QED
    BY <1>4, <1>5, <1>6, <2>1, <2>2, <2>3 DEF CopiesStep
<1>7. ASSUME flush.todo # {}
      PROVE  /\ Latest \in Entry /\ First(flush.todo).msg \in Msg
             /\ Latest.ciphertext <= seals[First(flush.todo).msg]
  <2>1. /\ Latest \in Entry
        /\ First(flush.todo) \in flush.todo /\ First(flush.todo).msg \in Msg
        /\ outbox[First(flush.todo).msg] # None => Latest = outbox[First(flush.todo).msg]
        /\ outbox[First(flush.todo).msg] = None => Latest = First(flush.todo).entry
    BY <1>7, LatestTypes
  <2>2. /\ outbox[First(flush.todo).msg] # None
             => Latest.ciphertext <= seals[First(flush.todo).msg]
        /\ First(flush.todo).entry.ciphertext <= seals[First(flush.todo).msg]
    BY <2>1 DEF CopiesInv
  <2> QED
    BY <2>1, <2>2
<1>8. ASSUME flush.todo # {}, NEW at \in {"now", "loop"}
      PROVE  Rest(at).todo \subseteq flush.todo /\ Rest(at).at \notin {"taken", "sealed", "attempt"}
  <2>1. /\ Rest(at).todo = Others(flush.todo) /\ Rest(at).at \in {"idle", at}
        /\ \A s \in Others(flush.todo) : s \in flush.todo
    BY <1>8, RestOK
  <2> QED
    BY <2>1
<1>9. flush.at # "idle" => flush.todo # {}
  BY FlushIsRecord
<1>10. NoFlush.todo \subseteq flush.todo /\ NoFlush.at \notin {"taken", "sealed", "attempt"}
  BY DEF NoFlush
<1>11. InHand => /\ flush.msg \in Msg /\ flush.entry \in Entry
                 /\ flush.entry.ciphertext \in Nat
                 /\ flush.entry.ciphertext <= seals[flush.msg]
  BY <1>2 DEF HandInv, CopiesInv
<1>12. CASE FlushStart
  <2> DEFINE due == {m \in Msg : IsDue(outbox[m])}
  <2>1. due \in SUBSET Msg /\ \A m \in due : outbox[m] # None
    BY DEF IsDue
  <2>2. \A s \in SnapshotsOf(due) : s.msg \in due /\ s.entry = outbox[s.msg]
    BY <2>1, SnapshotTypes
  <2>3. flush'.todo = SnapshotsOf(due) /\ flush'.at = "now"
    BY <1>12 DEF FlushStart, NoFlush
  <2>4. \A s \in flush'.todo : s.entry.ciphertext <= seals[s.msg]
    BY <2>1, <2>2, <2>3 DEF CopiesInv
  <2>5. outbox' = outbox /\ seals' = seals /\ toServer' = toServer
    BY <1>12 DEF FlushStart, netVars
  <2>6. ~InHand'
    BY <2>3 DEF InHand
  <2>7. \A m \in Msg : seals[m] <= seals'[m]
    BY <1>1, <2>5
  <2> QED
    BY <1>4, <1>5, <2>4, <2>5, <2>6, <2>7 DEF CopiesStep
<1>13. CASE FlushGiveUp
  <2>1. flush.todo # {}
    BY <1>13 DEF FlushGiveUp, AtEntry
  <2>2. PICK at \in {"now", "loop"} : flush' = Rest(at)
    BY <1>13 DEF FlushGiveUp
  <2>3. flush'.todo \subseteq flush.todo /\ ~InHand'
    BY <1>8, <2>1, <2>2 DEF InHand
  <2>4. /\ [Latest EXCEPT !.status = "failed"] \in Entry
        /\ [Latest EXCEPT !.status = "failed"].ciphertext = Latest.ciphertext
    BY <1>7, <2>1, EntryTypes DEF Entry
  <2>5. /\ Put(First(flush.todo).msg, [Latest EXCEPT !.status = "failed"])
        /\ seals' = seals /\ toServer' = toServer
    BY <1>13 DEF FlushGiveUp, netVars
  <2>6. \E m \in Msg, e \in Entry : Put(m, e) /\ e.ciphertext <= seals[m]
    BY <1>7, <2>1, <2>4, <2>5
  <2> QED
    BY <1>6, <2>3, <2>5, <2>6
<1>14. CASE FlushBreak
  BY <1>6, <1>10, <1>14 DEF FlushBreak, InHand, netVars
<1>15. CASE FlushTake
  <2> DEFINE entry == [Latest EXCEPT !.status = "sending"]
  <2>1. flush.todo # {}
    BY <1>15 DEF FlushTake, AtTry, AtEntry
  <2>2. entry \in Entry /\ entry.ciphertext = Latest.ciphertext
    BY <1>7, <2>1, EntryTypes DEF Entry
  <2>3. /\ Put(First(flush.todo).msg, entry)
        /\ seals' = seals /\ toServer' = toServer
        /\ flush' = [flush EXCEPT !.at = "taken", !.msg = First(flush.todo).msg,
                                  !.entry = entry]
    BY <1>15 DEF FlushTake, netVars
  <2> HIDE DEF entry
  <2>4. /\ flush'.todo = flush.todo /\ flush'.at = "taken"
        /\ flush'.msg = First(flush.todo).msg /\ flush'.entry = entry
    BY <2>3 DEF TypeOK
  <2>5. \E m \in Msg, e \in Entry : Put(m, e) /\ e.ciphertext <= seals[m]
    BY <1>7, <2>1, <2>2, <2>3
  <2> QED
    BY <1>6, <1>7, <2>1, <2>2, <2>3, <2>4, <2>5
<1>16. CASE FlushNoSession
  BY <1>6, <1>10, <1>16 DEF FlushNoSession, InHand, netVars
<1>17. CASE FlushSeal
  <2> DEFINE m == flush.msg
             entry == [flush.entry EXCEPT !.ciphertext = seals[m] + 1]
  <2>1. InHand /\ flush.todo # {} /\ toServer' = toServer
    BY <1>9, <1>17 DEF FlushSeal, InHand, netVars
  <2>2. m \in Msg /\ flush.entry \in Entry /\ seals[m] \in Nat
    BY <1>1, <1>11, <2>1
  <2>3. CASE seals' = [seals EXCEPT ![m] = @ + 1] /\ Put(m, entry)
             /\ flush' = [flush EXCEPT !.at = "sealed", !.entry = entry]
    <3>1. entry.ciphertext = seals[m] + 1
      BY <2>2 DEF Entry
    <3> HIDE DEF entry
    <3>2. /\ flush'.at = "sealed" /\ flush'.todo = flush.todo
          /\ flush'.msg = m /\ flush'.entry = entry
      BY <2>3 DEF TypeOK
    <3> HIDE DEF m
    <3>3. \A n \in Msg : seals[n] <= seals'[n]
      BY <1>1, <2>3, <2>2
    <3>4. seals'[m] = seals[m] + 1
      BY <1>1, <2>3, <2>2
    <3>5. \A n \in Msg : outbox'[n] = outbox[n] \/ outbox'[n].ciphertext <= seals'[n]
      BY <1>1, <2>2, <2>3, <3>1, <3>4 DEF Put
    <3>6. \A i \in 1 .. Len(toServer) : seals'[toServer[i]] > 0
      <4>1. ASSUME NEW i \in 1 .. Len(toServer)  PROVE  seals'[toServer[i]] > 0
        <5>1. toServer[i] \in Msg
          BY DEF TypeOK
        <5>2. /\ seals[toServer[i]] \in Nat /\ seals[toServer[i]] > 0
              /\ seals'[toServer[i]] \in Nat /\ seals[toServer[i]] <= seals'[toServer[i]]
          BY <1>1, <1>5, <2>2, <2>3, <3>3, <5>1
        <5> QED
          BY <5>2
      <4> QED
        BY <4>1
    <3> QED
      BY <1>4, <2>1, <2>2, <3>1, <3>2, <3>3, <3>4, <3>5, <3>6 DEF CopiesStep
  <2>4. CASE seals' = seals /\ Put(m, [flush.entry EXCEPT !.status = "failed"])
             /\ flush' = Rest("loop")
    <3>1. /\ [flush.entry EXCEPT !.status = "failed"] \in Entry
          /\ [flush.entry EXCEPT !.status = "failed"].ciphertext = flush.entry.ciphertext
      BY <2>2, EntryTypes DEF Entry
    <3>2. flush'.todo \subseteq flush.todo /\ ~InHand'
      BY <1>8, <2>1, <2>4 DEF InHand
    <3>3. \E n \in Msg, e \in Entry : Put(n, e) /\ e.ciphertext <= seals[n]
      BY <1>11, <2>1, <2>4, <3>1
    <3> QED
      BY <1>6, <2>1, <2>4, <3>2, <3>3
  <2> QED
    BY <1>17, <2>3, <2>4 DEF FlushSeal
<1>18. CASE FlushPutBack
  <2>1. InHand /\ Put(flush.msg, Requeued(flush.entry)) /\ flush' = NoFlush
        /\ seals' = seals /\ toServer' = toServer
    BY <1>18 DEF FlushPutBack, HasCiphertext, InHand, netVars
  <2>2. /\ Requeued(flush.entry) \in Entry
        /\ Requeued(flush.entry).ciphertext = flush.entry.ciphertext
    BY <1>11, <2>1, EntryTypes DEF Entry, Requeued
  <2>3. \E m \in Msg, e \in Entry : Put(m, e) /\ e.ciphertext <= seals[m]
    BY <1>11, <2>1, <2>2
  <2>4. ~InHand' /\ flush'.todo \subseteq flush.todo
    BY <1>10, <2>1 DEF InHand
  <2> QED
    BY <1>6, <2>1, <2>3, <2>4
<1>19. CASE FlushAttempt
  <2> DEFINE entry == [flush.entry EXCEPT !.status = "sending", !.retryCount = @ + 1,
                                          !.due = FALSE]
  <2>1. InHand /\ flush.entry.ciphertext > 0 /\ flush.at # "attempt"
    BY <1>19 DEF FlushAttempt, HasCiphertext, InHand
  <2>2. entry.ciphertext = flush.entry.ciphertext
    BY <1>11, <2>1 DEF Entry
  <2>3. entry \in Entry
    <3>1. flush.entry.retryCount + 1 \in 0 .. MaxAttempts
      <4>1. flush.entry.retryCount \in 0 .. MaxAttempts /\ MaxAttempts \in Nat
        BY <1>11, <2>1, EntryTypes, BoundsAssumption
      <4>2. flush.entry.retryCount < MaxAttempts
        BY <2>1 DEF HandInv
      <4> QED
        BY <4>1, <4>2
    <3> QED
      BY <1>11, <2>1, <3>1 DEF Entry
  <2>4. /\ Put(flush.msg, entry) /\ seals' = seals /\ toServer' = toServer
        /\ flush' = [flush EXCEPT !.at = "attempt", !.entry = entry, !.socket = conn]
    BY <1>19 DEF FlushAttempt, netVars
  <2> HIDE DEF entry
  <2>5. /\ flush'.at = "attempt" /\ flush'.todo = flush.todo
        /\ flush'.msg = flush.msg /\ flush'.entry = entry
    BY <2>4 DEF TypeOK
  <2>6. \E m \in Msg, e \in Entry : Put(m, e) /\ e.ciphertext <= seals[m]
    BY <1>11, <2>1, <2>2, <2>3, <2>4
  <2> QED
    BY <1>6, <1>11, <2>1, <2>2, <2>4, <2>5, <2>6
<1>20. CASE FlushSend
  <2>1. flush.at = "attempt" /\ InHand /\ flush.todo # {}
    BY <1>9, <1>20 DEF FlushSend, InHand
  <2>2. flush.msg \in Msg /\ seals[flush.msg] > 0
    <3>1. flush.entry.ciphertext > 0 /\ seals[flush.msg] \in Nat
      BY <1>1, <1>11, <2>1 DEF CopiesInv
    <3> QED
      BY <1>11, <2>1, <3>1
  <2>3. flush'.todo \subseteq flush.todo /\ ~InHand'
    BY <1>8, <1>20, <2>1 DEF FlushSend, InHand
  <2>4. outbox' = outbox /\ seals' = seals
    BY <1>20 DEF FlushSend
  <2>5. toServer' = toServer \/ toServer' = Append(toServer, flush.msg)
    BY <1>20 DEF FlushSend
  <2>6. \A i \in 1 .. Len(toServer') : seals[toServer'[i]] > 0
    <3>1. toServer \in Seq(Msg)
      BY DEF TypeOK
    <3>2. CASE toServer' = Append(toServer, flush.msg)
      <4>1. /\ Append(toServer, flush.msg) \in Seq(Msg) /\ Len(toServer) \in Nat
            /\ Len(Append(toServer, flush.msg)) = Len(toServer) + 1
            /\ Append(toServer, flush.msg)[Len(toServer) + 1] = flush.msg
            /\ \A i \in 1 .. Len(toServer) : Append(toServer, flush.msg)[i] = toServer[i]
        BY <2>2, <3>1, Enqueue
      <4>2. ASSUME NEW i \in 1 .. Len(toServer')
            PROVE  i \in 1 .. Len(toServer) \/ i = Len(toServer) + 1
        BY <3>2, <4>1
      <4> QED
        BY <1>5, <2>2, <3>2, <4>1, <4>2
    <3> QED
      BY <1>5, <2>5, <3>2
  <2>7. \A m \in Msg : seals[m] <= seals'[m]
    BY <1>1, <2>4
  <2> QED
    BY <1>4, <2>3, <2>4, <2>6, <2>7 DEF CopiesStep
<1> QED
  BY <1>12, <1>13, <1>14, <1>15, <1>16, <1>17, <1>18, <1>19, <1>20 DEF FlushStep

(* So does everything else.                                                *)
LEMMA ElsewhereCopies ==
    ASSUME TypeOK, HandInv, CopiesInv, Elsewhere
    PROVE  CopiesStep
<1>1. /\ outbox \in [Msg -> Entry \cup {None}] /\ seals \in [Msg -> Nat]
      /\ reset \in SUBSET Snapshot /\ relayed \subseteq Msg
  BY TypedCopies DEF CopiesTyped
<1>2. \A e \in Entry : e.ciphertext \in Nat
  BY BoundsAssumption DEF Entry
<1>3. flush' = flush /\ seals' = seals
  BY DEF Elsewhere, Write, Retry, Elapse, Join, Lose, ResetNext, HandleFrame,
         HandleAccepted, HandleDelivered, ServerAccept, ServerRefuse, PeerOpen, PeerLose,
         clientVars
<1>4. \A m \in Msg : seals[m] <= seals'[m]
  BY <1>1, <1>3
<1>5. \A i \in 1 .. Len(toServer) : seals[toServer[i]] > 0
  BY DEF CopiesInv
<1>6. toServer # <<>> =>
        /\ Head(toServer) \in Msg /\ seals[Head(toServer)] > 0
        /\ \A i \in 1 .. Len(Tail(toServer)) : seals[Tail(toServer)[i]] > 0
  <2>1. toServer \in Seq(Msg)
    BY DEF TypeOK
  <2>2. ASSUME toServer # <<>>
        PROVE  /\ Head(toServer) \in Msg /\ Len(toServer) \in Nat /\ Len(toServer) > 0
               /\ Head(toServer) = toServer[1]
               /\ \A i \in 1 .. Len(Tail(toServer)) :
                    i + 1 \in 1 .. Len(toServer) /\ Tail(toServer)[i] = toServer[i + 1]
    BY <2>1, <2>2, Dequeue
  <2>3. toServer # <<>> => 1 \in 1 .. Len(toServer)
    BY <2>2
  <2> QED
    BY <1>5, <2>2, <2>3
<1>7. ASSUME \A m \in Msg : outbox'[m] = outbox[m],
             reset' = reset, \/ toServer' \in {toServer, <<>>}
                             \/ toServer # <<>> /\ toServer' = Tail(toServer),
             \A m \in relayed' \cup opened' : m \in relayed \cup opened \/ seals[m] > 0
      PROVE  CopiesStep
  <2>1. \A i \in 1 .. Len(toServer') : seals'[toServer'[i]] > 0
    BY <1>3, <1>5, <1>6, <1>7
  <2> QED
    BY <1>3, <1>4, <1>7, <2>1 DEF CopiesStep
<1>8. ASSUME \A m \in Msg : outbox'[m] # None
                              => outbox'[m] = outbox[m] \/ outbox'[m].ciphertext <= seals[m],
             \A s \in reset' : s \in reset \/ s.entry.ciphertext <= seals[s.msg],
             toServer' = toServer \/ toServer' = <<>>,
             relayed' = relayed, opened' = opened
      PROVE  CopiesStep
  <2>1. \A i \in 1 .. Len(toServer') : seals'[toServer'[i]] > 0
    BY <1>3, <1>5, <1>8
  <2> QED
    BY <1>3, <1>4, <1>8, <2>1 DEF CopiesStep
<1>9. CASE Write
  <2>1. outbox' = [outbox EXCEPT ![written'] = NewEntry]
    BY <1>9 DEF Write
  <2>2. \A m \in Msg : outbox'[m] # None
                         => outbox'[m] = outbox[m] \/ outbox'[m].ciphertext <= seals[m]
    BY <1>1, <2>1 DEF NewEntry
  <2> QED
    BY <1>8, <1>9, <2>2 DEF Write, netVars, serverVars
<1>10. ASSUME NEW m \in Msg, Retry(m) \/ Elapse(m)  PROVE  CopiesStep
  <2>1. outbox[m] \in Entry
    BY <1>1, <1>10 DEF Retry, Elapse
  <2>2. PICK e \in Entry : outbox' = [outbox EXCEPT ![m] = e]
                           /\ e.ciphertext = outbox[m].ciphertext
    <3>1. CASE Retry(m)
      <4> DEFINE e == [outbox[m] EXCEPT !.status = "pending", !.retryCount = 0, !.due = TRUE]
      <4>1. e \in Entry /\ e.ciphertext = outbox[m].ciphertext
        BY <2>1, EntryTypes DEF Entry
      <4>2. outbox' = [outbox EXCEPT ![m] = e]
        BY <1>1, <3>1 DEF Retry
      <4> QED
        BY <4>1, <4>2, Zenon
    <3>2. CASE Elapse(m)
      <4> DEFINE e == [outbox[m] EXCEPT !.due = TRUE]
      <4>1. e \in Entry /\ e.ciphertext = outbox[m].ciphertext
        BY <2>1, EntryTypes DEF Entry
      <4>2. outbox' = [outbox EXCEPT ![m] = e]
        BY <1>1, <3>2 DEF Elapse
      <4> QED
        BY <4>1, <4>2, Zenon
    <3> QED
      BY <1>10, <3>1, <3>2
  <2>3. e.ciphertext <= seals[m]
    BY <1>10, <2>2 DEF Retry, Elapse, CopiesInv
  <2>4. \A n \in Msg : outbox'[n] # None
                         => outbox'[n] = outbox[n] \/ outbox'[n].ciphertext <= seals[n]
    BY <1>1, <2>2, <2>3
  <2> QED
    BY <1>8, <1>10, <2>4 DEF Retry, Elapse, netVars, serverVars
<1>11. CASE Join
  BY <1>7, <1>11 DEF Join, clientVars, serverVars
<1>12. CASE Lose
  <2> DEFINE sending == {m \in Msg : IsSending(outbox[m])}
  <2>1. StartReset /\ reset = {} /\ toServer' = <<>> /\ relayed' = relayed /\ opened' = opened
    BY <1>12 DEF Lose, serverVars
  <2>2. \A m \in Msg : \/ outbox'[m] = outbox[m]
                       \/ IsSending(outbox[m]) /\ outbox'[m] = Requeued(outbox[m])
    BY <2>1, StartResetEffect
  <2>3. \A m \in Msg : IsSending(outbox[m])
                         => Requeued(outbox[m]).ciphertext = outbox[m].ciphertext
    BY <1>1 DEF IsSending, Requeued, Entry
  <2>4. \A m \in Msg : IsSending(outbox[m]) => outbox[m].ciphertext <= seals[m]
    BY DEF CopiesInv, IsSending
  <2>5. \A m \in Msg : outbox'[m] # None
                         => outbox'[m] = outbox[m] \/ outbox'[m].ciphertext <= seals[m]
    BY <2>2, <2>3, <2>4
  <2>6. \A s \in SnapshotsOf(sending) : s.msg \in sending /\ s.entry = outbox[s.msg]
    <3>1. sending \in SUBSET Msg /\ \A m \in sending : outbox[m] # None
      BY DEF IsSending
    <3> QED
      BY <3>1, SnapshotTypes
  <2>7. \A s \in reset' : s \in reset \/ s \in SnapshotsOf(sending)
    BY <2>1 DEF StartReset, Others
  <2>8. \A s \in reset' : s \in reset \/ s.entry.ciphertext <= seals[s.msg]
    BY <2>4, <2>6, <2>7
  <2> QED
    BY <1>8, <2>1, <2>5, <2>8
<1>13. CASE ResetNext
  <2> DEFINE s == First(reset)
  <2>1. /\ reset # {} /\ outbox' = [outbox EXCEPT ![s.msg] = Requeued(s.entry)]
        /\ reset' = Others(reset) /\ UNCHANGED <<netVars, serverVars>>
    BY <1>13 DEF ResetNext, Put
  <2>2. s \in reset /\ s.msg \in Msg /\ s.entry \in Entry /\ Others(reset) \subseteq reset
    BY <1>1, <2>1, FirstTypes
  <2>3. Requeued(s.entry).ciphertext <= seals[s.msg]
    <3>1. Requeued(s.entry).ciphertext = s.entry.ciphertext
      BY <2>2 DEF Requeued, Entry
    <3>2. s.entry.ciphertext <= seals[s.msg]
      BY <2>2 DEF CopiesInv
    <3> QED
      BY <3>1, <3>2
  <2> HIDE DEF s
  <2>4. \A m \in Msg : outbox'[m] # None
                         => outbox'[m] = outbox[m] \/ outbox'[m].ciphertext <= seals[m]
    BY <1>1, <2>1, <2>2, <2>3
  <2> QED
    BY <1>8, <2>1, <2>2, <2>4 DEF netVars, serverVars
<1>14. CASE HandleFrame
  <2> DEFINE m == Head(toClient).msg
  <2>1. \/ outbox' = outbox
        \/ outbox' = [outbox EXCEPT ![m] = None]
        \/ outbox[m] # None /\ outbox' = [outbox EXCEPT ![m] = Settled(outbox[m])]
    BY <1>14 DEF HandleFrame, HandleAccepted, HandleDelivered, Put
  <2>2. \A n \in Msg : outbox[n] # None
            => /\ Settled(outbox[n]).ciphertext = outbox[n].ciphertext
               /\ outbox[n].ciphertext <= seals[n]
    BY <1>1 DEF CopiesInv, Settled, Entry
  <2>3. \A n \in Msg : outbox'[n] # None
                         => outbox'[n] = outbox[n] \/ outbox'[n].ciphertext <= seals[n]
    BY <1>1, <2>1, <2>2
  <2> QED
    BY <1>8, <1>14, <2>3
       DEF HandleFrame, HandleAccepted, HandleDelivered, serverVars
<1>15. CASE ServerAccept
  <2>1. /\ toServer # <<>> /\ toServer' = Tail(toServer)
        /\ relayed' \in {relayed, relayed \cup {Head(toServer)}}
        /\ outbox' = outbox /\ reset' = reset /\ opened' = opened
    BY <1>15 DEF ServerAccept, clientVars
  <2> QED
    BY <1>6, <1>7, <2>1
<1>16. CASE ServerRefuse
  BY <1>7, <1>16 DEF ServerRefuse, clientVars, serverVars
<1>17. ASSUME NEW m \in relayed, PeerOpen(m) \/ PeerLose(m)  PROVE  CopiesStep
  BY <1>7, <1>17 DEF PeerOpen, PeerLose, clientVars, netVars
<1> QED
  BY <1>9, <1>10, <1>11, <1>12, <1>13, <1>14, <1>15, <1>16, <1>17, Zenon DEF Elsewhere

(* The copies are of that kind in every step.                              *)
LEMMA CopiesInvHolds == Spec => []CopiesInv
<1>1. Init => CopiesInv
  <2>1. ASSUME Init  PROVE CopiesInv
    <3>1. /\ \A m \in Msg : outbox[m] = None
          /\ flush.todo = {} /\ flush.at = "idle" /\ reset = {}
          /\ toServer = <<>> /\ relayed = {} /\ opened = {}
      BY <2>1 DEF Init, NoFlush
    <3> QED
      BY <3>1 DEF CopiesInv, InHand
  <2> QED
    BY <2>1
<1>2. OutboxInv /\ OutboxInv' /\ CopiesInv /\ [Next]_vars => CopiesInv'
  <2> SUFFICES ASSUME OutboxInv, OutboxInv', CopiesInv, [Next]_vars  PROVE CopiesInv'
    OBVIOUS
  <2>1. TypeOK /\ HandInv
    BY DEF OutboxInv
  <2>2. TypeOK' /\ HandInv'
    BY DEF OutboxInv
  <2>3. CASE Next
    BY <2>1, <2>2, <2>3, FlushCopies, ElsewhereCopies, CopiesKept DEF Next
  <2>4. CASE UNCHANGED vars
    BY <2>4 DEF vars, clientVars, netVars, serverVars, CopiesInv, InHand
  <2> QED
    BY <2>3, <2>4
<1> QED
  BY <1>1, <1>2, OutboxInvHolds, PTL DEF Spec

(* Which messages wait, and which are sealed, before and after a step.     *)
LEMMA Waiting ==
    /\ \A m : m \in Kept <=> m \in Msg /\ outbox[m] # None
    /\ \A m : m \in Sealed <=> m \in Msg /\ seals[m] > 0
    /\ \A m : m \in Kept' <=> m \in Msg /\ outbox'[m] # None
    /\ \A m : m \in Sealed' <=> m \in Msg /\ seals'[m] > 0
  BY DEF Kept, Sealed, Msg

(* A step that writes an entry takes a message in.                         *)
LEMMA PutKeeps ==
    ASSUME outbox \in [Msg -> Entry \cup {None}], NEW m \in Msg, NEW e \in Entry, Put(m, e)
    PROVE  Kept' = Kept \cup {m}
<1>1. \A n \in Msg : outbox'[n] = IF n = m THEN e ELSE outbox[n]
  BY DEF Put
<1>2. e # None
  BY NoEntryAssumption
<1> QED
  BY <1>1, <1>2, Waiting

(* A step of a flush takes in and seals the first of its messages, or none. *)
LEMMA FlushRefines ==
    ASSUME OutboxInv, FlushStep
    PROVE  [Promise!Next]_Promise!vars
<1>1. TypeOK /\ HandInv /\ WrittenInv
  BY DEF OutboxInv
<1>2. /\ outbox \in [Msg -> Entry \cup {None}] /\ seals \in [Msg -> Nat]
      /\ flush.todo \in SUBSET Snapshot /\ written \in Nat
  BY <1>1, TypedCopies DEF CopiesTyped, TypeOK
<1> DEFINE m == First(flush.todo).msg
<1>3. FlushPut /\ written' = written /\ opened' = opened
  BY <1>1, FlushEffect DEF FlushStepOK, FlushFrame
<1>4. flush.todo # {} => m \in Msg /\ m \in 1 .. written
  <2>1. ASSUME flush.todo # {}  PROVE m \in Msg /\ m <= written
    BY <1>1, <1>2, <2>1, FirstTypes DEF WrittenInv
  <2> QED
    BY <1>2, <2>1 DEF Msg
<1>5. Kept' = Kept \/ (flush.todo # {} /\ Kept' = Kept \cup {m})
  <2>1. CASE outbox' = outbox
    BY <2>1, Waiting
  <2>2. ASSUME flush.todo # {}, NEW e \in Entry, Put(m, e)
        PROVE  flush.todo # {} /\ Kept' = Kept \cup {m}
    BY <1>2, <1>4, <2>2, PutKeeps
  <2> QED
    BY <1>3, <2>1, <2>2, Zenon DEF FlushPut
<1>6. CASE seals' = seals
  <2>1. Sealed' = Sealed
    BY <1>6, Waiting
  <2>2. CASE Kept' = Kept
    BY <1>3, <2>1, <2>2 DEF Promise!vars
  <2>3. CASE flush.todo # {} /\ Kept' = Kept \cup {m}
    BY <1>3, <1>4, <2>1, <2>3, Zenon DEF Promise!Next, Promise!Keep
  <2> QED
    BY <1>5, <2>2, <2>3
<1>7. CASE FlushSeal /\ seals' # seals
  <2>1. /\ flush.at = "taken" /\ seals' = [seals EXCEPT ![flush.msg] = @ + 1]
        /\ \E e : Put(flush.msg, e)
    BY <1>7 DEF FlushSeal
  <2>2. flush.todo # {} /\ flush.msg = m /\ flush.entry \in Entry
    BY <1>1, <2>1, FlushIsRecord DEF HandInv, InHand
  <2>3. Sealed' = Sealed \cup {m}
    <3>1. m \in Msg /\ seals[m] \in Nat
      BY <1>2, <1>4, <2>2
    <3>2. \A n \in Msg : seals'[n] = IF n = m THEN seals[m] + 1 ELSE seals[n]
      BY <1>2, <2>1, <2>2
    <3>3. seals[m] + 1 > 0
      BY <3>1
    <3> QED
      BY <3>1, <3>2, <3>3, Waiting
  <2>4. Kept' = Kept \cup {m}
    <3>1. PICK e : Put(m, e) /\ e = [flush.entry EXCEPT !.ciphertext = seals[m] + 1]
      BY <1>7, <2>2 DEF FlushSeal
    <3>2. e # None
      <4>1. MaxSeals \in Nat /\ seals[m] \in Nat
        BY <1>2, <1>4, <2>2, BoundsAssumption
      <4>2. seals[m] < MaxSeals
        BY <1>7, <2>2 DEF FlushSeal
      <4>3. seals[m] + 1 \in 0 .. MaxSeals
        BY <4>1, <4>2
      <4> QED
        BY <2>2, <3>1, <4>3, EntryTypes
    <3>3. \A n \in Msg : outbox'[n] = IF n = m THEN e ELSE outbox[n]
      BY <1>2, <3>1 DEF Put
    <3> QED
      BY <1>4, <2>2, <3>2, <3>3, Waiting
  <2>5. Promise!Keep(m)
    BY <1>3, <2>3, <2>4, Zenon DEF Promise!Keep
  <2> QED
    BY <1>4, <2>2, <2>5, Zenon DEF Promise!Next
<1>8. seals' = seals \/ FlushSeal
  BY DEF FlushStep, FlushStart, FlushGiveUp, FlushBreak, FlushTake, FlushNoSession,
         FlushPutBack, FlushAttempt, FlushSend
<1> QED
  BY <1>6, <1>7, <1>8

(* What is sealed, and so what is opened, was written.                     *)
LEMMA SealedIsWritten ==
    ASSUME OutboxInv, CopiesInv
    PROVE  /\ \A m \in Msg : seals[m] > 0 => m \in 1 .. written
           /\ \A m \in relayed \cup opened : m \in 1 .. written /\ m \in Sealed
<1>1. /\ written \in Nat /\ seals \in [Msg -> Nat]
      /\ relayed \subseteq Msg /\ opened \subseteq Msg
  BY TypedCopies DEF OutboxInv, TypeOK, CopiesTyped
<1>2. \A m \in Msg : m > written => seals[m] = 0
  BY DEF OutboxInv, CountInv
<1>3. \A m \in Msg : seals[m] > 0 => m \in 1 .. written
  BY <1>1, <1>2 DEF Msg
<1>4. \A m \in relayed \cup opened : seals[m] > 0
  BY DEF CopiesInv
<1> QED
  BY <1>1, <1>3, <1>4, Waiting

(* Elsewhere messages are written, put back, opened and let go of.         *)
LEMMA ElsewhereRefines ==
    ASSUME OutboxInv, CopiesInv, Elsewhere
    PROVE  [Promise!Next]_Promise!vars
<1>1. TypeOK /\ HandInv /\ WrittenInv /\ FramesInv
  BY DEF OutboxInv
<1>2. /\ outbox \in [Msg -> Entry \cup {None}] /\ seals \in [Msg -> Nat]
      /\ reset \in SUBSET Snapshot /\ relayed \subseteq Msg /\ opened \subseteq Msg
      /\ written \in 0 .. NumMsgs /\ NumMsgs \in Nat
  BY <1>1, TypedCopies, BoundsAssumption DEF CopiesTyped, TypeOK
<1>3. seals' = seals
  BY DEF Elsewhere, Write, Retry, Elapse, Join, Lose, ResetNext, HandleFrame,
         HandleAccepted, HandleDelivered, ServerAccept, ServerRefuse, PeerOpen, PeerLose,
         clientVars
<1>4. Sealed' = Sealed
  BY <1>3, Waiting
<1>5. ASSUME written' = written, opened' = opened,
             \A m \in Msg : outbox'[m] = None <=> outbox[m] = None
      PROVE  [Promise!Next]_Promise!vars
  <2>1. Kept' = Kept
    BY <1>5, Waiting
  <2> QED
    BY <1>4, <1>5, <2>1 DEF Promise!vars
<1>6. CASE Write
  <2>1. /\ written < NumMsgs /\ written' = written + 1 /\ opened' = opened
        /\ Put(written', NewEntry)
    BY <1>6 DEF Write, Put, serverVars
  <2>2. NewEntry \in Entry
    <3>1. 0 \in 0 .. MaxAttempts /\ 0 \in 0 .. MaxSeals
      BY BoundsAssumption
    <3> QED
      BY <3>1 DEF NewEntry, Entry
  <2>3. written' \in Msg
    BY <1>2, <2>1 DEF Msg
  <2>4. Kept' = Kept \cup {written'}
    BY <1>2, <2>1, <2>2, <2>3, PutKeeps
  <2>5. Promise!Write
    BY <1>4, <2>1, <2>4, Zenon DEF Promise!Write
  <2> QED
    BY <2>5 DEF Promise!Next
<1>7. ASSUME NEW m \in Msg, Retry(m) \/ Elapse(m)  PROVE  [Promise!Next]_Promise!vars
  <2>1. outbox[m] \in Entry /\ outbox[m] # None
    BY <1>2, <1>7 DEF Retry, Elapse
  <2>2. \E e \in Entry : outbox' = [outbox EXCEPT ![m] = e]
    <3>1. CASE Retry(m)
      <4> DEFINE e == [outbox[m] EXCEPT !.status = "pending", !.retryCount = 0, !.due = TRUE]
      <4>1. e \in Entry
        BY <2>1, EntryTypes
      <4>2. outbox' = [outbox EXCEPT ![m] = e]
        BY <1>2, <3>1 DEF Retry
      <4> QED
        BY <4>1, <4>2, Zenon
    <3>2. CASE Elapse(m)
      <4> DEFINE e == [outbox[m] EXCEPT !.due = TRUE]
      <4>1. e \in Entry
        BY <2>1, EntryTypes
      <4>2. outbox' = [outbox EXCEPT ![m] = e]
        BY <1>2, <3>2 DEF Elapse
      <4> QED
        BY <4>1, <4>2, Zenon
    <3> QED
      BY <1>7, <3>1, <3>2
  <2>3. \A n \in Msg : outbox'[n] = None <=> outbox[n] = None
    BY <1>2, <2>1, <2>2, NoEntryAssumption
  <2> QED
    BY <1>5, <1>7, <2>3 DEF Retry, Elapse, serverVars
<1>8. CASE Join
  BY <1>5, <1>8 DEF Join, clientVars, serverVars
<1>9. CASE Lose
  <2>1. \A m \in Msg : \/ outbox'[m] = outbox[m]
                       \/ IsSending(outbox[m]) /\ outbox'[m] = Requeued(outbox[m])
    BY <1>1, <1>9, StartResetEffect DEF Lose
  <2>2. \A m \in Msg : IsSending(outbox[m])
                         => Requeued(outbox[m]) # None /\ outbox[m] # None
    BY <1>2, EntryTypes DEF IsSending
  <2>3. \A m \in Msg : outbox'[m] = None <=> outbox[m] = None
    BY <2>1, <2>2
  <2> QED
    BY <1>5, <1>9, <2>3 DEF Lose, serverVars
<1>10. CASE ResetNext
  <2> DEFINE m == First(reset).msg
             e == Requeued(First(reset).entry)
  <2>1. reset # {} /\ Put(m, e) /\ written' = written /\ opened' = opened
    BY <1>10 DEF ResetNext, serverVars
  <2>2. First(reset) \in reset /\ m \in Msg /\ First(reset).entry \in Entry
    BY <1>2, <2>1, FirstTypes
  <2>3. e \in Entry
    BY <2>2, EntryTypes
  <2>4. m \in 1 .. written
    <3>1. m <= written
      BY <1>1, <2>2 DEF WrittenInv
    <3> QED
      BY <1>2, <2>2, <3>1 DEF Msg
  <2> HIDE DEF m, e
  <2>5. Kept' = Kept \cup {m}
    BY <1>2, <2>1, <2>2, <2>3, PutKeeps
  <2>6. Promise!Keep(m)
    BY <1>4, <2>1, <2>5, Zenon DEF Promise!Keep
  <2> QED
    BY <2>4, <2>6, Zenon DEF Promise!Next
<1>11. CASE HandleAccepted
  <2> DEFINE m == Head(toClient).msg
  <2>1. \/ outbox' = outbox
        \/ outbox[m] # None /\ outbox' = [outbox EXCEPT ![m] = Settled(outbox[m])]
    BY <1>11 DEF HandleAccepted, Put
  <2>2. \A n \in Msg : outbox[n] # None => Settled(outbox[n]) # None
    BY <1>2, EntryTypes
  <2>3. \A n \in Msg : outbox'[n] = None <=> outbox[n] = None
    BY <1>2, <2>1, <2>2
  <2> QED
    BY <1>5, <1>11, <2>3 DEF HandleAccepted, serverVars
<1>12. CASE HandleDelivered
  <2> DEFINE m == Head(toClient).msg
  <2>1. toClient # <<>> /\ Head(toClient).type = "delivered"
        /\ outbox' = [outbox EXCEPT ![m] = None] /\ written' = written /\ opened' = opened
    BY <1>12 DEF HandleDelivered, Put, serverVars
  <2>2. m \in Msg /\ m \in opened
    BY <1>1, <2>1, NextFrame
  <2>3. m \in 1 .. written
    BY <2>2, SealedIsWritten
  <2> HIDE DEF m
  <2>4. Kept' = Kept \ {m}
    <3>1. \A n \in Msg : outbox'[n] = IF n = m THEN None ELSE outbox[n]
      BY <1>2, <2>1
    <3> QED
      BY <3>1, Waiting
  <2>5. Promise!LetGo(m)
    BY <1>4, <2>1, <2>2, <2>4, Zenon DEF Promise!LetGo
  <2> QED
    BY <2>3, <2>5, Zenon DEF Promise!Next
<1>13. CASE ServerAccept \/ ServerRefuse
  BY <1>5, <1>13 DEF ServerAccept, ServerRefuse, clientVars, serverVars
<1>14. ASSUME NEW m \in relayed, PeerOpen(m)  PROVE  [Promise!Next]_Promise!vars
  <2>1. m \in 1 .. written /\ m \in Sealed
    BY SealedIsWritten
  <2>2. written' = written /\ opened' = opened \cup {m} /\ outbox' = outbox
    BY <1>14 DEF PeerOpen, clientVars
  <2>3. Kept' = Kept
    BY <2>2, Waiting
  <2>4. Promise!Open(m)
    BY <1>4, <2>1, <2>2, <2>3, Zenon DEF Promise!Open
  <2> QED
    BY <2>1, <2>4, Zenon DEF Promise!Next
<1>15. ASSUME NEW m \in relayed, PeerLose(m)  PROVE  [Promise!Next]_Promise!vars
  BY <1>5, <1>15 DEF PeerLose, clientVars
<1> QED
  BY <1>6, <1>7, <1>8, <1>9, <1>10, <1>11, <1>12, <1>13, <1>14, <1>15, Zenon
     DEF Elsewhere, HandleFrame

(* Whatever is retried, reset, lost, refused or repeated: each message is  *)
(* written, sealed, opened by the peer and let go of in this order.        *)
THEOREM DeliveryRefinement == Spec => ImplementsDelivery
<1>1. Init => Promise!Init
  <2>1. ASSUME Init  PROVE Promise!Init
    <3>1. /\ written = 0 /\ opened = {}
          /\ \A m \in Msg : outbox[m] = None /\ seals[m] = 0
      BY <2>1 DEF Init
    <3>2. \A m : m \notin Kept /\ m \notin Sealed
      BY <3>1, Waiting
    <3> QED
      BY <3>1, <3>2 DEF Promise!Init
  <2> QED
    BY <2>1
<1>2. OutboxInv /\ CopiesInv /\ [Next]_vars => [Promise!Next]_Promise!vars
  <2> SUFFICES ASSUME OutboxInv, CopiesInv, [Next]_vars  PROVE [Promise!Next]_Promise!vars
    OBVIOUS
  <2>1. CASE Next
    BY <2>1, FlushRefines, ElsewhereRefines DEF Next
  <2>2. CASE UNCHANGED vars
    BY <2>2 DEF vars, clientVars, serverVars, Promise!vars, Kept, Sealed, Msg
  <2> QED
    BY <2>1, <2>2
<1> QED
  BY <1>1, <1>2, OutboxInvHolds, CopiesInvHolds, PTL
     DEF Spec, ImplementsDelivery, Promise!Spec

-----------------------------------------------------------------------------
(* The theorems of OutboxReload                                            *)

\* What OutboxReload keeps of the invariant of Outbox.
MemoryInv == TypeOK /\ HandInv /\ WrittenInv /\ FramesInv

\* The types of what OutboxReload adds.
RoomTyped ==
    /\ room \in {"away", "loading", "read", "open", "blind"}
    /\ opens \in 0 .. MaxOpens
    /\ snapshot \in [Msg -> Record] /\ disk \in [Msg -> Record]
    /\ \A w \in writes : w.msg \in Msg /\ w.entry \in Record /\ w.by \in Caller
    /\ saved \subseteq Msg /\ unread \subseteq Msg
    /\ connected => room \in {"open", "blind"}

(* The parts of ReloadInv.                                                 *)
LEMMA ReloadParts ==
    ReloadInv <=> MemoryInv /\ RoomTyped /\ RecordsInv /\ Durable /\ LoadInv
  BY DEF ReloadInv, ReloadTypeOK, MemoryInv, RoomTyped

(* Steps that leave the outbox in memory and the network alone keep what   *)
(* is said of them.                                                        *)
LEMMA MemoryKept ==
    ASSUME MemoryInv, UNCHANGED vars
    PROVE  /\ MemoryInv'
           /\ written' = written /\ outbox' = outbox /\ opened' = opened
           /\ connected' = connected
<1>1. UNCHANGED <<written, outbox, flush, reset, sends, seals, overwritten, conn, connected,
                  toServer, toClient, relayed, opened>>
  BY DEF vars, clientVars, netVars, serverVars
<1>2. TypeOK /\ HandInv /\ WrittenInv /\ FramesInv
  BY DEF MemoryInv
<1>3. TypeOK'
  BY <1>1, <1>2, FlushKept DEF TypeOK
<1>4. HandInv'
  BY <1>1, <1>2, FlushKept
<1>5. WrittenInv' /\ FramesInv'
  BY <1>1, <1>2 DEF WrittenInv, FramesInv
<1> QED
  BY <1>1, <1>3, <1>4, <1>5 DEF MemoryInv

\* What is on its way to disk after a step.
WritesOK ==
    \A w \in writes : /\ w.msg \in Msg /\ w.entry \in Record /\ w.by \in Caller
                      /\ w.msg \in Written /\ (w.entry = None => w.msg \in opened)

(* What a step asks of IndexedDB is an entry of a message that was         *)
(* written, or the removal of one that was opened.                         *)
LEMMA PersistKeeps ==
    ASSUME MemoryInv, TypeOK', WrittenInv', Lets, WritesOK,
           NEW caller \in Caller, Persist(caller) \/ UNCHANGED storeVars
    PROVE  WritesOK' /\ disk' = disk /\ saved' = saved
<1>1. /\ written \in 0 .. NumMsgs /\ written' \in 0 .. NumMsgs /\ NumMsgs \in Nat
      /\ outbox' \in [Msg -> Record] /\ opened \subseteq opened'
      /\ written <= written'
  BY BoundsAssumption DEF MemoryInv, TypeOK, Lets, Record
<1>2. Written \subseteq Written'
  BY <1>1 DEF Written
<1>3. ASSUME NEW m \in Msg, outbox'[m] # outbox[m]
      PROVE  m \in Written' /\ (outbox'[m] = None => m \in opened')
  <2>1. ~(m > written')
    <3>1. m > written' => m > written
      BY <1>1 DEF Msg
    <3>2. m > written => outbox[m] = None
      BY DEF MemoryInv, WrittenInv
    <3>3. m > written' => outbox'[m] = None
      BY DEF WrittenInv
    <3> QED
      BY <1>3, <3>1, <3>2, <3>3
  <2>2. m \in Written'
    BY <1>1, <2>1 DEF Written, Msg
  <2>3. outbox'[m] = None => outbox[m] # None
    BY <1>3
  <2> QED
    BY <2>2, <2>3 DEF Lets
<1>4. ASSUME NEW w \in writes
      PROVE  /\ w.msg \in Msg /\ w.entry \in Record /\ w.by \in Caller
             /\ w.msg \in Written' /\ (w.entry = None => w.msg \in opened')
  BY <1>1, <1>2 DEF WritesOK
<1>5. CASE UNCHANGED storeVars
  <2>1. writes' = writes /\ disk' = disk /\ saved' = saved
    BY <1>5 DEF storeVars
  <2> QED
    BY <1>4, <2>1 DEF WritesOK
<1>6. CASE Persist(caller)
  <2>1. /\ disk' = disk /\ saved' = saved
        /\ writes' = writes \cup {[msg |-> m, entry |-> outbox'[m], by |-> caller] :
                                    m \in {m \in Msg : outbox'[m] # outbox[m]}}
    BY <1>6 DEF Persist
  <2>2. ASSUME NEW w \in writes', w \notin writes
        PROVE  /\ w.msg \in Msg /\ w.entry \in Record /\ w.by \in Caller
               /\ w.msg \in Written' /\ (w.entry = None => w.msg \in opened')
    <3>1. PICK m \in Msg : /\ outbox'[m] # outbox[m]
                           /\ w = [msg |-> m, entry |-> outbox'[m], by |-> caller]
      BY <2>1, <2>2
    <3>2. w.msg = m /\ w.entry = outbox'[m] /\ w.by = caller
      BY <3>1
    <3> QED
      BY <1>1, <1>3, <3>1, <3>2
  <2>3. WritesOK'
    BY <1>4, <2>2 DEF WritesOK
  <2> QED
    BY <2>1, <2>3
<1> QED
  BY <1>5, <1>6

(* A step of module Outbox keeps the invariant, with what it asks of       *)
(* IndexedDB.                                                              *)
LEMMA StepInRoom ==
    ASSUME ReloadInv, MemoryInv', Lets,
           NEW caller \in Caller, Persist(caller) \/ UNCHANGED storeVars,
           UNCHANGED <<room, opens, snapshot>>,
           unread \subseteq unread', unread' \subseteq Msg,
           room = "read" /\ written' # written => written' \in unread',
           connected' => connected \/ room \in {"open", "blind"}
    PROVE  ReloadInv'
<1>1. MemoryInv /\ RoomTyped /\ RecordsInv /\ Durable /\ LoadInv
  BY ReloadParts
<1>2. TypeOK' /\ WrittenInv'
  BY DEF MemoryInv
<1>3. WritesOK
  BY <1>1 DEF RoomTyped, RecordsInv, WritesOK
<1>4. WritesOK' /\ disk' = disk /\ saved' = saved
  BY <1>1, <1>2, <1>3, PersistKeeps
<1>5. /\ written \in 0 .. NumMsgs /\ written' \in 0 .. NumMsgs /\ NumMsgs \in Nat
      /\ opened \subseteq opened' /\ (written' = written \/ written' = written + 1)
  BY <1>1, <1>2, BoundsAssumption DEF MemoryInv, TypeOK, Lets
<1>6. Written \subseteq Written' /\ Written' \subseteq Msg
  BY <1>5 DEF Written, Msg
<1>7. RoomTyped'
  BY <1>1, <1>4 DEF RoomTyped, WritesOK
<1>8. RecordsInv'
  <2>1. saved' \subseteq Written'
    BY <1>1, <1>4, <1>6 DEF RecordsInv
  <2>2. \A m \in Msg : (disk'[m] # None => m \in saved') /\ (snapshot'[m] # None => m \in Written')
    BY <1>1, <1>4, <1>6 DEF RecordsInv
  <2> QED
    BY <1>4, <2>1, <2>2 DEF RecordsInv, WritesOK
<1>9. Durable'
  BY <1>1, <1>4, <1>5 DEF Durable
<1>10. LoadInv'
  <2>1. ASSUME room = "read", NEW m \in Written' \ (opened' \cup unread')
        PROVE  snapshot[m] # None
    <3>1. m # written' \/ written' = written
      BY <2>1
    <3>2. m \in Written
      BY <1>5, <3>1 DEF Written
    <3> QED
      BY <1>1, <1>5, <2>1, <3>2 DEF LoadInv
  <2>2. ASSUME room = "open", NEW m \in Written' \ (opened' \cup unread')
        PROVE  outbox'[m] # None
    <3>1. SUFFICES ASSUME outbox'[m] = None  PROVE FALSE
      OBVIOUS
    <3>2. m \in Msg /\ m \in Nat /\ ~(m > written')
      BY <1>5, <1>6 DEF Written
    <3>3. outbox[m] = None /\ m <= written
      BY <2>2, <3>1, <3>2 DEF Lets
    <3>4. m \in Written
      BY <1>5, <3>2, <3>3 DEF Written
    <3> QED
      BY <1>1, <1>5, <2>2, <3>3, <3>4 DEF LoadInv
  <2> QED
    BY <2>1, <2>2 DEF LoadInv
<1>11. ReloadInv' <=> MemoryInv' /\ RoomTyped' /\ RecordsInv' /\ Durable' /\ LoadInv'
  BY ReloadParts, PTL
<1> QED
  BY <1>7, <1>8, <1>9, <1>10, <1>11

(* The steps of module Outbox keep the invariant.                          *)
LEMMA OutboxStepsInRoom ==
    ASSUME ReloadInv,
           \/ FlushInRoom
           \/ WriteInRoom \/ \E m \in Msg : RetryInRoom(m) \/ ElapseInRoom(m)
           \/ JoinInRoom \/ LoseInRoom \/ ResetInRoom \/ FrameInRoom \/ ServerInRoom
    PROVE  ReloadInv'
<1>1. MemoryInv /\ RoomTyped
  BY ReloadParts
<1>2. TypeOK /\ HandInv /\ WrittenInv /\ FramesInv
  BY <1>1 DEF MemoryInv
<1>3. unread \subseteq Msg /\ "flush" \in Caller /\ "reset" \in Caller /\ "other" \in Caller
  BY <1>1 DEF RoomTyped, Caller
<1>4. CASE FlushInRoom
  <2>1. FlushStep /\ Persist("flush") /\ UNCHANGED roomVars
    BY <1>4 DEF FlushInRoom
  <2>2. HandInv' /\ ElsewhereOK
    BY <1>2, <2>1, FlushKeeps
  <2>3. MemoryInv' /\ Lets
    BY <2>2 DEF MemoryInv, ElsewhereOK
  <2>4. connected' = connected /\ written' = written
    BY <1>2, <2>1, FlushEffect DEF FlushStepOK, FlushFrame
  <2> QED
    BY <1>3, <2>1, <2>3, <2>4, StepInRoom DEF roomVars
<1>5. ASSUME Elsewhere  PROVE  MemoryInv' /\ Lets
  BY <1>2, <1>5, ElsewhereEffect DEF MemoryInv, ElsewhereOK
<1>6. ASSUME NEW caller \in Caller, Elsewhere,
             Persist(caller) \/ UNCHANGED storeVars, UNCHANGED roomVars,
             written' = written, connected' => connected \/ room \in {"open", "blind"}
      PROVE  ReloadInv'
  BY <1>3, <1>5, <1>6, StepInRoom DEF roomVars
<1>7. CASE WriteInRoom
  <2>1. /\ Write /\ Persist("other") /\ UNCHANGED <<room, opens, snapshot>>
        /\ unread' = IF room = "read" THEN unread \cup {written'} ELSE unread
    BY <1>7 DEF WriteInRoom
  <2>2. MemoryInv' /\ Lets
    BY <1>5, <2>1 DEF Elsewhere
  <2>3. connected' = connected /\ written' \in Msg
    BY <1>2, <2>1, BoundsAssumption DEF Write, netVars, TypeOK, Msg
  <2>4. /\ unread \subseteq unread' /\ unread' \subseteq Msg
        /\ room = "read" => written' \in unread'
    BY <1>3, <2>1, <2>3
  <2> QED
    BY <1>3, <2>1, <2>2, <2>3, <2>4, StepInRoom
<1>8. ASSUME NEW m \in Msg, RetryInRoom(m)  PROVE  ReloadInv'
  <2>1. Retry(m) /\ Persist("other") /\ UNCHANGED roomVars
    BY <1>8 DEF RetryInRoom
  <2>2. Elsewhere /\ written' = written /\ connected' = connected
    BY <2>1 DEF Elsewhere, Retry, netVars
  <2> QED
    BY <1>3, <1>6, <2>1, <2>2
<1>9. ASSUME NEW m \in Msg, ElapseInRoom(m)  PROVE  ReloadInv'
  <2>1. Elapse(m) /\ UNCHANGED storeVars /\ UNCHANGED roomVars
    BY <1>9 DEF ElapseInRoom, storeVars, roomVars
  <2>2. Elsewhere /\ written' = written /\ connected' = connected
    BY <2>1 DEF Elsewhere, Elapse, netVars
  <2> QED
    BY <1>3, <1>6, <2>1, <2>2
<1>10. CASE JoinInRoom
  <2>1. /\ Join /\ UNCHANGED storeVars /\ UNCHANGED roomVars /\ room \in {"open", "blind"}
    BY <1>10 DEF JoinInRoom, storeVars, roomVars
  <2>2. Elsewhere /\ written' = written
    BY <2>1 DEF Elsewhere, Join, clientVars
  <2> QED
    BY <1>3, <1>6, <2>1, <2>2
<1>11. CASE LoseInRoom
  <2>1. Lose /\ Persist("reset") /\ UNCHANGED roomVars
    BY <1>11 DEF LoseInRoom
  <2>2. Elsewhere /\ written' = written /\ connected' = FALSE
    BY <2>1 DEF Elsewhere, Lose
  <2> QED
    BY <1>3, <1>6, <2>1, <2>2
<1>12. CASE ResetInRoom
  <2>1. ResetNext /\ Persist("reset") /\ UNCHANGED roomVars
    BY <1>12 DEF ResetInRoom
  <2>2. Elsewhere /\ written' = written /\ connected' = connected
    BY <2>1 DEF Elsewhere, ResetNext, netVars
  <2> QED
    BY <1>3, <1>6, <2>1, <2>2
<1>13. CASE FrameInRoom
  <2>1. HandleFrame /\ Persist("other") /\ UNCHANGED roomVars
    BY <1>13 DEF FrameInRoom
  <2>2. Elsewhere /\ written' = written /\ connected' = connected
    BY <2>1 DEF Elsewhere, HandleFrame, HandleAccepted, HandleDelivered
  <2> QED
    BY <1>3, <1>6, <2>1, <2>2
<1>14. CASE ServerInRoom
  <2>1. /\ UNCHANGED storeVars /\ UNCHANGED roomVars
        /\ \/ ServerAccept \/ ServerRefuse
           \/ \E m \in relayed : PeerOpen(m) \/ PeerLose(m)
    BY <1>14 DEF ServerInRoom, storeVars, roomVars
  <2>2. Elsewhere
    BY <2>1 DEF Elsewhere
  <2>3. written' = written /\ connected' = connected
    BY <2>1 DEF ServerAccept, ServerRefuse, PeerOpen, PeerLose, clientVars, netVars
  <2> QED
    BY <1>3, <1>6, <2>1, <2>2, <2>3
<1> QED
  BY <1>4, <1>7, <1>8, <1>9, <1>10, <1>11, <1>12, <1>13, <1>14, Zenon

(* What a load reads is normalized into entries, and leaves none out.      *)
LEMMA NormalizedTypes ==
    ASSUME NEW e \in Record
    PROVE  Normalized(e) \in Record /\ (Normalized(e) = None <=> e = None)
<1>1. e \in Entry => Requeued(e) \in Entry /\ Requeued(e) # None /\ e # None
  BY EntryTypes, NoEntryAssumption
<1> QED
  BY <1>1 DEF Normalized, Record

(* IndexedDB settling a write, or failing to, keeps the invariant.         *)
LEMMA SettleKeeps ==
    ASSUME ReloadInv, NEW w \in writes, Settle(w) \/ SettleFail(w)
    PROVE  ReloadInv'
<1>1. MemoryInv /\ RoomTyped /\ RecordsInv /\ Durable /\ LoadInv
  BY ReloadParts
<1>2. /\ UNCHANGED vars
      /\ room' = room /\ opens' = opens /\ snapshot' = snapshot /\ unread' = unread
      /\ writes' \subseteq writes
  BY DEF Settle, SettleFail, roomVars
<1>3. /\ MemoryInv'
      /\ written' = written /\ outbox' = outbox /\ opened' = opened /\ connected' = connected
  BY <1>1, <1>2, MemoryKept
<1>4. /\ w.msg \in Msg /\ w.entry \in Record /\ w.msg \in Written
      /\ w.entry = None => w.msg \in opened
  BY <1>1 DEF RoomTyped, RecordsInv
<1>5. \/ disk' = disk /\ saved' = saved
      \/ disk' = [disk EXCEPT ![w.msg] = w.entry] /\ w.entry = None /\ saved' = saved
      \/ /\ disk' = [disk EXCEPT ![w.msg] = w.entry] /\ w.entry # None
         /\ saved' = saved \cup {w.msg}
  BY DEF Settle, SettleFail
<1>6. disk \in [Msg -> Record] /\ saved \subseteq Msg /\ saved \subseteq Written
  BY <1>1 DEF RoomTyped, RecordsInv
<1>7. /\ disk' \in [Msg -> Record] /\ saved' \subseteq Msg /\ saved' \subseteq Written
      /\ saved \subseteq saved'
  BY <1>4, <1>5, <1>6
<1>8. Written' = Written
  BY <1>3 DEF Written
<1>9. RoomTyped'
  BY <1>1, <1>2, <1>3, <1>7 DEF RoomTyped
<1>10. \A m \in Msg : disk'[m] # None => m \in saved'
  BY <1>1, <1>4, <1>5, <1>6 DEF RecordsInv
<1>11. RecordsInv'
  BY <1>1, <1>2, <1>3, <1>7, <1>8, <1>10 DEF RecordsInv
<1>12. \A m \in saved' : disk'[m] # None \/ m \in opened
  BY <1>1, <1>4, <1>5, <1>6 DEF Durable
<1>13. Durable'
  BY <1>3, <1>12 DEF Durable
<1>14. LoadInv'
  BY <1>1, <1>2, <1>3, <1>8 DEF LoadInv
<1>15. ReloadInv' <=> MemoryInv' /\ RoomTyped' /\ RecordsInv' /\ Durable' /\ LoadInv'
  BY ReloadParts, PTL
<1> QED
  BY <1>3, <1>9, <1>11, <1>13, <1>14, <1>15

(* Opening a room and reading its records keeps the invariant.             *)
LEMMA LoadKeeps ==
    ASSUME ReloadInv, OpenRoom \/ ReadRecords \/ FailLoad
    PROVE  ReloadInv'
<1>1. MemoryInv /\ RoomTyped /\ RecordsInv /\ Durable /\ LoadInv
  BY ReloadParts
<1>2. UNCHANGED vars /\ disk' = disk /\ writes' = writes /\ saved' = saved
  BY DEF OpenRoom, ReadRecords, FailLoad, storeVars
<1>3. /\ MemoryInv'
      /\ written' = written /\ outbox' = outbox /\ opened' = opened /\ connected' = connected
  BY <1>1, <1>2, MemoryKept
<1>4. Written' = Written /\ Written \subseteq Msg
  BY <1>1, <1>3, BoundsAssumption DEF Written, MemoryInv, TypeOK, Msg
<1>5. ~connected
  BY <1>1 DEF RoomTyped, OpenRoom, ReadRecords, FailLoad
<1>6. RoomTyped' /\ RecordsInv' /\ LoadInv'
  <2>1. CASE OpenRoom
    <3>1. /\ room' = "loading" /\ opens' = opens + 1 /\ opens < MaxOpens
          /\ unread' = {} /\ snapshot' = snapshot
      BY <2>1 DEF OpenRoom
    <3>2. opens' \in 0 .. MaxOpens
      BY <1>1, <3>1, ReloadAssumption DEF RoomTyped
    <3>3. RoomTyped'
      BY <1>1, <1>2, <1>3, <1>5, <3>1, <3>2 DEF RoomTyped
    <3>4. RecordsInv'
      BY <1>1, <1>2, <1>3, <1>4, <3>1 DEF RecordsInv
    <3>5. LoadInv'
      BY <3>1 DEF LoadInv
    <3> QED
      BY <3>3, <3>4, <3>5
  <2>2. CASE ReadRecords
    <3>1. /\ room' = "read" /\ snapshot' = disk /\ opens' = opens
          /\ unread' = (1 .. written) \ saved
      BY <2>2 DEF ReadRecords
    <3>2. unread' = Written \ saved
      BY <3>1 DEF Written
    <3>3. RoomTyped'
      BY <1>1, <1>2, <1>3, <1>4, <1>5, <3>1, <3>2 DEF RoomTyped
    <3>4. RecordsInv'
      BY <1>1, <1>2, <1>3, <1>4, <3>1 DEF RecordsInv
    <3>5. \A m \in Written \ (opened \cup unread') : disk[m] # None
      BY <1>1, <3>2 DEF Durable
    <3>6. LoadInv'
      BY <1>3, <1>4, <3>1, <3>5 DEF LoadInv
    <3> QED
      BY <3>3, <3>4, <3>6
  <2>3. CASE FailLoad
    <3>1. room' = "blind" /\ opens' = opens /\ snapshot' = snapshot /\ unread' = unread
      BY <2>3 DEF FailLoad
    <3>2. RoomTyped'
      BY <1>1, <1>2, <1>3, <3>1 DEF RoomTyped
    <3>3. RecordsInv'
      BY <1>1, <1>2, <1>3, <1>4, <3>1 DEF RecordsInv
    <3>4. LoadInv'
      BY <3>1 DEF LoadInv
    <3> QED
      BY <3>2, <3>3, <3>4
  <2> QED
    BY <2>1, <2>2, <2>3
<1>7. Durable'
  BY <1>1, <1>2, <1>3 DEF Durable
<1>8. ReloadInv' <=> MemoryInv' /\ RoomTyped' /\ RecordsInv' /\ Durable' /\ LoadInv'
  BY ReloadParts, PTL
<1> QED
  BY <1>3, <1>6, <1>7, <1>8

(* The end of a load brings back every message that it read.               *)
LEMMA FinishLoadKeeps ==
    ASSUME ReloadInv, FinishLoad
    PROVE  ReloadInv'
<1>1. MemoryInv /\ RoomTyped /\ RecordsInv /\ Durable /\ LoadInv
  BY ReloadParts
<1>2. TypeOK /\ HandInv /\ WrittenInv /\ FramesInv
  BY <1>1 DEF MemoryInv
<1>3. /\ room = "read" /\ room' = "open" /\ snapshot' = Nothing
      /\ outbox' = [m \in Msg |-> Normalized(snapshot[m])]
      /\ UNCHANGED <<written, flush, reset, sends, seals, overwritten, conn, connected,
                     toServer, toClient, relayed, opened, disk, writes, saved, opens,
                     unread>>
  BY DEF FinishLoad, netVars, storeVars
<1>4. /\ written \in 0 .. NumMsgs /\ NumMsgs \in Nat
      /\ snapshot \in [Msg -> Record] /\ disk \in [Msg -> Record]
  BY <1>1, <1>2, BoundsAssumption DEF TypeOK, RoomTyped
<1>5. /\ outbox' \in [Msg -> Record]
      /\ \A m \in Msg : outbox'[m] = None <=> snapshot[m] = None
  BY <1>3, <1>4, NormalizedTypes
<1>6. TypeOK'
  BY <1>2, <1>3, <1>5, FlushKept DEF TypeOK, Record
<1>7. HandInv'
  BY <1>2, <1>3, FlushKept
<1>8. WrittenInv'
  <2>1. \A m \in Msg : m > written => outbox'[m] = None
    BY <1>1, <1>4, <1>5 DEF RecordsInv, Written, Msg
  <2> QED
    BY <1>2, <1>3, <2>1 DEF WrittenInv
<1>9. MemoryInv'
  BY <1>2, <1>3, <1>6, <1>7, <1>8 DEF MemoryInv, FramesInv
<1>10. Written' = Written /\ Written \subseteq Msg
  BY <1>3, <1>4 DEF Written, Msg
<1>11. RoomTyped'
  BY <1>1, <1>3 DEF RoomTyped, Nothing, Record
<1>12. RecordsInv'
  BY <1>1, <1>3, <1>10 DEF RecordsInv, Nothing
<1>13. Durable'
  BY <1>1, <1>3 DEF Durable
<1>14. LoadInv'
  BY <1>1, <1>3, <1>5, <1>10 DEF LoadInv
<1>15. ReloadInv' <=> MemoryInv' /\ RoomTyped' /\ RecordsInv' /\ Durable' /\ LoadInv'
  BY ReloadParts, PTL
<1> QED
  BY <1>9, <1>11, <1>12, <1>13, <1>14, <1>15

(* Selecting another room keeps the invariant.                             *)
LEMMA CloseRoomKeeps ==
    ASSUME ReloadInv, CloseRoom
    PROVE  ReloadInv'
<1>1. MemoryInv /\ RoomTyped /\ RecordsInv /\ Durable /\ LoadInv
  BY ReloadParts
<1>2. TypeOK /\ HandInv /\ WrittenInv /\ FramesInv
  BY <1>1 DEF MemoryInv
<1>3. /\ reset = {} /\ room' = "away" /\ snapshot' = Nothing
      /\ connected' = FALSE /\ toServer' = <<>> /\ toClient' = <<>>
      /\ flush' = IF flush.at = "idle" THEN flush ELSE [flush EXCEPT !.live = FALSE]
      /\ StartReset /\ Persist("reset")
      /\ UNCHANGED <<written, sends, seals, overwritten, conn, relayed, opened, opens,
                     unread>>
  BY DEF CloseRoom
<1>4. /\ outbox \in [Msg -> Record] /\ written \in 0 .. NumMsgs /\ NumMsgs \in Nat
      /\ reset \in SUBSET Snapshot /\ MaxQueue \in Nat
  BY <1>2, BoundsAssumption DEF TypeOK, Record
<1>5. /\ outbox' \in [Msg -> Entry \cup {None}]
      /\ \A m \in Msg : \/ outbox'[m] = outbox[m]
                        \/ IsSending(outbox[m]) /\ outbox'[m] = Requeued(outbox[m])
      /\ reset' = reset \/ reset' \in SUBSET Snapshot
      /\ \A s \in reset' : s \in reset \/ outbox[s.msg] # None
  BY <1>2, <1>3, StartResetEffect
<1>6. \A m \in Msg : outbox'[m] = None <=> outbox[m] = None
  <2>1. \A m \in Msg : IsSending(outbox[m]) => outbox[m] # None /\ Requeued(outbox[m]) # None
    BY <1>4, EntryTypes, NoEntryAssumption DEF IsSending, Record
  <2> QED
    BY <1>5, <2>1
<1>7. FlushOK(flush') /\ flush'.todo = flush.todo
  <2>1. FlushOK(flush)
    BY <1>2, FlushOKIs
  <2>2. CASE flush.at = "idle"
    BY <1>3, <2>1, <2>2
  <2>3. CASE flush.at # "idle"
    <3>1. flush' = [flush EXCEPT !.live = FALSE]
      BY <1>3, <2>3
    <3> QED
      BY <2>1, <3>1 DEF FlushOK
  <2> QED
    BY <2>2, <2>3
<1>8. FlushOK(flush)'
  BY <1>7 DEF FlushOK, First, Msg, Entry, Snapshot
<1>9. /\ HandInv'
      /\ (flush \in [at : {"idle", "now", "loop", "taken", "sealed", "attempt"},
                     todo : SUBSET Snapshot, msg : Msg \cup {None},
                     entry : Entry \cup {None}, socket : 0 .. MaxConns, live : BOOLEAN])'
      /\ (flush.at # "idle" => flush.todo # {})'
  BY <1>8, FlushOKIsInvariant, PTL
<1>10. reset' \in SUBSET Snapshot
  BY <1>4, <1>5
<1>11. TypeOK'
  <2>1. <<>> \in Seq(Msg) /\ <<>> \in Seq(Frame) /\ Len(<<>>) <= MaxQueue
    BY <1>4
  <2> QED
    BY <1>2, <1>3, <1>5, <1>9, <1>10, <2>1 DEF TypeOK
<1>12. WrittenInv'
  <2>1. \A m \in Msg : m > written => outbox'[m] = None
    BY <1>2, <1>6 DEF WrittenInv
  <2>2. \A s \in reset' : s.msg <= written
    <3> TAKE s \in reset'
    <3>1. s.msg \in Msg /\ outbox[s.msg] # None
      BY <1>3, <1>5, <1>10 DEF Snapshot
    <3> QED
      BY <1>2, <1>4, <3>1 DEF WrittenInv, Msg
  <2>3. \A s \in flush'.todo : s.msg <= written
    BY <1>2, <1>7 DEF WrittenInv
  <2> QED
    BY <1>3, <2>1, <2>2, <2>3 DEF WrittenInv
<1>13. MemoryInv'
  <2>1. FramesInv'
    BY <1>3 DEF FramesInv
  <2> QED
    BY <1>9, <1>11, <1>12, <2>1 DEF MemoryInv
<1>14. Lets
  BY <1>3, <1>4, <1>6 DEF Lets, Msg
<1>15. WritesOK' /\ disk' = disk /\ saved' = saved
  <2>1. WritesOK /\ "reset" \in Caller
    BY <1>1 DEF RoomTyped, RecordsInv, WritesOK, Caller
  <2> QED
    BY <1>1, <1>3, <1>11, <1>12, <1>14, <2>1, PersistKeeps
<1>16. Written' = Written /\ Written \subseteq Msg
  BY <1>3, <1>4 DEF Written, Msg
<1>17. RoomTyped'
  BY <1>1, <1>3, <1>15 DEF RoomTyped, WritesOK, Nothing, Record
<1>18. RecordsInv'
  BY <1>1, <1>3, <1>15, <1>16 DEF RecordsInv, WritesOK, Nothing
<1>19. Durable'
  BY <1>1, <1>3, <1>15 DEF Durable
<1>20. LoadInv'
  BY <1>3 DEF LoadInv
<1>21. ReloadInv' <=> MemoryInv' /\ RoomTyped' /\ RecordsInv' /\ Durable' /\ LoadInv'
  BY ReloadParts, PTL
<1> QED
  BY <1>13, <1>17, <1>18, <1>19, <1>20, <1>21

(* Leaving the room for good deletes the records, of which nothing is      *)
(* promised then.                                                          *)
LEMMA LeaveRoomKeeps ==
    ASSUME ReloadInv, LeaveRoom
    PROVE  ReloadInv'
<1>1. MemoryInv /\ RoomTyped /\ RecordsInv /\ Durable /\ LoadInv
  BY ReloadParts
<1>2. /\ UNCHANGED vars /\ disk' = Nothing /\ saved' = {}
      /\ UNCHANGED <<writes, room, opens, snapshot, unread>>
  BY DEF LeaveRoom, roomVars
<1>3. /\ MemoryInv'
      /\ written' = written /\ outbox' = outbox /\ opened' = opened /\ connected' = connected
  BY <1>1, <1>2, MemoryKept
<1>4. Written' = Written
  BY <1>3 DEF Written
<1>5. RoomTyped'
  BY <1>1, <1>2, <1>3 DEF RoomTyped, Nothing, Record
<1>6. RecordsInv'
  BY <1>1, <1>2, <1>3, <1>4 DEF RecordsInv, Nothing
<1>7. Durable'
  BY <1>2 DEF Durable
<1>8. LoadInv'
  BY <1>1, <1>2, <1>3, <1>4 DEF LoadInv
<1>9. ReloadInv' <=> MemoryInv' /\ RoomTyped' /\ RecordsInv' /\ Durable' /\ LoadInv'
  BY ReloadParts, PTL
<1> QED
  BY <1>3, <1>5, <1>6, <1>7, <1>8, <1>9

(* A tab that closes leaves what is on disk.                               *)
LEMMA CrashKeeps ==
    ASSUME ReloadInv, Crash
    PROVE  ReloadInv'
<1>1. MemoryInv /\ RoomTyped /\ RecordsInv /\ Durable /\ LoadInv
  BY ReloadParts
<1>2. TypeOK /\ MaxQueue \in Nat
  BY <1>1, BoundsAssumption DEF MemoryInv
<1>3. /\ room' = "away" /\ snapshot' = Nothing /\ outbox' = Nothing
      /\ flush' = NoFlush /\ reset' = {}
      /\ connected' = FALSE /\ toServer' = <<>> /\ toClient' = <<>> /\ writes' = {}
      /\ UNCHANGED <<written, sends, seals, overwritten, conn, relayed, opened, disk,
                     saved, opens, unread>>
  BY DEF Crash
<1>4. FlushOK(flush') /\ flush'.todo = {}
  BY <1>3, NoFlushOK
<1>5. FlushOK(flush)'
  BY <1>4 DEF FlushOK, First, Msg, Entry, Snapshot
<1>6. /\ HandInv'
      /\ (flush \in [at : {"idle", "now", "loop", "taken", "sealed", "attempt"},
                     todo : SUBSET Snapshot, msg : Msg \cup {None},
                     entry : Entry \cup {None}, socket : 0 .. MaxConns, live : BOOLEAN])'
      /\ (flush.at # "idle" => flush.todo # {})'
  BY <1>5, FlushOKIsInvariant, PTL
<1>7. TypeOK'
  <2>1. /\ <<>> \in Seq(Msg) /\ <<>> \in Seq(Frame) /\ Len(<<>>) <= MaxQueue
        /\ Nothing \in [Msg -> Entry \cup {None}]
    BY <1>2 DEF Nothing
  <2> QED
    BY <1>2, <1>3, <1>6, <2>1 DEF TypeOK
<1>8. WrittenInv' /\ FramesInv'
  BY <1>3, <1>4 DEF WrittenInv, FramesInv, Nothing
<1>9. Written' = Written
  BY <1>3 DEF Written
<1>10. RoomTyped'
  BY <1>1, <1>3 DEF RoomTyped, Nothing, Record
<1>11. RecordsInv'
  BY <1>1, <1>3, <1>9 DEF RecordsInv, Nothing
<1>12. Durable' /\ LoadInv'
  BY <1>1, <1>3 DEF Durable, LoadInv
<1>13. ReloadInv' <=> MemoryInv' /\ RoomTyped' /\ RecordsInv' /\ Durable' /\ LoadInv'
  BY ReloadParts, PTL
<1> QED
  BY <1>6, <1>7, <1>8, <1>10, <1>11, <1>12, <1>13 DEF MemoryInv

(* A message that is opened while another room is selected is let go of.   *)
LEMMA DeliveredElsewhereKeeps ==
    ASSUME ReloadInv, NEW m \in relayed, DeliveredElsewhere(m)
    PROVE  ReloadInv'
<1>1. MemoryInv /\ RoomTyped
  BY ReloadParts
<1>2. TypeOK /\ HandInv /\ WrittenInv /\ FramesInv
  BY <1>1 DEF MemoryInv
<1>3. /\ room = "away"
      /\ relayed' = relayed \ {m} /\ opened' = opened \cup {m}
      /\ outbox' = [outbox EXCEPT ![m] = None] /\ Persist("other")
      /\ UNCHANGED <<written, flush, reset, sends, seals, overwritten, conn, connected,
                     toServer, toClient, room, opens, snapshot, unread>>
  BY DEF DeliveredElsewhere, Put, netVars, roomVars
<1>4. outbox \in [Msg -> Entry \cup {None}] /\ m \in Msg /\ opened \subseteq Msg
  BY <1>2 DEF TypeOK
<1>5. /\ outbox' \in [Msg -> Entry \cup {None}] /\ outbox'[m] = None
      /\ \A n \in Msg \ {m} : outbox'[n] = outbox[n]
  BY <1>3, <1>4
<1>6. TypeOK'
  BY <1>2, <1>3, <1>4, <1>5, FlushKept DEF TypeOK
<1>7. HandInv'
  BY <1>2, <1>3, FlushKept
<1>8. WrittenInv'
  BY <1>2, <1>3, <1>5 DEF WrittenInv
<1>9. FramesInv'
  BY <1>2, <1>3 DEF FramesInv
<1>10. MemoryInv'
  BY <1>6, <1>7, <1>8, <1>9 DEF MemoryInv
<1>11. Lets
  <2>1. written \in 0 .. NumMsgs /\ NumMsgs \in Nat
    BY <1>2, BoundsAssumption DEF TypeOK
  <2> QED
    BY <1>3, <1>5, <2>1 DEF Lets, Msg
<1>12. unread \subseteq Msg /\ "other" \in Caller
  BY <1>1 DEF RoomTyped, Caller
<1> QED
  BY <1>3, <1>10, <1>11, <1>12, StepInRoom

(* The room begins in the invariant.                                       *)
LEMMA ReloadInitInv == ReloadInit => ReloadInv
<1> SUFFICES ASSUME ReloadInit  PROVE ReloadInv
  OBVIOUS
<1>1. MemoryInv
  BY OutboxInitInv DEF ReloadInit, OutboxInv, MemoryInv
<1>2. RoomTyped
  BY ReloadAssumption DEF ReloadInit, RoomTyped, Init, Nothing, Record
<1>3. RecordsInv /\ Durable /\ LoadInv
  BY DEF ReloadInit, RecordsInv, Durable, LoadInv, Nothing
<1> QED
  BY <1>1, <1>2, <1>3, ReloadParts

(* Every step keeps it.                                                    *)
LEMMA ReloadNextInv == ReloadInv /\ [ReloadNext]_reloadVars => ReloadInv'
<1> SUFFICES ASSUME ReloadInv, [ReloadNext]_reloadVars  PROVE ReloadInv'
  OBVIOUS
<1>1. CASE \E w \in writes : Settle(w) \/ SettleFail(w)
  BY <1>1, SettleKeeps
<1>2. CASE OpenRoom \/ ReadRecords \/ FailLoad
  BY <1>2, LoadKeeps
<1>3. CASE FinishLoad
  BY <1>3, FinishLoadKeeps
<1>4. CASE CloseRoom
  BY <1>4, CloseRoomKeeps
<1>5. CASE Crash
  BY <1>5, CrashKeeps
<1>6. CASE \E m \in relayed : DeliveredElsewhere(m)
  BY <1>6, DeliveredElsewhereKeeps
<1>7. CASE \/ FlushInRoom
           \/ WriteInRoom \/ \E m \in Msg : RetryInRoom(m) \/ ElapseInRoom(m)
           \/ JoinInRoom \/ LoseInRoom \/ ResetInRoom \/ FrameInRoom \/ ServerInRoom
  BY <1>7, OutboxStepsInRoom
<1>8. CASE LeaveRoom
  BY <1>8, LeaveRoomKeeps
<1>9. CASE UNCHANGED reloadVars
  <2>1. /\ UNCHANGED vars
        /\ UNCHANGED <<disk, writes, saved, room, opens, snapshot, unread>>
    BY <1>9 DEF reloadVars, storeVars, roomVars
  <2>2. MemoryInv /\ RoomTyped /\ RecordsInv /\ Durable /\ LoadInv
    BY ReloadParts
  <2>3. /\ MemoryInv'
        /\ written' = written /\ outbox' = outbox /\ opened' = opened
        /\ connected' = connected
    BY <2>1, <2>2, MemoryKept
  <2>4. RoomTyped' /\ Durable'
    BY <2>1, <2>2, <2>3 DEF RoomTyped, Durable
  <2>5. RecordsInv' /\ LoadInv'
    BY <2>1, <2>2, <2>3 DEF RecordsInv, LoadInv, Written
  <2>6. ReloadInv' <=> MemoryInv' /\ RoomTyped' /\ RecordsInv' /\ Durable' /\ LoadInv'
    BY ReloadParts, PTL
  <2> QED
    BY <2>3, <2>4, <2>5, <2>6
<1> QED
  BY <1>1, <1>2, <1>3, <1>4, <1>5, <1>6, <1>7, <1>8, <1>9, Zenon
  DEF ReloadNext, ElsewhereInRoom

(* The invariant of the outbox with what it survives.                      *)
THEOREM ReloadInvHolds == ReloadSpec => []ReloadInv
  BY ReloadInitInv, ReloadNextInv, PTL DEF ReloadSpec

(* The types, in every room and on disk, and that only an open room has a  *)
(* connection.                                                             *)
THEOREM ReloadTypeCorrect == ReloadSpec => []ReloadTypeOK
<1>1. ReloadInv => ReloadTypeOK
  BY DEF ReloadInv
<1> QED
  BY <1>1, ReloadInvHolds, PTL

(* A message that is on disk stays there until the peer has opened it or   *)
(* the user leaves the room for good, in whatever order writes settle or   *)
(* fail and wherever the tab closes.                                       *)
THEOREM DurableHolds == ReloadSpec => []Durable
<1>1. ReloadInv => Durable
  BY DEF ReloadInv
<1> QED
  BY <1>1, ReloadInvHolds, PTL

(* A message that is on disk, and was when the room was opened, is in the  *)
(* outbox of the open room again.                                          *)
THEOREM RestoredHolds == ReloadSpec => []Restored
<1>1. ReloadInv => Restored
  BY DEF ReloadInv, LoadInv, RecordsInv, Restored
<1> QED
  BY <1>1, ReloadInvHolds, PTL
=============================================================================
