----------------------------- MODULE RelayProofs -----------------------------
(***************************************************************************)
(* Theorems of Relay, for any users, rooms, sockets, message ids, window   *)
(* and clock.                                                              *)
(***************************************************************************)
EXTENDS Relay, FiniteSetTheorems, TLAPS

\* The room sizes are finite, which Cardinality needs.
FiniteRooms == \A r \in Room : IsFiniteSet(members[r])

\* Nobody speaks on a socket before it opens.
FreshSockets ==
    \A c \in Conn : readyState[c] = "new" => user[c] = None /\ wsRoom[c] = None

Sockets == FreshSockets /\ RegisteredConnections /\ JoinedIsReachable

Inv == /\ TypeOK
       /\ Sockets
       /\ DedupeCoversRelay
       /\ FiniteRooms /\ RoomCap

(* The maps start empty and every room with one member.                    *)
LEMMA InitInv == Init => Inv
<1> SUFFICES ASSUME Init PROVE Inv
  OBVIOUS
<1>1. TypeOK
  BY NumbersAssumption DEF Init, TypeOK
<1>2. Sockets
  BY NoneAssumption
  DEF Init, Sockets, FreshSockets, RegisteredConnections, JoinedIsReachable, IsHeard
<1>3. DedupeCoversRelay
  BY DEF Init, DedupeCoversRelay, Recent
<1>4. FiniteRooms /\ RoomCap
  <2>1. ASSUME NEW r \in Room
        PROVE  IsFiniteSet(members[r]) /\ Cardinality(members[r]) <= MaxRoomMembers
    <3>1. PICK u \in User : members[r] = {u}
      BY DEF Init
    <3>2. IsFiniteSet({u}) /\ Cardinality({u}) = 1
      BY FS_Singleton
    <3> QED
      BY <3>1, <3>2, NumbersAssumption
  <2> QED
    BY <2>1 DEF FiniteRooms, RoomCap
<1> QED
  BY <1>1, <1>2, <1>3, <1>4 DEF Inv

-----------------------------------------------------------------------------
(* The parts of the invariant, and the steps that can disturb them         *)

(* Every step keeps the types.                                             *)
LEMMA TypeStep == TypeOK /\ [Next]_vars => TypeOK'
<1> SUFFICES ASSUME TypeOK, [Next]_vars PROVE TypeOK'
  OBVIOUS
<1> USE DEF TypeOK
<1>1. ASSUME NEW c \in Conn, Connect(c) PROVE TypeOK'
  BY <1>1 DEF Connect
<1>2. ASSUME NEW c \in Conn, StartClose(c) PROVE TypeOK'
  BY <1>2 DEF StartClose
<1>3. ASSUME NEW c \in Conn, Close(c) PROVE TypeOK'
  BY <1>3 DEF Close, HandleDisconnect
<1>4. ASSUME NEW c \in Conn, NEW u \in User, Authenticate(c, u) PROVE TypeOK'
  BY <1>4 DEF Authenticate
<1>5. ASSUME NEW u \in User, NEW r \in Room, JoinByCode(u, r) PROVE TypeOK'
  BY <1>5 DEF JoinByCode
<1>6. ASSUME NEW u \in User, NEW r \in Room, LeaveRoom(u, r) PROVE TypeOK'
  BY <1>6 DEF LeaveRoom
<1>7. ASSUME NEW c \in Conn, NEW r \in Room, HandleJoin(c, r) PROVE TypeOK'
  <2>1. user[c] \in User
    BY <1>7 DEF HandleJoin, MayAct
  <2>2. out' \subseteq Frame
    BY <1>7, <2>1 DEF HandleJoin, Frame
  <2> QED
    BY <1>7, <2>2 DEF HandleJoin
<1>8. ASSUME NEW c \in Conn, NEW r \in Room, HandlePublicKey(c, r) PROVE TypeOK'
  <2>1. user[c] \in User
    BY <1>8 DEF HandlePublicKey, MayAct
  <2>2. out' \subseteq Frame
    BY <1>8, <2>1 DEF HandlePublicKey, Frame
  <2> QED
    BY <1>8, <2>2 DEF HandlePublicKey
<1>9. ASSUME NEW c \in Conn, NEW r \in Room, NEW i \in Id, RelayCiphertext(c, r, i)
      PROVE  TypeOK'
  <2> DEFINE key == [room |-> r, sender |-> user[c], id |-> i]
  <2>1. user[c] \in User
    BY <1>9 DEF RelayCiphertext, MayAct
  <2>2. key \in MessageKey /\ now \in Nat
    BY <2>1, NumbersAssumption DEF MessageKey
  <2>3. RelayTargets(r, user[c]) \subseteq Conn
    BY <2>1 DEF RelayTargets, OpenConnectionsForUser
  <2>4. out' \subseteq Frame
    BY <1>9, <2>1, <2>3 DEF RelayCiphertext, AcceptedAck, Frame
  <2>5. lastRelay' \in [MessageKey -> Nat \cup {None}]
    BY <1>9, <2>2 DEF RelayCiphertext
  <2>6. accepted' \subseteq AcceptedEntry
    BY <1>9, <2>2 DEF RelayCiphertext, Pruned, Remembered, AcceptedEntry
  <2> QED
    BY <1>9, <2>4, <2>5, <2>6 DEF RelayCiphertext
<1>10. ASSUME NEW c \in Conn, NEW r \in Room, NEW i \in Id, AckDuplicate(c, r, i)
       PROVE  TypeOK'
  <2>1. user[c] \in User
    BY <1>10 DEF AckDuplicate, MayAct
  <2>2. out' \subseteq Frame /\ accepted' \subseteq AcceptedEntry
    BY <1>10, <2>1 DEF AckDuplicate, AcceptedAck, Frame, Pruned
  <2> QED
    BY <1>10, <2>2 DEF AckDuplicate
<1>11. ASSUME NEW c \in Conn, NEW r \in Room, NEW i \in Id,
              HandleMessageDelivered(c, r, i)
       PROVE  TypeOK'
  <2>1. user[c] \in User
    BY <1>11 DEF HandleMessageDelivered, MayAct
  <2>2. \A e \in accepted : OpenConnectionsForUser(e.key.sender) \subseteq Conn
    BY DEF OpenConnectionsForUser, AcceptedEntry, MessageKey
  <2>3. out' \subseteq Frame /\ accepted' \subseteq AcceptedEntry
    BY <1>11, <2>1, <2>2 DEF HandleMessageDelivered, Frame, Pruned
  <2> QED
    BY <1>11, <2>3 DEF HandleMessageDelivered
<1>12. CASE Restart
  BY <1>12 DEF Restart
<1>13. CASE Tick
  BY <1>13, NumbersAssumption DEF Tick
<1>14. CASE UNCHANGED vars
  BY <1>14 DEF vars
<1> QED
  BY <1>1, <1>2, <1>3, <1>4, <1>5, <1>6, <1>7, <1>8, <1>9, <1>10, <1>11, <1>12,
     <1>13, <1>14 DEF Next

(* Only Connect, StartClose, Close, Authenticate, HandleJoin and Restart   *)
(* change what the sets of sockets are about.                              *)
LEMMA SocketsStep == TypeOK /\ Sockets /\ [Next]_vars => Sockets'
<1> SUFFICES ASSUME TypeOK, Sockets, [Next]_vars PROVE Sockets'
  OBVIOUS
<1> USE DEF TypeOK, Sockets, FreshSockets, RegisteredConnections,
            JoinedIsReachable, IsHeard
<1>1. ASSUME NEW c \in Conn, Connect(c) PROVE Sockets'
  BY <1>1, NoneAssumption DEF Connect
<1>2. ASSUME NEW c \in Conn, StartClose(c) PROVE Sockets'
  BY <1>2 DEF StartClose, IsOpen
<1>3. ASSUME NEW c \in Conn, Close(c) PROVE Sockets'
  BY <1>3 DEF Close, HandleDisconnect
<1>4. ASSUME NEW c \in Conn, NEW u \in User, Authenticate(c, u) PROVE Sockets'
  BY <1>4, NoneAssumption DEF Authenticate
<1>5. ASSUME NEW c \in Conn, NEW r \in Room, HandleJoin(c, r) PROVE Sockets'
  BY <1>5 DEF HandleJoin, MayAct
<1>6. CASE Restart
  BY <1>6 DEF Restart
<1>7. CASE UNCHANGED conns
  BY <1>7 DEF conns
<1> QED
  BY <1>1, <1>2, <1>3, <1>4, <1>5, <1>6, <1>7
  DEF Next, vars, conns, JoinByCode, LeaveRoom, HandlePublicKey, RelayCiphertext,
      AckDuplicate, HandleMessageDelivered, Tick

(* Memberships change by joinRoomByCode and leaveRoom only; a new member   *)
(* adds one to a room that was not full.                                   *)
RoomSizes == FiniteRooms /\ RoomCap

\* No step fills a room beyond the cap.
LEMMA RoomStep == TypeOK /\ RoomSizes /\ [Next]_vars => RoomSizes'
<1> SUFFICES ASSUME TypeOK, RoomSizes, [Next]_vars PROVE RoomSizes'
  OBVIOUS
<1> USE DEF RoomSizes, FiniteRooms, RoomCap
<1>1. ASSUME NEW u \in User, NEW r \in Room, JoinByCode(u, r) PROVE RoomSizes'
  <2>1. IsFiniteSet(members[r]) /\ Cardinality(members[r]) \in Nat
    BY FS_CardinalityType
  <2>2. /\ IsFiniteSet(members[r] \cup {u})
        /\ u \in members[r] => members[r] \cup {u} = members[r]
        /\ u \notin members[r] =>
              Cardinality(members[r] \cup {u}) = Cardinality(members[r]) + 1
    BY <2>1, FS_AddElement
  <2>3. Cardinality(members[r] \cup {u}) <= MaxRoomMembers
    <3>1. CASE u \in members[r]
      BY <2>2, <3>1
    <3>2. CASE u \notin members[r]
      <4>1. Cardinality(members[r]) < MaxRoomMembers
        BY <1>1, <3>2 DEF JoinByCode
      <4> QED
        BY <2>1, <2>2, <3>2, <4>1, NumbersAssumption
    <3> QED
      BY <3>1, <3>2
  <2>4. members' = [members EXCEPT ![r] = members[r] \cup {u}]
    BY <1>1 DEF JoinByCode
  <2> QED
    BY <2>2, <2>3, <2>4 DEF TypeOK
<1>2. ASSUME NEW u \in User, NEW r \in Room, LeaveRoom(u, r) PROVE RoomSizes'
  <2>1. IsFiniteSet(members[r]) /\ Cardinality(members[r]) \in Nat
    BY FS_CardinalityType
  <2>2. /\ IsFiniteSet(members[r] \ {u})
        /\ Cardinality(members[r] \ {u}) = Cardinality(members[r]) - 1
    BY <1>2, <2>1, FS_RemoveElement DEF LeaveRoom
  <2>3. Cardinality(members[r] \ {u}) <= MaxRoomMembers
    BY <2>1, <2>2, NumbersAssumption
  <2>4. members' = [members EXCEPT ![r] = members[r] \ {u}]
    BY <1>2 DEF LeaveRoom
  <2> QED
    BY <2>2, <2>3, <2>4 DEF TypeOK
<1>3. CASE UNCHANGED members
  BY <1>3
<1> QED
  BY <1>1, <1>2, <1>3
  DEF Next, vars, Connect, StartClose, Close, Authenticate, HandleJoin,
      HandlePublicKey, RelayCiphertext, AckDuplicate, HandleMessageDelivered,
      Restart, Tick

(* What pruning keeps is what is within the window.                        *)
LEMMA PruneKeepsRecent ==
    ASSUME TypeOK, DedupeCoversRelay
    PROVE  /\ \A k \in MessageKey :
                Recent(k) <=> \E e \in Pruned(accepted) : e.key = k
           /\ \A k \in MessageKey :
                Recent(k) => [key |-> k, at |-> lastRelay[k]] \in Pruned(accepted)
           /\ \A e \in Pruned(accepted) : e \in accepted /\ e.key \in MessageKey
<1>1. \A e \in accepted : e.key \in MessageKey /\ e.at \in Nat /\ lastRelay[e.key] = e.at
  BY DEF TypeOK, DedupeCoversRelay, AcceptedEntry
<1>2. ASSUME NEW k \in MessageKey, Recent(k)
      PROVE  [key |-> k, at |-> lastRelay[k]] \in Pruned(accepted)
  BY <1>2 DEF Recent, DedupeCoversRelay, Pruned
<1>3. ASSUME NEW e \in Pruned(accepted) PROVE Recent(e.key)
  BY <1>1, NoneAssumption DEF Pruned, Recent
<1> QED
  BY <1>1, <1>2, <1>3 DEF Pruned

(* The entries of acceptedClientMessages follow the relays: handing a      *)
(* message to a socket writes both, pruning takes only what is too old,    *)
(* and a restart forgets both.                                             *)
LEMMA DedupeStep ==
    TypeOK /\ DedupeCoversRelay /\ [Next]_vars => DedupeCoversRelay'
<1> SUFFICES ASSUME TypeOK, DedupeCoversRelay, [Next]_vars PROVE DedupeCoversRelay'
  OBVIOUS
<1>1. ASSUME lastRelay' = lastRelay, now' = now, accepted' = Pruned(accepted)
      PROVE  DedupeCoversRelay'
  BY <1>1, PruneKeepsRecent DEF DedupeCoversRelay, Recent
<1>2. ASSUME NEW c \in Conn, NEW r \in Room, NEW i \in Id, RelayCiphertext(c, r, i)
      PROVE  DedupeCoversRelay'
  <2> DEFINE key == [room |-> r, sender |-> user[c], id |-> i]
             targets == RelayTargets(r, user[c])
  <2>1. key \in MessageKey
    BY <1>2 DEF RelayCiphertext, MayAct, TypeOK, MessageKey
  <2>2. CASE targets = {}
    BY <1>1, <1>2, <2>2 DEF RelayCiphertext, Remembered
  <2>3. CASE targets # {}
    <3>1. /\ accepted' = Pruned(accepted) \cup {[key |-> key, at |-> now]}
          /\ lastRelay' = [lastRelay EXCEPT ![key] = now]
          /\ now' = now
          /\ \A e \in Pruned(accepted) : e.key # key
      BY <1>2, <2>3 DEF RelayCiphertext, Remembered
    <3> HIDE DEF key, targets
    <3>2. ASSUME NEW k \in MessageKey, Recent(k)'
          PROVE  [key |-> k, at |-> lastRelay'[k]] \in accepted'
      <4>1. CASE k = key
        BY <3>1, <4>1, <2>1 DEF TypeOK
      <4>2. CASE k # key
        <5>1. lastRelay'[k] = lastRelay[k]
          BY <3>1, <4>2 DEF TypeOK
        <5>2. Recent(k)
          BY <3>1, <3>2, <5>1 DEF Recent
        <5> QED
          BY <3>1, <5>1, <5>2, PruneKeepsRecent
      <4> QED
        BY <4>1, <4>2
    <3>3. ASSUME NEW e \in accepted' PROVE lastRelay'[e.key] = e.at
      <4>1. CASE e = [key |-> key, at |-> now]
        BY <3>1, <4>1, <2>1 DEF TypeOK
      <4>2. CASE e \in Pruned(accepted)
        <5>1. e \in accepted /\ e.key # key /\ e.key \in MessageKey
          BY <3>1, <4>2, PruneKeepsRecent
        <5>2. lastRelay'[e.key] = lastRelay[e.key]
          BY <3>1, <5>1 DEF TypeOK
        <5> QED
          BY <5>1, <5>2 DEF DedupeCoversRelay
      <4> QED
        BY <3>1, <4>1, <4>2
    <3> QED
      BY <3>2, <3>3 DEF DedupeCoversRelay
  <2> QED
    BY <2>2, <2>3
<1>3. CASE Restart
  BY <1>3 DEF Restart, DedupeCoversRelay, Recent
<1>4. CASE Tick
  <2>1. ASSUME NEW k \in MessageKey, Recent(k)' PROVE Recent(k)
    <3>1. now \in Int /\ TTL \in Int /\ lastRelay[k] \in Nat \cup {None}
      BY NumbersAssumption DEF TypeOK
    <3> QED
      BY <1>4, <2>1, <3>1 DEF Tick, Recent
  <2> QED
    BY <1>4, <2>1 DEF Tick, DedupeCoversRelay
<1>5. CASE UNCHANGED <<accepted, now, lastRelay>>
  BY <1>5 DEF DedupeCoversRelay, Recent
<1>6. ASSUME NEW c \in Conn, NEW r \in Room, NEW i \in Id,
             AckDuplicate(c, r, i) \/ HandleMessageDelivered(c, r, i)
      PROVE  DedupeCoversRelay'
  BY <1>1, <1>6 DEF AckDuplicate, HandleMessageDelivered
<1> QED
  BY <1>2, <1>3, <1>4, <1>5, <1>6
  DEF Next, vars, Connect, StartClose, Close, Authenticate, JoinByCode, LeaveRoom,
      HandleJoin, HandlePublicKey

(* The four parts are inductive together.                                  *)
THEOREM InvHolds == Spec => []Inv
<1>1. Inv /\ [Next]_vars => Inv'
  BY TypeStep, SocketsStep, DedupeStep, RoomStep DEF Inv, RoomSizes
<1> QED
  BY InitInv, <1>1, PTL DEF Spec

-----------------------------------------------------------------------------
(* The results                                                             *)

(* The maps, rows and frames keep their types.                             *)
THEOREM TypeCorrect == Spec => []TypeOK
<1>1. Inv => TypeOK
  BY DEF Inv
<1> QED
  BY InvHolds, <1>1, PTL

(* registerConnection, unregisterConnection and handleDisconnect together  *)
(* keep connectionsByUser equal to the live sockets of each user.          *)
THEOREM RegisteredConnectionsHolds == Spec => []RegisteredConnections
<1>1. Inv => RegisteredConnections
  BY DEF Inv, Sockets
<1> QED
  BY InvHolds, <1>1, PTL

(* A live socket is in the set of the room it joined last, whatever other  *)
(* sockets do and whatever rooms it joined before.                         *)
THEOREM JoinedIsReachableHolds == Spec => []JoinedIsReachable
<1>1. Inv => JoinedIsReachable
  BY DEF Inv, Sockets
<1> QED
  BY InvHolds, <1>1, PTL

(* acceptedClientMessages covers the window of every relayed message, and  *)
(* holds nothing that was not relayed.                                     *)
THEOREM DedupeCoversRelayHolds == Spec => []DedupeCoversRelay
<1>1. Inv => DedupeCoversRelay
  BY DEF Inv
<1> QED
  BY InvHolds, <1>1, PTL

(* joinRoomByCode never lets a room grow beyond MAX_ROOM_MEMBERS.          *)
THEOREM RoomCapHolds == Spec => []RoomCap
<1>1. Inv => RoomCap
  BY DEF Inv
<1> QED
  BY InvHolds, <1>1, PTL

(* A step that hands out a ciphertext is the relay of a message that is    *)
(* not remembered, hence, as the map covers the window, not a recent one.  *)
LEMMA CiphertextStep ==
    ASSUME Next, NEW f \in out', f.type = "ciphertext"
    PROVE  \E c \in Conn, r \in Room, i \in Id :
                /\ RelayCiphertext(c, r, i)
                /\ Key(f) = [room |-> r, sender |-> user[c], id |-> i]
                /\ f.to \in RelayTargets(r, user[c]) /\ f.room = r /\ f.user = user[c]
<1>1. ASSUME NEW c \in Conn, NEW r \in Room, NEW i \in Id, RelayCiphertext(c, r, i)
      PROVE  /\ Key(f) = [room |-> r, sender |-> user[c], id |-> i]
             /\ f.to \in RelayTargets(r, user[c]) /\ f.room = r /\ f.user = user[c]
  <2>1. f # AcceptedAck(c, [room |-> r, sender |-> user[c], id |-> i])
    BY DEF AcceptedAck
  <2>2. PICK d \in RelayTargets(r, user[c]) :
            f = [type |-> "ciphertext", to |-> d, room |-> r, user |-> user[c],
                 id |-> i]
    BY <1>1, <2>1 DEF RelayCiphertext
  <2> QED
    BY <2>2 DEF Key
<1>2. ASSUME NEW c \in Conn, NEW r \in Room, HandleJoin(c, r) \/ HandlePublicKey(c, r)
      PROVE  FALSE
  BY <1>2 DEF HandleJoin, HandlePublicKey
<1>3. ASSUME NEW c \in Conn, NEW r \in Room, NEW i \in Id,
             AckDuplicate(c, r, i) \/ HandleMessageDelivered(c, r, i)
      PROVE  FALSE
  BY <1>3 DEF AckDuplicate, AcceptedAck, HandleMessageDelivered
<1>4. out' # {}
  OBVIOUS
<1> QED
  BY <1>1, <1>2, <1>3, <1>4
  DEF Next, Connect, StartClose, Close, Authenticate, JoinByCode, LeaveRoom,
      Restart, Tick

(* handleCiphertext relays no message twice within the window.             *)
THEOREM RelayedOnceHolds == Spec => RelayedOnce
<1>1. Inv /\ [Next]_vars
        => [\A f \in out' : f.type = "ciphertext" => ~Recent(Key(f))]_vars
  <2> SUFFICES ASSUME Inv, Next, NEW f \in out', f.type = "ciphertext"
               PROVE  ~Recent(Key(f))
    OBVIOUS
  <2>1. PICK c \in Conn, r \in Room, i \in Id :
            /\ RelayCiphertext(c, r, i)
            /\ Key(f) = [room |-> r, sender |-> user[c], id |-> i]
    BY CiphertextStep
  <2>2. Key(f) \in MessageKey
    BY <2>1 DEF RelayCiphertext, MayAct, Inv, TypeOK, MessageKey
  <2>3. \A e \in Pruned(accepted) : e.key # Key(f)
    BY <2>1 DEF RelayCiphertext
  <2>4. Recent(Key(f)) <=> \E e \in Pruned(accepted) : e.key = Key(f)
    BY <2>2, PruneKeepsRecent DEF Inv
  <2> QED
    BY <2>3, <2>4
<1> QED
  BY InvHolds, <1>1, PTL DEF Spec, RelayedOnce

(* A step that acknowledges a message either relays it, to the open sockets *)
(* of the other members, or finds it remembered.                           *)
LEMMA AcceptedStep ==
    ASSUME Next, NEW f \in out', f.type = "message.accepted"
    PROVE  \E c \in Conn, r \in Room, i \in Id :
                /\ RelayCiphertext(c, r, i) \/ AckDuplicate(c, r, i)
                /\ f = AcceptedAck(c, [room |-> r, sender |-> user[c], id |-> i])
<1>1. ASSUME NEW c \in Conn, NEW r \in Room, NEW i \in Id, RelayCiphertext(c, r, i)
      PROVE  f = AcceptedAck(c, [room |-> r, sender |-> user[c], id |-> i])
  BY <1>1 DEF RelayCiphertext
<1>2. ASSUME NEW c \in Conn, NEW r \in Room, NEW i \in Id, AckDuplicate(c, r, i)
      PROVE  f = AcceptedAck(c, [room |-> r, sender |-> user[c], id |-> i])
  BY <1>2 DEF AckDuplicate
<1>3. ASSUME NEW c \in Conn, NEW r \in Room, HandleJoin(c, r) \/ HandlePublicKey(c, r)
      PROVE  FALSE
  BY <1>3 DEF HandleJoin, HandlePublicKey
<1>4. ASSUME NEW c \in Conn, NEW r \in Room, NEW i \in Id,
             HandleMessageDelivered(c, r, i)
      PROVE  FALSE
  BY <1>4 DEF HandleMessageDelivered
<1>5. out' # {}
  OBVIOUS
<1> QED
  BY <1>1, <1>2, <1>3, <1>4, <1>5
  DEF Next, Connect, StartClose, Close, Authenticate, JoinByCode, LeaveRoom,
      Restart, Tick

(* handleCiphertext acknowledges a message that is not remembered only as   *)
(* it relays it: one that reached nobody is not remembered, so a retry of  *)
(* it goes to whoever is there by then.                                    *)
THEOREM RetryIsRelayedHolds == Spec => RetryIsRelayed
<1>1. Inv /\ [Next]_vars
        => [\A f \in out' : f.type = "message.accepted" /\ ~Recent(Key(f))
                               => \A d \in PeerSockets(f) : HandedTo(f, d)]_vars
  <2> SUFFICES ASSUME Inv, Next, NEW f \in out', f.type = "message.accepted",
                      ~Recent(Key(f)), NEW d \in PeerSockets(f)
               PROVE  HandedTo(f, d)
    OBVIOUS
  <2>1. PICK c \in Conn, r \in Room, i \in Id :
            /\ RelayCiphertext(c, r, i) \/ AckDuplicate(c, r, i)
            /\ f = AcceptedAck(c, [room |-> r, sender |-> user[c], id |-> i])
    BY AcceptedStep
  <2>2. f.room = r /\ f.user = user[c] /\ f.id = i
    BY <2>1 DEF AcceptedAck
  <2>3. Key(f) = [room |-> r, sender |-> user[c], id |-> i]
    BY <2>2 DEF Key
  <2>4. Key(f) \in MessageKey
    BY <2>1, <2>3 DEF RelayCiphertext, AckDuplicate, MayAct, Inv, TypeOK, MessageKey
  <2>5. \A e \in Pruned(accepted) : e.key # Key(f)
    BY <2>4, PruneKeepsRecent DEF Inv
  <2>6. RelayCiphertext(c, r, i)
    BY <2>1, <2>3, <2>5 DEF AckDuplicate
  <2>7. d \in RelayTargets(r, user[c])
    BY <2>2 DEF PeerSockets, RelayTargets
  <2> DEFINE g == [type |-> "ciphertext", to |-> d, room |-> r, user |-> user[c],
                   id |-> i]
  <2>8. g \in out'
    BY <2>6, <2>7 DEF RelayCiphertext
  <2>9. g.type = "ciphertext" /\ g.to = d /\ Key(g) = Key(f)
    BY <2>3 DEF Key
  <2> HIDE DEF g
  <2> QED
    BY <2>8, <2>9 DEF HandedTo
<1> QED
  BY InvHolds, <1>1, PTL DEF Spec, RetryIsRelayed

(* relayToRoomMembers reaches members only: a target is an open socket     *)
(* registered for another member, and a socket is registered for the user  *)
(* it authenticated as.                                                    *)
THEOREM RelayToMembersOnlyHolds == Spec => []RelayToMembersOnly
<1>1. Init => RelayToMembersOnly
  BY DEF Init, RelayToMembersOnly
<1>2. Inv /\ RelayToMembersOnly /\ [Next]_vars => RelayToMembersOnly'
  <2>1. CASE UNCHANGED vars
    BY <2>1 DEF vars, RelayToMembersOnly, IsOpen
  <2>2. ASSUME Inv, Next, NEW f \in out', f.type = "ciphertext"
        PROVE  /\ IsOpen(f.to)'
               /\ user'[f.to] \in members'[f.room] \ {f.user}
               /\ f.user \in members'[f.room]
    <3>1. PICK c \in Conn, r \in Room, i \in Id :
              /\ RelayCiphertext(c, r, i)
              /\ f.to \in RelayTargets(r, user[c]) /\ f.room = r /\ f.user = user[c]
      BY <2>2, CiphertextStep
    <3>2. PICK u \in members[r] \ {user[c]} :
              f.to \in connectionsByUser[u] /\ IsOpen(f.to)
      BY <3>1 DEF RelayTargets, OpenConnectionsForUser
    <3>3. user[f.to] = u
      BY <2>2, <3>2 DEF Inv, TypeOK, Sockets, RegisteredConnections
    <3> QED
      BY <3>1, <3>2, <3>3 DEF RelayCiphertext, MayAct, IsOpen
  <2> QED
    BY <2>1, <2>2 DEF RelayToMembersOnly
<1> QED
  BY InvHolds, <1>1, <1>2, PTL DEF Spec

(* handleMessageDelivered forwards what a recent relay accounts for, to    *)
(* sockets of the sender of that message.                                  *)
THEOREM DeliveredAfterRelayHolds == Spec => []DeliveredAfterRelay
<1>1. Init => DeliveredAfterRelay
  BY DEF Init, DeliveredAfterRelay
<1>2. Inv /\ DeliveredAfterRelay /\ [Next]_vars => DeliveredAfterRelay'
  <2> SUFFICES ASSUME Inv, DeliveredAfterRelay, [Next]_vars
               PROVE  DeliveredAfterRelay'
    OBVIOUS
  <2>1. CASE UNCHANGED vars
    BY <2>1 DEF vars, DeliveredAfterRelay, Recent
  <2>2. ASSUME NEW c \in Conn, NEW r \in Room, NEW i \in Id,
               HandleMessageDelivered(c, r, i), NEW f \in out'
        PROVE  /\ f.user \in members'[f.room] \ {user'[f.to]}
               /\ Recent([room |-> f.room, sender |-> user[f.to], id |-> f.id])
    <3>1. PICK e \in Pruned(accepted) :
              /\ MatchesDelivery(e, r, user[c], i)
              /\ \E d \in OpenConnectionsForUser(e.key.sender) :
                    f = [type |-> "message.delivered", to |-> d, room |-> r,
                         user |-> user[c], id |-> i]
      BY <2>2 DEF HandleMessageDelivered
    <3>2. PICK d \in OpenConnectionsForUser(e.key.sender) :
              f = [type |-> "message.delivered", to |-> d, room |-> r,
                   user |-> user[c], id |-> i]
      BY <3>1
    <3>3. e.key \in MessageKey /\ Recent(e.key)
      BY PruneKeepsRecent DEF Inv
    <3>4. user[d] = e.key.sender
      BY <3>2, <3>3
      DEF Inv, TypeOK, Sockets, RegisteredConnections, OpenConnectionsForUser,
          MessageKey
    <3>5. e.key = [room |-> r, sender |-> user[d], id |-> i] /\ e.key.sender # user[c]
      BY <3>1, <3>3, <3>4 DEF MatchesDelivery, MessageKey
    <3>6. user[c] \in members'[r] /\ user' = user
      BY <2>2 DEF HandleMessageDelivered, MayAct
    <3> QED
      BY <3>2, <3>3, <3>4, <3>5, <3>6
  <2>3. ASSUME NEW c \in Conn, NEW r \in Room, NEW i \in Id,
               HandleMessageDelivered(c, r, i)
        PROVE  DeliveredAfterRelay'
    BY <2>2, <2>3 DEF DeliveredAfterRelay, Recent, HandleMessageDelivered
  <2>4. ASSUME Next, \A f \in out' : f.type # "message.delivered"
        PROVE  DeliveredAfterRelay'
    BY <2>4 DEF DeliveredAfterRelay
  <2>5. ASSUME NEW c \in Conn, NEW r \in Room, NEW i \in Id,
               RelayCiphertext(c, r, i) \/ AckDuplicate(c, r, i)
        PROVE  \A f \in out' : f.type # "message.delivered"
    BY <2>5 DEF RelayCiphertext, AckDuplicate, AcceptedAck
  <2>6. ASSUME NEW c \in Conn, NEW r \in Room,
               HandleJoin(c, r) \/ HandlePublicKey(c, r)
        PROVE  \A f \in out' : f.type # "message.delivered"
    BY <2>6 DEF HandleJoin, HandlePublicKey
  <2>7. ASSUME out' = {} PROVE \A f \in out' : f.type # "message.delivered"
    BY <2>7
  <2> QED
    BY <2>1, <2>3, <2>4, <2>5, <2>6, <2>7
    DEF Next, Connect, StartClose, Close, Authenticate, JoinByCode, LeaveRoom,
        Restart, Tick
<1> QED
  BY InvHolds, <1>1, <1>2, PTL DEF Spec
=============================================================================
