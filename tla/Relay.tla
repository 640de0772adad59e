-------------------------------- MODULE Relay --------------------------------
(***************************************************************************)
(* The WebSocket relay of the backend: websocket/server.js (connections,   *)
(* first-message authentication), websocket/router.js and                  *)
(* websocket/roomHandler.js (join, public_key, ciphertext,                 *)
(* message.delivered), with the membership rows that the REST routes of    *)
(* roomService.js and userService.js add and remove meanwhile.             *)
(*                                                                         *)
(* Node runs one handler at a time and the database calls are synchronous, *)
(* so a handler is one step.  The frames a step sends are its "out": they  *)
(* are observed, not delivered here.  A frame handed to a socket that is   *)
(* not open is lost, as ws drops it.  A message a handler turns down       *)
(* changes nothing but the error frame it is answered with, and is left    *)
(* out, except where the handler prunes first.                             *)
(***************************************************************************)
EXTENDS Integers, FiniteSets

CONSTANTS
    User, Room, Conn, Id,
    KeyOwner,       \* the users whose public key is in the database
    MaxRoomMembers, \* MAX_ROOM_MEMBERS of roomService.js and roomHandler.js
    TTL,            \* MESSAGE_DEDUPE_TTL_MS, in ticks of the clock
    MaxClock,       \* bound: the clock stops here
    None            \* no user, no room, no message id, no time

ASSUME KeyOwnerAssumption == KeyOwner \subseteq User
ASSUME NumbersAssumption ==
    MaxRoomMembers \in Nat \ {0} /\ TTL \in Nat /\ MaxClock \in Nat
ASSUME NoneAssumption == None \notin User \cup Room \cup Id \cup Nat

VARIABLES
    readyState,         \* of each socket; "new": not opened yet
    user,               \* ws._user, set by authentication
    wsRoom,             \* ws._roomId
    rooms,              \* rooms: the sockets that joined each room
    connectionsByUser,  \* connectionsByUser: the authenticated sockets of each
    members,            \* the rows of user_rooms
    accepted,           \* acceptedClientMessages
    now,                \* Date.now()
    out,                \* the frames the last step sent
    lastRelay           \* history: when each message was last handed to a peer

conns == <<readyState, user, wsRoom, rooms, connectionsByUser>>
vars == <<readyState, user, wsRoom, rooms, connectionsByUser, members,
          accepted, now, out, lastRelay>>

MessageKey == [room : Room, sender : User, id : Id]

AcceptedEntry == [key : MessageKey, at : Nat]

\* "user" is the author of the frame: who sent the ciphertext, whose key it is,
\* who acknowledged the delivery.
Frame ==
    [type : {"ciphertext", "message.accepted", "message.delivered",
             "public_key", "joined"},
     to : Conn, room : Room, user : User, id : Id \cup {None}]

Init ==
    /\ readyState = [c \in Conn |-> "new"]
    /\ user = [c \in Conn |-> None]
    /\ wsRoom = [c \in Conn |-> None]
    /\ rooms = [r \in Room |-> {}]
    /\ connectionsByUser = [u \in User |-> {}]
    /\ members \in [Room -> {{u} : u \in User}]
    /\ accepted = {}
    /\ now = 0
    /\ out = {}
    /\ lastRelay = [k \in MessageKey |-> None]

-----------------------------------------------------------------------------
(* Connections                                                             *)

IsOpen(c) == readyState[c] = "open"

\* A socket whose closing handshake is under way still emits its messages.
IsHeard(c) == readyState[c] \in {"open", "closing"}

Connect(c) ==
    /\ readyState[c] = "new"
    /\ readyState' = [readyState EXCEPT ![c] = "open"]
    /\ out' = {}
    /\ UNCHANGED <<user, wsRoom, rooms, connectionsByUser, members, accepted,
                   now, lastRelay>>

\* The closing handshake begins: the server closes the socket (4001, 4002, 4003: it
\* did not authenticate; 1001: the server shuts down), or the peer does.
StartClose(c) ==
    /\ IsOpen(c)
    /\ readyState' = [readyState EXCEPT ![c] = "closing"]
    /\ out' = {}
    /\ UNCHANGED <<user, wsRoom, rooms, connectionsByUser, members, accepted,
                   now, lastRelay>>

\* The first message carries a valid token of u; registerConnection.
Authenticate(c, u) ==
    /\ IsHeard(c) /\ user[c] = None
    /\ user' = [user EXCEPT ![c] = u]
    /\ connectionsByUser' = [connectionsByUser EXCEPT ![u] = @ \cup {c}]
    /\ out' = {}
    /\ UNCHANGED <<readyState, wsRoom, rooms, members, accepted, now, lastRelay>>

\* Fault: the socket stays in the set of its user.
FaultyHandleDisconnectStaysRegistered(c) ==
    /\ rooms' = [r \in Room |->
                    IF r = wsRoom[c] THEN rooms[r] \ {c} ELSE rooms[r]]
    /\ UNCHANGED connectionsByUser

\* Fault: the room is forgotten with the first socket that leaves it.
FaultyHandleDisconnectForgetsRoom(c) ==
    /\ rooms' = [r \in Room |-> IF r = wsRoom[c] THEN {} ELSE rooms[r]]
    /\ connectionsByUser' =
         [u \in User |-> connectionsByUser[u] \ {c}]

\* The socket leaves the set of its user and the set of the room it joined last;
\* it stays in the sets of rooms it had joined before that one.
HandleDisconnect(c) ==
    /\ rooms' = [r \in Room |->
                    IF r = wsRoom[c] THEN rooms[r] \ {c} ELSE rooms[r]]
    /\ connectionsByUser' =
         [u \in User |->
            IF u = user[c] THEN connectionsByUser[u] \ {c}
            ELSE connectionsByUser[u]]

\* The "close" event, whoever closed and for whatever reason.
Close(c) ==
    /\ IsHeard(c)
    /\ readyState' = [readyState EXCEPT ![c] = "closed"]
    /\ HandleDisconnect(c)
    /\ out' = {}
    /\ UNCHANGED <<user, wsRoom, members, accepted, now, lastRelay>>

-----------------------------------------------------------------------------
(* Membership, changed by the REST routes                                  *)

\* joinRoomByCode: no await stands between the count and the insert.
JoinByCode(u, r) ==
    /\ u \in members[r] \/ Cardinality(members[r]) < MaxRoomMembers
    /\ members' = [members EXCEPT ![r] = @ \cup {u}]
    /\ out' = {}
    /\ UNCHANGED <<readyState, user, wsRoom, rooms, connectionsByUser, accepted,
                   now, lastRelay>>

\* leaveRoom deletes the row; open sockets of the user are left as they are.
LeaveRoom(u, r) ==
    /\ u \in members[r]
    /\ members' = [members EXCEPT ![r] = @ \ {u}]
    /\ out' = {}
    /\ UNCHANGED <<readyState, user, wsRoom, rooms, connectionsByUser, accepted,
                   now, lastRelay>>

-----------------------------------------------------------------------------
(* Messages                                                                *)

OpenConnectionsForUser(u) == {c \in connectionsByUser[u] : IsOpen(c)}

\* An authenticated socket sends a message about a room its user belongs to.
MayAct(c, r) == IsHeard(c) /\ user[c] # None /\ user[c] \in members[r]

\* handleJoin.  The sockets of another room that c joined before keep c.
HandleJoin(c, r) ==
    /\ MayAct(c, r)
    /\ Cardinality(members[r]) <= MaxRoomMembers
    /\ wsRoom' = [wsRoom EXCEPT ![c] = r]
    /\ rooms' = [rooms EXCEPT ![r] = @ \cup {c}]
    /\ out' = {[type |-> "joined", to |-> c, room |-> r, user |-> user[c],
                id |-> None]}
              \cup {[type |-> "public_key", to |-> c, room |-> r, user |-> u,
                     id |-> None] : u \in (members[r] \ {user[c]}) \cap KeyOwner}
    /\ UNCHANGED <<readyState, user, connectionsByUser, members, accepted, now,
                   lastRelay>>

\* handlePublicKey: to every other open socket in the set of the room.
HandlePublicKey(c, r) ==
    /\ MayAct(c, r) /\ wsRoom[c] = r
    /\ out' = {[type |-> "public_key", to |-> d, room |-> r, user |-> user[c],
                id |-> None] : d \in {d \in rooms[r] \ {c} : IsOpen(d)}}
    /\ UNCHANGED <<readyState, user, wsRoom, rooms, connectionsByUser, members,
                   accepted, now, lastRelay>>

\* Fault: the boundary of the window is taken on the wrong side.
FaultyPruned(entries) == {e \in entries : now - e.at < TTL}

\* pruneAcceptedClientMessages.
Pruned(entries) == {e \in entries : now - e.at <= TTL}

\* Fault: the sockets that joined the room, as in handlePublicKey.
FaultyRelayTargets(r, sender) == {c \in rooms[r] : IsOpen(c) /\ user[c] # sender}

\* relayToRoomMembers: every open socket of every other member, joined or not.
RelayTargets(r, sender) ==
    UNION {OpenConnectionsForUser(u) : u \in members[r] \ {sender}}

\* Fault: every message is remembered, also one that reached nobody.
FaultyRemembered(key, targets) == {[key |-> key, at |-> now]}

\* Only a message that was handed to a socket is remembered.
Remembered(key, targets) ==
    IF targets = {} THEN {} ELSE {[key |-> key, at |-> now]}

AcceptedAck(c, key) ==
    [type |-> "message.accepted", to |-> c, room |-> key.room,
     user |-> key.sender, id |-> key.id]

\* handleCiphertext, a message that is not remembered: relay it and acknowledge.
RelayCiphertext(c, r, i) ==
    LET key == [room |-> r, sender |-> user[c], id |-> i]
        kept == Pruned(accepted)
        targets == RelayTargets(r, user[c])
    IN  /\ MayAct(c, r) /\ wsRoom[c] = r
        /\ \A e \in kept : e.key # key
        /\ accepted' = kept \cup Remembered(key, targets)
        /\ lastRelay' = IF targets = {} THEN lastRelay
                        ELSE [lastRelay EXCEPT ![key] = now]
        /\ out' = {AcceptedAck(c, key)}
                  \cup {[type |-> "ciphertext", to |-> d, room |-> r,
                         user |-> user[c], id |-> i] : d \in targets}
        /\ UNCHANGED <<readyState, user, wsRoom, rooms, connectionsByUser,
                       members, now>>

\* handleCiphertext, a duplicate: acknowledge only.
AckDuplicate(c, r, i) ==
    LET key == [room |-> r, sender |-> user[c], id |-> i]
        kept == Pruned(accepted)
    IN  /\ MayAct(c, r) /\ wsRoom[c] = r
        /\ \E e \in kept : e.key = key
        /\ accepted' = kept
        /\ out' = {AcceptedAck(c, key)}
        /\ UNCHANGED <<readyState, user, wsRoom, rooms, connectionsByUser,
                       members, now, lastRelay>>

\* Fault: a message of another room matches.
FaultyMatchesDelivery(e, r, recipient, i) ==
    e.key.id = i /\ e.key.sender # recipient

\* findAcceptedMessageForDelivery; the code takes the first match it stored.
MatchesDelivery(e, r, recipient, i) ==
    e.key.room = r /\ e.key.id = i /\ e.key.sender # recipient

\* handleMessageDelivered; c need not have joined the room.
HandleMessageDelivered(c, r, i) ==
    LET kept == Pruned(accepted) IN
    /\ MayAct(c, r)
    /\ accepted' = kept
    /\ \/ \E e \in kept :
            /\ MatchesDelivery(e, r, user[c], i)
            /\ out' = {[type |-> "message.delivered", to |-> d, room |-> r,
                        user |-> user[c], id |-> i] :
                            d \in OpenConnectionsForUser(e.key.sender)}
       \/ /\ \A e \in kept : ~MatchesDelivery(e, r, user[c], i)
          /\ out' = {}
    /\ UNCHANGED <<readyState, user, wsRoom, rooms, connectionsByUser, members,
                   now, lastRelay>>

-----------------------------------------------------------------------------

\* The process stops, in order or not, and another one starts: every socket is
\* closed and the maps are empty; the database rows stay.
Restart ==
    /\ readyState' = [c \in Conn |->
                        IF IsHeard(c) THEN "closed" ELSE readyState[c]]
    /\ rooms' = [r \in Room |-> {}]
    /\ connectionsByUser' = [u \in User |-> {}]
    /\ accepted' = {}
    /\ lastRelay' = [k \in MessageKey |-> None]
    /\ out' = {}
    /\ UNCHANGED <<user, wsRoom, members, now>>

Tick ==
    /\ now < MaxClock
    /\ now' = now + 1
    /\ out' = {}
    /\ UNCHANGED <<readyState, user, wsRoom, rooms, connectionsByUser, members,
                   accepted, lastRelay>>

Next ==
    \/ \E c \in Conn : Connect(c) \/ StartClose(c) \/ Close(c)
    \/ \E c \in Conn, u \in User : Authenticate(c, u)
    \/ \E u \in User, r \in Room : JoinByCode(u, r) \/ LeaveRoom(u, r)
    \/ \E c \in Conn, r \in Room : HandleJoin(c, r) \/ HandlePublicKey(c, r)
    \/ \E c \in Conn, r \in Room, i \in Id :
            \/ RelayCiphertext(c, r, i)
            \/ AckDuplicate(c, r, i)
            \/ HandleMessageDelivered(c, r, i)
    \/ Restart
    \/ Tick

Spec == Init /\ [][Next]_vars

-----------------------------------------------------------------------------
(* Properties                                                              *)

\* The types of the sockets, the rooms and the deduplication maps.
TypeOK ==
    /\ readyState \in [Conn -> {"new", "open", "closing", "closed"}]
    /\ user \in [Conn -> User \cup {None}]
    /\ wsRoom \in [Conn -> Room \cup {None}]
    /\ rooms \in [Room -> SUBSET Conn]
    /\ connectionsByUser \in [User -> SUBSET Conn]
    /\ members \in [Room -> SUBSET User]
    /\ accepted \subseteq AcceptedEntry
    /\ now \in 0 .. MaxClock
    /\ out \subseteq Frame
    /\ lastRelay \in [MessageKey -> Nat \cup {None}]

\* connectionsByUser holds the authenticated live sockets of a user, all of them
\* and no other: a member is never skipped by a relay, and no dead socket counts
\* as a relay target.
RegisteredConnections ==
    \A u \in User :
        connectionsByUser[u] = {c \in Conn : user[c] = u /\ IsHeard(c)}

\* A socket that joined a room stays in the set of the room while it is live, so
\* it gets the keys of peers who join after it.
JoinedIsReachable ==
    \A c \in Conn, r \in Room : IsHeard(c) /\ wsRoom[c] = r => c \in rooms[r]

\* A ciphertext is handed to open sockets of other members only, whatever rooms
\* they look at, and comes from a member.
RelayToMembersOnly ==
    \A f \in out : f.type = "ciphertext" =>
        /\ IsOpen(f.to)
        /\ user[f.to] \in members[f.room] \ {f.user}
        /\ f.user \in members[f.room]

\* A message is remembered exactly as long as a retry may still be a duplicate or
\* a delivery acknowledgement may still come: from the step that handed it to a
\* socket until the window has passed.
Recent(k) == lastRelay[k] # None /\ now - lastRelay[k] <= TTL

DedupeCoversRelay ==
    /\ \A k \in MessageKey : Recent(k) => [key |-> k, at |-> lastRelay[k]] \in accepted
    /\ \A e \in accepted : lastRelay[e.key] = e.at

\* A sender is told "delivered" only of a message of its own that was relayed
\* within the window, and only by another member.
DeliveredAfterRelay ==
    \A f \in out : f.type = "message.delivered" =>
        /\ f.user \in members[f.room] \ {user[f.to]}
        /\ Recent([room |-> f.room, sender |-> user[f.to], id |-> f.id])

\* As long as the server runs, no step relays a message again that was handed to
\* a peer within the window.
Key(f) == [room |-> f.room, sender |-> f.user, id |-> f.id]

RelayedOnce ==
    [][\A f \in out' : f.type = "ciphertext" => ~Recent(Key(f))]_vars

\* The open sockets of the other members of the room of a frame.
PeerSockets(f) == UNION {OpenConnectionsForUser(u) : u \in members[f.room] \ {f.user}}

\* This very step hands the message of the frame to socket d.
HandedTo(f, d) == \E g \in out' : g.type = "ciphertext" /\ g.to = d /\ Key(g) = Key(f)

\* Whoever is told "accepted" of a message that no peer was handed within the window,
\* though it was tried before when no peer was there, or has been forgotten since, had
\* it handed by this very step to every open socket of every other member.
RetryIsRelayed ==
    [][\A f \in out' : f.type = "message.accepted" /\ ~Recent(Key(f))
                          => \A d \in PeerSockets(f) : HandedTo(f, d)]_vars

\* At most two users are members of a room.
RoomCap == \A r \in Room : Cardinality(members[r]) <= MaxRoomMembers
=============================================================================
