# A formal model of cipher-chat

TLA+ specifications of cipher-chat, an end-to-end encrypted chat for two: a browser client
(React hooks, a double ratchet, encrypted IndexedDB) and a Node backend (Express, SQLite, a
WebSocket relay). TLC checks them on small instances; TLAPS proves the most important
properties for every instance. Paths are relative to the root of the repository; `HK` stands
for `frontend/src/hooks/useLiveRatchetChat.ts`, `DR` for
`frontend/src/crypto/double-ratchet.ts`, `ST` for `frontend/src/lib/localEncryptedStore.ts`,
`RH` for `backend/src/websocket/roomHandler.js`.

    tlc -config MCRelay.cfg MCRelay      # one of the runs listed below
    tlapm RelayProofs.tla                # the proofs of one module

## 1. The system

| Part | State | Operations | Hard because |
|---|---|---|---|
| Double ratchet (`DR`, `crypto.ts`) | `RatchetSession`: DH pair, peer's DH key, root key, two chain keys, three counters, cache of skipped keys, two flags | `initDoubleRatchet`, `ratchetEncrypt`, `ratchetDecrypt` and in them `sendRatchetStep`, `dhRatchetStep`, `skipMessageKeys` | messages are lost, repeated, reordered; both sides may send first |
| Chat hook: session (`HK`) | `ratchetSessionRef`, `sessionReadyRef`, `inboundMessageKeysRef` in each tab, the session record in IndexedDB, a Web Lock | load, derive, encrypt, decrypt, acknowledge, clean up | several tabs, an await between any two accesses, failing saves, closing tabs |
| Chat hook: outbox (`HK`) | `outboxRef`, the flush flag, the retry timer, the socket and its generation | `send`, `flushOutbox`, `markRoomOutboxPending`, `markOutboxSent`, `markOutboxFailed`, `retryMessage` | acknowledgements, losses and resets arrive in the awaits of a flush |
| Chat hook: inbound (`HK`) | deferred and queued ciphertexts | `decryptCiphertextMsg`, `queueInboundCiphertext`, the drain effect | the room may change at every await |
| Local store (`ST`) | persistence key, encrypted records, `persistenceKeyPromises` | save, load, delete, clear | the key is created on first use, in every tab |
| Room list, login, logout (`useRoomList.ts`, `App.tsx`, `Login.tsx`) | the selected room, the token, the identity keys in localStorage | leave, log in, log out, restore | clean-up races the saves of what is being closed |
| Peer key audit, peer verification (`usePeerKeyAudit.ts`, `usePeerVerification.ts`) | pinned key, warning; verification record, status | audit, refresh, mark, reset | overlapping requests for different keys |
| Relay (`websocket/*.js`) | `rooms`, `connectionsByUser`, `acceptedClientMessages`, per socket `_user`, `_roomId`, `readyState` | authenticate, join, public_key, ciphertext, message.delivered, disconnect | sockets die while messages are relayed; membership changes over REST; a restart forgets all |
| Rooms (`roomService.js`, `userService.js`) | `rooms`, `user_rooms` | create, join by code, leave | the cap of two members |
| Accounts (`authService.js`) | `users`, `auth_challenges` | `createChallenge`, `register`, `login` | requests wait for Argon2 between check and insert |
| Key log (`keyService.js`) | `users.public_key`, `key_log` | publish, read | two statements without a transaction |
| HTTP application, metrics, logging, UI, build | counters, none | | |

How they interact. A client opens a socket, authenticates with the token that login gave it,
joins the room it shows and broadcasts its public key; the key it gets in return lets it
derive a session (`initDoubleRatchet`), unless the store has one. `send` puts an entry in the
outbox; `flushOutbox` has the ratchet seal it under the Web Lock, saves the session, and sends
the ciphertext. The relay hands it to every open socket of the other member, remembers it for
ten minutes and answers `message.accepted`; the peer's hook opens it under its own lock, saves
the session and the plaintext, and answers `message.delivered`, which the relay passes to the
sender, whose outbox lets go of the entry. Nothing but the sender keeps a ciphertext.

What makes each part correct:

- ratchet: no key is used twice or kept after use, nothing is opened twice, and what arrives
  within the skip bound can be opened however late;
- session: no number of the sending chain seals two messages, memory is never ahead of the
  record and what was acknowledged is spent in the record, all as long as no write outside the
  lock takes the record back;
- outbox: a message is let go only when the peer has it, is sealed once, is tried a bounded
  number of times, survives any reload until the user leaves the room, and settles while the
  room is connected;
- inbound: what was saved in the queue stays there until it was opened, and what waits for a
  usable room is tried; a session is of the key the peer announced last;
- local store: one key per user as long as there are records;
- key audit and verification: the banner when, and only when, a pinned key changes; "verified"
  only of what the user confirmed; every published key that is handed out on record;
- relay: ciphertext to open sockets of members only, at most once per window, no live socket
  forgotten, a retry of what reached nobody relayed, no delivery reported of what was not
  relayed, no third member;
- accounts: challenges used once, tokens only for the holder of the account's key.

`PROJECT.json` lists every component with what is modelled of it, and under `hazards`
everything in this code that a test would hardly reach, line by line, with the properties
aimed at it.

## 2. The modules

Each module has one component's state as variables and one action per handler, or per stretch
of a handler between two awaits. History variables, marked as such, record what properties
need and are never read by a guard. Definitions named `Faulty...` are single-bug variants of
the definition that follows them; no specification uses them, they serve to see a property fail.

### Ratchet, DoubleRatchet, SecureChannel

`Ratchet` is the ratchet as pure functions of a session, with symbolic cryptography: a key
pair is its owner and a number, a DH output the set of two keys, a root key the sequence of DH
outputs mixed into it, a chain key a chain and a position. The operators carry the names of the
functions of `DR`. `DoubleRatchet` runs two sessions: `Encrypt(p)` is one `ratchetEncrypt`,
`Decrypt(p, m)` one successful `ratchetDecrypt`. `sent` is never emptied, so a message may be
opened late, twice or not at all, in any order: that is loss, duplication and reordering.
A decryption that throws changes no session and is the absence of a step. That a call is atomic
is what the lock provides; where the lock does not reach is the matter of `ChatSession`.

`SecureChannel` is what the ratchet promises: numbered messages, each opened at most once, only
if it was sent. `ImplementsChannel` states that `DoubleRatchet` refines it (the variables
`count` and `received` are the mapping).

### ChatSession, SerialSession

The session of one room of one user in several tabs. A session is cut down to what the
properties tell apart: how many messages it has sealed and which it has opened. `EnterEncrypt`
and `EnterDecrypt` are the start of the locked sections (`HK` 355-358, 571-593), `Save` the
await of `saveRatchetSession`, `LeaveEncrypt` and `LeaveDecrypt` what follows it, `Reject` every
way to throw. `InitSession` is the check of the session effect (`HK` 466-476): a session in memory
makes the room ready, none starts a derivation, and `Derived` is what follows its await (`HK`
477-492), over whatever is in memory by then; `derivation` says how far it is, and closing the
room cancels it. `Derived` and `CloseRoom` start the two saves outside the lock (`HK` 481, 963),
which `SettleSave` completes, whenever, or fails. `LoadFail` is the catch of the load
(`HK` 947), after which a session is derived although there may be a record. `Crash` closes a
tab at any point. `rolledBack` records that a write outside the lock, or leaving the room, took
the record back.

`SerialSession` is what the lock promises (`HK` 111-114, "serializes every ratchet state
transition"): one session that moves by whole operations, `Seal` and `Open`, each from where the
one before left it, and a sealed message that goes out under the number the operation moved
past, or is lost. `ImplementsSerialSession` states that `ChatSession` refines it, over all tabs:
the abstract session is the record in IndexedDB, `held` the message of the call that has saved
and not yet left, and `taken` is `rolledBack`, after which nothing is promised.

### Outbox, Delivery

The outbox of one room in one tab, with socket, server and peer as far as the client sees them.
`persistOutboxEntry` changes memory at once and then awaits, so each of its calls ends a step.
`flush` is the call under way, with the copy of the entry it works on; where the loop goes on
without an await (`flush.at = "now"`) no other step may come between. `Lose` closes the socket
and begins `markRoomOutboxPending`, `ResetNext` is its next round. Times are abstract: an entry
is due or not yet, and `Elapse` makes it due. `overwritten` records that a late round of a reset
put an old copy back over an entry that had been sealed, tried or settled meanwhile. A flush and
a reset each work through an array of entries they copied at the start, in the order of writing;
here that is the set of those copies (`todo`, `reset`), of which `First` is the next and `Others`
the rest.

A flush persists its copy of an entry that `message.delivered` has just removed, so a delivered
message is queued and sent again. The deduplication of the relay and of the peer makes that
harmless, and `NoMessageLost` allows it.

`Delivery` is what the outbox promises of each message: it is written, sealed, opened by the peer
and let go of, in this order, although it may be taken in, sealed and opened again.
`ImplementsDelivery` states that `Outbox` refines it: `kept` are the messages with an entry,
`sealed` those that were encrypted at least once.

### OutboxReload

`Outbox`, which it extends, with what it survives: each of its steps (`...InRoom`) is taken with
what it asks of IndexedDB. The specification is `ReloadSpec`, with fairness `FairReloadSpec`.
`Persist` turns the entries a step changes into `writes`, which `Settle` completes in any order or
`SettleFail` loses; a flush and a reset wait for their own, nobody for the others. `OpenRoom`,
`ReadRecords` and `FinishLoad` are the load of the connection effect, which reads, and after a
while replaces what is in memory; `CloseRoom` is its clean-up when another room is selected, with
a reset of its own; `Crash` closes the tab. `LeaveRoom` is the user leaving the room for good, which
deletes its records in one transaction while writes under way and the entries in memory go on. The
history variables `saved` and `unread` say which messages have been on disk since the user last
left the room, and which the latest load came too early for. The other deletion of records, at
logout, is in `LocalStore` and not here: what is said of the records is said within one login.

### Inbox

Ciphertexts of one room in one tab on their way to the ratchet, and the session they wait for.
`deferred` is `pendingCiphertextRef`, `queued` the pending-ciphertext records, `drain` and
`current` the drain effect (`HK` 660-680) under way, `call` the calls of `decryptCiphertextMsg`,
one for the socket and one for the drain. React runs an effect some time after the state that it
depends on was set, so `initDue` and `drainDue` are effects about to run. `HandlePublicKey` is
the frame of `HK` 808-827, which drops the session in memory when the key is another one;
`InitEffect`, `Derived` and `SettleSave` are the effect of `HK` 466-492, cut at its awaits; its
save settles whatever room and key there is by then. `LeaveRoom` is the user leaving the room for
good, whose one transaction deletes the record, the queue and the transcript while calls and saves
go on. What happens under the lock is one step here; `ChatSession` has its inside. `early` and `clean` are history: the room was made ready by
a save of an earlier session, and nothing of an earlier key was about when the present one came.

### LocalStore

The persistence key, the records encrypted under it and the logout of one user over several
tabs. `ReadKey` and `WriteKey` are the two transactions of `loadOrCreatePersistenceKey`;
`promise` is `persistenceKeyPromises`, which the calls of one tab share and other tabs do not
see. `Logout` starts `clearAllLocalChatState` without waiting, and unmounts the chat, which
saves the session.

### Relay

The server. Node runs one handler at a time and the database calls are synchronous, so a handler
is one step, and the frames it sends are the variable `out`. A socket is new, open, closing or
closed; one that is closing still emits messages and takes none. `Restart` is the process
stopping, in order or not. `JoinByCode` and `LeaveRoom` are the REST routes that change
membership under the feet of open sockets. `lastRelay` is a history variable: when each message
was last handed to a peer by this process.

### Accounts

Challenges, registration and login. A request is cut at the await for Argon2: `BeginRegister`
and `BeginLogin` check and use up the challenge, `FinishRegister` and `FinishLogin` insert the
row or give out the token. `calls` are the requests in between, which `Restart` drops; `spent`
and `tokens` are history.

### PeerKey, KeyAudit

`PeerKey` declares the identity keys a peer may come to have, which `KeyAudit` and
`PeerVerification` extend: the two hooks of the browser that judge such a key.

The identity key of a peer on its way to a client: made by `ensureKeys` in several tabs at once
(`StartKeys`, `FinishKeys`), lost with the site data, published over HTTP, entered in the key log
by two statements (`PublishKey`; `PublishTorn` if the process stops between them), sent to a
client that joins or shown to the room by the peer's own frame, and audited by `auditPeerKey`,
cut where it awaits the log: `HandlePublicKey` starts a call, `ReadKeyLog` is the server's
answer, `AuditDone` the rest. The account was registered with a key or without one
(`registered`): `/auth/register` takes one (`backend/src/schemas.js` 25), puts it on file
(`authService.js` 140) and in no log; the client of the repository sends none. A registered key may
be the one the browser holds or one it never sees. `torn` (the keys in whose publication the
process stopped), `handed`, `received`, `pins`, `warned` are history.

### PeerVerification

The specification is `TrustSpec`: `refresh`, `markVerified` and `resetVerification` of
`usePeerVerification.ts`, cut at each await: the hash, the two reads of the record, the write, the
deletion. A frame of the peer makes a new identity object and thereby a new call of `refresh`,
while earlier ones go on (`ShowPeer`). A key stands for itself, for its fingerprint and for the
safety number derived from it. The history variable `about` is the key of the call that set the
status last, `confirmed` the keys whose number the user confirmed in the panel, and `disturbed`
says that calls have overlapped or failed since the peer was shown afresh.

`MC...` modules add symmetry sets to the modules above and nothing else.

## 3. The runs

Runs expected to pass:

| Run | Instance | Properties |
|---|---|---|
| `double_ratchet` | 2 parties, 5 messages in all, `MAX_SKIP` 2 | `NoKeyReuse`, `SpentKeysGone`, `SkippedKeysAreAwaited`, `Recoverable`, `DivergesOnlyAtFirstTurn`, `RepliesTurnRatchet`, `ImplementsChannel` |
| `chat_session` | 2 tabs, 1 message each way, room opened twice, 2 numbers | `ReuseNeedsRollback`, `RefNotAhead`, `AckedIsSpent`, `ImplementsSerialSession` |
| `inbox` | 1 message, 2 keys of the peer, 2 frames with another key, room opened twice | `QueueKept`, `DrainedWhenReady`, `SessionOfPresentKey`, `DeferredIsTried` |
| `outbox` | 2 messages, 2 attempts, 2 sockets, 2 sealings, 1 frame each way | `NoMessageLost`, `AttemptsBounded`, `OneEnvelope`, `SentUntilDelivered`, `ImplementsDelivery` |
| `outbox_reload` | 1 message, 1 attempt, 2 sockets, room opened twice and left at will, 2 writes under way | `Durable`, `Restored`, `Settles` |
| `relay` | 3 users, 2 sockets, 2 rooms of at most 2, one message id used in both, window of 1 tick, clock to 2 | `RegisteredConnections`, `RelayToMembersOnly`, `JoinedIsReachable`, `DeliveredAfterRelay`, `RelayedOnce`, `RetryIsRelayed` |
| `accounts` | 2 names, 2 keys, 3 challenges that live 1 tick, clock to 2 | `SingleUse`, `TokenProvesKey` |
| `local_store` | 2 tabs, 2 records, 3 keys, 1 logout | `ReadableUntilLogout` |
| `key_audit` | 2 keys, of which one may be registered, 2 audits at once, 2 publications, 1 frame | `WarningJustified`, `PinChangeWarned`, `OnRecord` |
| `peer_verification` | 2 keys, 2 refreshes at once | `ConfirmedOnly`, `VerifiedWasConfirmed`, `StatusAgrees` |

Every type invariant is proved and no run repeats it, and neither does one repeat what a
theorem says of the shape of the code: `AtMostOnce` of the ratchet, which `ImplementsChannel`
implies, `DedupeCoversRelay` and `RoomCap` of the relay.

Runs in which TLC finds a statement of the documentation, a comment or a test violated (the
quotations are in `PROJECT.json` under `findings`):

| Run | Statement | What happens |
|---|---|---|
| `crossed_first_messages` | `EitherMaySendFirst` | Both participants send first, open the other's message and answer. Each mixes a DH output of its own into the same root key, the root keys part, and nothing sent afterwards can be opened. |
| `two_tabs` | `NoNumberReuse` | Two tabs open a new room. One seals a message; then the other's first save, which is outside the lock, takes the record back, and the next message gets the same number. |

What the models reach besides. Where a definition is named, it states what the documents promise
and TLC finds it violated; it is no run of its own.

- `MAX_SKIP` bounds one skip, not the cache of skipped keys (`DR` 349), which grows with every
  further skip; `crypto-spec/key-exchange.md:164` calls the cache bounded.
- Leaving a room clears its records, and then closing it saves its session again
  (`ChatSession!LeavingForgets`). The clean-up at logout is not awaited either (`App.tsx:40`);
  the save of the chat that is unmounted comes after it, and a record and its key stay.
- Two tabs find no persistence key and make one each; what the first was used for can never be
  read again (`LocalStore!Readable`).
- `message.accepted` is handled while a flush persists its copy of the entry; the copy wins, and
  a sent message is "sending" again. `SentUntilDelivered` excepts just this.
- A key of the peer changes and no banner appears, because the audit pins nothing as long as the
  log has one entry, or because a second frame with the same key takes the banner down before
  it was seen (`KeyAudit!KeyChangeNoticed`).
- "Verified" is shown while the peer's key is another one: a refresh of the old key, or a mark of
  the old number, ends after the refresh of the new key (`PeerVerification!VerifiedIsCurrent`).
- The room becomes ready by the save of a session that was dropped meanwhile, before it has one;
  the drain effect finds none, and what is deferred waits until the room is opened again
  (`Inbox!QueueDrained`; `crypto-spec/key-exchange.md:188-190`).
- A new key drops the session in memory, and the next operation under the lock loads the old one
  from its record (`Inbox`, `clean` in `SessionOfPresentKey`).
- A user who left the room over REST still gets the keys broadcast there, while the socket
  lasts (`RH` 124).
- A socket that joined two rooms stays, once closed, in the set of the first (`RH` 268-273). What
  goes to a room goes to open sockets, so nothing is sent to it.
- Keys off the record: one that was registered, or in whose publication the server stopped, is
  what joins are answered with, and no audit finds it in the log. `OnRecord` says that there are
  no others.

Several properties hold under a condition that a history variable records, and the condition is
a thing the code lets happen: `rolledBack` (`AckedIsSpent`, `RefNotAhead`, `ReuseNeedsRollback`),
`overwritten` (`AttemptsBounded`, `OneEnvelope`), `early` (`DrainedWhenReady`,
`DeferredIsTried`), `clean` (`SessionOfPresentKey`), `replaced` (`ReadableUntilLogout`),
`disturbed` (`StatusAgrees`). They say what the code keeps apart from that, and are no check
of what happens under it; `hazards` in `PROJECT.json` tells the two apart.

### The bounds, and why they are enough

- Ratchet. Five messages allow two turns of each side with a message left behind on an old
  chain, and a third chain: the cases in which a chain must be closed at the announced length
  while keys of two older chains are in the cache. With `MAX_SKIP` 2 a skip of exactly the bound
  and one beyond both occur. The two parties are symmetric in `Spec` and in
  `SecureChannel`, and the run has no liveness, so their permutation is a sound symmetry.
- ChatSession. Two tabs are enough for every pair of tabs, and all conflicts here are between
  two calls; the second opening lets a tab come back while its old call still waits. The sending
  chain stops at 2, one more than the messages, for the number that a failed save burns.
- Outbox. Two messages, because a reset of one message is atomic: only with a second one does
  it run on beside a flush. Two sockets, so that a frame may be lost with the first and repeated
  on the second. A queue of one frame drops the next, which is one more loss. Encryption is
  bounded above what `OneEnvelope` allows, so the bound does not hide a second sealing.
- Relay. Three users for one who may be refused at the cap and one who comes and goes. A window
  of one tick and a clock to two make a message fall inside the window, on its edge and beyond.
  Two sockets because a conflict is between the sender's and one other, which may be the
  sender's as well; two rooms for a socket that goes from one to the other.
- Accounts. Two names and two keys give every race there is between two devices, the third
  challenge a login beside two registrations.
- LocalStore. Two tabs for two keys made at once, three keys for a login after a logout, two
  records so that one may be under another key than the other.
- Inbox. One message may be in every place at once (deferred, queued, on the socket and in the
  drain), and messages do not affect each other but through the session and the drain; two keys
  and two frames with another one give a change and a change back; the second opening lets what
  the first left behind settle in it. The room is left only while it can be opened again.
- OutboxReload. The conflict is between the writes of one entry, so one message; two openings and
  a crash between them; two writes under way settle in either order. With two attempts the
  run takes several times as long and finds nothing else.
- KeyAudit, PeerVerification. Conflicts are between two calls about two keys. The keys, and the
  calls, are interchangeable, and neither run has liveness: the symmetry is sound.

`CHECK_DEADLOCK FALSE` is used where the model may really stop: all messages of the ratchet
sent and opened, all messages of the outbox settled with the sockets or the openings used up,
the clock and the challenges of `Accounts` used up.

### Fairness

Only what the code's scheduling provides, and only where it is needed:

- `OutboxReload!FairReloadSpec`: a flush and a reset whose writes have settled go on, the writes
  settle or fail, the flush timer fires when an entry is due, frames that have arrived are
  handled, retry times pass. The network, the server, the peer and the user owe nothing:
  `Settles` holds although every frame may be lost, because attempts are counted and the entry
  is given up.
- `Inbox!FairSpec`: an effect that is due runs, the drain takes its next message when the one
  before has ended, and a call that waits for the lock or for IndexedDB goes on, with success or
  with an error. Nothing is assumed of the room being opened or of keys arriving.

## 4. The proofs

All theorems are for any number of messages, users, rooms, sockets, names, keys and challenges;
every leaf is checked by SMT, Zenon or LS4. They rest on the assumptions the modules name and on
nothing else: the bounds are natural numbers; there are two parties to a ratchet
(`PartyAssumption`); messages out and in are different messages (`SetsAssumption`); who has a key
is a user (`KeyOwnerAssumption`); a session's own record is one of the records; and a value that
stands for "nothing" is none of the things it stands beside (`KeyAssumption`,
`NoSessionAssumption`, `NoEntryAssumption`, `CallAssumption` and their like). TLC evaluates each of
them.

**DoubleRatchetProofs** begins with lemmas on the pure functions of `Ratchet`: the types of what
they return, and how encrypting, skipping, turning and decrypting preserve `ReceivingInv` of one
session, which says that each key still derivable, from the receiving chain or from the cache, is
not yet spent. Four inductive invariants of the two sessions follow, each on top of the ones
before, because none of the properties is inductive.

- `Inv` is about keys: `IdInv` (ids are given out in order and name one message), `SendInv` (the
  last DH output of every chain in use was made from keys generated so far, the two sending
  chains differ, and a message sealed on the chain still in use lies behind its position) and
  `RecvInv` (`ReceivingInv` with the keys opened so far). The heart is freshness: a turn mixes in
  a DH output with a key pair that was not generated before, so the chain it starts is none of
  the chains in use or ever used (`TurnedIsFresh`). It gives `TypeCorrect`, `AtMostOnceHolds`,
  `NoKeyReuseHolds`, `SpentKeysGoneHolds` and `Refinement` (`Spec => ImplementsChannel`): an
  implementation step maps to a `Send` or a `Receive`, since a key opens once.
- `TurnsInv` is about root keys: two sessions are level, or one is ahead of the other by one
  turn, or both have turned first and their roots have parted for good (`RootInv`); the key in a
  header tells which (`HeaderInv`, `AnswerInv`). It gives `RepliesTurnRatchetHolds` and
  `DivergesOnlyAtFirstTurnHolds`.
- `GapInv` is about positions: what is sealed on a chain is numbered without a gap, a chain that
  was left ended at the length that was announced, and the cache holds keys of such messages
  (`DenseInv`, `EndedInv`, `CacheInv`). It gives `SkippedKeysAreAwaitedHolds`: a skip caches the
  key of a message that exists and can still come.
- `ReachInv` is about messages: as long as the root keys agree, each message to a party is
  opened, has its key in the cache, or lies ahead on the receiving chain or on the one that the
  next turn starts (`PlaceInv`). It gives `RecoverableHolds`.

**RelayProofs**: `Inv` is `TypeOK`, `Sockets` (`RegisteredConnections` and
`JoinedIsReachable` with what a socket that was never opened looks like), `DedupeCoversRelay`
and the cap with the finiteness of the member sets that counting needs. `RelayedOnceHolds`
comes from `DedupeCoversRelay`: a message that is recent is remembered after pruning, and one
that is remembered is not relayed. `RetryIsRelayedHolds` is the converse: what is acknowledged and
not recent is not remembered either, so it is relayed by this step, to whoever is there.

**OutboxProofs**, for `Outbox`: `OutboxInv` adds four parts to `TypeOK` and `NoMessageLost`.
`HandInv` says that a flush holds one copy of each message and has the first in hand, with
attempts left. `WrittenInv`: no copy is of a message that was not written. `FramesInv`: the peer
has opened what it acknowledged, without which letting go would not be safe. `CountInv` is the
inductive form of `AttemptsBounded` and `OneEnvelope`, which say nothing of the copies a flush
works on: unless a late reset put an old one back, every copy knows how often its message was
sealed, and counts all the times it was sent, together with the attempt that is counted and not
made yet (`UpToDate`). So giving up at `MAX_SEND_ATTEMPTS` and sealing only what has no
ciphertext bound what really happened. `SentUntilDeliveredHolds` is the action property: a step
writes an entry only if a flush or a reset holds a copy of it or it was not accepted.
`DeliveryRefinement` (`Spec => ImplementsDelivery`) adds `CopiesInv`: whatever a copy of an entry
claims to have been sealed was sealed, late resets included, so what goes out, is relayed or
opened was sealed. Writing maps to `Write`, every other write of an entry to `Keep` or a
stutter, `PeerOpen` to `Open`, `HandleDelivered` to `LetGo`.

For `OutboxReload`: `ReloadInv` keeps `HandInv`, `WrittenInv` and `FramesInv`, which a crash and a
load respect, and not `CountInv`, which they do not: after a load, a flush begun before may have
in hand what has failed. Added are `RecordsInv` (a record is of a message that was written, and by
itself only that of what the peer has opened is deleted) and `LoadInv` (what a load has read, and
then the open room, lacks no message but those opened or written too late for this load).
`DurableHolds` and `RestoredHolds` follow for any order in which writes settle or fail; both are
of the time since the user last left the room for good.

**InboxProofs**: `TypeCorrect`, `QueueKeptHolds` (of the ciphertexts saved in the queue since the
user last left the room; those deferred in memory only are dropped with their room or key, `HK`
817), `DrainedWhenReadyHolds` (unless `early`) and `SessionOfPresentKeyHolds` (if `clean`).
`KeptWasOpened` says that what is in the transcript, or marked as handled, has left the ratchet,
so that taking it from the queue loses nothing; `ReadyInTurn` that a room which became ready in
turn has a session, and that only a ready room is drained. For the session, `OfPresentKey` follows
one key through the hook: with nothing of an earlier key about, what is in memory, being derived
or being saved is of the present one, and the record, if there is one, is too before anything is
decrypted; `NoKeyBeforeOpen` covers the time before the load ends.

**LocalStoreProofs**: `Inv` is `TypeOK`, `OneKey` (before a logout, and as long as no key
replaced another, a save that has its key has the stored one, and no clean-up is under way),
`MadeIsKey` and `ReadableUntilLogout`. The step that matters is `WriteKey`: that no key was
replaced means that there was none before, and then nothing was encrypted and no save had one.

**PeerKeyProofs**, for `KeyAudit`: `WarningJustifiedHolds`, `PinChangeWarnedHolds` and
`OnRecordHolds`. The invariant adds that every audit under way is about a key the client received,
that a key is pinned once one was (`PinsFollow`), and that the key on file is in the log, or the
registered one, or one of a torn publication (`FiledIsLogged`). The first two theorems are
independent of how audits overlap, since the comparison and the pinning are one step.

For `PeerVerification`: `ConfirmedOnlyHolds`, `VerifiedWasConfirmedHolds` and
`StatusAgreesHolds`. For the first two the invariant adds what each call under way knows: a mark
under way is of a confirmed number, and a refresh that found its key verified found it in a
record, which is of a confirmed key. `StatusAgrees` is about calls that neither overlapped nor
failed; its invariant `InTurn` says that there is one call at a time (`OneAtATime`), that a
refresh under way is about the present key and what it found is so still (`RefreshIsCurrent`),
and that otherwise the screen shows the present key and agrees with the record but for the step
a mark or a reset has made of it (`ScreenIsCurrent`).

**AccountsProofs**: `Inv` is `TypeOK`, `Marks` (a challenge that was used is marked or gone, and
its id is not given out again), `SignedCalls` (a login that waits was signed with the key of
the account it logs in to) and `TokenProvesKey`.

**ChatSessionProofs**: `RefNotAheadHolds`, `AckedIsSpentHolds`, `ReuseNeedsRollbackHolds` and
`Refinement` (`Spec => ImplementsSerialSession`). None of them is inductive. That the lock is held
exactly while one call is inside (`LockHeldInside`) is what the browser guarantees and the model
assumes; it is a part of the invariant and no result. `Durable` is the session the next call under
the lock starts from, the record or a fresh session. The invariant says that everything that may
become the record outside the lock or the session in memory is behind `Durable` (`Behind`), that
the call inside the lock carries `Durable` moved by one operation and after its save the record
itself (`OneFurther`), that what a tab, the transcript or the peer knows as opened is opened in
`Durable` (`OpenedIsSpent`), and that every number that went out lies behind it (`NumbersBehind`).
All four hold until a write outside the lock takes the record back. From them follows that
`Durable` only moves forwards, and only by the save of the one call inside (`DurableMoves`): a
save outside the lock that does not take the record back writes what is there already. The
refinement maps that save to `Seal` or `Open`, `LeaveEncrypt` and the crash of a tab that holds a
sealed message to `Release`, the first save of a derived session to `Derive`, and whatever takes
the record back to `TakeBack`.

Only model-checked: the liveness properties `Settles` and `DeferredIsTried`, since liveness under
fairness and `ENABLED` are out of this prover's reach. The statements that TLC finds violated have
no theorem, of course.

## 5. Not modelled, and why

- Cryptography itself (AES-GCM, HKDF, ECDH, Argon2, JWT), encodings and serialisation: assumed
  to do what they promise. The hash, sorting and formatting of safety numbers and fingerprints
  are pure functions of keys.
- In the outbox: a reset while another one is under way (`Lose` and `CloseRoom` wait for it), and
  the catch around `socket.send` (`HK` 427-444), which an open socket does not reach. The
  back-off of the reconnects and its five attempts: the socket may come back at any time or
  never.
- The promise chain that stands in for the Web Lock where there is none (`HK` 124-129): it
  excludes within one tab only.
- Rate limits: the one of the socket appears as a refused frame, the one of HTTP is a library.
- A logout between the steps of `Outbox`, `ChatSession` and `Inbox`: its deletion of all records
  and of the key is in `LocalStore`.
- Metrics, logging, validation, routing, rendering, configuration: no state that the program
  reads back.

## 6. Plan

Proved so far: every invariant and action property that a run checks and the three refinements.
What is left, in order:

1. That an `OutboxReload` without crashes implements `Delivery` too, and what of `Delivery` a crash
   leaves: a message that was on disk.
2. A composition of `Outbox`, `Relay` and the peer's `Inbox` that implements `Delivery`, with the
   window and the restart of the relay. The composed state space needs the parts cut down
   further.
3. `ReconnectBackoff` and the rate window, if they carry a property worth having.
