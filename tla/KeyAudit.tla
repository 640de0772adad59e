------------------------------- MODULE KeyAudit -------------------------------
(***************************************************************************)
(* The identity key of a peer on its way to a client, and the audit the    *)
(* client makes of it.  In the peer's browser: ensureKeys of crypto.ts and *)
(* publishKey of Login.tsx, over several tabs of one localStorage.  On the *)
(* server: publishKey and getKeyLog of keyService.js, and the key frames   *)
(* of roomHandler.js.  In the client: the public_key frame of              *)
(* useLiveRatchetChat.ts and auditPeerKey of usePeerKeyAudit.ts, which     *)
(* fetches the key log and then compares the key with the pinned one.      *)
(***************************************************************************)
EXTENDS PeerKey, Naturals, Sequences, FiniteSets, Functions

CONSTANTS
    Call,      \* the audits that may be under way at once
    MaxLog,    \* bound: publications
    MaxFrames  \* bound: frames on their way to the client

ASSUME AuditBoundsAssumption == MaxLog \in Nat /\ MaxFrames \in Nat \ {0}

VARIABLES
    stored,    \* ecdh-keys in the localStorage of the peer
    making,    \* the calls of ensureKeys that generate a key, of any tab
    requests,  \* publications on their way to the server
    publicKey, \* the key of the peer on file
    keyLog,    \* the key log of the peer
    toClient,  \* public_key frames on their way to the client
    audit,     \* the calls of auditPeerKey under way
    pinned,    \* peer_key in the localStorage of the client
    warning,   \* the banner is shown
    registered, \* the key the account of the peer was registered with, if any
    torn,      \* history: the keys in whose publication the server stopped
    handed,    \* history: the keys that joins were answered with
    received,  \* history: the keys the client received
    pins,      \* history: the keys that were pinned
    warned,    \* history: the banner was shown
    failed     \* history: a request for the log failed

peerVars == <<stored, making, requests>>
serverVars == <<publicKey, keyLog, registered, torn, handed>>
auditVars == <<audit, pinned, warning, pins, warned, failed>>
vars == <<peerVars, serverVars, auditVars, toClient, received>>

\* Of an audit: the key, and how many entries the log had, None before the answer.
Audit == [key : Key, entries : 0 .. MaxLog \cup {None}]

\* "what" is done with a key once there is one: publish it, after login; show it to
\* the room, when its socket is authenticated.
Making == [key : Key, what : {"publish", "show"}]

\* The account has been registered, with a key on file or without: /auth/register takes
\* one and keeps no log of it.  The client that registered it may be the one that
\* holds it; Login.tsx registers without.
Init ==
    /\ registered \in Key \cup {None} /\ publicKey = registered
    /\ stored \in {None, registered} /\ making = {} /\ requests = {}
    /\ keyLog = <<>> /\ toClient = <<>>
    /\ audit = [i \in Call |-> None]
    /\ pinned = None /\ warning = FALSE
    /\ torn = {} /\ handed = {} /\ received = {} /\ pins = {}
    /\ warned = FALSE /\ failed = FALSE

-----------------------------------------------------------------------------
(* The browser of the peer                                                 *)

\* Key generation: the keys made so far are never made again.
IsNew(k) ==
    k \notin {stored, publicKey, registered} \cup {c.key : c \in making}
             \cup requests \cup Range(toClient) \cup received \cup Range(keyLog) \cup torn

\* Publish it over HTTP, or show it to the room: handlePublicKey passes it on to the
\* socket of the client, if that has joined.
Use(k, what) ==
    \/ /\ what = "publish"
       /\ requests' = requests \cup {k}
       /\ UNCHANGED toClient
    \/ /\ what = "show"
       /\ toClient' = Append(toClient, k) \/ UNCHANGED toClient
       /\ Len(toClient') <= MaxFrames
       /\ UNCHANGED requests

\* ensureKeys finds a key.
EnsureKeys(what) ==
    /\ stored # None
    /\ Use(stored, what)
    /\ UNCHANGED <<stored, making, serverVars, auditVars, received>>

\* ensureKeys finds none and starts to generate one.
StartKeys(k, what) ==
    /\ stored = None /\ IsNew(k)
    /\ making' = making \cup {[key |-> k, what |-> what]}
    /\ UNCHANGED <<stored, requests, serverVars, auditVars, toClient, received>>

\* The key is stored, over one that another tab may have stored meanwhile.
FinishKeys(c) ==
    /\ making' = making \ {c}
    /\ stored' = c.key
    /\ Use(c.key, c.what)
    /\ UNCHANGED <<serverVars, auditVars, received>>

\* The site data of the browser is cleared.
ClearKeys ==
    /\ stored # None
    /\ stored' = None
    /\ UNCHANGED <<making, requests, serverVars, auditVars, toClient, received>>

-----------------------------------------------------------------------------
(* The server                                                              *)

\* Fault: only the first key is entered.
FaultyAppendKeyLog(k) == IF keyLog = <<>> THEN <<k>> ELSE keyLog

\* appendKeyLog
AppendKeyLog(k) == Append(keyLog, k)

\* publishKey: the key on file, then the entry in the log.
PublishKey(k) ==
    /\ k \in requests /\ Len(keyLog) < MaxLog
    /\ requests' = requests \ {k}
    /\ publicKey' = k
    /\ keyLog' = AppendKeyLog(k)
    /\ UNCHANGED <<stored, making, registered, torn, handed, auditVars, toClient,
                   received>>

\* The server stops between the two statements, which are no transaction.
PublishTorn(k) ==
    /\ k \in requests
    /\ requests' = requests \ {k}
    /\ publicKey' = k
    /\ torn' = torn \cup {k}
    /\ UNCHANGED <<stored, making, registered, keyLog, handed, auditVars, toClient,
                   received>>

\* A request that is lost, or refused by the rate limit: nobody looks at the answer.
LoseRequest(k) ==
    /\ k \in requests
    /\ requests' = requests \ {k}
    /\ UNCHANGED <<stored, making, serverVars, auditVars, toClient, received>>

\* handleJoin of the client's socket: what a former socket had not handled is gone.
Join ==
    /\ publicKey # None
    /\ toClient' = <<publicKey>>
    /\ handed' = handed \cup {publicKey}
    /\ UNCHANGED <<peerVars, publicKey, keyLog, registered, torn, auditVars, received>>

-----------------------------------------------------------------------------
(* The client                                                              *)

\* The public_key frame: auditPeerKey is called and not awaited.
HandlePublicKey(i) ==
    /\ toClient # <<>> /\ audit[i] = None
    /\ audit' = [audit EXCEPT ![i] = [key |-> Head(toClient), entries |-> None]]
    /\ received' = received \cup {Head(toClient)}
    /\ toClient' = Tail(toClient)
    /\ UNCHANGED <<peerVars, serverVars, pinned, warning, pins, warned, failed>>

\* getKeyLog
ReadKeyLog(i) ==
    /\ audit[i] # None /\ audit[i].entries = None
    /\ audit' = [audit EXCEPT ![i].entries = Len(keyLog)]
    /\ UNCHANGED <<peerVars, serverVars, toClient, received, pinned, warning, pins,
                   warned, failed>>

\* The request fails or is refused.
AuditFail(i) ==
    /\ audit[i] # None
    /\ audit' = [audit EXCEPT ![i] = None]
    /\ failed' = TRUE
    /\ UNCHANGED <<peerVars, serverVars, toClient, received, pinned, warning, pins, warned>>

HasHistory(a) == a.entries > 1

\* Fault: no pinned key counts as another key.
FaultyDiffersFromNone(k) == pinned # k

\* Fault: a key on record raises no alarm.
FaultyDiffersOffRecord(k) == pinned # None /\ pinned # k /\ k # publicKey

Differs(k) == pinned # None /\ pinned # k

\* A log of one entry ends the audit; a longer one has the key compared with the
\* pinned one and pinned.
AuditDone(i) ==
    LET a == audit[i] IN
    /\ a # None /\ a.entries # None
    /\ warning' = (HasHistory(a) /\ Differs(a.key))
    /\ warned' = (warned \/ warning')
    /\ IF HasHistory(a) THEN pinned' = a.key /\ pins' = pins \cup {a.key}
       ELSE UNCHANGED <<pinned, pins>>
    /\ audit' = [audit EXCEPT ![i] = None]
    /\ UNCHANGED <<peerVars, serverVars, toClient, received, failed>>

\* The user dismisses the banner, or opens a room: audits under way go on.
DropWarning ==
    /\ warning
    /\ warning' = FALSE
    /\ UNCHANGED <<peerVars, serverVars, toClient, received, audit, pinned, pins,
                   warned, failed>>

\* The page is reloaded: what is pinned stays.
Reload ==
    /\ audit' = [i \in Call |-> None]
    /\ warning' = FALSE
    /\ toClient' = <<>>
    /\ failed' = (failed \/ \E i \in Call : audit[i] # None)
    /\ UNCHANGED <<peerVars, serverVars, received, pinned, pins, warned>>

-----------------------------------------------------------------------------

PeerStep ==
    \/ \E what \in {"publish", "show"} :
            EnsureKeys(what) \/ \E k \in Key : StartKeys(k, what)
    \/ \E c \in making : FinishKeys(c)
    \/ ClearKeys

ServerStep ==
    \/ \E k \in Key : PublishKey(k) \/ PublishTorn(k) \/ LoseRequest(k)
    \/ Join

AuditStep ==
    \/ \E i \in Call : ReadKeyLog(i) \/ AuditFail(i) \/ AuditDone(i)
    \/ DropWarning \/ Reload

Next ==
    \/ PeerStep \/ ServerStep \/ AuditStep
    \/ \E i \in Call : HandlePublicKey(i)

Spec == Init /\ [][Next]_vars

-----------------------------------------------------------------------------
(* Properties                                                              *)

\* The types of the variables; every pinned key was received.
TypeOK ==
    /\ stored \in Key \cup {None} /\ publicKey \in Key \cup {None}
    /\ making \subseteq Making
    /\ requests \subseteq Key
    /\ keyLog \in Seq(Key) /\ Len(keyLog) <= MaxLog
    /\ toClient \in Seq(Key) /\ Len(toClient) <= MaxFrames
    /\ audit \in [Call -> Audit \cup {None}]
    /\ pinned \in pins \cup {None} /\ pins \subseteq received
    /\ registered \in Key \cup {None} /\ torn \subseteq Key
    /\ warning \in BOOLEAN /\ warned \in BOOLEAN /\ failed \in BOOLEAN
    /\ handed \subseteq Key /\ received \subseteq Key

Several(keys) == \E k1, k2 \in keys : k1 # k2

\* The banner never cries wolf: it is shown only to a client that received two
\* different keys of the peer, however audits overlap, fail or are repeated.
WarningJustified == warning => Several(received)

\* The pinned key never changes unnoticed: once two keys were pinned, the banner
\* was shown, though audits end in any order.
PinChangeWarned == Several(pins) => warned

\* A key the server answered a join with is in the log, where an audit finds it,
\* however publications race; the exceptions are all of its life off the record: the
\* key the account was registered with and keys in whose publication the server
\* stopped.
OnRecord == handed \subseteq Range(keyLog) \cup torn \cup {registered}

\* What the documents promise of pinning and the code does not keep: a client that
\* received two keys of the peer, and whose audits all succeeded and ended, has shown
\* the banner.
KeyChangeNoticed ==
    ~failed /\ (\A i \in Call : audit[i] = None) /\ Several(received)
        => warned
=============================================================================
