------------------------------- MODULE Accounts -------------------------------
(***************************************************************************)
(* Registration and login, authService.js: a challenge is issued, signed   *)
(* with the key of the device, used up, and exchanged for a token once the *)
(* password has been hashed or checked.  Argon2 runs off the event loop:   *)
(* between the checks of a request and the row or the token it leads to,   *)
(* other requests run.  The rows are in SQLite and survive a restart.      *)
(***************************************************************************)
EXTENDS Integers, FiniteSets

CONSTANTS
    Name,    \* usernames
    Key,     \* authentication keys, each held by one device
    Ttl,     \* CHALLENGE_TTL_MS
    MaxId,   \* bound: challenges issued
    MaxTime, \* bound: the clock stops here
    None     \* no account

ASSUME NoAccountAssumption == None \notin Key
ASSUME BoundsAssumption == Ttl \in Nat /\ MaxId \in Nat /\ MaxTime \in Nat

VARIABLES
    users,      \* the key of each account, by name
    challenges, \* rows of auth_challenges
    issued,     \* how many challenges were created: the ids given out
    calls,      \* requests whose challenge is used and that wait for Argon2
    now,
    spent,      \* history: how often each challenge was used
    tokens      \* history: the tokens given out and who signed for them

vars == <<users, challenges, issued, calls, now, spent, tokens>>

Purpose == {"register", "login"}
Id == 1 .. MaxId
Challenge == [id : Id, name : Name, purpose : Purpose, key : Key,
              expires : 0 .. MaxTime + Ttl, used : BOOLEAN]
Call == [id : Id, name : Name, purpose : Purpose, signer : Key]

Init ==
    /\ users = [n \in Name |-> None]
    /\ challenges = {} /\ issued = 0
    /\ calls = {}
    /\ now = 0
    /\ spent = [i \in Id |-> 0]
    /\ tokens = {}

Unexpired == {c \in challenges : c.expires >= now}

MayIssue(name, purpose) == (users[name] = None) = (purpose = "register")

KeyOnFile(name, purpose, k) == IF purpose = "register" THEN k ELSE users[name]

\* createChallenge: expired rows go first, whether or not one is added.
CreateChallenge(name, purpose, k) ==
    /\ issued < MaxId
    /\ IF MayIssue(name, purpose)
       THEN /\ challenges' = Unexpired \cup
                    {[id |-> issued + 1, name |-> name, purpose |-> purpose,
                      key |-> KeyOnFile(name, purpose, k),
                      expires |-> now + Ttl, used |-> FALSE]}
            /\ issued' = issued + 1
       ELSE challenges' = Unexpired /\ UNCHANGED issued
    /\ UNCHANGED <<users, calls, now, spent, tokens>>

\* getUsableChallenge
Usable(c, name, purpose) ==
    c.name = name /\ c.purpose = purpose /\ ~c.used /\ c.expires >= now

\* verifyChallengeSignature: only the device that holds a key signs with it.
Verifies(key, signer) == key = signer

\* Fault: the challenge is marked once the request has succeeded.
FaultyMarkUsed(c) == challenges

MarkUsed(c) == (challenges \ {c}) \cup {[c EXCEPT !.used = TRUE]}

Begin(c, purpose, signer) ==
    /\ challenges' = MarkUsed(c)
    /\ calls' = calls \cup {[id |-> c.id, name |-> c.name, purpose |-> purpose,
                             signer |-> signer]}
    /\ spent' = [spent EXCEPT ![c.id] = @ + 1]
    /\ UNCHANGED <<users, issued, now, tokens>>

\* register, up to hashPassword: a device asks for an account with key k.
BeginRegister(c, name, k, signer) ==
    /\ users[name] = None
    /\ Usable(c, name, "register")
    /\ c.key = k /\ Verifies(k, signer)
    /\ Begin(c, "register", signer)

\* login, up to verifyPassword.
BeginLogin(c, name, signer) ==
    /\ users[name] # None
    /\ Usable(c, name, "login")
    /\ Verifies(users[name], signer)
    /\ Begin(c, "login", signer)

Token(call) == [name |-> call.name, signer |-> call.signer]

\* Fault: INSERT OR REPLACE.
FaultyMayInsert(name) == TRUE

\* The UNIQUE constraint on the username.
MayInsert(name) == users[name] = None

\* The password is hashed: the account is created, or its name is taken by now.
FinishRegister(call) ==
    /\ call.purpose = "register"
    /\ calls' = calls \ {call}
    /\ IF MayInsert(call.name)
       THEN /\ users' = [users EXCEPT ![call.name] = call.signer]
            /\ tokens' = tokens \cup {Token(call)}
       ELSE UNCHANGED <<users, tokens>>
    /\ UNCHANGED <<challenges, issued, now, spent>>

\* The password is right or wrong.
FinishLogin(call) ==
    /\ call.purpose = "login"
    /\ calls' = calls \ {call}
    /\ tokens' \in {tokens, tokens \cup {Token(call)}}
    /\ UNCHANGED <<users, challenges, issued, now, spent>>

\* The server stops with requests under way.
Restart ==
    /\ calls # {}
    /\ calls' = {}
    /\ UNCHANGED <<users, challenges, issued, now, spent, tokens>>

Tick ==
    /\ now < MaxTime
    /\ now' = now + 1
    /\ UNCHANGED <<users, challenges, issued, calls, spent, tokens>>

Next ==
    \/ \E n \in Name, p \in Purpose, k \in Key : CreateChallenge(n, p, k)
    \/ \E c \in challenges, n \in Name, k, s \in Key : BeginRegister(c, n, k, s)
    \/ \E c \in challenges, n \in Name, s \in Key : BeginLogin(c, n, s)
    \/ \E call \in calls : FinishRegister(call) \/ FinishLogin(call)
    \/ Restart
    \/ Tick

Spec == Init /\ [][Next]_vars

-----------------------------------------------------------------------------
(* Properties                                                              *)

\* The types of the rows; ids are given out once and a request under way holds a
\* challenge that is marked as used, unless it has expired and was deleted.
TypeOK ==
    /\ users \in [Name -> Key \cup {None}]
    /\ challenges \subseteq Challenge
    /\ issued \in 0 .. MaxId
    /\ \A c, d \in challenges : c.id = d.id => c = d
    /\ \A c \in challenges : c.id <= issued
    /\ calls \subseteq Call
    /\ now \in 0 .. MaxTime
    /\ spent \in [Id -> Nat]
    /\ tokens \subseteq [name : Name, signer : Key]

\* "short-lived, single-use challenge": no challenge is used by two requests,
\* whatever waits for Argon2 or was cut off by a restart in between.
SingleUse == \A i \in Id : spent[i] <= 1

\* Whoever was given a token for a name holds the key of the account of that name:
\* two registrations that race for a name end with one account and one token, and
\* the loser's key opens nothing.
TokenProvesKey == \A t \in tokens : users[t.name] = t.signer
=============================================================================
