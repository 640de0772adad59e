------------------------------ MODULE LocalStore ------------------------------
(***************************************************************************)
(* The encrypted records of one user in IndexedDB and the key they are     *)
(* encrypted under, localEncryptedStore.ts, with logging out (App.tsx).    *)
(* The tabs of the browser share the database.  The key is made on first   *)
(* use; a tab waits for one load or creation at a time, whichever call     *)
(* asked for it (persistenceKeyPromises), other tabs know nothing of it.   *)
(***************************************************************************)
EXTENDS Integers

CONSTANTS
    Tab,
    Record,   \* record ids
    Session,  \* the record that closing a room saves
    MaxKeys,  \* bound: keys generated
    MaxOuts,  \* bound: how often the user logs out
    None      \* no key

ASSUME NoKeyAssumption == None \notin Nat
ASSUME BoundsAssumption == Session \in Record /\ MaxKeys \in Nat /\ MaxOuts \in Nat

VARIABLES
    key,      \* the stored key
    records,  \* the key each record is encrypted under
    promise,  \* persistenceKeyPromises of each tab
    call,     \* the saves under way, by tab and record
    token,    \* localStorage: the token of the login
    user,     \* of each tab: is the user logged in?
    clearing, \* tabs whose clearAllLocalChatState has not settled
    made,     \* how many keys were generated
    outs,     \* how often the user logged out
    replaced  \* history: a generated key was put over another one

vars == <<key, records, promise, call, token, user, clearing, made, outs, replaced>>

KeyId == 1 .. MaxKeys
Save == Tab \X Record

Idle == [at |-> "idle", key |-> None]
NoPromise == [at |-> "none", key |-> None]

Init ==
    /\ key = None
    /\ records = [r \in Record |-> None]
    /\ promise = [t \in Tab |-> NoPromise]
    /\ call = [s \in Save |-> Idle]
    /\ token = TRUE /\ user = [t \in Tab |-> TRUE]
    /\ clearing = {}
    /\ made = 0 /\ outs = 0 /\ replaced = FALSE

\* getPersistenceKey: a new promise, unless one is pending.
MustAsk(t) == promise[t].at = "none"

Asking(t) == [promise EXCEPT ![t] = IF MustAsk(t) THEN [at |-> "reading", key |-> None]
                                    ELSE @]

\* A save begins: encryptPayload waits for the key.
StartSave(t, r) ==
    /\ user[t] /\ call[<<t, r>>].at = "idle"
    /\ call' = [call EXCEPT ![<<t, r>>].at = "keying"]
    /\ promise' = Asking(t)
    /\ UNCHANGED <<key, records, token, user, clearing, made, outs, replaced>>

\* loadRatchetSession and the like: decryptPayload asks for the key of a record that
\* is there, and makes one if there is none.
StartLoad(t) ==
    /\ user[t] /\ MustAsk(t)
    /\ \E r \in Record : records[r] # None
    /\ promise' = Asking(t)
    /\ UNCHANGED <<key, records, call, token, user, clearing, made, outs, replaced>>

\* The promise resolves: the calls of the tab that wait have the key.
Served(t, k) ==
    [s \in Save |-> IF s[1] = t /\ call[s].at = "keying"
                    THEN [at |-> "encrypting", key |-> k] ELSE call[s]]

\* Fault: the generated key is used before it is stored.
FaultyReadKey(t) ==
    /\ promise[t].at = "reading"
    /\ IF key # None
       THEN /\ promise' = [promise EXCEPT ![t] = NoPromise]
            /\ call' = Served(t, key)
            /\ UNCHANGED made
       ELSE /\ made < MaxKeys
            /\ made' = made + 1
            /\ promise' = [promise EXCEPT ![t] = [at |-> "made", key |-> made + 1]]
            /\ call' = Served(t, made + 1)
    /\ UNCHANGED <<key, records, token, user, clearing, outs, replaced>>

\* loadOrCreatePersistenceKey: the key is there, or one is generated.
ReadKey(t) ==
    /\ promise[t].at = "reading"
    /\ IF key # None
       THEN /\ promise' = [promise EXCEPT ![t] = NoPromise]
            /\ call' = Served(t, key)
            /\ UNCHANGED made
       ELSE /\ made < MaxKeys
            /\ made' = made + 1
            /\ promise' = [promise EXCEPT ![t] = [at |-> "made", key |-> made + 1]]
            /\ UNCHANGED call
    /\ UNCHANGED <<key, records, token, user, clearing, outs, replaced>>

\* The generated key is put, over whatever is there.
WriteKey(t) ==
    /\ promise[t].at = "made"
    /\ key' = promise[t].key
    /\ replaced' = (replaced \/ key # None)
    /\ call' = Served(t, promise[t].key)
    /\ promise' = [promise EXCEPT ![t] = NoPromise]
    /\ UNCHANGED <<records, token, user, clearing, made, outs>>

\* putRecord
Put(s) ==
    /\ call[s].at = "encrypting"
    /\ records' = [records EXCEPT ![s[2]] = call[s].key]
    /\ call' = [call EXCEPT ![s] = Idle]
    /\ UNCHANGED <<key, promise, token, user, clearing, made, outs, replaced>>

\* deleteOutboxEntry and the like
Delete(t, r) ==
    /\ user[t] /\ records[r] # None
    /\ records' = [records EXCEPT ![r] = None]
    /\ UNCHANGED <<key, promise, call, token, user, clearing, made, outs, replaced>>

\* logout: clearAllLocalChatState is not awaited, and the chat is unmounted, which
\* saves the session.
Logout(t) ==
    /\ user[t] /\ outs < MaxOuts
    /\ outs' = outs + 1
    /\ token' = FALSE /\ user' = [user EXCEPT ![t] = FALSE]
    /\ clearing' = clearing \cup {t}
    /\ \/ /\ call[<<t, Session>>].at = "idle"
          /\ call' = [call EXCEPT ![<<t, Session>>].at = "keying"]
          /\ promise' = Asking(t)
       \/ UNCHANGED <<call, promise>>
    /\ UNCHANGED <<key, records, made, replaced>>

\* The transaction over keys and records.
Clear(t) ==
    /\ t \in clearing
    /\ clearing' = clearing \ {t}
    /\ key' = None
    /\ records' = [r \in Record |-> None]
    /\ UNCHANGED <<promise, call, token, user, made, outs, replaced>>

Login(t) ==
    /\ ~user[t]
    /\ token' = TRUE /\ user' = [user EXCEPT ![t] = TRUE]
    /\ UNCHANGED <<key, records, promise, call, clearing, made, outs, replaced>>

\* The tab is reloaded (restoreStoredUser), or closed and opened again.
Reload(t) ==
    /\ promise' = [promise EXCEPT ![t] = NoPromise]
    /\ call' = [s \in Save |-> IF s[1] = t THEN Idle ELSE call[s]]
    /\ clearing' = clearing \ {t}
    /\ user' = [user EXCEPT ![t] = token]
    /\ UNCHANGED <<key, records, token, made, outs, replaced>>

Next ==
    \/ \E t \in Tab, r \in Record : StartSave(t, r) \/ Delete(t, r)
    \/ \E t \in Tab : StartLoad(t) \/ ReadKey(t) \/ WriteKey(t)
    \/ \E s \in Save : Put(s)
    \/ \E t \in Tab : Logout(t) \/ Clear(t) \/ Login(t) \/ Reload(t)

Spec == Init /\ [][Next]_vars

-----------------------------------------------------------------------------
(* Properties                                                              *)

\* The types; a call that waits for the key waits for a promise that is pending.
TypeOK ==
    /\ key \in KeyId \cup {None}
    /\ records \in [Record -> KeyId \cup {None}]
    /\ promise \in [Tab -> [at : {"none", "reading", "made"}, key : KeyId \cup {None}]]
    /\ call \in [Save -> [at : {"idle", "keying", "encrypting"}, key : KeyId \cup {None}]]
    /\ \A s \in Save : call[s].at = "keying" => promise[s[1]].at # "none"
    /\ token \in BOOLEAN /\ user \in [Tab -> BOOLEAN]
    /\ clearing \subseteq Tab
    /\ made \in 0 .. MaxKeys /\ outs \in 0 .. MaxOuts /\ replaced \in BOOLEAN

\* Every record can be decrypted with the stored key.
Readable == \A r \in Record : records[r] # None => records[r] = key

\* Within a login no record is lost to a second key, however the saves of the tabs
\* overlap while the key is made and wherever in between they are reloaded, as long
\* as two tabs do not make a key at once, the later one over the earlier.
ReadableUntilLogout == outs = 0 /\ ~replaced => Readable
=============================================================================
