--------------------------- MODULE LocalStoreProofs ---------------------------
(* Proofs about LocalStore, for any tabs, records and bounds.                  *)
EXTENDS LocalStore, TLAPS

\* Until a logout, and as long as no key replaced another, a save that has its key
\* has the stored one, and nothing is about to clear that.
OneKey ==
    outs = 0 /\ ~replaced =>
        /\ clearing = {}
        /\ \A s \in Save : call[s].at = "encrypting" => key # None /\ call[s].key = key

\* What a promise is about to put is a key.
MadeIsKey == \A t \in Tab : promise[t].at = "made" => promise[t].key # None

Inv == TypeOK /\ OneKey /\ MadeIsKey /\ ReadableUntilLogout

CallType == [at : {"idle", "keying", "encrypting"}, key : KeyId \cup {None}]
PromiseType == [at : {"none", "reading", "made"}, key : KeyId \cup {None}]

\* There is no key and no record at the start.
LEMMA InitInv == Init => Inv
<1> SUFFICES ASSUME Init PROVE Inv
  OBVIOUS
<1>1. call \in [Save -> CallType] /\ \A s \in Save : call[s].at = "idle"
  BY DEF Init, Idle, CallType
<1>2. promise \in [Tab -> PromiseType]
  BY DEF Init, NoPromise, PromiseType
<1>3. TypeOK
  <2>1. made \in 0 .. MaxKeys /\ outs \in 0 .. MaxOuts
    BY BoundsAssumption DEF Init
  <2>2. key \in KeyId \cup {None} /\ records \in [Record -> KeyId \cup {None}]
    BY DEF Init
  <2>3. user \in [Tab -> BOOLEAN] /\ token \in BOOLEAN /\ replaced \in BOOLEAN
        /\ clearing \subseteq Tab
    BY DEF Init
  <2> QED
    BY <1>1, <1>2, <2>1, <2>2, <2>3 DEF TypeOK, CallType, PromiseType
<1>4. MadeIsKey
  BY DEF Init, NoPromise, MadeIsKey
<1> QED
  BY <1>1, <1>3, <1>4 DEF Init, Inv, OneKey, ReadableUntilLogout, Readable

\* Asking for the key makes a promise that is pending.
LEMMA AskingPends ==
    ASSUME Inv, NEW t \in Tab
    PROVE  /\ Asking(t) \in [Tab -> PromiseType] /\ Asking(t)[t].at # "none"
           /\ \A u \in Tab : promise[u].at # "none" => Asking(t)[u].at # "none"
           /\ \A u \in Tab : Asking(t)[u].at = "made" => Asking(t)[u] = promise[u]
<1> DEFINE new == [at |-> "reading", key |-> None]
<1>1. new \in PromiseType /\ new.at = "reading"
  BY DEF PromiseType
<1>2. promise \in [Tab -> PromiseType]
  BY DEF Inv, TypeOK, PromiseType
<1> HIDE DEF new
<1>3. Asking(t) = [promise EXCEPT ![t] = IF MustAsk(t) THEN new ELSE @]
  BY DEF Asking, new
<1> QED
  BY <1>1, <1>2, <1>3 DEF MustAsk

\* Resolving a promise leaves no call of the tab waiting.
LEMMA ServedTypes ==
    ASSUME Inv, NEW t \in Tab, NEW k \in KeyId
    PROVE  /\ Served(t, k) \in [Save -> CallType]
           /\ \A s \in Save : Served(t, k)[s].at = "keying"
                                 => s[1] # t /\ call[s].at = "keying"
           /\ \A s \in Save : Served(t, k)[s].at = "encrypting"
                                 => \/ Served(t, k)[s].key = k
                                    \/ /\ call[s].at = "encrypting"
                                       /\ Served(t, k)[s].key = call[s].key
<1> DEFINE new == [at |-> "encrypting", key |-> k]
<1>1. new \in CallType /\ new.at = "encrypting" /\ new.key = k
  BY DEF CallType
<1>2. call \in [Save -> CallType]
  BY DEF Inv, TypeOK, CallType
<1> HIDE DEF new
<1>3. Served(t, k) = [s \in Save |-> IF s[1] = t /\ call[s].at = "keying" THEN new
                                     ELSE call[s]]
  BY DEF Served, new
<1>4. Served(t, k) \in [Save -> CallType]
  BY <1>1, <1>2, <1>3
<1>5. \A s \in Save : Served(t, k)[s] = IF s[1] = t /\ call[s].at = "keying" THEN new
                                        ELSE call[s]
  BY <1>3
<1>6. \A s \in Save : Served(t, k)[s].at = "keying" => s[1] # t /\ call[s].at = "keying"
  BY <1>1, <1>5
<1>7. \A s \in Save : Served(t, k)[s].at = "encrypting"
                       => \/ Served(t, k)[s].key = k
                          \/ /\ call[s].at = "encrypting"
                             /\ Served(t, k)[s].key = call[s].key
  BY <1>1, <1>5
<1> QED
  BY <1>4, <1>6, <1>7

\* Saves and loads begin; a save waits for a promise that is pending.
LEMMA StartKeeps ==
    ASSUME Inv, NEW t \in Tab,
           StartLoad(t) \/ \E r \in Record : StartSave(t, r)
    PROVE  Inv'
<1>1. /\ promise' = Asking(t)
      /\ UNCHANGED <<key, records, token, user, clearing, made, outs, replaced>>
  <2>1. CASE StartLoad(t)
    BY <2>1 DEF StartLoad
  <2>2. ASSUME NEW r \in Record, StartSave(t, r) PROVE <1>1!1 /\ <1>1!2
    BY <2>2 DEF StartSave
  <2> QED
    BY <2>1, <2>2
<1>2. call \in [Save -> CallType]
  BY DEF Inv, TypeOK, CallType
<1>3. /\ call' \in [Save -> CallType]
      /\ \A s \in Save : \/ call'[s] = call[s]
                         \/ s[1] = t /\ call'[s].at = "keying"
  <2>1. CASE StartLoad(t)
    BY <2>1, <1>2 DEF StartLoad
  <2>2. ASSUME NEW r \in Record, StartSave(t, r) PROVE <1>3!1 /\ <1>3!2
    <3> DEFINE new == [call[<<t, r>>] EXCEPT !.at = "keying"]
    <3>1. <<t, r>> \in Save
      BY DEF Save
    <3>2. new \in CallType /\ new.at = "keying"
      BY <3>1, <1>2 DEF CallType
    <3>3. call' = [call EXCEPT ![<<t, r>>] = new]
      BY <2>2, <3>1, <1>2 DEF StartSave
    <3> HIDE DEF new
    <3> QED
      BY <3>1, <3>2, <3>3, <1>2
  <2> QED
    BY <2>1, <2>2
<1>4. /\ promise' \in [Tab -> PromiseType] /\ promise'[t].at # "none"
      /\ \A u \in Tab : promise[u].at # "none" => promise'[u].at # "none"
      /\ \A u \in Tab : promise'[u].at = "made" => promise'[u] = promise[u]
  BY <1>1, AskingPends
<1>5. \A s \in Save : call'[s].at = "keying" => promise'[s[1]].at # "none"
  <2> SUFFICES ASSUME NEW s \in Save, call'[s].at = "keying"
               PROVE  promise'[s[1]].at # "none"
    OBVIOUS
  <2>1. s[1] \in Tab
    BY DEF Save
  <2> QED
    BY <2>1, <1>3, <1>4 DEF Inv, TypeOK
<1>6. TypeOK'
  BY <1>1, <1>3, <1>4, <1>5 DEF Inv, TypeOK, CallType, PromiseType
<1>7. OneKey'
  BY <1>1, <1>3 DEF Inv, OneKey
<1>8. MadeIsKey'
  BY <1>4 DEF Inv, MadeIsKey
<1> QED
  BY <1>1, <1>6, <1>7, <1>8 DEF Inv, ReadableUntilLogout, Readable

\* The key is read, or one is generated.
LEMMA ReadKeyKeeps == ASSUME Inv, NEW t \in Tab, ReadKey(t) PROVE Inv'
<1>1. UNCHANGED <<key, records, token, user, clearing, outs, replaced>>
  BY DEF ReadKey
<1>2. promise \in [Tab -> PromiseType] /\ call \in [Save -> CallType]
  BY DEF Inv, TypeOK, PromiseType, CallType
<1>3. \A s \in Save : s[1] \in Tab
  BY DEF Save
<1>4. CASE key # None
  <2>1. key \in KeyId
    BY <1>4 DEF Inv, TypeOK
  <2>2. promise' = [promise EXCEPT ![t] = NoPromise] /\ call' = Served(t, key)
        /\ made' = made
    BY <1>4 DEF ReadKey
  <2>3. NoPromise \in PromiseType /\ NoPromise.at = "none"
    BY DEF NoPromise, PromiseType
  <2>4. /\ promise' \in [Tab -> PromiseType]
        /\ \A u \in Tab : u # t => promise'[u] = promise[u]
        /\ promise'[t].at = "none"
    BY <1>2, <2>2, <2>3
  <2>5. /\ call' \in [Save -> CallType]
        /\ \A s \in Save : call'[s].at = "keying" => s[1] # t /\ call[s].at = "keying"
        /\ \A s \in Save : call'[s].at = "encrypting"
              => \/ call'[s].key = key
                 \/ call[s].at = "encrypting" /\ call'[s].key = call[s].key
    BY <2>1, <2>2, ServedTypes
  <2>6. TypeOK'
    <3>1. \A s \in Save : call'[s].at = "keying" => promise'[s[1]].at # "none"
      BY <1>3, <2>4, <2>5 DEF Inv, TypeOK
    <3>2. /\ key' \in KeyId \cup {None} /\ records' \in [Record -> KeyId \cup {None}]
          /\ token' \in BOOLEAN /\ user' \in [Tab -> BOOLEAN] /\ clearing' \subseteq Tab
          /\ made' \in 0 .. MaxKeys /\ outs' \in 0 .. MaxOuts /\ replaced' \in BOOLEAN
      BY <1>1, <2>2 DEF Inv, TypeOK
    <3> QED
      BY <2>4, <2>5, <3>1, <3>2 DEF TypeOK, PromiseType, CallType
  <2>7. OneKey'
    BY <1>1, <1>4, <2>5 DEF Inv, OneKey
  <2>8. MadeIsKey'
    BY <2>4 DEF Inv, MadeIsKey
  <2> QED
    BY <1>1, <2>6, <2>7, <2>8 DEF Inv, ReadableUntilLogout, Readable
<1>5. CASE key = None
  <2> DEFINE new == [at |-> "made", key |-> made + 1]
  <2>1. made \in 0 .. MaxKeys /\ MaxKeys \in Nat /\ made < MaxKeys
    BY <1>5, BoundsAssumption DEF ReadKey, Inv, TypeOK
  <2>2. made + 1 \in KeyId /\ made + 1 \in 0 .. MaxKeys
    BY <2>1 DEF KeyId
  <2>3. new \in PromiseType /\ new.at = "made" /\ new.key # None
    BY <2>2, NoKeyAssumption DEF PromiseType, KeyId
  <2>4. /\ made' = made + 1 /\ promise' = [promise EXCEPT ![t] = new]
        /\ call' = call
    BY <1>5 DEF ReadKey
  <2> HIDE DEF new
  <2>5. /\ promise' \in [Tab -> PromiseType]
        /\ \A u \in Tab : promise[u].at # "none" => promise'[u].at # "none"
        /\ \A u \in Tab : promise'[u] = promise[u] \/ promise'[u] = new
    BY <1>2, <2>3, <2>4
  <2>6. TypeOK'
    <3>1. \A s \in Save : call'[s].at = "keying" => promise'[s[1]].at # "none"
      BY <1>3, <2>4, <2>5 DEF Inv, TypeOK
    <3>2. /\ key' \in KeyId \cup {None} /\ records' \in [Record -> KeyId \cup {None}]
          /\ token' \in BOOLEAN /\ user' \in [Tab -> BOOLEAN] /\ clearing' \subseteq Tab
          /\ outs' \in 0 .. MaxOuts /\ replaced' \in BOOLEAN
          /\ call' \in [Save -> CallType]
      BY <1>1, <1>2, <2>4 DEF Inv, TypeOK
    <3>3. made' \in 0 .. MaxKeys
      BY <2>2, <2>4
    <3> QED
      BY <2>5, <3>1, <3>2, <3>3 DEF TypeOK, PromiseType, CallType
  <2>7. MadeIsKey'
    BY <2>3, <2>5 DEF Inv, MadeIsKey
  <2> QED
    BY <1>1, <2>4, <2>6, <2>7 DEF Inv, OneKey, ReadableUntilLogout, Readable
<1> QED
  BY <1>4, <1>5

\* The generated key is put: with none there before, nothing was encrypted yet.
LEMMA WriteKeyKeeps == ASSUME Inv, NEW t \in Tab, WriteKey(t) PROVE Inv'
<1> DEFINE k == promise[t].key
<1>1. /\ key' = k /\ replaced' = (replaced \/ key # None) /\ call' = Served(t, k)
      /\ promise' = [promise EXCEPT ![t] = NoPromise]
      /\ promise[t].at = "made"
      /\ UNCHANGED <<records, token, user, clearing, made, outs>>
  BY DEF WriteKey
<1>2. promise \in [Tab -> PromiseType] /\ call \in [Save -> CallType]
  BY DEF Inv, TypeOK, PromiseType, CallType
<1>3. k \in KeyId /\ k # None
  <2>1. promise[t] \in PromiseType
    BY <1>2
  <2> QED
    BY <2>1, <1>1 DEF Inv, MadeIsKey, PromiseType
<1> HIDE DEF k
<1>4. NoPromise \in PromiseType /\ NoPromise.at = "none"
  BY DEF NoPromise, PromiseType
<1>5. /\ promise' \in [Tab -> PromiseType]
      /\ \A u \in Tab : u # t => promise'[u] = promise[u]
      /\ promise'[t].at = "none"
  BY <1>1, <1>2, <1>4
<1>6. /\ call' \in [Save -> CallType]
      /\ \A s \in Save : call'[s].at = "keying" => s[1] # t /\ call[s].at = "keying"
      /\ \A s \in Save : call'[s].at = "encrypting"
            => \/ call'[s].key = k
               \/ call[s].at = "encrypting" /\ call'[s].key = call[s].key
  BY <1>1, <1>3, ServedTypes
<1>7. TypeOK'
  <2>1. \A s \in Save : s[1] \in Tab
    BY DEF Save
  <2>2. replaced' \in BOOLEAN
    BY <1>1 DEF Inv, TypeOK
  <2>3. \A s \in Save : call'[s].at = "keying" => promise'[s[1]].at # "none"
    BY <1>5, <1>6, <2>1 DEF Inv, TypeOK
  <2>4. key' \in KeyId \cup {None}
    BY <1>1, <1>3
  <2>5. /\ records' \in [Record -> KeyId \cup {None}]
        /\ token' \in BOOLEAN /\ user' \in [Tab -> BOOLEAN] /\ clearing' \subseteq Tab
        /\ made' \in 0 .. MaxKeys /\ outs' \in 0 .. MaxOuts
    BY <1>1 DEF Inv, TypeOK
  <2> QED
    BY <1>5, <1>6, <2>2, <2>3, <2>4, <2>5 DEF TypeOK, PromiseType, CallType
<1>8. MadeIsKey'
  BY <1>5 DEF Inv, MadeIsKey
<1>9. ASSUME outs' = 0, ~replaced'
      PROVE  /\ clearing' = {} /\ \A r \in Record : records'[r] = None
             /\ \A s \in Save : call'[s].at = "encrypting" => call'[s].key = k
  <2>1. outs = 0 /\ ~replaced /\ key = None
    BY <1>1, <1>9
  <2>2. clearing = {} /\ \A s \in Save : call[s].at # "encrypting"
    BY <2>1 DEF Inv, OneKey
  <2>3. \A r \in Record : records[r] = None
    BY <2>1 DEF Inv, ReadableUntilLogout, Readable
  <2> QED
    BY <1>1, <1>6, <2>2, <2>3
<1>10. OneKey'
  BY <1>1, <1>3, <1>9 DEF OneKey
<1>11. ReadableUntilLogout'
  BY <1>9 DEF ReadableUntilLogout, Readable
<1> QED
  BY <1>7, <1>8, <1>10, <1>11 DEF Inv

\* A record is written under the key of its call, or deleted.
LEMMA RecordKeeps ==
    ASSUME Inv,
           \/ \E s \in Save : Put(s)
           \/ \E t \in Tab, r \in Record : Delete(t, r)
    PROVE  Inv'
<1>1. ASSUME NEW s \in Save, Put(s) PROVE Inv'
  <2>1. /\ call[s].at = "encrypting"
        /\ records' = [records EXCEPT ![s[2]] = call[s].key]
        /\ call' = [call EXCEPT ![s] = Idle]
        /\ UNCHANGED <<key, promise, token, user, clearing, made, outs, replaced>>
    BY <1>1 DEF Put
  <2>2. call \in [Save -> CallType] /\ records \in [Record -> KeyId \cup {None}]
    BY DEF Inv, TypeOK, CallType
  <2>3. Idle \in CallType /\ Idle.at = "idle"
    BY DEF Idle, CallType
  <2>4. s[2] \in Record /\ call[s].key \in KeyId \cup {None}
    <3>1. call[s] \in CallType
      BY <2>2
    <3> QED
      BY <3>1 DEF CallType, Save
  <2>5. call' \in [Save -> CallType]
        /\ \A w \in Save : call'[w] = call[w] \/ call'[w].at = "idle"
    BY <2>1, <2>2, <2>3
  <2>6. records' \in [Record -> KeyId \cup {None}]
        /\ \A r \in Record : records'[r] = records[r] \/ records'[r] = call[s].key
    BY <2>1, <2>2, <2>4
  <2>7. TypeOK'
    BY <2>1, <2>5, <2>6 DEF Inv, TypeOK, CallType
  <2>8. OneKey'
    BY <2>1, <2>5 DEF Inv, OneKey
  <2>9. ReadableUntilLogout'
    BY <2>1, <2>6 DEF Inv, OneKey, ReadableUntilLogout, Readable
  <2> QED
    BY <2>1, <2>7, <2>8, <2>9 DEF Inv, MadeIsKey
<1>2. ASSUME NEW t \in Tab, NEW r \in Record, Delete(t, r) PROVE Inv'
  <2>1. /\ records' = [records EXCEPT ![r] = None]
        /\ UNCHANGED <<key, promise, call, token, user, clearing, made, outs, replaced>>
    BY <1>2 DEF Delete
  <2>2. records' \in [Record -> KeyId \cup {None}]
        /\ \A q \in Record : records'[q] = records[q] \/ records'[q] = None
    BY <2>1 DEF Inv, TypeOK
  <2>3. TypeOK'
    BY <2>1, <2>2 DEF Inv, TypeOK
  <2> QED
    BY <2>1, <2>2, <2>3 DEF Inv, OneKey, MadeIsKey, ReadableUntilLogout, Readable
<1> QED
  BY <1>1, <1>2

\* A logout counts: nothing is promised after it.
LEMMA LogoutKeeps == ASSUME Inv, NEW t \in Tab, Logout(t) PROVE Inv'
<1>1. /\ outs' = outs + 1 /\ outs < MaxOuts /\ token' = FALSE
      /\ user' = [user EXCEPT ![t] = FALSE] /\ clearing' = clearing \cup {t}
      /\ UNCHANGED <<key, records, made, replaced>>
      /\ \/ /\ call' = [call EXCEPT ![<<t, Session>>].at = "keying"]
            /\ promise' = Asking(t)
         \/ UNCHANGED <<call, promise>>
  BY DEF Logout
<1>2. outs' \in 0 .. MaxOuts /\ outs' # 0
  BY <1>1, BoundsAssumption DEF Inv, TypeOK
<1>3. call \in [Save -> CallType] /\ promise \in [Tab -> PromiseType]
  BY DEF Inv, TypeOK, CallType, PromiseType
<1>4. /\ call' \in [Save -> CallType] /\ promise' \in [Tab -> PromiseType]
      /\ \A s \in Save : call'[s].at = "keying" => promise'[s[1]].at # "none"
      /\ \A u \in Tab : promise'[u].at = "made" => promise'[u] = promise[u]
  <2>1. CASE UNCHANGED <<call, promise>>
    BY <2>1, <1>3 DEF Inv, TypeOK
  <2>2. CASE /\ call' = [call EXCEPT ![<<t, Session>>].at = "keying"]
             /\ promise' = Asking(t)
    <3> DEFINE new == [call[<<t, Session>>] EXCEPT !.at = "keying"]
    <3>1. <<t, Session>> \in Save
      BY BoundsAssumption DEF Save
    <3>2. new \in CallType
      BY <3>1, <1>3 DEF CallType
    <3>3. call' = [call EXCEPT ![<<t, Session>>] = new]
      BY <2>2, <3>1, <1>3
    <3> HIDE DEF new
    <3>4. call' \in [Save -> CallType]
          /\ \A s \in Save : call'[s] = call[s] \/ s[1] = t
      BY <3>1, <3>2, <3>3, <1>3
    <3>5. /\ promise' \in [Tab -> PromiseType] /\ promise'[t].at # "none"
          /\ \A u \in Tab : promise[u].at # "none" => promise'[u].at # "none"
          /\ \A u \in Tab : promise'[u].at = "made" => promise'[u] = promise[u]
      BY <2>2, AskingPends
    <3>6. \A s \in Save : s[1] \in Tab
      BY DEF Save
    <3> QED
      BY <3>4, <3>5, <3>6 DEF Inv, TypeOK
  <2> QED
    BY <1>1, <2>1, <2>2
<1>5. user' \in [Tab -> BOOLEAN]
  BY <1>1 DEF Inv, TypeOK
<1>6. TypeOK'
  BY <1>1, <1>2, <1>4, <1>5 DEF Inv, TypeOK, CallType, PromiseType
<1>7. MadeIsKey'
  BY <1>4 DEF Inv, MadeIsKey
<1> QED
  BY <1>2, <1>6, <1>7 DEF Inv, OneKey, ReadableUntilLogout

\* The clean-up comes only after a logout; logging in changes no record.
LEMMA ClearKeeps == ASSUME Inv, NEW t \in Tab, Clear(t) \/ Login(t) PROVE Inv'
<1>1. CASE Clear(t)
  <2>1. /\ t \in clearing /\ clearing' = clearing \ {t} /\ key' = None
        /\ records' = [r \in Record |-> None]
        /\ UNCHANGED <<promise, call, token, user, made, outs, replaced>>
    BY <1>1 DEF Clear
  <2>2. ~(outs = 0 /\ ~replaced)
    BY <2>1 DEF Inv, OneKey
  <2>3. TypeOK'
    BY <2>1 DEF Inv, TypeOK
  <2> QED
    BY <2>1, <2>2, <2>3 DEF Inv, OneKey, MadeIsKey, ReadableUntilLogout
<1>2. CASE Login(t)
  <2>1. /\ token' = TRUE /\ user' = [user EXCEPT ![t] = TRUE]
        /\ UNCHANGED <<key, records, promise, call, clearing, made, outs, replaced>>
    BY <1>2 DEF Login
  <2>2. TypeOK'
    BY <2>1 DEF Inv, TypeOK
  <2> QED
    BY <2>1, <2>2 DEF Inv, OneKey, MadeIsKey, ReadableUntilLogout, Readable
<1> QED
  BY <1>1, <1>2

\* A reload drops the calls of its tab and leaves the database.
LEMMA ReloadKeeps == ASSUME Inv, NEW t \in Tab, Reload(t) PROVE Inv'
<1>1. /\ promise' = [promise EXCEPT ![t] = NoPromise]
      /\ call' = [s \in Save |-> IF s[1] = t THEN Idle ELSE call[s]]
      /\ clearing' = clearing \ {t} /\ user' = [user EXCEPT ![t] = token]
      /\ UNCHANGED <<key, records, token, made, outs, replaced>>
  BY DEF Reload
<1>2. promise \in [Tab -> PromiseType] /\ call \in [Save -> CallType]
  BY DEF Inv, TypeOK, PromiseType, CallType
<1>3. NoPromise \in PromiseType /\ NoPromise.at = "none" /\ Idle \in CallType
      /\ Idle.at = "idle"
  BY DEF NoPromise, PromiseType, Idle, CallType
<1>4. promise' \in [Tab -> PromiseType]
      /\ \A u \in Tab : promise'[u] = promise[u] \/ (u = t /\ promise'[u].at = "none")
  BY <1>1, <1>2, <1>3
<1>5. call' \in [Save -> CallType]
      /\ \A s \in Save : \/ s[1] # t /\ call'[s] = call[s]
                         \/ call'[s].at = "idle"
  BY <1>1, <1>2, <1>3
<1>6. \A s \in Save : call'[s].at = "keying" => promise'[s[1]].at # "none"
  <2>1. \A s \in Save : s[1] \in Tab
    BY DEF Save
  <2> QED
    BY <2>1, <1>4, <1>5 DEF Inv, TypeOK
<1>7. user' \in [Tab -> BOOLEAN]
  BY <1>1 DEF Inv, TypeOK
<1>8. TypeOK'
  BY <1>1, <1>4, <1>5, <1>6, <1>7 DEF Inv, TypeOK, CallType, PromiseType
<1>9. OneKey'
  BY <1>1, <1>5 DEF Inv, OneKey
<1>10. MadeIsKey'
  BY <1>4 DEF Inv, MadeIsKey
<1> QED
  BY <1>1, <1>8, <1>9, <1>10 DEF Inv, ReadableUntilLogout, Readable

LEMMA NextInv == Inv /\ [Next]_vars => Inv'
<1> SUFFICES ASSUME Inv, [Next]_vars PROVE Inv'
  OBVIOUS
<1>1. ASSUME NEW t \in Tab, StartLoad(t) \/ \E r \in Record : StartSave(t, r) PROVE Inv'
  BY <1>1, StartKeeps
<1>2. ASSUME NEW t \in Tab, ReadKey(t) \/ WriteKey(t) PROVE Inv'
  BY <1>2, ReadKeyKeeps, WriteKeyKeeps
<1>3. ASSUME \/ \E s \in Save : Put(s)
             \/ \E t \in Tab, r \in Record : Delete(t, r)
      PROVE  Inv'
  BY <1>3, RecordKeeps
<1>4. ASSUME NEW t \in Tab, Logout(t) \/ Clear(t) \/ Login(t) \/ Reload(t) PROVE Inv'
  BY <1>4, LogoutKeeps, ClearKeeps, ReloadKeeps
<1>5. CASE UNCHANGED vars
  <2>1. TypeOK'
    BY <1>5 DEF vars, Inv, TypeOK
  <2>2. OneKey' /\ MadeIsKey'
    BY <1>5 DEF vars, Inv, OneKey, MadeIsKey
  <2> QED
    BY <1>5, <2>1, <2>2 DEF vars, Inv, ReadableUntilLogout, Readable
<1> QED
  BY <1>1, <1>2, <1>3, <1>4, <1>5 DEF Next

LEMMA InvHolds == Spec => []Inv
  BY InitInv, NextInv, PTL DEF Spec

\* The variables keep their types, and a call that waits for the key waits for a
\* promise that is pending (persistenceKeyPromises).
THEOREM TypeCorrect == Spec => []TypeOK
  BY InvHolds, PTL DEF Inv

\* Until a logout, every record can be decrypted with the stored key, over any number
\* of tabs and reloads, unless two tabs made a key at once.
THEOREM ReadableUntilLogoutHolds == Spec => []ReadableUntilLogout
  BY InvHolds, PTL DEF Inv
=============================================================================
