---------------------------- MODULE AccountsProofs ----------------------------
(* Proofs about Accounts, for any names, keys, bounds and lifetime.           *)
EXTENDS Accounts, TLAPS

\* The marks on the challenges count their uses, and an id that was not given out
\* was not used.
Marks ==
    /\ \A c \in challenges : ~c.used => spent[c.id] = 0
    /\ \A i \in Id : i > issued => spent[i] = 0
    /\ SingleUse

\* A login under way was signed with the key of the account, which exists.
SignedCalls ==
    \A call \in calls : call.purpose = "login" => users[call.name] = call.signer

Inv == TypeOK /\ Marks /\ SignedCalls /\ TokenProvesKey

\* Nothing was issued, used or given out at the start.
LEMMA InitInv == Init => Inv
  BY BoundsAssumption
  DEF Init, Inv, TypeOK, Marks, SingleUse, SignedCalls, TokenProvesKey, Id

\* Creating a challenge gives out the next id and touches nothing else.
LEMMA CreateKeeps ==
    ASSUME Inv, NEW n \in Name, NEW p \in Purpose, NEW k \in Key,
           CreateChallenge(n, p, k)
    PROVE  Inv'
<1> USE BoundsAssumption
<1>1. Unexpired \subseteq challenges
  BY DEF Unexpired
<1>2. CASE ~MayIssue(n, p)
  <2>1. challenges' = Unexpired /\ UNCHANGED <<users, calls, now, spent, tokens, issued>>
    BY <1>2 DEF CreateChallenge
  <2>2. TypeOK'
    BY <1>1, <2>1 DEF Inv, TypeOK
  <2>3. Marks'
    BY <1>1, <2>1 DEF Inv, Marks, SingleUse
  <2> QED
    BY <2>1, <2>2, <2>3 DEF Inv, SignedCalls, TokenProvesKey
<1>3. CASE MayIssue(n, p)
  <2> DEFINE new == [id |-> issued + 1, name |-> n, purpose |-> p,
                     key |-> KeyOnFile(n, p, k), expires |-> now + Ttl, used |-> FALSE]
  <2>1. /\ challenges' = Unexpired \cup {new} /\ issued' = issued + 1 /\ issued < MaxId
        /\ UNCHANGED <<users, calls, now, spent, tokens>>
    BY <1>3 DEF CreateChallenge
  <2>2. issued \in Nat /\ issued' \in 0 .. MaxId /\ issued + 1 \in Id
    BY <2>1 DEF Inv, TypeOK, Id
  <2>3. new.id = issued + 1 /\ ~new.used
    OBVIOUS
  <2>4. new \in Challenge
    <3>1. KeyOnFile(n, p, k) \in Key
      BY <1>3 DEF MayIssue, KeyOnFile, Inv, TypeOK, Purpose
    <3>2. now + Ttl \in 0 .. MaxTime + Ttl
      BY DEF Inv, TypeOK
    <3> QED
      BY <3>1, <3>2, <2>2 DEF Challenge
  <2> HIDE DEF new
  <2>5. \A c \in challenges' : c = new \/ (c \in challenges /\ c.id <= issued)
    BY <1>1, <2>1 DEF Inv, TypeOK
  <2>6. TypeOK'
    <3>1. challenges' \subseteq Challenge
      BY <2>4, <2>5 DEF Inv, TypeOK
    <3>2. \A c, d \in challenges' : c.id = d.id => c = d
      BY <2>2, <2>3, <2>5 DEF Inv, TypeOK
    <3>3. \A c \in challenges' : c.id <= issued'
      <4> SUFFICES ASSUME NEW c \in challenges' PROVE c.id <= issued'
        OBVIOUS
      <4>1. c.id \in Int
        BY <3>1 DEF Challenge, Id
      <4> QED
        BY <4>1, <2>1, <2>2, <2>3, <2>5
    <3> QED
      BY <2>1, <2>2, <3>1, <3>2, <3>3 DEF Inv, TypeOK
  <2>7. Marks'
    <3>1. spent[issued + 1] = 0
      BY <2>2 DEF Inv, Marks
    <3>2. \A c \in challenges' : ~c.used => spent'[c.id] = 0
      BY <2>1, <2>3, <2>5, <3>1 DEF Inv, Marks
    <3>3. \A i \in Id : i > issued' => spent'[i] = 0
      BY <2>1, <2>2 DEF Inv, Marks, Id
    <3> QED
      BY <2>1, <3>2, <3>3 DEF Inv, Marks, SingleUse
  <2> QED
    BY <2>1, <2>6, <2>7 DEF Inv, SignedCalls, TokenProvesKey
<1> QED
  BY <1>2, <1>3

\* Using a challenge that is not marked, for a name that it was issued for.
LEMMA BeginKeeps ==
    ASSUME Inv, NEW c \in challenges, NEW p \in Purpose, NEW s \in Key,
           ~c.used, Begin(c, p, s), p = "login" => users[c.name] = s
    PROVE  Inv'
<1> DEFINE new == [id |-> c.id, name |-> c.name, purpose |-> p, signer |-> s]
           marked == [c EXCEPT !.used = TRUE]
<1>1. c \in Challenge
  BY DEF Inv, TypeOK
<1>2. /\ challenges' = (challenges \ {c}) \cup {marked}
      /\ calls' = calls \cup {new}
      /\ spent' = [spent EXCEPT ![c.id] = @ + 1]
      /\ UNCHANGED <<users, issued, now, tokens>>
  BY DEF Begin, MarkUsed
<1>3. new \in Call /\ new.name = c.name /\ new.purpose = p /\ new.signer = s
  BY <1>1 DEF Call, Challenge
<1>4. marked \in Challenge /\ marked.id = c.id /\ marked.used
  BY <1>1 DEF Challenge
<1> HIDE DEF new, marked
<1>5. c.id \in Id /\ c.id <= issued /\ issued \in Nat /\ c.id \in Int
  BY <1>1 DEF Inv, TypeOK, Challenge, Id
<1>6. spent[c.id] = 0 /\ spent \in [Id -> Nat]
  BY DEF Inv, Marks, TypeOK
<1>7. \A d \in challenges' : d = marked \/ (d \in challenges /\ d.id # c.id)
  BY <1>2 DEF Inv, TypeOK
<1>8. spent' \in [Id -> Nat] /\ spent'[c.id] = 1
      /\ \A i \in Id : i # c.id => spent'[i] = spent[i]
  BY <1>2, <1>5, <1>6
<1>9. TypeOK'
  <2>1. challenges' \subseteq Challenge
    BY <1>4, <1>7 DEF Inv, TypeOK
  <2>2. \A d, e \in challenges' : d.id = e.id => d = e
    BY <1>4, <1>7 DEF Inv, TypeOK
  <2>3. \A d \in challenges' : d.id <= issued'
    BY <1>2, <1>4, <1>5, <1>7 DEF Inv, TypeOK
  <2>4. calls' \subseteq Call
    BY <1>2, <1>3 DEF Inv, TypeOK
  <2> QED
    BY <1>2, <1>8, <2>1, <2>2, <2>3, <2>4 DEF Inv, TypeOK
<1>10. Marks'
  <2>1. \A d \in challenges' : ~d.used => spent'[d.id] = 0
    <3> SUFFICES ASSUME NEW d \in challenges', ~d.used PROVE spent'[d.id] = 0
      OBVIOUS
    <3>1. d \in challenges /\ d.id # c.id
      BY <1>4, <1>7
    <3>2. d.id \in Id
      BY <3>1 DEF Inv, TypeOK, Challenge
    <3> QED
      BY <3>1, <3>2, <1>8 DEF Inv, Marks
  <2>2. \A i \in Id : i > issued' => spent'[i] = 0
    <3> SUFFICES ASSUME NEW i \in Id, i > issued PROVE spent'[i] = 0
      BY <1>2
    <3>1. i # c.id
      BY <1>5 DEF Id
    <3> QED
      BY <3>1, <1>8 DEF Inv, Marks
  <2>3. SingleUse'
    BY <1>8 DEF Inv, Marks, SingleUse
  <2> QED
    BY <2>1, <2>2, <2>3 DEF Marks
<1>11. SignedCalls'
  BY <1>2, <1>3 DEF Inv, SignedCalls
<1> QED
  BY <1>2, <1>9, <1>10, <1>11 DEF Inv, TokenProvesKey

\* The account is created only while its name has none, so nobody's key changes.
LEMMA FinishRegisterKeeps ==
    ASSUME Inv, NEW call \in calls, FinishRegister(call)
    PROVE  Inv'
<1>1. call \in Call /\ call.name \in Name /\ call.signer \in Key
  BY DEF Inv, TypeOK, Call
<1>2. calls' \subseteq calls /\ UNCHANGED <<challenges, issued, now, spent>>
  BY DEF FinishRegister
<1>3. Marks'
  BY <1>2 DEF Inv, Marks, SingleUse
<1>4. CASE ~MayInsert(call.name)
  BY <1>2, <1>3, <1>4 DEF FinishRegister, Inv, TypeOK, SignedCalls, TokenProvesKey
<1>5. CASE MayInsert(call.name)
  <2> DEFINE token == Token(call)
  <2>1. /\ users' = [users EXCEPT ![call.name] = call.signer]
        /\ tokens' = tokens \cup {token}
        /\ users[call.name] = None
    BY <1>5 DEF FinishRegister, MayInsert
  <2>2. token.name = call.name /\ token.signer = call.signer
        /\ token \in [name : Name, signer : Key]
    BY <1>1 DEF Token
  <2> HIDE DEF token
  <2>3. /\ users' \in [Name -> Key \cup {None}] /\ users'[call.name] = call.signer
        /\ \A n \in Name : users[n] # None => users'[n] = users[n]
    BY <1>1, <2>1 DEF Inv, TypeOK
  <2>4. TypeOK'
    BY <1>2, <2>1, <2>2, <2>3 DEF Inv, TypeOK
  <2>5. SignedCalls'
    <3> SUFFICES ASSUME NEW d \in calls, d.purpose = "login"
                 PROVE  users'[d.name] = d.signer
      BY <1>2 DEF SignedCalls
    <3>1. d.name \in Name /\ d.signer # None /\ users[d.name] = d.signer
      BY NoAccountAssumption DEF Inv, TypeOK, Call, SignedCalls
    <3> QED
      BY <2>3, <3>1
  <2>6. TokenProvesKey'
    <3> SUFFICES ASSUME NEW t \in tokens' PROVE users'[t.name] = t.signer
      BY DEF TokenProvesKey
    <3>1. CASE t = token
      BY <2>2, <2>3, <3>1
    <3>2. CASE t \in tokens
      <4>1. t.name \in Name /\ t.signer # None /\ users[t.name] = t.signer
        BY <3>2, NoAccountAssumption DEF Inv, TypeOK, TokenProvesKey
      <4> QED
        BY <2>3, <4>1
    <3> QED
      BY <2>1, <3>1, <3>2
  <2> QED
    BY <1>3, <2>4, <2>5, <2>6 DEF Inv
<1> QED
  BY <1>4, <1>5

\* A token is given out for a name whose account has the key that signed.
LEMMA FinishLoginKeeps ==
    ASSUME Inv, NEW call \in calls, FinishLogin(call)
    PROVE  Inv'
<1> DEFINE token == Token(call)
<1>1. /\ call.purpose = "login" /\ calls' \subseteq calls
      /\ tokens' \in {tokens, tokens \cup {token}}
      /\ UNCHANGED <<users, challenges, issued, now, spent>>
  BY DEF FinishLogin
<1>2. call \in Call /\ users[call.name] = call.signer
  BY <1>1 DEF Inv, TypeOK, SignedCalls
<1>3. token \in [name : Name, signer : Key] /\ users[token.name] = token.signer
  BY <1>2 DEF Token, Call
<1> HIDE DEF token
<1>4. TypeOK'
  BY <1>1, <1>3 DEF Inv, TypeOK
<1>5. Marks'
  BY <1>1 DEF Inv, Marks, SingleUse
<1>6. SignedCalls' /\ TokenProvesKey'
  BY <1>1, <1>3 DEF Inv, SignedCalls, TokenProvesKey
<1> QED
  BY <1>4, <1>5, <1>6 DEF Inv

\* A step that changes nothing.
LEMMA Stutter == ASSUME Inv, UNCHANGED vars PROVE Inv'
  BY DEF Inv, TypeOK, Marks, SingleUse, SignedCalls, TokenProvesKey, vars

\* The invariant is inductive.
LEMMA NextKeeps == Inv /\ [Next]_vars => Inv'
<1> SUFFICES ASSUME Inv, [Next]_vars PROVE Inv'
  OBVIOUS
<1>1. CASE \E n \in Name, p \in Purpose, k \in Key : CreateChallenge(n, p, k)
  BY <1>1, CreateKeeps
<1>2. ASSUME NEW c \in challenges, NEW n \in Name, NEW k \in Key, NEW s \in Key,
             BeginRegister(c, n, k, s)
      PROVE  Inv'
  BY <1>2, BeginKeeps DEF BeginRegister, Usable, Purpose
<1>3. ASSUME NEW c \in challenges, NEW n \in Name, NEW s \in Key, BeginLogin(c, n, s)
      PROVE  Inv'
  BY <1>3, BeginKeeps DEF BeginLogin, Usable, Purpose, Verifies
<1>4. ASSUME NEW call \in calls, FinishRegister(call) \/ FinishLogin(call)
      PROVE  Inv'
  BY <1>4, FinishRegisterKeeps, FinishLoginKeeps
<1>5. CASE Restart
  BY <1>5 DEF Restart, Inv, TypeOK, Marks, SingleUse, SignedCalls, TokenProvesKey
<1>6. CASE Tick
  BY <1>6, BoundsAssumption
  DEF Tick, Inv, TypeOK, Marks, SingleUse, SignedCalls, TokenProvesKey
<1>7. CASE UNCHANGED vars
  BY <1>7, Stutter
<1> QED
  BY <1>1, <1>2, <1>3, <1>4, <1>5, <1>6, <1>7 DEF Next

\* Every reachable state satisfies the inductive invariant.
THEOREM InvHolds == Spec => []Inv
  BY InitInv, NextKeeps, PTL DEF Spec

\* The rows of the accounts and challenges keep their types.
THEOREM TypeCorrect == Spec => []TypeOK
  BY InvHolds, PTL DEF Inv

\* No challenge is used by two requests, however they interleave or are cut off.
THEOREM SingleUseHolds == Spec => []SingleUse
  BY InvHolds, PTL DEF Inv, Marks

\* A token for a name proves the key of the account of that name.
THEOREM TokenProvesKeyHolds == Spec => []TokenProvesKey
  BY InvHolds, PTL DEF Inv
=============================================================================
