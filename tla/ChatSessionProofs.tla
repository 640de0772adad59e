-------------------------- MODULE ChatSessionProofs --------------------------
(* Proofs about ChatSession, for any tabs, messages and bounds.                *)
EXTENDS ChatSession, TLAPS

\* The session that the next call under the lock starts from, if it looks at the
\* record and not at the memory of its tab.
Durable == IF stored = None THEN Fresh ELSE stored

JobType == [phase : Phase, session : Session \cup {None}, live : BOOLEAN]

\* What a call carries: to encrypt, the session of its request; inside the lock, the
\* advanced session; after it, a message that was opened.
Carried ==
    \A j \in Job :
        /\ job[j].phase \in {"waiting", "saving", "saved"} /\ j[2] \in Out
              => job[j].session \in Session
        /\ job[j].phase \in {"saving", "saved"}
              => /\ job[j].session \in Session
                 /\ j[2] \in Out => job[j].session.sent > 0
                 /\ j[2] \in In => j[2] \in job[j].session.opened
        /\ job[j].phase \in {"rendering", "acking"} => j[2] \in In

\* Whatever may become the session in memory or the record is behind the record.
Behind ==
    ~rolledBack =>
        /\ \A t \in Tab : ref[t] # None => AtMost(ref[t], Durable)
        /\ \A s \in saves : AtMost(s.session, Durable)
        /\ \A j \in Job : job[j].phase = "waiting" /\ j[2] \in Out
                             => AtMost(job[j].session, Durable)

\* The call inside the lock carries the record one operation further, and after its
\* save the record itself.
OneFurther ==
    ~rolledBack => \A j \in Job :
        /\ job[j].phase = "saving" /\ j[2] \in Out
              => /\ Durable.sent < MaxSent
                 /\ job[j].session = [Durable EXCEPT !.sent = @ + 1]
        /\ job[j].phase = "saving" /\ j[2] \in In
              => /\ j[2] \notin Durable.opened
                 /\ job[j].session = [Durable EXCEPT !.opened = @ \cup {j[2]}]
        /\ job[j].phase = "saved" => job[j].session = stored

\* What a tab, the transcript or the peer knows as opened is opened in the record.
OpenedIsSpent ==
    ~rolledBack =>
        /\ acked \subseteq Durable.opened
        /\ transcript \subseteq Durable.opened
        /\ \A t \in Tab : keys[t] \subseteq Durable.opened
        /\ \A j \in Job : job[j].phase \in {"rendering", "acking"}
                             => j[2] \in Durable.opened

\* The numbers that went out lie behind the record, and behind the number that is
\* about to go out.
NumbersBehind ==
    ~rolledBack =>
        /\ NoNumberReuse
        /\ \A e \in sealed : e.n < Durable.sent
        /\ \A j \in Job : job[j].phase = "saved" /\ j[2] \in Out
                             => \A e \in sealed : e.n < NumberSealed(job[j].session)

\* The lock is held by the one call between loading the session and leaving, of all
\* calls of all tabs.
LockHeldInside == \A j \in Job : lock = j <=> job[j].phase \in {"saving", "saved"}

Inv == /\ TypeOK /\ Carried /\ LockHeldInside
       /\ Behind /\ OneFurther /\ OpenedIsSpent /\ NumbersBehind

\* One call gets a phase and a session, the others stay as they are.
Moves(j, p, s) ==
    /\ job' \in [Job -> JobType]
    /\ job'[j].phase = p /\ job'[j].session = s
    /\ \A k \in Job \ {j} : job'[k] = job[k]

-----------------------------------------------------------------------------
(* Sessions                                                                *)

LEMMA FreshIsSession == Fresh \in Session /\ None \notin Session
BY BoundsAssumption, NoSessionAssumption DEF Fresh, Session

LEMMA DurableIsSession == TypeOK => Durable \in Session
BY FreshIsSession DEF TypeOK, Durable

LEMMA AtMostIsOrder ==
    /\ \A s \in Session : AtMost(s, s) /\ AtMost(Fresh, s)
    /\ \A s1, s2, s3 \in Session : AtMost(s1, s2) /\ AtMost(s2, s3) => AtMost(s1, s3)
    /\ \A s1, s2 \in Session : AtMost(s1, s2) /\ AtMost(s2, s1) => s1 = s2
<1>1. \A s \in Session : AtMost(s, s) /\ AtMost(Fresh, s)
  BY BoundsAssumption DEF Session, Fresh, AtMost
<1>2. \A s1, s2, s3 \in Session : AtMost(s1, s2) /\ AtMost(s2, s3) => AtMost(s1, s3)
  BY BoundsAssumption DEF Session, AtMost
<1>3. ASSUME NEW s1 \in Session, NEW s2 \in Session, AtMost(s1, s2), AtMost(s2, s1)
      PROVE  s1 = s2
  <2>1. s1.sent = s2.sent /\ s1.opened = s2.opened
    BY <1>3, BoundsAssumption DEF Session, AtMost
  <2> QED
    BY <2>1 DEF Session
<1> QED
  BY <1>1, <1>2, <1>3

\* What sealing and opening make of a session.
LEMMA AdvanceTypes ==
    ASSUME NEW s \in Session
    PROVE  /\ s.sent < MaxSent =>
                  /\ [s EXCEPT !.sent = @ + 1] \in Session
                  /\ [s EXCEPT !.sent = @ + 1].sent = s.sent + 1
                  /\ [s EXCEPT !.sent = @ + 1].opened = s.opened
                  /\ AtMost(s, [s EXCEPT !.sent = @ + 1])
           /\ \A m \in In :
                  /\ [s EXCEPT !.opened = @ \cup {m}] \in Session
                  /\ [s EXCEPT !.opened = @ \cup {m}].sent = s.sent
                  /\ [s EXCEPT !.opened = @ \cup {m}].opened = s.opened \cup {m}
                  /\ AtMost(s, [s EXCEPT !.opened = @ \cup {m}])
<1>1. ASSUME s.sent < MaxSent
      PROVE  /\ [s EXCEPT !.sent = @ + 1] \in Session
             /\ [s EXCEPT !.sent = @ + 1].sent = s.sent + 1
             /\ [s EXCEPT !.sent = @ + 1].opened = s.opened
  BY <1>1, BoundsAssumption DEF Session
<1>2. ASSUME NEW m \in In
      PROVE  /\ [s EXCEPT !.opened = @ \cup {m}] \in Session
             /\ [s EXCEPT !.opened = @ \cup {m}].sent = s.sent
             /\ [s EXCEPT !.opened = @ \cup {m}].opened = s.opened \cup {m}
  BY BoundsAssumption DEF Session
<1>3. s.sent \in Nat
  BY BoundsAssumption DEF Session
<1> QED
  BY <1>1, <1>2, <1>3 DEF AtMost

LEMMA InitInv == Init => Inv
<1> SUFFICES ASSUME Init PROVE Inv
  OBVIOUS
<1>1. \A j \in Job : job[j].phase = "idle"
  BY DEF Init, Idle
<1>2. job \in [Job -> JobType]
  BY DEF Init, Idle, JobType, Phase
<1>3. TypeOK
  <2>1. opens \in 0 .. MaxOpen
    BY BoundsAssumption DEF Init
  <2> QED
    BY <1>2, <2>1 DEF Init, TypeOK, JobType
<1>4. Carried /\ OneFurther
  BY <1>1 DEF Carried, OneFurther
<1>5. LockHeldInside
  <2>1. None \notin Job
    BY SetsAssumption DEF Job
  <2> QED
    BY <1>1, <2>1 DEF Init, LockHeldInside
<1>6. Behind /\ OpenedIsSpent
  BY <1>1 DEF Init, Behind, OpenedIsSpent
<1>7. NumbersBehind
  BY <1>1 DEF Init, NumbersBehind, NoNumberReuse
<1> QED
  BY <1>3, <1>4, <1>5, <1>6, <1>7 DEF Inv

-----------------------------------------------------------------------------
(* What each step does to the calls                                        *)

\* A phase, or a phase and a session, are put into the record of one call.
LEMMA MovesPhase ==
    ASSUME TypeOK, NEW j \in Job, NEW p \in Phase,
           job' = [job EXCEPT ![j].phase = p]
    PROVE  Moves(j, p, job[j].session)
<1>1. job \in [Job -> JobType] /\ job[j] \in JobType
  BY DEF TypeOK, JobType
<1>2. [job[j] EXCEPT !.phase = p] \in JobType
      /\ [job[j] EXCEPT !.phase = p].phase = p
      /\ [job[j] EXCEPT !.phase = p].session = job[j].session
  BY <1>1 DEF JobType
<1>3. job' = [job EXCEPT ![j] = [job[j] EXCEPT !.phase = p]]
  OBVIOUS
<1> DEFINE new == [job[j] EXCEPT !.phase = p]
<1>4. new \in JobType /\ new.phase = p /\ new.session = job[j].session
      /\ job' = [job EXCEPT ![j] = new]
  BY <1>2, <1>3
<1> HIDE DEF new
<1> QED
  BY <1>1, <1>4 DEF Moves

LEMMA MovesBoth ==
    ASSUME TypeOK, NEW j \in Job, NEW p \in Phase, NEW s \in Session \cup {None},
           \/ job' = [job EXCEPT ![j].phase = p, ![j].session = s]
           \/ job' = [job EXCEPT ![j] = [@ EXCEPT !.phase = p, !.session = s]]
           \/ job' = [job EXCEPT ![j] = [phase |-> p, session |-> s, live |-> TRUE]]
    PROVE  Moves(j, p, s)
<1>1. job \in [Job -> JobType] /\ job[j] \in JobType
  BY DEF TypeOK, JobType
<1>2. \E new \in JobType : /\ new.phase = p /\ new.session = s
                           /\ job' = [job EXCEPT ![j] = new]
  <2>1. CASE job' = [job EXCEPT ![j] = [phase |-> p, session |-> s, live |-> TRUE]]
    BY <2>1 DEF JobType
  <2>2. CASE \/ job' = [job EXCEPT ![j].phase = p, ![j].session = s]
             \/ job' = [job EXCEPT ![j] = [@ EXCEPT !.phase = p, !.session = s]]
    <3> DEFINE new == [job[j] EXCEPT !.phase = p, !.session = s]
    <3>1. new \in JobType /\ new.phase = p /\ new.session = s
      BY <1>1 DEF JobType
    <3>2. CASE job' = [job EXCEPT ![j].phase = p, ![j].session = s]
      <4>1. job' = [job EXCEPT ![j] = new]
        BY <3>2, <1>1
      <4> HIDE DEF new
      <4> QED
        BY <3>1, <4>1
    <3>3. CASE job' = [job EXCEPT ![j] = [@ EXCEPT !.phase = p, !.session = s]]
      <4>1. job' = [job EXCEPT ![j] = new]
        BY <3>3
      <4> HIDE DEF new
      <4> QED
        BY <3>1, <4>1
    <3> QED
      BY <2>2, <3>2, <3>3
  <2> QED
    BY <2>1, <2>2
<1>3. PICK new \in JobType : /\ new.phase = p /\ new.session = s
                             /\ job' = [job EXCEPT ![j] = new]
  BY <1>2
<1> QED
  BY <1>1, <1>3 DEF Moves

\* The call that is let in to encrypt has a session, and so has one that decrypts
\* and looked whether it has.
LEMMA CurrentIsSession ==
    ASSUME Inv, NEW j \in Job, job[j].phase = "waiting",
           j[2] \in Out \/ CurrentSession(j) # None
    PROVE  CurrentSession(j) \in Session
<1>1. j[1] \in Tab
  BY DEF Job
<1>2. CASE stored # None
  BY <1>2 DEF Inv, TypeOK, CurrentSession
<1>3. CASE stored = None /\ j[2] \in Out
  BY <1>3 DEF Inv, Carried, CurrentSession
<1>4. CASE stored = None /\ j[2] \notin Out
  BY <1>1, <1>4 DEF Inv, TypeOK, CurrentSession
<1> QED
  BY <1>2, <1>3, <1>4

\* The requests.
LEMMA RequestMoves ==
    ASSUME Inv, NEW t \in Tab
    PROVE  /\ \A o \in Out : RequestEncrypt(t, o)
                 => <<t, o>> \in Job /\ ref[t] \in Session
                    /\ Moves(<<t, o>>, "waiting", ref[t])
           /\ \A m \in In : RequestDecrypt(t, m)
                 => <<t, m>> \in Job /\ m \notin Out /\ Moves(<<t, m>>, "waiting", None)
<1>1. TypeOK /\ "waiting" \in Phase
  BY DEF Inv, Phase
<1>2. ASSUME NEW o \in Out, RequestEncrypt(t, o)
      PROVE  <<t, o>> \in Job /\ ref[t] \in Session
             /\ Moves(<<t, o>>, "waiting", ref[t])
  <2>1. <<t, o>> \in Job
    BY DEF Job
  <2>2. ref[t] \in Session
    BY <1>1, <1>2 DEF TypeOK, RequestEncrypt, Usable
  <2>3. job' = [job EXCEPT ![<<t, o>>] =
                    [phase |-> "waiting", session |-> ref[t], live |-> TRUE]]
    BY <1>2 DEF RequestEncrypt
  <2> QED
    BY <1>1, <2>1, <2>2, <2>3, MovesBoth
<1>3. ASSUME NEW m \in In, RequestDecrypt(t, m)
      PROVE  <<t, m>> \in Job /\ m \notin Out /\ Moves(<<t, m>>, "waiting", None)
  <2>1. <<t, m>> \in Job /\ m \notin Out
    BY SetsAssumption DEF Job
  <2>2. job' = [job EXCEPT ![<<t, m>>] =
                    [phase |-> "waiting", session |-> None, live |-> TRUE]]
    BY <1>3 DEF RequestDecrypt
  <2> QED
    BY <1>1, <2>1, <2>2, MovesBoth
<1> QED
  BY <1>2, <1>3

\* The calls, once they are let in.
LEMMA CallMoves ==
    ASSUME Inv, NEW j \in Job
    PROVE  /\ EnterEncrypt(j) =>
                 /\ CurrentSession(j) \in Session
                 /\ Moves(j, "saving", [CurrentSession(j) EXCEPT !.sent = @ + 1])
           /\ EnterDecrypt(j) =>
                 /\ CurrentSession(j) \in Session
                 /\ Moves(j, "saving",
                          [CurrentSession(j) EXCEPT !.opened = @ \cup {j[2]}])
           /\ Duplicate(j) => Moves(j, "acking", job[j].session)
           /\ Save(j) => Moves(j, "saved", job[j].session)
           /\ Reject(j) => Moves(j, "failed", None)
           /\ LeaveEncrypt(j) => Moves(j, "done", None)
           /\ LeaveDecrypt(j) => Moves(j, "rendering", None)
           /\ KeepPlaintext(j) => Moves(j, "acking", job[j].session)
           /\ SendDeliveryAck(j) => Moves(j, "done", job[j].session)
<1>1. TypeOK
  BY DEF Inv
<1>2. /\ "saving" \in Phase /\ "acking" \in Phase /\ "saved" \in Phase
      /\ "failed" \in Phase /\ "done" \in Phase /\ "rendering" \in Phase
  BY DEF Phase
<1>3. ASSUME EnterEncrypt(j)
      PROVE  /\ CurrentSession(j) \in Session
             /\ Moves(j, "saving", [CurrentSession(j) EXCEPT !.sent = @ + 1])
  <2> DEFINE s == CurrentSession(j)
  <2>1. s \in Session /\ s.sent < MaxSent
    BY <1>3, CurrentIsSession DEF EnterEncrypt, InPhase
  <2>2. [s EXCEPT !.sent = @ + 1] \in Session
    BY <2>1, AdvanceTypes
  <2>3. job' = [job EXCEPT ![j].phase = "saving",
                           ![j].session = [s EXCEPT !.sent = @ + 1]]
    BY <1>3 DEF EnterEncrypt
  <2> HIDE DEF s
  <2>4. Moves(j, "saving", [s EXCEPT !.sent = @ + 1])
    BY <1>1, <1>2, <2>2, <2>3, MovesBoth
  <2> QED
    BY <2>1, <2>4 DEF s
<1>4. ASSUME EnterDecrypt(j)
      PROVE  /\ CurrentSession(j) \in Session
             /\ Moves(j, "saving",
                      [CurrentSession(j) EXCEPT !.opened = @ \cup {j[2]}])
  <2> DEFINE s == CurrentSession(j)
  <2>1. s \in Session
    BY <1>4, CurrentIsSession DEF EnterDecrypt, InPhase
  <2>2. [s EXCEPT !.opened = @ \cup {j[2]}] \in Session
    BY <1>4, <2>1, AdvanceTypes DEF EnterDecrypt
  <2>3. job' = [job EXCEPT ![j].phase = "saving",
                           ![j].session = [s EXCEPT !.opened = @ \cup {j[2]}]]
    BY <1>4 DEF EnterDecrypt
  <2> HIDE DEF s
  <2>4. Moves(j, "saving", [s EXCEPT !.opened = @ \cup {j[2]}])
    BY <1>1, <1>2, <2>2, <2>3, MovesBoth
  <2> QED
    BY <2>1, <2>4 DEF s
<1>5. Duplicate(j) => Moves(j, "acking", job[j].session)
  BY <1>1, <1>2, MovesPhase DEF Duplicate
<1>6. Save(j) => Moves(j, "saved", job[j].session)
  BY <1>1, <1>2, MovesPhase DEF Save
<1>7. Reject(j) => Moves(j, "failed", None)
  BY <1>1, <1>2, MovesBoth DEF Reject
<1>8. LeaveEncrypt(j) => Moves(j, "done", None)
  BY <1>1, <1>2, MovesBoth DEF LeaveEncrypt
<1>9. LeaveDecrypt(j) => Moves(j, "rendering", None)
  BY <1>1, <1>2, MovesBoth DEF LeaveDecrypt
<1>10. KeepPlaintext(j) => Moves(j, "acking", job[j].session)
  BY <1>1, <1>2, MovesPhase DEF KeepPlaintext
<1>11. SendDeliveryAck(j) => Moves(j, "done", job[j].session)
  BY <1>1, <1>2, MovesPhase DEF SendDeliveryAck
<1> QED
  BY <1>3, <1>4, <1>5, <1>6, <1>7, <1>8, <1>9, <1>10, <1>11

\* Closing a room leaves every call its phase and session; a crash ends the calls of
\* its tab and touches no other.
LEMMA TabMoves ==
    ASSUME Inv, NEW t \in Tab
    PROVE  /\ CloseRoom(t) =>
                 /\ job' \in [Job -> JobType]
                 /\ \A k \in Job : /\ job'[k].phase = job[k].phase
                                   /\ job'[k].session = job[k].session
           /\ Crash(t) =>
                 /\ job' \in [Job -> JobType]
                 /\ \A k \in Job : IF k[1] = t THEN job'[k].phase = "idle"
                                   ELSE job'[k] = job[k]
<1>1. job \in [Job -> JobType]
  BY DEF Inv, TypeOK, JobType
<1>2. ASSUME CloseRoom(t)
      PROVE  /\ job' \in [Job -> JobType]
             /\ \A k \in Job : /\ job'[k].phase = job[k].phase
                               /\ job'[k].session = job[k].session
  <2> DEFINE ended(k) == [job[k] EXCEPT !.live = FALSE]
  <2>1. \A k \in Job : /\ ended(k) \in JobType /\ ended(k).phase = job[k].phase
                       /\ ended(k).session = job[k].session
    BY <1>1 DEF JobType
  <2>2. job' = [k \in Job |-> IF k[1] = t THEN ended(k) ELSE job[k]]
    BY <1>2 DEF CloseRoom
  <2> HIDE DEF ended
  <2> QED
    BY <1>1, <2>1, <2>2
<1>3. ASSUME Crash(t)
      PROVE  /\ job' \in [Job -> JobType]
             /\ \A k \in Job : IF k[1] = t THEN job'[k].phase = "idle"
                               ELSE job'[k] = job[k]
  <2>1. Idle \in JobType /\ Idle.phase = "idle"
    BY DEF Idle, JobType, Phase
  <2>2. job' = [k \in Job |-> IF k[1] = t THEN Idle ELSE job[k]]
    BY <1>3 DEF Crash
  <2> QED
    BY <1>1, <2>1, <2>2
<1> QED
  BY <1>2, <1>3

-----------------------------------------------------------------------------
(* The steps that are not of a call, and those that are                    *)

TabStep(t) == \/ OpenRoom(t) \/ LoadRoom(t) \/ LoadFail(t) \/ InitSession(t)
              \/ Derived(t) \/ CloseRoom(t) \/ LeaveRoom(t) \/ Crash(t)

Request(t) == \/ \E o \in Out : RequestEncrypt(t, o)
              \/ \E m \in In : RequestDecrypt(t, m)

CallStep(j) == Enter(j) \/ Reject(j) \/ Proceed(j)

\* No step of a call makes it wait again.
LEMMA CallMovesOn ==
    ASSUME Inv, NEW j \in Job, CallStep(j)
    PROVE  \E p \in Phase \ {"waiting"} : \E s : Moves(j, p, s)
<1>1. CASE EnterEncrypt(j) \/ EnterDecrypt(j)
  <2>1. \E s : Moves(j, "saving", s)
    BY <1>1, CallMoves
  <2> QED
    BY <2>1 DEF Phase
<1>2. CASE Duplicate(j) \/ KeepPlaintext(j)
  <2>1. \E s : Moves(j, "acking", s)
    BY <1>2, CallMoves
  <2> QED
    BY <2>1 DEF Phase
<1>3. CASE Save(j)
  <2>1. \E s : Moves(j, "saved", s)
    BY <1>3, CallMoves
  <2> QED
    BY <2>1 DEF Phase
<1>4. CASE Reject(j)
  <2>1. \E s : Moves(j, "failed", s)
    BY <1>4, CallMoves
  <2> QED
    BY <2>1 DEF Phase
<1>5. CASE LeaveEncrypt(j) \/ SendDeliveryAck(j)
  <2>1. \E s : Moves(j, "done", s)
    BY <1>5, CallMoves
  <2> QED
    BY <2>1 DEF Phase
<1>6. CASE LeaveDecrypt(j)
  <2>1. \E s : Moves(j, "rendering", s)
    BY <1>6, CallMoves
  <2> QED
    BY <2>1 DEF Phase
<1> QED
  BY <1>1, <1>2, <1>3, <1>4, <1>5, <1>6 DEF CallStep, Enter, Proceed

\* Every variable keeps its type, by each kind of step.
LEMMA TypesStep == Inv /\ Next => TypeOK'
<1> SUFFICES ASSUME Inv, Next PROVE TypeOK'
  OBVIOUS
<1>1. TypeOK
  BY DEF Inv
<1>2. ASSUME NEW t \in Tab, TabStep(t) PROVE TypeOK'
  <2>1. job' \in [Job -> JobType] /\ lock' \in Job \cup {None}
    <3>1. CASE CloseRoom(t)
      BY <1>1, <3>1, TabMoves DEF CloseRoom, TypeOK
    <3>2. CASE Crash(t)
      BY <1>1, <3>2, TabMoves DEF Crash, TypeOK
    <3>3. CASE ~CloseRoom(t) /\ ~Crash(t)
      BY <1>1, <1>2, <3>3
      DEF TabStep, OpenRoom, LoadRoom, LoadFail, InitSession, Derived, LeaveRoom, TypeOK,
          JobType
    <3> QED
      BY <3>1, <3>2, <3>3
  <2>2. /\ chat' \in [Tab -> {"away", "loading", "open"}]
        /\ ready' \in [Tab -> BOOLEAN]
        /\ keys' \in [Tab -> SUBSET In]
        /\ derivation' \in [Tab -> {"due", "under way", "over"}]
    BY <1>1, <1>2 DEF TabStep, OpenRoom, LoadRoom, LoadFail, InitSession, Derived,
                      CloseRoom, LeaveRoom, Crash, TypeOK, tabVars
  <2>3. ref' \in [Tab -> Session \cup {None}]
    BY <1>1, <1>2, FreshIsSession
    DEF TabStep, OpenRoom, LoadRoom, LoadFail, InitSession, Derived, CloseRoom, LeaveRoom,
        Crash, TypeOK, tabVars
  <2>4. saves' \subseteq [tab : Tab, session : Session, init : BOOLEAN]
    <3>1. CASE Derived(t)
      <4>1. [tab |-> t, session |-> Fresh, init |-> TRUE]
                \in [tab : Tab, session : Session, init : BOOLEAN]
        BY FreshIsSession
      <4> QED
        BY <1>1, <3>1, <4>1 DEF Derived, TypeOK
    <3>2. CASE CloseRoom(t)
      <4> DEFINE type == [tab : Tab, session : Session, init : BOOLEAN]
                 save(s) == [tab |-> t, session |-> s, init |-> FALSE]
      <4>1. \A s \in Session : save(s) \in type
        OBVIOUS
      <4>2. ref[t] \in Session \cup {None} /\ saves \subseteq type
        BY <1>1 DEF TypeOK
      <4>3. saves' = saves \cup {save(s) : s \in {ref[t]} \ {None}}
        BY <3>2 DEF CloseRoom
      <4> HIDE DEF type, save
      <4>4. saves' \subseteq type
        BY <4>1, <4>2, <4>3
      <4> QED
        BY <4>4 DEF type
    <3>3. CASE ~Derived(t) /\ ~CloseRoom(t)
      BY <1>1, <1>2, <3>3
      DEF TabStep, OpenRoom, LoadRoom, LoadFail, InitSession, LeaveRoom, Crash, TypeOK
    <3> QED
      BY <3>1, <3>2, <3>3
  <2>5. /\ stored' \in Session \cup {None} /\ transcript' \subseteq In
        /\ acked' \subseteq In /\ sealed' \subseteq [n : 0 .. MaxSent - 1, by : Job]
    BY <1>1, <1>2 DEF TabStep, OpenRoom, LoadRoom, LoadFail, InitSession, Derived,
                      CloseRoom, LeaveRoom, Crash, TypeOK, tabVars
  <2>6. rolledBack' \in BOOLEAN /\ left' \in BOOLEAN
    BY <1>1, <1>2 DEF TabStep, OpenRoom, LoadRoom, LoadFail, InitSession, Derived,
                      CloseRoom, LeaveRoom, Crash, TypeOK, tabVars
  <2>7. opens' \in 0 .. MaxOpen
    <3>1. opens' = opens \/ (opens < MaxOpen /\ opens' = opens + 1)
      BY <1>2 DEF TabStep, OpenRoom, LoadRoom, LoadFail, InitSession, Derived, CloseRoom,
                  LeaveRoom, Crash
    <3>2. opens \in 0 .. MaxOpen
      BY <1>1 DEF TypeOK
    <3> QED
      BY <3>1, <3>2, BoundsAssumption
  <2> QED
    BY <2>1, <2>2, <2>3, <2>4, <2>5, <2>6, <2>7 DEF TypeOK, JobType
<1>3. ASSUME NEW s \in saves, SettleSave(s) PROVE TypeOK'
  <2>1. s.tab \in Tab /\ s.session \in Session /\ s.init \in BOOLEAN
    BY <1>1 DEF TypeOK
  <2>2. /\ stored' \in Session \cup {None} /\ rolledBack' \in BOOLEAN
        /\ ready' \in [Tab -> BOOLEAN]
        /\ saves' \subseteq [tab : Tab, session : Session, init : BOOLEAN]
    BY <1>1, <1>3, <2>1 DEF SettleSave, TypeOK
  <2> QED
    BY <1>1, <1>3, <2>2 DEF SettleSave, TypeOK
<1>4. ASSUME NEW t \in Tab, Request(t) PROVE TypeOK'
  <2>1. job' \in [Job -> JobType]
    BY <1>4, RequestMoves DEF Request, Moves
  <2> QED
    BY <1>1, <1>4, <2>1
    DEF Request, RequestEncrypt, RequestDecrypt, TypeOK, JobType, tabVars
<1>5. ASSUME NEW j \in Job, CallStep(j) PROVE TypeOK'
  <2>0. j[1] \in Tab
    BY DEF Job
  <2>1. job' \in [Job -> JobType]
    BY <1>5, CallMoves DEF CallStep, Enter, Proceed, Moves
  <2>2. lock' \in Job \cup {None}
    BY <1>1, <1>5
    DEF CallStep, Enter, Proceed, EnterEncrypt, EnterDecrypt, Duplicate, Reject, Save,
        LeaveEncrypt, LeaveDecrypt, KeepPlaintext, SendDeliveryAck, TypeOK
  <2>3. job[j].phase \in {"saving", "saved"} =>
            /\ job[j].session \in Session /\ (j[2] \in Out => job[j].session.sent > 0)
    BY DEF Inv, Carried
  <2>4. ref' \in [Tab -> Session \cup {None}] /\ keys' \in [Tab -> SUBSET In]
    <3>1. ref \in [Tab -> Session \cup {None}] /\ keys \in [Tab -> SUBSET In]
      BY <1>1 DEF TypeOK
    <3>2. CASE LeaveEncrypt(j)
      BY <2>0, <2>3, <3>1, <3>2 DEF LeaveEncrypt, InPhase
    <3>3. CASE LeaveDecrypt(j)
      BY <2>0, <2>3, <3>1, <3>3 DEF LeaveDecrypt, InPhase
    <3>4. CASE ~LeaveEncrypt(j) /\ ~LeaveDecrypt(j)
      BY <1>5, <3>1, <3>4
      DEF CallStep, Enter, Proceed, EnterEncrypt, EnterDecrypt, Duplicate, Reject, Save,
          KeepPlaintext, SendDeliveryAck, tabVars
    <3> QED
      BY <3>2, <3>3, <3>4
  <2>5. stored' \in Session \cup {None}
    BY <1>1, <1>5, <2>3
    DEF CallStep, Enter, Proceed, EnterEncrypt, EnterDecrypt, Duplicate, Reject, Save,
        LeaveEncrypt, LeaveDecrypt, KeepPlaintext, SendDeliveryAck, TypeOK, InPhase
  <2>6. transcript' \subseteq In /\ acked' \subseteq In
    <3>1. job[j].phase \in {"rendering", "acking"} => j[2] \in In
      BY DEF Inv, Carried
    <3> QED
      BY <1>1, <1>5, <3>1
      DEF CallStep, Enter, Proceed, EnterEncrypt, EnterDecrypt, Duplicate, Reject, Save,
          LeaveEncrypt, LeaveDecrypt, KeepPlaintext, SendDeliveryAck, TypeOK, InPhase
  <2>7. sealed' \subseteq [n : 0 .. MaxSent - 1, by : Job]
    <3>1. CASE LeaveEncrypt(j)
      <4>1. job[j].session.sent - 1 \in 0 .. MaxSent - 1
        BY <3>1, <2>3, BoundsAssumption DEF LeaveEncrypt, InPhase, Session
      <4>2. [n |-> NumberSealed(job[j].session), by |-> j]
                \in [n : 0 .. MaxSent - 1, by : Job]
        BY <4>1 DEF NumberSealed
      <4> QED
        BY <1>1, <3>1, <4>2 DEF LeaveEncrypt, TypeOK
    <3>2. CASE ~LeaveEncrypt(j)
      BY <1>1, <1>5, <3>2
      DEF CallStep, Enter, Proceed, EnterEncrypt, EnterDecrypt, Duplicate, Reject, Save,
          LeaveDecrypt, KeepPlaintext, SendDeliveryAck, TypeOK
    <3> QED
      BY <3>1, <3>2
  <2>8. UNCHANGED <<chat, ready, derivation, saves, rolledBack, left, opens>>
    BY <1>5
    DEF CallStep, Enter, Proceed, EnterEncrypt, EnterDecrypt, Duplicate, Reject, Save,
        LeaveEncrypt, LeaveDecrypt, KeepPlaintext, SendDeliveryAck, tabVars
  <2> QED
    BY <1>1, <2>1, <2>2, <2>4, <2>5, <2>6, <2>7, <2>8 DEF TypeOK, JobType
<1> QED
  BY <1>2, <1>3, <1>4, <1>5 DEF Next, TabStep, Request, CallStep

\* What the calls carry: only the steps of a call move it on, and each gives it what
\* the next needs.
LEMMA CarriedStep == Inv /\ Next => Carried'
<1> SUFFICES ASSUME Inv, Next PROVE Carried'
  OBVIOUS
<1>1. Carried /\ TypeOK
  BY DEF Inv
<1>2. ASSUME NEW t \in Tab, TabStep(t) PROVE Carried'
  <2>1. CASE CloseRoom(t)
    BY <1>1, <2>1, TabMoves DEF Carried
  <2>2. CASE Crash(t)
    <3>1. \A k \in Job : job'[k].phase = "idle" \/ job'[k] = job[k]
      BY <2>2, TabMoves
    <3> QED
      BY <1>1, <3>1 DEF Carried
  <2>3. CASE ~CloseRoom(t) /\ ~Crash(t)
    <3>1. job' = job
      BY <1>2, <2>3
      DEF TabStep, OpenRoom, LoadRoom, LoadFail, InitSession, Derived, LeaveRoom
    <3> QED
      BY <1>1, <3>1 DEF Carried
  <2> QED
    BY <2>1, <2>2, <2>3
<1>3. ASSUME NEW s \in saves, SettleSave(s) PROVE Carried'
  BY <1>1, <1>3 DEF SettleSave, Carried
<1>4. ASSUME NEW t \in Tab, Request(t) PROVE Carried'
  <2>1. CASE \E o \in Out : RequestEncrypt(t, o)
    <3>1. PICK o \in Out : RequestEncrypt(t, o)
      BY <2>1
    <3>2. <<t, o>> \in Job /\ ref[t] \in Session /\ Moves(<<t, o>>, "waiting", ref[t])
      BY <3>1, RequestMoves
    <3> QED
      BY <1>1, <3>2 DEF Carried, Moves
  <2>2. CASE \E m \in In : RequestDecrypt(t, m)
    <3>1. PICK m \in In : RequestDecrypt(t, m)
      BY <2>2
    <3>2. <<t, m>> \in Job /\ m \notin Out /\ Moves(<<t, m>>, "waiting", None)
      BY <3>1, RequestMoves
    <3> QED
      BY <1>1, <3>2 DEF Carried, Moves
  <2> QED
    BY <1>4, <2>1, <2>2 DEF Request
<1>5. ASSUME NEW j \in Job, CallStep(j) PROVE Carried'
  <2>1. ASSUME NEW p \in Phase, NEW s, Moves(j, p, s),
               p \in {"saving", "saved"} =>
                   /\ s \in Session
                   /\ j[2] \in Out => s.sent > 0
                   /\ j[2] \in In => j[2] \in s.opened,
               p \in {"rendering", "acking"} => j[2] \in In,
               p # "waiting"
        PROVE  Carried'
    BY <1>1, <2>1 DEF Carried, Moves
  <2>2. CASE EnterEncrypt(j)
    <3> DEFINE s == CurrentSession(j)
    <3>1. s \in Session /\ s.sent < MaxSent /\ j[2] \notin In
          /\ Moves(j, "saving", [s EXCEPT !.sent = @ + 1])
      BY <2>2, CallMoves, SetsAssumption DEF EnterEncrypt
    <3>2. [s EXCEPT !.sent = @ + 1] \in Session /\ [s EXCEPT !.sent = @ + 1].sent > 0
      BY <3>1, AdvanceTypes, BoundsAssumption DEF Session
    <3> HIDE DEF s
    <3> QED
      BY <2>1, <3>1, <3>2 DEF Phase
  <2>3. CASE EnterDecrypt(j)
    <3> DEFINE s == CurrentSession(j)
    <3>1. s \in Session /\ j[2] \in In /\ j[2] \notin Out
          /\ Moves(j, "saving", [s EXCEPT !.opened = @ \cup {j[2]}])
      BY <2>3, CallMoves, SetsAssumption DEF EnterDecrypt
    <3>2. [s EXCEPT !.opened = @ \cup {j[2]}] \in Session
          /\ j[2] \in [s EXCEPT !.opened = @ \cup {j[2]}].opened
      BY <3>1, AdvanceTypes
    <3> HIDE DEF s
    <3> QED
      BY <2>1, <3>1, <3>2 DEF Phase
  <2>4. CASE Duplicate(j)
    <3>1. Moves(j, "acking", job[j].session) /\ j[2] \in In
      BY <2>4, CallMoves DEF Duplicate
    <3> QED
      BY <2>1, <3>1 DEF Phase
  <2>5. CASE Save(j)
    <3>1. Moves(j, "saved", job[j].session) /\ job[j].phase = "saving"
      BY <2>5, CallMoves DEF Save, InPhase
    <3> QED
      BY <1>1, <2>1, <3>1 DEF Phase, Carried
  <2>6. CASE Reject(j)
    BY <2>1, <2>6, CallMoves DEF Phase
  <2>7. CASE LeaveEncrypt(j)
    BY <2>1, <2>7, CallMoves DEF Phase
  <2>8. CASE LeaveDecrypt(j)
    <3>1. Moves(j, "rendering", None) /\ j[2] \in In
      BY <2>8, CallMoves DEF LeaveDecrypt
    <3> QED
      BY <2>1, <3>1 DEF Phase
  <2>9. CASE KeepPlaintext(j)
    <3>1. Moves(j, "acking", job[j].session) /\ job[j].phase = "rendering"
      BY <2>9, CallMoves DEF KeepPlaintext, InPhase
    <3> QED
      BY <1>1, <2>1, <3>1 DEF Phase, Carried
  <2>10. CASE SendDeliveryAck(j)
    BY <2>1, <2>10, CallMoves DEF Phase
  <2> QED
    BY <1>5, <2>2, <2>3, <2>4, <2>5, <2>6, <2>7, <2>8, <2>9, <2>10
    DEF CallStep, Enter, Proceed
<1> QED
  BY <1>2, <1>3, <1>4, <1>5 DEF Next, TabStep, Request, CallStep

\* The lock is taken by a call that enters and released by the call that holds it,
\* by its error or by the end of its tab.
LEMMA LockStep == Inv /\ Next => LockHeldInside'
<1> SUFFICES ASSUME Inv, Next PROVE LockHeldInside'
  OBVIOUS
<1>1. LockHeldInside /\ TypeOK /\ None \notin Job
  BY SetsAssumption DEF Inv, Job
<1>2. ASSUME NEW t \in Tab, TabStep(t) PROVE LockHeldInside'
  <2>1. CASE CloseRoom(t)
    BY <1>1, <2>1, TabMoves DEF CloseRoom, LockHeldInside
  <2>2. CASE Crash(t)
    <3>1. \A k \in Job : IF k[1] = t THEN job'[k].phase = "idle" ELSE job'[k] = job[k]
      BY <2>2, TabMoves
    <3>2. lock' = IF lock # None /\ lock[1] = t THEN None ELSE lock
      BY <2>2 DEF Crash
    <3> QED
      BY <1>1, <3>1, <3>2 DEF LockHeldInside
  <2>3. CASE ~CloseRoom(t) /\ ~Crash(t)
    BY <1>1, <1>2, <2>3
    DEF TabStep, OpenRoom, LoadRoom, LoadFail, InitSession, Derived, LeaveRoom, LockHeldInside
  <2> QED
    BY <2>1, <2>2, <2>3
<1>3. ASSUME NEW s \in saves, SettleSave(s) PROVE LockHeldInside'
  BY <1>1, <1>3 DEF SettleSave, LockHeldInside
<1>4. ASSUME NEW t \in Tab, Request(t) PROVE LockHeldInside'
  <2>1. \E j \in Job : \E s : /\ Moves(j, "waiting", s)
                              /\ job[j].phase \notin {"saving", "saved"}
    BY <1>4, RequestMoves DEF Request, RequestEncrypt, RequestDecrypt, InPhase
  <2>2. lock' = lock
    BY <1>4 DEF Request, RequestEncrypt, RequestDecrypt
  <2> QED
    BY <1>1, <2>1, <2>2 DEF LockHeldInside, Moves
<1>5. ASSUME NEW j \in Job, CallStep(j) PROVE LockHeldInside'
  <2>1. CASE EnterEncrypt(j) \/ EnterDecrypt(j)
    <3>1. lock = None /\ lock' = j
      BY <2>1 DEF EnterEncrypt, EnterDecrypt, MayEnter
    <3>2. \E s : Moves(j, "saving", s)
      BY <2>1, CallMoves
    <3> QED
      BY <1>1, <3>1, <3>2 DEF LockHeldInside, Moves
  <2>2. CASE Save(j)
    BY <1>1, <2>2, CallMoves DEF Save, InPhase, LockHeldInside, Moves
  <2>3. CASE Reject(j) \/ LeaveEncrypt(j) \/ LeaveDecrypt(j)
    <3>1. lock' = None /\ (lock = None \/ job[j].phase \in {"saving", "saved"})
      BY <2>3 DEF Reject, LeaveEncrypt, LeaveDecrypt, InPhase, MayEnter
    <3>2. \E p \in {"failed", "done", "rendering"} : Moves(j, p, None)
      BY <2>3, CallMoves
    <3> QED
      BY <1>1, <3>1, <3>2 DEF LockHeldInside, Moves
  <2>4. CASE Duplicate(j) \/ KeepPlaintext(j) \/ SendDeliveryAck(j)
    <3>1. lock' = lock /\ job[j].phase \notin {"saving", "saved"}
      BY <2>4 DEF Duplicate, KeepPlaintext, SendDeliveryAck, InPhase
    <3>2. \E p \in {"acking", "done"} : Moves(j, p, job[j].session)
      BY <2>4, CallMoves
    <3> QED
      BY <1>1, <3>1, <3>2 DEF LockHeldInside, Moves
  <2> QED
    BY <1>5, <2>1, <2>2, <2>3, <2>4 DEF CallStep, Enter, Proceed
<1> QED
  BY <1>2, <1>3, <1>4, <1>5 DEF Next, TabStep, Request, CallStep

-----------------------------------------------------------------------------
(* The record                                                              *)

\* Once the record was taken back, that is remembered.
LEMMA RolledBackStays == Inv /\ Next /\ rolledBack => rolledBack'
BY DEF Next, OpenRoom, LoadRoom, LoadFail, InitSession, Derived, CloseRoom, LeaveRoom, Crash,
       SettleSave, RequestEncrypt, RequestDecrypt, Enter, EnterEncrypt, EnterDecrypt,
       Duplicate, Reject, Proceed, Save, LeaveEncrypt, LeaveDecrypt, KeepPlaintext,
       SendDeliveryAck

\* A save outside the lock that does not take the record back writes what is there,
\* or the first record.
LEMMA SettledIsDurable ==
    ASSUME Inv, NEW s \in saves, SettleSave(s), ~rolledBack, ~rolledBack'
    PROVE  Durable' = Durable
<1>1. s.session \in Session /\ AtMost(s.session, Durable) /\ TypeOK
  BY DEF Inv, TypeOK, Behind
<1>2. CASE stored' = stored
  BY <1>2 DEF Durable
<1>3. CASE stored' # stored
  <2>1. stored' = s.session /\ (stored # None => AtMost(stored, s.session))
    BY <1>3 DEF SettleSave
  <2>2. Durable' = s.session
    BY <1>1, <2>1, FreshIsSession DEF Durable
  <2>3. AtMost(Durable, s.session)
    BY <1>1, <2>1, AtMostIsOrder DEF Durable
  <2> QED
    BY <1>1, <2>2, <2>3, DurableIsSession, AtMostIsOrder
<1> QED
  BY <1>2, <1>3

\* As long as the record is not taken back, only the save under the lock moves it,
\* and forwards.
LEMMA DurableMoves ==
    ASSUME Inv, Next, ~rolledBack'
    PROVE  /\ ~rolledBack
           /\ Durable \in Session /\ Durable' \in Session
           /\ AtMost(Durable, Durable')
           /\ \/ Durable' = Durable
              \/ \E j \in Job : /\ Save(j) /\ Durable' = job[j].session
                                /\ stored' = job[j].session
<1>1. ~rolledBack
  BY RolledBackStays
<1>2. TypeOK /\ Durable \in Session
  BY DurableIsSession DEF Inv
<1>3. ASSUME NEW j \in Job, Save(j)
      PROVE  /\ Durable' = job[j].session /\ stored' = job[j].session
             /\ Durable' \in Session /\ AtMost(Durable, Durable')
  <2>1. stored' = job[j].session /\ job[j].phase = "saving" /\ job[j].session \in Session
    BY <1>3 DEF Save, InPhase, Inv, Carried
  <2>2. Durable' = job[j].session
    BY <2>1, FreshIsSession DEF Durable
  <2>3. AtMost(Durable, job[j].session)
    <3>1. j[2] \in Out \/ j[2] \in In
      BY DEF Job
    <3>2. CASE j[2] \in Out
      BY <1>1, <1>2, <2>1, <3>2, AdvanceTypes DEF Inv, OneFurther
    <3>3. CASE j[2] \in In
      BY <1>1, <1>2, <2>1, <3>3, AdvanceTypes DEF Inv, OneFurther
    <3> QED
      BY <3>1, <3>2, <3>3
  <2> QED
    BY <2>1, <2>2, <2>3
<1>4. CASE \E j \in Job : Save(j)
  BY <1>1, <1>2, <1>3, <1>4
<1>5. CASE ~\E j \in Job : Save(j)
  <2>1. Durable' = Durable
    <3>1. CASE \E s \in saves : SettleSave(s)
      BY <1>1, <3>1, SettledIsDurable
    <3>2. CASE \E t \in Tab : LeaveRoom(t)
      BY <3>2 DEF LeaveRoom, Durable
    <3>3. CASE ~(\E s \in saves : SettleSave(s)) /\ ~(\E t \in Tab : LeaveRoom(t))
      <4>1. stored' = stored
        BY <1>5, <3>3
        DEF Next, OpenRoom, LoadRoom, LoadFail, InitSession, Derived, CloseRoom, Crash,
            RequestEncrypt, RequestDecrypt, Enter, EnterEncrypt, EnterDecrypt,
            Duplicate, Reject, Proceed, LeaveEncrypt, LeaveDecrypt, KeepPlaintext,
            SendDeliveryAck
      <4> QED
        BY <4>1 DEF Durable
    <3> QED
      BY <3>1, <3>2, <3>3
  <2> QED
    BY <1>1, <1>2, <2>1, AtMostIsOrder
<1> QED
  BY <1>4, <1>5

\* As long as the record is not taken back, it does not go away either.
LEMMA RecordStays ==
    ASSUME Inv, Next, ~rolledBack', stored # None
    PROVE  stored' # None /\ stored' = Durable'
<1>1. CASE \E s \in saves : SettleSave(s)
  <2>1. PICK s \in saves : SettleSave(s)
    BY <1>1
  <2>2. s.session \in Session
    BY DEF Inv, TypeOK
  <2>3. stored' # None
    BY <2>1, <2>2, FreshIsSession DEF SettleSave
  <2> QED
    BY <2>3 DEF Durable
<1>2. CASE \E j \in Job : Save(j)
  <2>1. stored' # None
    BY <1>2, FreshIsSession DEF Save, InPhase, Inv, Carried
  <2> QED
    BY <2>1 DEF Durable
<1>3. CASE ~(\E s \in saves : SettleSave(s)) /\ ~(\E j \in Job : Save(j))
  <2>1. ~\E t \in Tab : LeaveRoom(t)
    BY DEF LeaveRoom
  <2>2. stored' = stored
    BY <1>3, <2>1
    DEF Next, OpenRoom, LoadRoom, LoadFail, InitSession, Derived, CloseRoom, Crash,
        RequestEncrypt, RequestDecrypt, Enter, EnterEncrypt, EnterDecrypt, Duplicate,
        Reject, Proceed, LeaveEncrypt, LeaveDecrypt, KeepPlaintext, SendDeliveryAck
  <2> QED
    BY <2>2 DEF Durable
<1> QED
  BY <1>1, <1>2, <1>3

\* The call that has saved carries the record.
LEMMA SavedIsDurable ==
    ASSUME Inv, ~rolledBack, NEW j \in Job, job[j].phase = "saved"
    PROVE  stored = job[j].session /\ stored # None /\ Durable = job[j].session
BY FreshIsSession DEF Inv, Carried, OneFurther, Durable

\* The call that is let in starts from the record, or from a fresh session.
LEMMA CurrentIsDurable ==
    ASSUME Inv, ~rolledBack, NEW j \in Job, job[j].phase = "waiting",
           j[2] \in Out \/ CurrentSession(j) # None
    PROVE  CurrentSession(j) = Durable
<1>1. CurrentSession(j) \in Session /\ j[1] \in Tab
  BY CurrentIsSession DEF Job
<1>2. CASE stored # None
  BY <1>2 DEF CurrentSession, Durable
<1>3. CASE stored = None
  <2>1. AtMost(CurrentSession(j), Fresh)
    <3>1. Durable = Fresh
      BY <1>3 DEF Durable
    <3>2. CASE j[2] \in Out
      BY <1>3, <3>1, <3>2 DEF Inv, Behind, CurrentSession
    <3>3. CASE j[2] \notin Out
      <4>1. CurrentSession(j) = ref[j[1]]
        BY <1>3, <3>3 DEF CurrentSession
      <4> QED
        BY <1>1, <3>1, <3>3, <4>1 DEF Inv, Behind
    <3> QED
      BY <3>2, <3>3
  <2> QED
    BY <1>1, <1>3, <2>1, FreshIsSession, AtMostIsOrder DEF Durable
<1> QED
  BY <1>2, <1>3

-----------------------------------------------------------------------------
(* Preservation                                                            *)

\* Memory is filled from the record, from a call that has saved it, or with a fresh
\* session; and the record only moves forwards.
LEMMA BehindStep == Inv /\ Next => Behind'
<1> SUFFICES ASSUME Inv, Next, ~rolledBack' PROVE Behind'
  BY DEF Behind
<1>1. /\ ~rolledBack /\ Durable \in Session /\ Durable' \in Session
      /\ AtMost(Durable, Durable')
  BY DurableMoves
<1>2. TypeOK /\ TypeOK' /\ Carried'
  BY TypesStep, CarriedStep DEF Inv
<1>3. /\ \A t \in Tab : ref[t] # None => AtMost(ref[t], Durable)
      /\ \A s \in saves : AtMost(s.session, Durable)
      /\ \A j \in Job : job[j].phase = "waiting" /\ j[2] \in Out
                            => AtMost(job[j].session, Durable)
  BY <1>1 DEF Inv, Behind
<1>4. AtMost(Fresh, Durable) /\ AtMost(Durable, Durable)
  BY <1>1, AtMostIsOrder
<1>5. ASSUME NEW t \in Tab, ref'[t] # None PROVE AtMost(ref'[t], Durable)
  <2>1. ref'[t] = ref[t] \/ ref'[t] = Durable \/ ref'[t] = Fresh
    <3>1. ASSUME NEW u \in Tab, TabStep(u)
          PROVE  ref'[t] = ref[t] \/ ref'[t] = Durable \/ ref'[t] = Fresh
      BY <1>2, <1>5, <3>1
      DEF TabStep, OpenRoom, LoadRoom, LoadFail, InitSession, Derived, CloseRoom, LeaveRoom,
          Crash, TypeOK, tabVars, Durable
    <3>2. ASSUME NEW j \in Job, CallStep(j)
          PROVE  ref'[t] = ref[t] \/ ref'[t] = Durable
      <4>1. CASE LeaveEncrypt(j) \/ LeaveDecrypt(j)
        <5>1. job[j].phase = "saved"
          BY <4>1 DEF LeaveEncrypt, LeaveDecrypt, InPhase
        <5>2. job[j].session = Durable
          BY <1>1, <5>1, SavedIsDurable
        <5> QED
          BY <1>2, <4>1, <5>2 DEF LeaveEncrypt, LeaveDecrypt, TypeOK
      <4>2. CASE ~LeaveEncrypt(j) /\ ~LeaveDecrypt(j)
        BY <3>2, <4>2
        DEF CallStep, Enter, Proceed, EnterEncrypt, EnterDecrypt, Duplicate, Reject,
            Save, KeepPlaintext, SendDeliveryAck, tabVars
      <4> QED
        BY <4>1, <4>2
    <3>3. ASSUME \/ \E s \in saves : SettleSave(s)
                 \/ \E u \in Tab : Request(u)
          PROVE  ref'[t] = ref[t]
      BY <3>3 DEF SettleSave, Request, RequestEncrypt, RequestDecrypt, tabVars
    <3> QED
      BY <3>1, <3>2, <3>3 DEF Next, TabStep, Request, CallStep
  <2> QED
    BY <1>3, <1>4, <1>5, <2>1
<1>6. ASSUME NEW s \in saves' PROVE AtMost(s.session, Durable)
  <2>1. CASE s \in saves
    BY <1>3, <2>1
  <2>2. CASE s \notin saves
    <3>1. \E t \in Tab : Derived(t) \/ CloseRoom(t)
      BY <1>6, <2>2
      DEF Next, OpenRoom, LoadRoom, LoadFail, InitSession, LeaveRoom, Crash, SettleSave,
          RequestEncrypt, RequestDecrypt, Enter, EnterEncrypt, EnterDecrypt, Duplicate,
          Reject, Proceed, Save, LeaveEncrypt, LeaveDecrypt, KeepPlaintext,
          SendDeliveryAck
    <3>2. s.session = Fresh \/ \E t \in Tab : ref[t] # None /\ s.session = ref[t]
      <4>1. CASE \E t \in Tab : Derived(t)
        <5>1. PICK t \in Tab : Derived(t)
          BY <4>1
        <5>2. s = [tab |-> t, session |-> Fresh, init |-> TRUE]
          BY <1>6, <2>2, <5>1 DEF Derived
        <5> QED
          BY <5>2
      <4>2. CASE \E t \in Tab : CloseRoom(t)
        BY <1>6, <2>2, <4>2 DEF CloseRoom
      <4> QED
        BY <3>1, <4>1, <4>2
    <3> QED
      BY <1>3, <1>4, <3>2
  <2> QED
    BY <2>1, <2>2
<1>7. ASSUME NEW j \in Job, job'[j].phase = "waiting", j[2] \in Out
      PROVE  AtMost(job'[j].session, Durable)
  <2>1. ASSUME NEW t \in Tab, TabStep(t)
        PROVE  job[j].phase = "waiting" /\ job'[j].session = job[j].session
    <3>1. CASE CloseRoom(t) \/ Crash(t)
      BY <1>7, <3>1, TabMoves
    <3>2. CASE ~CloseRoom(t) /\ ~Crash(t)
      BY <1>7, <2>1, <3>2
      DEF TabStep, OpenRoom, LoadRoom, LoadFail, InitSession, Derived, LeaveRoom
    <3> QED
      BY <3>1, <3>2
  <2>2. ASSUME NEW s \in saves, SettleSave(s)
        PROVE  job[j].phase = "waiting" /\ job'[j].session = job[j].session
    BY <1>7, <2>2 DEF SettleSave
  <2>3. ASSUME NEW t \in Tab, Request(t)
        PROVE  \/ job[j].phase = "waiting" /\ job'[j].session = job[j].session
               \/ ref[t] # None /\ job'[j].session = ref[t]
    <3>1. CASE \E o \in Out : RequestEncrypt(t, o)
      <4>1. PICK o \in Out : RequestEncrypt(t, o)
        BY <3>1
      <4>2. ref[t] # None /\ Moves(<<t, o>>, "waiting", ref[t])
        BY <4>1, RequestMoves, FreshIsSession
      <4> QED
        BY <1>7, <4>2 DEF Moves
    <3>2. CASE \E m \in In : RequestDecrypt(t, m)
      <4>1. PICK m \in In : RequestDecrypt(t, m)
        BY <3>2
      <4>2. m \notin Out /\ Moves(<<t, m>>, "waiting", None)
        BY <4>1, RequestMoves
      <4> QED
        BY <1>7, <4>2 DEF Moves
    <3> QED
      BY <2>3, <3>1, <3>2 DEF Request
  <2>4. ASSUME NEW i \in Job, CallStep(i)
        PROVE  job[j].phase = "waiting" /\ job'[j].session = job[j].session
    <3>1. \E p \in Phase \ {"waiting"} : \E s : Moves(i, p, s)
      BY <2>4, CallMovesOn
    <3> QED
      BY <1>7, <3>1 DEF Moves
  <2> QED
    BY <1>3, <1>7, <2>1, <2>2, <2>3, <2>4 DEF Next, TabStep, Request, CallStep
<1>8. \A t \in Tab : ref'[t] # None => AtMost(ref'[t], Durable')
  BY <1>1, <1>2, <1>5, AtMostIsOrder DEF TypeOK
<1>9. \A s \in saves' : AtMost(s.session, Durable')
  BY <1>1, <1>2, <1>6, AtMostIsOrder DEF TypeOK
<1>10. \A j \in Job : job'[j].phase = "waiting" /\ j[2] \in Out
                          => AtMost(job'[j].session, Durable')
  BY <1>1, <1>2, <1>7, AtMostIsOrder DEF Carried
<1> QED
  BY <1>8, <1>9, <1>10 DEF Behind, AtMost

\* A call keeps its phase and session, or it ends or is requested, or it moves on.
LEMMA Origins ==
    ASSUME Inv, Next, NEW k \in Job
    PROVE  \/ job'[k].phase = job[k].phase /\ job'[k].session = job[k].session
           \/ job'[k].phase \in {"idle", "waiting"}
           \/ CallStep(k)
<1>1. ASSUME NEW t \in Tab, TabStep(t)
      PROVE  \/ job'[k].phase = job[k].phase /\ job'[k].session = job[k].session
             \/ job'[k].phase = "idle"
  <2>1. CASE CloseRoom(t) \/ Crash(t)
    BY <2>1, TabMoves
  <2>2. CASE ~CloseRoom(t) /\ ~Crash(t)
    BY <1>1, <2>2
    DEF TabStep, OpenRoom, LoadRoom, LoadFail, InitSession, Derived, LeaveRoom
  <2> QED
    BY <2>1, <2>2
<1>2. ASSUME NEW s \in saves, SettleSave(s) PROVE job' = job
  BY <1>2 DEF SettleSave
<1>3. ASSUME NEW t \in Tab, Request(t) PROVE job'[k] = job[k] \/ job'[k].phase = "waiting"
  <2>1. \E j \in Job : \E s : Moves(j, "waiting", s)
    BY <1>3, RequestMoves DEF Request
  <2> QED
    BY <2>1 DEF Moves
<1>4. ASSUME NEW j \in Job, CallStep(j) PROVE job'[k] = job[k] \/ CallStep(k)
  <2>1. \E p \in Phase \ {"waiting"} : \E s : Moves(j, p, s)
    BY <1>4, CallMovesOn
  <2> QED
    BY <1>4, <2>1 DEF Moves
<1> QED
  BY <1>1, <1>2, <1>3, <1>4 DEF Next, TabStep, Request, CallStep

\* The record moves when the call inside the lock saves, and no other call is inside.
LEMMA OneFurtherStep == Inv /\ Next => OneFurther'
<1> SUFFICES ASSUME Inv, Next, ~rolledBack', NEW k \in Job
             PROVE  /\ job'[k].phase = "saving" /\ k[2] \in Out
                          => /\ Durable'.sent < MaxSent
                             /\ job'[k].session = [Durable' EXCEPT !.sent = @ + 1]
                    /\ job'[k].phase = "saving" /\ k[2] \in In
                          => /\ k[2] \notin Durable'.opened
                             /\ job'[k].session = [Durable' EXCEPT !.opened = @ \cup {k[2]}]
                    /\ job'[k].phase = "saved" => job'[k].session = stored'
  BY DEF OneFurther
<1>1. /\ ~rolledBack
      /\ \/ Durable' = Durable
         \/ \E j \in Job : /\ Save(j) /\ Durable' = job[j].session
                           /\ stored' = job[j].session
  BY DurableMoves
<1>2. /\ job[k].phase = "saving" /\ k[2] \in Out
            => /\ Durable.sent < MaxSent
               /\ job[k].session = [Durable EXCEPT !.sent = @ + 1]
      /\ job[k].phase = "saving" /\ k[2] \in In
            => /\ k[2] \notin Durable.opened
               /\ job[k].session = [Durable EXCEPT !.opened = @ \cup {k[2]}]
      /\ job[k].phase = "saved"
            => stored = job[k].session /\ stored # None /\ Durable = stored
  BY <1>1, SavedIsDurable DEF Inv, OneFurther
<1>3. k[2] \in Out => k[2] \notin In
  BY SetsAssumption
<1>4. CASE /\ job'[k].phase = job[k].phase /\ job'[k].session = job[k].session
           /\ job[k].phase \in {"saving", "saved"}
  <2>1. CASE Durable' = Durable
    <3>1. CASE job[k].phase = "saving"
      BY <1>2, <1>4, <2>1, <3>1
    <3>2. CASE job[k].phase = "saved"
      BY <1>2, <1>4, <2>1, <3>2, RecordStays
    <3> QED
      BY <1>4, <3>1, <3>2
  <2>2. ASSUME NEW j \in Job, Save(j) PROVE FALSE
    <3>1. job[j].phase = "saving" /\ Moves(j, "saved", job[j].session)
      BY <2>2, CallMoves DEF Save, InPhase
    <3>2. j = k
      BY <1>4, <3>1 DEF Inv, LockHeldInside
    <3> QED
      BY <1>4, <3>1, <3>2 DEF Moves
  <2> QED
    BY <1>1, <2>1, <2>2
<1>5. CASE job'[k].phase \notin {"saving", "saved"}
  BY <1>5
<1>6. CASE CallStep(k)
  <2>1. CASE EnterEncrypt(k)
    <3>1. k[2] \in Out /\ CurrentSession(k).sent < MaxSent /\ stored' = stored
          /\ job[k].phase = "waiting"
      BY <2>1 DEF EnterEncrypt, InPhase
    <3>2. CurrentSession(k) = Durable /\ Durable' = Durable
      BY <1>1, <3>1, CurrentIsDurable DEF Durable
    <3>3. job'[k].phase = "saving"
          /\ job'[k].session = [CurrentSession(k) EXCEPT !.sent = @ + 1]
      BY <2>1, CallMoves DEF Moves
    <3> QED
      BY <1>3, <3>1, <3>2, <3>3
  <2>2. CASE EnterDecrypt(k)
    <3>1. k[2] \in In /\ CurrentSession(k) # None /\ stored' = stored
          /\ k[2] \notin CurrentSession(k).opened /\ job[k].phase = "waiting"
      BY <2>2 DEF EnterDecrypt, InPhase
    <3>2. CurrentSession(k) = Durable /\ Durable' = Durable
      BY <1>1, <3>1, CurrentIsDurable DEF Durable
    <3>3. job'[k].phase = "saving"
          /\ job'[k].session = [CurrentSession(k) EXCEPT !.opened = @ \cup {k[2]}]
      BY <2>2, CallMoves DEF Moves
    <3> QED
      BY <1>3, <3>1, <3>2, <3>3
  <2>3. CASE Save(k)
    <3>1. job'[k].phase = "saved" /\ job'[k].session = job[k].session
      BY <2>3, CallMoves DEF Moves
    <3> QED
      BY <2>3, <3>1 DEF Save
  <2>4. CASE ~EnterEncrypt(k) /\ ~EnterDecrypt(k) /\ ~Save(k)
    <3>1. job'[k].phase \notin {"saving", "saved"}
      BY <1>6, <2>4, CallMoves DEF CallStep, Enter, Proceed, Moves
    <3> QED
      BY <3>1
  <2> QED
    BY <2>1, <2>2, <2>3, <2>4
<1> QED
  BY <1>4, <1>5, <1>6, Origins

\* Opened messages come from the record or from a call that saved them.
LEMMA OpenedStep == Inv /\ Next => OpenedIsSpent'
<1> SUFFICES ASSUME Inv, Next, ~rolledBack' PROVE OpenedIsSpent'
  BY DEF OpenedIsSpent
<1>1. ~rolledBack /\ Durable.opened \subseteq Durable'.opened
  BY DurableMoves DEF AtMost
<1>2. /\ acked \subseteq Durable.opened /\ transcript \subseteq Durable.opened
      /\ \A t \in Tab : keys[t] \subseteq Durable.opened
      /\ \A j \in Job : job[j].phase \in {"rendering", "acking"}
                            => j[2] \in Durable.opened
  BY <1>1 DEF Inv, OpenedIsSpent
<1>3. TypeOK
  BY DEF Inv
<1>4. ASSUME NEW j \in Job, LeaveDecrypt(j) PROVE j[2] \in Durable.opened
  <2>1. j[2] \in job[j].session.opened /\ job[j].phase = "saved"
    BY <1>4 DEF Inv, Carried, LeaveDecrypt, InPhase
  <2> QED
    BY <1>1, <2>1, SavedIsDurable
<1>5. ASSUME NEW m \in acked' PROVE m \in Durable.opened
  <2>1. m \in acked \/ \E j \in Job : SendDeliveryAck(j) /\ m = j[2]
    BY <1>5
    DEF Next, OpenRoom, LoadRoom, LoadFail, InitSession, Derived, CloseRoom, LeaveRoom, Crash,
        SettleSave, RequestEncrypt, RequestDecrypt, Enter, EnterEncrypt, EnterDecrypt,
        Duplicate, Reject, Proceed, Save, LeaveEncrypt, LeaveDecrypt, KeepPlaintext,
        SendDeliveryAck
  <2> QED
    BY <1>2, <2>1 DEF SendDeliveryAck, InPhase
<1>6. ASSUME NEW m \in transcript' PROVE m \in Durable.opened
  <2>1. m \in transcript \/ \E j \in Job : KeepPlaintext(j) /\ m = j[2]
    BY <1>6
    DEF Next, OpenRoom, LoadRoom, LoadFail, InitSession, Derived, CloseRoom, LeaveRoom, Crash,
        SettleSave, RequestEncrypt, RequestDecrypt, Enter, EnterEncrypt, EnterDecrypt,
        Duplicate, Reject, Proceed, Save, LeaveEncrypt, LeaveDecrypt, KeepPlaintext,
        SendDeliveryAck
  <2> QED
    BY <1>2, <2>1 DEF KeepPlaintext, InPhase
<1>7. ASSUME NEW t \in Tab, NEW m \in keys'[t] PROVE m \in Durable.opened
  <2>1. \/ m \in keys[t] \/ m \in transcript
        \/ \E j \in Job : LeaveDecrypt(j) /\ m = j[2]
    <3>1. ASSUME NEW u \in Tab, TabStep(u) PROVE m \in keys[t] \/ m \in transcript
      BY <1>3, <1>7, <3>1
      DEF TabStep, OpenRoom, LoadRoom, LoadFail, InitSession, Derived, CloseRoom, LeaveRoom,
          Crash, TypeOK, tabVars
    <3>2. ASSUME NEW j \in Job, CallStep(j)
          PROVE  m \in keys[t] \/ (LeaveDecrypt(j) /\ m = j[2])
      <4>1. CASE LeaveDecrypt(j)
        BY <1>3, <1>7, <4>1 DEF LeaveDecrypt, TypeOK
      <4>2. CASE ~LeaveDecrypt(j)
        BY <1>7, <3>2, <4>2
        DEF CallStep, Enter, Proceed, EnterEncrypt, EnterDecrypt, Duplicate, Reject,
            Save, LeaveEncrypt, KeepPlaintext, SendDeliveryAck, tabVars
      <4> QED
        BY <4>1, <4>2
    <3>3. ASSUME \/ \E s \in saves : SettleSave(s)
                 \/ \E u \in Tab : Request(u)
          PROVE  m \in keys[t]
      BY <1>7, <3>3 DEF SettleSave, Request, RequestEncrypt, RequestDecrypt, tabVars
    <3> QED
      BY <3>1, <3>2, <3>3 DEF Next, TabStep, Request, CallStep
  <2> QED
    BY <1>2, <1>4, <2>1
<1>8. ASSUME NEW k \in Job, job'[k].phase \in {"rendering", "acking"}
      PROVE  k[2] \in Durable.opened
  <2>1. CASE job'[k].phase = job[k].phase
    BY <1>2, <1>8, <2>1
  <2>2. CASE CallStep(k)
    <3>1. CASE Duplicate(k)
      BY <1>2, <3>1 DEF Duplicate, Job
    <3>2. CASE LeaveDecrypt(k)
      BY <1>4, <3>2
    <3>3. CASE KeepPlaintext(k)
      BY <1>2, <3>3 DEF KeepPlaintext, InPhase
    <3>4. CASE ~Duplicate(k) /\ ~LeaveDecrypt(k) /\ ~KeepPlaintext(k)
      BY <1>8, <2>2, <3>4, CallMoves DEF CallStep, Enter, Proceed, Moves
    <3> QED
      BY <3>1, <3>2, <3>3, <3>4
  <2> QED
    BY <1>8, <2>1, <2>2, Origins
<1> QED
  BY <1>1, <1>5, <1>6, <1>7, <1>8 DEF OpenedIsSpent

\* A number goes out when its call leaves, and the next one is sealed behind it.
LEMMA NumbersStep == Inv /\ Next => NumbersBehind'
<1> SUFFICES ASSUME Inv, Next, ~rolledBack' PROVE NumbersBehind'
  BY DEF NumbersBehind
<1>1. /\ ~rolledBack /\ Durable \in Session /\ Durable' \in Session
      /\ Durable.sent <= Durable'.sent
  BY DurableMoves DEF AtMost
<1>2. Durable.sent \in Nat /\ Durable'.sent \in Nat /\ \A e \in sealed : e.n \in Int
  <2>1. sealed \subseteq [n : 0 .. MaxSent - 1, by : Job]
    BY DEF Inv, TypeOK
  <2>2. Durable.sent \in Nat /\ Durable'.sent \in Nat
    BY <1>1, BoundsAssumption DEF Session
  <2> QED
    BY <2>1, <2>2, BoundsAssumption
<1>3. /\ NoNumberReuse /\ \A e \in sealed : e.n < Durable.sent
      /\ \A j \in Job : job[j].phase = "saved" /\ j[2] \in Out
                            => \A e \in sealed : e.n < NumberSealed(job[j].session)
  BY <1>1 DEF Inv, NumbersBehind
<1>4. ASSUME NEW j \in Job, LeaveEncrypt(j)
      PROVE  /\ job[j].phase = "saved" /\ j[2] \in Out
             /\ NumberSealed(job[j].session) = Durable.sent - 1
             /\ sealed' = sealed \cup {[n |-> NumberSealed(job[j].session), by |-> j]}
  <2>1. job[j].phase = "saved" /\ j[2] \in Out
        /\ sealed' = sealed \cup {[n |-> NumberSealed(job[j].session), by |-> j]}
    BY <1>4 DEF LeaveEncrypt, InPhase
  <2>2. job[j].session = Durable
    BY <1>1, <2>1, SavedIsDurable
  <2> QED
    BY <2>1, <2>2 DEF NumberSealed
<1>5. sealed' = sealed \/ \E j \in Job : LeaveEncrypt(j)
  BY DEF Next, OpenRoom, LoadRoom, LoadFail, InitSession, Derived, CloseRoom, LeaveRoom, Crash,
         SettleSave, RequestEncrypt, RequestDecrypt, Enter, EnterEncrypt, EnterDecrypt,
         Duplicate, Reject, Proceed, Save, LeaveDecrypt, KeepPlaintext, SendDeliveryAck
<1>6. NoNumberReuse' /\ \A e \in sealed' : e.n < Durable'.sent
  <2>1. CASE sealed' = sealed
    BY <1>1, <1>2, <1>3, <2>1 DEF NoNumberReuse
  <2>2. CASE \E j \in Job : LeaveEncrypt(j)
    <3>1. PICK j \in Job : LeaveEncrypt(j)
      BY <2>2
    <3> DEFINE new == [n |-> NumberSealed(job[j].session), by |-> j]
    <3>2. new.n = Durable.sent - 1 /\ \A e \in sealed : e.n < new.n
      BY <1>3, <1>4, <3>1
    <3>3. sealed' = sealed \cup {new}
      BY <1>4, <3>1
    <3> HIDE DEF new
    <3>4. \A e \in sealed' : e.n < Durable'.sent
      BY <1>1, <1>2, <1>3, <3>2, <3>3
    <3>5. NoNumberReuse'
      BY <1>2, <1>3, <3>2, <3>3 DEF NoNumberReuse
    <3> QED
      BY <3>4, <3>5
  <2> QED
    BY <1>5, <2>1, <2>2
<1>7. ASSUME NEW k \in Job, job'[k].phase = "saved", k[2] \in Out
      PROVE  \A e \in sealed' : e.n < NumberSealed(job'[k].session)
  <2>1. CASE job'[k].phase = job[k].phase /\ job'[k].session = job[k].session
    <3>1. sealed' = sealed
      <4>1. ASSUME NEW j \in Job, LeaveEncrypt(j) PROVE FALSE
        <5>1. j = k
          BY <1>4, <1>7, <2>1, <4>1 DEF Inv, LockHeldInside
        <5> QED
          BY <1>7, <4>1, <5>1, CallMoves DEF Moves
      <4> QED
        BY <1>5, <4>1
    <3> QED
      BY <1>3, <1>7, <2>1, <3>1
  <2>2. CASE CallStep(k)
    <3>1. Save(k)
      BY <1>7, <2>2, CallMoves DEF CallStep, Enter, Proceed, Moves
    <3>2. job'[k].session = job[k].session /\ job[k].phase = "saving" /\ sealed' = sealed
      BY <3>1, CallMoves DEF Moves, Save, InPhase
    <3>3. Durable.sent < MaxSent /\ job[k].session = [Durable EXCEPT !.sent = @ + 1]
      BY <1>1, <1>7, <3>2 DEF Inv, OneFurther
    <3>4. job[k].session.sent = Durable.sent + 1
      BY <1>1, <3>3, AdvanceTypes
    <3>5. NumberSealed(job'[k].session) = Durable.sent
      BY <1>2, <3>2, <3>4 DEF NumberSealed
    <3> QED
      BY <1>3, <3>2, <3>5
  <2> QED
    BY <1>7, <2>1, <2>2, Origins
<1> QED
  BY <1>6, <1>7 DEF NumbersBehind, NumberSealed

LEMMA StutterInv == Inv /\ UNCHANGED vars => Inv'
<1> SUFFICES ASSUME Inv, UNCHANGED vars PROVE Inv'
  OBVIOUS
<1>1. TypeOK'
  BY DEF Inv, vars, TypeOK
<1>2. Carried' /\ LockHeldInside'
  BY DEF Inv, vars, Carried, LockHeldInside
<1>3. Durable' = Durable
  BY DEF vars, Durable
<1>4. Behind'
  BY <1>3 DEF Inv, vars, Behind, AtMost
<1>5. OneFurther' /\ OpenedIsSpent'
  BY <1>3 DEF Inv, vars, OneFurther, OpenedIsSpent
<1>6. NumbersBehind'
  BY <1>3 DEF Inv, vars, NumbersBehind, NoNumberReuse, NumberSealed
<1> QED
  BY <1>1, <1>2, <1>4, <1>5, <1>6 DEF Inv

LEMMA InvHolds == Spec => []Inv
<1>1. Inv /\ Next => Inv'
  BY TypesStep, CarriedStep, LockStep, BehindStep, OneFurtherStep, OpenedStep, NumbersStep
  DEF Inv
<1>2. Inv /\ [Next]_vars => Inv'
  BY <1>1, StutterInv
<1> QED
  BY InitInv, <1>2, PTL DEF Spec

-----------------------------------------------------------------------------
(* Theorems                                                                *)

\* The variables keep their types, and no number lies beyond the sending chain.
THEOREM TypeCorrect == Spec => []TypeOK
<1>1. Inv => TypeOK
  BY DEF Inv
<1> QED
  BY InvHolds, <1>1, PTL

\* The session in the memory of a tab is never ahead of the record, unless a write
\* outside the lock took the record back.
THEOREM RefNotAheadHolds == Spec => []RefNotAhead
<1>1. Inv => RefNotAhead
  BY DEF Inv, Behind, Durable, RefNotAhead
<1> QED
  BY InvHolds, <1>1, PTL

\* What was acknowledged to the peer is spent in the record, as long as no write
\* outside the lock took the record back.
THEOREM AckedIsSpentHolds == Spec => []AckedIsSpent
<1>1. Inv => AckedIsSpent
  <2> SUFFICES ASSUME Inv, ~rolledBack, NEW m \in acked
               PROVE  stored # None /\ m \in stored.opened
    BY DEF AckedIsSpent
  <2>1. m \in Durable.opened
    BY DEF Inv, OpenedIsSpent
  <2> QED
    BY <2>1 DEF Durable, Fresh
<1> QED
  BY InvHolds, <1>1, PTL

\* No number of the sending chain seals two messages, in whatever tabs, as long as no
\* write outside the lock takes the record back.
THEOREM ReuseNeedsRollbackHolds == Spec => []ReuseNeedsRollback
<1>1. Inv => ReuseNeedsRollback
  BY DEF Inv, NumbersBehind, ReuseNeedsRollback
<1> QED
  BY InvHolds, <1>1, PTL

-----------------------------------------------------------------------------
(* The tabs implement SerialSession                                        *)

HeldBy(j) == [n |-> NumberSealed(job[j].session), by |-> j]

\* What is held is the message of the one call that has saved and not left.
HeldIsSaved ==
    /\ \A j \in Tab \X Out : job[j].phase = "saved" => Held = HeldBy(j)
    /\ (\A j \in Tab \X Out : job[j].phase # "saved") => Held = None

LEMMA HeldIsOfHolder == Inv => HeldIsSaved
<1> SUFFICES ASSUME Inv PROVE HeldIsSaved
  OBVIOUS
<1> DEFINE holding == {j \in Tab \X Out : InPhase(j, "saved")}
<1>1. \A i, j \in holding : i = j
  BY DEF Inv, LockHeldInside, InPhase, Job
<1>2. Held = IF holding = {} THEN None
             ELSE LET j == CHOOSE j \in holding : TRUE IN HeldBy(j)
  BY DEF Held, HeldBy
<1>3. \A j \in holding : Held = HeldBy(j)
  BY <1>1, <1>2
<1>4. holding = {} => Held = None
  BY <1>2
<1> QED
  BY <1>3, <1>4 DEF HeldIsSaved, InPhase

\* A step that leaves the saved calls alone leaves what is held.
LEMMA HeldStays ==
    ASSUME HeldIsSaved, HeldIsSaved',
           \A k \in Tab \X Out :
               /\ job'[k].phase = "saved" <=> job[k].phase = "saved"
               /\ job[k].phase = "saved" => job'[k].session = job[k].session
    PROVE  Held' = Held
<1>1. CASE \E k \in Tab \X Out : job[k].phase = "saved"
  <2>1. PICK k \in Tab \X Out : job[k].phase = "saved"
    BY <1>1
  <2>2. Held = HeldBy(k) /\ Held' = HeldBy(k)'
    BY <2>1 DEF HeldIsSaved
  <2>3. HeldBy(k)' = HeldBy(k)
    BY <2>1 DEF HeldBy, NumberSealed
  <2> QED
    BY <2>2, <2>3
<1>2. CASE ~\E k \in Tab \X Out : job[k].phase = "saved"
  BY <1>2 DEF HeldIsSaved
<1> QED
  BY <1>1, <1>2

\* The abstract session moves by the save of a call: from the record on, or from a
\* fresh session, with nothing held.
LEMMA SaveRefines ==
    ASSUME Inv, Inv', NEW j \in Job, Save(j), ~rolledBack, HeldIsSaved, HeldIsSaved'
    PROVE  Serial!Next
<1>1. /\ job[j].phase = "saving" /\ stored' = job[j].session
      /\ sealed' = sealed /\ rolledBack' = rolledBack
  BY DEF Save, InPhase
<1>2. \A k \in Job : job[k].phase # "saved"
  BY <1>1 DEF Inv, LockHeldInside
<1>3. Held = None
  BY <1>2 DEF HeldIsSaved, Job
<1>4. Moves(j, "saved", job[j].session)
  BY CallMoves
<1>5. Serial!Current = Durable
  BY DEF Serial!Current, Durable, Fresh
<1>6. Durable \in Session
  BY DurableIsSession DEF Inv
<1>7. CASE j[2] \in Out
  <2>1. j \in Tab \X Out
    BY <1>7 DEF Job
  <2>2. Durable.sent < MaxSent /\ job[j].session = [Durable EXCEPT !.sent = @ + 1]
    BY <1>1, <1>7 DEF Inv, OneFurther
  <2>3. Held' = HeldBy(j)'
    BY <2>1, <1>4 DEF HeldIsSaved, Moves
  <2>4. NumberSealed(job[j].session) = Durable.sent
    <3>1. Durable.sent \in Nat
      BY <1>6, BoundsAssumption DEF Session
    <3>2. job[j].session.sent = Durable.sent + 1
      BY <1>6, <2>2, AdvanceTypes
    <3> QED
      BY <3>1, <3>2 DEF NumberSealed
  <2>5. job'[j].session = job[j].session
    BY <1>4 DEF Moves
  <2>6. Held' = [n |-> Durable.sent, by |-> j]
    BY <2>3, <2>4, <2>5 DEF HeldBy, NumberSealed
  <2>7. Serial!Seal(j)
    BY <1>1, <1>3, <1>5, <2>2, <2>6 DEF Serial!Seal
  <2> QED
    BY <2>1, <2>7 DEF Serial!Next
<1>8. CASE j[2] \in In
  <2>1. j[2] \notin Durable.opened
        /\ job[j].session = [Durable EXCEPT !.opened = @ \cup {j[2]}]
    BY <1>1, <1>8 DEF Inv, OneFurther
  <2>2. j \notin Tab \X Out
    BY <1>8, SetsAssumption
  <2>3. \A k \in Tab \X Out : job'[k].phase # "saved"
    BY <1>2, <1>4, <2>2 DEF Moves, Job
  <2>4. Held' = None
    BY <2>3 DEF HeldIsSaved
  <2>5. Serial!Open(j[2])
    BY <1>1, <1>3, <1>5, <2>1, <2>4 DEF Serial!Open
  <2> QED
    BY <1>8, <2>5 DEF Serial!Next
<1> QED
  BY <1>7, <1>8 DEF Job

\* The message goes out when its call leaves.
LEMMA LeaveRefines ==
    ASSUME Inv, Inv', NEW j \in Job, LeaveEncrypt(j), HeldIsSaved, HeldIsSaved', ~rolledBack
    PROVE  Serial!Next
<1>1. /\ job[j].phase = "saved" /\ j[2] \in Out /\ j \in Tab \X Out
      /\ sealed' = sealed \cup {HeldBy(j)}
      /\ stored' = stored /\ rolledBack' = rolledBack
  BY DEF LeaveEncrypt, InPhase, HeldBy, Job
<1>2. Held = HeldBy(j)
  BY <1>1 DEF HeldIsSaved
<1>3. HeldBy(j) # None
  <2>1. HeldBy(j) \in sealed'
    BY <1>1
  <2> QED
    BY <2>1, NoSessionAssumption DEF Inv, TypeOK
<1>4. Moves(j, "done", None)
  BY CallMoves
<1>5. \A k \in Job : job'[k].phase # "saved"
  BY <1>1, <1>4 DEF Inv, LockHeldInside, Moves
<1>6. Held' = None
  BY <1>5 DEF HeldIsSaved, Job
<1>7. Serial!Release
  BY <1>1, <1>2, <1>3, <1>6 DEF Serial!Release
<1> QED
  BY <1>7 DEF Serial!Next

\* A tab that closes between the save and the end of its call loses the message.
LEMMA CrashRefines ==
    ASSUME Inv, Inv', NEW t \in Tab, Crash(t), HeldIsSaved, HeldIsSaved', ~rolledBack
    PROVE  [Serial!Next]_Serial!vars
<1>1. stored' = stored /\ sealed' = sealed /\ rolledBack' = rolledBack
  BY DEF Crash
<1>2. \A k \in Job : IF k[1] = t THEN job'[k].phase = "idle" ELSE job'[k] = job[k]
  BY TabMoves
<1>3. CASE \E k \in Tab \X Out : job[k].phase = "saved" /\ k[1] = t
  <2>1. PICK k \in Tab \X Out : job[k].phase = "saved" /\ k[1] = t
    BY <1>3
  <2>2. k \in Job
    BY DEF Job
  <2>3. Held = HeldBy(k)
    BY <2>1 DEF HeldIsSaved
  <2>4. HeldBy(k) # None
    <3>1. job[k].session \in Session /\ job[k].session.sent > 0
      BY <2>1, <2>2 DEF Inv, Carried
    <3>2. NumberSealed(job[k].session) \in 0 .. MaxSent - 1
      BY <3>1, BoundsAssumption DEF NumberSealed, Session
    <3> QED
      BY <2>2, <3>2, NoSessionAssumption DEF HeldBy
  <2>5. \A i \in Job : job'[i].phase # "saved"
    BY <1>2, <2>1, <2>2 DEF Inv, LockHeldInside
  <2>6. Held' = None
    BY <2>5 DEF HeldIsSaved, Job
  <2>7. Serial!Release
    BY <1>1, <2>3, <2>4, <2>6 DEF Serial!Release
  <2> QED
    BY <2>7 DEF Serial!Next
<1>4. CASE ~\E k \in Tab \X Out : job[k].phase = "saved" /\ k[1] = t
  <2>1. \A k \in Tab \X Out :
            /\ job'[k].phase = "saved" <=> job[k].phase = "saved"
            /\ job[k].phase = "saved" => job'[k].session = job[k].session
    BY <1>2, <1>4 DEF Job
  <2>2. Held' = Held
    BY <2>1, HeldStays
  <2> QED
    BY <1>1, <2>2 DEF Serial!vars
<1> QED
  BY <1>3, <1>4

\* A save outside the lock is the first of the session, or changes nothing.
LEMMA SettleRefines ==
    ASSUME Inv, Inv', NEW s \in saves, SettleSave(s), HeldIsSaved, HeldIsSaved',
           ~rolledBack, ~rolledBack'
    PROVE  [Serial!Next]_Serial!vars
<1>1. job' = job /\ sealed' = sealed
  BY DEF SettleSave
<1>2. Held' = Held
  BY <1>1, HeldStays
<1>3. rolledBack' = rolledBack
  BY DEF Inv, TypeOK
<1>4. Durable' = Durable
  BY SettledIsDurable
<1>5. CASE stored' = stored
  BY <1>1, <1>2, <1>3, <1>5 DEF Serial!vars
<1>6. CASE stored' # stored
  <2>1. stored' = s.session /\ stored' # None
    <3>1. s.session \in Session
      BY DEF Inv, TypeOK
    <3> QED
      BY <1>6, <3>1, FreshIsSession DEF SettleSave
  <2>2. stored' = Durable
    BY <1>4, <2>1 DEF Durable
  <2>3. stored = None
    BY <1>6, <2>2 DEF Durable
  <2>4. Serial!Derive
    BY <1>1, <1>2, <1>3, <2>2, <2>3 DEF Serial!Derive, Serial!Current, Durable, Fresh
  <2> QED
    BY <2>4 DEF Serial!Next
<1> QED
  BY <1>5, <1>6

\* Every other step leaves the record, what is held and what went out.
LEMMA OtherRefines ==
    ASSUME Inv, Inv', Next, HeldIsSaved, HeldIsSaved', ~rolledBack, ~rolledBack',
           ~\E j \in Job : Save(j) \/ LeaveEncrypt(j),
           ~\E t \in Tab : Crash(t),
           ~\E s \in saves : SettleSave(s)
    PROVE  UNCHANGED Serial!vars
<1>1. stored' = stored /\ sealed' = sealed
  BY DEF Next, OpenRoom, LoadRoom, LoadFail, InitSession, Derived, CloseRoom, LeaveRoom,
         RequestEncrypt, RequestDecrypt, Enter, EnterEncrypt, EnterDecrypt, Duplicate,
         Reject, Proceed, LeaveDecrypt, KeepPlaintext, SendDeliveryAck
<1>2. rolledBack' = rolledBack
  BY DEF Inv, TypeOK
<1>3. ASSUME NEW k \in Tab \X Out
      PROVE  /\ job'[k].phase = "saved" <=> job[k].phase = "saved"
             /\ job[k].phase = "saved" => job'[k].session = job[k].session
  <2>1. k \in Job /\ k[2] \in Out /\ k[2] \notin In
    BY SetsAssumption DEF Job
  <2>2. ASSUME NEW t \in Tab, TabStep(t)
        PROVE  job'[k].phase = job[k].phase /\ job'[k].session = job[k].session
    <3>1. CASE CloseRoom(t)
      BY <2>1, <3>1, TabMoves
    <3>2. CASE ~CloseRoom(t)
      BY <2>2, <3>2
      DEF TabStep, OpenRoom, LoadRoom, LoadFail, InitSession, Derived, LeaveRoom
    <3> QED
      BY <3>1, <3>2
  <2>3. ASSUME NEW t \in Tab, Request(t)
        PROVE  job'[k] = job[k] \/ (job'[k].phase = "waiting" /\ job[k].phase # "saved")
    <3>1. \E j \in Job : \E s : /\ Moves(j, "waiting", s)
                                /\ job[j].phase \notin {"saving", "saved"}
      BY <2>3, RequestMoves DEF Request, RequestEncrypt, RequestDecrypt, InPhase
    <3> QED
      BY <2>1, <3>1 DEF Moves
  <2>4. ASSUME NEW j \in Job, CallStep(j)
        PROVE  job'[k] = job[k] \/ (job'[k].phase # "saved" /\ job[k].phase # "saved")
    <3>1. CASE j = k
      <4>1. ~Save(k) /\ ~LeaveEncrypt(k) /\ ~LeaveDecrypt(k)
        BY <2>1 DEF LeaveDecrypt
      <4>2. job[k].phase # "saved"
        BY <2>4, <3>1, <4>1
        DEF CallStep, Enter, Proceed, EnterEncrypt, EnterDecrypt, Duplicate, Reject,
            KeepPlaintext, SendDeliveryAck, InPhase
      <4>3. job'[k].phase # "saved"
        BY <2>4, <3>1, <4>1, CallMoves DEF CallStep, Enter, Proceed, Moves
      <4> QED
        BY <4>2, <4>3
    <3>2. CASE j # k
      <4>1. \E p \in Phase \ {"waiting"} : \E s : Moves(j, p, s)
        BY <2>4, CallMovesOn
      <4> QED
        BY <2>1, <3>2, <4>1 DEF Moves
    <3> QED
      BY <3>1, <3>2
  <2> QED
    BY <2>2, <2>3, <2>4 DEF Next, TabStep, Request, CallStep
<1>4. Held' = Held
  BY <1>3, HeldStays
<1> QED
  BY <1>1, <1>2, <1>4 DEF Serial!vars

\* The comment of withRatchetLock, "serializes every ratchet state transition": over
\* all tabs the durable session moves as SerialSession says, until a write outside the
\* lock takes it back.
THEOREM Refinement == Spec => ImplementsSerialSession
<1>1. Init => Serial!Init
  <2> SUFFICES ASSUME Init PROVE Serial!Init
    OBVIOUS
  <2>1. Held = None
    BY InitInv, HeldIsOfHolder DEF Init, Idle, HeldIsSaved, Job
  <2> QED
    BY <2>1 DEF Init, Serial!Init
<1>2. ASSUME Inv, Inv', [Next]_vars, HeldIsSaved, HeldIsSaved'
      PROVE  [Serial!Next]_Serial!vars
  <2>1. CASE Next /\ rolledBack'
    BY <2>1 DEF Inv, TypeOK, Serial!Next, Serial!TakeBack
  <2>2. CASE Next /\ ~rolledBack'
    <3>1. ~rolledBack
      BY <2>2, RolledBackStays, <1>2
    <3>2. CASE \E j \in Job : Save(j) \/ LeaveEncrypt(j)
      BY <1>2, <3>1, <3>2, SaveRefines, LeaveRefines
    <3>3. CASE \E t \in Tab : Crash(t)
      BY <1>2, <3>1, <3>3, CrashRefines
    <3>4. CASE \E s \in saves : SettleSave(s)
      BY <1>2, <2>2, <3>1, <3>4, SettleRefines
    <3>5. CASE /\ ~\E j \in Job : Save(j) \/ LeaveEncrypt(j)
               /\ ~\E t \in Tab : Crash(t)
               /\ ~\E s \in saves : SettleSave(s)
      BY <1>2, <2>2, <3>1, <3>5, OtherRefines
    <3> QED
      BY <3>2, <3>3, <3>4, <3>5
  <2>3. CASE UNCHANGED vars
    <3>1. Held' = Held
      BY <2>3 DEF vars, Held, InPhase, NumberSealed
    <3> QED
      BY <2>3, <3>1 DEF vars, Serial!vars
  <2> QED
    BY <1>2, <2>1, <2>2, <2>3
<1> QED
  BY InvHolds, HeldIsOfHolder, <1>1, <1>2, PTL
  DEF Spec, ImplementsSerialSession, Serial!Spec
=============================================================================
