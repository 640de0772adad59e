---------------------------- MODULE SecureChannel ----------------------------
(***************************************************************************)
(* What the ratchet promises its user, without keys: each participant       *)
(* sends numbered messages, and opens a message of the other one at most    *)
(* once, only if it was sent, in any order.                                 *)
(***************************************************************************)
EXTENDS Integers

CONSTANTS Party, MaxMsgs

VARIABLES
    count,      \* count[p]: how many messages p has sent
    received    \* received[p][i]: how often p opened the other's i-th message

vars == <<count, received>>

MsgId == 1 .. MaxMsgs

Init ==
    /\ count = [p \in Party |-> 0]
    /\ received = [p \in Party |-> [i \in MsgId |-> 0]]

Send(p) ==
    /\ count' = [count EXCEPT ![p] = @ + 1]
    /\ UNCHANGED received

Receive(p, from, i) ==
    /\ p # from
    /\ i <= count[from]
    /\ received[p][i] = 0
    /\ received' = [received EXCEPT ![p][i] = 1]
    /\ UNCHANGED count

Next ==
    \/ \E p \in Party : Send(p)
    \/ \E p, from \in Party, i \in MsgId : Receive(p, from, i)

Spec == Init /\ [][Next]_vars
=============================================================================
