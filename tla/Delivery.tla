------------------------------- MODULE Delivery -------------------------------
(***************************************************************************)
(* What the outbox promises the user of each message: it is written, sealed *)
(* by the ratchet, opened by the peer and only then let go of, in this     *)
(* order.  A message may be taken in again later (a flush still works on a *)
(* copy of it), and may be sealed and opened again.                        *)
(***************************************************************************)
EXTENDS Naturals

CONSTANT NumMsgs  \* how many messages the user writes

VARIABLES
    written,  \* how many messages were written
    kept,     \* the messages that wait in the outbox
    sealed,   \* the messages that were encrypted
    opened    \* the messages that the peer has opened

vars == <<written, kept, sealed, opened>>

Init == written = 0 /\ kept = {} /\ sealed = {} /\ opened = {}

Write ==
    /\ written < NumMsgs
    /\ written' = written + 1
    /\ kept' = kept \cup {written'}
    /\ UNCHANGED <<sealed, opened>>

\* A message of the user is taken in, and perhaps sealed.
Keep(m) ==
    /\ kept' = kept \cup {m}
    /\ sealed' \in {sealed, sealed \cup {m}}
    /\ UNCHANGED <<written, opened>>

Open(m) ==
    /\ m \in sealed
    /\ opened' = opened \cup {m}
    /\ UNCHANGED <<written, kept, sealed>>

LetGo(m) ==
    /\ m \in opened
    /\ kept' = kept \ {m}
    /\ UNCHANGED <<written, sealed, opened>>

Next ==
    \/ Write
    \/ \E m \in 1 .. written : Keep(m) \/ Open(m) \/ LetGo(m)

Spec == Init /\ [][Next]_vars
=============================================================================
