---------------------------- MODULE SerialSession ----------------------------
(***************************************************************************)
(* What the ratchet lock promises of a session that several tabs work on:  *)
(* the session moves by whole operations, one at a time, each from where   *)
(* the one before left it, and the message of a sealing operation goes out *)
(* under the number that the operation moved past, or not at all.  Once    *)
(* the session was taken back by a write that is none of the operations,   *)
(* nothing is promised any more.                                           *)
(***************************************************************************)
EXTENDS Naturals

CONSTANTS
    By,    \* who seals: a message of a tab
    In,    \* messages to be opened
    Max,   \* bound: the sending chain stops here
    None   \* no session, nothing sealed

VARIABLES
    session, \* how many messages were sealed, and which were opened
    held,    \* the message sealed last, until it goes out or is lost
    sealed,  \* the messages that went out, each with its number
    taken    \* the session was taken back

vars == <<session, held, sealed, taken>>

Init == session = None /\ held = None /\ sealed = {} /\ taken = FALSE

Current == IF session = None THEN [sent |-> 0, opened |-> {}] ELSE session

Derive ==
    /\ session = None
    /\ session' = Current
    /\ UNCHANGED <<held, sealed, taken>>

Seal(b) ==
    /\ held = None /\ Current.sent < Max
    /\ session' = [Current EXCEPT !.sent = @ + 1]
    /\ held' = [n |-> Current.sent, by |-> b]
    /\ UNCHANGED <<sealed, taken>>

\* The message goes out, or its tab closes first.
Release ==
    /\ held # None
    /\ held' = None
    /\ sealed' \in {sealed, sealed \cup {held}}
    /\ UNCHANGED <<session, taken>>

Open(m) ==
    /\ held = None /\ m \notin Current.opened
    /\ session' = [Current EXCEPT !.opened = @ \cup {m}]
    /\ UNCHANGED <<held, sealed, taken>>

TakeBack == taken' = TRUE

Next ==
    \/ TakeBack
    \/ /\ ~taken
       /\ \/ Derive \/ Release
          \/ \E b \in By : Seal(b)
          \/ \E m \in In : Open(m)

Spec == Init /\ [][Next]_vars
=============================================================================
