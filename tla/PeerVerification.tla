--------------------------- MODULE PeerVerification ---------------------------
(***************************************************************************)
(* The trust state of the peer of one room in one tab:                     *)
(* usePeerVerification.ts, the panel it is shown in                        *)
(* (PeerVerificationPanel.tsx) and the verification record of              *)
(* localEncryptedStore.ts.  A key stands for itself, for its fingerprint   *)
(* and for the safety number derived from it.                              *)
(*                                                                         *)
(* refresh, markVerified and resetVerification await the hash and          *)
(* IndexedDB and then set the state of the hook, whatever has happened to  *)
(* the identity meanwhile.                                                 *)
(***************************************************************************)
EXTENDS PeerKey

CONSTANT RefreshCall  \* the calls of refresh that may be under way at once

VARIABLES
    identity,   \* peerIdentity
    safety,     \* safetyNumber on the screen
    status,
    record,     \* the key of the verification record
    refresh,    \* the calls of refresh under way
    mark,       \* the call of markVerified under way
    reset,      \* the call of resetVerification under way
    about,      \* history: the key of the call that set the status last
    confirmed,  \* history: the keys whose number the user confirmed
    disturbed   \* history: calls have overlapped or failed since a fresh start

screen == <<safety, status, about>>
trustVars == <<identity, screen, record, refresh, mark, reset, confirmed, disturbed>>

\* "found": there is a record; "verified": it is of this key; "live": the effect
\* that called was not cleaned up.
Refresh == [key : Key, at : {"hashing", "reading", "checking", "done"},
            found : BOOLEAN, verified : BOOLEAN, live : BOOLEAN]

\* "number" is the one on the screen when the call began.
Mark == [number : Key, at : {"saving", "saved"}]
Reset == [key : Key, number : Key \cup {None}, at : {"deleting", "deleted"}]

ASSUME CallAssumption == None \notin Refresh \cup Mark \cup Reset

TrustInit ==
    /\ identity = None /\ safety = None /\ status = "no_peer" /\ record = None
    /\ refresh = [c \in RefreshCall |-> None]
    /\ mark = None /\ reset = None
    /\ about = None /\ confirmed = {} /\ disturbed = FALSE

Quiet == mark = None /\ reset = None /\ \A c \in RefreshCall : refresh[c] = None

\* A step that starts a call; showing a peer, or none, makes a fresh start.
Begin == disturbed' = (disturbed \/ ~Quiet)
FreshStart == disturbed' = ~Quiet

\* The clean-up of the effect: its call of refresh may no longer report an error.
Cancelled == [c \in RefreshCall |-> IF refresh[c] = None THEN None
                             ELSE [refresh[c] EXCEPT !.live = FALSE]]

-----------------------------------------------------------------------------
(* The identity of the peer                                                *)

\* A public_key frame: a new identity object, even for the same key, and with it a
\* new call of refresh.
ShowPeer(k, c) ==
    /\ refresh[c] = None
    /\ identity' = k
    /\ refresh' = [Cancelled EXCEPT ![c] = [key |-> k, at |-> "hashing", found |-> FALSE,
                                            verified |-> FALSE, live |-> TRUE]]
    /\ FreshStart
    /\ UNCHANGED <<screen, record, mark, reset, confirmed>>

NoPeer == /\ safety' = None /\ status' = "no_peer" /\ about' = None
          /\ refresh' = Cancelled
          /\ FreshStart

\* The same, as long as the user has no key pair: refresh returns at once.
ShowPeerKeyless(k) ==
    /\ identity' = k
    /\ NoPeer
    /\ UNCHANGED <<record, mark, reset, confirmed>>

\* A room is opened: its peer is not known yet.
ShowNone ==
    /\ identity # None
    /\ identity' = None
    /\ NoPeer
    /\ UNCHANGED <<record, mark, reset, confirmed>>

\* The page is reloaded: of a call under way remains what it has stored.
ReloadPage ==
    /\ identity' = None /\ safety' = None /\ status' = "no_peer" /\ about' = None
    /\ refresh' = [c \in RefreshCall |-> None]
    /\ mark' = None /\ reset' = None
    /\ disturbed' = FALSE
    /\ UNCHANGED <<record, confirmed>>

-----------------------------------------------------------------------------
(* refresh                                                                 *)

At(c, at) == refresh[c] # None /\ refresh[c].at = at

\* deriveSafetyNumber
RefreshHash(c) ==
    /\ At(c, "hashing")
    /\ refresh' = [refresh EXCEPT ![c].at = "reading"]
    /\ UNCHANGED <<identity, screen, record, mark, reset, confirmed, disturbed>>

\* getPeerVerification
RefreshRead(c) ==
    /\ At(c, "reading")
    /\ refresh' = [refresh EXCEPT ![c].at = "checking", ![c].found = (record # None)]
    /\ UNCHANGED <<identity, screen, record, mark, reset, confirmed, disturbed>>

\* Fault: the fingerprint is not compared.
FaultyIsVerifiedForKey(k) == record # None

\* isPeerVerifiedForKey reads the record again.
IsVerifiedForKey(k) == record = k

RefreshCheck(c) ==
    /\ At(c, "checking")
    /\ refresh' = [refresh EXCEPT ![c].at = "done",
                                  ![c].verified = IsVerifiedForKey(refresh[c].key)]
    /\ UNCHANGED <<identity, screen, record, mark, reset, confirmed, disturbed>>

\* Fault: a record of another key counts for nothing.
FaultyStatusOf(r) == IF r.verified THEN "verified" ELSE "unverified"

StatusOf(r) == IF r.verified THEN "verified"
               ELSE IF r.found THEN "key_changed" ELSE "unverified"

\* The state is set, although a later call may have set it already.
RefreshApply(c) ==
    /\ At(c, "done")
    /\ safety' = refresh[c].key
    /\ status' = StatusOf(refresh[c])
    /\ about' = refresh[c].key
    /\ refresh' = [refresh EXCEPT ![c] = None]
    /\ UNCHANGED <<identity, record, mark, reset, confirmed, disturbed>>

\* IndexedDB or the hash fails; only the call of the present effect says so.
RefreshFail(c) ==
    /\ refresh[c] # None /\ refresh[c].at # "done"
    /\ IF refresh[c].live THEN status' = "unverified" /\ about' = refresh[c].key
       ELSE UNCHANGED <<status, about>>
    /\ refresh' = [refresh EXCEPT ![c] = None]
    /\ disturbed' = TRUE
    /\ UNCHANGED <<identity, safety, record, mark, reset, confirmed>>

-----------------------------------------------------------------------------
(* markVerified and resetVerification, from the panel                      *)

\* The user has compared the number on the screen and confirms it.  The buttons
\* are never disabled; one call at a time is a bound.
MarkStart ==
    /\ mark = None /\ identity # None /\ safety # None
    /\ mark' = [number |-> safety, at |-> "saving"]
    /\ confirmed' = confirmed \cup {safety}
    /\ Begin
    /\ UNCHANGED <<identity, screen, record, refresh, reset>>

\* Fault: the record is of the peer's present key, whatever was confirmed.
FaultyRecorded(number) == IF identity = None THEN number ELSE identity

\* markPeerVerified stores what was on the screen.
Recorded(number) == number

MarkSave ==
    /\ mark # None /\ mark.at = "saving"
    /\ record' = Recorded(mark.number)
    /\ mark' = [mark EXCEPT !.at = "saved"]
    /\ UNCHANGED <<identity, screen, refresh, reset, confirmed, disturbed>>

MarkDone ==
    /\ mark # None /\ mark.at = "saved"
    /\ status' = "verified" /\ about' = mark.number
    /\ mark' = None
    /\ UNCHANGED <<identity, safety, record, refresh, reset, confirmed, disturbed>>

MarkFail ==
    /\ mark # None /\ mark.at = "saving"
    /\ mark' = None
    /\ UNCHANGED <<identity, screen, record, refresh, reset, confirmed, disturbed>>

ResetStart ==
    /\ reset = None /\ identity # None /\ status \in {"verified", "key_changed"}
    /\ reset' = [key |-> identity, number |-> safety, at |-> "deleting"]
    /\ Begin
    /\ UNCHANGED <<identity, screen, record, refresh, mark, confirmed>>

\* clearPeerVerification
ResetDelete ==
    /\ reset # None /\ reset.at = "deleting"
    /\ record' = None
    /\ reset' = [reset EXCEPT !.at = "deleted"]
    /\ UNCHANGED <<identity, screen, refresh, mark, confirmed, disturbed>>

ResetDone ==
    /\ reset # None /\ reset.at = "deleted"
    /\ status' = (IF reset.number # None THEN "unverified" ELSE "no_peer")
    /\ about' = reset.key
    /\ reset' = None
    /\ UNCHANGED <<identity, safety, record, refresh, mark, confirmed, disturbed>>

ResetFail ==
    /\ reset # None /\ reset.at = "deleting"
    /\ reset' = None
    /\ UNCHANGED <<identity, screen, record, refresh, mark, confirmed, disturbed>>

-----------------------------------------------------------------------------

TrustNext ==
    \/ \E k \in Key : ShowPeerKeyless(k) \/ \E c \in RefreshCall : ShowPeer(k, c)
    \/ ShowNone \/ ReloadPage
    \/ \E c \in RefreshCall : \/ RefreshHash(c) \/ RefreshRead(c) \/ RefreshCheck(c)
                       \/ RefreshApply(c) \/ RefreshFail(c)
    \/ MarkStart \/ MarkSave \/ MarkDone \/ MarkFail
    \/ ResetStart \/ ResetDelete \/ ResetDone \/ ResetFail

TrustSpec == TrustInit /\ [][TrustNext]_trustVars

-----------------------------------------------------------------------------
(* Properties                                                              *)

\* The types of the variables; a number on the screen and a status other than
\* "no_peer" were set by a call about a key.
TrustTypeOK ==
    /\ identity \in Key \cup {None} /\ safety \in Key \cup {None}
    /\ status \in {"no_peer", "unverified", "verified", "key_changed"}
    /\ record \in Key \cup {None}
    /\ refresh \in [RefreshCall -> Refresh \cup {None}]
    /\ mark \in Mark \cup {None} /\ reset \in Reset \cup {None}
    /\ about \in Key \cup {None} /\ confirmed \subseteq Key /\ disturbed \in BOOLEAN
    /\ about = None => status = "no_peer"

\* Only a number that was on the screen when the user confirmed it is ever recorded
\* as verified, though the key of the peer may change while the panel is open or
\* while the record is being written.
ConfirmedOnly == record # None => record \in confirmed

\* "Verified" is never said of a key that the user did not confirm, by a call about
\* that key: neither a record of another key nor a late call can bring it about.
VerifiedWasConfirmed == status = "verified" => about \in confirmed

\* What the status says of the peer's present key, by the record.
Agrees ==
    CASE identity = None -> status = "no_peer"
      [] identity # None /\ record = identity -> status \in {"verified", "no_peer"}
      [] identity # None /\ record = None -> status \in {"unverified", "no_peer"}
      [] OTHER -> status \in {"key_changed", "no_peer"}

\* After calls that did not overlap and did not fail, the status is what the record
\* says of the present key: "verified" for the key confirmed, "key changed" for
\* another one, and neither after a reset.
StatusAgrees == Quiet /\ ~disturbed => Agrees

\* What the documents promise of a change of the key and the code does not keep: once
\* everything has settled, "verified" is shown only if the present key was confirmed.
VerifiedIsCurrent == Quiet /\ status = "verified" => identity \in confirmed
=============================================================================
