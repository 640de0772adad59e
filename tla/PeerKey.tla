------------------------------- MODULE PeerKey -------------------------------
(***************************************************************************)
(* The identity keys of the peer of a room: the P-256 keys that            *)
(* ensureKeys of crypto.ts generates and exports.  Modules KeyAudit and    *)
(* PeerVerification follow what the browser does with them.                *)
(***************************************************************************)
CONSTANTS
    Key,  \* the identity keys the peer may come to generate
    None  \* no key, no record of one, no call about one

ASSUME KeyAssumption == None \notin Key
=============================================================================
