------------------------------ MODULE MCKeyAudit ------------------------------
(* Model checking of KeyAudit: keys and audits are interchangeable.         *)
EXTENDS KeyAudit, TLC

Symmetry == Permutations(Key) \cup Permutations(Call)
=============================================================================
