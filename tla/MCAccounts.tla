------------------------------ MODULE MCAccounts ------------------------------
(* Model checking of Accounts: names are interchangeable, and so are keys.    *)
EXTENDS Accounts, TLC

Symmetry == Permutations(Name) \cup Permutations(Key)
=============================================================================
