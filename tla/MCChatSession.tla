---------------------------- MODULE MCChatSession ----------------------------
(* Model checking of ChatSession: the tabs are interchangeable.              *)
EXTENDS ChatSession, TLC

Symmetry == Permutations(Tab)
=============================================================================
