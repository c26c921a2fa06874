----------------------------- MODULE MCCartTabs -----------------------------
(* Instances of CartTabs for TLC. *)
EXTENDS CartTabs, TLC

Symmetry == Permutations(Tabs) \cup Permutations(Products)
=============================================================================
