--------------------------- MODULE MCAdminSessions ---------------------------
(* Instances of AdminSessions for TLC. *)
EXTENDS AdminSessions, TLC

CONSTANTS desk, t1, t2, r1, r2

\* Two tabs of one browser.
TwoTabs == t1 :> desk @@ t2 :> desk

Symmetry == Permutations(Requests) \cup Permutations(Tabs)
=============================================================================
