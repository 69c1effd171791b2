----------------------------- MODULE MCRouting -----------------------------
(* Instances of Routing for TLC.                                           *)
EXTENDS Routing

CONSTANTS e1, e2, a1, a2, q1, q2, u1

\* A suffix that may be claimed, and a name beneath it.
OneApex == {<<"corp">>}
OneName == {<<"corp", "x">>}
=============================================================================
