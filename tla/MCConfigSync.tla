---------------------------- MODULE MCConfigSync ----------------------------
(***************************************************************************)
(* The instance of ConfigSync that TLC checks.                             *)
(***************************************************************************)
EXTENDS ConfigSync

CONSTANTS ma, mb, m1, m2

\* Two clients; the second main and the box hold the two matchers swapped.
TwoClients == [i \in {1, 2} |-> IF i = 1 THEN ma ELSE mb]
Swapped == [i \in {1, 2} |-> IF i = 1 THEN mb ELSE ma]
ByMain == [m \in {m1, m2} |-> IF m = m1 THEN TwoClients ELSE Swapped]

\* Two pairings and an event; or one pairing, with the first main, and two
\* events: the second main's code has run out.
NoCodes == [m \in {m1, m2} |-> 0]
OneSpent == {<<0, 1, NoCodes>>, <<1, 0, [NoCodes EXCEPT ![m2] = 1]>>}
=============================================================================
