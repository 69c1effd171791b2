---------------------------- MODULE MCSecondary ----------------------------
(* Instances of Secondary for TLC.                                         *)
EXTENDS Secondary, TLC

CONSTANTS f1, o1, o2

\* A PATCH leaves the zone a secondary, enabled or not, or makes it a primary.
SomeSettings == {[type |-> "secondary", enabled |-> TRUE], [type |-> "secondary", enabled |-> FALSE],
                 [type |-> "primary", enabled |-> TRUE]}

\* Two PATCHes, or one and an edit of the primary.
SomeSpent == {[edits |-> 1, patches |-> 0], [edits |-> 0, patches |-> 1]}

OperatorSymmetry == Permutations(Operators)
=============================================================================
