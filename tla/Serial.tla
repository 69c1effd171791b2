------------------------------- MODULE Serial -------------------------------
(* RFC 1982 serial numbers as zones/serial.go compares them, in a serial    *)
(* space of Modulus values (2^32 in the program).                           *)
EXTENDS Integers

CONSTANT Modulus

ASSUME ModulusAssumption == Modulus \in Nat /\ Modulus >= 4 /\ Modulus % 2 = 0

Serials == 0..(Modulus - 1)

\* bumpSerialSQL: the increment wraps.
Bump(s) == (s + 1) % Modulus

\* The distance forward from b to a, as uint32 subtraction computes it.
Forward(a, b) == (a - b) % Modulus

\* Neither equal serials nor two exactly half the space apart are "newer".
SerialNewer(a, b) == Forward(a, b) # 0 /\ Forward(a, b) < Modulus \div 2
=============================================================================
