---------------------------- MODULE MCRegistration ----------------------------
(* Instances of Registration for TLC: two hosts with the same name. *)
EXTENDS Registration, TLC

CONSTANTS a1, a2, base, x, y, z, k1, k2, k3, k4, k5, k6, k7, q1, q2, q3

SameSlug == [a \in Agents |-> base]
=============================================================================
