---------------------------- MODULE MCControlLoop ----------------------------
(* Instances of ControlLoop for TLC. *)
EXTENDS ControlLoop, TLC

CONSTANTS t1, t2, a, b, h1, h2, p1, p2

NoFaults == {}
ServerAlive == FaultKinds \ {"lostBump", "serverCrash", "rowError"}

(* Handlers, payloads and publishers are interchangeable. Tunnels are not: *)
(* only some of them expire.                                               *)
Symmetry == Permutations(Admins) \cup Permutations(Payloads) \cup Permutations(Publishers)
=============================================================================
