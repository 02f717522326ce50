---------------------------- MODULE MCHealthReport ----------------------------
(* Instances of HealthReport for TLC. *)
EXTENDS HealthReport, TLC

CONSTANTS i1, i2, m, n, x, y, r1, r2

UpDown == [a \in Addrs |-> IF a = x THEN "healthy" ELSE "unhealthy"]
=============================================================================
