---------------------------- MODULE MCFrpcManager ----------------------------
(* Instances of FrpcManager for TLC. *)
EXTENDS FrpcManager, TLC

CONSTANTS loop, r1, s1, s2, s3, s4
=============================================================================
