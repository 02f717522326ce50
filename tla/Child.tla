--------------------------------- MODULE Child ---------------------------------
(***************************************************************************)
(* What the frpc manager promises: never two frpc processes that serve at   *)
(* the same time, and each one serves the config that was installed when it *)
(* began.                                                                   *)
(***************************************************************************)
EXTENDS Integers

VARIABLES
    installed,  \* the number of the installed config, 0 before the first
    serving     \* the configs of the processes that serve

vars == <<installed, serving>>

Init == installed = 0 /\ serving = {}

Install ==
    /\ installed' \in Nat
    /\ UNCHANGED serving

Serve ==
    /\ serving = {} /\ serving' = {installed}
    /\ UNCHANGED installed

Lose ==
    /\ serving' = {}
    /\ UNCHANGED installed

Next == Install \/ Serve \/ Lose

Spec == Init /\ [][Next]_vars

=============================================================================
