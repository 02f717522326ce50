------------------------------- MODULE Rollout -------------------------------
(***************************************************************************)
(* What the control loop promises about one gateway, without versions,    *)
(* handlers or messages: the desired config changes, changes get          *)
(* announced, the gateway moves forward along the changes, never back,    *)
(* and only ever claims a config it has already reached.                  *)
(***************************************************************************)
EXTENDS Integers, Sequences

CONSTANT Config

VARIABLES
    history,    \* the desired configs so far, the last one is in force
    announced,  \* the change that was last announced
    live,       \* the config the gateway runs or last ran; 0 before the first
    claimed     \* the announcement the agent says it has applied; 0 if none

vars == <<history, announced, live, claimed>>

Init ==
    /\ \E c \in Config : history = <<c>>
    /\ announced = 1 /\ live = 0 /\ claimed = 0

Change ==
    /\ \E c \in Config : history' = Append(history, c)
    /\ UNCHANGED <<announced, live, claimed>>

Announce ==
    /\ announced' = Len(history)
    /\ UNCHANGED <<history, live, claimed>>

(* Any config at least as recent as the present one can be put into force *)
(* next: the pull may have skipped changes, or have been slow.             *)
Deploy ==
    /\ live' \in live..Len(history)
    /\ UNCHANGED <<history, announced, claimed>>

(* A restarted agent may claim less than before.                          *)
Claim ==
    /\ claimed' \in 0..live /\ claimed' <= announced
    /\ UNCHANGED <<history, announced, live>>

Next == Change \/ Announce \/ Deploy \/ Claim

Spec == Init /\ [][Next]_vars

=============================================================================
