----------------------------- MODULE MCKeycode -----------------------------
(* Model values and the settings of the runs; see the README for the bounds. *)
EXTENDS Keycode

CONSTANTS a, b, none

MCCodes == {a, b}

\* Users who wait, while calls to the repository fail.
WaitingUsers ==
    [racing |-> FALSE, deletable |-> FALSE, leftOver |-> {a}, maxWrites |-> 4,
     canFail |-> {"list", "delete", "add", "poll", "sign"}, maxFailures |-> 2]
\* The same, with answers that are lost and restarts.
UncertainCalls ==
    [WaitingUsers EXCEPT !.maxWrites = 2, !.maxFailures = 1,
        !.canFail = {"lostDelete", "lostAdd", "lostSign", "restart"}]
\* Every failure, edits at any time, services deleted and created again.
Rough ==
    [racing |-> TRUE, deletable |-> TRUE, leftOver |-> {a, b}, maxWrites |-> 2,
     canFail |-> Failures, maxFailures |-> 1]

FlowSettings == {WaitingUsers, UncertainCalls, Rough}

\* Users who write during a reconcile.
RacingUsers ==
    [racing |-> TRUE, deletable |-> FALSE, leftOver |-> {}, maxWrites |-> 3,
     canFail |-> {}, maxFailures |-> 0]
RacingSettings == {RacingUsers}
\* A write-back that fails.
LostRequeueSettings ==
    {[RacingUsers EXCEPT !.racing = FALSE, !.canFail = {"update"}, !.maxFailures = 1]}
=============================================================================
