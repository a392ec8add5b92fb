--------------------------- MODULE ActivationLock ---------------------------
(***************************************************************************)
(* What the AlamedaService lock promises, without saying how: of all the   *)
(* AlamedaServices of a cluster at most one is active, a service becomes   *)
(* active only while it holds the lock, and the lock changes hands only    *)
(* through being free, never while its holder is active.  ServiceLock is   *)
(* the operator's way of keeping this promise.                             *)
(***************************************************************************)

CONSTANTS
    Services,    \* the namespaced names of AlamedaServices
    NoService    \* the holder of a free lock

VARIABLES
    holder,      \* the service the lock is annotated with
    active       \* the services whose status says "not paused"

vars == <<holder, active>>

Init ==
    /\ holder = NoService
    /\ active = {}

Acquire(s) ==
    /\ holder = NoService
    /\ active = {}
    /\ holder' = s
    /\ UNCHANGED active

\* The owner of the lock, and nobody else, is told that it is active.
Activate(s) ==
    /\ holder = s
    /\ active' = active \union {s}
    /\ UNCHANGED holder

\* A service stops being active when it is deleted.
Deactivate(s) ==
    /\ s \in active
    /\ active' = active \ {s}
    /\ UNCHANGED holder

Release ==
    /\ holder \notin active
    /\ holder' = NoService
    /\ UNCHANGED active

Next ==
    \/ \E s \in Services : Acquire(s) \/ Activate(s) \/ Deactivate(s)
    \/ Release

Spec == Init /\ [][Next]_vars

----------------------------------------------------------------------------
\* Only the holder of the lock is active, so two services never both are.
OnlyHolderActive == active \subseteq {holder}
=============================================================================
