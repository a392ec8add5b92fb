--------------------------- MODULE MCServiceLock ---------------------------
(* Model values and small sets for TLC; see the README for the bounds. *)
EXTENDS ServiceLock

CONSTANTS a, b, none

MCServices == {a, b}

\* Nothing tells the two services apart: a behaviour in which b is the first one there
\* is has a mirror image in which a is, and every property is the same in a mirror.
\* (Without a legacy lock there is no service at first, and FirstIsA holds there.)
FirstIsA == svc[b] = NoSvc \/ created > 1
CreateFirstA(s) == CreateService(s) /\ FirstIsA'
NextFirstA ==
    \/ Worker \/ ObserveRoles \/ Collect \/ Restart
    \/ \E s \in Services : \/ ObserveService(s) \/ Resync(s)
                           \/ CreateFirstA(s) \/ DeleteService(s)
MCFairSpec == Init /\ [][NextFirstA]_vars /\ Fairness
=============================================================================
