--------------------------- MODULE MCLockLiveness ---------------------------
(* Two scenarios of the lock in one run: in "failures" every call may fail and an *)
(* old lock may be around, as the configuration says; in "cleanup" the calls on   *)
(* the lock and the deletion of the GC role work.                                 *)
EXTENDS MCServiceLock

VARIABLE scenario

C == INSTANCE ServiceLock WITH
        LegacyLock <- FALSE, CanFail <- {"createGC", "updateService", "install"}

InCleanup == scenario = "cleanup"

MCInit == /\ \/ InCleanup /\ C!Init
             \/ scenario = "failures" /\ Init
          /\ FirstIsA
MCWorker == \/ InCleanup /\ C!Worker
            \/ ~InCleanup /\ Worker
MCNext == (MCWorker \/ Environment) /\ FirstIsA' /\ UNCHANGED scenario

\* The fairness of ServiceLock, with the worker of the scenario.
MCFairness ==
    /\ WF_vars(MCWorker)
    /\ WF_vars(ObserveRoles) /\ WF_vars(CollectLock)
    /\ WF_vars(CollectRoles) /\ WF_vars(CollectWebhooks)
    /\ \A s \in Services :
          /\ SF_vars(Take(s))
          /\ WF_vars(ObserveService(s)) /\ WF_vars(Resync(s))
          /\ WF_vars(CollectService(s))

MCSpec == MCInit /\ [][MCNext]_<<vars, scenario>> /\ MCFairness

\* As long as the calls on the lock and the deletion of the GC role work, nothing
\* cluster-scoped stays behind when the last service is deleted.
CleanupLeaksNothing == InCleanup => NothingLeaks
=============================================================================
