-------------------------- MODULE ExposurePromise --------------------------
(***************************************************************************)
(* What the operator promises about the exposed Services: stated over the  *)
(* state ServiceExposure has.                                              *)
(***************************************************************************)
CONSTANT Services    \* the Services that may be exposed

VARIABLES
    protected,   \* whether operands are watched
    exposures,   \* the exposures asked for, spec.serviceExposures
    passQueued,  \* whether the service is in the work queue
    pass,        \* the reconcile in progress
    objects,     \* the Services in the API server
    behind,      \* the names whose latest version the informer has not delivered
    disturbed    \* history: the spec was edited before the last one was applied, or
                 \* the cache was behind when the Services to delete were listed

\* The Services in the cluster: that of a component and "<name>-node-port".
Base(s) == <<s, "base">>
NodePort(s) == <<s, "node-port">>
NoObject == [exists |-> FALSE, labelled |-> FALSE, ports |-> {}]

\* What is made of an exposure.  Its ports replace those of the Service, whether it
\* has them or not.
WantedObject(exposure) == [exists |-> TRUE, labelled |-> TRUE, ports |-> exposure.ports]

\* A Service and its exposure are in the cluster as the spec asks.
AsAsked(s) ==
    /\ objects[Base(s)].exists
    /\ objects[Base(s)].labelled = (exposures[s].kind = "plain")
    /\ objects[NodePort(s)] =
          IF exposures[s].kind = "ports" THEN WantedObject(exposures[s]) ELSE NoObject
AllAsAsked == \A s \in Services : AsAsked(s)

Undisturbed == protected \/ ~disturbed

\* When the operator has come to rest and the informer has delivered everything,
\* the exposures are as asked: no failure, stale read or restart on the way leaves
\* one out that nothing queues.  Without operand protection, nothing brings back
\* what a stale list or an edit in between has cost.
RestMeansExposed ==
    pass.pc = "idle" /\ ~passQueued /\ behind = {} /\ Undisturbed => AllAsAsked
=============================================================================
