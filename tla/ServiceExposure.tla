-------------------------- MODULE ServiceExposure --------------------------
(***************************************************************************)
(* The Services of an AlamedaService and their exposure on node ports.     *)
(*                                                                         *)
(* syncService creates the Services of the components and replaces those   *)
(* that differ.  syncServiceExposure then labels what spec.serviceExposures*)
(* asks for: a Service of its own on the given node ports or, when no      *)
(* ports are given, the Service itself.  In the end it deletes the         *)
(* labelled Services nobody asks for.  Both read a cache that may lag      *)
(* behind their own writes, and the API server gives a node port to one    *)
(* Service only.  Without operand protection, a pass is skipped when the   *)
(* spec is the recorded one.                                               *)
(***************************************************************************)
EXTENDS Integers, FiniteSets, ExposurePromise

CONSTANTS
    Ports,        \* the node ports
    AllowPlain,   \* whether an exposure may leave its ports out
    Protection,   \* with operand protection or without: a set of BOOLEAN
    CanFail,      \* the kinds of failure considered: "call", "restart"
    MaxFailures,  \* bound on failures,
    MaxEdits      \* and on edits of the spec

\* What is asked for a Service: nothing, an exposure without ports or one on ports.
Unexposed == [kind |-> "none", ports |-> {}]
Plain     == [kind |-> "plain", ports |-> {}]
OnPorts(ports) == [kind |-> "ports", ports |-> ports]
Exposure  == {Unexposed} \union (IF AllowPlain THEN {Plain} ELSE {})
                 \union {OnPorts(ports) : ports \in SUBSET Ports \ {{}}}

\* spec.serviceExposures.  No port is asked for twice.
SpecType ==
    {s \in [Services -> Exposure] :
        \A a, b \in Services : a # b => s[a].ports \intersect s[b].ports = {}}

Names == Services \X {"base", "node-port"}
Object == [exists : {TRUE}, labelled : BOOLEAN, ports : SUBSET Ports] \union {NoObject}
Manifest == [exists |-> TRUE, labelled |-> FALSE, ports |-> {}]

VARIABLES
    recorded,   \* the spec in the annotation
    first,      \* whether this process has reconciled the service once
    cache,      \* the Services in the informer's cache
    failures,   \* failures so far
    edits       \* edits so far

vars == <<protected, exposures, recorded, first, passQueued, pass, objects, cache,
          behind, disturbed, failures, edits>>
specVars == <<exposures, recorded, edits>>

Never == [s \in Services |-> [kind |-> "never", ports |-> {}]]
PassType == [pc : {"idle", "base", "expose", "prune", "record"}, exposures : SpecType,
             todo : SUBSET Services]

ExposureTypeOK ==
    /\ protected \in Protection
    /\ exposures \in SpecType /\ recorded \in SpecType \union {Never}
    /\ first \in BOOLEAN /\ passQueued \in BOOLEAN /\ disturbed \in BOOLEAN
    /\ pass \in PassType
    /\ objects \in [Names -> Object] /\ cache \in [Names -> Object]
    /\ behind \subseteq Names
    /\ \A n \in Names \ behind : cache[n] = objects[n]
    /\ failures \in 0 .. MaxFailures
    /\ edits \in 0 .. MaxEdits

-----------------------------------------------------------------------------
(* The API server *)

Put(changed) ==
    /\ objects' = changed
    /\ behind' = behind \union {n \in Names : changed[n] # objects[n]}
    /\ UNCHANGED cache
NoWrite == UNCHANGED <<objects, cache, behind>>

\* A node port belongs to one Service.
Taken(n, object) ==
    \E m \in Names \ {n} : objects[m].ports \intersect object.ports # {}
CreateRefused(n, object) == objects[n].exists \/ Taken(n, object)
\* An update carries the version of the cache.
UpdateRefused(n, object) == n \in behind \/ Taken(n, object)

-----------------------------------------------------------------------------
(* The reconcile *)

At(pc) == pass.pc = pc
Fails(f) == f \in CanFail /\ failures < MaxFailures /\ failures' = failures + 1
Succeeds == UNCHANGED failures
FailsIf(refused, f) == IF refused THEN Succeeds ELSE Fails(f)
Requeue == pass' = [pass EXCEPT !.pc = "idle", !.todo = {}] /\ passQueued' = TRUE
Done(s) == pass' = [pass EXCEPT !.todo = @ \ {s}] /\ UNCHANGED passQueued
Goto(pc, todo) ==
    pass' = [pass EXCEPT !.pc = pc, !.todo = todo] /\ UNCHANGED passQueued
Disturb(now) == disturbed' = (disturbed \/ now)
\* Nothing but Services changes.
Syncing == UNCHANGED <<protected, specVars, first>>

\* The reconcile is skipped when there is nothing new.
Take ==
    /\ At("idle") /\ passQueued /\ passQueued' = FALSE
    /\ IF ~protected /\ first /\ exposures = recorded THEN UNCHANGED pass
       ELSE pass' = [pc |-> "base", exposures |-> exposures, todo |-> Services]
    /\ Syncing /\ NoWrite /\ Succeeds /\ UNCHANGED disturbed

\* syncService: one Service after the other, in the order of the list.  What is
\* not seen is created; what differs is deleted and created.
SyncBase ==
    /\ At("base") /\ pass.todo # {}
    /\ LET s == CHOOSE x \in pass.todo : TRUE
           n == Base(s)
           differs == cache[n].exists /\ cache[n].labelled
           refused == IF differs THEN ~objects[n].exists ELSE objects[n].exists
       IN  \/ /\ cache[n].exists /\ ~differs
              /\ Done(s) /\ NoWrite /\ Succeeds
           \/ /\ ~cache[n].exists \/ differs
              /\ \/ ~refused /\ Put([objects EXCEPT ![n] = Manifest]) /\ Done(s) /\ Succeeds
                 \/ Requeue /\ NoWrite /\ FailsIf(refused, "call")
                 \/ /\ differs /\ ~refused
                    /\ Put([objects EXCEPT ![n] = NoObject]) /\ Requeue /\ Fails("call")
    /\ Syncing /\ UNCHANGED disturbed

BaseSynced ==
    /\ At("base") /\ pass.todo = {}
    /\ Goto("expose", {s \in Services : pass.exposures[s].kind # "none"})
    /\ Syncing /\ NoWrite /\ Succeeds /\ UNCHANGED disturbed

\* newServiceByServiceExposure, newNodePortServiceByServiceExposure: the name of what
\* is made of an exposure.
WantedName(s, exposure) == IF exposure.kind = "plain" THEN Base(s) ELSE NodePort(s)
Wanted(asked) ==
    {WantedName(s, asked[s]) : s \in {x \in Services : asked[x].kind # "none"}}

\* syncServiceExposure goes over a map: in any order, up to the first error.
Expose ==
    /\ At("expose")
    /\ \E s \in pass.todo :
          LET n == WantedName(s, pass.exposures[s])
              object == WantedObject(pass.exposures[s])
              refused == IF cache[n].exists THEN UpdateRefused(n, object)
                                            ELSE CreateRefused(n, object)
          IN  \/ ~refused /\ Put([objects EXCEPT ![n] = object]) /\ Done(s) /\ Succeeds
              \/ Requeue /\ NoWrite /\ FailsIf(refused, "call")
    /\ Syncing /\ UNCHANGED disturbed

Exposed ==
    /\ At("expose") /\ pass.todo = {} /\ Goto("prune", {})
    /\ Syncing /\ NoWrite /\ Succeeds /\ UNCHANGED disturbed

\* The labelled Services in the cache that are not wanted are deleted, in any
\* order; one that is gone is an error.  (Two slips: the list is not narrowed to the
\* labelled; nothing is deleted.)
PruneOf(listed) ==
    /\ At("prune")
    /\ LET doomed == listed \ Wanted(pass.exposures)
       IN  \E deleted \in SUBSET {n \in doomed : objects[n].exists} :
              /\ Put([n \in Names |-> IF n \in deleted THEN NoObject ELSE objects[n]])
              /\ IF deleted = doomed THEN Goto("record", {}) /\ Succeeds
                 ELSE /\ Requeue
                      /\ FailsIf(\E n \in doomed : ~objects[n].exists, "call")
    /\ Disturb(behind # {}) /\ Syncing
PruneAll == PruneOf({n \in Names : cache[n].exists})
PruneNone == PruneOf({})
Prune == PruneOf({n \in Names : cache[n].exists /\ cache[n].labelled})

\* What the spec is by now is recorded as applied.
Record ==
    /\ At("record")
    /\ \/ /\ recorded' = exposures /\ first' = TRUE /\ Succeeds
          /\ Goto("idle", {})
       \/ Requeue /\ Fails("call") /\ UNCHANGED <<recorded, first>>
    /\ NoWrite /\ UNCHANGED <<protected, exposures, edits, disturbed>>

Worker == Take \/ SyncBase \/ BaseSynced \/ Expose \/ Exposed \/ Prune \/ Record

-----------------------------------------------------------------------------
(* The environment *)

\* The informer of Services delivers; their owner is queued if they are watched.
Observe ==
    /\ behind # {} /\ behind' = {} /\ cache' = objects
    /\ passQueued' = (passQueued \/ protected)
    /\ Syncing /\ UNCHANGED <<pass, objects, disturbed, failures>>

\* The periodic resync queues the service.
Resync ==
    /\ At("idle") /\ ~passQueued /\ passQueued' = TRUE
    /\ Syncing /\ NoWrite /\ UNCHANGED <<pass, disturbed, failures>>

\* A user changes the exposures: any of them in one edit.
EditExposure ==
    /\ edits < MaxEdits /\ edits' = edits + 1
    /\ exposures' \in SpecType \ {exposures}
    /\ passQueued' = TRUE /\ Disturb(~At("idle") \/ passQueued)
    /\ NoWrite /\ UNCHANGED <<protected, recorded, first, pass, failures>>

Restart ==
    /\ Fails("restart") /\ Requeue /\ first' = FALSE
    /\ cache' = objects /\ behind' = {}
    /\ UNCHANGED <<protected, specVars, objects, disturbed>>

Init ==
    /\ protected \in Protection
    /\ exposures \in SpecType /\ recorded = Never /\ first = FALSE /\ passQueued = TRUE
    /\ pass = [pc |-> "idle", exposures |-> exposures, todo |-> {}]
    /\ objects = [n \in Names |-> NoObject] /\ cache = objects /\ behind = {}
    /\ disturbed = FALSE /\ failures = 0 /\ edits = 0

Next == Worker \/ Observe \/ Resync \/ EditExposure \/ Restart

Spec == Init /\ [][Next]_vars

\* The worker goes on, the informer delivers and resyncs.
Fairness == WF_vars(Worker) /\ WF_vars(Observe) /\ WF_vars(Resync)
FairSpec == Spec /\ Fairness

-----------------------------------------------------------------------------
(* Properties *)

\* Nothing is wanted that cannot be had: no asked port is held for another Service,
\* and no exposure is without ports, which syncService undoes in every pass.
Calm ==
    /\ \A s \in Services : exposures[s].kind # "plain"
    /\ \A s \in Services : ~Taken(NodePort(s), exposures[s])

\* The exposures settle once they are calm.
CalmSettles == <>[]Calm /\ <>[]Undisturbed => <>[]AllAsAsked
=============================================================================
