----------------------------- MODULE OperandSync -----------------------------
(***************************************************************************)
(* How federatorai-operator makes what is installed agree with the spec of *)
(* the active AlamedaService.                                              *)
(*                                                                         *)
(* A reconcile works from the copy of the service read at its start: it    *)
(* syncs the wanted operands kind by kind, uninstalls the components that  *)
(* are switched off, and records the spec as applied.  An error ends it and*)
(* has it repeated.  One API call is one step; between two steps users edit*)
(* the service and touch operands, informers deliver what they have seen,  *)
(* and the operator restarts, perhaps in a newer release.                  *)
(*                                                                         *)
(* The service is taken to be alive, active and owned (see ServiceLock).   *)
(***************************************************************************)
EXTENDS Integers

CONSTANTS
    Operands,     \* the objects the operator installs
    NoOperand,    \* "no operand"
    Kind,         \* the kind of each operand
    Listed,       \* its place in the resource lists
    Mounts,       \* the ConfigMap it mounts, or NoOperand
    Refreshes,    \* the Deployment deleted when this ConfigMap is updated
    Switches,     \* the components a spec switches on and off
    SwitchRank,   \* the order in which they are uninstalled
    Needs,        \* the components an operand is installed for, all of them
    Removes,      \* what uninstalling a component removes
    Undefaulted,  \* operands that never look as wanted (see MisMatch)
    Overlooked,   \* operands a release changes where nobody looks (see Kept)
    Lagging,      \* operands whose cached copies may be behind
    Flippable,    \* components users switch on and off
    Tamperable,   \* operands users change and delete
    CanFail,      \* the kinds of failure considered (see Failures)
    MaxEvents     \* bound on edits, changes of operands and failures together

\* A call of a sync, an uninstall, a write of the service fails; the operator
\* restarts, outside or in the middle of an uninstall.
Failures == {"sync", "uninstall", "record", "restart", "restartUninstall"}

\* The kinds in the order in which they are synced and uninstalled.
SyncOrder == <<"PodSecurityPolicy", "SecurityContextConstraint", "ClusterRole",
    "ServiceAccount", "ClusterRoleBinding", "Role", "RoleBinding", "Secret",
    "PersistentVolumeClaim", "ConfigMap", "Service", "Deployment",
    "StatefulSet", "Ingress", "Route", "DaemonSet",
    "AlamedaNotificationChannel", "AlamedaNotificationTopic">>
UninstallOrder == <<"StatefulSet", "Ingress", "Route", "Deployment", "Service",
    "ConfigMap", "Secret", "ServiceAccount", "ClusterRole",
    "ClusterRoleBinding", "PersistentVolumeClaim", "DaemonSet",
    "PodSecurityPolicy">>
Kinds == {SyncOrder[i] : i \in DOMAIN SyncOrder}
UninstallKinds == {UninstallOrder[i] : i \in DOMAIN UninstallOrder}
SyncPlace == [k \in Kinds |-> CHOOSE i \in DOMAIN SyncOrder : SyncOrder[i] = k]
UninstallPlace ==
    [k \in UninstallKinds |-> CHOOSE i \in DOMAIN UninstallOrder : UninstallOrder[i] = k]

\* Created without a look; created when not seen, then left alone; updated when
\* they differ; always written; written over the version read; deleted and
\* created when they differ.
CreatedUnseen == {"Secret", "AlamedaNotificationChannel", "AlamedaNotificationTopic"}
CreatedOnce   == {"ServiceAccount", "PersistentVolumeClaim", "Ingress"}
Compared      == {"ConfigMap", "Deployment"}
Overwritten   == {"PodSecurityPolicy", "SecurityContextConstraint", "ClusterRole",
                  "ClusterRoleBinding", "Role", "RoleBinding", "StatefulSet"}
Rewritten     == {"Route"}
Replaced      == {"Service", "DaemonSet"}

ASSUME ConstantsAssumption ==
    /\ NoOperand \notin Operands
    /\ Kind \in [Operands -> Kinds]
    /\ Listed \in [Operands -> Nat]
    /\ \A o, p \in Operands : Kind[o] = Kind[p] /\ Listed[o] = Listed[p] => o = p
    /\ Mounts \in [Operands -> Operands \union {NoOperand}]
    /\ \A o \in Operands : Mounts[o] # NoOperand =>
           Kind[o] \in {"Deployment", "StatefulSet"} /\ Kind[Mounts[o]] = "ConfigMap"
    /\ Refreshes \in [Operands -> Operands \union {NoOperand}]
    /\ SwitchRank \in [Switches -> Nat]
    /\ \A s, t \in Switches : SwitchRank[s] = SwitchRank[t] => s = t
    /\ Needs \in [Operands -> SUBSET Switches]
    /\ Removes \in [Switches -> SUBSET Operands]
    /\ Undefaulted \subseteq Operands /\ Overlooked \subseteq Operands
    /\ \A o \in Undefaulted : Kind[o] \in {"Deployment", "StatefulSet", "DaemonSet"}
    /\ \A o \in Overlooked :
           Kind[o] \in {"Deployment", "Service", "DaemonSet"} /\ Mounts[o] = NoOperand
    /\ Lagging \subseteq Operands
    /\ Flippable \subseteq Switches
    /\ Tamperable \subseteq Operands
    /\ CanFail \subseteq Failures
    /\ MaxEvents \in Nat

VARIABLES
    protected,  \* whether changes of operands are watched
    release,    \* the release of the operator
    service,    \* spec and recorded spec in the API server
    cached,     \* the same in the informer's cache
    stale,      \* whether that cache holds an older version
    objects,    \* the operands in the API server
    cache,      \* the operands in the informers' caches
    behind,     \* the operands whose cached copy is an older version
    first,      \* whether this process has finished a reconcile
    queued,     \* whether the service is in the work queue
    worker,     \* the reconcile in progress
    disturbed,  \* history: whether anybody interfered (see Disturb)
    halted,     \* history: whether an uninstall has ended halfway
    events      \* edits, changes of operands and failures so far

serviceVars == <<service, cached, stale>>
objectVars == <<objects, cache, behind>>
vars == <<protected, release, serviceVars, objectVars, first, queued, worker,
          disturbed, halted, events>>

\* A spec: the components that are on, and a number for everything else in it.
Spec0 == [on |-> {}, rev |-> 0]
SpecType == [on : SUBSET Switches, rev : Nat]
\* The service: its spec, the recorded one, whether its status has the version of
\* the CRD of scalers.
ServiceType == [spec : SpecType, recorded : SpecType, versioned : BOOLEAN]

\* An operand: the spec and the release it has been made from, and the version
\* (the content) of the ConfigMap it mounts.  A user's change is spec 0.
Absent == [rev |-> -1, release |-> -1, cfg |-> -1]
ObjectType == [rev : Nat, release : Nat, cfg : Nat]

\* The worker: its step, the copies of the service, the operands to sync and
\* the <<component, operand>> pairs to uninstall.
Idle == [pc |-> "idle", spec |-> Spec0, recorded |-> Spec0, todo |-> {}, drop |-> {}]
WorkerType == [pc : {"idle", "activate", "sync", "refresh", "replace",
                     "uninstall", "record"},
               spec : SpecType, recorded : SpecType,
               todo : SUBSET Operands, drop : SUBSET (Switches \X Operands)]

\* The caches hold the current version unless they are known to be behind.
CachesAgree ==
    /\ ~stale => cached = service
    /\ \A o \in Operands \ behind : cache[o] = objects[o]

TypeOK ==
    /\ protected \in BOOLEAN /\ release \in Nat
    /\ service \in ServiceType /\ cached \in ServiceType /\ stale \in BOOLEAN
    /\ objects \in [Operands -> ObjectType \union {Absent}]
    /\ cache \in [Operands -> ObjectType \union {Absent}]
    /\ behind \subseteq Lagging
    /\ first \in BOOLEAN /\ queued \in BOOLEAN /\ disturbed \in BOOLEAN
    /\ halted \in BOOLEAN
    /\ worker \in WorkerType
    /\ events \in 0 .. MaxEvents
    /\ CachesAgree

-----------------------------------------------------------------------------
(* Helpers *)

At(pc) == worker.pc = pc
Exists(o) == objects[o] # Absent
Seen(o) == cache[o] # Absent

\* GetInstallResource.  Secrets are made whatever the spec says.
Wanted(spec, o) == Needs[o] \subseteq spec.on
InstallPlan(spec) == {o \in Operands : Kind[o] = "Secret" \/ Wanted(spec, o)}
\* The lists of the components that are off, as <<component, operand>>.
UninstallPlan(spec) ==
    {p \in Switches \X Operands : /\ p[1] \notin spec.on
                                 /\ p[2] \in Removes[p[1]]
                                 /\ Kind[p[2]] \in UninstallKinds}

\* What an operand is to look like, given the cached ConfigMap it mounts:
\* patchConfigMapResourceVersionIntoPodTemplateSpecLabel.
Made(spec, config) == [rev |-> spec.rev, release |-> release, cfg |-> config]
Desired(o) ==
    Made(worker.spec, IF Mounts[o] = NoOperand THEN 0 ELSE cache[Mounts[o]].rev)

\* What the mismatch functions make of the copy found.  They overlook the arguments
\* and commands of containers, the ports of a Service and volumes that are missing:
\* of an operand of which a release changes nothing else, these stay as they are.
\* (What mounts a ConfigMap changes with it.)
Kept(o, found, wanted) ==
    IF o \in Overlooked THEN [wanted EXCEPT !.release = found.release] ELSE wanted

\* Differs by which they find an operand out of date.  Of what a manifest leaves to
\* the API server to fill in they know some fields only: a volume of a host path
\* without its type, a probe without its thresholds, a volume without a source
\* differ from what is there every time.  (A slip: the same of the type of a Service.)
MisMatchUntyped(o) == Kind[o] = "Service" \/ cache[o] # Kept(o, cache[o], Desired(o))
MisMatch(o) == o \in Undefaulted \/ cache[o] # Kept(o, cache[o], Desired(o))

\* Operands whose changes queue the service that owns them.  (A slip: Deployments
\* are not watched.)
WatchedWithoutDeployments(o) == protected /\ Kind[o] \in {"ConfigMap", "Service"}
Watched(o) == protected /\ Kind[o] \in {"Deployment", "ConfigMap", "Service"}

Count == events < MaxEvents /\ events' = events + 1
Succeeds == UNCHANGED events
Fails(f) == f \in CanFail /\ Count
FailsIf(refused, f) == IF refused THEN Succeeds ELSE Fails(f)

\* A write of an operand.  One that changes nothing is none for the API server.
Put(o, value) ==
    IF objects[o] = value THEN UNCHANGED <<objectVars, queued>>
    ELSE /\ objects' = [objects EXCEPT ![o] = value]
         /\ \/ o \in Lagging
               /\ behind' = behind \union {o}
               /\ UNCHANGED <<cache, queued>>
            \/ o \notin Lagging
               /\ cache' = [cache EXCEPT ![o] = value]
               /\ queued' = (queued \/ Watched(o))
               /\ UNCHANGED behind

\* Somebody writes while the operator is at work, or a step works from a stale
\* copy.
Disturb(b) == disturbed' = (disturbed \/ b)
AtRest == At("idle") /\ ~queued /\ ~stale

\* The order of the work: kind by kind, and in a kind as listed.
SyncedBefore(o, p) ==
    LET k(q) == SyncPlace[Kind[q]]
    IN  k(o) < k(p) \/ (k(o) = k(p) /\ Listed[o] < Listed[p])
UninstalledBefore(p, q) ==
    LET k(r) == UninstallPlace[Kind[r[2]]]
        c(r) == SwitchRank[r[1]]
    IN  \/ c(p) < c(q)
        \/ c(p) = c(q) /\ (k(p) < k(q) \/ (k(p) = k(q) /\ Listed[p[2]] < Listed[q[2]]))
Earliest(todo) == CHOOSE o \in todo : \A p \in todo \ {o} : SyncedBefore(o, p)
NextOperand == Earliest(worker.todo)
NextRemoval == CHOOSE p \in worker.drop : \A q \in worker.drop \ {p} : UninstalledBefore(p, q)

Goto(pc) == worker' = [worker EXCEPT !.pc = pc]
Finish == worker' = Idle
\* The operand is dealt with.
Advance(o) == worker' = [worker EXCEPT !.pc = "sync", !.todo = @ \ {o}]
NoWrite == UNCHANGED <<objectVars, queued>>
\* The reconcile ends with an error and is repeated.
Requeue ==
    /\ worker' = Idle
    /\ queued' = TRUE
    /\ UNCHANGED objectVars

-----------------------------------------------------------------------------
(* Syncing an operand *)

MountMissing(o) == Mounts[o] # NoOperand /\ ~Seen(Mounts[o])

\* createSecret, createAlamedaNotificationChannels, ...Topics: AlreadyExists is fine.
CreateUnseen(o) ==
    /\ Kind[o] \in CreatedUnseen
    /\ IF Exists(o) THEN NoWrite ELSE Put(o, Desired(o))
    /\ Advance(o) /\ Succeeds

\* The cache has no ConfigMap for the pod template.
AwaitConfigMap(o) == MountMissing(o) /\ Requeue /\ Succeeds

\* Not found in the cache: create.  AlreadyExists is an error.
CreateMissing(o) ==
    /\ Kind[o] \notin CreatedUnseen /\ ~MountMissing(o) /\ ~Seen(o)
    /\ IF Exists(o) THEN Requeue ELSE Put(o, Desired(o)) /\ Advance(o)
    /\ Succeeds

KeepSeen(o) ==
    /\ Seen(o) /\ ~MountMissing(o)
    /\ \/ Kind[o] \in CreatedOnce
       \/ Kind[o] \in Compared \union Replaced /\ ~MisMatch(o)
    /\ NoWrite /\ Advance(o) /\ Succeeds

\* The copy found is changed and written back: the API server compares versions.
UpdateFound(o) ==
    /\ Seen(o) /\ ~MountMissing(o)
    /\ Kind[o] \in Rewritten \/ (Kind[o] \in Compared /\ MisMatch(o))
    /\ IF o \in behind THEN Requeue
       ELSE /\ Put(o, Kept(o, cache[o], Desired(o)))
            /\ IF Refreshes[o] = NoOperand THEN Advance(o) ELSE Goto("refresh")
    /\ Succeeds

\* The new object is written whatever is there.  A StatefulSet that differs is
\* first updated like a Deployment.  An update of an object that is gone creates
\* it or is refused, depending on the kind.
Overwrite(o) ==
    /\ Seen(o) /\ ~MountMissing(o) /\ Kind[o] \in Overwritten
    /\ LET conflict == Kind[o] = "StatefulSet" /\ MisMatch(o) /\ o \in behind
       IN  \/ ~conflict /\ Put(o, Desired(o)) /\ Advance(o)
           \/ (conflict \/ ~Exists(o)) /\ Requeue
    /\ Succeeds

\* A Service or DaemonSet that differs is deleted, and then created.
DeleteToReplace(o) ==
    /\ Seen(o) /\ ~MountMissing(o) /\ Kind[o] \in Replaced /\ MisMatch(o)
    /\ IF Exists(o) THEN Put(o, Absent) /\ Goto("replace") ELSE Requeue
    /\ Succeeds

CreateReplacement(o) ==
    /\ Put(o, Desired(o)) /\ Advance(o)
    /\ Succeeds

\* The Deployment of an updated ConfigMap is deleted; an error is dropped.
DeleteRefreshed(o) ==
    \/ Put(Refreshes[o], Absent) /\ Advance(o) /\ Succeeds
    \/ NoWrite /\ Advance(o) /\ Fails("sync")

\* Any call may fail.  (A slip: its error is logged and the reconcile goes on, as
\* with the CRDs.)
FailSyncGoesOn == Advance(NextOperand) /\ NoWrite /\ Fails("sync")
FailSync == Requeue /\ Fails("sync")

\* Whether the step works from a copy that is behind.
ReadsStale(o) == o \in behind \/ Mounts[o] \in behind

SyncOperand ==
    /\ worker.todo # {}
    /\ \E o \in {NextOperand} :
           /\ \/ /\ At("sync")
                 /\ \/ CreateUnseen(o) \/ AwaitConfigMap(o) \/ CreateMissing(o)
                    \/ KeepSeen(o) \/ UpdateFound(o) \/ Overwrite(o)
                    \/ DeleteToReplace(o) \/ FailSync
              \/ At("refresh") /\ DeleteRefreshed(o)
              \/ At("replace") /\ (CreateReplacement(o) \/ FailSync)
           /\ Disturb(ReadsStale(o))
    /\ UNCHANGED <<serviceVars, first>>

\* Every kind has been synced.
BeginUninstall ==
    /\ At("sync") /\ worker.todo = {}
    /\ worker' = [worker EXCEPT !.pc = "uninstall", !.drop = UninstallPlan(worker.spec)]
    /\ NoWrite /\ Succeeds
    /\ UNCHANGED <<serviceVars, first, disturbed>>

-----------------------------------------------------------------------------
(* Uninstalling the components that are off *)

Dropped(done) == worker' = [worker EXCEPT !.drop = @ \ done]

\* What is left of a kind when one of its objects is not found: the functions
\* return there and then, without an error.
RestOfKind(p) ==
    {q \in worker.drop : q[1] = p[1] /\ Kind[q[2]] = Kind[p[2]]}

\* DaemonSets and claims are looked up in the cache first.
LookedUp == {"DaemonSet", "PersistentVolumeClaim"}

UninstallNext ==
    /\ At("uninstall") /\ worker.drop # {}
    /\ \E p \in {NextRemoval} :
       LET o == p[2]
           skipped == Kind[o] \in LookedUp /\ ~Seen(o)
       IN  /\ \/ /\ Succeeds /\ UNCHANGED halted
                 /\ \/ skipped /\ NoWrite /\ Dropped({p})
                    \/ ~skipped /\ Exists(o) /\ Put(o, Absent) /\ Dropped({p})
                    \/ ~skipped /\ ~Exists(o) /\ NoWrite /\ Dropped(RestOfKind(p))
              \/ Fails("uninstall") /\ halted' = TRUE /\ Requeue
           /\ Disturb(Kind[o] \in LookedUp /\ o \in behind)
    /\ UNCHANGED <<serviceVars, first>>

EndUninstall ==
    /\ At("uninstall") /\ worker.drop = {} /\ Goto("record")
    /\ NoWrite /\ Succeeds
    /\ UNCHANGED <<serviceVars, first, disturbed>>

-----------------------------------------------------------------------------
(* The reconcile as a whole *)

Take ==
    /\ At("idle") /\ queued
    /\ worker' = [Idle EXCEPT !.pc = "activate", !.spec = cached.spec,
                             !.recorded = cached.recorded]
    /\ queued' = FALSE
    /\ Disturb(stale)
    /\ UNCHANGED <<serviceVars, objectVars, first, events>>

\* checkAlamedaServiceSpecIsChange, isAlamedaServiceFirstReconciledDone.
UpToDate == worker.spec = worker.recorded /\ ~protected /\ first

\* The service is marked active: an update, which needs the current version.
Activate ==
    /\ At("activate")
    /\ \/ /\ ~stale /\ Succeeds /\ NoWrite
          /\ IF UpToDate THEN Finish
             ELSE worker' = [worker EXCEPT !.pc = "sync", !.todo = InstallPlan(worker.spec)]
       \/ FailsIf(stale, "record") /\ Requeue
    /\ UNCHANGED <<serviceVars, first, disturbed>>

\* updateAlamedaServiceStatus.  A write of the same status is none.
RecordStatus ==
    /\ At("record") /\ ~stale /\ ~service.versioned
    /\ service' = [service EXCEPT !.versioned = TRUE] /\ stale' = TRUE
    /\ NoWrite /\ Succeeds
    /\ UNCHANGED <<cached, first, worker, disturbed>>

\* updateAlamedaServiceAnnotations: the spec the cache holds by now is recorded as
\* applied.  (Two slips: the annotation never is the same twice; the operator takes
\* what it has written for what it reads.)
WriteRecord(news) ==
    /\ At("record")
    /\ \/ /\ ~stale /\ service.versioned /\ Succeeds
          /\ service' = [service EXCEPT !.recorded = cached.spec]
          /\ stale' = news
          /\ first' = TRUE
          /\ Finish /\ NoWrite
       \/ FailsIf(stale, "record") /\ Requeue /\ UNCHANGED <<service, stale, first>>
    /\ UNCHANGED <<cached, disturbed>>
RecordAgain == WriteRecord(TRUE)
RecordUnseen == WriteRecord(FALSE)
Record == WriteRecord(service' # service)

Worker ==
    /\ \/ UninstallNext
       \/ /\ \/ Take \/ Activate \/ SyncOperand \/ BeginUninstall
             \/ EndUninstall \/ RecordStatus \/ Record
          /\ UNCHANGED halted
    /\ UNCHANGED <<protected, release>>

-----------------------------------------------------------------------------
(* The environment *)

\* The informer of services delivers the latest version, which queues it.
ObserveService ==
    /\ stale
    /\ cached' = service /\ stale' = FALSE /\ queued' = TRUE
    /\ UNCHANGED <<service, objectVars, first, worker, disturbed, events>>

\* The informer of an operand delivers it; its owner is queued if watched.
ObserveOperand(o) ==
    /\ o \in behind
    /\ cache' = [cache EXCEPT ![o] = objects[o]]
    /\ behind' = behind \ {o}
    /\ queued' = (queued \/ Watched(o))
    /\ UNCHANGED <<serviceVars, objects, first, worker, disturbed, events>>

\* The periodic resync queues the service.
Resync ==
    /\ AtRest /\ queued' = TRUE
    /\ UNCHANGED <<serviceVars, objectVars, first, worker, disturbed, events>>

\* A user switches a component or changes something else in the spec.
EditSpec ==
    /\ Count
    /\ \E spec \in {[service.spec EXCEPT !.rev = @ + 1]} \union
           {[service.spec EXCEPT !.on = IF s \in @ THEN @ \ {s} ELSE @ \union {s}] :
               s \in Flippable} :
          service' = [service EXCEPT !.spec = spec]
    /\ stale' = TRUE
    /\ Disturb(~AtRest)
    /\ UNCHANGED <<cached, objectVars, first, queued, worker>>

\* A user changes or deletes an operand.
Tamper(o) ==
    /\ Count /\ Exists(o)
    /\ \/ Put(o, Absent)
       \/ Put(o, [objects[o] EXCEPT !.rev = 0])
    /\ Disturb(TRUE)
    /\ UNCHANGED <<serviceVars, first, worker>>

Environment ==
    /\ \/ ObserveService \/ Resync \/ EditSpec
       \/ \E o \in Operands : ObserveOperand(o)
       \/ \E o \in Tamperable : Tamper(o)
    /\ UNCHANGED <<protected, release, halted>>

\* The operator restarts, in the same release or the next: its memory is gone,
\* its caches are filled anew and every service is queued.
Restart ==
    /\ Fails(IF At("uninstall") THEN "restartUninstall" ELSE "restart")
    /\ release' \in {release, release + 1}
    /\ worker' = Idle /\ first' = FALSE /\ queued' = TRUE
    /\ cached' = service /\ stale' = FALSE
    /\ cache' = objects /\ behind' = {}
    /\ halted' = (halted \/ At("uninstall"))
    /\ UNCHANGED <<protected, service, objects, disturbed>>

\* A new service in an empty cluster.
Init ==
    /\ protected \in BOOLEAN
    /\ release = 0
    /\ service = [spec |-> [on |-> Switches, rev |-> 1], recorded |-> Spec0,
                  versioned |-> FALSE]
    /\ cached = service /\ stale = FALSE
    /\ objects = [o \in Operands |-> Absent]
    /\ cache = objects /\ behind = {}
    /\ first = FALSE /\ queued = TRUE /\ worker = Idle
    /\ disturbed = FALSE /\ halted = FALSE
    /\ events = 0

Next == Worker \/ Environment \/ Restart

Spec == Init /\ [][Next]_vars

\* The worker takes what is queued and goes on with what it has begun; informers
\* deliver.  Nothing is assumed of users, failures and resyncs.
Fairness ==
    /\ WF_vars(Worker)
    /\ WF_vars(ObserveService /\ UNCHANGED <<protected, release, halted>>)
    /\ \A o \in Operands :
          WF_vars(ObserveOperand(o) /\ UNCHANGED <<protected, release, halted>>)
FairSpec == Spec /\ Fairness

-----------------------------------------------------------------------------
(* What the lists of operands are like, which the proofs rely on             *)

\* An operand is removed with each of the components it is installed for.
RemovesFit ==
    \A o \in Operands :
       IF Kind[o] \in UninstallKinds THEN Needs[o] = {s \in Switches : o \in Removes[s]}
       ELSE Needs[o] = {}
\* Of a kind, what is listed first is there whenever what is listed later is: the rest
\* of a kind is left when one is not found.
ListsNested ==
    \A s \in Switches : \A o, p \in Removes[s] :
       Kind[o] = Kind[p] /\ Listed[o] < Listed[p] => Needs[o] \subseteq Needs[p]
\* A ConfigMap is installed when what mounts it is; the Deployment that is refreshed
\* with it mounts it and goes with it.
MountsFit ==
    \A o \in Operands :
       /\ Mounts[o] # NoOperand => Needs[Mounts[o]] \subseteq Needs[o]
       /\ Refreshes[o] # NoOperand => /\ Kind[o] = "ConfigMap"
                                      /\ Mounts[Refreshes[o]] = o
                                      /\ Needs[Refreshes[o]] = Needs[o]
ListsFit == RemovesFit /\ ListsNested /\ MountsFit

\* Services and DaemonSets are looked up in a cache that is up to date.
ReplacedSeen == \A o \in Lagging : Kind[o] \notin Replaced

-----------------------------------------------------------------------------
(* Properties *)

\* What an operand should be: there when it is wanted, made from the latest spec
\* by this release (but for what is overlooked) and, if it mounts a ConfigMap, from
\* what that says; gone when it is not wanted.
UpToSpec(o) ==
    LET config == IF Mounts[o] = NoOperand THEN 0 ELSE objects[Mounts[o]].rev
    IN  objects[o] = Kept(o, objects[o], Made(service.spec, config))
InOrder(o) ==
    IF Wanted(service.spec, o)
    THEN Exists(o) /\ (Kind[o] \in CreatedUnseen \union CreatedOnce \/ UpToSpec(o))
    ELSE ~Exists(o)
\* What an uninstall that is repeated leaves behind: what its list names after an
\* operand of the same kind that is gone.
LeftBehind(o) ==
    /\ halted /\ ~Wanted(service.spec, o)
    /\ \E s \in Switches \ service.spec.on : \E p \in Operands :
          /\ {o, p} \subseteq Removes[s] /\ Kind[o] = Kind[p] /\ Listed[p] < Listed[o]
          /\ ~Exists(p)
Applied(o) == InOrder(o) \/ LeftBehind(o)
AllApplied == \A o \in Operands : Applied(o)
\* Every reconcile creates the Secrets of components that are off and removes
\* them again.
InOrderButSecrets == \A o \in Operands : Kind[o] = "Secret" \/ InOrder(o)
AppliedButSecrets == \A o \in Operands : Kind[o] = "Secret" \/ Applied(o)

\* A DaemonSet that never looks as wanted is deleted and created in every sync.
Churned(o) == o \in Undefaulted /\ Kind[o] \in Replaced
\* It is away for now: a protected operator syncs what has been applied, too.
Replacing(o) == Churned(o) /\ protected /\ ~Exists(o) /\ (queued \/ ~At("idle"))
AppliedForNow == \A o \in Operands : Kind[o] = "Secret" \/ Applied(o) \/ Replacing(o)

\* In the end, whenever the operator is at rest, what is installed is what the
\* spec says, but for what a halted uninstall has left behind: always if operands are
\* watched, otherwise if nobody interfered.
Settles == <>[](AtRest /\ (protected \/ ~disturbed) => AllApplied)

\* The operator comes to rest again and again: its own writes do not keep it busy.
Quiesces == []<>AtRest

\* The skip rule relies on this: if the recorded spec is the spec, and this
\* process has applied it once, then it has been applied, in spite of failed
\* calls and restarts.  Only an uninstall that failed halfway leaves something, and
\* only behind what it has removed; a DaemonSet that is being replaced may be away
\* while a protected operator, which has no such rule, is about to sync again.
RecordMeansApplied ==
    ~disturbed /\ At("idle") /\ first /\ service.recorded = service.spec
        => AppliedForNow

\* What users patch is reacted to, also while a reconcile is under way: an operator
\* at rest has applied the spec.
RestMeansApplied == AtRest => InOrderButSecrets

\* The operator leaves alone what is as it should be, but for Secrets of components
\* that are off and for DaemonSets that never look as wanted.
NoChurn ==
    [][~disturbed /\ Worker =>
         \A o \in Operands :
            InOrder(o) /\ Kind[o] # "Secret" /\ ~Churned(o)
               => objects'[o] = objects[o]]_vars
=============================================================================
