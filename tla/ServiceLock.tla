----------------------------- MODULE ServiceLock -----------------------------
(***************************************************************************)
(* How federatorai-operator keeps one AlamedaService active per cluster.   *)
(*                                                                         *)
(* The lock is a ClusterRole named alamedaservice-lock, annotated with the *)
(* namespace/name of its holder.  A second ClusterRole, the GC role, owns  *)
(* the lock, the active AlamedaService and every cluster-scoped operand:   *)
(* deleting it makes Kubernetes' garbage collector delete all of them.     *)
(*                                                                         *)
(* One worker reconciles one service at a time (MaxConcurrentReconciles is *)
(* 1), one API call per step; between two calls users create and delete    *)
(* services, the garbage collector runs, calls fail and the operator       *)
(* restarts.  The worker reads from informer caches that trail the API     *)
(* server and writes to the API server.  Without operand protection, a     *)
(* reconcile goes no further than to the lock and the owner of the service *)
(* once its spec is the recorded one; specs are not edited here.           *)
(***************************************************************************)
EXTENDS Integers, FiniteSets

CONSTANTS
    Services,      \* namespaced names of AlamedaServices
    NoService,     \* "no service": the holder of no lock, the idle worker's key
    MaxCreates,    \* bound on the services users create
    LaggingRoles,  \* whether cached reads of the two ClusterRoles may be stale
    LegacyLock,    \* whether the cluster may start with a pre-annotation lock
    Protection,    \* with operand protection or without: a set of BOOLEAN
    CanFail,       \* the kinds of failure considered (see Failures)
    MaxFailures    \* bound on failures

\* A write of a reconcile fails at the API server, or the process restarts.
Failures == {"createGC", "deleteGC", "createLock", "deleteLock",
             "updateService", "install", "restart"}

NoUid == 0

ASSUME ConstantsAssumption ==
    /\ NoService \notin Services
    /\ MaxCreates \in Nat
    /\ LaggingRoles \in BOOLEAN
    /\ LegacyLock \in BOOLEAN
    /\ Protection \subseteq BOOLEAN
    /\ CanFail \subseteq Failures
    /\ MaxFailures \in Nat

VARIABLES
    svc,          \* AlamedaServices in the API server
    lock,         \* the ClusterRole alamedaservice-lock in the API server
    gc,           \* uid of the GC ClusterRole in the API server, or NoUid
    roles,        \* owner of the cluster-scoped operands every sync re-owns
    webhooks,     \* owner of the cluster-scoped operands no sync re-owns
    csvc,         \* the operator's cached AlamedaServices
    clock, cgc,   \* the operator's cached lock and GC role
    protected,    \* whether operands are watched, and every reconcile syncs them
    known,        \* services this process has reconciled once, to the end
    queue,        \* keys waiting in the controller's work queue
    worker,       \* the reconcile in progress
    lastUid,      \* the last uid the API server handed out
    created,      \* services created so far
    failures      \* failures so far

apiVars   == <<svc, lock, gc, roles, webhooks>>
cacheVars == <<csvc, clock, cgc>>
memory    == <<protected, known>>
ctrlVars  == <<queue, worker>>
bounds    == <<created, failures>>
vars == <<apiVars, cacheVars, memory, ctrlVars, lastUid, bounds>>

AnyUid == Nat
AnyService == Services \union {NoService}

\* An AlamedaService: its uid (NoUid when there is none), what its status says
\* about being paused, the uid of the GC role among its owner references, and whether
\* its spec is recorded in its annotation.
NoSvc == [uid |-> NoUid, status |-> "unset", owner |-> NoUid, recorded |-> FALSE]
SvcType == [uid : AnyUid, status : {"unset", "active", "paused"}, owner : AnyUid,
            recorded : BOOLEAN]

\* The lock: the annotated holder and the uid of its owner reference.  Locks
\* of old operators have no annotation; they are owned by the service itself.
NoLock == [holder |-> NoService, owner |-> NoUid]
LockType == [holder : AnyService, owner : AnyUid]

\* The worker: the step it is at, its request, the copy of the service and the
\* GC role read at the start, and whether a deletion step has failed.
PCs == {"idle", "gone", "deleteGC", "deleteLock", "getGC", "getLock",
        "activate", "pause", "own", "roles", "webhooks", "record"}
Idle == [pc |-> "idle", key |-> NoService, seen |-> NoSvc, gc |-> NoUid,
         failed |-> FALSE]
WorkerType == [pc : PCs, key : AnyService, seen : SvcType, gc : AnyUid,
               failed : BOOLEAN]

TypeOK ==
    /\ svc \in [Services -> SvcType]
    /\ lock \in LockType
    /\ gc \in AnyUid
    /\ roles \in AnyUid
    /\ webhooks \in AnyUid
    /\ csvc \in [Services -> SvcType]
    /\ clock \in LockType
    /\ cgc \in AnyUid
    /\ protected \in Protection /\ known \subseteq Services
    /\ queue \subseteq Services
    /\ worker \in WorkerType
    /\ lastUid \in Nat
    /\ created \in Nat
    /\ failures \in 0 .. MaxFailures

-----------------------------------------------------------------------------
(* Helpers *)

Exists(s) == svc[s].uid # NoUid
Active(s) == svc[s].status = "active"

\* What a cached Get of the lock, of the GC role returns.
LockView == IF LaggingRoles THEN clock ELSE lock
GCView == IF LaggingRoles THEN cgc ELSE gc

\* Two slips: the holder is not compared; locks of old operators are forgotten.
OwnsLockIfAny(l, s, uid) == l # NoLock
OwnsLockByAnnotation(l, s, uid) == l.holder = s

\* IsAlamedaServiceLockOwnedByAlamedaService: by owner uid (old operators) or
\* by annotation.
OwnsLock(l, s, uid) ==
    \/ uid # NoUid /\ l.owner = uid
    \/ l.holder = s

\* Objects whose owner reference names a live object are safe from the
\* garbage collector.
LiveUids == {gc} \union {svc[s].uid : s \in Services}
Orphaned(owner) == owner # NoUid /\ owner \notin LiveUids

\* A call goes through; or it is refused because of the state of the cluster
\* (refused), or it fails all the same.
Succeeds == UNCHANGED failures
Fails(f) ==
    /\ f \in CanFail
    /\ failures < MaxFailures
    /\ failures' = failures + 1
FailsIf(refused, f) == IF refused THEN UNCHANGED failures ELSE Fails(f)

\* The end of a reconcile, without and with a requeue of its request.
Done ==
    /\ worker' = Idle
    /\ UNCHANGED queue
Requeue ==
    /\ worker' = Idle
    /\ queue' = queue \union {worker.key}
At(pc) == worker.pc = pc
Goto(pc) == worker' = [worker EXCEPT !.pc = pc] /\ UNCHANGED queue

\* An Update of the cached copy of the service succeeds only when the copy is
\* current: the API server compares resource versions.
Current(s) == csvc[s] = svc[s] /\ Exists(s)

-----------------------------------------------------------------------------
(* The worker: Reconcile, one API call per action *)

\* A cluster without services, or one an old operator left: one service, and a
\* lock owned by it.
FreshCluster ==
    /\ svc = [s \in Services |-> NoSvc]
    /\ lock = NoLock
    /\ queue = {}
    /\ lastUid = NoUid /\ created = 0
LegacyCluster ==
    /\ LegacyLock
    /\ lastUid = 1 /\ created = 1
    /\ lock = [NoLock EXCEPT !.owner = lastUid]
    /\ \E s \in Services :
          /\ svc = [[t \in Services |-> NoSvc] EXCEPT ![s].uid = lastUid]
          /\ queue = {s}

Init ==
    /\ FreshCluster \/ LegacyCluster
    /\ gc = NoUid /\ roles = NoUid /\ webhooks = NoUid
    /\ csvc = svc /\ clock = lock /\ cgc = gc
    /\ protected \in Protection /\ known = {}
    /\ worker = Idle
    /\ failures = 0

\* Pop a request and look its service up.
Take(s) ==
    /\ At("idle") /\ s \in queue
    /\ queue' = queue \ {s}
    /\ worker' = [Idle EXCEPT !.key = s, !.seen = csvc[s],
                             !.pc = IF csvc[s] = NoSvc THEN "gone" ELSE "getGC"]
    /\ UNCHANGED <<apiVars, cacheVars, memory, lastUid, bounds>>

\* Two slips: any deletion cleans up; the lock goes without the GC role.
GoneUnchecked ==
    /\ At("gone")
    /\ IF LockView # NoLock THEN Goto("deleteGC") ELSE Done
    /\ known' = known \ {worker.key}
    /\ UNCHANGED <<apiVars, cacheVars, protected, lastUid, bounds>>
GoneLockOnly ==
    /\ At("gone")
    /\ IF LockView # NoLock /\ OwnsLock(LockView, worker.key, NoUid)
         THEN Goto("deleteLock")
         ELSE Done
    /\ known' = known \ {worker.key}
    /\ UNCHANGED <<apiVars, cacheVars, protected, lastUid, bounds>>

\* handleAlamedaServiceDeletion: the service is forgotten; only the holder of the
\* lock has anything to clean up.  The request carries no uid, so only the annotation counts.
GoneCheckLock ==
    /\ At("gone")
    /\ IF LockView # NoLock /\ OwnsLock(LockView, worker.key, NoUid)
         THEN Goto("deleteGC")
         ELSE Done
    /\ known' = known \ {worker.key}
    /\ UNCHANGED <<apiVars, cacheVars, protected, lastUid, bounds>>

\* Delete the GC role by the name of the cached one.  Whether that works or
\* not, the deferred deletion of the lock comes next.
DeleteGC ==
    /\ At("deleteGC")
    /\ \/ /\ NoUid \notin {GCView, gc} /\ Succeeds
          /\ gc' = NoUid
          /\ worker' = [worker EXCEPT !.pc = "deleteLock"]
       \/ /\ FailsIf(NoUid \in {GCView, gc}, "deleteGC")
          /\ worker' = [worker EXCEPT !.pc = "deleteLock", !.failed = TRUE]
          /\ UNCHANGED gc
    /\ UNCHANGED <<svc, lock, roles, webhooks, cacheVars, memory, queue, lastUid, created>>

\* The deferred deletion of the lock, whoever holds it by now.  Its error is
\* assigned to a variable nobody reads: only a failed GC deletion requeues.
DeleteLock ==
    /\ At("deleteLock")
    /\ \/ lock' = NoLock /\ Succeeds
       \/ Fails("deleteLock") /\ UNCHANGED lock
    /\ IF worker.failed THEN Requeue ELSE Done
    /\ UNCHANGED <<svc, gc, roles, webhooks, cacheVars, memory, lastUid, created>>

\* GetOrCreateGCClusterRole.  When the creation fails, the error is shadowed
\* and an empty ClusterRole is used as the GC role.
GetOrCreateGC ==
    /\ At("getGC")
    /\ \/ /\ GCView # NoUid /\ Succeeds
          /\ worker' = [worker EXCEPT !.pc = "getLock", !.gc = GCView]
          /\ UNCHANGED <<gc, lastUid>>
       \/ /\ GCView = NoUid /\ gc = NoUid /\ Succeeds
          /\ lastUid' = lastUid + 1
          /\ gc' = lastUid'
          /\ worker' = [worker EXCEPT !.pc = "getLock", !.gc = lastUid']
       \/ /\ GCView = NoUid /\ FailsIf(gc # NoUid, "createGC")
          /\ worker' = [worker EXCEPT !.pc = "getLock"]
          /\ UNCHANGED <<gc, lastUid>>
    /\ UNCHANGED <<svc, lock, roles, webhooks, cacheVars, memory, queue, created>>

\* A slip: the GC role is not made the owner of the lock.
LockWithoutOwner ==
    /\ At("getLock")
    /\ \/ /\ LockView # NoLock /\ Succeeds
          /\ Goto(IF OwnsLock(LockView, worker.key, worker.seen.uid)
                  THEN "activate" ELSE "pause")
          /\ UNCHANGED lock
       \/ /\ LockView = NoLock /\ lock = NoLock /\ Succeeds
          /\ lock' = [NoLock EXCEPT !.holder = worker.key]
          /\ Goto("activate")
       \/ /\ LockView = NoLock /\ FailsIf(lock # NoLock, "createLock")
          /\ Requeue
          /\ UNCHANGED lock
    /\ UNCHANGED <<svc, gc, roles, webhooks, cacheVars, memory, lastUid, created>>

\* isNeedToBeReconciled: the first service to create the lock holds it.  The
\* API server refuses a second lock and an owner reference without a uid.
GetOrCreateLock ==
    /\ At("getLock")
    /\ \/ /\ LockView # NoLock /\ Succeeds
          /\ Goto(IF OwnsLock(LockView, worker.key, worker.seen.uid)
                  THEN "activate" ELSE "pause")
          /\ UNCHANGED lock
       \/ /\ LockView = NoLock /\ lock = NoLock /\ worker.gc # NoUid /\ Succeeds
          /\ lock' = [holder |-> worker.key, owner |-> worker.gc]
          /\ Goto("activate")
       \/ /\ LockView = NoLock
          /\ FailsIf(lock # NoLock \/ worker.gc = NoUid, "createLock")
          /\ Requeue
          /\ UNCHANGED lock
    /\ UNCHANGED <<svc, gc, roles, webhooks, cacheVars, memory, lastUid, created>>

\* Write a change of the service through its cached copy, then go on by Then;
\* a stale copy or a failing call requeues.
UpdateService(changed, Then) ==
    /\ \/ /\ Current(worker.key) /\ Succeeds
          /\ svc' = [svc EXCEPT ![worker.key] = changed]
          /\ Then
       \/ /\ FailsIf(~Current(worker.key), "updateService")
          /\ Requeue
          /\ UNCHANGED <<svc, known>>
    /\ UNCHANGED <<lock, gc, roles, webhooks, cacheVars, protected, lastUid, created>>

\* Without operand protection the operands are not synced again when the spec is the
\* recorded one and this process has synced them before.
Skipped == ~protected /\ worker.key \in known /\ worker.seen.recorded

\* updateAlamedaServiceActivation(true), then the check of the owner reference and,
\* if there is one, of what there is to do.
Activate ==
    /\ At("activate")
    /\ UpdateService([csvc[worker.key] EXCEPT !.status = "active"],
                     /\ IF worker.seen.owner = NoUid THEN Goto("own")
                        ELSE IF Skipped THEN Done
                        ELSE Goto("roles")
                     /\ UNCHANGED known)

\* updateAlamedaServiceActivation(false).  Nothing requeues a paused service.
Pause ==
    /\ At("pause")
    /\ UpdateService([csvc[worker.key] EXCEPT !.status = "paused"], Done /\ UNCHANGED known)

\* Make the GC role own the service; the watch event starts the next reconcile.
\* The API server refuses an owner reference without a uid.
SetOwner ==
    /\ At("own") /\ worker.gc # NoUid
    /\ UpdateService([csvc[worker.key] EXCEPT !.owner = worker.gc],
                     Done /\ UNCHANGED known)
SetNoOwner ==
    /\ At("own") /\ worker.gc = NoUid
    /\ Requeue
    /\ UNCHANGED <<apiVars, cacheVars, memory, lastUid, bounds>>

\* The operands that are written with the GC role as owner on every sync.
SyncRoles ==
    /\ At("roles")
    /\ \/ /\ worker.gc # NoUid /\ Succeeds
          /\ roles' = worker.gc
          /\ Goto("webhooks")
       \/ /\ FailsIf(worker.gc = NoUid, "install")
          /\ Requeue
          /\ UNCHANGED roles
    /\ UNCHANGED <<svc, lock, gc, webhooks, cacheVars, memory, lastUid, created>>

\* The operands that get an owner only when they are created.
SyncWebhooks ==
    /\ At("webhooks")
    /\ \/ /\ Succeeds
          /\ webhooks' = IF webhooks = NoUid THEN worker.gc ELSE webhooks
          /\ Goto("record")
       \/ /\ Fails("install")
          /\ Requeue
          /\ UNCHANGED webhooks
    /\ UNCHANGED <<svc, lock, gc, roles, cacheVars, memory, lastUid, created>>

\* updateAlamedaService: the spec is recorded in the annotation; then the process
\* remembers that it has reconciled the service.
Record ==
    /\ At("record")
    /\ UpdateService([csvc[worker.key] EXCEPT !.recorded = TRUE],
                     Done /\ known' = known \union {worker.key})

Worker ==
    \/ \E s \in Services : Take(s)
    \/ GoneCheckLock \/ DeleteGC \/ DeleteLock
    \/ GetOrCreateGC \/ GetOrCreateLock
    \/ Activate \/ Pause \/ SetOwner \/ SetNoOwner
    \/ SyncRoles \/ SyncWebhooks \/ Record

-----------------------------------------------------------------------------
(* The informers, the users, the garbage collector, the operator's process *)

\* A change of a service reaches the cache and queues the service.
ObserveService(s) ==
    /\ csvc[s] # svc[s]
    /\ csvc' = [csvc EXCEPT ![s] = svc[s]]
    /\ queue' = queue \union {s}
    /\ UNCHANGED <<apiVars, memory, clock, cgc, worker, lastUid, bounds>>

\* The lock and the GC role are read through the cache, but no change of
\* theirs queues anything.
ObserveRoles ==
    /\ LaggingRoles
    /\ \/ clock # lock /\ clock' = lock /\ UNCHANGED cgc
       \/ cgc # gc /\ cgc' = gc /\ UNCHANGED clock
    /\ UNCHANGED <<apiVars, memory, csvc, queue, worker, lastUid, bounds>>

\* Two slips: a manager whose sync period is switched off; one that queues the
\* worker's request instead of the cached service's.
NoResync(s) == FALSE
ResyncWorker(s) ==
    /\ csvc[s] # NoSvc
    /\ s \notin queue
    /\ queue' = queue \union {worker.key}
    /\ UNCHANGED <<apiVars, cacheVars, memory, worker, lastUid, bounds>>

\* The informer's periodic resync queues every cached service.
Resync(s) ==
    /\ csvc[s] # NoSvc
    /\ s \notin queue
    /\ queue' = queue \union {s}
    /\ UNCHANGED <<apiVars, cacheVars, memory, worker, lastUid, bounds>>

CreateService(s) ==
    /\ ~Exists(s) /\ created < MaxCreates
    /\ created' = created + 1
    /\ lastUid' = lastUid + 1
    /\ svc' = [svc EXCEPT ![s] = [NoSvc EXCEPT !.uid = lastUid']]
    /\ UNCHANGED <<lock, gc, roles, webhooks, cacheVars, memory, ctrlVars, failures>>

DeleteService(s) ==
    /\ Exists(s)
    /\ svc' = [svc EXCEPT ![s] = NoSvc]
    /\ UNCHANGED <<lock, gc, roles, webhooks, cacheVars, memory, ctrlVars, lastUid, bounds>>

\* Kubernetes deletes the dependents of an owner that is no more.
CollectService(s) ==
    /\ Exists(s) /\ Orphaned(svc[s].owner)
    /\ svc' = [svc EXCEPT ![s] = NoSvc]
    /\ UNCHANGED <<lock, gc, roles, webhooks, cacheVars, memory, ctrlVars, lastUid, bounds>>
CollectLock ==
    /\ Orphaned(lock.owner)
    /\ lock' = NoLock
    /\ UNCHANGED <<svc, gc, roles, webhooks, cacheVars, memory, ctrlVars, lastUid, bounds>>
CollectRoles ==
    /\ Orphaned(roles)
    /\ roles' = NoUid
    /\ UNCHANGED <<svc, lock, gc, webhooks, cacheVars, memory, ctrlVars, lastUid, bounds>>
CollectWebhooks ==
    /\ Orphaned(webhooks)
    /\ webhooks' = NoUid
    /\ UNCHANGED <<svc, lock, gc, roles, cacheVars, memory, ctrlVars, lastUid, bounds>>
Collect ==
    CollectLock \/ CollectRoles \/ CollectWebhooks \/ \E s \in Services : CollectService(s)

\* A new process lists the services that exist; what was queued, and services
\* deleted meanwhile, are forgotten.
Restart ==
    /\ Fails("restart")
    /\ worker' = Idle
    /\ csvc' = svc /\ clock' = lock /\ cgc' = gc
    /\ queue' = {s \in Services : Exists(s)}
    /\ known' = {}
    /\ UNCHANGED <<apiVars, protected, lastUid, created>>

Environment ==
    \/ ObserveRoles \/ Collect \/ Restart
    \/ \E s \in Services : \/ ObserveService(s) \/ Resync(s)
                           \/ CreateService(s) \/ DeleteService(s)

Next == Worker \/ Environment

Spec == Init /\ [][Next]_vars

\* The worker takes and finishes every request, the work queue is first in
\* first out, informers deliver and resync, the garbage collector gets round to
\* every orphan.  Users and restarts owe nothing.
Fairness ==
    /\ WF_vars(Worker)
    /\ WF_vars(ObserveRoles) /\ WF_vars(CollectLock)
    /\ WF_vars(CollectRoles) /\ WF_vars(CollectWebhooks)
    /\ \A s \in Services :
          /\ SF_vars(Take(s))
          /\ WF_vars(ObserveService(s)) /\ WF_vars(Resync(s))
          /\ WF_vars(CollectService(s))

FairSpec == Spec /\ Fairness

-----------------------------------------------------------------------------
(* Safety *)

\* One AlamedaService is active in the cluster, whatever users create, delete
\* and re-create and however the reconciles interleave with it.
AtMostOneActive == \A s, t \in Services : Active(s) /\ Active(t) => s = t

\* A service that says it is active is the one the lock is annotated with: the
\* status never outlives the lock.
ActiveHoldsLock == \A s \in Services : Active(s) => lock.holder = s

\* No service a user has not deleted is about to be deleted by the garbage
\* collector because the GC role that owns it is gone.
NoServiceDoomed == \A s \in Services : ~Orphaned(svc[s].owner)

\* Why these hold, as an inductive invariant of a reliable operator: the role
\* reads are current, no old lock is around, the lock's deletion does not fail
\* and the process does not restart in the middle of a deletion.
Reliable ==
    /\ LaggingRoles = FALSE /\ LegacyLock = FALSE
    /\ CanFail \intersect {"deleteLock", "restart"} = {}

Deleting == worker.pc \in {"gone", "deleteGC", "deleteLock"}
Holding == worker.pc \in {"activate", "own", "roles", "webhooks", "record"}

\* A service that is missing carries no status, in the server and in the cache.
MissingIsBlank ==
    \A s \in Services :
        /\ svc[s].uid = NoUid => svc[s] = NoSvc
        /\ csvc[s] = NoSvc => svc[s].status = "unset" /\ svc[s].owner = NoUid
\* Service uids differ from the GC role's.
UidsApart ==
    /\ gc <= lastUid /\ worker.seen.uid <= lastUid
    /\ worker.seen.uid # NoUid => worker.seen.uid # gc
    /\ \A s \in Services :
          /\ svc[s].uid <= lastUid /\ csvc[s].uid <= lastUid
          /\ svc[s].uid # NoUid => svc[s].uid # gc
          /\ csvc[s].uid # NoUid => csvc[s].uid # gc
\* The lock is owned by the GC role until both are being deleted.
LockOwned ==
    lock # NoLock =>
        /\ lock.holder \in Services
        /\ ~At("deleteLock") => lock.owner = gc /\ gc # NoUid
\* Only the holder of the lock is owned by the GC role.
OnlyHolderOwned ==
    \A s \in Services :
        svc[s].owner # NoUid => svc[s].owner = gc /\ lock.holder = s
\* What the worker has found out is still true.
WorkerKnows ==
    /\ ~At("idle") => worker.key \in Services
    /\ worker.gc \in {NoUid, gc}
    /\ Deleting => /\ worker.gc = NoUid
                  /\ svc[worker.key].status # "active"
                  /\ svc[worker.key].owner = NoUid
    /\ At("deleteGC") => lock.holder = worker.key
    /\ At("deleteLock") => lock = NoLock \/ lock.holder = worker.key
    /\ Holding => lock.holder = worker.key
    /\ At("pause") => lock # NoLock /\ lock.holder # worker.key

LockInv ==
    /\ ActiveHoldsLock
    /\ MissingIsBlank /\ UidsApart /\ LockOwned /\ OnlyHolderOwned /\ WorkerKnows

\* Deleting the GC role tears down an installation: it never happens while a
\* service is active, also when the deleted one was replaced in the meantime.
GCRoleOutlivesActive ==
    [][gc # NoUid /\ gc' # gc => \A s \in Services : ~Active(s)]_vars

\* "Deletion of AlamedaService lock must in the last step": whenever the
\* operator gives up the lock, the GC role has been deleted before.
LockGoesLast == DeleteLock /\ lock # NoLock /\ lock' = NoLock => gc = NoUid
LockDeletedLast == [][LockGoesLast]_vars
\* The same, unless the deletion of the GC role has failed.
CleanupInOrder == [][worker.failed \/ LockGoesLast]_vars

-----------------------------------------------------------------------------
(* Liveness *)

\* A service that stays while all others are gone ends up active, however the
\* others went away.
SoleServiceActivated ==
    \A s \in Services :
        <>[](Exists(s) /\ \A t \in Services \ {s} : ~Exists(t)) => <>[]Active(s)

\* The lock of a deleted service does not stay behind.
LockReleased ==
    \A s \in Services :
        (lock.holder = s /\ ~Exists(s)) ~> (lock.holder # s \/ Exists(s))

\* The cluster-scoped operands of a service that stays active all end up owned
\* by the GC role there is, so none of them is collected any more.  Those that get an
\* owner only when they are created do so with operand protection: without it, a
\* service that follows another takes over its webhooks, and when they are collected
\* nothing creates them again.
OperandsSettle ==
    \A s \in Services :
        <>[]Active(s) =>
            <>[](gc # NoUid /\ roles = gc /\ (protected => webhooks = gc))

\* When the last service is deleted, nothing cluster-scoped stays behind.
NothingLeaks ==
    <>[](\A s \in Services : ~Exists(s))
      => <>[](lock = NoLock /\ {gc, roles, webhooks} = {NoUid})

-----------------------------------------------------------------------------
(* The promise this module keeps; a pre-annotation lock has no holder here.   *)

Abstract == INSTANCE ActivationLock WITH
    holder <- lock.holder,
    active <- {s \in Services : Active(s)}

Implements == Abstract!Spec
=============================================================================
