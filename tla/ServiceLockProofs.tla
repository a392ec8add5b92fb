-------------------------- MODULE ServiceLockProofs --------------------------
(***************************************************************************)
(* Proofs about ServiceLock, for every set of services and every bound.    *)
(***************************************************************************)
EXTENDS ServiceLock, TLAPS

(* Type correctness.  A reconcile in progress has a service for a key, which *)
(* the actions rely on when they requeue the key or write the service.       *)

BusyHasKey == ~At("idle") => worker.key \in Services
TypeInv == TypeOK /\ BusyHasKey

\* Services, the lock and the worker when there is nothing to say of them.
LEMMA Blank ==
  /\ NoSvc \in SvcType /\ NoSvc.uid = NoUid /\ NoSvc.status = "unset" /\ NoSvc.owner = NoUid
  /\ NoLock \in LockType /\ NoLock.holder = NoService /\ NoLock.owner = NoUid
  /\ Idle \in WorkerType /\ Idle.pc = "idle" /\ Idle.seen = NoSvc /\ Idle.gc = NoUid
<1>1. /\ NoSvc \in SvcType /\ NoSvc.uid = NoUid /\ NoSvc.status = "unset"
      /\ NoSvc.owner = NoUid
  BY DEF NoSvc, SvcType, AnyUid, NoUid
<1>2. NoLock \in LockType /\ NoLock.holder = NoService /\ NoLock.owner = NoUid
  BY DEF NoLock, LockType, AnyService, AnyUid, NoUid
<1> QED
  BY <1>1, <1>2 DEF Idle, WorkerType, PCs, AnyService, AnyUid, NoUid

\* Writing one field of a service changes that field.
LEMMA Written ==
  ASSUME NEW v \in SvcType
  PROVE  /\ \A st \in {"active", "paused"} :
               LET w == [v EXCEPT !.status = st]
               IN  /\ w \in SvcType
                   /\ w.uid = v.uid /\ w.status = st /\ w.owner = v.owner
         /\ \A u \in AnyUid :
               LET w == [v EXCEPT !.owner = u]
               IN  /\ w \in SvcType
                   /\ w.uid = v.uid /\ w.status = v.status /\ w.owner = u
         /\ LET w == [v EXCEPT !.recorded = TRUE]
            IN  /\ w \in SvcType
                /\ w.uid = v.uid /\ w.status = v.status /\ w.owner = v.owner
  BY DEF SvcType

LEMMA TypeInit == Init => TypeInv
<1> SUFFICES ASSUME Init PROVE TypeInv
  OBVIOUS
<1> USE ConstantsAssumption, Blank DEF Init, NoUid, AnyUid
<1>1. /\ svc \in [Services -> SvcType] /\ lock \in LockType
      /\ queue \subseteq Services /\ lastUid \in Nat /\ created \in Nat
  <2>1. CASE FreshCluster
    BY <2>1 DEF FreshCluster
  <2>2. CASE LegacyCluster
    <3>1. lock \in LockType
      BY <2>2 DEF LegacyCluster, LockType, NoLock, AnyService
    <3>2. [NoSvc EXCEPT !.uid = lastUid] \in SvcType
      BY <2>2 DEF LegacyCluster, SvcType
    <3>3. PICK s \in Services :
             /\ svc = [[t \in Services |-> NoSvc] EXCEPT ![s].uid = lastUid]
             /\ queue = {s}
      BY <2>2 DEF LegacyCluster
    <3>4. svc \in [Services -> SvcType]
      BY <3>2, <3>3
    <3> QED
      BY <2>2, <3>1, <3>3, <3>4 DEF LegacyCluster
  <2> QED
    BY <2>1, <2>2
<1> QED
  BY <1>1 DEF TypeInv, BusyHasKey, At, TypeOK

\* Writing the service keeps the types when what is written has the type and
\* the step taken afterwards has them.
LEMMA UpdateServiceType ==
  ASSUME TypeInv, ~At("idle"),
         NEW STATE changed, Current(worker.key) => changed \in SvcType,
         NEW ACTION Then,
         Then => /\ queue' = queue /\ known' \subseteq Services
                 /\ worker' = Idle \/ \E pc \in PCs : worker' = [worker EXCEPT !.pc = pc],
         UpdateService(changed, Then)
  PROVE  TypeInv'
<1> USE ConstantsAssumption
    DEF TypeInv, BusyHasKey, At, TypeOK, AnyUid, AnyService, NoUid
<1>1. worker.key \in Services
  OBVIOUS
<1>2. Idle \in WorkerType
  BY Blank
<1>3. CASE Current(worker.key) /\ Succeeds
           /\ svc' = [svc EXCEPT ![worker.key] = changed] /\ Then
  <2>1. svc' \in [Services -> SvcType]
    BY <1>1, <1>3
  <2>2. worker' \in WorkerType /\ (worker'.pc # "idle" => worker'.key \in Services)
    BY <1>2, <1>3, <1>1 DEF WorkerType, Idle, PCs
  <2> QED
    BY <1>3, <2>1, <2>2 DEF UpdateService, Succeeds, cacheVars, memory
<1>4. CASE FailsIf(~Current(worker.key), "updateService") /\ Requeue
           /\ UNCHANGED <<svc, known>>
  BY <1>1, <1>2, <1>4
  DEF UpdateService, Requeue, FailsIf, Fails, cacheVars, memory, Idle
<1> QED
  BY <1>3, <1>4 DEF UpdateService

LEMMA TypeNext == TypeInv /\ [Next]_vars => TypeInv'
<1> USE ConstantsAssumption
    DEF TypeInv, BusyHasKey, At, TypeOK, AnyUid, AnyService, NoUid
<1> SUFFICES ASSUME TypeInv, [Next]_vars
             PROVE  TypeInv'
  OBVIOUS
<1>id. Idle \in WorkerType /\ Idle.pc = "idle"
  BY Blank
<1>1. ASSUME NEW s \in Services, Take(s) PROVE TypeInv'
  BY <1>1 DEF Take, apiVars, cacheVars, memory, bounds, WorkerType, SvcType, Idle, PCs
<1>2. CASE GoneCheckLock
  BY <1>2, <1>id DEF GoneCheckLock, Goto, Done, apiVars, cacheVars, memory, bounds, WorkerType, PCs
<1>3. CASE DeleteGC
  <2>1. worker' \in WorkerType /\ worker'.key = worker.key
    BY <1>3 DEF DeleteGC, WorkerType, PCs
  <2>2. gc' \in Nat /\ failures' \in 0 .. MaxFailures
    BY <1>3 DEF DeleteGC, Succeeds, FailsIf, Fails
  <2> QED
    BY <1>3, <2>1, <2>2 DEF DeleteGC, cacheVars, memory
<1>4. CASE DeleteLock
  BY <1>4, <1>id DEF DeleteLock, Requeue, Done, Succeeds, Fails, cacheVars, memory, NoLock, LockType
<1>5. CASE GetOrCreateGC
  <2> DEFINE W(u) == [worker EXCEPT !.pc = "getLock", !.gc = u]
  <2>a. \A u \in Nat : W(u) \in WorkerType /\ W(u).key = worker.key
    BY DEF WorkerType, PCs
  <2>b. \/ worker' = [worker EXCEPT !.pc = "getLock"]
        \/ worker' = W(GCView)
        \/ lastUid' = lastUid + 1 /\ worker' = W(lastUid')
    BY <1>5 DEF GetOrCreateGC
  <2>c. GCView \in Nat /\ lastUid + 1 \in Nat
    BY DEF GCView
  <2>d. [worker EXCEPT !.pc = "getLock"] \in WorkerType
    BY DEF WorkerType, PCs
  <2> HIDE DEF W
  <2>1. worker' \in WorkerType /\ worker'.key = worker.key
    <3>1. CASE worker' = [worker EXCEPT !.pc = "getLock"]
      BY <2>d, <3>1
    <3>2. CASE worker' = W(GCView)
      BY <2>a, <2>c, <3>2
    <3>3. CASE lastUid' = lastUid + 1 /\ worker' = W(lastUid')
      BY <2>a, <2>c, <3>3
    <3> QED
      BY <2>b, <3>1, <3>2, <3>3
  <2>2. gc' \in Nat /\ lastUid' \in Nat /\ failures' \in 0 .. MaxFailures
    BY <1>5 DEF GetOrCreateGC, Succeeds, FailsIf, Fails
  <2> QED
    BY <1>5, <2>1, <2>2 DEF GetOrCreateGC, cacheVars, memory
<1>6. CASE GetOrCreateLock
  BY <1>6, <1>id
  DEF GetOrCreateLock, Goto, Requeue, Succeeds, FailsIf, Fails, cacheVars, memory,
      WorkerType, LockType, PCs
<1>7. CASE Activate
  BY <1>7, UpdateServiceType, Written DEF Activate, Goto, Done, PCs, Current
<1>8. CASE Pause
  BY <1>8, UpdateServiceType, Written DEF Pause, Done, Current
<1>9. CASE SetOwner
  BY <1>9, UpdateServiceType, Written DEF SetOwner, Done, WorkerType, Current
<1>10. CASE SetNoOwner
  BY <1>10, <1>id DEF SetNoOwner, Requeue, apiVars, cacheVars, memory, bounds
<1>11. CASE SyncRoles
  BY <1>11, <1>id
  DEF SyncRoles, Goto, Requeue, Succeeds, FailsIf, Fails, cacheVars, memory, WorkerType, PCs
<1>12. CASE SyncWebhooks
  BY <1>12, <1>id
  DEF SyncWebhooks, Goto, Requeue, Succeeds, Fails, cacheVars, memory, WorkerType, PCs
<1>13. CASE Record
  BY <1>13, UpdateServiceType, Written DEF Record, Done, Current
<1>14. CASE ObserveRoles
  BY <1>14 DEF ObserveRoles, apiVars, memory, bounds
<1>15. CASE Collect
  BY <1>15, Blank
  DEF Collect, CollectLock, CollectRoles, CollectWebhooks, CollectService,
      cacheVars, memory, ctrlVars, bounds
<1>16. CASE Restart
  BY <1>16, <1>id DEF Restart, Fails, apiVars
<1>17. ASSUME NEW s \in Services, ObserveService(s) PROVE TypeInv'
  BY <1>17 DEF ObserveService, apiVars, memory, bounds
<1>18. ASSUME NEW s \in Services, Resync(s) PROVE TypeInv'
  BY <1>18 DEF Resync, apiVars, cacheVars, memory, bounds
<1>19. ASSUME NEW s \in Services, CreateService(s) PROVE TypeInv'
  <2>1. [NoSvc EXCEPT !.uid = lastUid'] \in SvcType
    BY <1>19, Blank DEF CreateService, SvcType
  <2> QED
    BY <1>19, <2>1 DEF CreateService, cacheVars, memory, ctrlVars
<1>20. ASSUME NEW s \in Services, DeleteService(s) PROVE TypeInv'
  BY <1>20, Blank DEF DeleteService, cacheVars, memory, ctrlVars, bounds
<1>21. CASE UNCHANGED vars
  BY <1>21 DEF vars, apiVars, cacheVars, memory, ctrlVars, bounds
<1> QED
  BY <1>1, <1>2, <1>3, <1>4, <1>5, <1>6, <1>7, <1>8, <1>9, <1>10, <1>11, <1>12,
     <1>13, <1>14, <1>15, <1>16, <1>17, <1>18, <1>19, <1>20, <1>21
  DEF Next, Worker, Environment

\* The variables keep their types, for all parameters and under every failure.
THEOREM TypeCorrect == Spec => []TypeOK
<1>1. Spec => []TypeInv
  BY TypeInit, TypeNext, PTL DEF Spec
<1> QED
  BY <1>1, PTL DEF TypeInv

-----------------------------------------------------------------------------
(* The lock of a reliable operator.  LockInv ties what the worker has read to *)
(* what is still so, and that to the lock, the GC role and the services.      *)

LEMMA InvInit == Reliable /\ Init => LockInv
  BY ConstantsAssumption, Blank
  DEF Reliable, Init, FreshCluster, LegacyCluster, LockInv, ActiveHoldsLock,
      Active, MissingIsBlank, UidsApart, LockOwned, OnlyHolderOwned, WorkerKnows,
      Deleting, Holding, At, NoUid

\* The operator's own reads of the roles are current.
LEMMA ReliableViews ==
  Reliable => LockView = lock /\ GCView = gc /\ ~Fails("deleteLock") /\ ~Fails("restart")
  BY DEF Reliable, LockView, GCView, Fails

LEMMA InvWorker ==
  ASSUME Reliable, TypeInv, TypeInv', LockInv, Worker
  PROVE  LockInv'
<1> USE ReliableViews
    DEF TypeInv, BusyHasKey, TypeOK, SvcType, LockType, WorkerType, AnyUid,
        AnyService, At, NoUid, Active, Deleting, Holding
<1>1. ASSUME NEW s \in Services, Take(s) PROVE LockInv'
  <2>1. UNCHANGED <<svc, lock, gc, csvc, lastUid>>
    BY <1>1 DEF Take, apiVars, cacheVars, memory
  <2>2. worker' = [Idle EXCEPT !.key = s, !.seen = csvc[s],
                               !.pc = IF csvc[s] = NoSvc THEN "gone" ELSE "getGC"]
    BY <1>1 DEF Take
  <2> QED
    <3>1. worker'.seen = csvc[s] /\ worker'.key = s /\ worker'.gc = NoUid
      BY <2>2 DEF Idle
    <3>2. worker'.pc = IF csvc[s] = NoSvc THEN "gone" ELSE "getGC"
      BY <2>2 DEF Idle
    <3>3. ActiveHoldsLock' /\ MissingIsBlank' /\ OnlyHolderOwned'
      BY <2>1 DEF LockInv, ActiveHoldsLock, MissingIsBlank, OnlyHolderOwned
    <3>4. UidsApart'
      BY <2>1, <3>1 DEF LockInv, UidsApart
    <3>5. LockOwned'
      BY <2>1, <1>1 DEF Take, LockInv, LockOwned
    <3>6. WorkerKnows'
      BY <2>1, <3>1, <3>2 DEF LockInv, MissingIsBlank, WorkerKnows
    <3> QED
      BY <3>3, <3>4, <3>5, <3>6 DEF LockInv
<1>2. CASE GoneCheckLock
  BY <1>2, ConstantsAssumption
  DEF GoneCheckLock, OwnsLock, Goto, Done, Idle, apiVars, cacheVars, memory, NoLock, NoSvc,
      LockInv, ActiveHoldsLock, MissingIsBlank, UidsApart, LockOwned,
      OnlyHolderOwned, WorkerKnows
<1>3. CASE DeleteGC
  <2>1. /\ UNCHANGED <<svc, lock, csvc, lastUid>>
        /\ gc' \in {gc, NoUid}
        /\ worker'.pc = "deleteLock" /\ worker'.key = worker.key
        /\ worker'.seen = worker.seen /\ worker'.gc = worker.gc
    BY <1>3 DEF DeleteGC, cacheVars, memory
  \* No service is the GC role's when the lock's holder is not.
  <2>2. \A s \in Services : svc[s].owner = NoUid
    BY <1>3 DEF DeleteGC, LockInv, OnlyHolderOwned, WorkerKnows
  <2>3. worker.gc = NoUid
    BY <1>3 DEF DeleteGC, LockInv, WorkerKnows
  <2>4. ActiveHoldsLock' /\ MissingIsBlank' /\ UidsApart' /\ LockOwned' /\ OnlyHolderOwned'
    BY <2>1, <2>2
    DEF LockInv, ActiveHoldsLock, MissingIsBlank, UidsApart, LockOwned, OnlyHolderOwned
  <2>5. WorkerKnows'
    BY <1>3, <2>1, <2>3 DEF DeleteGC, LockInv, WorkerKnows
  <2> QED
    BY <2>4, <2>5 DEF LockInv
<1>4. CASE DeleteLock
  BY <1>4, ConstantsAssumption
  DEF DeleteLock, Requeue, Done, Idle, apiVars, cacheVars, memory, NoLock, NoSvc,
      LockInv, ActiveHoldsLock, MissingIsBlank, UidsApart, LockOwned,
      OnlyHolderOwned, WorkerKnows
<1>5. CASE GetOrCreateGC
  <2>1. /\ UNCHANGED <<svc, lock, csvc>>
        /\ \/ gc' = gc /\ lastUid' = lastUid
           \/ gc = NoUid /\ lastUid' = lastUid + 1 /\ gc' = lastUid'
        /\ worker'.pc = "getLock" /\ worker'.key = worker.key
        /\ worker'.seen = worker.seen /\ worker'.gc \in {worker.gc, gc'}
    BY <1>5 DEF GetOrCreateGC, cacheVars, memory
  \* A GC role is created only when nothing refers to one.
  <2>2. gc = NoUid => lock = NoLock /\ \A s \in Services : svc[s].owner = NoUid
    BY <1>5, ConstantsAssumption
    DEF GetOrCreateGC, LockInv, LockOwned, OnlyHolderOwned, NoLock
  <2>3. ActiveHoldsLock' /\ MissingIsBlank'
    BY <2>1 DEF LockInv, ActiveHoldsLock, MissingIsBlank
  <2>4. UidsApart'
    BY <2>1 DEF LockInv, UidsApart
  <2>5. LockOwned' /\ OnlyHolderOwned'
    BY <1>5, <2>1, <2>2 DEF GetOrCreateGC, LockInv, LockOwned, OnlyHolderOwned
  <2>6. WorkerKnows'
    BY <1>5, <2>1 DEF GetOrCreateGC, LockInv, WorkerKnows
  <2> QED
    BY <2>3, <2>4, <2>5, <2>6 DEF LockInv
<1>6. CASE GetOrCreateLock
  BY <1>6, ConstantsAssumption
  DEF GetOrCreateLock, OwnsLock, Goto, Requeue, Idle, apiVars, cacheVars, memory, NoLock, NoSvc,
      LockInv, ActiveHoldsLock, MissingIsBlank, UidsApart, LockOwned,
      OnlyHolderOwned, WorkerKnows
<1>7. CASE Activate
  <2>1. UNCHANGED <<lock, gc, csvc, lastUid>>
    BY <1>7 DEF Activate, UpdateService, cacheVars, memory
  <2>2. \/ UNCHANGED svc
        \/ /\ csvc[worker.key] = svc[worker.key] /\ svc[worker.key].uid # NoUid
           /\ svc' = [svc EXCEPT ![worker.key] = [csvc[worker.key] EXCEPT !.status = "active"]]
    BY <1>7 DEF Activate, UpdateService, Current, Exists
  <2>3. worker'.gc \in {worker.gc, NoUid} /\ worker'.seen \in {worker.seen, NoSvc}
    BY <1>7 DEF Activate, UpdateService, Goto, Done, Requeue, Idle
  <2>4. \/ worker'.pc = "idle"
        \/ worker'.pc \in {"own", "roles"} /\ worker'.key = worker.key
    BY <1>7 DEF Activate, UpdateService, Goto, Done, Requeue, Idle
  <2>9. \A s \in Services :
           /\ svc'[s].owner = svc[s].owner /\ svc'[s].uid = svc[s].uid
           /\ svc'[s].status = "active" => svc[s].status = "active" \/ s = worker.key
    <3>1. CASE UNCHANGED svc
      BY <3>1
    <3>2. CASE /\ csvc[worker.key] = svc[worker.key]
               /\ svc' = [svc EXCEPT ![worker.key] = [csvc[worker.key] EXCEPT !.status = "active"]]
      BY <3>2, <1>7 DEF Activate
    <3> QED
      BY <2>2, <3>1, <3>2
  <2>5. ActiveHoldsLock' /\ OnlyHolderOwned'
    BY <1>7, <2>1, <2>9
    DEF Activate, LockInv, ActiveHoldsLock, OnlyHolderOwned, WorkerKnows
  <2>6. MissingIsBlank'
    BY <1>7, <2>1, <2>2 DEF Activate, LockInv, MissingIsBlank, NoSvc
  <2>7. UidsApart'
    BY <2>1, <2>3, <2>9, Blank DEF LockInv, UidsApart
  <2>8. LockOwned' /\ WorkerKnows'
    BY <1>7, <2>1, <2>3, <2>4 DEF Activate, LockInv, LockOwned, WorkerKnows
  <2> QED
    BY <2>5, <2>6, <2>7, <2>8 DEF LockInv
<1>8. CASE Pause
  <2>1. UNCHANGED <<lock, gc, csvc, lastUid>>
    BY <1>8 DEF Pause, UpdateService, cacheVars, memory
  <2>2. \/ UNCHANGED svc
        \/ /\ csvc[worker.key] = svc[worker.key] /\ svc[worker.key].uid # NoUid
           /\ svc' = [svc EXCEPT ![worker.key] = [csvc[worker.key] EXCEPT !.status = "paused"]]
    BY <1>8 DEF Pause, UpdateService, Current, Exists
  <2>3. worker'.gc \in {worker.gc, NoUid} /\ worker'.seen \in {worker.seen, NoSvc}
    BY <1>8 DEF Pause, UpdateService, Done, Requeue, Idle
  <2>4. worker'.pc = "idle"
    BY <1>8 DEF Pause, UpdateService, Done, Requeue, Idle
  <2>9. \A s \in Services :
           /\ svc'[s].owner = svc[s].owner /\ svc'[s].uid = svc[s].uid
           /\ svc'[s].status = "active" => svc[s].status = "active"
    <3>1. CASE UNCHANGED svc
      BY <3>1
    <3>2. CASE /\ csvc[worker.key] = svc[worker.key]
               /\ svc' = [svc EXCEPT ![worker.key] = [csvc[worker.key] EXCEPT !.status = "paused"]]
      BY <3>2, <1>8 DEF Pause
    <3> QED
      BY <2>2, <3>1, <3>2
  <2>5. ActiveHoldsLock' /\ OnlyHolderOwned'
    BY <1>8, <2>1, <2>9
    DEF Pause, LockInv, ActiveHoldsLock, OnlyHolderOwned, WorkerKnows
  <2>6. MissingIsBlank'
    BY <1>8, <2>1, <2>2 DEF Pause, LockInv, MissingIsBlank, NoSvc
  <2>7. UidsApart'
    BY <2>1, <2>3, <2>9, Blank DEF LockInv, UidsApart
  <2>8. LockOwned' /\ WorkerKnows'
    BY <1>8, <2>1, <2>3, <2>4 DEF Pause, LockInv, LockOwned, WorkerKnows
  <2> QED
    BY <2>5, <2>6, <2>7, <2>8 DEF LockInv
<1>9. CASE SetOwner
  <2>1. UNCHANGED <<lock, gc, csvc, lastUid>> /\ Holding
    BY <1>9 DEF SetOwner, UpdateService, cacheVars, memory, Holding
  <2>2. \/ UNCHANGED svc
        \/ /\ csvc[worker.key] = svc[worker.key] /\ svc[worker.key].uid # NoUid
           /\ svc' = [svc EXCEPT ![worker.key] = [csvc[worker.key] EXCEPT !.owner = worker.gc]]
    BY <1>9 DEF SetOwner, UpdateService, Current, Exists
  <2>3. worker'.pc = "idle" /\ worker'.gc = NoUid /\ worker'.seen = NoSvc
    BY <1>9 DEF SetOwner, UpdateService, Done, Requeue, Idle
  <2>4. \A s \in Services :
           /\ svc'[s].status = svc[s].status /\ svc'[s].uid = svc[s].uid
           /\ s # worker.key => svc'[s] = svc[s]
           /\ svc'[s].owner \in {svc[s].owner, worker.gc}
    BY <2>2
  <2>5. ActiveHoldsLock'
    BY <2>1, <2>4 DEF LockInv, ActiveHoldsLock
  <2>6. OnlyHolderOwned'
    BY <1>9, <2>1, <2>4 DEF SetOwner, LockInv, OnlyHolderOwned, WorkerKnows
  <2>7. MissingIsBlank'
    BY <1>9, <2>1, <2>2 DEF SetOwner, LockInv, MissingIsBlank, NoSvc
  <2>8. UidsApart'
    BY <2>1, <2>3, <2>4 DEF LockInv, UidsApart, NoSvc
  <2>9. LockOwned' /\ WorkerKnows'
    BY <1>9, <2>1, <2>3 DEF SetOwner, LockInv, LockOwned, WorkerKnows
  <2> QED
    BY <2>5, <2>6, <2>7, <2>8, <2>9 DEF LockInv
<1>10. CASE SetNoOwner
  BY <1>10, ConstantsAssumption
  DEF SetNoOwner, Requeue, Idle, apiVars, cacheVars, memory, NoSvc,
      LockInv, ActiveHoldsLock, MissingIsBlank, UidsApart, LockOwned,
      OnlyHolderOwned, WorkerKnows
<1>11. CASE SyncRoles
  BY <1>11, ConstantsAssumption
  DEF SyncRoles, Goto, Requeue, Idle, cacheVars, memory, NoSvc,
      LockInv, ActiveHoldsLock, MissingIsBlank, UidsApart, LockOwned,
      OnlyHolderOwned, WorkerKnows
<1>12. CASE SyncWebhooks
  BY <1>12, ConstantsAssumption
  DEF SyncWebhooks, Goto, Requeue, Idle, cacheVars, memory, NoSvc,
      LockInv, ActiveHoldsLock, MissingIsBlank, UidsApart, LockOwned,
      OnlyHolderOwned, WorkerKnows
<1>13. CASE Record
  <2>1. UNCHANGED <<lock, gc, csvc, lastUid>>
    BY <1>13 DEF Record, UpdateService, cacheVars
  <2>2. \/ UNCHANGED svc
        \/ /\ csvc[worker.key] = svc[worker.key] /\ svc[worker.key].uid # NoUid
           /\ svc' = [svc EXCEPT ![worker.key] = [csvc[worker.key] EXCEPT !.recorded = TRUE]]
    BY <1>13 DEF Record, UpdateService, Current, Exists
  <2>3. worker'.pc = "idle" /\ worker'.gc = NoUid /\ worker'.seen = NoSvc
    BY <1>13, Blank DEF Record, UpdateService, Done, Requeue
  <2>4. \A s \in Services :
           /\ svc'[s].status = svc[s].status /\ svc'[s].uid = svc[s].uid
           /\ svc'[s].owner = svc[s].owner
           /\ s # worker.key => svc'[s] = svc[s]
    BY <2>2
  <2>5. ActiveHoldsLock' /\ OnlyHolderOwned'
    BY <2>1, <2>4 DEF LockInv, ActiveHoldsLock, OnlyHolderOwned
  <2>6. MissingIsBlank'
    BY <1>13, <2>1, <2>2, <2>4 DEF Record, LockInv, MissingIsBlank
  <2>7. UidsApart'
    BY <2>1, <2>3, <2>4, Blank DEF LockInv, UidsApart
  <2>8. LockOwned' /\ WorkerKnows'
    BY <1>13, <2>1, <2>3 DEF Record, LockInv, LockOwned, WorkerKnows
  <2> QED
    BY <2>5, <2>6, <2>7, <2>8 DEF LockInv
<1> QED
  BY <1>1, <1>2, <1>3, <1>4, <1>5, <1>6, <1>7, <1>8, <1>9, <1>10, <1>11, <1>12,
     <1>13 DEF Worker

LEMMA InvEnvironment ==
  ASSUME Reliable, TypeInv, TypeInv', LockInv, Environment \/ UNCHANGED vars
  PROVE  LockInv'
<1> USE ReliableViews
    DEF TypeInv, BusyHasKey, TypeOK, SvcType, LockType, WorkerType, AnyUid,
        AnyService, At, NoUid, Active, Deleting, Holding
<1>1. CASE ObserveRoles
  BY <1>1 DEF ObserveRoles, Reliable
<1>2. CASE Restart
  BY <1>2 DEF Restart
<1>3. CASE CollectLock
  \* Only a lock that is being deleted is an orphan.
  <2>1. At("deleteLock")
    BY <1>3, ConstantsAssumption DEF CollectLock, Orphaned, LiveUids, LockInv, LockOwned, NoLock
  <2>2. \A s \in Services : svc[s].status # "active" /\ svc[s].owner = NoUid
    BY <2>1, ConstantsAssumption
    DEF LockInv, WorkerKnows, ActiveHoldsLock, OnlyHolderOwned, NoLock
  <2> QED
    BY <1>3, <2>1, <2>2, ConstantsAssumption
    DEF CollectLock, cacheVars, memory, ctrlVars, LockInv, ActiveHoldsLock, MissingIsBlank,
        UidsApart, LockOwned, OnlyHolderOwned, WorkerKnows
<1>4. CASE CollectRoles \/ CollectWebhooks \/ UNCHANGED vars
  BY <1>4
  DEF CollectRoles, CollectWebhooks, vars, apiVars, cacheVars, memory, ctrlVars, LockInv,
      ActiveHoldsLock, MissingIsBlank, UidsApart, LockOwned, OnlyHolderOwned, WorkerKnows
<1>5. ASSUME NEW s \in Services, ObserveService(s) PROVE LockInv'
  BY <1>5
  DEF ObserveService, apiVars, NoSvc, LockInv, ActiveHoldsLock, MissingIsBlank, UidsApart,
      LockOwned, OnlyHolderOwned, WorkerKnows
<1>6. ASSUME NEW s \in Services, Resync(s) PROVE LockInv'
  BY <1>6
  DEF Resync, apiVars, cacheVars, memory, LockInv, ActiveHoldsLock, MissingIsBlank, UidsApart,
      LockOwned, OnlyHolderOwned, WorkerKnows
<1>7. ASSUME NEW s \in Services, CreateService(s) PROVE LockInv'
  BY <1>7
  DEF CreateService, Exists, cacheVars, memory, ctrlVars, NoSvc, LockInv, ActiveHoldsLock,
      MissingIsBlank, UidsApart, LockOwned, OnlyHolderOwned, WorkerKnows
<1>8. ASSUME NEW s \in Services, DeleteService(s) \/ CollectService(s) PROVE LockInv'
  <2>1. /\ UNCHANGED <<lock, gc, csvc, worker, lastUid>>
        /\ svc' = [svc EXCEPT ![s] = NoSvc]
    BY <1>8 DEF DeleteService, CollectService, cacheVars, memory, ctrlVars
  <2>2. NoSvc.uid = NoUid /\ NoSvc.status = "unset" /\ NoSvc.owner = NoUid
    BY DEF NoSvc
  <2>3. ActiveHoldsLock' /\ OnlyHolderOwned' /\ LockOwned'
    BY <2>1, <2>2 DEF LockInv, ActiveHoldsLock, OnlyHolderOwned, LockOwned
  <2>4. MissingIsBlank'
    BY <2>1, <2>2 DEF LockInv, MissingIsBlank
  <2>5. UidsApart'
    BY <2>1, <2>2 DEF LockInv, UidsApart
  <2>6. WorkerKnows'
    BY <2>1, <2>2 DEF LockInv, WorkerKnows
  <2> QED
    BY <2>3, <2>4, <2>5, <2>6 DEF LockInv
<1> QED
  BY <1>1, <1>2, <1>3, <1>4, <1>5, <1>6, <1>7, <1>8 DEF Environment, Collect

\* The invariant of a reliable operator, for every number of services,
\* creations and tolerated failures.
THEOREM LockInvariant == Reliable => (Spec => []LockInv)
<1> SUFFICES ASSUME Reliable PROVE Spec => []LockInv
  OBVIOUS
<1>1. Init => LockInv
  BY InvInit
<1>2. TypeInv /\ TypeInv' /\ LockInv /\ [Next]_vars => LockInv'
  BY InvWorker, InvEnvironment DEF Next
<1>3. Spec => []TypeInv
  BY TypeInit, TypeNext, PTL DEF Spec
<1> QED
  BY <1>1, <1>2, <1>3, PTL DEF Spec

\* At most one AlamedaService of a cluster is ever active.
THEOREM MutualExclusion == Reliable => (Spec => []AtMostOneActive)
<1> SUFFICES ASSUME Reliable PROVE Spec => []AtMostOneActive
  OBVIOUS
<1>1. LockInv => AtMostOneActive
  BY DEF LockInv, ActiveHoldsLock, AtMostOneActive
<1> QED
  BY <1>1, LockInvariant, PTL

\* The status of a service never outlives its lock: a service that says it is active
\* is the one the lock is annotated with, also while the lock is deleted or re-created
\* and the operator has not seen it yet.
THEOREM StatusNeedsLock == Reliable => (Spec => []ActiveHoldsLock)
<1> SUFFICES ASSUME Reliable PROVE Spec => []ActiveHoldsLock
  OBVIOUS
<1>1. LockInv => ActiveHoldsLock
  BY DEF LockInv
<1> QED
  BY <1>1, LockInvariant, PTL

\* No service is collected behind the user's back.
THEOREM ServicesSafeFromCollector == Reliable => (Spec => []NoServiceDoomed)
<1> SUFFICES ASSUME Reliable PROVE Spec => []NoServiceDoomed
  OBVIOUS
<1>1. LockInv => NoServiceDoomed
  BY DEF LockInv, OnlyHolderOwned, NoServiceDoomed, Orphaned, LiveUids
<1> QED
  BY <1>1, LockInvariant, PTL

\* Tearing an installation down never hits an active service.
THEOREM TearDownSparesActive == Reliable => (Spec => GCRoleOutlivesActive)
<1> SUFFICES ASSUME Reliable PROVE Spec => GCRoleOutlivesActive
  OBVIOUS
<1>1. TypeInv /\ LockInv /\ [Next]_vars
        => [gc # NoUid /\ gc' # gc => \A s \in Services : ~Active(s)]_vars
  <2> SUFFICES ASSUME TypeInv, LockInv, Next, gc # NoUid, gc' # gc,
                      NEW s \in Services, Active(s)
               PROVE  FALSE
    BY DEF vars
  <2>1. DeleteGC
    BY ReliableViews
    DEF Next, Worker, Environment, Collect, Take, GoneCheckLock, DeleteLock,
        GetOrCreateGC, GetOrCreateLock, Activate, Pause, SetOwner, SetNoOwner,
        SyncRoles, SyncWebhooks, Record, UpdateService, ObserveRoles, Restart,
        CollectLock, CollectRoles, CollectWebhooks, CollectService, ObserveService,
        Resync, CreateService, DeleteService, apiVars, vars
  <2> QED
    BY <2>1
    DEF DeleteGC, At, Active, TypeInv, BusyHasKey, LockInv, ActiveHoldsLock,
        WorkerKnows, Deleting
<1>2. Spec => []TypeInv
  BY TypeInit, TypeNext, PTL DEF Spec
<1> QED
  BY <1>1, <1>2, LockInvariant, PTL DEF Spec, GCRoleOutlivesActive

-----------------------------------------------------------------------------
(* The order of a clean-up, whatever fails and however late the roles are read.*)

\* At the deletion of the lock the GC role is gone, or its deletion has failed.
GCDealtWith == At("deleteLock") => gc = NoUid \/ worker.failed

LEMMA GCDealtWithNext ==
  ASSUME TypeInv, GCDealtWith, [Next]_vars
  PROVE  GCDealtWith'
<1> USE DEF TypeInv, TypeOK, WorkerType, GCDealtWith, At
<1>1. CASE DeleteGC
  BY <1>1 DEF DeleteGC
<1>2. CASE worker'.pc # "deleteLock"
  BY <1>2
<1>3. CASE UNCHANGED <<worker, gc>>
  BY <1>3
<1>4. ASSUME NEW s \in Services, Take(s) PROVE worker'.pc # "deleteLock"
  BY <1>4 DEF Take, Idle
<1>5. GoneCheckLock \/ DeleteLock \/ GetOrCreateGC \/ GetOrCreateLock => worker'.pc # "deleteLock"
  <2>1. \A pc : pc # "deleteLock" /\ Goto(pc) => worker'.pc # "deleteLock"
    BY DEF Goto
  <2>2. Done \/ Requeue => worker'.pc # "deleteLock"
    BY DEF Done, Requeue, Idle
  <2>3. GetOrCreateGC => worker'.pc = "getLock"
    BY DEF GetOrCreateGC
  <2> QED
    BY <2>1, <2>2, <2>3 DEF GoneCheckLock, DeleteLock, GetOrCreateLock
<1>6. Activate \/ Pause \/ SetOwner \/ SetNoOwner \/ SyncRoles \/ SyncWebhooks \/ Record
      => worker'.pc # "deleteLock"
  BY DEF Activate, Pause, SetOwner, SetNoOwner, SyncRoles, SyncWebhooks, Record,
         UpdateService, Goto, Done, Requeue, Idle
<1>7. Restart => worker'.pc # "deleteLock"
  BY DEF Restart, Idle
<1>8. (Environment /\ ~Restart) \/ UNCHANGED vars => UNCHANGED <<worker, gc>>
  BY DEF Environment, ObserveRoles, Collect, CollectLock, CollectRoles, CollectWebhooks,
         CollectService, ObserveService, Resync, CreateService, DeleteService, ctrlVars,
         apiVars, vars
<1> QED
  BY <1>1, <1>2, <1>3, <1>4, <1>5, <1>6, <1>7, <1>8 DEF Next, Worker, Environment

\* The lock goes last, as the code says, unless the deletion of the GC role has failed.
THEOREM CleanupGoesInOrder == Spec => CleanupInOrder
<1>1. Init => GCDealtWith
  BY DEF Init, GCDealtWith, At, Idle
<1>2. TypeInv /\ GCDealtWith /\ [Next]_vars => GCDealtWith'
  BY GCDealtWithNext
<1>3. GCDealtWith => [worker.failed \/ LockGoesLast]_vars
  BY DEF GCDealtWith, LockGoesLast, DeleteLock, At
<1> QED
  BY <1>1, <1>2, <1>3, TypeInit, TypeNext, PTL DEF Spec, CleanupInOrder

-----------------------------------------------------------------------------
(* Refinement: what users and nodes see of the lock is ActivationLock.        *)

LEMMA InitRefines == Reliable /\ Init => Abstract!Init
  BY ConstantsAssumption
  DEF Reliable, Init, FreshCluster, LegacyCluster, Abstract!Init, Active, NoSvc, NoLock

\* A step that changes neither the holder nor who is active is a stutter.
LEMMA StepRefines ==
  ASSUME Reliable, TypeInv, LockInv, [Next]_vars
  PROVE  [Abstract!Next]_(Abstract!vars)
<1> USE ReliableViews
    DEF TypeInv, BusyHasKey, TypeOK, SvcType, LockType, WorkerType, AnyUid,
        AnyService, At, NoUid, Active, Deleting, Holding
<1>1. ASSUME UNCHANGED lock, \A s \in Services : svc'[s].status = "active" <=> svc[s].status = "active"
      PROVE  UNCHANGED Abstract!vars
  BY <1>1 DEF Abstract!vars
<1>2. ASSUME lock' = NoLock, UNCHANGED svc, At("deleteLock")
      PROVE  [Abstract!Next]_(Abstract!vars)
  <2>1. \A s \in Services : ~Active(s)
    BY <1>2, ConstantsAssumption DEF LockInv, ActiveHoldsLock, WorkerKnows, NoLock
  <2>2. Abstract!Release
    BY <1>2, <2>1 DEF Abstract!Release, NoLock
  <2> QED
    BY <2>2 DEF Abstract!Next
<1>3. ASSUME UNCHANGED lock, NEW s \in Services, svc' = [svc EXCEPT ![s] = NoSvc]
      PROVE  [Abstract!Next]_(Abstract!vars)
  <2>1. CASE Active(s)
    <3>1. Abstract!Deactivate(s)
      BY <1>3, <2>1 DEF Abstract!Deactivate, NoSvc
    <3> QED
      BY <3>1 DEF Abstract!Next
  <2>2. CASE ~Active(s)
    BY <1>1, <1>3, <2>2 DEF NoSvc
  <2> QED
    BY <2>1, <2>2
<1>4. CASE GetOrCreateLock
  <2>1. CASE UNCHANGED lock
    BY <1>1, <1>4, <2>1 DEF GetOrCreateLock
  <2>2. CASE lock = NoLock /\ lock' = [holder |-> worker.key, owner |-> worker.gc]
    <3>1. \A s \in Services : ~Active(s)
      BY <2>2, ConstantsAssumption DEF LockInv, ActiveHoldsLock, NoLock
    <3>2. PICK k \in Services : k = worker.key
      BY <1>4 DEF GetOrCreateLock
    <3>3. Abstract!Acquire(k)
      BY <1>4, <2>2, <3>1, <3>2 DEF GetOrCreateLock, Abstract!Acquire, NoLock
    <3> QED
      BY <3>3 DEF Abstract!Next
  <2> QED
    BY <1>4, <2>1, <2>2 DEF GetOrCreateLock
<1>5. CASE Activate
  <2>1. CASE UNCHANGED svc
    BY <1>1, <1>5, <2>1 DEF Activate, UpdateService
  <2>2. CASE svc' = [svc EXCEPT ![worker.key] = [csvc[worker.key] EXCEPT !.status = "active"]]
    <3>2. worker.key \in Services /\ lock.holder = worker.key /\ UNCHANGED lock
      BY <1>5 DEF Activate, UpdateService, LockInv, WorkerKnows
    <3>3. \A s \in Services :
             svc'[s].status = "active" <=> svc[s].status = "active" \/ s = worker.key
      BY <2>2, <3>2
    <3>4. {s \in Services : svc'[s].status = "active"}
            = {s \in Services : svc[s].status = "active"} \union {worker.key}
      BY <3>2, <3>3
    <3>5. PICK k \in Services : k = worker.key
      BY <3>2
    <3>6. Abstract!Activate(k)
      BY <3>2, <3>4, <3>5 DEF Abstract!Activate
    <3> QED
      BY <3>6 DEF Abstract!Next
  <2> QED
    BY <1>5, <2>1, <2>2 DEF Activate, UpdateService
<1>6. CASE Pause
  \* The service that is told to pause was not active.
  <2>1. svc[worker.key].status # "active"
    BY <1>6 DEF Pause, LockInv, ActiveHoldsLock, WorkerKnows
  <2> QED
    BY <1>1, <1>6, <2>1 DEF Pause, UpdateService
<1>7. CASE SetOwner \/ Record
  <2>1. UNCHANGED lock
    BY <1>7 DEF SetOwner, Record, UpdateService
  <2>2. \A s \in Services : svc'[s].status = svc[s].status
    BY <1>7 DEF SetOwner, Record, UpdateService, Current
  <2> QED
    BY <1>1, <2>1, <2>2
<1>8. CASE DeleteLock
  BY <1>2, <1>8 DEF DeleteLock
<1>9. CASE Collect
  <2>1. CASE CollectLock
    <3>1. At("deleteLock")
      BY <2>1, ConstantsAssumption
      DEF CollectLock, Orphaned, LiveUids, LockInv, LockOwned, NoLock
    <3> QED
      BY <1>2, <2>1, <3>1 DEF CollectLock
  <2>2. ASSUME NEW s \in Services, CollectService(s) PROVE [Abstract!Next]_(Abstract!vars)
    BY <1>3, <2>2 DEF CollectService
  <2> QED
    BY <1>1, <1>9, <2>1, <2>2 DEF Collect, CollectRoles, CollectWebhooks
<1>10. ASSUME NEW s \in Services, CreateService(s) PROVE [Abstract!Next]_(Abstract!vars)
  <2>1. svc[s] = NoSvc
    BY <1>10 DEF CreateService, Exists, LockInv, MissingIsBlank
  <2> QED
    BY <1>1, <1>10, <2>1 DEF CreateService, NoSvc
<1>11. ASSUME NEW s \in Services, DeleteService(s) PROVE [Abstract!Next]_(Abstract!vars)
  BY <1>3, <1>11 DEF DeleteService
<1>12. CASE UNCHANGED <<svc, lock>>
  BY <1>1, <1>12
<1>13. ASSUME NEW s \in Services, Take(s) \/ ObserveService(s) \/ Resync(s)
       PROVE  UNCHANGED <<svc, lock>>
  BY <1>13 DEF Take, ObserveService, Resync, apiVars
<1>14. GoneCheckLock \/ DeleteGC \/ GetOrCreateGC \/ SetNoOwner \/ SyncRoles
         \/ SyncWebhooks \/ ObserveRoles \/ Restart \/ UNCHANGED vars
       => UNCHANGED <<svc, lock>>
  BY DEF GoneCheckLock, DeleteGC, GetOrCreateGC, SetNoOwner, SyncRoles, SyncWebhooks,
         ObserveRoles, Restart, vars, apiVars
<1> QED
  BY <1>4, <1>5, <1>6, <1>7, <1>8, <1>9, <1>10, <1>11, <1>12, <1>13, <1>14
  DEF Next, Worker, Environment

\* The operator implements the abstract lock.
THEOREM Refinement == Reliable => (Spec => Implements)
<1> SUFFICES ASSUME Reliable PROVE Spec => Implements
  OBVIOUS
<1>1. Init => Abstract!Init
  BY InitRefines
<1>2. TypeInv /\ LockInv /\ [Next]_vars => [Abstract!Next]_(Abstract!vars)
  BY StepRefines
<1>3. Spec => []TypeInv
  BY TypeInit, TypeNext, PTL DEF Spec
<1> QED
  BY <1>1, <1>2, <1>3, LockInvariant, PTL DEF Spec, Implements, Abstract!Spec

\* The promise is one: whatever keeps to the steps of ActivationLock has nobody active
\* but the holder of the lock.
THEOREM OnlyHolderActiveTheorem == Abstract!Spec => []Abstract!OnlyHolderActive
<1>1. Abstract!Init => Abstract!OnlyHolderActive
  BY DEF Abstract!Init, Abstract!OnlyHolderActive
<1>2. Abstract!OnlyHolderActive /\ [Abstract!Next]_(Abstract!vars) => Abstract!OnlyHolderActive'
  BY DEF Abstract!OnlyHolderActive, Abstract!Next, Abstract!Acquire, Abstract!Activate,
         Abstract!Deactivate, Abstract!Release, Abstract!vars
<1> QED
  BY <1>1, <1>2, PTL DEF Abstract!Spec
=============================================================================
