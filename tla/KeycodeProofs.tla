---------------------------- MODULE KeycodeProofs ----------------------------
(***************************************************************************)
(* Proofs about Keycode, for every set of keycodes and every bound.        *)
(***************************************************************************)
EXTENDS Keycode, FiniteSetTheorems, TLAPS

(* Type correctness.  A reconcile in progress has a copy of a service, with a *)
(* keycode if that is to be sent.                                             *)

WorkerType == [pc : PCs, copy : ServiceType \union {NoService}, todo : SUBSET Codes,
               requeue : BOOLEAN, lateRequeue : BOOLEAN]
WorkerTyped ==
    /\ worker \in WorkerType
    /\ worker.pc # "idle" => worker.copy \in ServiceType
    /\ worker.pc \in {"add", "replace"} => worker.copy.code \in Codes

ServiceTyped ==
    /\ service \in ServiceType \union {NoService}
    /\ cached \in ServiceType \union {NoService}
    /\ stale \in BOOLEAN /\ owned \in BOOLEAN /\ queued \in BOOLEAN
    /\ ~stale => cached = service
RepoTyped == repo \subseteq Codes /\ activated \subseteq Codes
CountsTyped ==
    /\ setting \in Settings
    /\ clock \in {"none", "recent", "expired"} /\ events \in 0 .. Cap
    /\ writes \in 0 .. setting.maxWrites /\ failures \in 0 .. setting.maxFailures

TypeInv == WorkerTyped /\ ServiceTyped /\ RepoTyped /\ CountsTyped

LEMMA TypeInvTypeOK == TypeInv => TypeOK
  BY DEF TypeInv, WorkerTyped, WorkerType, ServiceTyped, RepoTyped, CountsTyped, TypeOK

LEMMA Constructed ==
    /\ Blank \in ServiceType /\ NoService \notin ServiceType
    /\ Idle \in WorkerType /\ Idle.pc = "idle"
  BY DEF Blank, NoService, ServiceType, AnyCode, States, Idle, WorkerType, PCs

LEMMA TypeInit == Init => TypeInv
<1> SUFFICES ASSUME Init PROVE TypeInv
  OBVIOUS
<1>1. WorkerTyped
  BY Constructed DEF Init, WorkerTyped
<1>2. ServiceTyped
  BY Constructed DEF Init, ServiceTyped
<1>3. RepoTyped /\ CountsTyped
  BY ConstantsAssumption DEF Init, RepoTyped, CountsTyped, SettingType
<1> QED
  BY <1>1, <1>2, <1>3 DEF TypeInv

-----------------------------------------------------------------------------
(* What the actions do to the worker. *)

\* The body of the reconcile is over.
Returns ==
    \E copy \in ServiceType, requeue \in BOOLEAN :
        /\ copy.code = Copy.code \/ Copy.code = Trial
        /\ Return(copy, requeue)

LEMMA ReturnsTyped ==
  ASSUME WorkerTyped, Returns
  PROVE  /\ WorkerTyped' /\ worker'.pc = "writeBack"
         /\ worker'.lateRequeue = worker.lateRequeue
         /\ worker'.copy.code = Copy.code \/ Copy.code = Trial
  BY DEF WorkerTyped, WorkerType, Returns, Return, PCs, Copy

LEMMA GiveUpReturns == ASSUME WorkerTyped, ~At("idle"), GiveUp PROVE Returns
  BY DEF GiveUp, Returns, WorkerTyped, At, Copy

\* Every step of a reconcile between its start and the write-back.
LEMMA LocalReturns ==
  ASSUME WorkerTyped, StopRetrying \/ StayEmpty \/ NothingToDo
  PROVE  Returns
<1> USE DEF WorkerTyped, At, Copy
<1>1. worker.copy \in ServiceType
  BY DEF StopRetrying, StayEmpty, NothingToDo, Proceeds
<1>2. CASE StopRetrying \/ NothingToDo
  BY <1>1, <1>2 DEF StopRetrying, NothingToDo, Returns
<1>3. CASE StayEmpty
  <2>1. /\ Cleared(worker.copy) \in ServiceType
        /\ Cleared(worker.copy).code = worker.copy.code
    BY <1>1, <1>3 DEF StayEmpty, Cleared, Blank, NoService, ServiceType, AnyCode, States
  <2> QED
    BY <1>3, <2>1 DEF StayEmpty, Returns
<1> QED
  BY <1>2, <1>3

LEMMA ListSteps ==
  ASSUME WorkerTyped, RepoTyped, List
  PROVE  /\ At("start")
         /\ \/ Returns
            \/ worker' = [worker EXCEPT !.pc = "add"] /\ Copy.code \in Codes
            \/ worker' = [worker EXCEPT !.pc = "delete", !.todo = repo]
<1>1. At("start") /\ worker.copy \in ServiceType
  BY DEF List, Proceeds, At, WorkerTyped
<1>2. CASE GiveUp
  BY <1>1, <1>2, GiveUpReturns DEF At
<1>3. ASSUME NEW c \in repo, Copy.code = Trial, Return(Applied([Blank EXCEPT !.code = c], c), TRUE)
      PROVE  Returns
  <2>1. Applied([Blank EXCEPT !.code = c], c) \in ServiceType
    BY DEF RepoTyped, Applied, Blank, NoService, ServiceType, AnyCode, States
  <2> QED
    BY <1>3, <2>1 DEF Returns
<1>4. Copy.code \in Codes \union {NoCode}
  BY <1>1 DEF Copy, ServiceType, AnyCode
<1> QED
  BY <1>1, <1>2, <1>3, <1>4 DEF List

LEMMA DeletedSteps ==
  ASSUME WorkerTyped, Deleted
  PROVE  \/ Returns
         \/ /\ worker' = [worker EXCEPT !.pc = "replace", !.copy = Replaced(Copy)]
            /\ Replaced(Copy) \in ServiceType /\ Replaced(Copy).code = Copy.code
            /\ Copy.code \in Codes
<1>1. worker.copy \in ServiceType
  BY DEF Deleted, At, WorkerTyped
<1>2. Cleared(Copy) \in ServiceType /\ Cleared(Copy).code = NoCode
  BY <1>1 DEF Copy, Cleared, Blank, NoService, ServiceType, AnyCode, States
<1>3. Replaced(Copy) \in ServiceType /\ Replaced(Copy).code = Copy.code
  BY <1>1 DEF Copy, Replaced, Cleared, Blank, NoService, ServiceType, AnyCode, States
<1>4. Copy.code \in Codes \union {NoCode}
  BY <1>1 DEF Copy, ServiceType, AnyCode
<1> QED
  BY <1>2, <1>3, <1>4 DEF Deleted, Returns

LEMMA CallReturns ==
  ASSUME WorkerTyped, Add \/ Poll \/ Sign
  PROVE  Returns
<1>1. worker.copy \in ServiceType /\ ~At("idle")
  BY DEF Add, Poll, Sign, Proceeds, At, WorkerTyped
<1>2. CASE GiveUp
  BY <1>1, <1>2, GiveUpReturns
<1>3. CASE Return(Applied(Copy, Copy.code), TRUE)
  <2>1. /\ Applied(Copy, Copy.code) \in ServiceType
        /\ Applied(Copy, Copy.code).code = Copy.code
    BY <1>1 DEF Copy, Applied, ServiceType, AnyCode, States
  <2> QED
    BY <1>3, <2>1 DEF Returns
<1>4. CASE Return([Copy EXCEPT !.sig = Copy.code, !.state = "Done"], FALSE)
  <2>1. /\ [Copy EXCEPT !.sig = Copy.code, !.state = "Done"] \in ServiceType
        /\ [Copy EXCEPT !.sig = Copy.code, !.state = "Done"].code = Copy.code
    BY <1>1 DEF Copy, ServiceType, AnyCode, States
  <2> QED
    BY <1>4, <2>1 DEF Returns
<1>5. ASSUME NEW state \in States, Return([Copy EXCEPT !.state = state], FALSE)
      PROVE  Returns
  <2>1. /\ [Copy EXCEPT !.state = state] \in ServiceType
        /\ [Copy EXCEPT !.state = state].code = Copy.code
    BY <1>1 DEF Copy, ServiceType, AnyCode
  <2> QED
    BY <1>5, <2>1 DEF Returns
<1> QED
  BY <1>2, <1>3, <1>4, <1>5 DEF Add, Poll, Sign, States

\* The last step of a reconcile but one.
LEMMA WriteBackStep ==
  ASSUME WorkerTyped, WriteBack
  PROVE  /\ worker'.pc = "finish" /\ worker' \in WorkerType
         /\ worker'.copy = worker.copy /\ worker.copy \in ServiceType
  BY DEF WorkerTyped, WorkerType, WriteBack, At, PCs

LEMMA WorkerTypedNext ==
  ASSUME TypeInv, [Next]_vars
  PROVE  WorkerTyped'
<1> USE DEF TypeInv
<1>1. CASE Start
  <2>1. cached \in ServiceType
    BY <1>1 DEF Start, ServiceTyped
  <2> QED
    BY <1>1, <2>1, Constructed DEF Start, WorkerTyped, WorkerType, PCs
<1>2. CASE StopRetrying \/ StayEmpty \/ NothingToDo \/ Add \/ Poll \/ Sign
  BY <1>2, LocalReturns, CallReturns, ReturnsTyped
<1>3. CASE List
  <2>1. CASE Returns
    BY <2>1, ReturnsTyped
  <2> QED
    BY <1>3, <2>1, ListSteps DEF WorkerTyped, WorkerType, PCs, RepoTyped, At, Copy
<1>4. ASSUME NEW c \in Codes, Delete(c) PROVE WorkerTyped'
  <2>1. CASE GiveUp
    BY <1>4, <2>1, GiveUpReturns, ReturnsTyped DEF Delete, At
  <2> QED
    BY <1>4, <2>1 DEF Delete, WorkerTyped, WorkerType, At
<1>5. CASE Deleted
  <2>1. CASE Returns
    BY <2>1, ReturnsTyped
  <2> QED
    BY <1>5, <2>1, DeletedSteps DEF WorkerTyped, WorkerType, PCs
<1>6. CASE WriteBack
  BY <1>6, WriteBackStep DEF WorkerTyped
<1>7. CASE Finish \/ Restart
  BY <1>7, Constructed DEF Finish, Restart, WorkerTyped
<1>8. CASE UNCHANGED worker
  BY <1>8 DEF WorkerTyped
<1>9. Skip \/ (Environment /\ ~Restart) \/ UNCHANGED vars => UNCHANGED worker
  BY DEF Skip, Environment, Observe, Resync, Expire, EditKeycode, FillInSignature,
         Touch, GrantLock, DeleteService, ReleaseLock, CreateService, Others, vars
<1> QED
  BY <1>1, <1>2, <1>3, <1>4, <1>5, <1>6, <1>7, <1>8, <1>9 DEF Next, Worker, Environment

LEMMA ServiceTypedNext ==
  ASSUME TypeInv, [Next]_vars
  PROVE  ServiceTyped'
<1> USE DEF TypeInv, ServiceTyped
<1>1. CASE WriteBack
  <2>1. worker.copy \in ServiceType
    BY <1>1, WriteBackStep
  <2>2. UNCHANGED <<cached, owned, queued>>
    BY <1>1 DEF WriteBack
  <2>3. CASE UNCHANGED <<service, stale>>
    BY <2>2, <2>3
  <2>4. CASE ~stale /\ service' = worker.copy
             /\ IF worker.copy # service THEN stale' = TRUE ELSE stale' \in BOOLEAN
    BY <2>1, <2>2, <2>4
  <2> QED
    BY <1>1, <2>3, <2>4 DEF WriteBack, Copy
<1>2. ASSUME NEW c \in AnyCode, EditKeycode(c) PROVE ServiceTyped'
  <2>1. service \in ServiceType => [service EXCEPT !.code = c] \in ServiceType
    BY DEF ServiceType
  <2> QED
    BY <1>2, <2>1 DEF EditKeycode, Write, Others, Exists
<1>3. CASE FillInSignature
  <2>1. service \in ServiceType => [service EXCEPT !.sig = service.applied] \in ServiceType
    BY DEF ServiceType
  <2> QED
    BY <1>3, <2>1 DEF FillInSignature, Write, Others, Exists
<1>4. CASE Touch \/ DeleteService \/ CreateService
  BY <1>4, Constructed DEF Touch, DeleteService, CreateService, Write, Others
<1>5. CASE Observe \/ Resync \/ Expire \/ GrantLock \/ ReleaseLock
  BY <1>5 DEF Observe, Resync, Expire, GrantLock, ReleaseLock, Others, apiVars
<1>6. CASE Restart
  BY <1>6 DEF Restart, Exists
<1>7. CASE Skip \/ Start \/ Finish
  <2>1. worker.requeue \in BOOLEAN
    BY DEF WorkerTyped, WorkerType
  <2> QED
    BY <1>7, <2>1 DEF Skip, Start, Finish, apiVars
<1>8. CASE UNCHANGED <<service, cached, stale, owned, queued>>
  BY <1>8
<1>9. \/ StopRetrying \/ StayEmpty \/ NothingToDo \/ List \/ (\E c \in Codes : Delete(c))
      \/ Deleted \/ Add \/ Poll \/ Sign \/ UNCHANGED vars
      => UNCHANGED <<service, cached, stale, owned, queued>>
  BY DEF StopRetrying, StayEmpty, NothingToDo, List, Delete, Deleted, Add, Poll, Sign,
         Local, apiVars, vars
<1> QED
  BY <1>1, <1>2, <1>3, <1>4, <1>5, <1>6, <1>7, <1>8, <1>9 DEF Next, Worker, Environment

LEMMA RepoTypedNext ==
  ASSUME TypeInv, [Next]_vars
  PROVE  RepoTyped'
<1> USE DEF TypeInv, RepoTyped
<1>1. CASE List \/ Poll
  BY <1>1 DEF List, Poll, repoVars
<1>2. ASSUME NEW c \in Codes, Delete(c) PROVE RepoTyped'
  BY <1>2 DEF Delete
<1>3. CASE Add
  <2>1. Copy.code \in Codes
    BY <1>3 DEF Add, WorkerTyped, At, Copy
  <2> QED
    BY <1>3, <2>1 DEF Add
<1>4. CASE Sign
  <2>1. Copy.sig \in Codes
    BY <1>4 DEF Sign, WorkerTyped, At, Copy, ServiceType, AnyCode, Proceeds
  <2> QED
    BY <1>4, <2>1 DEF Sign
<1>5. CASE DeleteService
  BY <1>5 DEF DeleteService, Others
<1>6. CASE UNCHANGED repoVars
  BY <1>6 DEF repoVars
<1>7. Worker => \/ List \/ (\E c \in Codes : Delete(c)) \/ Add \/ Poll \/ Sign
                \/ UNCHANGED repoVars
  BY DEF Worker, Skip, Start, StopRetrying, StayEmpty, NothingToDo, Deleted, WriteBack,
         Finish, Local
<1>8. Environment => DeleteService \/ UNCHANGED repoVars
  BY DEF Environment, Observe, Resync, Expire, Restart, EditKeycode, FillInSignature,
         Touch, GrantLock, ReleaseLock, CreateService, Others, repoVars
<1> QED
  BY <1>1, <1>2, <1>3, <1>4, <1>5, <1>6, <1>7, <1>8 DEF Next, vars

LEMMA CountsTypedNext ==
  ASSUME TypeInv, [Next]_vars
  PROVE  CountsTyped'
<1> USE ConstantsAssumption DEF TypeInv, CountsTyped, Succeeds, Fails, FailsIf, AddEvent
<1>0. setting' = setting /\ setting.maxWrites \in Nat /\ setting.maxFailures \in Nat
  BY DEF Next, vars, SettingType
<1> USE <1>0
<1>1. CASE Skip \/ Start \/ StopRetrying \/ StayEmpty \/ NothingToDo \/ Deleted
  BY <1>1 DEF Skip, Start, StopRetrying, StayEmpty, NothingToDo, Deleted, Local, apiVars
<1>2. CASE List \/ Poll \/ Sign
  <2>1. UNCHANGED <<clock, events, writes>>
    BY <1>2 DEF List, Poll, Sign, apiVars
  <2>2. UNCHANGED failures \/ (failures < setting.maxFailures /\ failures' = failures + 1)
    BY <1>2, Zenon DEF List, Poll, Sign
  <2> QED
    BY <2>1, <2>2
<1>3. ASSUME NEW c \in Codes, Delete(c) PROVE CountsTyped'
  BY <1>3 DEF Delete, apiVars
<1>4. CASE Add
  <2>1. UNCHANGED <<clock, writes>> /\ (AddEvent \/ UNCHANGED events)
    BY <1>4 DEF Add, apiVars
  <2>2. UNCHANGED failures \/ (failures < setting.maxFailures /\ failures' = failures + 1)
    BY <1>4, Zenon DEF Add
  <2> QED
    BY <2>1, <2>2
<1>5. CASE WriteBack
  <2>1. UNCHANGED <<clock, events, writes>>
    BY <1>5 DEF WriteBack
  <2>2. UNCHANGED failures \/ (failures < setting.maxFailures /\ failures' = failures + 1)
    BY <1>5, Zenon DEF WriteBack
  <2> QED
    BY <2>1, <2>2
<1>6. CASE Finish
  BY <1>6 DEF Finish, NextClock, FlushEvents, apiVars
<1>7. CASE Observe \/ Resync \/ Expire \/ Restart
  BY <1>7 DEF Observe, Resync, Expire, Restart, apiVars
<1>8. CASE \/ (\E c \in AnyCode : EditKeycode(c)) \/ FillInSignature \/ Touch
           \/ DeleteService \/ CreateService
  BY <1>8 DEF EditKeycode, FillInSignature, Touch, DeleteService, CreateService, Write,
              Others
<1>9. CASE GrantLock \/ ReleaseLock
  BY <1>9 DEF GrantLock, ReleaseLock, Others
<1>10. CASE UNCHANGED vars
  BY <1>10 DEF vars, apiVars
<1> QED
  BY <1>1, <1>2, <1>3, <1>4, <1>5, <1>6, <1>7, <1>8, <1>9, <1>10
  DEF Next, Worker, Environment

LEMMA TypeNext == ASSUME TypeInv, [Next]_vars PROVE TypeInv'
  BY WorkerTypedNext, ServiceTypedNext, RepoTypedNext, CountsTypedNext DEF TypeInv

\* Every variable keeps its type.
THEOREM TypeCorrect == Spec => []TypeOK
<1>1. Init => TypeInv
  BY TypeInit
<1>2. TypeInv /\ [Next]_vars => TypeInv'
  BY TypeNext
<1>3. TypeInv => TypeOK
  BY TypeInvTypeOK
<1> QED
  BY <1>1, <1>2, <1>3, PTL DEF Spec

-----------------------------------------------------------------------------
(* The channel of license events.  A reconcile announces each keycode it   *)
(* deletes and the one it adds, and starts with an empty channel.          *)

EventsCounted ==
    /\ worker.pc \in {"idle", "start", "add"} => events = 0
    /\ worker.pc = "delete" => events + Cardinality(worker.todo) <= Cardinality(Codes)
    /\ worker.pc = "replace" => events <= Cardinality(Codes)

LEMMA EventsNext ==
  ASSUME IsFiniteSet(Codes), TypeInv, EventsCounted, [Next]_vars
  PROVE  EventsCounted'
<1> USE DEF EventsCounted, At
<1>typed. worker \in WorkerType /\ events \in Nat /\ Cardinality(Codes) \in Nat
  BY FS_CardinalityType, ConstantsAssumption DEF TypeInv, WorkerTyped, CountsTyped
<1>1. CASE worker'.pc \in {"writeBack", "finish"}
  BY <1>1
<1>2. CASE Start
  BY <1>2 DEF Start, Idle
<1>3. CASE List
  <2>1. events = 0 /\ UNCHANGED events
    BY <1>3, ListSteps DEF List, TypeInv
  <2>2. CASE Returns
    BY <1>1, <2>2, ReturnsTyped DEF TypeInv
  <2>3. CASE worker' = [worker EXCEPT !.pc = "add"]
    BY <1>typed, <2>1, <2>3 DEF WorkerType
  <2>4. CASE worker' = [worker EXCEPT !.pc = "delete", !.todo = repo]
    <3>1. worker'.pc = "delete" /\ worker'.todo = repo
      BY <1>typed, <2>4 DEF WorkerType
    <3>2. Cardinality(repo) \in Nat /\ Cardinality(repo) <= Cardinality(Codes)
      BY FS_Subset, FS_CardinalityType DEF TypeInv, RepoTyped
    <3> QED
      BY <2>1, <3>1, <3>2
  <2> QED
    BY <1>3, <2>2, <2>3, <2>4, ListSteps DEF TypeInv
<1>4. ASSUME NEW c \in Codes, Delete(c) PROVE EventsCounted'
  <2>1. CASE GiveUp
    BY <1>1, <1>4, <2>1, GiveUpReturns, ReturnsTyped DEF Delete, TypeInv
  <2>2. CASE worker' = [worker EXCEPT !.todo = @ \ {c}]
    <3>1. worker'.pc = "delete" /\ worker'.todo = worker.todo \ {c}
      BY <1>typed, <1>4, <2>2 DEF WorkerType, Delete
    <3>2. IsFiniteSet(worker.todo) /\ c \in worker.todo
      BY <1>typed, <1>4, FS_Subset DEF WorkerType, Delete
    <3>3. Cardinality(worker.todo \ {c}) = Cardinality(worker.todo) - 1
      BY <3>2, FS_RemoveElement
    <3>4. Cardinality(worker.todo) \in Nat
      BY <3>2, FS_CardinalityType
    <3> QED
      BY <1>typed, <1>4, <3>1, <3>3, <3>4 DEF Delete, AddEvent
  <2> QED
    BY <1>4, <2>1, <2>2 DEF Delete
<1>5. CASE Deleted
  <2>1. CASE Returns
    BY <1>1, <2>1, ReturnsTyped DEF TypeInv
  <2>2. CASE worker' = [worker EXCEPT !.pc = "replace", !.copy = Replaced(Copy)]
    <3>1. worker'.pc = "replace" /\ UNCHANGED events
      BY <1>typed, <1>5, <2>2 DEF WorkerType, Deleted, Local
    <3>2. Cardinality(worker.todo) = 0
      BY <1>5, FS_EmptySet DEF Deleted
    <3> QED
      BY <1>typed, <1>5, <3>1, <3>2 DEF Deleted
  <2> QED
    BY <1>5, <2>1, <2>2, DeletedSteps DEF TypeInv
<1>6. CASE StopRetrying \/ StayEmpty \/ NothingToDo \/ Add \/ Poll \/ Sign
  BY <1>1, <1>6, LocalReturns, CallReturns, ReturnsTyped DEF TypeInv
<1>7. CASE WriteBack
  BY <1>1, <1>7, WriteBackStep DEF TypeInv
<1>8. CASE Finish \/ Restart
  BY <1>8, Constructed DEF Finish, FlushEvents, Restart
<1>9. CASE UNCHANGED <<worker, events>>
  BY <1>9
<1>10. Skip \/ (Environment /\ ~Restart) \/ UNCHANGED vars => UNCHANGED <<worker, events>>
  BY DEF Skip, Environment, Observe, Resync, Expire, EditKeycode, FillInSignature,
         Touch, GrantLock, DeleteService, ReleaseLock, CreateService, Others, vars
<1> QED
  BY <1>2, <1>3, <1>4, <1>5, <1>6, <1>7, <1>8, <1>9, <1>10 DEF Next, Worker, Environment

\* If the channel has room for an event per keycode and one more, then no reconcile
\* ever waits for it, in spite of failures, lost answers, edits and restarts.
THEOREM EventsNeverBlock ==
  ASSUME IsFiniteSet(Codes), Cap > Cardinality(Codes)
  PROVE  Spec => []EventsFit
<1>1. Init => TypeInv /\ EventsCounted
  BY TypeInit DEF Init, EventsCounted, Idle
<1>2. TypeInv /\ EventsCounted /\ [Next]_vars => TypeInv' /\ EventsCounted'
  BY TypeNext, EventsNext
<1>3. TypeInv /\ EventsCounted => EventsFit
  <2> SUFFICES ASSUME TypeInv, EventsCounted PROVE EventsFit
    OBVIOUS
  <2>1. events \in Nat /\ Cap \in Nat /\ Cardinality(Codes) \in Nat
    BY FS_CardinalityType, ConstantsAssumption DEF TypeInv, CountsTyped
  <2>2. worker.pc = "delete" => Cardinality(worker.todo) \in Nat
    BY FS_Subset, FS_CardinalityType DEF TypeInv, WorkerTyped, WorkerType
  <2> QED
    BY <2>1, <2>2 DEF EventsCounted, EventsFit, At
<1> QED
  BY <1>1, <1>2, <1>3, PTL DEF Spec

-----------------------------------------------------------------------------
(* Users who wait for the operator, and a write-back that works.           *)

Body ==
    \/ StopRetrying \/ StayEmpty \/ NothingToDo \/ List \/ (\E c \in Codes : Delete(c))
    \/ Deleted \/ Add \/ Poll \/ Sign

\* The body keeps the keycode of the copy, but for the trial keycode.
LEMMA BodyStep ==
  ASSUME TypeInv, Body
  PROVE  /\ worker.pc \notin {"idle", "finish"} /\ worker'.pc \notin {"idle", "finish"}
         /\ worker'.lateRequeue = worker.lateRequeue
         /\ worker'.copy.code = worker.copy.code \/ worker.copy.code = Trial
         /\ UNCHANGED <<service, cached, stale, owned, queued, clock>>
<1> USE DEF TypeInv
<1>1. worker.pc \notin {"idle", "finish"}
  BY DEF Body, StopRetrying, StayEmpty, NothingToDo, List, Delete, Deleted, Add, Poll,
         Sign, Proceeds, At
<1>2. UNCHANGED <<service, cached, stale, owned, queued, clock>>
  BY DEF Body, StopRetrying, StayEmpty, NothingToDo, List, Delete, Deleted, Add, Poll,
         Sign, Local, apiVars
<1>3. CASE Returns
  BY <1>1, <1>2, <1>3, ReturnsTyped DEF Copy
<1>4. ASSUME NEW pc \in {"add", "delete"}, NEW todo,
             worker' = [worker EXCEPT !.pc = pc, !.todo = todo]
      PROVE  /\ worker'.pc = pc /\ worker'.copy = worker.copy
             /\ worker'.lateRequeue = worker.lateRequeue
  BY <1>4 DEF WorkerTyped, WorkerType
<1>5. CASE List
  <2>1. CASE worker' = [worker EXCEPT !.pc = "add"]
    BY <1>1, <1>2, <2>1 DEF WorkerTyped, WorkerType
  <2> QED
    BY <1>1, <1>2, <1>3, <1>4, <1>5, <2>1, ListSteps
<1>6. ASSUME NEW c \in Codes, Delete(c), ~Returns
      PROVE  /\ worker'.pc = "delete" /\ worker'.copy = worker.copy
             /\ worker'.lateRequeue = worker.lateRequeue
  <2>1. worker' = [worker EXCEPT !.todo = @ \ {c}] /\ worker.pc = "delete"
    BY <1>1, <1>6, GiveUpReturns DEF Delete, At
  <2> QED
    BY <2>1 DEF WorkerTyped, WorkerType
<1>7. CASE Deleted
  <2>1. CASE worker' = [worker EXCEPT !.pc = "replace", !.copy = Replaced(Copy)]
             /\ Replaced(Copy).code = Copy.code
    BY <1>1, <1>2, <2>1 DEF WorkerTyped, WorkerType, Copy
  <2> QED
    BY <1>3, <1>7, <2>1, DeletedSteps
<1> QED
  BY <1>1, <1>2, <1>3, <1>5, <1>6, <1>7, LocalReturns, CallReturns DEF Body

PatientInv ==
    /\ service \in ServiceType /\ cached \in ServiceType
    /\ worker.pc \notin {"idle", "finish"} =>
          ~stale /\ (worker.copy.code = service.code \/ service.code = Trial)
    /\ ~worker.lateRequeue
    /\ worker.pc # "idle" \/ clock # "none" => owned
    /\ worker.pc = "idle" /\ ~queued => clock = "none"

\* The write-back succeeds, and finds the keycode it was started with.
LEMMA PatientWriteBack ==
  ASSUME Patient, TypeInv, PatientInv, WriteBack
  PROVE  /\ service' = worker.copy /\ ~worker'.lateRequeue
         /\ worker.copy.code = service.code \/ service.code = Trial
<1>1. worker.pc = "writeBack" /\ ~stale /\ cached # NoService
  BY Constructed DEF WriteBack, At, PatientInv
<1>2. ~Fails("update") /\ ~Fails("summary")
  BY DEF Patient, Fails
<1>3. service' = Copy /\ worker' = [worker EXCEPT !.pc = "finish", !.lateRequeue = FALSE]
  BY <1>1, <1>2 DEF WriteBack, FailsIf
<1> QED
  BY <1>1, <1>3 DEF PatientInv, Copy, TypeInv, WorkerTyped, WorkerType

LEMMA PatientNext ==
  ASSUME Patient, TypeInv, PatientInv, [Next]_vars
  PROVE  PatientInv'
<1> USE DEF PatientInv
<1>typed. worker \in WorkerType /\ worker.requeue \in BOOLEAN
  BY DEF TypeInv, WorkerTyped, WorkerType
<1>exists. Exists /\ cached # NoService
  BY Constructed DEF Exists
<1>1. CASE Skip
  BY <1>1, <1>exists DEF Skip, apiVars, At
<1>2. CASE Start
  BY <1>2 DEF Start, Idle, apiVars, Patient, TypeInv, ServiceTyped
<1>3. CASE Body
  BY <1>3, BodyStep
<1>4. CASE WriteBack
  <2>1. worker.pc # "idle" /\ UNCHANGED <<owned, cached>>
    BY <1>4 DEF WriteBack, At
  <2> QED
    BY <1>4, <2>1, PatientWriteBack, WriteBackStep DEF TypeInv
<1>5. CASE Finish
  <2>1. /\ worker' = Idle /\ worker.pc # "idle"
        /\ clock' = NextClock(worker.requeue \/ worker.lateRequeue)
        /\ queued' = (queued \/ worker.requeue)
    BY <1>5 DEF Finish, At
  <2>2. UNCHANGED <<service, cached, owned>>
    BY <1>5 DEF Finish, apiVars
  <2>3. ~queued' => clock' = "none"
    BY <1>typed, <2>1 DEF NextClock
  <2> QED
    BY <2>1, <2>2, <2>3 DEF Idle
<1>6. CASE Observe \/ Resync \/ Expire
  BY <1>6 DEF Observe, Resync, Expire, apiVars
<1>7. CASE Restart
  BY <1>7, <1>exists DEF Restart, Idle
<1>8. ASSUME NEW new \in ServiceType, Write(new), UNCHANGED owned, Others
      PROVE  PatientInv'
  BY <1>8 DEF Write, Others, Patient, At
<1>9. CASE FillInSignature \/ Touch \/ (\E c \in AnyCode : EditKeycode(c))
  <2>1. /\ [service EXCEPT !.sig = service.applied] \in ServiceType
        /\ \A c \in AnyCode : [service EXCEPT !.code = c] \in ServiceType
    BY DEF ServiceType
  <2> QED
    BY <1>8, <1>9, <2>1 DEF FillInSignature, Touch, EditKeycode
<1>10. CASE GrantLock
  BY <1>10 DEF GrantLock, Others, Patient, At
<1>11. ~DeleteService /\ ~ReleaseLock /\ ~CreateService
  BY <1>exists DEF DeleteService, ReleaseLock, CreateService, Patient
<1>12. CASE UNCHANGED vars
  BY <1>12 DEF vars, apiVars
<1> QED
  BY <1>1, <1>2, <1>3, <1>4, <1>5, <1>6, <1>7, <1>9, <1>10, <1>11, <1>12
  DEF Next, Worker, Environment, Body

\* The setting does not change.
LEMMA SettingKept ==
  ASSUME [Next]_vars
  PROVE  setting' = setting /\ (Patient' <=> Patient) /\ (Certain' <=> Certain)
         /\ (FewLeft' <=> FewLeft)
<1>1. setting' = setting
  BY DEF Next, vars
<1> QED
  BY <1>1 DEF Patient, Certain, FewLeft

LEMMA PatientAlways == Spec => [](TypeInv /\ (Patient => PatientInv))
<1>1. Init => PatientInv
  BY Constructed DEF Init, PatientInv, Idle
<1>2. TypeInv /\ (Patient => PatientInv) /\ [Next]_vars => (Patient => PatientInv)'
  BY PatientNext, SettingKept
<1> QED
  BY <1>1, <1>2, TypeInit, TypeNext, PTL DEF Spec

\* For such users a keycode that waits for a retry is always queued: the clock that
\* limits retries does not run on without one.
THEOREM ClockMeansRetry == Spec => []RetryClockMeansRetryIfPatient
<1>1. (Patient => PatientInv) => RetryClockMeansRetryIfPatient
  BY DEF PatientInv, RetryClockMeansRetryIfPatient, RetryClockMeansRetry, At
<1> QED
  BY <1>1, PatientAlways, PTL

\* For such users the write-back never takes a keycode away, but for the trial
\* keycode.
THEOREM WriteBackKeepsEdits == Spec => EditsStayIfPatient
<1>1. TypeInv /\ (Patient => PatientInv) =>
        [Patient /\ WriteBack => service'.code = service.code \/ service.code = Trial]_vars
  BY PatientWriteBack
<1> QED
  BY <1>1, PatientAlways, PTL DEF EditsStayIfPatient

-----------------------------------------------------------------------------
(* What the status says of the repository, for users who wait, when it is  *)
(* known what becomes of a call.  First what a step of the body comes to.  *)

\* The reconcile ends with a copy that says this.
Reports(applied, state) ==
    worker'.pc = "writeBack" /\ worker'.copy.applied = applied /\ worker'.copy.state = state
GoesOn(pc) == worker'.pc = pc /\ worker'.copy = worker.copy

\* Nothing has been done, or not all of it.
GivesUp ==
    /\ Reports(Copy.applied, Copy.state)
    /\ UNCHANGED repo /\ activated \subseteq activated'
    /\ worker.pc = "delete" => worker.todo # {}
Starts ==
    /\ worker.pc = "start" /\ UNCHANGED repoVars
    /\ \/ GoesOn("add") /\ repo = {}
       \/ GoesOn("delete") /\ worker'.todo = repo
Deletes(c) ==
    /\ worker.pc = "delete" /\ c \in worker.todo
    /\ GoesOn("delete") /\ worker'.todo = worker.todo \ {c}
    /\ repo' = repo \ {c} /\ UNCHANGED activated
\* There is no keycode, or none any more.
Empties ==
    /\ \/ worker.pc = "start" /\ Copy.applied = NoCode /\ worker'.pc = "writeBack"
       \/ /\ worker.pc = "delete" /\ worker.todo = {}
          /\ worker'.pc \in {"writeBack", "replace"}
    /\ worker'.copy.applied = NoCode /\ worker'.copy.state = "WaitingKeycode"
    /\ UNCHANGED repoVars
\* A keycode is applied: the one at the repository that the trial keycode gives way
\* to, or the one just sent.
Applies(c) ==
    /\ c \in Codes /\ Reports(c, "PollingRegistrationData") /\ UNCHANGED activated
    /\ \/ worker.pc = "start" /\ c \in repo /\ UNCHANGED repo
       \/ worker.pc \in {"add", "replace"} /\ repo' = repo \union {c}
\* It waits for its signature data, or is found or made registered.
Polls ==
    /\ worker.pc = "start" /\ Copy.state = "PollingRegistrationData"
    /\ UNCHANGED repoVars
    /\ \/ Reports(Copy.applied, "WaitingSignatureData")
       \/ Reports(Copy.applied, "Done") /\ repo \intersect activated # {}
Signs(c) ==
    /\ worker.pc = "start" /\ Copy.state = "WaitingSignatureData"
    /\ Reports(Copy.applied, "Done")
    /\ c \in repo /\ activated' = activated \union {c} /\ UNCHANGED repo

BodyOutcome ==
    \/ GivesUp \/ Starts \/ Empties \/ Polls
    \/ \E c \in Codes : Deletes(c) \/ Applies(c) \/ Signs(c)

LEMMA ReturnReports ==
  ASSUME WorkerTyped, NEW copy, NEW requeue, Return(copy, requeue)
  PROVE  worker'.pc = "writeBack" /\ worker'.copy = copy
  BY DEF Return, WorkerTyped, WorkerType

LEMMA BodySteps ==
  ASSUME TypeInv, Certain, Body
  PROVE  BodyOutcome
<1> USE DEF TypeInv, At
<1>0. WorkerTyped /\ worker \in WorkerType /\ worker.copy \in ServiceType
  BY DEF WorkerTyped, Body, StopRetrying, StayEmpty, NothingToDo, List, Delete, Deleted, Add,
         Poll, Sign, Proceeds
<1>1. ASSUME NEW requeue, Return(Copy, requeue), UNCHANGED repo, activated \subseteq activated',
             worker.pc = "delete" => worker.todo # {}
      PROVE  GivesUp
  BY <1>0, <1>1, ReturnReports DEF GivesUp, Reports
<1>2. ASSUME GiveUp, UNCHANGED repo, activated \subseteq activated',
             worker.pc = "delete" => worker.todo # {}
      PROVE  GivesUp
  BY <1>1, <1>2 DEF GiveUp
<1>3. /\ Cleared(Copy).applied = NoCode /\ Cleared(Copy).state = "WaitingKeycode"
      /\ Replaced(Copy).applied = NoCode /\ Replaced(Copy).state = "WaitingKeycode"
  BY DEF Cleared, Replaced, Blank, NoService
<1>4. ASSUME NEW o \in ServiceType, NEW c
      PROVE  /\ Applied(o, c).applied = c
             /\ Applied(o, c).state = "PollingRegistrationData"
  BY <1>4 DEF Applied, ServiceType
<1>13. ASSUME NEW state
      PROVE  /\ [Copy EXCEPT !.state = state].applied = Copy.applied
             /\ [Copy EXCEPT !.state = state].state = state
  BY <1>0 DEF Copy, ServiceType
<1>5. CASE StopRetrying \/ NothingToDo
  BY <1>1, <1>5 DEF StopRetrying, NothingToDo, Proceeds, Local, repoVars, BodyOutcome
<1>6. CASE StayEmpty
  <2>1. /\ worker.pc = "start" /\ Copy.applied = NoCode
        /\ worker'.pc = "writeBack" /\ worker'.copy = Cleared(Copy) /\ UNCHANGED repoVars
    BY <1>0, <1>6, ReturnReports DEF StayEmpty, Proceeds, Local, IsCodeNumberUpdated
  <2> QED
    BY <1>3, <2>1 DEF Empties, BodyOutcome
<1>7. CASE List
  <2>1. worker.pc = "start" /\ UNCHANGED repoVars
    BY <1>7 DEF List, Proceeds
  <2>2. CASE worker' = [worker EXCEPT !.pc = "add"] /\ repo = {}
    BY <1>0, <2>1, <2>2 DEF WorkerType, GoesOn, Starts, BodyOutcome
  <2>3. CASE worker' = [worker EXCEPT !.pc = "delete", !.todo = repo]
    BY <1>0, <2>1, <2>3 DEF WorkerType, GoesOn, Starts, BodyOutcome
  <2>4. ASSUME NEW c \in repo, Return(Applied([Blank EXCEPT !.code = c], c), TRUE)
        PROVE  BodyOutcome
    <3>1. c \in Codes /\ [Blank EXCEPT !.code = c] \in ServiceType
      BY Constructed DEF RepoTyped, ServiceType, AnyCode
    <3>2. /\ worker'.pc = "writeBack"
          /\ worker'.copy = Applied([Blank EXCEPT !.code = c], c)
      BY <1>0, <2>4, ReturnReports
    <3>3. Applies(c)
      BY <1>4, <2>1, <3>1, <3>2 DEF Applies, Reports, repoVars
    <3> QED
      BY <3>1, <3>3 DEF BodyOutcome
  <2>5. CASE GiveUp
    BY <1>2, <2>1, <2>5 DEF repoVars, BodyOutcome
  <2> QED
    BY <1>7, <2>2, <2>3, <2>4, <2>5 DEF List
<1>8. ASSUME NEW c \in Codes, Delete(c) PROVE BodyOutcome
  <2>1. worker.pc = "delete" /\ c \in worker.todo /\ UNCHANGED activated
    BY <1>8 DEF Delete
  <2>2. ~Fails("lostDelete")
    BY DEF Certain, Fails
  <2>3. CASE repo' = repo \ {c} /\ worker' = [worker EXCEPT !.todo = @ \ {c}]
    <3>1. Deletes(c)
      BY <1>0, <2>1, <2>3 DEF WorkerType, GoesOn, Deletes
    <3> QED
      BY <3>1 DEF BodyOutcome
  <2>4. CASE GiveUp /\ UNCHANGED repo
    BY <1>2, <2>1, <2>4 DEF BodyOutcome
  <2> QED
    BY <1>8, <2>2, <2>3, <2>4 DEF Delete
<1>9. CASE Deleted
  <2>1. worker.pc = "delete" /\ worker.todo = {} /\ UNCHANGED repoVars
    BY <1>9 DEF Deleted, Local
  <2>2. CASE Return(Cleared(Copy), FALSE)
    BY <1>0, <1>3, <2>1, <2>2, ReturnReports DEF Empties, BodyOutcome
  <2>3. CASE worker' = [worker EXCEPT !.pc = "replace", !.copy = Replaced(Copy)]
    BY <1>0, <1>3, <2>1, <2>3 DEF WorkerType, Empties, BodyOutcome
  <2> QED
    BY <1>9, <2>2, <2>3 DEF Deleted
<1>10. CASE Add
  <2>1. worker.pc \in {"add", "replace"} /\ UNCHANGED activated /\ Copy.code \in Codes
    BY <1>10 DEF Add, WorkerTyped, Copy
  <2>2. ~Fails("lostAdd")
    BY DEF Certain, Fails
  <2>3. CASE Return(Applied(Copy, Copy.code), TRUE) /\ repo' = repo \union {Copy.code}
    <3>1. worker'.pc = "writeBack" /\ worker'.copy = Applied(Copy, Copy.code)
      BY <1>0, <2>3, ReturnReports
    <3>2. Applies(Copy.code)
      BY <1>0, <1>4, <2>1, <2>3, <3>1 DEF Applies, Reports, Copy
    <3> QED
      BY <2>1, <3>2 DEF BodyOutcome
  <2>4. CASE GiveUp /\ UNCHANGED repo
    BY <1>2, <2>1, <2>4 DEF BodyOutcome
  <2> QED
    BY <1>10, <2>2, <2>3, <2>4 DEF Add
<1>11. CASE Poll
  <2>1. worker.pc = "start" /\ Copy.state = "PollingRegistrationData" /\ UNCHANGED repoVars
    BY <1>11 DEF Poll, Proceeds
  <2>2. CASE TRUE \in SummaryRegistered
             /\ Return([Copy EXCEPT !.sig = Copy.code, !.state = "Done"], FALSE)
    <3>1. repo # {} /\ TRUE \in {(c \in activated) : c \in repo}
      BY <2>2 DEF SummaryRegistered
    <3>2. PICK c \in repo : TRUE = (c \in activated)
      BY <3>1
    <3>3. /\ worker'.pc = "writeBack"
          /\ worker'.copy = [Copy EXCEPT !.sig = Copy.code, !.state = "Done"]
      BY <1>0, <2>2, ReturnReports
    <3>4. Reports(Copy.applied, "Done")
      BY <1>0, <3>3 DEF Reports, Copy, ServiceType
    <3> QED
      BY <2>1, <3>2, <3>4 DEF Polls, BodyOutcome
  <2>3. CASE Return([Copy EXCEPT !.state = "WaitingSignatureData"], FALSE)
    <3>1. Reports(Copy.applied, "WaitingSignatureData")
      BY <1>0, <1>13, <2>3, ReturnReports DEF Reports
    <3> QED
      BY <2>1, <3>1 DEF Polls, BodyOutcome
  <2>4. CASE GiveUp
    BY <1>2, <2>1, <2>4 DEF repoVars, BodyOutcome
  <2> QED
    BY <1>11, <2>2, <2>3, <2>4 DEF Poll
<1>12. CASE Sign
  <2>1. worker.pc = "start" /\ Copy.state = "WaitingSignatureData" /\ UNCHANGED repo
    BY <1>12 DEF Sign, Proceeds
  <2>2. CASE /\ Copy.sig \in repo /\ activated' = activated \union {Copy.sig}
             /\ Return([Copy EXCEPT !.state = "Done"], FALSE)
    <3>1. Reports(Copy.applied, "Done") /\ Copy.sig \in Codes
      BY <1>0, <1>13, <2>2, ReturnReports DEF Reports, RepoTyped
    <3>2. Signs(Copy.sig)
      BY <2>1, <2>2, <3>1 DEF Signs
    <3> QED
      BY <3>1, <3>2 DEF BodyOutcome
  <2>3. CASE GiveUp /\ activated \subseteq activated'
    BY <1>2, <2>1, <2>3 DEF BodyOutcome
  <2> QED
    BY <1>12, <2>2, <2>3 DEF Sign
<1> QED
  BY <1>5, <1>6, <1>7, <1>8, <1>9, <1>10, <1>11, <1>12 DEF Body


\* What holds of the repository at each point of a reconcile.  It holds no keycode
\* but the applied one, or those an earlier installation has left.
Told(o) == repo \subseteq setting.leftOver \/ repo \subseteq {o.applied}
ToldInv ==
    /\ worker.pc \in {"idle", "finish"} => Told(service)
    /\ worker.pc \in {"start", "delete", "writeBack"} => Told(worker.copy)
    /\ worker.pc = "delete" => worker.todo = repo
    /\ worker.pc \in {"add", "replace"} => repo = {}

\* With one keycode at most, the state says that it is there, and registered.
Meant(o) ==
    /\ o.state \in {"PollingRegistrationData", "WaitingSignatureData", "Done"} =>
          o.applied \in repo
    /\ o.state = "Done" => o.applied \in activated
MeantInv ==
    /\ \A c, d \in repo : c = d
    /\ worker.pc \in {"idle", "finish"} => Meant(service)
    /\ worker.pc \in {"start", "writeBack", "add", "replace"} => Meant(worker.copy)
    /\ worker.pc = "delete" /\ repo # {} => Meant(worker.copy)

\* How far the copy is ahead of the service, whose status the write-back changes.
Same == worker.copy.applied = service.applied /\ worker.copy.state = service.state
Emptied == worker.copy.applied = NoCode /\ worker.copy.state = "WaitingKeycode"
MovedOn ==
    \/ Same \/ Emptied
    \/ worker.copy.applied \in Codes /\ worker.copy.state = "PollingRegistrationData"
    \/ /\ worker.copy.applied = service.applied
       /\ \/ /\ service.state = "PollingRegistrationData"
             /\ worker.copy.state = "WaitingSignatureData"
          \/ /\ service.state \in {"PollingRegistrationData", "WaitingSignatureData"}
             /\ worker.copy.state = "Done" /\ service.applied \in activated
FlowInv ==
    /\ worker.pc \in {"start", "add", "delete"} => Same
    /\ worker.pc = "replace" => Emptied
    /\ worker.pc = "writeBack" => MovedOn

\* Where the body of the reconcile is, and what it leaves alone.
LEMMA BodyAt ==
  ASSUME TypeInv, Body
  PROVE  /\ worker.pc \in {"start", "delete", "add", "replace"}
         /\ UNCHANGED service /\ worker'.pc \notin {"idle", "finish"}
<1>1. worker.pc \in {"start", "delete", "add", "replace"}
  BY DEF Body, StopRetrying, StayEmpty, NothingToDo, List, Delete, Deleted, Add, Poll,
         Sign, Proceeds, At
<1> QED
  BY <1>1, BodyStep

\* The steps that change neither the reconcile nor the status nor the repository.
LEMMA QuietStep ==
  ASSUME Patient, Certain, TypeInv, PatientInv, Skip \/ Environment \/ UNCHANGED vars
  PROVE  /\ UNCHANGED <<worker, repo, activated>>
         /\ service'.applied = service.applied /\ service'.state = service.state
<1>1. Exists /\ service \in ServiceType
  BY Constructed DEF Exists, PatientInv
<1>2. ~Restart /\ ~DeleteService /\ ~ReleaseLock /\ ~CreateService
  BY <1>1 DEF Restart, Certain, Fails, DeleteService, Patient, ReleaseLock, CreateService
<1>3. CASE \/ Skip \/ Observe \/ Resync \/ Expire \/ Touch \/ GrantLock \/ UNCHANGED vars
  BY <1>3 DEF Skip, Observe, Resync, Expire, Touch, GrantLock, Write, Others, apiVars,
              repoVars, vars
<1>4. \A x : /\ [service EXCEPT !.code = x].applied = service.applied
             /\ [service EXCEPT !.code = x].state = service.state
             /\ [service EXCEPT !.sig = x].applied = service.applied
             /\ [service EXCEPT !.sig = x].state = service.state
  BY <1>1 DEF ServiceType
<1>5. CASE \E c \in AnyCode : EditKeycode(c)
  <2>1. /\ UNCHANGED <<worker, repo, activated>>
        /\ \E c \in AnyCode : service' = [service EXCEPT !.code = c]
    BY <1>5 DEF EditKeycode, Write, Others
  <2> QED
    BY <1>4, <2>1
<1>6. CASE FillInSignature
  <2>1. /\ UNCHANGED <<worker, repo, activated>>
        /\ service' = [service EXCEPT !.sig = service.applied]
    BY <1>6 DEF FillInSignature, Write, Others
  <2> QED
    BY <1>4, <2>1
<1> QED
  BY <1>2, <1>3, <1>5, <1>6 DEF Environment

\* The two ends of a reconcile.
LEMMA EndSteps ==
  ASSUME Patient, TypeInv, PatientInv, Start \/ WriteBack \/ Finish
  PROVE  /\ UNCHANGED repoVars
         /\ \/ /\ worker.pc = "idle" /\ worker'.pc = "start" /\ worker'.copy = service
               /\ UNCHANGED service
            \/ /\ worker.pc = "writeBack" /\ worker'.pc = "finish"
               /\ service' = worker.copy
            \/ worker.pc = "finish" /\ worker'.pc = "idle" /\ UNCHANGED service
<1>1. CASE Start
  <2>1. cached = service
    BY <1>1 DEF Start, Patient, TypeInv, ServiceTyped
  <2> QED
    BY <1>1, <2>1 DEF Start, Idle, At, apiVars, repoVars
<1>2. CASE WriteBack
  BY <1>2, PatientWriteBack, WriteBackStep DEF WriteBack, At, TypeInv
<1>3. CASE Finish
  BY <1>3 DEF Finish, Idle, At, apiVars, repoVars
<1> QED
  BY <1>1, <1>2, <1>3

LEMMA StepKinds ==
  ASSUME [Next]_vars
  PROVE  Body \/ (Start \/ WriteBack \/ Finish) \/ (Skip \/ Environment \/ UNCHANGED vars)
  BY DEF Next, Worker, Body

LEMMA ToldNext ==
  ASSUME Patient, Certain, TypeInv, PatientInv, ToldInv, [Next]_vars
  PROVE  ToldInv'
<1> USE DEF ToldInv, Told, repoVars
<1>0. setting' = setting /\ repo \subseteq Codes /\ NoCode \notin Codes
  BY ConstantsAssumption DEF Next, vars, TypeInv, RepoTyped
<1>1. CASE Body
  <2> USE DEF Copy, Reports, GoesOn
  <2>0. /\ worker.pc \in {"start", "delete", "add", "replace"}
        /\ worker'.pc \notin {"idle", "finish"}
    BY <1>1, BodyAt
  <2>1. CASE GivesUp
    BY <1>0, <2>0, <2>1 DEF GivesUp
  <2>2. CASE Starts
    BY <1>0, <2>0, <2>2 DEF Starts
  <2>3. CASE Empties
    BY <1>0, <2>0, <2>3 DEF Empties
  <2>4. CASE Polls
    BY <1>0, <2>0, <2>4 DEF Polls
  <2>5. ASSUME NEW c \in Codes, Deletes(c) PROVE ToldInv'
    BY <1>0, <2>0, <2>5 DEF Deletes
  <2>6. ASSUME NEW c \in Codes, Applies(c) PROVE ToldInv'
    BY <1>0, <2>0, <2>6 DEF Applies
  <2>7. ASSUME NEW c \in Codes, Signs(c) PROVE ToldInv'
    BY <1>0, <2>0, <2>7 DEF Signs
  <2> QED
    BY <1>1, <2>1, <2>2, <2>3, <2>4, <2>5, <2>6, <2>7, BodySteps DEF BodyOutcome
<1>2. CASE Start \/ WriteBack \/ Finish
  BY <1>0, <1>2, EndSteps
<1>3. CASE Skip \/ Environment \/ UNCHANGED vars
  BY <1>0, <1>3, QuietStep
<1> QED
  BY <1>1, <1>2, <1>3, StepKinds

LEMMA MeantNext ==
  ASSUME Patient, Certain, TypeInv, PatientInv, ToldInv, MeantInv, [Next]_vars
  PROVE  MeantInv'
<1> USE DEF MeantInv, Meant, repoVars
<1>1. CASE Body
  <2> USE DEF Copy, Reports, GoesOn
  <2>0. /\ worker.pc \in {"start", "delete", "add", "replace"}
        /\ worker'.pc \notin {"idle", "finish"}
        /\ worker.pc = "delete" => worker.todo = repo
        /\ worker.pc \in {"add", "replace"} => repo = {}
    BY <1>1, BodyAt DEF ToldInv
  <2>1. CASE GivesUp
    BY <2>0, <2>1 DEF GivesUp
  <2>2. CASE Starts
    BY <2>0, <2>2 DEF Starts
  <2>3. CASE Empties
    BY <2>0, <2>3 DEF Empties
  <2>4. CASE Polls
    BY <2>0, <2>4 DEF Polls
  <2>5. ASSUME NEW c \in Codes, Deletes(c) PROVE MeantInv'
    BY <2>0, <2>5 DEF Deletes
  <2>6. ASSUME NEW c \in Codes, Applies(c) PROVE MeantInv'
    BY <2>0, <2>6 DEF Applies
  <2>7. ASSUME NEW c \in Codes, Signs(c) PROVE MeantInv'
    BY <2>0, <2>7 DEF Signs
  <2> QED
    BY <1>1, <2>1, <2>2, <2>3, <2>4, <2>5, <2>6, <2>7, BodySteps DEF BodyOutcome
<1>2. CASE Start \/ WriteBack \/ Finish
  BY <1>2, EndSteps
<1>3. CASE Skip \/ Environment \/ UNCHANGED vars
  BY <1>3, QuietStep
<1> QED
  BY <1>1, <1>2, <1>3, StepKinds

LEMMA FlowNext ==
  ASSUME Patient, Certain, TypeInv, PatientInv, ToldInv, MeantInv, FlowInv, [Next]_vars
  PROVE  FlowInv'
<1> USE DEF FlowInv, MovedOn, Same, Emptied, repoVars
<1>1. CASE Body
  <2> USE DEF Copy, Reports, GoesOn
  <2>0. /\ worker.pc \in {"start", "delete", "add", "replace"} /\ UNCHANGED service
        /\ worker'.pc \notin {"idle", "finish"}
        /\ \A c, d \in repo : c = d
        /\ worker.pc = "start" => Meant(worker.copy)
    BY <1>1, BodyAt DEF MeantInv
  <2>1. CASE GivesUp
    BY <2>0, <2>1 DEF GivesUp
  <2>2. CASE Starts
    BY <2>0, <2>2 DEF Starts
  <2>3. CASE Empties
    BY <2>0, <2>3 DEF Empties
  <2>4. CASE Polls
    BY <2>0, <2>4 DEF Polls, Meant
  <2>5. ASSUME NEW c \in Codes, Deletes(c) PROVE FlowInv'
    BY <2>0, <2>5 DEF Deletes
  <2>6. ASSUME NEW c \in Codes, Applies(c) PROVE FlowInv'
    BY <2>0, <2>6 DEF Applies
  <2>7. ASSUME NEW c \in Codes, Signs(c) PROVE FlowInv'
    BY <2>0, <2>7 DEF Signs, Meant
  <2> QED
    BY <1>1, <2>1, <2>2, <2>3, <2>4, <2>5, <2>6, <2>7, BodySteps DEF BodyOutcome
<1>2. CASE Start \/ WriteBack \/ Finish
  BY <1>2, EndSteps
<1>3. CASE Skip \/ Environment \/ UNCHANGED vars
  BY <1>3, QuietStep
<1> QED
  BY <1>1, <1>2, <1>3, StepKinds

LEMMA StatusAlways ==
  Spec => [](/\ TypeInv /\ (Patient => PatientInv)
             /\ (Patient /\ Certain => ToldInv)
             /\ (Patient /\ Certain /\ FewLeft => MeantInv /\ FlowInv))
<1>1. Init => ToldInv /\ (FewLeft => MeantInv /\ FlowInv)
  BY DEF Init, ToldInv, Told, MeantInv, Meant, FlowInv, FewLeft, Idle, Blank, NoService
<1>2. TypeInv /\ PatientInv /\ Patient /\ Certain /\ ToldInv /\ [Next]_vars => ToldInv'
  BY ToldNext
<1>3. /\ TypeInv /\ PatientInv /\ Patient /\ Certain /\ ToldInv /\ MeantInv /\ FlowInv
      /\ [Next]_vars
      => MeantInv' /\ FlowInv'
  BY MeantNext, FlowNext
<1>4. [Next]_vars => /\ (Patient' <=> Patient) /\ (Certain' <=> Certain)
                     /\ (FewLeft' <=> FewLeft)
  BY SettingKept
<1> QED
  BY <1>1, <1>2, <1>3, <1>4, PatientAlways, PTL DEF Spec

\* For such users, when it is known what becomes of a call, the repository holds no
\* keycode the status does not tell, but for those an earlier installation has left.
THEOREM StatusTells == Spec => []StatusTellsRepositoryIfPatient
<1>1. (Patient /\ Certain => ToldInv) => StatusTellsRepositoryIfPatient
  BY DEF ToldInv, Told, StatusTellsRepositoryIfPatient, StatusTellsRepository, Settled, At
<1> QED
  BY <1>1, StatusAlways, PTL

\* If these are one at most, a keycode called Done is there and registered.
THEOREM DoneMeansRegistered == Spec => []DoneIsRegisteredIfPatient
<1>1. (Patient /\ Certain /\ FewLeft => MeantInv) => DoneIsRegisteredIfPatient
  BY DEF MeantInv, Meant, DoneIsRegisteredIfPatient, Settled, At
<1> QED
  BY <1>1, StatusAlways, PTL

\* The repository registers keycodes one at a time.
LEMMA ActivatesOne ==
  ASSUME TypeInv, Body
  PROVE  activated' = activated \/ \E c \in Codes : activated' = activated \union {c}
  BY DEF Body, StopRetrying, StayEmpty, NothingToDo, List, Delete, Deleted, Add, Poll,
         Sign, Local, repoVars, TypeInv, RepoTyped

LEMMA FlowStep ==
  ASSUME Patient, Certain, TypeInv, PatientInv, MeantInv, FlowInv, [Next]_vars
  PROVE  [Flow!Next]_(Flow!vars)
<1> USE DEF Flow!Next, Flow!vars, Flow!Apply, Flow!Remove, Flow!Poll, Flow!Complete,
            Flow!Activate, Flow!Polling, Flow!WaitingSignature, Flow!Registered,
            Flow!WaitingKeycode
<1>0. Exists /\ Exists'
  BY PatientNext, Constructed DEF PatientInv, Exists
<1>1. CASE Body
  BY <1>0, <1>1, BodyAt, ActivatesOne
<1>2. CASE Start \/ WriteBack \/ Finish
  <2>1. CASE UNCHANGED <<service, repoVars>>
    BY <1>0, <2>1 DEF repoVars
  <2>2. CASE /\ worker.pc = "writeBack" /\ service' = worker.copy /\ UNCHANGED repoVars
    BY <1>0, <2>2 DEF FlowInv, MovedOn, Same, Emptied, repoVars
  <2> QED
    BY <1>2, <2>1, <2>2, EndSteps
<1>3. CASE Skip \/ Environment \/ UNCHANGED vars
  BY <1>0, <1>3, QuietStep
<1> QED
  BY <1>1, <1>2, <1>3, StepKinds

\* For such users the controller implements the documented flow of states.
THEOREM StatusFollowsFlow == Spec => FollowsFlowIfPatient
<1>1. Init => Flow!Init
  BY Constructed DEF Init, Flow!Init, Flow!Default, Exists, Blank, NoService
<1>2. /\ TypeInv /\ (Patient => PatientInv)
      /\ (Patient /\ Certain /\ FewLeft => MeantInv /\ FlowInv)
      /\ [Next]_vars
      => [Patient /\ Certain /\ FewLeft => [Flow!Next]_(Flow!vars)]_vars
  BY FlowStep
<1> QED
  BY <1>1, <1>2, StatusAlways, PTL DEF Spec, FollowsFlowIfPatient
=============================================================================
