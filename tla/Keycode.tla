------------------------------- MODULE Keycode -------------------------------
(***************************************************************************)
(* The keycode controller: it takes the keycode and the signature data a   *)
(* user writes into an AlamedaService to the keycode repository (Datahub)  *)
(* and writes back how far the registration is.                            *)
(*                                                                         *)
(* A reconcile copies the AlamedaService out of the informer's cache, talks*)
(* to the repository, one call per step, and ends with deferred functions: *)
(* the write-back of the copy onto what the cache holds by then, the       *)
(* bookkeeping of the retry limit and the flush of the license events.     *)
(* Users edit the service meanwhile.                                       *)
(***************************************************************************)
EXTENDS Integers, FiniteSets

CONSTANTS
    Codes,        \* keycodes
    Trial,        \* the default trial keycode, or NoCode
    NoCode,       \* the empty keycode, no signature data
    Cap,          \* capacity of the channel of license events
    Settings      \* the settings considered (see SettingType)

\* A call to the repository fails, its answer is lost after it took effect, a
\* call to the API server fails, or the process restarts.
Failures == {"list", "delete", "add", "poll", "sign", "summary", "update",
             "lostDelete", "lostAdd", "lostSign", "restart"}

\* What the controller meets: whether users write while a reconcile is under way,
\* and delete and re-create the AlamedaService; the keycodes an earlier installation
\* may have left; bounds on the writes of users and other controllers and on
\* failures; the kinds of failure.
SettingType == [racing : BOOLEAN, deletable : BOOLEAN, leftOver : SUBSET Codes,
                maxWrites : Nat, canFail : SUBSET Failures, maxFailures : Nat]

ASSUME ConstantsAssumption ==
    /\ NoCode \notin Codes
    /\ Trial \in Codes \union {NoCode}
    /\ Cap \in Nat
    /\ Settings \subseteq SettingType

VARIABLES
    setting,    \* what the controller meets, which does not change
    service,    \* keycode and keycode status in the API server
    cached,     \* the same in the informer's cache
    stale,      \* whether the cache holds an older version
    owned,      \* whether the service owns the AlamedaService lock
    queued,     \* whether the service is in the work queue
    worker,     \* the reconcile in progress
    clock,      \* first retry: none, within the limit, beyond the limit
    events,     \* license events in the channel
    repo,       \* keycodes at the repository
    activated,  \* keycodes that are registered
    writes,     \* writes of users and other controllers so far
    failures    \* failures so far

apiVars == <<service, stale, owned, writes>>
repoVars == <<repo, activated>>
vars == <<setting, apiVars, cached, queued, worker, clock, events, repoVars, failures>>

AnyCode == Codes \union {NoCode}
States == {"Default", "WaitingKeycode", "PollingRegistrationData",
           "WaitingSignatureData", "Done"}

\* spec.keycode and status.keycodeStatus.  Signature data is named by the
\* keycode it has been issued for, and so is registration data.
ServiceType == [code : AnyCode, sig : AnyCode, applied : AnyCode, state : States]
NoService == [code |-> NoCode, sig |-> NoCode, applied |-> NoCode, state |-> "none"]
Blank == [NoService EXCEPT !.state = "Default"]
Exists == service # NoService

PCs == {"idle", "start", "delete", "add", "replace", "writeBack", "finish"}
Idle == [pc |-> "idle", copy |-> NoService, todo |-> {}, requeue |-> FALSE,
         lateRequeue |-> FALSE]

TypeOK ==
    /\ setting \in Settings
    /\ service \in ServiceType \union {NoService}
    /\ cached \in ServiceType \union {NoService}
    /\ stale \in BOOLEAN /\ owned \in BOOLEAN /\ queued \in BOOLEAN
    /\ ~stale => cached = service
    /\ worker.pc \in PCs
    /\ worker.copy \in ServiceType \union {NoService}
    /\ worker.todo \subseteq Codes
    /\ worker.requeue \in BOOLEAN /\ worker.lateRequeue \in BOOLEAN
    /\ clock \in {"none", "recent", "expired"}
    /\ events \in 0 .. Cap
    /\ repo \subseteq Codes /\ activated \subseteq Codes
    /\ writes \in 0 .. setting.maxWrites
    /\ failures \in 0 .. setting.maxFailures

-----------------------------------------------------------------------------
(* Helpers *)

At(pc) == worker.pc = pc
Copy == worker.copy

Succeeds == UNCHANGED failures
Fails(f) ==
    /\ f \in setting.canFail /\ failures < setting.maxFailures
    /\ failures' = failures + 1
FailsIf(refused, f) == IF refused THEN UNCHANGED failures ELSE Fails(f)

\* A slip: removing the keycode is no update.
UpdatedIfFilledIn(o) == o.code \notin {NoCode, o.applied}

IsCodeNumberUpdated(o) == o.code # o.applied

\* addEvent blocks while the channel is full.
AddEvent == events < Cap /\ events' = events + 1

\* The body of the reconcile is over with this copy; its result is fixed.
Return(copy, requeue) ==
    worker' = [worker EXCEPT !.pc = "writeBack", !.copy = copy, !.todo = {},
                             !.requeue = requeue]
GiveUp == Return(Copy, TRUE)

\* What is left of the copy once its keycode is not at the repository.
Cleared(o) == [Blank EXCEPT !.state = "WaitingKeycode"]
\* A slip: the new keycode is cleared along with the old one.
ReplacedByNone(o) == Cleared(o)
Replaced(o) == [Cleared(o) EXCEPT !.code = o.code]
Applied(o, c) == [o EXCEPT !.applied = c, !.state = "PollingRegistrationData"]

\* A slip: whatever has been applied counts as registered.
TakenAsRegistered == {repo # {}}
\* What GetKeycodeDetail("") may say of Registered: it asks for a summary of
\* the repository, which of several keycodes may speak of any.
SummaryRegistered == IF repo = {} THEN {FALSE} ELSE {(c \in activated) : c \in repo}

\* A slip: the clock of a retry that succeeded goes on.
ClockKept(requeue) == IF requeue /\ clock = "none" THEN "recent" ELSE clock
\* handleFirstRetryTime
NextClock(requeue) ==
    IF ~requeue THEN "none" ELSE IF clock = "none" THEN "recent" ELSE clock

\* A slip: events are kept until a reconcile is not requeued.
FlushWhenDone == events' = IF worker.requeue THEN events ELSE 0
\* flushEvents empties the channel, whether it can deliver the events or not.
FlushEvents == events' = 0

-----------------------------------------------------------------------------
(* Reconcile, one call per action *)

Init ==
    /\ setting \in Settings
    /\ service = Blank /\ cached = service /\ stale = FALSE
    /\ owned = FALSE /\ queued = TRUE
    /\ worker = Idle
    /\ clock = "none" /\ events = 0
    /\ repo \in SUBSET setting.leftOver
    /\ activated \in SUBSET Codes
    /\ writes = 0 /\ failures = 0

\* A service that is gone leaves everything as it is: what is remembered of
\* it is looked up by the name of an empty copy.  Without a lock the request is
\* requeued, with another service's lock it is not.
Skip ==
    /\ At("idle") /\ queued /\ (setting.racing \/ ~stale)
    /\ \/ cached = NoService /\ queued' = FALSE
       \/ cached # NoService /\ ~owned /\ queued' \in BOOLEAN
    /\ UNCHANGED <<apiVars, cached, worker, clock, events, repoVars, failures>>

Start ==
    /\ At("idle") /\ queued /\ (setting.racing \/ ~stale)
    /\ cached # NoService /\ owned
    /\ queued' = FALSE
    /\ worker' = [Idle EXCEPT !.pc = "start", !.copy = cached]
    /\ UNCHANGED <<apiVars, cached, clock, events, repoVars, failures>>

Local == UNCHANGED <<apiVars, cached, queued, clock, events, repoVars, failures>>

\* The retry limit: this reconcile does nothing and is not requeued.
StopRetrying ==
    /\ At("start") /\ clock = "expired"
    /\ Return(Copy, FALSE)
    /\ Local

Proceeds == At("start") /\ clock # "expired"

\* No keycode, and none applied: leave the repository alone.
StayEmpty ==
    /\ Proceeds
    /\ Copy.code = NoCode /\ ~IsCodeNumberUpdated(Copy)
    /\ Return(Cleared(Copy), FALSE)
    /\ Local

\* Done, or waiting for the user's signature data.
NothingToDo ==
    /\ Proceeds
    /\ Copy.code # NoCode /\ ~IsCodeNumberUpdated(Copy)
    /\ \/ Copy.state = "Done"
       \/ Copy.state = "WaitingSignatureData" /\ Copy.sig = NoCode
    /\ Return(Copy, FALSE)
    /\ Local

\* handleEmptyKeycode and handleKeycode start with a list of the repository.
\* The trial keycode gives way to the first one listed.
List ==
    /\ Proceeds
    /\ \/ IsCodeNumberUpdated(Copy)
       \/ Copy.code # NoCode /\ Copy.state \in {"Default", "WaitingKeycode"}
    /\ \/ /\ Succeeds
          /\ \/ /\ Copy.code # NoCode /\ repo = {}
                /\ worker' = [worker EXCEPT !.pc = "add"]
             \/ /\ Copy.code = NoCode \/ (repo # {} /\ Copy.code # Trial)
                /\ worker' = [worker EXCEPT !.pc = "delete", !.todo = repo]
             \/ /\ Copy.code = Trial /\ Copy.code # NoCode
                /\ \E c \in repo : Return(Applied([Blank EXCEPT !.code = c], c), TRUE)
       \/ Fails("list") /\ GiveUp
    /\ UNCHANGED <<apiVars, cached, queued, clock, events, repoVars>>

Delete(c) ==
    /\ At("delete") /\ c \in worker.todo
    /\ \/ /\ Succeeds
          /\ repo' = repo \ {c}
          /\ worker' = [worker EXCEPT !.todo = @ \ {c}]
       \/ Fails("delete") /\ GiveUp /\ UNCHANGED repo
       \/ Fails("lostDelete") /\ GiveUp /\ repo' = repo \ {c}
    /\ AddEvent
    /\ UNCHANGED <<apiVars, cached, queued, clock, activated>>

\* Everything is deleted: that was all, or the new keycode comes next.
Deleted ==
    /\ At("delete") /\ worker.todo = {}
    /\ \/ Copy.code = NoCode /\ Return(Cleared(Copy), FALSE)
       \/ /\ Copy.code # NoCode
          /\ worker' = [worker EXCEPT !.pc = "replace", !.copy = Replaced(Copy)]
    /\ Local

\* SendKeycode.  A failure is announced only for the first keycode.
Add ==
    /\ At("add") \/ At("replace")
    /\ \/ /\ Succeeds /\ AddEvent
          /\ repo' = repo \union {Copy.code}
          /\ Return(Applied(Copy, Copy.code), TRUE)
       \/ /\ \/ Fails("add") /\ UNCHANGED repo
             \/ Fails("lostAdd") /\ repo' = repo \union {Copy.code}
          /\ GiveUp
          /\ IF At("add") THEN AddEvent ELSE UNCHANGED events
    /\ UNCHANGED <<apiVars, cached, queued, clock, activated>>

\* Registration data, and the summary of the repository.
Poll ==
    /\ Proceeds
    /\ Copy.code # NoCode /\ ~IsCodeNumberUpdated(Copy)
    /\ Copy.state = "PollingRegistrationData"
    /\ \/ /\ TRUE \in SummaryRegistered /\ Succeeds
          /\ Return([Copy EXCEPT !.sig = Copy.code, !.state = "Done"], FALSE)
       \/ /\ FALSE \in SummaryRegistered /\ Succeeds
          /\ Return([Copy EXCEPT !.state = "WaitingSignatureData"], FALSE)
       \/ Fails("poll") /\ GiveUp
    /\ UNCHANGED <<apiVars, cached, queued, clock, events, repoVars>>

\* The repository takes the signature data of a keycode it has.
Sign ==
    /\ Proceeds
    /\ Copy.code # NoCode /\ ~IsCodeNumberUpdated(Copy)
    /\ Copy.state = "WaitingSignatureData" /\ Copy.sig # NoCode
    /\ \/ /\ Copy.sig \in repo /\ Succeeds
          /\ activated' = activated \union {Copy.sig}
          /\ Return([Copy EXCEPT !.state = "Done"], FALSE)
       \/ /\ FailsIf(Copy.sig \notin repo, "sign")
          /\ GiveUp
          /\ UNCHANGED activated
       \/ /\ Copy.sig \in repo /\ Fails("lostSign")
          /\ GiveUp
          /\ activated' = activated \union {Copy.sig}
    /\ UNCHANGED <<apiVars, cached, queued, clock, events, repo>>

\* The deferred write-back: the copy's keycode and keycode status go onto the
\* service the cache holds now, whatever the user has written meanwhile.  The
\* summary and the error message are not modelled, but they may be all that
\* changes.  A requeue set here is too late for the result.
WriteBack ==
    /\ At("writeBack")
    /\ \/ /\ cached = NoService /\ Succeeds
          /\ worker' = [worker EXCEPT !.pc = "finish"]
          /\ UNCHANGED <<service, stale>>
       \/ /\ cached # NoService /\ ~stale
          /\ service' = Copy
          /\ IF Copy # service THEN stale' = TRUE ELSE stale' \in BOOLEAN
          /\ \E failed \in BOOLEAN :
                /\ IF failed THEN Fails("summary") ELSE Succeeds
                /\ worker' = [worker EXCEPT !.pc = "finish", !.lateRequeue = failed]
       \/ /\ cached # NoService /\ FailsIf(stale, "update")
          /\ worker' = [worker EXCEPT !.pc = "finish", !.lateRequeue = TRUE]
          /\ UNCHANGED <<service, stale>>
    /\ UNCHANGED <<owned, writes, cached, queued, clock, events, repoVars>>

\* handleFirstRetryTime sees the late requeue, the work queue does not.
Finish ==
    /\ At("finish")
    /\ clock' = NextClock(worker.requeue \/ worker.lateRequeue)
    /\ queued' = (queued \/ worker.requeue)
    /\ FlushEvents
    /\ worker' = Idle
    /\ UNCHANGED <<apiVars, cached, repoVars, failures>>

Worker ==
    \/ Skip \/ Start \/ StopRetrying \/ StayEmpty \/ NothingToDo
    \/ List \/ (\E c \in Codes : Delete(c)) \/ Deleted \/ Add
    \/ Poll \/ Sign \/ WriteBack \/ Finish

-----------------------------------------------------------------------------
(* The informer, time, users, other controllers, the operator's process *)

\* A slip: the key is queued before the cache has the change.
ObserveKeyOnly ==
    /\ stale
    /\ stale' = FALSE
    /\ queued' = TRUE
    /\ UNCHANGED <<service, cached, owned, writes, worker, clock, events, repoVars, failures>>

\* A change of the service reaches the cache and queues the service.
Observe ==
    /\ stale
    /\ cached' = service /\ stale' = FALSE
    /\ queued' = TRUE
    /\ UNCHANGED <<service, owned, writes, worker, clock, events, repoVars, failures>>

Resync ==
    /\ cached # NoService /\ ~queued
    /\ queued' = TRUE
    /\ UNCHANGED <<apiVars, cached, worker, clock, events, repoVars, failures>>

Expire ==
    /\ clock = "recent" /\ clock' = "expired"
    /\ UNCHANGED <<apiVars, cached, queued, worker, events, repoVars, failures>>

\* Someone else writes the service: a user its keycode or its signature data,
\* another controller something that is not modelled.
Write(new) ==
    /\ writes < setting.maxWrites /\ writes' = writes + 1
    /\ setting.racing \/ (At("idle") /\ ~stale)
    /\ service' = new /\ stale' = TRUE
Others == UNCHANGED <<cached, queued, worker, clock, events, activated, failures>>

EditKeycode(c) ==
    /\ Exists /\ service.code # c
    /\ Write([service EXCEPT !.code = c])
    /\ UNCHANGED <<owned, repo>> /\ Others
FillInSignature ==
    /\ Exists /\ service.state = "WaitingSignatureData"
    /\ service.sig # service.applied
    /\ Write([service EXCEPT !.sig = service.applied])
    /\ UNCHANGED <<owned, repo>> /\ Others
Touch ==
    /\ Exists
    /\ Write(service)
    /\ UNCHANGED <<owned, repo>> /\ Others

\* The main controller activates the service, which writes it.
GrantLock ==
    /\ Exists /\ ~owned
    /\ setting.racing \/ (At("idle") /\ ~stale)
    /\ owned' = TRUE /\ stale' = TRUE
    /\ UNCHANGED <<service, writes, repo>> /\ Others

\* The repository's data may or may not survive the service.
DeleteService ==
    /\ setting.deletable /\ Exists
    /\ Write(NoService)
    /\ repo' \in {repo, {}}
    /\ UNCHANGED owned /\ Others
ReleaseLock ==
    /\ ~Exists /\ owned
    /\ owned' = FALSE
    /\ UNCHANGED <<service, stale, writes, repo>> /\ Others
CreateService ==
    /\ ~Exists
    /\ Write(Blank)
    /\ UNCHANGED <<owned, repo>> /\ Others

Restart ==
    /\ Fails("restart")
    /\ worker' = Idle /\ clock' = "none" /\ events' = 0
    /\ cached' = service /\ stale' = FALSE /\ queued' = Exists
    /\ UNCHANGED <<service, owned, writes, repoVars>>

Environment ==
    \/ Observe \/ Resync \/ Expire \/ Restart
    \/ (\E c \in AnyCode : EditKeycode(c)) \/ FillInSignature \/ Touch
    \/ GrantLock \/ DeleteService \/ ReleaseLock \/ CreateService

Next == (Worker \/ Environment) /\ UNCHANGED setting

Spec == Init /\ [][Next]_vars

\* The controller works, the informer delivers and resyncs, the service gets
\* the lock.  Users owe nothing, and no retry limit has to run out.
Fairness ==
    /\ WF_vars(Worker /\ UNCHANGED setting)
    /\ WF_vars(Observe /\ UNCHANGED setting)
    /\ WF_vars(Resync /\ UNCHANGED setting)
    /\ WF_vars(GrantLock /\ UNCHANGED setting)
FairSpec == Spec /\ Fairness

-----------------------------------------------------------------------------
(* Properties *)

\* Users wait for the operator, and the write-back works.
Patient ==
    /\ ~setting.racing /\ ~setting.deletable
    /\ setting.canFail \intersect {"summary", "update"} = {}
\* What becomes of a call is known: no answer is lost, and the process goes on.
Certain == setting.canFail \intersect {"lostDelete", "lostAdd", "restart"} = {}
\* Earlier installations have left one keycode at most.
FewLeft == \A c, d \in setting.leftOver : c = d

Settled == At("idle") /\ ~queued /\ ~stale /\ owned /\ Exists

\* The retry clock runs only while a retry is to come: always,
RetryClockMeansRetry == At("idle") /\ ~queued => clock = "none"
\* and for users who wait.
RetryClockMeansRetryIfPatient == Patient => RetryClockMeansRetry

\* The repository holds no keycode the service does not speak of: always,
StatusTellsRepository ==
    Settled => repo \subseteq {service.applied} \union setting.leftOver
\* and for users who wait, if the operator learns what becomes of its calls.
StatusTellsRepositoryIfPatient == Patient /\ Certain => StatusTellsRepository

\* A keycode a service calls Done is at the repository and registered, for such users.
DoneIsRegisteredIfPatient ==
    Patient /\ Certain /\ FewLeft =>
      (Settled /\ service.state = "Done" /\ ~IsCodeNumberUpdated(service) =>
         service.applied \in repo /\ service.applied \in activated)

\* An edit of the user stays until the user's next one, but for the trial
\* keycode, which gives way to the keycode that is there: always,
EditsStay ==
    [][WriteBack => service'.code = service.code \/ service.code = Trial]_vars
\* and for users who wait.
EditsStayIfPatient ==
    [][Patient /\ WriteBack => service'.code = service.code \/ service.code = Trial]_vars

\* The event channel never blocks a reconcile, and is empty between two.
EventsFit ==
    /\ worker.pc \in {"delete", "add", "replace"} => events < Cap
    /\ At("idle") => events = 0

\* What a user who waits fills in ends up at the repository, what such a user removes
\* does not stay there.
Converged ==
    /\ service.code = service.applied
    /\ IF service.code = NoCode
       THEN service.state = "WaitingKeycode" /\ repo \subseteq setting.leftOver
       ELSE /\ service.code \in repo
            /\ service.state \in {"WaitingSignatureData", "Done"}
ConvergesIfPatient == <>[](Patient /\ Certain /\ FewLeft => Converged)

Flow == INSTANCE KeycodeFlow WITH
    code <- service.applied,
    state <- IF Exists THEN service.state ELSE "Default"
\* The status of the keycode moves as the documented flow says, for such users.
FollowsFlowIfPatient ==
    /\ Patient /\ Certain /\ FewLeft => Flow!Init
    /\ [][Patient /\ Certain /\ FewLeft => [Flow!Next]_(Flow!vars)]_vars
=============================================================================
