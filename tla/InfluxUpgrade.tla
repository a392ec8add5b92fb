--------------------------- MODULE InfluxUpgrade ---------------------------
(***************************************************************************)
(* The upgrade of InfluxDB from the schema of the Kilo release to that of  *)
(* Lima, between the start of a new operator's pod and its first reconcile.*)
(*                                                                         *)
(* An init container runs "upgrade influxdb": if InfluxDB has a Service and *)
(* no Lima measurement it scales every consumer to 0, one goroutine each,  *)
(* drops the Kilo databases and scales the consumers back to 1.  If it     *)
(* fails or runs out of time it is started again from the beginning, with  *)
(* whatever it has left behind.  Then the operator starts.  It installs    *)
(* InfluxDB if it is not there, its Service long before its StatefulSet,   *)
(* and brings the consumers to its own release.  The consumers write to    *)
(* the database whenever both run.                                         *)
(***************************************************************************)
EXTENDS Integers, UpgradePromise

CONSTANTS
    CanFail,       \* kinds of failure: "call", "lostDrop", "timeout", "restart",
                   \* "protect" (the operator to be replaced undoes the scaling)
    MaxFailures    \* bound on failures

VARIABLES
    task,      \* the goroutine of each consumer in the phase "down" or "up"
    replicas,  \* spec.replicas, which the pods follow, and
    status,    \* status.replicas, which follows the pods
    database,  \* InfluxDB: "absent", only its "service" is there, its StatefulSet is
               \* "created" as well, or it is "serving"
    failures   \* failures so far

vars == <<pc, task, release, replicas, running, status, database, data, misled, early,
          failures>>
clusterVars == <<release, replicas, running, status, database, data>>
ownVars == <<pc, task, misled, early, failures>>

UpgradeTypeOK ==
    /\ pc \in {"check", "down", "drop", "up", "operate"}
    /\ task \in [Consumers -> {"start", "poll", "done", "failed"}]
    /\ release \in [Consumers -> {"none", "kilo", "lima"}]
    /\ replicas \in [Consumers -> 0 .. 1]
    /\ running \in [Consumers -> 0 .. 1]
    /\ status \in [Consumers -> 0 .. 1]
    /\ database \in {"absent", "service", "created", "serving"}
    /\ data \subseteq {"old", "kilo", "lima"}
    /\ misled \in BOOLEAN /\ early \in BOOLEAN
    /\ failures \in 0 .. MaxFailures

-----------------------------------------------------------------------------
(* The upgrader *)

At(step) == pc = step
Fails(f) == f \in CanFail /\ failures < MaxFailures /\ failures' = failures + 1
Succeeds == UNCHANGED failures
Started == [c \in Consumers |-> "start"]
\* An error ends the container, which is started again.
GiveUp == pc' = "check" /\ task' = Started
Goto(step) == pc' = step /\ task' = Started

\* isAlamedaInfluxdbServiceExist, isLimaMeasurementsExist: nothing to do if InfluxDB
\* has no Service, or a Lima measurement.  Behind the Service the query fails as long
\* as InfluxDB does not serve, at every attempt.  (A slip for the mutants: the
\* measurements are not looked for.)
CheckIf(done) ==
    /\ At("check")
    /\ \/ database = "absent" /\ Goto("operate") /\ Succeeds
       \/ database = "serving" /\ Goto(IF done THEN "operate" ELSE "down") /\ Succeeds
       \/ database \in {"service", "created"} /\ GiveUp /\ Succeeds
       \/ GiveUp /\ Fails("call")
    /\ UNCHANGED <<clusterVars, misled, early>>
CheckInstalled == CheckIf(FALSE)
Check == CheckIf("lima" \in data)

Desired == IF At("down") THEN 0 ELSE 1
Scaling == pc \in {"down", "up"}

\* One goroutine gets the controller and updates it; it ignores one not installed.
Scale(c) ==
    /\ Scaling /\ task[c] = "start"
    /\ \/ /\ c \notin Installed /\ task' = [task EXCEPT ![c] = "done"]
          /\ UNCHANGED replicas /\ Succeeds
       \/ /\ c \in Installed /\ task' = [task EXCEPT ![c] = "poll"]
          /\ replicas' = [replicas EXCEPT ![c] = Desired] /\ Succeeds
       \/ /\ task' = [task EXCEPT ![c] = "failed"]
          /\ UNCHANGED replicas /\ Fails("call")
    /\ UNCHANGED <<pc, release, running, status, database, data, misled, early>>

\* It polls status.replicas until it is as desired.  An error ends the polling.  (A
\* slip: the first answer will do.)
PollIf(reached, c) ==
    /\ Scaling /\ task[c] = "poll"
    /\ \/ reached /\ task' = [task EXCEPT ![c] = "done"] /\ Succeeds
       \/ task' = [task EXCEPT ![c] = "failed"] /\ Fails("call")
    /\ misled' = (misled \/ status[c] # running[c])
    /\ UNCHANGED <<pc, clusterVars, early>>
PollOnce(c) == PollIf(TRUE, c)
Poll(c) == PollIf(status[c] = Desired, c)

\* The timeout ends every goroutine at work.  It is a failure, unless a consumer has
\* been restored: then polling would not end.
Restored == \E c \in Consumers : task[c] = "poll" /\ replicas[c] # Desired
Timeout ==
    /\ Scaling /\ \E c \in Consumers : task[c] \in {"start", "poll"}
    /\ task' = [c \in Consumers |-> IF task[c] = "done" THEN "done" ELSE "failed"]
    /\ IF Restored THEN Succeeds ELSE Fails("timeout")
    /\ UNCHANGED <<pc, clusterVars, misled, early>>

\* All goroutines are waited for, also when one has failed.
Join ==
    /\ Scaling /\ \A c \in Consumers : task[c] \in {"done", "failed"}
    /\ IF \E c \in Consumers : task[c] = "failed" THEN GiveUp
       ELSE Goto(IF At("down") THEN "drop" ELSE "operate")
    /\ Succeeds /\ UNCHANGED <<clusterVars, misled, early>>

\* dropKiloDatabases: one query drops them all.  If it fails some of them, or the
\* answer only, may be gone.  (A slip: an error is dropped.)
DropOr(stop) ==
    /\ At("drop")
    /\ \/ data' = {} /\ Goto("up") /\ Succeeds
       \/ (\E left \in SUBSET data : data' = left) /\ stop /\ Fails("lostDrop")
       \/ UNCHANGED data /\ stop /\ Fails("call")
    /\ UNCHANGED <<release, replicas, running, status, database, misled, early>>
DropOnce == DropOr(Goto("up"))
Drop == DropOr(GiveUp)

Upgrader ==
    \/ Check \/ Join \/ Drop
    \/ \E c \in Consumers : Scale(c) \/ Poll(c)

-----------------------------------------------------------------------------
(* The operator, the cluster and the consumers *)

\* The first reconcile creates the Service of InfluxDB, then brings every consumer to
\* the operator's release and to the replicas of its manifest, and then creates the
\* StatefulSet of InfluxDB: Deployments, as consumers are, come first.  (A slip: the
\* replicas of an old controller are kept.)
CreateService ==
    /\ At("operate") /\ database = "absent" /\ database' = "service"
    /\ UNCHANGED <<ownVars, release, replicas, running, status, data>>
OperateWith(c, wanted) ==
    /\ At("operate") /\ database # "absent" /\ <<release[c], replicas[c]>> # <<"lima", wanted>>
    /\ release' = [release EXCEPT ![c] = "lima"]
    /\ replicas' = [replicas EXCEPT ![c] = wanted]
    /\ running' = [running EXCEPT ![c] = IF release[c] = "lima" THEN @ ELSE 0]
    /\ UNCHANGED <<ownVars, status, database, data>>
OperateImages(c) == OperateWith(c, IF c \in Installed THEN replicas[c] ELSE 1)
Operate(c) == OperateWith(c, 1)
CreateDatabase ==
    /\ At("operate") /\ database = "service" /\ database' = "created"
    /\ \A c \in Consumers : release[c] = "lima" /\ replicas[c] = 1
    /\ UNCHANGED <<ownVars, release, replicas, running, status, data>>

\* The old operator, if it protects its operands, undoes the scaling.
Protect(c) ==
    /\ ~At("operate") /\ c \in Installed /\ replicas[c] = 0 /\ Fails("protect")
    /\ replicas' = [replicas EXCEPT ![c] = 1] /\ misled' = TRUE
    /\ UNCHANGED <<pc, task, release, running, status, database, data, early>>

\* The controllers of the cluster start and stop pods, and then report them.
StartOrStop(c) ==
    /\ c \in Installed /\ running[c] # replicas[c]
    /\ running' = [running EXCEPT ![c] = replicas[c]]
    /\ UNCHANGED <<ownVars, release, replicas, status, database, data>>
Report(c) ==
    /\ status[c] # running[c] /\ status' = [status EXCEPT ![c] = running[c]]
    /\ UNCHANGED <<ownVars, release, replicas, running, database, data>>

\* The pod of InfluxDB starts.  A consumer that runs then writes data as its release
\* does.
StartDatabase ==
    /\ database = "created" /\ database' = "serving"
    /\ UNCHANGED <<ownVars, release, replicas, running, status, data>>
Write(c) ==
    /\ database = "serving" /\ running[c] = 1
    /\ data' = data \union {release[c]} /\ data' # data
    /\ UNCHANGED <<ownVars, release, replicas, running, status, database>>

\* The pod is restarted: while the upgrader or while the operator runs.
Restart ==
    /\ Fails("restart") /\ GiveUp
    /\ early' = (early \/ ("lima" \notin data /\ \E c \in Consumers : release[c] = "lima"))
    /\ UNCHANGED <<clusterVars, misled>>

\* A cluster with consumers of the Kilo release and their database, or one where
\* nothing is installed.
Init ==
    /\ pc = "check" /\ task = Started
    /\ \E installed \in SUBSET Consumers :
          /\ release = [c \in Consumers |-> IF c \in installed THEN "kilo" ELSE "none"]
          /\ replicas = [c \in Consumers |-> IF c \in installed THEN 1 ELSE 0]
          /\ data = IF installed = {} THEN {} ELSE {"old"}
          /\ database = IF installed = {} THEN "absent" ELSE "serving"
    /\ running = replicas /\ status = replicas
    /\ misled = FALSE /\ early = FALSE /\ failures = 0

Cluster == StartDatabase \/ \E c \in Consumers : StartOrStop(c) \/ Report(c)
Operator == CreateService \/ CreateDatabase \/ \E c \in Consumers : Operate(c)
Writes == \E c \in Consumers : Write(c)

Next ==
    \/ Upgrader \/ Timeout \/ Operator \/ Cluster \/ Writes \/ Restart
    \/ \E c \in Consumers : Protect(c)

Spec == Init /\ [][Next]_vars

\* The pod goes on, time runs out, and the cluster goes on for every consumer.
Fairness ==
    /\ WF_vars(Upgrader) /\ WF_vars(Operator) /\ WF_vars(Restored /\ Timeout)
    /\ WF_vars(StartDatabase)
    /\ \A c \in Consumers : WF_vars(StartOrStop(c)) /\ WF_vars(Report(c))
FairSpec == Spec /\ Fairness

-----------------------------------------------------------------------------
(* Properties, besides those of UpgradePromise *)

\* However often the upgrade fails on its way, in the end InfluxDB serves and every
\* consumer runs in the new release.  The exception is in the order of the first
\* reconcile: if the pod is restarted between the Service and the StatefulSet, the
\* check fails for good (influxdb.go 113-131) and the operator that would create the
\* StatefulSet is never started.
AllBack ==
    /\ database = "serving"
    /\ \A c \in Consumers : release[c] = "lima" /\ replicas[c] = 1 /\ running[c] = 1
Stuck == At("check") /\ database = "service"
ConsumersComeBack == <>[]AllBack \/ <>[]Stuck
=============================================================================
