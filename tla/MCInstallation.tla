--------------------------- MODULE MCInstallation ---------------------------
(***************************************************************************)
(* The upgrade of the database before the operator starts, and three things*)
(* every reconcile does: the storages, the exposed Services and the rules  *)
(* of Prometheus.  They share no state, so one run checks each by itself:  *)
(* "part" says which one a behaviour is about, and the others keep still.  *)
(* The instances are of the modules with the proofs, which extend those of *)
(* the parts: their theorems are then about the constants of this run.     *)
(***************************************************************************)
EXTENDS Storage, ExposurePromise, UpgradePromise, RulesPromise

VARIABLES
    part,
    recorded, first, cache, failuresE, editsE,                   \* ServiceExposure
    task, replicas, status, database, failuresU,                 \* InfluxUpgrade
    protectedR, services, gc, failuresR, editsR                  \* PrometheusRules

\* Storages users write.
Eph(u) == [usage |-> u, type |-> "ephemeral", sized |-> FALSE]
Pvc(u) == [usage |-> u, type |-> "pvc", sized |-> TRUE]
MCGlobalLists ==
    {<< >>, <<Pvc("")>>, <<Eph("log"), Pvc("data")>>, <<Pvc("log"), Eph("data")>>}
MCSectionLists == {<< >>, <<Pvc("data")>>, <<Pvc("log"), Eph("data")>>, <<Eph("log")>>}

\* What Prometheus may select rules by.
Req(op, values) == [op |-> op, values |-> values]
Selecting(reqs) == [selectable |-> TRUE, reqs |-> reqs]
MCSelectors ==
    {[selectable |-> FALSE, reqs |-> << >>], Selecting(<< >>),
     Selecting(<<Req("In", {1, 2})>>), Selecting(<<Req("Exists", {}), Req("NotIn", {1})>>)}

E == INSTANCE ServiceExposureProofs WITH
        failures <- failuresE, edits <- editsE,
        Ports <- {1}, AllowPlain <- TRUE, Protection <- BOOLEAN,
        CanFail <- {"call", "restart"}, MaxFailures <- 2, MaxEdits <- 1
U == INSTANCE InfluxUpgradeProofs WITH
        failures <- failuresU,
        CanFail <- {"call", "lostDrop", "timeout", "restart", "protect"},
        MaxFailures <- 3
R == INSTANCE PrometheusRulesProofs WITH
        protected <- protectedR, failures <- failuresR, edits <- editsR,
        Selectors <- MCSelectors,
        CanFail <- {"call", "lost", "restart"}, MaxFailures <- 1, MaxEdits <- 2

\* To ask for no storage is one of the things users may do; the other parts begin so.
NoneIsAList == << >> \in GlobalLists /\ << >> \in SectionLists

\* What the proofs about Storage, and about all parts, assume of the storages.
ASSUME StoragesAgree == StoragesPlain /\ StoragesMeant /\ StoragesComplete /\ NoneIsAList

\* What the proofs about PrometheusRules assume of the selectors.
ASSUME SelectorsAgree == R!LabelsSelected

exposureVars == <<protected, exposures, recorded, first, passQueued, pass, objects,
                  cache, behind, disturbed, failuresE, editsE>>
upgradeVars == <<pc, task, release, replicas, running, status, database, data, misled,
                 early, failuresU>>
rulesVars == <<protectedR, prometheus, services, gc, foreign, ours, due, patcher, taken,
               astray, failuresR, editsR>>
allVars == <<part, vars, exposureVars, upgradeVars, rulesVars>>

\* No storages are asked for, nothing is exposed, upgraded or patched.
NoStorage ==
    /\ spec = [global |-> << >>, section |-> [c \in Components |-> << >>]]
    /\ guarded = TRUE /\ applied = Never /\ known = FALSE /\ raced = FALSE
    /\ queued = FALSE /\ worker = [pc |-> "idle", spec |-> spec]
    /\ claims = {} /\ seen = {} /\ pods = [c \in Components |-> NoPod]
    /\ misread = FALSE /\ failures = 0 /\ edits = 0
NoExposure ==
    /\ protected = "none" /\ exposures = "none" /\ recorded = "none" /\ first = "none"
    /\ passQueued = TRUE /\ pass = [pc |-> "none"] /\ objects = "none" /\ cache = "none"
    /\ behind = "none" /\ disturbed = "none" /\ failuresE = "none" /\ editsE = "none"
NoUpgrade ==
    /\ pc = "check" /\ release = [c \in Consumers |-> "none"]
    /\ running = [c \in Consumers |-> 0] /\ data = {} /\ misled = FALSE /\ early = FALSE
    /\ task = "none" /\ replicas = "none" /\ status = "none" /\ database = "none"
    /\ failuresU = "none"

NoRules ==
    /\ protectedR = "none" /\ prometheus = "none" /\ services = "none" /\ gc = "none"
    /\ foreign = "none" /\ ours = "none" /\ due = TRUE /\ patcher = "none"
    /\ taken = "none" /\ astray = "none" /\ failuresR = "none" /\ editsR = "none"

MCInit ==
    \/ part = "storage" /\ Init /\ NoExposure /\ NoUpgrade /\ NoRules
    \/ part = "exposure" /\ E!Init /\ NoStorage /\ NoUpgrade /\ NoRules
    \/ part = "upgrade" /\ U!Init /\ NoStorage /\ NoExposure /\ NoRules
    \/ part = "rules" /\ R!Init /\ NoStorage /\ NoExposure /\ NoUpgrade

InStorage(step) ==
    part = "storage" /\ step /\ UNCHANGED <<part, exposureVars, upgradeVars, rulesVars>>
InExposure(step) ==
    part = "exposure" /\ step /\ UNCHANGED <<part, vars, upgradeVars, rulesVars>>
InUpgrade(step) ==
    part = "upgrade" /\ step /\ UNCHANGED <<part, vars, exposureVars, rulesVars>>
InRules(step) ==
    part = "rules" /\ step /\ UNCHANGED <<part, vars, exposureVars, upgradeVars>>

MCNext ==
    \/ InStorage(WorkerStep) \/ InStorage(InformerStep) \/ InStorage(ResyncStep)
    \/ InStorage(RestartStep) \/ InStorage(EditStorages)
    \/ InExposure(E!Worker) \/ InExposure(E!Observe) \/ InExposure(E!Resync)
    \/ InExposure(E!EditExposure) \/ InExposure(E!Restart)
    \/ InUpgrade(U!Upgrader) \/ InUpgrade(U!Timeout) \/ InUpgrade(U!Operator)
    \/ InUpgrade(U!Cluster) \/ InUpgrade(U!Writes) \/ InUpgrade(U!Restart)
    \/ InUpgrade(\E c \in Consumers : U!Protect(c))
    \/ InRules(R!Operator) \/ InRules(R!Command) \/ InRules(R!Users)
    \/ InRules(R!Collect) \/ InRules(R!Resync) \/ InRules(R!Restart)

\* The fairness of the parts, each for the behaviours that are about it.
MCFairness ==
    /\ WF_allVars(InStorage(WorkerStep))
    /\ WF_allVars(InStorage(InformerStep))
    /\ WF_allVars(InStorage(ResyncStep))
    /\ WF_allVars(InExposure(E!Worker))
    /\ WF_allVars(InExposure(E!Observe))
    /\ WF_allVars(InExposure(E!Resync))
    /\ WF_allVars(InUpgrade(U!Upgrader))
    /\ WF_allVars(InUpgrade(U!Operator))
    /\ WF_allVars(InUpgrade(U!Restored /\ U!Timeout))
    /\ WF_allVars(InUpgrade(U!StartDatabase))
    /\ \A c \in Consumers : WF_allVars(InUpgrade(U!StartOrStop(c))) /\ WF_allVars(InUpgrade(U!Report(c)))
    /\ WF_allVars(InRules(R!Operator))
    /\ WF_allVars(InRules(R!Resync))
    /\ WF_allVars(InRules(R!Collect))

MCSpec == MCInit /\ [][MCNext]_allVars /\ MCFairness

-----------------------------------------------------------------------------
(* The properties of the parts, as far as they mean something in the others;  *)
(* each is explained in its module                                            *)

\* Every variable of the part at work keeps its type.
TypeOK ==
    /\ part \in {"storage", "exposure", "upgrade", "rules"}
    /\ StorageTypeOK
    /\ part = "exposure" => E!ExposureTypeOK
    /\ part = "upgrade" => U!UpgradeTypeOK
    /\ part = "rules" => R!RulesTypeOK

\* From any failure the exposures settle, once nothing is asked that cannot be had
\* and, without operand protection, nobody edits the spec during a reconcile.
CalmSettles ==
    /\ <>[](part = "exposure" => E!Calm)
    /\ <>[](part = "exposure" => Undisturbed)
    => <>[](part = "exposure" => AllAsAsked)

\* After an upgrade that failed on its way, every consumer runs again in the end, unless
\* the pod was restarted between the Service and the StatefulSet of InfluxDB.
ConsumersComeBack ==
    \/ <>[](part = "upgrade" => U!AllBack)
    \/ <>[](part = "upgrade" => U!Stuck)

\* With operand protection the rules come back, whoever takes them away.
RulesSettle ==
    /\ <>[](part = "rules" => R!Possible)
    /\ [](part = "rules" => ~astray)
    => <>[](part = "rules" => AllEvaluated)
=============================================================================
