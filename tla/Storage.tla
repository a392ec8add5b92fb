------------------------------ MODULE Storage ------------------------------
(***************************************************************************)
(* The storages of an AlamedaService: which PersistentVolumeClaims the     *)
(* operator creates and deletes for them, and which volumes and mounts it  *)
(* writes into the pods.                                                   *)
(*                                                                         *)
(* The two are computed apart, from the storages of the whole service and  *)
(* those of a component's section, which overwrite them.  A reconcile      *)
(* creates the claims on the list to install, then writes the pods, then   *)
(* deletes the claims on the list to uninstall, and records the spec there *)
(* is by then as applied.  Between these steps users edit the spec, calls  *)
(* fail and the operator restarts; a reconcile works from the spec read at *)
(* its start.  Without operand protection, it is skipped when the spec is  *)
(* the recorded one.                                                       *)
(***************************************************************************)
EXTENDS Integers, SequencesExt

CONSTANTS
    Components,   \* the components considered
    GlobalLists,  \* the storages users write for the whole service,
    SectionLists, \* and for a component
    ClaimLag,     \* whether the informer of claims may lag
    CanFail,      \* the kinds of failure considered: "create", "write",
                  \* "delete", "record", "restart"
    MaxFailures,  \* bound on failures,
    MaxEdits      \* and on edits of the spec

Usages == {"log", "data"}

(* How each component is wired. *)
AllComponents ==
    {"influxdb", "grafana", "ai", "operator", "datahub", "evictioner",
     "admission-controller", "recommender", "executor", "dispatcher", "analyzer",
     "fedemeter", "notifier", "agent", "agent-gpu", "agent-app", "rest",
     "preloader", "frontend", "backend"}
\* The group that decides what a storage for no particular usage means.
AlamedaGroup == AllComponents \ {"influxdb", "grafana", "fedemeter"}
\* Their pods are StatefulSets, which no storage is written into.
StatefulSets == {"influxdb"}
\* Their sections are written with a mount of "<component>-<usage>.pvc", which is
\* not the name of a volume of the pod.
Misnamed == {"recommender", "executor", "dispatcher", "analyzer", "fedemeter"}
\* The section the lists of claims are computed from.
ClaimSection(c) == IF c = "agent-app" THEN "backend" ELSE c

\* One storage: for a usage or, if "", for all; sized if it has a size.
StorageSpec == [usage : Usages \union {""}, type : {"ephemeral", "pvc", ""},
                sized : BOOLEAN]
Claim == Components \X Usages

\* What a pod has for a usage: a volume as in the manifest (without a source,
\* which is an emptyDir), an emptyDir or a claim; and whether it is mounted.
VolumeType == [source : {"manifest", "emptyDir", "claim"}, mounted : BOOLEAN]
NoPod == [u \in Usages |-> [source |-> "none", mounted |-> FALSE]]
PodType == [Usages -> VolumeType] \union {NoPod}

SpecType == {[global |-> g, section |-> f] :
                g \in GlobalLists, f \in [Components -> SectionLists]}

VARIABLES
    guarded,   \* whether operands are protected
    spec,      \* the storages of the service
    applied,   \* the spec recorded in the annotation
    known,     \* whether this process has reconciled the service once
    queued,    \* whether the service is in the work queue
    worker,    \* the reconcile in progress: its step and its copy of the spec
    claims,    \* the claims in the API server
    seen,      \* the claims in the informer's cache
    pods,      \* the pod template of each component
    misread,   \* history: whether the cache was behind when it was used
    raced,     \* history: whether the spec was edited before the last one was applied
    failures,  \* failures so far
    edits      \* edits so far

vars == <<guarded, spec, applied, known, queued, worker, claims, seen, pods, misread,
          raced, failures, edits>>

WorkerType == [pc : {"idle", "create", "write", "delete", "record"}, spec : SpecType]
\* No spec is recorded yet.
Never == [global |-> "never"]

StorageTypeOK ==
    /\ spec \in SpecType /\ applied \in SpecType \union {Never}
    /\ guarded \in BOOLEAN /\ known \in BOOLEAN /\ queued \in BOOLEAN
    /\ misread \in BOOLEAN /\ raced \in BOOLEAN
    /\ worker \in WorkerType
    /\ claims \subseteq Claim /\ seen \subseteq Claim
    /\ (~ClaimLag => seen = claims)
    /\ pods \in [Components -> PodType]
    /\ failures \in 0 .. MaxFailures
    /\ edits \in 0 .. MaxEdits

-----------------------------------------------------------------------------
(* The claims to install and to uninstall *)

Section(s, c) == IF c \in Components THEN s.section[c] ELSE << >>
\* Whether a storage is for this usage.  (Two slips for the mutants: only those for
\* this usage in particular; all.)
ForExactly(e, u) == e.usage = u
ForEvery(e, u) == TRUE
For(e, u) == e.usage \in {u, ""}

\* The lists of claims: a sequence, or Panicked if computing it panics.
Panicked == << <<"panic">> >>

\* for k, v := range pvc { if v == name { pvc = append(pvc[:k], pvc[k+1:]...) } }
\* The loop goes over the array as it was, which a deletion shifts.  A second
\* occurrence is always the last element, just appended for the same section: it
\* is read again behind the new end, where pvc[k+1:] is out of range.
DeleteWhileRanging(list, claim) ==
    LET at == {i \in DOMAIN list : list[i] = claim}
    IN  IF at = {} THEN list
        ELSE IF \E i, j \in at : i # j THEN Panicked
        ELSE RemoveAt(list, CHOOSE i \in at : TRUE)

\* sectioninstallPersistentVolumeClaimSource, with adds = PVC, and
\* sectionUninstallPersistentVolumeClaimSource, with adds = NotPVC: the types that
\* add the claim to the list, while the others delete it.
SectionClaims(list, storages, claim, adds) ==
    LET loop[k \in 0 .. Len(storages)] ==
            IF k = 0 THEN list
            ELSE IF loop[k - 1] = Panicked \/ ~For(storages[k], claim[2]) THEN loop[k - 1]
            ELSE IF storages[k].type \in adds THEN Append(loop[k - 1], claim)
            ELSE DeleteWhileRanging(loop[k - 1], claim)
    IN  loop[Len(storages)]

\* logPVCList and dataPVCList: the claims of every component for a usage.
Order == SetToSeq(Components)
ClaimList(u) == [i \in DOMAIN Order |-> <<Order[i], u>>]

\* The claims of a usage: all of them if a storage of the service asks for it,
\* corrected section by section.
UsageClaims(s, u, list, adds) ==
    LET global == IF \E e \in Range(s.global) : e.type \in adds /\ For(e, u)
                  THEN list \o ClaimList(u) ELSE list
        loop[k \in 0 .. Len(Order)] ==
            IF k = 0 THEN global
            ELSE SectionClaims(loop[k - 1], Section(s, ClaimSection(Order[k])),
                               <<Order[k], u>>, adds)
    IN  loop[Len(Order)]

PVC == {"pvc"}
NotPVC == {"ephemeral", ""}

\* getInstallPersistentVolumeClaimSource: the log claims are done with when the
\* data claims are appended.
InstallClaims(s) ==
    LET log == UsageClaims(s, "log", << >>, PVC)
    IN  IF log = Panicked THEN Panicked ELSE UsageClaims(s, "data", log, PVC)

\* GetUninstallPersistentVolumeClaimSource: both global lists come first, so a
\* section's correction finds each claim once.  (A slip: what is not installed is
\* uninstalled.)
UninstallOthers(s) == SetToSeq(Claim \ Range(InstallClaims(s)))
UninstallClaims(s) ==
    LET log == UsageClaims(s, "log", << >>, NotPVC)
    IN  IF log = Panicked THEN Panicked ELSE UsageClaims(s, "data", log, NotPVC)

-----------------------------------------------------------------------------
(* The volumes and mounts of a pod *)

\* Whether a storage is for this usage of this pod: one for no particular usage is
\* for both in the Alameda group and for data elsewhere.
Concerns(e, c, u) == e.usage = u \/ (e.usage = "" /\ (c \in AlamedaGroup \/ u = "data"))

\* The storages written into a pod one after the other: first those of the
\* service, then those of the section.
Written(s, c) == IF c \in StatefulSets THEN << >> ELSE s.global \o s.section[c]

\* SetStorageToVolumeSource.  (A slip: ephemeral changes nothing.)
SetVolumeOfClaim(source, e, c, u) ==
    IF e.type = "pvc" /\ e.sized /\ Concerns(e, c, u) THEN "claim" ELSE source
SetVolume(source, e, c, u) ==
    IF e.type = "pvc" /\ e.sized /\ Concerns(e, c, u) THEN "claim"
    ELSE IF e.type = "ephemeral" /\ e.usage = u THEN "emptyDir"
    ELSE source

\* SetStorageToMountPath.
SetMount(e, c, u) == e.type \in {"ephemeral", "pvc"} /\ Concerns(e, c, u)

\* ParamterToDeployment.  The manifest of InfluxDB mounts its data by itself.
Pod(s, c) ==
    LET list == Written(s, c)
        source[k \in 0 .. Len(list)] ==
            [u \in Usages |-> IF k = 0 THEN "manifest"
                              ELSE SetVolume(source[k - 1][u], list[k], c, u)]
    IN  [u \in Usages |->
           [source  |-> source[Len(list)][u],
            mounted |-> \/ \E e \in Range(list) : SetMount(e, c, u)
                        \/ c = "influxdb" /\ u = "data"]]

\* The API server refuses a pod that mounts a volume it does not have.
Refused(s, c) ==
    c \in Misnamed /\ \E e \in Range(s.section[c]), u \in Usages : SetMount(e, c, u)

\* A pod starts only when all claims it names exist.
PodClaims(pod, c) == {<<c, u>> : u \in {w \in Usages : pod[w].source = "claim"}}

\* What is made of each spec.
Install   == [s \in SpecType |-> InstallClaims(s)]
Uninstall == [s \in SpecType |-> UninstallClaims(s)]
Pods      == [s \in SpecType |-> [c \in Components |-> Pod(s, c)]]

-----------------------------------------------------------------------------
(* What users write, for what is proved of every such storage.  The lists of  *)
(* storages are checked nowhere in the code, and others do lead it astray.    *)

\* A storage says something about a usage when it is its own, or none in particular.
Says(e, u) == e.usage \in {u, ""}

\* Storages that say one thing at most about a usage, in the service and in every
\* section; and a section's say what is to be of its claim.  A storage without a type
\* or, ephemeral, without a usage is not written over that of the service.
OncePerUsage(list) ==
    \A u \in Usages : \A i, j \in 1 .. Len(list) : Says(list[i], u) /\ Says(list[j], u) => i = j
SectionFit(list) ==
    \A i \in 1 .. Len(list) :
       \/ list[i].type = "pvc"
       \/ list[i].type = "ephemeral" /\ list[i].usage # ""
StoragesPlain ==
    /\ IsFiniteSet(Components) /\ "agent-app" \notin Components
    /\ \A list \in GlobalLists \union SectionLists :
          list \in Seq(StorageSpec) /\ OncePerUsage(list)
    /\ \A list \in SectionLists : SectionFit(list)

\* Storages whose claims and volumes are for the same usages: outside the Alameda
\* group a storage for no particular usage is for both claims and one volume.
StoragesMeant ==
    /\ \A list \in SectionLists, c \in Components, u \in Usages :
          \A i \in 1 .. Len(list) : Says(list[i], u) => Concerns(list[i], c, u)
    /\ \A list \in GlobalLists, c \in Components, u \in Usages :
          \A i \in 1 .. Len(list) :
             Says(list[i], u) /\ list[i].type # "pvc" => Concerns(list[i], c, u)

\* Storages with all they need, for components whose pods they are written into.
StoragesComplete ==
    /\ \A list \in GlobalLists \union SectionLists : \A i \in 1 .. Len(list) :
          \/ list[i].type = "pvc" /\ list[i].sized
          \/ list[i].type = "ephemeral"
    /\ Components \intersect StatefulSets = {}

-----------------------------------------------------------------------------
(* The reconcile *)

At(pc) == worker.pc = pc
Fails(f) == f \in CanFail /\ failures < MaxFailures /\ failures' = failures + 1
Succeeds == UNCHANGED failures
Goto(pc) == worker' = [worker EXCEPT !.pc = pc] /\ UNCHANGED queued
Requeue == worker' = [worker EXCEPT !.pc = "idle"] /\ queued' = TRUE
UpTo(list, k) == {list[i] : i \in 1 .. k}

\* What the informer of claims delivers of a change.
SetClaims(new) ==
    /\ claims' = new
    /\ IF ClaimLag THEN UNCHANGED seen ELSE seen' = new
Read == misread' = (misread \/ seen # claims)

\* Nothing but the claims and the pods changes.
Syncing == UNCHANGED <<applied, known>>

\* The reconcile is skipped when there is nothing new.
Begin ==
    /\ At("idle") /\ queued /\ queued' = FALSE
    /\ IF ~guarded /\ known /\ applied = spec THEN UNCHANGED worker
       ELSE worker' = [pc |-> "create", spec |-> spec]
    /\ Syncing /\ Succeeds /\ UNCHANGED <<claims, seen, pods, misread>>

\* createPersistentVolumeClaim: claims not seen are created, one after the other;
\* one that is there nevertheless is an error.  (A slip: an error is dropped.)
CreateClaimsOr(stop) ==
    /\ At("create") /\ Read
    /\ LET list == Install[worker.spec]
           Refuses(i) == list[i] \notin seen /\ list[i] \in claims
       IN  \E k \in 0 .. Len(list) :
              /\ \A i \in 1 .. k : ~Refuses(i)
              /\ SetClaims(claims \union (UpTo(list, k) \ seen))
              /\ IF k = Len(list) THEN Goto("write") /\ Succeeds
                 ELSE stop /\ IF Refuses(k + 1) THEN Succeeds ELSE Fails("create")
    /\ Syncing /\ UNCHANGED pods
CreateClaimsGoOn == CreateClaimsOr(Goto("write"))
CreateClaims == CreateClaimsOr(Requeue)

\* syncDeployment and syncStatefulSet: an error ends the reconcile.
WritePods ==
    /\ At("write")
    /\ \E done \in SUBSET {c \in Components : ~Refused(worker.spec, c)} :
          /\ pods' = [c \in Components |->
                        IF c \in done THEN Pods[worker.spec][c] ELSE pods[c]]
          /\ IF done = Components THEN Goto("delete") /\ Succeeds
             ELSE /\ Requeue
                  /\ IF \E c \in Components \ done : Refused(worker.spec, c)
                     THEN Succeeds ELSE Fails("write")
    /\ Syncing /\ UNCHANGED <<claims, seen, misread>>

\* uninstallPersistentVolumeClaim: claims not seen are skipped; at one that is
\* seen and gone it returns without an error, and what follows stays.
DeleteClaims ==
    /\ At("delete") /\ Read
    /\ LET list == Uninstall[worker.spec]
           Gone(i) == list[i] \in seen /\ list[i] \notin claims
       IN  \E k \in 0 .. Len(list) :
              /\ \A i \in 1 .. k : ~Gone(i)
              /\ SetClaims(claims \ (UpTo(list, k) \intersect seen))
              /\ IF k = Len(list) \/ Gone(k + 1) THEN Goto("record") /\ Succeeds
                 ELSE Requeue /\ Fails("delete")
    /\ Syncing /\ UNCHANGED pods

\* updateAlamedaService: what the spec is by now is recorded as applied.
Record ==
    /\ At("record")
    /\ \/ applied' = spec /\ known' = TRUE /\ Goto("idle") /\ Succeeds
       \/ Requeue /\ Fails("record") /\ Syncing
    /\ UNCHANGED <<claims, seen, pods, misread>>

Worker == Begin \/ CreateClaims \/ WritePods \/ DeleteClaims \/ Record

\* The informer of claims delivers.
ObserveClaims ==
    /\ seen # claims /\ seen' = claims
    /\ Syncing /\ UNCHANGED <<queued, worker, claims, pods, misread, failures>>

\* The periodic resync queues the service.
Resync ==
    /\ At("idle") /\ ~queued /\ queued' = TRUE
    /\ Syncing /\ UNCHANGED <<worker, claims, seen, pods, misread, failures>>

\* A user changes the storages of the service or of a section.
EditStorages ==
    /\ edits < MaxEdits /\ edits' = edits + 1
    /\ \/ \E list \in GlobalLists : spec' = [spec EXCEPT !.global = list]
       \/ \E c \in Components : \E list \in SectionLists :
             spec' = [spec EXCEPT !.section[c] = list]
    /\ spec' # spec
    /\ queued' = TRUE /\ raced' = (raced \/ ~At("idle") \/ queued)
    /\ Syncing /\ UNCHANGED <<guarded, worker, claims, seen, pods, misread, failures>>

Restart ==
    /\ Fails("restart") /\ Requeue /\ seen' = claims /\ known' = FALSE
    /\ UNCHANGED <<applied, claims, pods, misread>>

Init ==
    /\ guarded \in BOOLEAN
    /\ spec \in SpecType /\ applied = Never /\ known = FALSE
    /\ queued = TRUE
    /\ worker = [pc |-> "idle", spec |-> spec]
    /\ claims = {} /\ seen = {}
    /\ pods = [c \in Components |-> NoPod]
    /\ misread = FALSE /\ raced = FALSE
    /\ failures = 0 /\ edits = 0

NoEdit == UNCHANGED <<guarded, spec, raced, edits>>
WorkerStep == Worker /\ NoEdit
InformerStep == ObserveClaims /\ NoEdit
ResyncStep == Resync /\ NoEdit
RestartStep == Restart /\ NoEdit

Next == WorkerStep \/ InformerStep \/ ResyncStep \/ RestartStep \/ EditStorages

Spec == Init /\ [][Next]_vars

\* The worker goes on, the informer delivers and resyncs.
Fairness == WF_vars(WorkerStep) /\ WF_vars(InformerStep) /\ WF_vars(ResyncStep)
FairSpec == Spec /\ Fairness

-----------------------------------------------------------------------------
(* Properties *)

\* What the last storage for this usage says: the section's or, if it has none,
\* the service's; a storage without a type is ephemeral.
LastType(list, c, u) ==
    LET mine == {i \in DOMAIN list : Concerns(list[i], c, u)}
    IN  IF mine = {} THEN "unset"
        ELSE IF list[Max(mine)].type = "pvc" THEN "pvc" ELSE "ephemeral"
Asked(s, c, u) ==
    IF LastType(s.section[c], c, u) # "unset" THEN LastType(s.section[c], c, u)
    ELSE LastType(s.global, c, u)

\* A component has what is asked for: a mounted claim that is there, or a mounted
\* volume and no claim; and no claim in its pod when nothing is asked.
Provided(c, u) ==
    LET volume == pods[c][u]
    IN  CASE Asked(spec, c, u) = "pvc" ->
               volume = [source |-> "claim", mounted |-> TRUE] /\ <<c, u>> \in claims
          [] Asked(spec, c, u) = "ephemeral" ->
               volume.source # "claim" /\ volume.mounted /\ <<c, u>> \notin claims
          [] OTHER -> volume.source # "claim"
AllProvided == \A c \in Components, u \in Usages : Provided(c, u)

\* The lists of claims and the pods agree, though computed apart: the claims a pod
\* names are installed and not uninstalled, for every spec.
AllOf(list) == UpTo(list, Len(list))
ListsAgreeOn(s) ==
    \A c \in Components :
       /\ PodClaims(Pods[s][c], c) \subseteq AllOf(Install[s])
       /\ PodClaims(Pods[s][c], c) \intersect AllOf(Uninstall[s]) = {}
ListsAgree == ListsAgreeOn(spec)

\* No spec considered makes the operator panic on its lists of claims, which would
\* end the process again and again.
NeverPanicsOn(s) == Install[s] \in Seq(Claim) /\ Uninstall[s] \in Seq(Claim)
NeverPanics == NeverPanicsOn(spec)

\* The claims a pod names exist, whatever edit, failure or restart comes in
\* between, as long as the cache is not behind when it is used.
NamedClaimsExist ==
    ~misread => \A c \in Components : PodClaims(pods[c], c) \subseteq claims

\* A claim, and the data in it, goes only when the spec at work says ephemeral:
\* removing a storage from the spec keeps them.
OnlyEphemeralDeletes ==
    [][\A claim \in claims \ claims' : Asked(worker.spec, claim[1], claim[2]) = "ephemeral"]_vars

\* When a reconcile is through, everything is as the spec asks.  Without operand
\* protection an edit that comes before the last one was applied may be recorded and
\* skipped, or undo one that was applied half way; neither is noticed any more.
StoragesApplied ==
    At("idle") /\ ~queued /\ ~misread /\ (guarded \/ ~raced) => AllProvided

\* In the end everything is as the spec asks and stays so: with operand protection
\* always, and without it when no edit came too early and no cache was behind.
StoragesSettle == <>[](guarded \/ ~(raced \/ misread)) => <>[]AllProvided
=============================================================================
