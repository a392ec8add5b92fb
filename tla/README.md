# A formal model of federatorai-operator

federatorai-operator installs Federator.ai into a Kubernetes or OpenShift cluster. A user writes one
custom resource, an `AlamedaService`; the operator turns it into some hundred objects (roles, services,
deployments, webhooks, CRDs, claims), keeps them as the spec says, and takes the user's license keycode to the
installed Datahub. This directory holds TLA+ models of the parts of the operator whose behaviour depends on
the order in which things happen, the TLC configurations that check them on small instances, and proofs for
the general case.

Paths below are relative to the repository; *AC* is `pkg/controller/alamedaservice/alamedaservice_controller.go`
and *KC* is `pkg/controller/alamedaservicekeycode/alamedaservice_controller.go`.

## Inventory

| Component | State | Operations | What is hard | Correct means |
|---|---|---|---|---|
| **Activation lock and GC role** (AC 183-259, 491-526, 1829-1891; `pkg/util/clusterrole_gc.go`; `pkg/controller/util/util.go`) | ClusterRole `alamedaservice-lock` (annotation: holder), ClusterRole `alameda-gc` (owner of lock, active service, cluster-scoped operands), `status.conditions[0].paused`, owner references | take a request, find the lock, create lock and GC role, activate or pause, own the service, clean up after a deletion | stale informer reads, re-created services, a deferred deletion whose error is lost, the garbage collector acting on its own, restarts | one active service per cluster; the lock never outlives its holder; no service is collected that nobody deleted; nothing cluster-scoped stays behind |
| **Keycode controller** (KC; `pkg/repository/keycode/datahub`; `pkg/client/datahub`) | `spec.keycode`, `status.keycodeStatus`, Datahub's keycodes, first-retry times, event channels, last tasks | list, delete, add keycodes; poll registration data; send signature data; write back; flush events | five deferred functions, edits during a reconcile, lost answers, a retry limit in wall-clock time, a bounded channel | the status tells what is applied; Done means registered; edits are kept; what is filled in is applied, what is removed is removed |
| **Operand pipeline** (AC 260-477, 543-1827, 1893-2006; `pkg/updateresource`; `util.go` of the controller) | the operands in the API server, the annotation `previousAlamedaServiceSpec`, the set of first reconciles | sync each kind in a fixed order, uninstall switched-off components, record the applied spec | early returns, delete-then-create, the skip rule, a spec that changes under way | after the last change, what is installed is what the spec says |
| **Service exposure** (AC 1105-1261) | Services and NodePort services, the label that marks exposed ones | create or update what `spec.serviceExposures` lists, delete labelled ones nobody lists | two passes over a cache that lags behind their own writes, a port one Service at a time may hold, errors in the order of a map | at rest, exposed are exactly the listed services; they settle from any failure |
| **Storages** (`alamedaserviceparamter` 543-769, `globalsectionset`, `componentsectionset`, `pkg/util/util.go` 182-301, AC 963-985, 1695-1713) | claims, volumes and mounts of the pods | compute the claims to install and to uninstall and the volumes of each pod; create, write, delete | three computations of one spec, lists changed while they are ranged over, a cache that lags, edits and failures between the steps | a pod names only claims that exist; a claim goes only when ephemeral is asked for; in the end pods and claims are as asked |
| **Component selection** (`pkg/processcrdspec/alamedaserviceparamter` 406-541) | none (pure) | resource lists to install and to uninstall | switches whose lists overlap | switching a component off removes all it installed |
| **Image and environment precedence** (`pkg/component`) | none (pure) | component setting, environment, default | order of overriding | the last setting wins |
| **InfluxDB upgrader** (`cmd/upgrader/influxdb`, `pkg/influxdb`) | replicas of the consumers, databases | look for data of the new schema, scale down, drop, scale up | failures between steps, concurrent waits, timeouts, a status that lags, restarts | no data of the new release is lost and none of it meets the data found before the upgrade; everybody is up afterwards |
| **Prometheus rules** (`cmd/patch/prometheus/rules.go`, `cmd/patch/utils`) | PrometheusRule objects | check which records are missing, patch them | two patchers, lost answers, the garbage collector, labels Prometheus must select | at rest Prometheus evaluates every record, each once |
| **Start-up** (`cmd/manager/root.go`, `pkg/lib/resourceapply/apiext.go`) | leader lock, CRDs | become leader, create CRDs, wait, start the manager | a standby taking over | controllers run only when the CRDs are served |
| Rendering, resource readers, types, logging | none | decode, template | - | not modelled: no state, no order |

How they interact. Both controllers run in one process, each with one worker and its own work queue, and watch
the same `AlamedaService`s. Both read from one shared set of informer caches and write to the API server, so each
write of one is a conflict and a watch event for the other. The keycode controller acts only for the service that
owns the lock. Kubernetes' garbage collector deletes whatever names a dead owner, which is how the operator
uninstalls: it deletes the GC role. Users create, edit and delete services at any time.

## Modules

| Module | Models | Composes |
|---|---|---|
| `ActivationLock` | the abstract promise of the lock: one holder, active only while holding | - |
| `ServiceLock` | the lock as the operator implements it | INSTANCE `ActivationLock` (refinement) |
| `ServiceLockProofs` | theorems about `ServiceLock` and the promise of `ActivationLock` | EXTENDS `ServiceLock`, `TLAPS` |
| `KeycodeFlow` | the documented state flow of a keycode | - |
| `Keycode` | the keycode controller with its environment | INSTANCE `KeycodeFlow` (refinement) |
| `OperandSync` | syncing, replacing and uninstalling the operands, the record of the applied spec | - |
| `Storage` | which claims exist and what the pods mount | - |
| `ExposurePromise`, `ServiceExposure` | what the operator promises about exposed Services, and how it exposes them on node ports | the second EXTENDS the first |
| `UpgradePromise`, `InfluxUpgrade` | what the upgrade promises about the data, and the upgrade as the code does it | the second EXTENDS the first |
| `RulesPromise`, `PrometheusRules` | what patching promises about what Prometheus evaluates, and the patching | the second EXTENDS the first |
| `KeycodeProofs`, `OperandSyncProofs`, `StorageProofs`, `ServiceExposureProofs`, `InfluxUpgradeProofs`, `PrometheusRulesProofs` | theorems about the modules they are named for | EXTENDS the module and `TLAPS` |
| `MCServiceLock`, `MCKeycode`, `MCOperandSync` | model values for TLC | EXTENDS the module they are named for |
| `MCLockLiveness` | two scenarios in one run, with other failures | EXTENDS `MCServiceLock`; INSTANCE of `ServiceLock` with other constants |
| `MCInstallation` | the four parts that share no state, each by itself | EXTENDS `Storage` and the promises, INSTANCE `ServiceExposureProofs`, `InfluxUpgradeProofs`, `PrometheusRulesProofs`, which extend the parts |
| `InstallationProofs` | theorems about the four parts side by side | EXTENDS `MCInstallation`, `StorageProofs` |

The promises are modules of their own so that `MCInstallation` and the proofs state them in the same words. Some
definitions come with a *slip*: the definition as a plausible bug would have it (`Prune`, `PruneNone`). No specification
uses the slips; substituting one must violate the property it is listed with in `PROJECT.json`.

### ServiceLock

State. `svc`, `lock`, `gc`, `roles`, `webhooks` are the API server; `csvc`, `clock`, `cgc` the caches; `queue`,
`worker` the controller, `protected` and `known` its configuration and the services its process has reconciled to the
end. A service is its uid, its paused condition, the GC role it is owned by and whether its spec is recorded in its
annotation (specs are not edited here: that is what `OperandSync` is about); the lock is the annotated holder and its
owner's uid. Uids are numbers handed out in order, so an object that is created again under the same name is told from
its predecessor, as the garbage collector does. `roles` stands for all the cluster-scoped operands that every sync
writes with the GC role as owner (ClusterRole, ClusterRoleBinding, PodSecurityPolicy), `webhooks` for those that get
an owner only when they are created (webhook configurations, notification channels and topics).

Actions. One per API call of `Reconcile`, in the order of the code; the step a worker is at is `worker.pc`:

| Action | Code |
|---|---|
| `Take` | AC 183-202: look the request's service up in the cache |
| `GoneCheckLock`, `DeleteGC`, `DeleteLock` | AC 491-526, the deletion branch; the deferred function last |
| `GetOrCreateGC` | `clusterrole_gc.go` 26-49, with the shadowed error |
| `GetOrCreateLock` | AC 1829-1860; two services race for the creation only across restarts or stale reads, the name decides |
| `Activate`, `Pause` | AC 217-238, 1870-1891; behind the activation the check of the owner and the skip rule (`Skipped`, AC 260-265) |
| `SetOwner`, `SetNoOwner` | AC 239-258 |
| `SyncRoles`, `SyncWebhooks` | the two kinds of ownership in the sync pipeline |
| `Record` | AC 479-488, 1893-1939: the spec is recorded, then the process remembers the service |
| `ObserveService`, `ObserveRoles`, `Resync` | informers: delivery, delivery without a queue, periodic resync |
| `CreateService`, `DeleteService`, `Collect*`, `Restart` | users, the garbage collector, the process |

A write of a cached copy succeeds only when the copy is current: the API server compares resource versions. A call
fails when the state of the cluster refuses it, or out of the budget `MaxFailures` for the kinds in `CanFail`.
`LaggingRoles` says whether cached reads of the two roles may be stale; services are always read from a lagging
cache. `LegacyLock` adds initial states with a lock of an operator before the annotation.

Properties. `AtMostOneActive` and `ActiveHoldsLock`: the promise. `NoServiceDoomed` and `GCRoleOutlivesActive`: the
tear-down never hits a service that is there. `LockDeletedLast`: the order the code comments on; `CleanupInOrder`: the same unless the deletion of the GC role has failed. `LockInv`: the
inductive invariant. Liveness: `SoleServiceActivated`, `LockReleased`, `OperandsSettle`, `NothingLeaks`.
`OperandsSettle` speaks of `roles` in any case, and of `webhooks` for an operator with operand protection. Without it,
as the operator is shipped, a service that follows another takes over the webhooks of the dead GC role and records its
spec, and once the garbage collector has taken them every reconcile is skipped (AC 262): nothing creates them again.
Without `protected =>` the run is violated.
`Implements`: refinement of `ActivationLock`, with the holder and the set of active services as the mapping.

### Keycode

State. `service` holds `spec.keycode` and `status.keycodeStatus` of the one service the controller works for, `cached`
and `stale` the informer's copy and whether it is behind (versions are compared, not values: a change back and
forth is a change); `repo` and `activated` are Datahub; `clock`, `events` and `worker` are the reconciler.
Signature data is named by the keycode it was issued for. The retry time is abstracted to none, within and
beyond the limit; `Expire` may come at any time. Other fields of the object are not modelled, but writes of them
are (`Touch`, and a write-back that changes only the summary or the error message).

| Action | Code |
|---|---|
| `Skip`, `Start` | KC 192-221: the service is gone, does not own the lock, or is reconciled |
| `StopRetrying` | KC 223-230, the retry limit |
| `StayEmpty`, `List`, `Delete`, `Deleted`, `Add` | KC 244-274, 399-513: handleEmptyKeycode and handleKeycode, call by call |
| `NothingToDo` | KC 257-261 and the wait for signature data |
| `Poll`, `Sign` | KC 290-344 |
| `WriteBack` | the deferred function KC 146-190; its Get and its Update are one step, as an edit between them has the same effect as one the cache has not seen |
| `Finish` | the deferred functions that run after it, KC 143-145, and the result the work queue sees, which was fixed before any of them ran |

What the controller meets is a variable that never changes, `setting`, so one specification, and one run, has several:
`racing` says whether others write while a reconcile is under way or the cache is behind; `deletable` whether the
service may be deleted and created again; `leftOver` which keycodes Datahub may hold from an earlier installation;
`canFail` and the two bounds what goes wrong and how often.

Properties. Those that end in `IfPatient` are for users who let the operator finish and a write-back that works
(`Patient`), some also for calls of which it is known what became of them (`Certain`), or for one keycode left over at
most (`FewLeft`). `StatusTellsRepository` and `DoneIsRegistered` relate the status to Datahub whenever the
controller is at rest. `EditsStay` forbids the operator to throw away a user's edit. `RetryClockMeansRetry` ties the retry
limit to the work queue. `EventsFit`, which holds in every setting: a reconcile never blocks on its own channel.
`Converges`: what is filled in is applied in the end, what is removed does not stay. `FollowsFlow`: refinement of
`KeycodeFlow`.

### OperandSync

The rest of a reconcile: from the spec to the objects in the cluster, for a service that is active and owned.

State. `service` is the spec, the recorded spec and whether the CRD version is in the status; `cached` and `stale` are
the informer's copy. `objects` are the operands in the API server, `cache` their cached copies, `behind` those of which
an event is outstanding. An operand is what it was made from: the number of the spec, the release of the operator
(its manifests), the content of the ConfigMap it mounts (the label with the resource version). `worker` holds the copy
of the spec the reconcile started with, what is left to sync (`todo`) and to uninstall (`drop`). `first` is the
in-memory set of first reconciles, `protected` stands for `DISABLE_OPERAND_RESOURCE_PROTECTION` not being set, and a
restart may bring the next `release`.

The kinds fall into classes by how they are synced; each has its actions:

| Action | Code |
|---|---|
| `CreateUnseen` | Secrets, notification channels and topics: create, AlreadyExists is fine. Secrets ignore the resource lists (AC 987) |
| `CreateMissing`, `KeepSeen` | not in the cache: create; ServiceAccounts, claims, Ingresses then stay as they are, as does what does not differ |
| `UpdateFound`, `DeleteRefreshed` | ConfigMaps, Deployments, Routes: the cached copy is changed and written, which conflicts if it is behind; after the data sources Grafana's Deployment is deleted (AC 1085-1096) |
| `Overwrite` | roles, bindings, PodSecurityPolicies, SecurityContextConstraints, StatefulSets: written without a version |
| `DeleteToReplace`, `CreateReplacement` | Services and DaemonSets that differ: two calls, AC 814-853, 1105-1139 |
| `AwaitConfigMap`, `FailSync` | an error: the reconcile ends and is repeated |
| `BeginUninstall`, `UninstallNext`, `EndUninstall` | AC 396-455, 1513-1827, with the return at the first object that is gone (`RestOfKind`) |
| `Take`, `Activate` | the copy of the service, the write that needs it to be current, the skip rule (`UpToDate`, AC 260-265) |
| `RecordStatus`, `Record` | AC 1893-1939: the spec the cache holds *now* is recorded |
| `ObserveService`, `ObserveOperand`, `Resync`, `EditSpec`, `Tamper`, `Restart` | informers, users, the process |

The compare helpers (`updateresource.go`) are modelled by what they get wrong. They fill in only some of the fields the
API server fills in, so operands with a host path of no type (211-249), a probe without thresholds or a volume without
a source differ from their manifest at every look (`Undefaulted`): an update of such a Deployment changes nothing, but
a DaemonSet, the Weave Scope agent, is deleted and created in every sync. And they do not look at the arguments and
commands of containers (257-305), at the ports of a Service (77-82) or for volumes that are missing (246-254): what a
release changes there only (`Overlooked`) stays as it was found (`Kept`). What follows about operands that are "as the
spec, this release and its ConfigMap say" means but for what is overlooked.

`disturbed` is a history variable: a user wrote while the operator was at work, an operand was changed by others, or a
step worked from a copy that was behind. Without operand protection the operator promises nothing then (the second
list under "Runs" says what happens); with it, everything. `halted` is another: an uninstall has ended halfway, since a
call failed or the operator restarted.

Properties. `Settles`: whenever the operator rests for good, every operand is as the spec, this release and its ConfigMap
say, or gone. `RecordMeansApplied`: what the skip rule relies on. Both except what a repeated uninstall cannot reach
(`LeftBehind`): once one has been `halted`, the next finds the first object of a kind gone and returns nil (AC 1556), so
an unwanted operand may stay for ever, but only if something of its kind, listed before it for a component that is off,
is gone. `Quiesces`: watching its own writes does not keep the
operator busy. `NoChurn`: what is as it should be is not touched, Secrets of components that are off and DaemonSets that
never look as wanted excepted (`Churned`). For a protected operator such a DaemonSet may also be away while a reconcile
that failed between the two calls is to be repeated (`Replacing`, in `RecordMeansApplied`); without protection the skip
rule keeps the operator from touching it once the spec is recorded.

Without protection `RestMeansApplied`, the same without that excuse, is what the documentation says, and fails.

### Storage

Sequences of storages are looked up in the service (`spec.global`) and in a component's section (`spec.section`). A
reconcile works from the copy it reads at its start. `applied` is the spec recorded in the annotation, `known` whether
this process has reconciled the service once, `guarded` stands for operand protection.

| Action, operator | Code |
|---|---|
| `InstallClaims`, `UninstallClaims` | `alamedaserviceparamter` 543-769: all claims of a usage if a storage of the service asks for it, corrected section by section; `DeleteWhileRanging` is the loop that shortens the list it ranges over, and panics when the claim is on it twice |
| `Pod` (`SetVolume`, `SetMount`) | `globalsectionset` and `componentsectionset` one after the other, `util.go` 231-301. Nothing is written into StatefulSets; the volumes the manifests bring have no source, so an ephemeral storage leaves them alone |
| `Begin` | AC 259-278, with the skip rule: without protection a reconcile whose spec is the recorded one is over |
| `CreateClaims`, `WritePods`, `DeleteClaims` | AC 963-985, 1379-1415, 1695-1713: each stops at its first error, the last one also at a claim that is gone |
| `Record` | AC 479-488, 1893-1939: what the spec is *now* is recorded |
| `ObserveClaims`, `Resync`, `EditStorages`, `Restart` | informer, users, process |

`misread` is a history variable: the cache of claims was behind when a list was made or worked off. `raced` is another:
the spec was edited before the last one had been applied. Sizes, classes and access modes are left out.

Properties. `ListsAgree`: the three computations agree. `NeverPanics`. `NamedClaimsExist`: a pod never names a claim
that is not there, unless `misread`. `OnlyEphemeralDeletes`: claims, and with them data, go only when the spec at work
says ephemeral. `StoragesApplied` and `StoragesSettle`: at rest, and in the end, everything is as asked (`Asked`, a
definition independent of the three computations): with protection always, without it unless the spec was `raced` (and,
for the end, a cache `misread`), since what is recorded is not looked at again.

### ServiceExposure

| Action | Code |
|---|---|
| `Take` | AC 183-202, 260-278, with the skip rule |
| `SyncBase`, `BaseSynced` | AC 1105-1139: create the Service of a component, or delete and create it when it differs, for instance in the label of an exposure |
| `Expose`, `Exposed` | AC 1141-1185: in the order of a map; what is exposed without ports is the component's own Service, with ports a second one |
| `Prune` | AC 1187-1203: the labelled Services in the cache that are not wanted |
| `Record` | AC 1893-1939 |
| `Observe`, `Resync`, `EditExposure`, `Restart` | informer, users, process |

`behind` are the names whose latest version the informer has not delivered; updates of those conflict. A node port is
held by one Service (`Taken`). `disturbed` is history: an edit came before the last spec was applied, or the list to
prune was made from a cache that was behind. With operand protection it does not matter.

Properties. `RestMeansExposed` and, for exposures that can be had (`Calm`), `CalmSettles`.

### InfluxUpgrade

| Action | Code |
|---|---|
| `Check` | `influxdb.go` 94-136, 217-234: nothing to do if InfluxDB has no Service, or has a Lima measurement; as long as there is a Service and nothing answers behind it, an error |
| `Scale`, `Poll`, `Join` | 257-351: one goroutine per consumer scales and polls `status.replicas`; all are waited for, also after one failed |
| `Timeout` | 56-75, the context's deadline |
| `Drop` | 236-242, `pkg/influxdb` 171-187: three statements in one query, any of which may have been carried out when it fails or its answer is lost |
| `CreateService`, `Operate`, `CreateDatabase` | the first reconcile of the operator that starts behind the init container: the Service of InfluxDB (AC 330), the consumers' Deployments (343), the StatefulSet of InfluxDB (352) |
| `Protect` | the operator of the old release, still there, undoing the scaling |
| `StartDatabase`, `StartOrStop`, `Report`, `Write`, `Restart` | the cluster, the consumers, the kubelet |

`database` is how far InfluxDB has come: absent, only its Service there, its StatefulSet created, or serving. `data` are
the kinds of data in it: `"old"` was there before the upgrade, `"kilo"` and `"lima"` is what consumers of the two
releases write.

`misled` is history: a status was read that did not tell the pods, or a consumer was restored behind it. `early`: the
pod was restarted after the first consumer was brought to the new release and before it had written anything.

Properties. `SchemasApart`: data from before the upgrade and of the new release never meet (what a consumer of the old
release writes after the drop, because its status misled the upgrader, is not covered). `DropsUnused` (unless `misled`),
`LimaKept` (unless `early`), `ConsumersComeBack` (unless `Stuck`: the pod was restarted between the Service and the
StatefulSet of InfluxDB).

### PrometheusRules

Two patchers, the operator at the end of a reconcile and the command `prom_apply`, go through the same three steps.

| Action | Code |
|---|---|
| `Check` | `rules.go` 20-51, `GetMissingRules`: the records of all PrometheusRules of the cluster count, selected or not |
| `Read` | `rules.go` 53-116: the service (`ValidService`: the last one of the list, since the code keeps a pointer to its loop's variable), its Prometheus, the label made of its selector (`LabelFor`), the object, the GC role |
| `Write` | `rules.go` 118-176: append to the object, or create it owned by the GC role; a version that has moved is refused, an answer may be lost |
| `EditOurs`, `EditForeign`, `EditServices`, `Reinstall` | users: of the operator's object, of other PrometheusRules, of a second, paused service, of the active one |
| `Collect`, `Resync`, `Restart` | garbage collector, informer, process |

Labels are about one key and are numbers (`Unset`, `Empty` and values); the namespaces are that of the active service's
Prometheus and another one. `taken` is history: rules went since the operator's last check. `astray`: a patch went to
the other namespace, or was written between the check and the write of the other patcher.

Properties. `RestMeansPatched`: at rest, unless `astray`, each record is in the object at most once and, unless
`taken`, Prometheus evaluates all of them. `RulesSettle`: with operand protection the rules come back, whoever takes them away.

## Runs

| Run | Shows | Bounds |
|---|---|---|
| `lock_safety` | all safety properties of the lock and the refinement | 2 services, 3 creations, 1 failure of five kinds, with and without protection: enough for one service to be deleted and re-created while the other waits, with a failure anywhere in between |
| `lock_liveness` | scenario *failures*: a service left alone becomes active and a lost lock is released, with any failure but a restart, also from a legacy lock. Scenario *cleanup*: nothing leaks, as long as the calls on the lock and the deletion of the GC role work | 2 services, 2 creations, 2 failures, with and without protection |
| `lock_worst_case` | operands settle under every failure, stale roles and restarts, the webhooks with protection | 2 services, 2 creations, 2 failures, with and without protection |
| `lock_lost_deletion` | *violated*: two active services after the lock's deletion failed (AC 511) | 3 creations, 1 failure |
| `lock_failed_gc_deletion` | *violated*: the lock goes although the GC role stays (AC 509) | 2 creations, 1 failure |
| `keycode_flow` | in setting `WaitingUsers` all keycode properties; in `UncertainCalls` those for users who wait, whatever becomes of a call; in `Rough`, the worst case, that the channel never blocks | `WaitingUsers`: 2 keycodes, one of them the trial keycode and left over, 4 edits, 2 failing calls: enough to apply, replace, sign and remove. `UncertainCalls`: 2 edits and a lost answer or a restart. `Rough`: a channel of 3 for 2 keycodes, one failure of any kind, two edits at any time, re-creation |
| `keycode_lost_edit` | *violated*: the write-back overwrites a user's edit (KC 169) | no failure, 3 edits |
| `keycode_forgotten` | *violated*: a keycode stays at Datahub that the status does not tell (KC 186) | no failure, 3 edits |
| `keycode_lost_requeue` | *violated*: the retry clock runs without a retry (KC 188) | 1 failing write-back |
| `operand_sync` | all properties of the pipeline | eight operands of six kinds in four components (Grafana with its data sources, Service and role, the executor, the evictioner and the TLS Secret of VPA, the Weave Scope agent), of which three Deployments and the DaemonSet never look as wanted and a release changes a port and an argument, late caches of data sources and Grafana, two events out of edits, changes of operands, calls of syncs and uninstalls and writes of the service that fail, restarts at any time: enough for a change while a failed reconcile is repeated, for a component switched off and on, or for one whose uninstall ends halfway |
| `operand_lost_edit` | *violated*: without operand protection, as `deploy/upstream/03-federatorai-operator.deployment.yaml` 59 ships the operator, a component switched off during a reconcile stays (AC 1922), although `docs/quickstart.md` 83 says the operator will react to an edit | no failure, 1 edit |
| `installation` | part *storage*: two components (one of the Alameda group, one not), four lists for the service and four for each section, 1 failure, 1 edit, a late cache, with and without protection. Part *exposure*: two Services, one node port both want, exposures with and without ports, with and without protection, 2 failures, 1 edit: enough for a port to move. Part *upgrade*: two consumers, installed or not, 3 failures out of calls, a lost drop, timeouts, restarts and the old operator: enough for a failed upgrade to be repeated and fail again. Part *rules*: two records, four selectors (none, everything, `In`, `Exists` with `NotIn`), two patchers, 1 failure, 2 edits: enough for a patch to be lost and one to come late | in one run, each part by itself: they share no state, and a variable of another part is a constant |

`CHECK_DEADLOCK FALSE` but in the two runs of `OperandSync`: once the users have used up their creations or edits and
deleted the service, the bounded system stops. The number of services, creations and edits bounds the state space;
TLC's symmetry is not used, because the liveness properties forbid it and the safety runs do not need it. The two
liveness runs of the lock use the symmetry of the two services by hand: `FirstIsA` keeps the behaviours in which the
first service there is is `a`. Nothing else tells the services apart, so every other behaviour is a mirror image of one
of these, and the properties, which are about every service, hold of both or of neither.

The violated runs are not the only ones: `AtMostOneActive` also fails when the two roles are read stale,
when the operator restarts between the deletions of GC role and lock, and with a legacy lock whose service is
re-created; `SoleServiceActivated` fails with a restart (the deletion is never seen); `OperandsSettle` fails without operand
protection if it asks for the webhooks; `NothingLeaks` fails with any
failure of a call on the lock or of the GC deletion; `DoneIsRegistered` and `Converges` fail with a failing write-back,
a lost answer or a restart at the wrong moment followed by an edit that returns to the old keycode;
`RetryClockMeansRetry` fails when a service is deleted while its clock runs (KC 196). Change `CanFail`, `LaggingRoles` or
`LegacyLock` in a configuration, or a setting in `MCKeycode`, to see them. With several left-over keycodes `FollowsFlow`
fails, because the summary Datahub gives for the empty keycode may speak of another one.

What `operand_sync` leaves out because the code does not have the property then:

- Without `LeftBehind` in `Applied`: when the uninstall of the execution component ends behind the executor's Deployment,
  the evictioner's, next on the same list, stays for ever (AC 1556): `RecordMeansApplied` and `Settles` fail.
- The Weave Scope agent is deleted and created in every sync, because the compare does not fill in the type of its host
  paths (`updateresource.go` 211-249), hence `Churned` in `NoChurn`; when a sync fails in between it is away until the
  next one, hence `Replacing` in `RecordMeansApplied`.
- What a release changes in the arguments of a container or the ports of a Service only is never applied, hence `Kept`
  in `Applied`.
- Without protection (drop `protected \/ ~disturbed` from `Settles`): a spec changed during a reconcile is recorded as
  applied and never applied; a change that is taken back after a failed reconcile leaves what that reconcile wrote; a
  Deployment made with a late copy of its ConfigMap keeps the old label.
- The Secret of the admission controller is created and deleted in every reconcile while VPA is off (AC 988), hence the
  exception in `RecordMeansApplied` and `NoChurn`.

What `installation` leaves out because the code does not have the property then. Storage:

- InfluxDB among the components: its pod is a StatefulSet, into which no storage is written, although
  `docs/crd_alamedaservice.md` 96-101, 126 and 324 offers it; its claims are created and unused, its data stays on an
  emptyDir. `StoragesApplied` fails.
- The recommender, executor, dispatcher, analyzer or fedemeter with a storage of its own: its section mounts a volume
  by the name of the claim (`componentsectionset.go` 47, 52, 57, 65, 70), the API server refuses the Deployment and the
  reconcile is repeated forever. `StoragesSettle` fails.
- `agent-app` takes its claims from the section of the backend (`ClaimSection`), so a storage of its own names a claim
  nobody creates. `ListsAgree` fails.
- A claim for a usage followed by an ephemeral storage for it in one section, over a claim for the whole service: the
  list is shortened while it is ranged over (`alamedaserviceparamter` 743, 763) and the operator panics, also after its
  restart. `NeverPanics` fails.
- A claim deleted and asked for again while the cache is behind is taken for one that is there: hence `misread`.
- Without protection, an edit that comes during a reconcile is recorded with it and skipped from then on (AC 1922, 262),
  as in `operand_lost_edit`; and one that is taken back after a reconcile failed halfway leaves what that reconcile did.
  `StoragesApplied` and `StoragesSettle` fail, hence `raced`.

Exposure:

- A node port that moves from one Service to another in one edit: the new one is refused as long as the old one holds
  the port, and the list to delete comes after the first error, so every pass ends there (AC 1174). Hence `Calm`.
- An exposure without ports puts a label on the component's own Service; syncService finds it different, deletes and
  creates it, and the exposure labels it again, in every pass (AC 1123, 1231). Hence `Calm`.
- Without protection, an edit that is taken back after a reconcile failed halfway is skipped for being the recorded
  spec, and what that reconcile wrote stays. Hence `Undisturbed`.

Upgrade: the first reconcile creates the Service of InfluxDB (AC 330) before its StatefulSet (AC 352). When the pod of the
operator is restarted in between, the init container takes the Service for the database, its query fails at every
attempt (`influxdb.go` 113-131), and the operator that would create the StatefulSet never starts: hence `Stuck` in
`ConsumersComeBack`. `LimaKept` needs `~early` (a pod restarted right after the upgrade finds no Lima measurement and drops what the
consumers write meanwhile), `DropsUnused` needs `~misled` (a `status.replicas` of 0 that is not, or not any more, true).

Prometheus rules:

- The rules go to the Prometheus of the last service in the list (`utils.go` 37-41), which may be a paused one, and two
  patchers append a record twice: hence `astray`.
- A record only a rule defines that Prometheus does not select counts as defined: hence `"elsewhere"` in the promise.
- When no PrometheusRule exists at all, or the selectors are unset, the patch fails, and the reconcile is repeated before
  it uninstalls or records anything (AC 377-387). Hence `Possible` in `RulesSettle`.
- Selectors that contradict themselves on a key (`In` with `NotIn` of its last value) get a label that is not selected:
  `LabelsSelected` says which ones do not.
- Labels a user strips off the object are not repaired as long as its records are there, and without protection rules
  that are taken away stay away. Such edits of labels are not modelled.

## Fairness

`ServiceLock!Fairness`: the worker goes on with what it has begun (`WF` of `Worker`); the work queue is first in,
first out, so a queued key is taken even if others keep arriving (`SF` of `Take(s)`); informers deliver and resync
(`WF`; the manager keeps the default `SyncPeriod`); the garbage collector gets round to every orphan (`WF`).
`Keycode!Fairness` is the same for one service, plus the main controller granting the lock.
`OperandSync!Fairness`: the worker goes on, informers deliver; no resync is needed. `Storage` and `ServiceExposure`: the
worker goes on, informers deliver and resync. `InfluxUpgrade`: the pod goes on, for the kubelet starts the container
again; a context's deadline passes, at least for a consumer an operator keeps up (`Restored`), which would be polled for
ever; the operator goes on with its first reconcile; the cluster starts the database, and starts, stops and reports each consumer. `PrometheusRules`: the operator goes on, resyncs and
collections come; nothing makes anybody call the command. `MCLockLiveness` and `MCInstallation` repeat these conditions for the
scenario or part a behaviour is in. Nothing is assumed of users, failures, restarts, or of the time until a
retry limit expires.

## Proofs

All for every value of the constants: any number of services, keycodes, operands, components, consumers or records, any
bounds. A hypothesis of a theorem is a named definition of the module it is about, and says of the constants what the code
needs to have the property at all; each is explained here.

`ServiceLockProofs`:

- `TypeCorrect`: `Spec => []TypeOK`. The invariant needs one strengthening, that a busy worker has a key. None of the
  theorems depends on whether operands are protected: skipping a sync touches neither the lock nor who is active.
- `LockInvariant`: `Reliable => (Spec => []LockInv)`. `Reliable` is the assumption of the safety results: current reads
  of the two roles, no legacy lock, no failing deletion of the lock, no restart. The runs above show
  that none of the four can be dropped.
- `MutualExclusion`, `StatusNeedsLock`, `ServicesSafeFromCollector`, `TearDownSparesActive`: corollaries of it.
- `Refinement`: `Reliable => (Spec => Implements)`.
- `CleanupGoesInOrder`: `Spec => CleanupInOrder`, without an assumption on the operator; restarts, lagging roles and every failure
  included. The run `lock_failed_gc_deletion` shows why the exception in `CleanupInOrder` is needed.

`AtMostOneActive` is not inductive: a worker that has found out that its service owns the lock writes "active" some
steps later. `LockInv` therefore says what the worker knows at each step (`WorkerKnows`): between the check and the
write nobody else can take the lock, because the lock is deleted only by this very worker or collected with the GC
role, which owns it (`LockOwned`) and which only this worker deletes, for a service that is gone. `UidsApart` keeps the
garbage collector from taking a service for the GC role and `MissingIsBlank` and `OnlyHolderOwned` keep it from the services.
The step lemmas follow the actions: `InvWorker` has one step per action of the worker, `InvEnvironment` one per
action of the environment. `OnlyHolderActiveTheorem`: the steps of `ActivationLock`
keep its promise, so what refines it does.

`KeycodeProofs`, for every set of keycodes and of settings:

- `TypeCorrect`, and `EventsNeverBlock`: with more room than there are keycodes the channel never blocks,
  whatever fails; the invariant counts the events in the channel by the keycodes a reconcile can still add one for.
- `ClockMeansRetry` and `WriteBackKeepsEdits`, in settings that are `Patient`: users do not write during a reconcile, the
  service is not deleted, and neither the write-back nor the call for the summary fails. The three violated keycode runs
  show that the first and the last are needed. The invariant, `PatientInv`: a reconcile at work owns the lock, its cache
  is current, and its copy has the keycode of the service.
- `StatusTells`, in settings that are also `Certain`. At rest the repository holds what the status tells; the invariant `ToldInv` says
  for each step of a reconcile how the copy it works on and the repository differ meanwhile: while keycodes are
  deleted, `todo` is exactly what is there, and when a new one is sent, nothing is.
- `DoneMeansRegistered` and `StatusFollowsFlow`, the refinement of `KeycodeFlow`, with `FewLeft` besides. What Datahub says of
  the empty keycode speaks of the right one because there is one at most (`MeantInv`); the write-back is the step of the flow, and
  `FlowInv` says how far the copy may be ahead of the status: by one step of the flow (`MovedOn`). `BodySteps` sums up
  what a call can come to (`BodyOutcome`), so that each of the three invariants looks at seven outcomes only.

`OperandSyncProofs`, for any operands, components and lists:

- `TypeCorrect`: caches hold the current version of what is not known to lag, whatever fails or interferes.
- `PipelineInvariant`, `RecordIsApplied` (`RecordMeansApplied`) and `InOrderLeftAlone` (`NoChurn`), for any `Undefaulted` and
  `Overlooked` operands. What is overlooked of a copy that is found is carried through (`KeptIs`, `WrittenAs`), so that what is
  mounted, of which nothing is overlooked, is current all the same; a DaemonSet that is being replaced may be missing (`AppliedForNow`). Nothing about the objects is
  inductive by itself: the invariant (`Undisturbed`) says what each stage has achieved. While operands are synced, those passed in
  the order of the code are as the spec at work says and carry the version of their ConfigMap (`InSync`, `MountsCurrent`); while some are
  uninstalled, what precedes them in the lists is gone or `LeftBehind` (`InUninstall`). Of a kind in the list of a component that is
  switched off, what is listed earlier is there whenever what is listed later is (`GoneInOrder`), which makes it harmless that an
  uninstall stops at the first object that is gone, until one is `halted`. From then on the order is lost, and with it that
  the ConfigMap of a current pod is there; what is left is that it says what the pod was made of if it is there, and that a
  sync that does not see it waits (`MountsCurrent`). At rest what is recorded is applied (`AppliedKept`).

  Hypotheses. `ListsFit`, on the lists of components: an operand is removed with each of the components it is installed for; of a kind,
  what a list names first needs no more components than what it names later; a ConfigMap goes with what mounts it.
  Nothing is assumed of failures and restarts. `ReplacedSeen`, for `NoChurn` alone: Services and
  DaemonSets are compared with copies that are up to date, or the operator deletes and re-creates what is in order.
  The run evaluates both for its operands.

`StorageProofs`, in two parts.

- What is made of one spec. `SpecsAgreeAlways`: the claims to install, the claims to uninstall and the claims the pods name agree, for
  every spec. The three are recursive functions over lists, one of which shortens the list it ranges over. Each gets a
  closed form ("a claim is on the list iff ..."), proved by induction along the list; the induction theorems of
  the library cannot be used, so it is done by hand with a least counterexample (`LeastElement`, `InductionUpTo`). From it
  `ListsAlwaysAgree` and `PanicsNever`.
- What reconciles make of changing specs. `StorageTypes`, `ClaimsExist`, `DeletesAreAsked` and `StoragesAreApplied`. `Prepared`: when pods are
  written the claims of the spec at work are there, and when claims are deleted the pods are those of that spec, so no pod
  names one of them. `UpToDate`: unless a reconcile took a cache that lagged, the claims its spec installs are there until it
  ends, and once it is through its spec has been applied. `FromSpec` says what that has to do with the spec there is. With
  protection a reconcile works from it when nothing is queued. Without, and unless an edit was `raced`, whatever is at work
  works from it, and it is at work only if the spec is not the recorded one; so an edit cannot be recorded
  unapplied, and what is recorded when a reconcile is skipped has been applied.

  Hypotheses, all evaluated for the run's storages. `StoragesPlain`: a list says one thing of a usage and no component is `agent-app`; otherwise the
  code panics or names claims nobody creates. `StoragesMeant`: claims and volumes are about the same usages. `StoragesComplete`: a claim has
  a size, and no component is a StatefulSet. What goes wrong without them is listed above, under what `installation` leaves out.

`ServiceExposureProofs`: `ExposureType`, `ExposureInvariant` and `RestIsExposed` (`RestMeansExposed`). Two arguments, one for each way of
running the operator. With operand protection (`Watchful`): a write makes the cache lag and its delivery queues the service, so a
pass after which nothing is behind and nothing queued has written nothing, and found everything as asked in a cache that was
current. Without (`Alone`): a pass that fails is repeated until the spec is recorded, and although it may work from a cache that lags it never
takes a Service for its own that is exposed (`SeenArePropers`). In both, a Service named for a node port carries the label
(`NodePortsLabelled`), so `Prune` finds it. `ConstantsTyped`: bounds are numbers.

`InfluxUpgradeProofs`: `UpgradeType`, `Invariance`, and from it `SchemasStayApart`, `DropsFindNobody` and `LimaStays`. The invariant says
that a consumer that is not installed does not run (`AbsentIsDown`), that old data is in an InfluxDB that is there and gone
before any consumer is of the new release (`OldGoesFirst`), that once a truthful status said 0 nothing runs until the drop (`Quiet`), and that
consumers of the new release show in the data before an upgrade can begin, unless the restart was early (`LimaShows`).

`PrometheusRulesProofs`: `RulesTyped` and `RestIsPatched`, assuming `LabelsSelected`, that the label made of a selector is selected
by it, which the run evaluates for its selectors. `RestMeansPatched` speaks of one moment; the invariant says what leads
up to it: what a patcher appends is in no object of the operator unless it comes late (`Fresh`), so records stay single
(`Straight`); whoever writes knows that Prometheus can see the object (`Able`), which is labelled accordingly (`Labelled`);
and what the operator did not find missing stays defined until something is taken (`Complete`), so at rest all is (`Rested`).

`InstallationProofs`: `PartsBehave` says that a behaviour of `MCInstallation` about one part is a behaviour of that part's own
specification (of `PrometheusRules`, without its fairness), so what the theorems above say of the parts holds of what the run
checks. `TypeCorrect`, for `TypeOK` of the run, puts the four type lemmas together; the bounds of the three instances
are the run's, everything else is arbitrary. `NoneIsAList`: users may ask for no storage, as in the behaviours about other parts.

Only model-checked: all liveness properties (`SoleServiceActivated`, `LockReleased`, `OperandsSettle`, `NothingLeaks`,
`ConvergesIfPatient`, `Settles`, `Quiesces`, `StoragesSettle`, `CalmSettles`, `ConsumersComeBack`, `RulesSettle`), since the
prover does not handle fairness and ENABLED.
`LockDeletedLast`, in a run that violates it, is false; what is left of it is `CleanupInOrder`. What the recursive functions of `PrometheusRules` make of a selector is evaluated, not proved.

## Not modelled

- Rendering of manifests, the readers, precedence of images and environment, logging and the generated code keep no
  state and have no order to get wrong.
- Start-up: the leader lock is a library's, and waiting for the CRDs is a loop without shared state.
- The delivery of license events, the pool of Datahub clients, the texts of messages and summaries: nothing the
  operator does depends on them.
- Of the operands: CRDs, whose errors are logged and passed over (AC 283), AlamedaScalers, and the ownership of webhooks
  beyond what `ServiceLock` has of it. Of the component lists all but the four components of `operand_sync` are data.
- Sizes and classes of claims. (The claim of `alameda-datahub-log` has "data" in its name, so `globalsectionset.go`
  95-101 gives it the size of a data claim.)
- The relabelings of Prometheus, which are commented out in the code, and the ownerless GC role the command may leave
  behind when it runs before the operator.

What would come next: `RecordMeansApplied` without `LeftBehind`, once the code goes on behind an object that is gone, and the
safety that the liveness properties rest on (no step of a reconcile that stays disabled) as invariants of their own.
