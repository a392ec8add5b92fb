------------------------ MODULE ServiceExposureProofs ------------------------
(***************************************************************************)
(* Proofs about ServiceExposure, for every set of Services and ports and   *)
(* every bound.                                                            *)
(***************************************************************************)
EXTENDS ServiceExposure, TLAPS

\* What the constants are meant to be.
ConstantsTyped ==
    Protection \subseteq BOOLEAN /\ MaxFailures \in Nat /\ MaxEdits \in Nat

-----------------------------------------------------------------------------
(* The names and what is written under them *)

LEMMA NamesDiffer ==
  ASSUME NEW s \in Services
  PROVE  /\ Base(s) \in Names /\ NodePort(s) \in Names
         /\ \A t \in Services : /\ Base(s) # NodePort(t)
                                /\ Base(s) = Base(t) => s = t
                                /\ NodePort(s) = NodePort(t) => s = t
BY DEF Base, NodePort, Names

LEMMA WantedOfName ==
  ASSUME NEW s \in Services, NEW e \in Exposure
  PROVE  /\ WantedName(s, e) \in Names
         /\ WantedName(s, e) = IF e.kind = "plain" THEN Base(s) ELSE NodePort(s)
BY NamesDiffer DEF WantedName

LEMMA ExposureFields ==
  ASSUME NEW e \in Exposure
  PROVE  e.kind \in {"none", "plain", "ports"} /\ e.ports \subseteq Ports
BY DEF Exposure, Unexposed, Plain, OnPorts

LEMMA Objects ==
  ASSUME NEW e \in Exposure
  PROVE  NoObject \in Object /\ Manifest \in Object /\ WantedObject(e) \in Object
BY ExposureFields DEF NoObject, Manifest, WantedObject, Object

LEMMA ExistsOrAbsent ==
  ASSUME NEW object \in Object
  PROVE  /\ object.exists \in BOOLEAN /\ object.labelled \in BOOLEAN
         /\ ~object.exists => object = NoObject
<1>1. CASE object = NoObject
  BY <1>1 DEF NoObject
<1>2. CASE object \in [exists : {TRUE}, labelled : BOOLEAN, ports : SUBSET Ports]
  BY <1>2
<1> QED
  BY <1>1, <1>2 DEF Object

-----------------------------------------------------------------------------
(* Types *)

LEMMA SpecOf ==
  ASSUME NEW s \in SpecType, NEW a \in Services
  PROVE  s[a] \in Exposure
BY DEF SpecType

\* A write keeps what is known of the cache.
LEMMA PutType ==
  ASSUME ExposureTypeOK, NEW changed \in [Names -> Object], Put(changed)
  PROVE  /\ objects' \in [Names -> Object] /\ cache' \in [Names -> Object]
         /\ behind' \subseteq Names
         /\ \A n \in Names \ behind' : cache'[n] = objects'[n]
BY DEF ExposureTypeOK, Put

LEMMA TypeInit == ASSUME ConstantsTyped, Init PROVE ExposureTypeOK
<1>1. pass \in PassType
  BY DEF Init, PassType
<1>2. NoObject \in Object
  BY DEF NoObject, Object
<1>3. objects \in [Names -> Object] /\ cache = objects
  BY <1>2 DEF Init
<1>4. failures \in 0 .. MaxFailures /\ edits \in 0 .. MaxEdits
  BY DEF Init, ConstantsTyped
<1> QED
  BY <1>1, <1>3, <1>4 DEF Init, ExposureTypeOK

LEMMA PassTyped ==
  ASSUME ExposureTypeOK
  PROVE  /\ Requeue => pass' \in PassType /\ passQueued' \in BOOLEAN
         /\ \A s \in Services : Done(s) => pass' \in PassType /\ passQueued' \in BOOLEAN
         /\ \A pc \in {"idle", "base", "expose", "prune", "record"} :
            \A todo \in SUBSET Services :
               Goto(pc, todo) => pass' \in PassType /\ passQueued' \in BOOLEAN
<1> USE DEF ExposureTypeOK, PassType
<1>1. Requeue => pass' \in PassType /\ passQueued' \in BOOLEAN
  BY DEF Requeue
<1>2. \A s \in Services : Done(s) => pass' \in PassType /\ passQueued' \in BOOLEAN
  <2>1. \A s : pass.todo \ {s} \in SUBSET Services
    OBVIOUS
  <2> QED
    BY <2>1 DEF Done
<1>3. \A pc \in {"idle", "base", "expose", "prune", "record"} :
      \A todo \in SUBSET Services :
         Goto(pc, todo) => pass' \in PassType /\ passQueued' \in BOOLEAN
  BY DEF Goto
<1> QED
  BY <1>1, <1>2, <1>3

LEMMA CountTyped ==
  ASSUME ConstantsTyped, ExposureTypeOK
  PROVE  /\ Succeeds => failures' \in 0 .. MaxFailures
         /\ \A f : Fails(f) => failures' \in 0 .. MaxFailures
         /\ \A refused, f : FailsIf(refused, f) => failures' \in 0 .. MaxFailures
BY DEF ConstantsTyped, ExposureTypeOK, Succeeds, Fails, FailsIf

LEMMA TypeNext == ASSUME ConstantsTyped, ExposureTypeOK, [Next]_vars PROVE ExposureTypeOK'
<1> DEFINE Stores == /\ objects' \in [Names -> Object] /\ cache' \in [Names -> Object]
                     /\ behind' \subseteq Names
                     /\ \A n \in Names \ behind' : cache'[n] = objects'[n]
           Works == pass' \in PassType /\ passQueued' \in BOOLEAN
           Counts == failures' \in 0 .. MaxFailures
<1>0. NoWrite => Stores
  BY DEF NoWrite, ExposureTypeOK
<1>a. ASSUME Stores, Works, Counts, Syncing, disturbed' \in BOOLEAN PROVE ExposureTypeOK'
  BY <1>a DEF ExposureTypeOK, Syncing, specVars
<1>b. ASSUME NEW n \in Names, NEW object \in Object, Put([objects EXCEPT ![n] = object])
      PROVE  Stores
  <2>1. [objects EXCEPT ![n] = object] \in [Names -> Object]
    BY DEF ExposureTypeOK
  <2> QED
    BY <1>b, <2>1, PutType
<1>c. disturbed' \in BOOLEAN
  BY DEF ExposureTypeOK, Next, Worker, Take, SyncBase, BaseSynced, Expose, Exposed,
     Prune, PruneOf, Record, Observe, Resync, EditExposure, Restart, Disturb, vars
<1>1. CASE Take
  <2>1. Works
    <3>1. Services \in SUBSET Services
      OBVIOUS
    <3>2. [pc |-> "base", exposures |-> exposures, todo |-> Services] \in PassType
      BY <3>1 DEF ExposureTypeOK, PassType
    <3> QED
      BY <1>1, <3>2 DEF Take, ExposureTypeOK
  <2> QED
    BY <1>0, <1>1, <1>a, <1>c, <2>1, CountTyped DEF Take
<1>2. CASE SyncBase
  <2> DEFINE s == CHOOSE x \in pass.todo : TRUE
  <2>1. s \in Services
    BY <1>2 DEF SyncBase, ExposureTypeOK, PassType
  <2>2. Base(s) \in Names
    BY <2>1, NamesDiffer
  <2>3. Manifest \in Object /\ NoObject \in Object
    BY DEF Manifest, NoObject, Object
  <2>4. Stores
    BY <1>0, <1>2, <1>b, <2>2, <2>3 DEF SyncBase
  <2>5. Works
    BY <1>2, <2>1, PassTyped DEF SyncBase
  <2>6. Counts
    BY <1>2, CountTyped DEF SyncBase
  <2> QED
    BY <1>2, <1>a, <1>c, <2>4, <2>5, <2>6 DEF SyncBase
<1>3. CASE BaseSynced
  BY <1>0, <1>3, <1>a, <1>c, PassTyped, CountTyped DEF BaseSynced
<1>4. CASE Expose
  <2>1. PICK s \in pass.todo :
          LET n == WantedName(s, pass.exposures[s])
              object == WantedObject(pass.exposures[s])
          IN  \/ Put([objects EXCEPT ![n] = object]) /\ Done(s) /\ Succeeds
              \/ Requeue /\ NoWrite /\ \E refused \in BOOLEAN : FailsIf(refused, "call")
    BY <1>4 DEF Expose, FailsIf
  <2>2. s \in Services /\ pass.exposures[s] \in Exposure
    BY SpecOf DEF ExposureTypeOK, PassType
  <2>3. Stores
    BY <1>0, <1>b, <2>1, <2>2, WantedOfName, Objects
  <2>4. Works /\ Counts
    BY <2>1, <2>2, PassTyped, CountTyped
  <2> QED
    BY <1>4, <1>a, <1>c, <2>3, <2>4 DEF Expose
<1>5. CASE Exposed
  BY <1>0, <1>5, <1>a, <1>c, PassTyped, CountTyped DEF Exposed
<1>6. CASE Prune
  <2>1. PICK deleted \in SUBSET Names :
          /\ Put([n \in Names |-> IF n \in deleted THEN NoObject ELSE objects[n]])
          /\ \/ Goto("record", {}) /\ Succeeds
             \/ Requeue /\ \E refused \in BOOLEAN : FailsIf(refused, "call")
    <3>1. {n \in Names : cache[n].exists /\ cache[n].labelled} \ Wanted(pass.exposures)
             \subseteq Names
      OBVIOUS
    <3> QED
      BY <1>6, <3>1 DEF Prune, PruneOf, FailsIf
  <2>2. [n \in Names |-> IF n \in deleted THEN NoObject ELSE objects[n]] \in [Names -> Object]
    BY DEF ExposureTypeOK, NoObject, Object
  <2>3. Stores
    BY <2>1, <2>2, PutType
  <2>4. Works /\ Counts
    BY <2>1, PassTyped, CountTyped
  <2> QED
    BY <1>6, <1>a, <1>c, <2>3, <2>4 DEF Prune, PruneOf
<1>7. CASE Record
  <2>1. Works /\ Counts /\ Stores
    BY <1>0, <1>7, PassTyped, CountTyped DEF Record
  <2> QED
    BY <1>7, <2>1 DEF Record, ExposureTypeOK
<1>8. CASE Observe
  BY <1>8 DEF Observe, ExposureTypeOK, Syncing, specVars
<1>9. CASE Resync
  BY <1>0, <1>9, <1>a, <1>c DEF Resync, ExposureTypeOK
<1>10. CASE EditExposure
  BY <1>0, <1>10, <1>c DEF EditExposure, ExposureTypeOK, ConstantsTyped, NoWrite
<1>11. CASE Restart
  <2>1. Works /\ Counts
    BY <1>11, PassTyped, CountTyped DEF Restart
  <2> QED
    BY <1>11, <2>1 DEF Restart, ExposureTypeOK, specVars
<1>12. CASE UNCHANGED vars
  BY <1>12 DEF vars, ExposureTypeOK
<1> QED
  BY <1>1, <1>2, <1>3, <1>4, <1>5, <1>6, <1>7, <1>8, <1>9, <1>10, <1>11, <1>12
  DEF Next, Worker

\* Every variable keeps its type, and what the informer has delivered is what is in
\* the API server.
THEOREM ExposureType == ASSUME ConstantsTyped PROVE Spec => []ExposureTypeOK
<1>1. Init => ExposureTypeOK
  BY TypeInit
<1>2. ExposureTypeOK /\ [Next]_vars => ExposureTypeOK'
  BY TypeNext
<1> QED
  BY <1>1, <1>2, PTL DEF Spec

-----------------------------------------------------------------------------
(* The invariant.  Two arguments, one for each way of running the operator.  *)

\* Services named for a node port are made by exposures only, which label them.
NodePortsLabelled ==
    \A s \in Services : objects[NodePort(s)] = NoObject \/ objects[NodePort(s)].labelled

\* The Services whose own object is there and not exposed, or exposed as asked.
Kept == {s \in Services : objects[Base(s)].exists /\ ~objects[Base(s)].labelled}
Proper == {s \in Services : /\ objects[Base(s)].exists
                            /\ objects[Base(s)].labelled => exposures[s].kind = "plain"}
Exposures == {s \in Services : exposures[s].kind # "none" =>
                 objects[WantedName(s, exposures[s])] = WantedObject(exposures[s])}

\* What a pass has achieved when it is done with the Services not in "todo".
Progress(bases) ==
    /\ ~At("idle") => pass.exposures = exposures
    /\ At("base") => Services \ pass.todo \subseteq bases
    /\ At("expose") => Services \subseteq bases /\ Services \ pass.todo \subseteq Exposures
    /\ At("prune") => Services \subseteq bases /\ Services \subseteq Exposures
    /\ At("record") => AllAsAsked

\* With operand protection: a pass whose writes are all delivered and have not
\* queued the service again has written nothing, and found everything as asked.
Watchful ==
    protected /\ ~passQueued /\ behind = {} =>
       Progress(Kept) /\ (At("idle") => AllAsAsked)

\* Without: a pass may work from a cache that is behind, but never takes a Service
\* for its own that is exposed, and it is repeated until it has recorded the spec.
SeenArePropers ==
    \A s \in Services :
       cache[Base(s)].exists /\ ~cache[Base(s)].labelled => s \in Proper
BasesSeen == \A s \in Services : cache[Base(s)] = objects[Base(s)]
Applied == first /\ recorded = exposures
Alone ==
    ~protected /\ ~disturbed =>
       /\ SeenArePropers
       /\ Progress(Proper)
       /\ At("record") => BasesSeen
       /\ ~At("idle") => ~Applied
       /\ At("idle") /\ ~passQueued => Applied
       /\ At("idle") /\ Applied => AllAsAsked /\ BasesSeen

Inv == ExposureTypeOK /\ NodePortsLabelled /\ Watchful /\ Alone

-----------------------------------------------------------------------------
(* What the steps write *)

LEMMA PutOne ==
  ASSUME ExposureTypeOK, NEW n \in Names, NEW object,
         Put([objects EXCEPT ![n] = object])
  PROVE  /\ objects'[n] = object
         /\ \A m \in Names \ {n} : objects'[m] = objects[m]
         /\ UNCHANGED cache
         /\ behind' = {} => behind = {} /\ objects' = objects
<1>1. objects' = [objects EXCEPT ![n] = object] /\ UNCHANGED cache
  BY DEF Put
<1>2. behind' = {} => behind = {} /\ objects'[n] = objects[n]
  BY <1>1 DEF Put
<1>3. objects'[n] = objects[n] => objects' = objects
  BY <1>1 DEF ExposureTypeOK
<1> QED
  BY <1>1, <1>2, <1>3 DEF ExposureTypeOK

\* The step of syncService.
LEMMA SyncBaseStep ==
  ASSUME ExposureTypeOK, SyncBase
  PROVE  /\ UNCHANGED <<protected, exposures, recorded, first, disturbed>>
         /\ \E s \in pass.todo :
              /\ \/ NoWrite /\ cache[Base(s)].exists /\ ~cache[Base(s)].labelled /\ Done(s)
                 \/ /\ ~cache[Base(s)].exists \/ cache[Base(s)].labelled
                    /\ Put([objects EXCEPT ![Base(s)] = Manifest]) /\ Done(s)
                 \/ /\ cache[Base(s)].labelled
                    /\ Put([objects EXCEPT ![Base(s)] = NoObject]) /\ Requeue
                 \/ NoWrite /\ Requeue
<1> DEFINE s == CHOOSE x \in pass.todo : TRUE
<1>1. s \in pass.todo
  BY DEF SyncBase
<1>2. UNCHANGED <<protected, exposures, recorded, first, disturbed>>
  BY DEF SyncBase, Syncing, specVars
<1> QED
  BY <1>1, <1>2 DEF SyncBase

\* Labelled Services nobody asks for are pruned, and nothing else is.
LEMMA PruneStep ==
  ASSUME ExposureTypeOK, Prune
  PROVE  /\ UNCHANGED <<protected, exposures, recorded, first, cache>>
         /\ disturbed' = (disturbed \/ behind # {})
         /\ \E deleted \in SUBSET Names :
              /\ \A n \in deleted : /\ objects[n].exists
                                    /\ cache[n].exists /\ cache[n].labelled
                                    /\ n \notin Wanted(pass.exposures)
              /\ Put([n \in Names |-> IF n \in deleted THEN NoObject ELSE objects[n]])
              /\ \/ /\ Goto("record", {})
                    /\ \A n \in Names : cache[n].exists /\ cache[n].labelled =>
                          n \in deleted \/ n \in Wanted(pass.exposures)
                 \/ Requeue
<1>1. UNCHANGED <<protected, exposures, recorded, first, cache>>
  BY DEF Prune, PruneOf, Syncing, specVars, Put
<1>2. disturbed' = (disturbed \/ behind # {})
  BY DEF Prune, PruneOf, Disturb
<1> DEFINE doomed == {n \in Names : cache[n].exists /\ cache[n].labelled}
                         \ Wanted(pass.exposures)
<1>3. PICK deleted \in SUBSET {n \in doomed : objects[n].exists} :
         /\ Put([n \in Names |-> IF n \in deleted THEN NoObject ELSE objects[n]])
         /\ IF deleted = doomed THEN Goto("record", {}) ELSE Requeue
  BY DEF Prune, PruneOf
<1> QED
  BY <1>1, <1>2, <1>3

\* If nothing unwanted is left, the exposures are as asked.
LEMMA PrunedIsAsAsked ==
  ASSUME ExposureTypeOK, NodePortsLabelled, Services \subseteq Exposures,
         Services \subseteq Proper, NEW after \in [Names -> Object],
         \A n \in Names : after[n] = objects[n]
             \/ (after[n] = NoObject /\ objects[n].labelled /\ n \notin Wanted(exposures)),
         \A n \in Names : objects[n].exists /\ objects[n].labelled
             => after[n] = NoObject \/ n \in Wanted(exposures)
  PROVE  \A s \in Services :
            /\ after[Base(s)] = objects[Base(s)]
            /\ after[Base(s)].exists
            /\ after[Base(s)].labelled = (exposures[s].kind = "plain")
            /\ after[NodePort(s)] =
                  IF exposures[s].kind = "ports" THEN WantedObject(exposures[s]) ELSE NoObject
<1> TAKE s \in Services
<1>0. exposures[s] \in Exposure /\ exposures[s].kind \in {"none", "plain", "ports"}
  BY SpecOf, ExposureFields DEF ExposureTypeOK
<1>1. Base(s) \in Names /\ NodePort(s) \in Names /\ Base(s) # NodePort(s)
  BY NamesDiffer
<1>2. exposures[s].kind = "plain" => Base(s) \in Wanted(exposures)
  BY <1>0, WantedOfName DEF Wanted
<1>3. exposures[s].kind = "ports" => NodePort(s) \in Wanted(exposures)
  BY <1>0, WantedOfName DEF Wanted
<1>4. exposures[s].kind = "none" \/ exposures[s].kind = "plain"
         => NodePort(s) \notin Wanted(exposures)
  <2> SUFFICES ASSUME NEW t \in Services, exposures[t].kind # "none",
                      NodePort(s) = WantedName(t, exposures[t])
               PROVE  exposures[s].kind = "ports"
    BY <1>0 DEF Wanted
  <2>1. exposures[t] \in Exposure /\ exposures[t].kind \in {"none", "plain", "ports"}
    BY SpecOf, ExposureFields DEF ExposureTypeOK
  <2>2. exposures[t].kind = "ports" /\ NodePort(s) = NodePort(t)
    BY <2>1, WantedOfName, NamesDiffer
  <2> QED
    BY <2>2, NamesDiffer
<1>5a. objects[Base(s)].labelled \in BOOLEAN
  <2>1. objects[Base(s)] \in Object
    BY <1>1 DEF ExposureTypeOK
  <2> QED
    BY <2>1, ExistsOrAbsent
<1>5. objects[Base(s)].exists /\ (objects[Base(s)].labelled => exposures[s].kind = "plain")
  <2>1. s \in Proper
    OBVIOUS
  <2> QED
    BY <2>1 DEF Proper
<1>6. after[Base(s)] = objects[Base(s)]
  BY <1>1, <1>2, <1>5, <1>5a
<1>7. exposures[s].kind = "plain" => objects[Base(s)] = WantedObject(exposures[s])
  BY <1>0, WantedOfName DEF Exposures
<1>8. exposures[s].kind = "ports" => objects[NodePort(s)] = WantedObject(exposures[s])
  BY <1>0, WantedOfName DEF Exposures
<1>9. after[NodePort(s)]
         = IF exposures[s].kind = "ports" THEN WantedObject(exposures[s]) ELSE NoObject
  <2>1. CASE exposures[s].kind = "ports"
    BY <1>1, <1>3, <1>8, <2>1
  <2>2. CASE exposures[s].kind # "ports"
    <3>1. objects[NodePort(s)] = NoObject
             \/ (objects[NodePort(s)].exists /\ objects[NodePort(s)].labelled)
      BY <1>1, ExistsOrAbsent DEF NodePortsLabelled, ExposureTypeOK
    <3> QED
      BY <1>0, <1>1, <1>4, <2>2, <3>1
  <2> QED
    BY <2>1, <2>2
<1> QED
  BY <1>5, <1>5a, <1>6, <1>7, <1>9 DEF WantedObject

-----------------------------------------------------------------------------
(* The invariant is kept *)

LEMMA InvInit == ASSUME ConstantsTyped, Init PROVE Inv
<1>1. \A s \in Services : /\ objects[Base(s)] = NoObject /\ cache[Base(s)] = NoObject
                          /\ objects[NodePort(s)] = NoObject
  BY NamesDiffer DEF Init
<1>2. NodePortsLabelled /\ SeenArePropers
  BY <1>1 DEF NodePortsLabelled, SeenArePropers, NoObject
<1>3. At("idle") /\ passQueued /\ ~first
  BY DEF Init, At
<1> QED
  BY <1>2, <1>3, TypeInit DEF Inv, Watchful, Alone, Progress, Applied, At

LEMMA NodePortsLabelledNext ==
  ASSUME ConstantsTyped, Inv, [Next]_vars
  PROVE  NodePortsLabelled'
<1> USE DEF Inv, NodePortsLabelled
<1>1. CASE UNCHANGED objects
  BY <1>1
<1>2. CASE SyncBase
  <2>1. \A s, t \in Services : \A object :
           Put([objects EXCEPT ![Base(s)] = object])
              => objects'[NodePort(t)] = objects[NodePort(t)]
    BY PutOne, NamesDiffer
  <2> QED
    BY <1>2, <2>1, SyncBaseStep DEF NoWrite, ExposureTypeOK, PassType
<1>3. CASE Expose
  <2>1. PICK s \in pass.todo :
           \/ Put([objects EXCEPT ![WantedName(s, pass.exposures[s])]
                                       = WantedObject(pass.exposures[s])])
           \/ NoWrite
    BY <1>3 DEF Expose
  <2>2. s \in Services /\ pass.exposures[s] \in Exposure
    BY SpecOf DEF ExposureTypeOK, PassType
  <2>3. WantedName(s, pass.exposures[s]) \in Names
    BY <2>2, WantedOfName
  <2> QED
    BY <2>1, <2>3, PutOne, NamesDiffer DEF NoWrite, WantedObject
<1>4. CASE Prune
  <2>1. \A n \in Names : objects'[n] = NoObject \/ objects'[n] = objects[n]
    BY <1>4, PruneStep DEF Put
  <2> QED
    BY <2>1, NamesDiffer
<1> QED
  BY <1>1, <1>2, <1>3, <1>4
  DEF Next, Worker, Take, BaseSynced, Exposed, Record, Observe, Resync, EditExposure,
      Restart, NoWrite, vars

\* What a pass has achieved stays while nothing is written and the spec is the same.
LEMMA ProgressStays ==
  ASSUME UNCHANGED <<exposures, pass, objects>>
  PROVE  /\ Progress(Kept) => Progress(Kept)'
         /\ Progress(Proper) => Progress(Proper)'
         /\ AllAsAsked => AllAsAsked'
BY DEF Progress, Kept, Proper, Exposures, AllAsAsked, AsAsked, At, WantedName

LEMMA WatchfulNext ==
  ASSUME ConstantsTyped, Inv, [Next]_vars
  PROVE  Watchful'
<1> SUFFICES ASSUME protected', ~passQueued', behind' = {}
             PROVE  Progress(Kept)' /\ (At("idle") => AllAsAsked)'
  BY DEF Watchful
<1>p. protected
  BY DEF Next, Worker, Take, SyncBase, BaseSynced, Expose, Exposed, Prune, PruneOf, Record,
     Observe, Resync, EditExposure, Restart, Syncing, vars
<1>t. ExposureTypeOK /\ pass \in PassType /\ NodePortsLabelled
  BY DEF Inv, ExposureTypeOK
<1>1. CASE Take
  <2>1. pass' = [pc |-> "base", exposures |-> exposures, todo |-> Services] /\ UNCHANGED exposures
    BY <1>1, <1>p DEF Take, Syncing, specVars
  <2> QED
    BY <2>1 DEF Progress, At
\* The pass before had queued nothing, and its writes were delivered.
<1>a. ASSUME behind = {}, ~passQueued
      PROVE  /\ Progress(Kept) /\ (At("idle") => AllAsAsked)
             /\ \A n \in Names : cache[n] = objects[n]
  BY <1>p, <1>a, <1>t DEF Inv, Watchful, ExposureTypeOK
<1>2. CASE SyncBase
  <2>1. PICK s \in pass.todo :
          /\ Done(s)
          /\ \/ NoWrite /\ cache[Base(s)].exists /\ ~cache[Base(s)].labelled
             \/ /\ ~cache[Base(s)].exists \/ cache[Base(s)].labelled
                /\ Put([objects EXCEPT ![Base(s)] = Manifest])
    BY <1>2, <1>t, SyncBaseStep DEF Requeue
  <2>2. UNCHANGED <<exposures, passQueued>> /\ At("base")
    BY <1>2, <1>t, <2>1, SyncBaseStep DEF Done, SyncBase
  <2>3. s \in Services /\ Base(s) \in Names
    BY <1>t, NamesDiffer DEF PassType
  <2>4. behind = {} /\ objects' = objects
    BY <1>t, <2>1, <2>3, PutOne DEF NoWrite
  <2>5. s \in Kept
    <3>1. Put([objects EXCEPT ![Base(s)] = Manifest]) => objects'[Base(s)] = Manifest
      BY <1>t, <2>3, PutOne
    <3> QED
      BY <1>a, <2>1, <2>2, <2>3, <2>4, <3>1 DEF Kept, Manifest
  <2>6. pass'.pc = "base" /\ pass'.exposures = exposures /\ pass'.todo = pass.todo \ {s}
    BY <1>a, <1>t, <2>1, <2>2, <2>4 DEF Done, PassType, Progress, At
  <2>7. Services \ pass'.todo \subseteq Kept /\ Kept' = Kept
    BY <1>a, <2>2, <2>4, <2>5, <2>6 DEF Progress, Kept
  <2> QED
    BY <2>2, <2>6, <2>7 DEF Progress, At
<1>3. CASE BaseSynced
  <2>1. /\ UNCHANGED <<exposures, passQueued, behind, objects>>
        /\ pass' = [pass EXCEPT !.pc = "expose",
                                    !.todo = {s \in Services : pass.exposures[s].kind # "none"}]
        /\ At("base") /\ pass.todo = {}
    BY <1>3 DEF BaseSynced, Goto, Syncing, specVars, NoWrite
  <2>2. pass.exposures = exposures /\ Services \subseteq Kept
    BY <1>a, <2>1 DEF Progress, At
  <2>3. /\ pass'.pc = "expose" /\ pass'.exposures = exposures
        /\ pass'.todo = {s \in Services : exposures[s].kind # "none"}
    BY <1>t, <2>1, <2>2 DEF PassType
  <2>4. Services \subseteq Kept' /\ Services \ pass'.todo \subseteq Exposures'
    BY <2>1, <2>2, <2>3 DEF Kept, Exposures
  <2> QED
    BY <2>1, <2>3, <2>4 DEF Progress, At
<1>4. CASE Expose
  <2>1. PICK s \in pass.todo :
          /\ Put([objects EXCEPT ![WantedName(s, pass.exposures[s])]
                                      = WantedObject(pass.exposures[s])])
          /\ Done(s)
    BY <1>4 DEF Expose, Requeue
  <2>2. UNCHANGED <<exposures, passQueued>> /\ At("expose")
    BY <1>4, <2>1 DEF Expose, Done, Syncing, specVars
  <2>3. s \in Services /\ pass.exposures[s] \in Exposure
    BY <1>t, SpecOf DEF PassType
  <2>4. /\ behind = {} /\ objects' = objects
        /\ objects'[WantedName(s, pass.exposures[s])] = WantedObject(pass.exposures[s])
    BY <1>t, <2>1, <2>3, WantedOfName, PutOne
  <2>5. pass.exposures = exposures /\ Services \subseteq Kept
        /\ Services \ pass.todo \subseteq Exposures
    BY <1>a, <2>2, <2>4 DEF Progress, At
  <2>6. s \in Exposures
    BY <2>3, <2>4, <2>5 DEF Exposures
  <2>7. pass'.pc = "expose" /\ pass'.exposures = exposures /\ pass'.todo = pass.todo \ {s}
    BY <1>t, <2>1, <2>2, <2>5 DEF Done, PassType, At
  <2>8. Kept' = Kept /\ Exposures' = Exposures
    BY <2>2, <2>4 DEF Kept, Exposures
  <2> QED
    BY <2>2, <2>5, <2>6, <2>7, <2>8 DEF Progress, At
<1>5. CASE Exposed
  <2>1. /\ UNCHANGED <<exposures, passQueued, behind, objects>>
        /\ pass' = [pass EXCEPT !.pc = "prune", !.todo = {}]
        /\ At("expose") /\ pass.todo = {}
    BY <1>5 DEF Exposed, Goto, Syncing, specVars, NoWrite
  <2>2. pass.exposures = exposures /\ Services \subseteq Kept /\ Services \subseteq Exposures
    BY <1>a, <2>1 DEF Progress, At
  <2>3. pass'.pc = "prune" /\ pass'.exposures = exposures
    BY <1>t, <2>1, <2>2 DEF PassType
  <2>4. Kept' = Kept /\ Exposures' = Exposures
    BY <2>1 DEF Kept, Exposures
  <2> QED
    BY <2>1, <2>2, <2>3, <2>4 DEF Progress, At
<1>6. CASE Prune
  <2>1. PICK deleted \in SUBSET Names :
          /\ \A n \in deleted : objects[n].exists
          /\ Put([n \in Names |-> IF n \in deleted THEN NoObject ELSE objects[n]])
          /\ Goto("record", {})
          /\ \A n \in Names : cache[n].exists /\ cache[n].labelled =>
                n \in deleted \/ n \in Wanted(pass.exposures)
    BY <1>6, <1>t, PruneStep DEF Requeue
  <2>2. behind = {} /\ \A n \in Names : objects'[n] = objects[n]
    BY <2>1 DEF Put
  <2>3. deleted = {}
    BY <2>1, <2>2 DEF Put, NoObject
  <2>4. objects' = objects /\ UNCHANGED <<exposures, passQueued>> /\ At("prune")
    BY <1>6, <1>t, <2>1, <2>3 DEF Put, Goto, Prune, PruneOf, Syncing, specVars, ExposureTypeOK
  <2>5. pass.exposures = exposures /\ Services \subseteq Kept /\ Services \subseteq Exposures
    BY <1>a, <2>2, <2>4 DEF Progress, At
  <2>6. Services \subseteq Proper
    BY <2>5 DEF Kept, Proper
  <2>7. \A n \in Names : objects[n].exists /\ objects[n].labelled => n \in Wanted(exposures)
    BY <1>a, <2>1, <2>2, <2>3, <2>4, <2>5
  <2>8. objects \in [Names -> Object]
    BY <1>t DEF ExposureTypeOK
  <2>9. AllAsAsked
    <3>1. \A s \in Services :
            /\ objects[Base(s)].exists
            /\ objects[Base(s)].labelled = (exposures[s].kind = "plain")
            /\ objects[NodePort(s)] =
                  IF exposures[s].kind = "ports" THEN WantedObject(exposures[s]) ELSE NoObject
      <4>1. \A n \in Names : objects[n] = objects[n]
             \/ (objects[n] = NoObject /\ objects[n].labelled /\ n \notin Wanted(exposures))
        OBVIOUS
      <4>2. \A n \in Names : objects[n].exists /\ objects[n].labelled
             => objects[n] = NoObject \/ n \in Wanted(exposures)
        BY <2>7
      <4> QED
        BY <1>t, <2>5, <2>6, <2>8, <4>1, <4>2, PrunedIsAsAsked
    <3> QED
      BY <3>1 DEF AllAsAsked, AsAsked
  <2>10. AllAsAsked'
    BY <2>4, <2>9 DEF AllAsAsked, AsAsked
  <2>11. pass'.pc = "record" /\ pass'.exposures = exposures'
    BY <1>t, <2>1, <2>4, <2>5 DEF Goto, PassType
  <2> QED
    BY <2>10, <2>11 DEF Progress, At
<1>7. CASE Record
  <2>1. At("record") /\ UNCHANGED <<exposures, passQueued, behind, objects>> /\ pass'.pc = "idle"
    BY <1>7, <1>t DEF Record, Goto, Requeue, NoWrite, PassType
  <2>2. AllAsAsked
    BY <1>a, <2>1 DEF Progress, At
  <2>3. AllAsAsked'
    BY <2>1, <2>2 DEF AllAsAsked, AsAsked
  <2> QED
    BY <2>1, <2>3 DEF Progress, At
<1>8. CASE Observe \/ Resync \/ EditExposure \/ Restart
  BY <1>8, <1>p DEF Observe, Resync, EditExposure, Restart, Requeue
<1>9. CASE UNCHANGED vars
  <2>1. UNCHANGED <<exposures, pass, objects, passQueued, behind>>
    BY <1>9 DEF vars
  <2> QED
    BY <1>a, <2>1, ProgressStays DEF At
<1> QED
  BY <1>1, <1>2, <1>3, <1>4, <1>5, <1>6, <1>7, <1>8, <1>9 DEF Next, Worker

\* A reconcile that ends with an error is in the queue again and has recorded nothing.
LEMMA RequeuedIsAlone ==
  ASSUME ExposureTypeOK, Requeue, ~Applied', SeenArePropers'
  PROVE  Alone'
<1>1. pass'.pc = "idle" /\ passQueued'
  BY DEF Requeue, ExposureTypeOK, PassType
<1> QED
  BY <1>1 DEF Alone, Progress, At

LEMMA AloneNext ==
  ASSUME ConstantsTyped, Inv, [Next]_vars
  PROVE  Alone'
<1> SUFFICES ASSUME ~protected', ~disturbed'
             PROVE  Alone'
  BY DEF Alone
<1>p. ~protected /\ ~disturbed
  <2>1. protected' = protected
    BY DEF Next, Worker, Take, SyncBase, BaseSynced, Expose, Exposed, Prune, PruneOf,
       Record, Observe, Resync, EditExposure, Restart, Syncing, vars
  <2>2. disturbed' = disturbed \/ Prune \/ EditExposure
    BY DEF Next, Worker, Take, SyncBase, BaseSynced, Expose, Exposed, Record, Observe,
       Resync, Restart, vars
  <2>3. ~disturbed
    BY <2>2 DEF Prune, PruneOf, EditExposure, Disturb
  <2> QED
    BY <2>1, <2>3
<1>t. ExposureTypeOK /\ pass \in PassType /\ NodePortsLabelled
  BY DEF Inv, ExposureTypeOK
<1>a. /\ SeenArePropers
      /\ Progress(Proper)
      /\ At("record") => BasesSeen
      /\ ~At("idle") => ~Applied
      /\ At("idle") /\ ~passQueued => Applied
      /\ At("idle") /\ Applied => AllAsAsked /\ BasesSeen
  BY <1>p DEF Inv, Alone
<1>1. CASE Take
  <2>1. UNCHANGED <<exposures, objects, cache, first, recorded>> /\ At("idle") /\ ~passQueued'
    BY <1>1 DEF Take, Syncing, specVars, NoWrite
  <2>2. SeenArePropers' /\ (BasesSeen => BasesSeen') /\ Applied' = Applied
    BY <1>a, <2>1 DEF SeenArePropers, Proper, BasesSeen, Applied
  <2>3. CASE Applied
    <3>1. UNCHANGED pass
      BY <1>1, <1>p, <2>3 DEF Take, Applied
    <3> QED
      BY <1>a, <2>1, <2>2, <2>3, <3>1, ProgressStays DEF Alone, At
  <2>4. CASE ~Applied
    <3>1. pass' = [pc |-> "base", exposures |-> exposures, todo |-> Services]
      BY <1>1, <2>4 DEF Take, Applied
    <3> QED
      BY <2>1, <2>2, <2>4, <3>1 DEF Alone, Progress, At
  <2> QED
    BY <2>3, <2>4
<1>2. CASE SyncBase
  <2>0. /\ UNCHANGED <<exposures, recorded, first>> /\ At("base") /\ ~Applied /\ ~Applied'
        /\ pass.exposures = exposures /\ Services \ pass.todo \subseteq Proper
    BY <1>2, <1>a, <1>t, SyncBaseStep DEF SyncBase, Applied, At, Progress
  <2>1. PICK s \in pass.todo :
          \/ NoWrite /\ cache[Base(s)].exists /\ ~cache[Base(s)].labelled /\ Done(s)
          \/ Put([objects EXCEPT ![Base(s)] = Manifest]) /\ Done(s)
          \/ /\ cache[Base(s)].labelled
             /\ Put([objects EXCEPT ![Base(s)] = NoObject]) /\ Requeue
          \/ NoWrite /\ Requeue
    BY <1>2, <1>t, SyncBaseStep
  <2>2. s \in Services /\ \A t \in Services : Base(t) \in Names /\ (Base(s) = Base(t) => s = t)
    BY <1>t, NamesDiffer DEF PassType
  <2>3. ASSUME Done(s), s \in Proper', Proper \subseteq Proper', UNCHANGED cache
        PROVE  Alone'
    <3>1. pass'.pc = "base" /\ pass'.exposures = exposures' /\ pass'.todo = pass.todo \ {s}
      BY <1>t, <2>0, <2>3 DEF Done, PassType, At
    <3>2. SeenArePropers'
      BY <1>a, <2>3 DEF SeenArePropers
    <3> QED
      BY <2>0, <2>3, <3>1, <3>2 DEF Alone, Progress, At
  <2>4. CASE NoWrite /\ cache[Base(s)].exists /\ ~cache[Base(s)].labelled /\ Done(s)
    <3>1. s \in Proper /\ Proper' = Proper
      BY <1>a, <2>0, <2>2, <2>4 DEF SeenArePropers, Proper, NoWrite
    <3> QED
      BY <2>3, <2>4, <3>1 DEF NoWrite
  <2>5. CASE Put([objects EXCEPT ![Base(s)] = Manifest]) /\ Done(s)
    <3>1. objects'[Base(s)] = Manifest /\ UNCHANGED cache
      BY <1>t, <2>2, <2>5, PutOne
    <3>2. \A t \in Services : t # s => objects'[Base(t)] = objects[Base(t)]
      BY <1>t, <2>2, <2>5, PutOne
    <3>3. s \in Proper'
      BY <2>2, <3>1 DEF Proper, Manifest
    <3>4. Proper \subseteq Proper'
      BY <2>0, <3>2, <3>3 DEF Proper
    <3> QED
      BY <2>3, <2>5, <3>1, <3>3, <3>4
  <2>6. CASE /\ cache[Base(s)].labelled
             /\ Put([objects EXCEPT ![Base(s)] = NoObject]) /\ Requeue
    <3>1. \A t \in Services : t # s => objects'[Base(t)] = objects[Base(t)]
      BY <1>t, <2>2, <2>6, PutOne
    <3>2. UNCHANGED cache
      BY <2>6 DEF Put
    <3>3. SeenArePropers'
      BY <1>a, <2>0, <2>6, <3>1, <3>2 DEF SeenArePropers, Proper
    <3> QED
      BY <1>t, <2>0, <2>6, <3>3, RequeuedIsAlone
  <2>7. CASE NoWrite /\ Requeue
    <3>1. SeenArePropers'
      BY <1>a, <2>0, <2>7 DEF SeenArePropers, Proper, NoWrite
    <3> QED
      BY <1>t, <2>0, <2>7, <3>1, RequeuedIsAlone
  <2> QED
    BY <2>1, <2>4, <2>5, <2>6, <2>7
<1>3. CASE BaseSynced
  <2>1. /\ UNCHANGED <<exposures, recorded, first, objects, cache>>
        /\ pass' = [pass EXCEPT !.pc = "expose",
                                    !.todo = {s \in Services : pass.exposures[s].kind # "none"}]
        /\ At("base") /\ pass.todo = {}
    BY <1>3 DEF BaseSynced, Goto, Syncing, specVars, NoWrite
  <2>2. pass.exposures = exposures /\ Services \subseteq Proper /\ ~Applied
    BY <1>a, <2>1 DEF Progress, At
  <2>3. /\ pass'.pc = "expose" /\ pass'.exposures = exposures
        /\ pass'.todo = {s \in Services : exposures[s].kind # "none"}
    BY <1>t, <2>1, <2>2 DEF PassType
  <2>4. /\ Services \subseteq Proper' /\ Services \ pass'.todo \subseteq Exposures'
        /\ SeenArePropers' /\ ~Applied'
    BY <1>a, <2>1, <2>2, <2>3 DEF Proper, Exposures, SeenArePropers, Applied
  <2> QED
    BY <2>1, <2>3, <2>4 DEF Alone, Progress, At
<1>4. CASE Expose
  <2>0. /\ UNCHANGED <<exposures, recorded, first>> /\ At("expose") /\ ~Applied /\ ~Applied'
        /\ pass.exposures = exposures
        /\ Services \subseteq Proper /\ Services \ pass.todo \subseteq Exposures
    BY <1>4, <1>a DEF Expose, Syncing, specVars, Applied, At, Progress
  <2>1. PICK s \in pass.todo :
          \/ /\ Put([objects EXCEPT ![WantedName(s, exposures[s])] = WantedObject(exposures[s])])
             /\ Done(s)
          \/ Requeue /\ NoWrite
    BY <1>4, <2>0 DEF Expose
  <2>2. s \in Services /\ \A t \in Services :
           /\ exposures[t] \in Exposure /\ WantedName(t, exposures[t]) \in Names
           /\ Base(t) \in Names
           /\ WantedName(t, exposures[t])
                 = IF exposures[t].kind = "plain" THEN Base(t) ELSE NodePort(t)
    BY <1>t, SpecOf, WantedOfName, NamesDiffer DEF PassType, ExposureTypeOK
  <2>3. CASE /\ Put([objects EXCEPT ![WantedName(s, exposures[s])] = WantedObject(exposures[s])])
             /\ Done(s)
    <3>1. /\ objects'[WantedName(s, exposures[s])] = WantedObject(exposures[s]) /\ UNCHANGED cache
          /\ \A n \in Names \ {WantedName(s, exposures[s])} : objects'[n] = objects[n]
      BY <1>t, <2>2, <2>3, PutOne
    <3>2. Services \subseteq Proper'
      <4> SUFFICES ASSUME NEW t \in Services PROVE t \in Proper'
        OBVIOUS
      <4>1. CASE Base(t) = WantedName(s, exposures[s])
        <5>1. exposures[t].kind = "plain"
          BY <2>2, <4>1, NamesDiffer
        <5>2. objects'[Base(t)].exists
          BY <3>1, <4>1 DEF WantedObject
        <5> QED
          BY <2>0, <5>1, <5>2 DEF Proper
      <4>2. CASE Base(t) # WantedName(s, exposures[s])
        <5>1. objects'[Base(t)] = objects[Base(t)] /\ t \in Proper
          BY <2>0, <2>2, <3>1, <4>2
        <5> QED
          BY <2>0, <5>1 DEF Proper
      <4> QED
        BY <4>1, <4>2
    <3>3. Services \ (pass.todo \ {s}) \subseteq Exposures'
      <4> SUFFICES ASSUME NEW t \in Services, t \notin pass.todo \ {s} PROVE t \in Exposures'
        OBVIOUS
      <4>1. CASE t = s
        BY <2>0, <2>2, <3>1, <4>1 DEF Exposures, WantedName
      <4>2. CASE t # s
        <5>1. t \in Exposures /\ WantedName(t, exposures[t]) # WantedName(s, exposures[s])
          BY <2>0, <2>2, <4>2, NamesDiffer
        <5>2. objects'[WantedName(t, exposures[t])] = objects[WantedName(t, exposures[t])]
          BY <2>2, <3>1, <5>1
        <5> QED
          BY <2>0, <5>1, <5>2 DEF Exposures
      <4> QED
        BY <4>1, <4>2
    <3>4. pass'.pc = "expose" /\ pass'.exposures = exposures' /\ pass'.todo = pass.todo \ {s}
      BY <1>t, <2>0, <2>3 DEF Done, PassType, At
    <3>5. SeenArePropers'
      BY <3>2 DEF SeenArePropers
    <3> QED
      BY <2>0, <3>2, <3>3, <3>4, <3>5 DEF Alone, Progress, At
  <2>4. CASE Requeue /\ NoWrite
    <3>1. SeenArePropers'
      BY <1>a, <2>0, <2>4 DEF SeenArePropers, Proper, NoWrite
    <3> QED
      BY <1>t, <2>0, <2>4, <3>1, RequeuedIsAlone
  <2> QED
    BY <2>1, <2>3, <2>4
<1>5. CASE Exposed
  <2>1. /\ UNCHANGED <<exposures, recorded, first, objects, cache>>
        /\ pass' = [pass EXCEPT !.pc = "prune", !.todo = {}]
        /\ At("expose") /\ pass.todo = {}
    BY <1>5 DEF Exposed, Goto, Syncing, specVars, NoWrite
  <2>2. /\ pass.exposures = exposures /\ Services \subseteq Proper
        /\ Services \subseteq Exposures /\ ~Applied
    BY <1>a, <2>1 DEF Progress, At
  <2>3. pass'.pc = "prune" /\ pass'.exposures = exposures
    BY <1>t, <2>1, <2>2 DEF PassType
  <2>4. Proper' = Proper /\ Exposures' = Exposures /\ SeenArePropers' /\ ~Applied'
    BY <1>a, <2>1, <2>2 DEF Proper, Exposures, SeenArePropers, Applied
  <2> QED
    BY <2>1, <2>2, <2>3, <2>4 DEF Alone, Progress, At
<1>6. CASE Prune
  <2>0. /\ UNCHANGED <<exposures, recorded, first, cache>> /\ At("prune") /\ ~Applied /\ ~Applied'
        /\ pass.exposures = exposures
        /\ Services \subseteq Proper /\ Services \subseteq Exposures
    <3>1. UNCHANGED <<exposures, recorded, first, cache>>
      BY <1>6, <1>t, PruneStep
    <3>2. At("prune")
      BY <1>6 DEF Prune, PruneOf
    <3> QED
      BY <1>a, <3>1, <3>2 DEF Applied, At, Progress
  <2>1. PICK deleted \in SUBSET Names :
          /\ \A n \in deleted : /\ objects[n].exists
                                /\ cache[n].exists /\ cache[n].labelled
                                /\ n \notin Wanted(exposures)
          /\ Put([n \in Names |-> IF n \in deleted THEN NoObject ELSE objects[n]])
          /\ \/ /\ Goto("record", {})
                /\ \A n \in Names : cache[n].exists /\ cache[n].labelled =>
                      n \in deleted \/ n \in Wanted(exposures)
             \/ Requeue
    BY <1>6, <1>t, <2>0, PruneStep
  <2>2. \A n \in Names : cache[n] = objects[n]
    BY <1>6, <1>t, PruneStep DEF ExposureTypeOK
  <2>3. \A n \in Names : objects'[n] = IF n \in deleted THEN NoObject ELSE objects[n]
    BY <2>1 DEF Put
  <2>4. \A s \in Services : objects'[Base(s)] = objects[Base(s)]
    <3> TAKE s \in Services
    <3>1. Base(s) \in Names /\ exposures[s] \in Exposure
      BY <1>t, SpecOf, NamesDiffer DEF ExposureTypeOK
    <3>2. exposures[s].kind = "plain" => Base(s) \in Wanted(exposures)
      BY <3>1, WantedOfName DEF Wanted
    <3>3. objects[Base(s)].labelled => exposures[s].kind = "plain"
      BY <2>0 DEF Proper
    <3> QED
      BY <2>1, <2>2, <2>3, <3>1, <3>2, <3>3
  <2>5. SeenArePropers'
    BY <1>a, <2>0, <2>4 DEF SeenArePropers, Proper
  <2>6. CASE Requeue
    BY <1>t, <2>0, <2>5, <2>6, RequeuedIsAlone
  <2>7. CASE ~Requeue
    <3>1. Goto("record", {})
          /\ \A n \in Names : objects[n].exists /\ objects[n].labelled =>
                n \in deleted \/ n \in Wanted(exposures)
      BY <2>1, <2>2, <2>7
    <3>2. pass'.pc = "record" /\ pass'.exposures = exposures'
      BY <1>t, <2>0, <3>1 DEF Goto, PassType
    <3>3. objects' \in [Names -> Object]
      BY <1>t, <2>1 DEF Put, ExposureTypeOK, NoObject, Object
    <3>4. \A n \in Names : objects'[n] = objects[n]
             \/ (objects'[n] = NoObject /\ objects[n].labelled /\ n \notin Wanted(exposures))
      BY <2>1, <2>2, <2>3
    <3>5. \A n \in Names : objects[n].exists /\ objects[n].labelled
             => objects'[n] = NoObject \/ n \in Wanted(exposures)
      BY <2>3, <3>1
    <3>6. \A s \in Services :
            /\ objects'[Base(s)].exists
            /\ objects'[Base(s)].labelled = (exposures[s].kind = "plain")
            /\ objects'[NodePort(s)] =
                  IF exposures[s].kind = "ports" THEN WantedObject(exposures[s]) ELSE NoObject
      BY <1>t, <2>0, <3>3, <3>4, <3>5, PrunedIsAsAsked
    <3>7. AllAsAsked'
      BY <2>0, <3>6 DEF AllAsAsked, AsAsked
    <3>8. BasesSeen'
      BY <2>0, <2>2, <2>4, NamesDiffer DEF BasesSeen
    <3> QED
      BY <2>0, <2>5, <3>2, <3>7, <3>8 DEF Alone, Progress, At
  <2> QED
    BY <2>6, <2>7
<1>7. CASE Record
  <2>1. /\ At("record") /\ UNCHANGED <<exposures, objects, cache>> /\ pass'.pc = "idle"
    BY <1>7, <1>t DEF Record, Goto, Requeue, NoWrite, PassType
  <2>2. AllAsAsked /\ BasesSeen /\ ~Applied
    BY <1>a, <2>1 DEF Progress, At
  <2>3. AllAsAsked' /\ BasesSeen' /\ SeenArePropers'
    BY <1>a, <2>1, <2>2 DEF AllAsAsked, AsAsked, BasesSeen, SeenArePropers, Proper
  <2>4. Applied' \/ passQueued'
    BY <1>7, <2>1 DEF Record, Applied, Requeue
  <2> QED
    BY <2>1, <2>3, <2>4 DEF Alone, Progress, At
<1>8. CASE Observe
  <2>1. /\ UNCHANGED <<exposures, recorded, first, pass, objects>> /\ cache' = objects
        /\ passQueued' = passQueued
    BY <1>8, <1>t, <1>p DEF Observe, Syncing, specVars, ExposureTypeOK
  <2>2. BasesSeen' /\ SeenArePropers' /\ Applied' = Applied
    BY <2>1 DEF BasesSeen, SeenArePropers, Proper, Applied
  <2> QED
    BY <1>a, <2>1, <2>2, ProgressStays DEF Alone, At
<1>9. CASE Resync \/ UNCHANGED vars
  <2>1. /\ UNCHANGED <<exposures, recorded, first, pass, objects, cache>>
        /\ (passQueued' \/ passQueued' = passQueued)
    BY <1>9 DEF Resync, Syncing, specVars, NoWrite, vars
  <2>2. /\ SeenArePropers' /\ Applied' = Applied /\ BasesSeen' = BasesSeen
    BY <1>a, <2>1 DEF BasesSeen, SeenArePropers, Proper, Applied
  <2> QED
    BY <1>a, <2>1, <2>2, ProgressStays DEF Alone, At
\* The spec is edited when it has been applied, and is another one then.
<1>10. CASE EditExposure
  <2>1. /\ UNCHANGED <<recorded, first, pass, objects, cache>> /\ At("idle") /\ ~passQueued
        /\ exposures' # exposures /\ passQueued'
    BY <1>10 DEF EditExposure, NoWrite, Disturb
  <2>2. Applied /\ BasesSeen /\ ~Applied'
    BY <1>a, <2>1 DEF Applied
  <2>3. SeenArePropers'
    BY <2>1, <2>2 DEF BasesSeen, SeenArePropers, Proper
  <2> QED
    BY <2>1, <2>2, <2>3 DEF Alone, Progress, At
<1>11. CASE Restart
  <2>1. Requeue /\ cache' = objects /\ UNCHANGED <<exposures, objects>> /\ ~Applied'
    BY <1>11 DEF Restart, specVars, Applied
  <2>2. SeenArePropers'
    BY <2>1 DEF SeenArePropers, Proper
  <2> QED
    BY <1>t, <2>1, <2>2, RequeuedIsAlone
<1> QED
  BY <1>1, <1>2, <1>3, <1>4, <1>5, <1>6, <1>7, <1>8, <1>9, <1>10, <1>11 DEF Next, Worker

THEOREM ExposureInvariant == ASSUME ConstantsTyped PROVE Spec => []Inv
<1>1. Init => Inv
  BY InvInit
<1>2. Inv /\ [Next]_vars => Inv'
  BY TypeNext, NodePortsLabelledNext, WatchfulNext, AloneNext DEF Inv
<1> QED
  BY <1>1, <1>2, PTL DEF Spec

\* When the operator has come to rest, every exposure is as the spec asks: whatever
\* failed, was read too early or was undone by a restart on the way.
THEOREM RestIsExposed == ASSUME ConstantsTyped PROVE Spec => []RestMeansExposed
<1>1. Inv => RestMeansExposed
  <2> SUFFICES ASSUME Inv, At("idle"), ~passQueued, behind = {}, Undisturbed
               PROVE  AllAsAsked
    BY DEF RestMeansExposed, At
  <2>1. CASE protected
    BY <2>1 DEF Inv, Watchful
  <2>2. CASE ~protected
    BY <2>2 DEF Inv, Alone, Undisturbed
  <2> QED
    BY <2>1, <2>2
<1> QED
  BY <1>1, ExposureInvariant, PTL
=============================================================================
