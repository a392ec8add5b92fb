-------------------------- MODULE OperandSyncProofs --------------------------
(***************************************************************************)
(* Proofs about OperandSync, for every set of operands, components and     *)
(* lists of them, and every bound.                                         *)
(***************************************************************************)
EXTENDS OperandSync, WellFoundedInduction, TLAPS

(* The order of the work *)

\* A set of numbers has a least element.
LEMMA LeastElement ==
  ASSUME NEW T \in SUBSET Nat, T # {}
  PROVE  \E x \in T : \A y \in T : x <= y
<1> DEFINE R == OpToRel(<, Nat)
<1>1. IsWellFoundedOn(R, Nat)
  BY NatLessThanWellFounded
<1>2. \A x, y \in Nat : x < y => <<x, y>> \in R
  BY DEF OpToRel
<1> HIDE DEF R
<1>3. PICK x \in T : \A y \in T : ~ (<<y, x>> \in R)
  BY <1>1, WFMin
<1>4. ASSUME NEW y \in T PROVE x <= y
  <2>1. x \in Nat /\ y \in Nat
    OBVIOUS
  <2>2. ~ (y < x)
    BY <1>2, <1>3, <1>4, <2>1
  <2> QED
    BY <2>1, <2>2
<1> QED
  BY <1>4

\* Of some elements one has the least rank.
LEMMA LeastRank ==
  ASSUME NEW S, S # {}, NEW rank \in [S -> Nat]
  PROVE  \E x \in S : \A y \in S : rank[x] <= rank[y]
<1> DEFINE T == {rank[x] : x \in S}
<1>1. T \in SUBSET Nat /\ T # {}
  OBVIOUS
<1>2. PICK n \in T : \A m \in T : n <= m
  BY <1>1, LeastElement
<1> QED
  BY <1>2

\* Each kind has a place of its own in the order of the syncs; what mounts a
\* ConfigMap is synced after it.
LEMMA SyncPlaces ==
  /\ \A k \in Kinds : SyncPlace[k] \in Nat
  /\ \A k, l \in Kinds : SyncPlace[k] = SyncPlace[l] => k = l
  /\ {"ConfigMap", "Deployment", "StatefulSet"} \subseteq Kinds
  /\ SyncPlace["ConfigMap"] < SyncPlace["Deployment"]
  /\ SyncPlace["ConfigMap"] < SyncPlace["StatefulSet"]
<1>1. DOMAIN SyncOrder = 1 .. 18
  BY DEF SyncOrder
<1>2. \A k \in Kinds : SyncPlace[k] \in 1 .. 18 /\ SyncOrder[SyncPlace[k]] = k
  BY <1>1 DEF Kinds, SyncPlace
<1>3. /\ SyncOrder[10] = "ConfigMap" /\ SyncOrder[12] = "Deployment"
      /\ SyncOrder[13] = "StatefulSet"
  BY DEF SyncOrder
<1>4. /\ \A i \in 1 .. 18 : SyncOrder[i] = "ConfigMap" => i = 10
      /\ \A i \in 1 .. 18 : SyncOrder[i] = "Deployment" => i = 12
      /\ \A i \in 1 .. 18 : SyncOrder[i] = "StatefulSet" => i = 13
  BY DEF SyncOrder
<1>5. {"ConfigMap", "Deployment", "StatefulSet"} \subseteq Kinds
  BY <1>1, <1>3 DEF Kinds
<1> QED
  BY <1>2, <1>4, <1>5

\* The same of the order of the uninstalls, which is the other way round.
LEMMA UninstallPlaces ==
  /\ \A k \in UninstallKinds : UninstallPlace[k] \in Nat
  /\ \A k, l \in UninstallKinds : UninstallPlace[k] = UninstallPlace[l] => k = l
  /\ {"ConfigMap", "Deployment", "StatefulSet"} \union Replaced \subseteq UninstallKinds
  /\ UninstallPlace["Deployment"] < UninstallPlace["ConfigMap"]
  /\ UninstallPlace["StatefulSet"] < UninstallPlace["ConfigMap"]
<1>1. DOMAIN UninstallOrder = 1 .. 13
  BY DEF UninstallOrder
<1>2. \A k \in UninstallKinds :
         UninstallPlace[k] \in 1 .. 13 /\ UninstallOrder[UninstallPlace[k]] = k
  BY <1>1 DEF UninstallKinds, UninstallPlace
<1>3. /\ UninstallOrder[6] = "ConfigMap" /\ UninstallOrder[4] = "Deployment"
      /\ UninstallOrder[1] = "StatefulSet" /\ UninstallOrder[5] = "Service"
      /\ UninstallOrder[12] = "DaemonSet"
  BY DEF UninstallOrder
<1>4. /\ \A i \in 1 .. 13 : UninstallOrder[i] = "ConfigMap" => i = 6
      /\ \A i \in 1 .. 13 : UninstallOrder[i] = "Deployment" => i = 4
      /\ \A i \in 1 .. 13 : UninstallOrder[i] = "StatefulSet" => i = 1
  BY DEF UninstallOrder
<1>5. {"ConfigMap", "Deployment", "StatefulSet"} \union Replaced \subseteq UninstallKinds
  BY <1>1, <1>3 DEF UninstallKinds, Replaced
<1> QED
  BY <1>2, <1>4, <1>5

\* Of the operands to sync one comes before all others.
LEMMA EarliestIs ==
  ASSUME NEW todo \in SUBSET Operands, todo # {}
  PROVE  /\ Earliest(todo) \in todo
         /\ \A p \in todo \ {Earliest(todo)} : SyncedBefore(Earliest(todo), p)
<1> USE ConstantsAssumption
<1> DEFINE place == [o \in todo |-> SyncPlace[Kind[o]]]
<1>1. place \in [todo -> Nat]
  BY SyncPlaces
<1>2. PICK o1 \in todo : \A p \in todo : place[o1] <= place[p]
  BY <1>1, LeastRank
<1> DEFINE S == {o \in todo : Kind[o] = Kind[o1]}
           listed == [o \in S |-> Listed[o]]
<1>3. S # {} /\ listed \in [S -> Nat]
  OBVIOUS
<1>4. PICK o \in S : \A p \in S : listed[o] <= listed[p]
  BY <1>3, LeastRank
<1>5. ASSUME NEW p \in todo \ {o} PROVE SyncedBefore(o, p)
  <2>1. SyncPlace[Kind[o]] <= SyncPlace[Kind[p]]
    BY <1>2, <1>4
  <2>2. SyncPlace[Kind[o]] \in Nat /\ SyncPlace[Kind[p]] \in Nat
    BY SyncPlaces
  <2>3. CASE Kind[p] = Kind[o]
    <3>1. Listed[o] <= Listed[p] /\ Listed[o] # Listed[p]
      BY <1>4, <2>3
    <3>2. Listed[o] \in Nat /\ Listed[p] \in Nat
      OBVIOUS
    <3> QED
      BY <2>3, <3>1, <3>2 DEF SyncedBefore
  <2>4. CASE Kind[p] # Kind[o]
    <3>1. SyncPlace[Kind[o]] # SyncPlace[Kind[p]]
      BY <2>4, SyncPlaces
    <3> QED
      BY <2>1, <2>2, <3>1 DEF SyncedBefore
  <2> QED
    BY <2>3, <2>4
<1>6. o \in todo
  BY <1>4
<1> QED
  BY <1>5, <1>6 DEF Earliest

\* A ConfigMap that is still to be synced is synced before what mounts it.
LEMMA ConfigMapFirst ==
  ASSUME NEW todo \in SUBSET Operands, todo # {}, Mounts[Earliest(todo)] # NoOperand
  PROVE  Mounts[Earliest(todo)] \notin todo
<1> DEFINE o == Earliest(todo)
           m == Mounts[o]
<1> SUFFICES ASSUME m \in todo PROVE FALSE
  OBVIOUS
<1>1. o \in Operands /\ \A p \in todo \ {o} : SyncedBefore(o, p)
  BY EarliestIs
<1> HIDE DEF o
<1>2. Kind[o] \in {"Deployment", "StatefulSet"} /\ Kind[m] = "ConfigMap"
  BY <1>1, ConstantsAssumption
<1>3. SyncedBefore(o, m)
  BY <1>1, <1>2
<1>4. SyncPlace[Kind[m]] < SyncPlace[Kind[o]]
  BY <1>2, SyncPlaces
<1>5. SyncPlace[Kind[m]] \in Nat /\ SyncPlace[Kind[o]] \in Nat
  BY <1>2, SyncPlaces
<1> QED
  BY <1>3, <1>4, <1>5 DEF SyncedBefore

\* Of what is to be removed one comes before all others.
LEMMA NextRemovalIs ==
  ASSUME worker.drop \in SUBSET (Switches \X Operands), worker.drop # {},
         \A p \in worker.drop : Kind[p[2]] \in UninstallKinds
  PROVE  /\ NextRemoval \in worker.drop
         /\ \A q \in worker.drop \ {NextRemoval} : UninstalledBefore(NextRemoval, q)
<1>0. \A p \in worker.drop :
         p[1] \in Switches /\ p[2] \in Operands /\ p = <<p[1], p[2]>>
  OBVIOUS
<1> DEFINE D == worker.drop
           rank == [p \in D |-> SwitchRank[p[1]]]
<1>1. D # {} /\ rank \in [D -> Nat]
  BY <1>0, ConstantsAssumption
<1>2. PICK p1 \in D : \A q \in D : rank[p1] <= rank[q]
  BY <1>1, LeastRank
<1> DEFINE S == {p \in D : p[1] = p1[1]}
           place == [p \in S |-> UninstallPlace[Kind[p[2]]]]
<1>3. S # {} /\ place \in [S -> Nat]
  BY UninstallPlaces
<1>4. PICK p2 \in S : \A q \in S : place[p2] <= place[q]
  BY <1>3, LeastRank
<1> DEFINE K == {p \in S : Kind[p[2]] = Kind[p2[2]]}
           listed == [p \in K |-> Listed[p[2]]]
<1>5. K # {} /\ listed \in [K -> Nat]
  BY <1>0, ConstantsAssumption
<1>6. PICK p \in K : \A q \in K : listed[p] <= listed[q]
  BY <1>5, LeastRank
<1>7. ASSUME NEW q \in D \ {p} PROVE UninstalledBefore(p, q)
  <2>1. p[1] \in Switches /\ q[1] \in Switches /\ p[2] \in Operands /\ q[2] \in Operands
    BY <1>6
  <2>2. SwitchRank[p[1]] <= SwitchRank[q[1]]
    BY <1>2, <1>6
  <2>3. /\ SwitchRank[p[1]] \in Nat /\ SwitchRank[q[1]] \in Nat
        /\ Listed[p[2]] \in Nat /\ Listed[q[2]] \in Nat
    BY <2>1, ConstantsAssumption
  <2>4. UninstallPlace[Kind[p[2]]] \in Nat /\ UninstallPlace[Kind[q[2]]] \in Nat
    BY <1>6, UninstallPlaces
  <2>5. CASE q[1] # p[1]
    BY <2>1, <2>2, <2>3, <2>5, ConstantsAssumption DEF UninstalledBefore
  <2>6. CASE q[1] = p[1] /\ Kind[q[2]] # Kind[p[2]]
    <3>1. UninstallPlace[Kind[p[2]]] <= UninstallPlace[Kind[q[2]]]
      BY <1>4, <1>6, <2>6
    <3>2. UninstallPlace[Kind[p[2]]] # UninstallPlace[Kind[q[2]]]
      BY <1>6, <2>6, UninstallPlaces
    <3> QED
      BY <2>4, <2>6, <3>1, <3>2 DEF UninstalledBefore
  <2>7. CASE q[1] = p[1] /\ Kind[q[2]] = Kind[p[2]]
    <3>1. Listed[p[2]] <= Listed[q[2]]
      BY <1>6, <2>7
    <3>2. p = <<p[1], p[2]>> /\ q = <<q[1], q[2]>>
      BY <1>0, <1>6
    <3>3. p[2] # q[2]
      BY <2>7, <3>2
    <3>4. Listed[p[2]] # Listed[q[2]]
      BY <2>1, <2>7, <3>3, ConstantsAssumption
    <3> QED
      BY <2>3, <2>7, <3>1, <3>4 DEF UninstalledBefore
  <2> QED
    BY <2>5, <2>6, <2>7
<1>8. p \in D
  BY <1>6
<1> QED
  BY <1>7, <1>8 DEF NextRemoval

(* Type correctness.  What is being refreshed or replaced is what the sync has  *)
(* come to, and only kinds that are uninstalled are on the list to uninstall.   *)

AtWork ==
    /\ At("refresh") \/ At("replace") => worker.todo # {}
    /\ At("refresh") => Refreshes[NextOperand] # NoOperand
    /\ At("replace") => Kind[NextOperand] \in Replaced
    /\ \A p \in worker.drop : Kind[p[2]] \in UninstallKinds
TypeInv == TypeOK /\ AtWork

\* What a write of an operand does to what is there, to the cache and to the queue.
Wrote(x, v) ==
    /\ objects' = [objects EXCEPT ![x] = v]
    /\ objects' \in [Operands -> ObjectType \union {Absent}]
    /\ cache' \in [Operands -> ObjectType \union {Absent}]
    /\ behind' \subseteq Lagging
    /\ behind' \subseteq behind \union {x}
    /\ objects[x] = v => behind' = behind
    /\ \A p \in Operands \ behind' : cache'[p] = objects'[p]
    /\ \A p \in behind' : cache'[p] = cache[p]
    /\ queued' \in BOOLEAN /\ (queued => queued')

LEMMA PutWrites ==
  ASSUME TypeOK, NEW x \in Operands, NEW v \in ObjectType \union {Absent}, Put(x, v)
  PROVE  Wrote(x, v)
<1> USE DEF TypeOK, CachesAgree
<1>1. CASE objects[x] = v /\ UNCHANGED <<objectVars, queued>>
  <2>1. objects' = objects /\ cache' = cache /\ behind' = behind /\ queued' = queued
    BY <1>1 DEF objectVars
  <2>2. objects = [objects EXCEPT ![x] = v]
    BY <1>1
  <2> QED
    BY <1>1, <2>1, <2>2 DEF Wrote
<1>2. CASE objects[x] # v
  <2>1. objects' = [objects EXCEPT ![x] = v]
    BY <1>2 DEF Put
  <2>2. CASE x \in Lagging /\ behind' = behind \union {x} /\ UNCHANGED <<cache, queued>>
    BY <1>2, <2>1, <2>2 DEF Wrote
  <2>3. CASE /\ x \notin Lagging /\ cache' = [cache EXCEPT ![x] = v]
             /\ queued' = (queued \/ Watched(x)) /\ UNCHANGED behind
    <3>1. \A p \in Operands \ behind : cache'[p] = objects'[p]
      BY <2>1, <2>3
    <3>2. queued' \in BOOLEAN /\ (queued => queued')
      BY <2>3
    <3> QED
      BY <1>2, <2>1, <2>3, <3>1, <3>2 DEF Wrote
  <2> QED
    BY <1>2, <2>2, <2>3 DEF Put
<1> QED
  BY <1>1, <1>2 DEF Put

\* What an operand is to look like is something it can look like.
LEMMA DesiredTyped ==
  ASSUME TypeInv, NEW o \in Operands, ~MountMissing(o)
  PROVE  Desired(o) \in ObjectType /\ Desired(o) # Absent
<1>1. worker.spec.rev \in Nat /\ release \in Nat
  BY DEF TypeInv, TypeOK, WorkerType, SpecType
<1>2. (IF Mounts[o] = NoOperand THEN 0 ELSE cache[Mounts[o]].rev) \in Nat
  <2>1. CASE Mounts[o] # NoOperand
    <3>1. cache[Mounts[o]] \in ObjectType
      BY <2>1, ConstantsAssumption DEF TypeInv, TypeOK, MountMissing, Seen
    <3> QED
      BY <2>1, <3>1 DEF ObjectType
  <2> QED
    BY <2>1
<1> QED
  BY <1>1, <1>2 DEF Desired, Made, ObjectType, Absent

\* What is overlooked stays as it was found, everything else is as wanted; what is
\* mounted, and what mounts it, has nothing that is overlooked.
LEMMA KeptIs ==
  ASSUME NEW o \in Operands, NEW found, NEW wanted \in ObjectType
  PROVE  /\ Kept(o, wanted, wanted) = wanted
         /\ Kept(o, Kept(o, found, wanted), wanted) = Kept(o, found, wanted)
         /\ Kept(o, found, wanted).rev = wanted.rev
         /\ Kept(o, found, wanted).release \in {found.release, wanted.release}
         /\ found \in ObjectType => Kept(o, found, wanted) \in ObjectType
         /\ o \notin Overlooked => Kept(o, found, wanted) = wanted
         /\ Mounts[o] # NoOperand \/ Kind[o] = "ConfigMap" => o \notin Overlooked
<1>1. Mounts[o] # NoOperand \/ Kind[o] = "ConfigMap" => o \notin Overlooked
  BY ConstantsAssumption
<1>2. CASE o \in Overlooked
  <2> DEFINE k == [wanted EXCEPT !.release = found.release]
  <2>1. Kept(o, found, wanted) = k /\ Kept(o, wanted, wanted) = wanted
    BY <1>2 DEF Kept, ObjectType
  <2>2. k.release = found.release /\ k.rev = wanted.rev
    BY DEF ObjectType
  <2>3. [wanted EXCEPT !.release = k.release] = k
    BY <2>2
  <2>4. found \in ObjectType => k \in ObjectType
    BY DEF ObjectType
  <2> QED
    BY <1>1, <1>2, <2>1, <2>2, <2>3, <2>4 DEF Kept
<1>3. CASE o \notin Overlooked
  BY <1>1, <1>3 DEF Kept
<1> QED
  BY <1>2, <1>3

(* What a step of a sync comes to, for the operand it has come to *)

Stops == Requeue /\ ~At("idle")
\* The operand is there and is left as it is.
Keeps(o) ==
    /\ At("sync") /\ NoWrite /\ Advance(o)
    /\ \/ Kind[o] \in CreatedUnseen /\ Exists(o)
       \/ Seen(o) /\ (Kind[o] \in CreatedOnce \/ ~MisMatch(o))
\* It is written as it should be, but for what is overlooked of the copy found.
WrittenAs(o, v) ==
    \/ v = Desired(o) /\ (At("sync") => o \notin Overlooked \/ ~Exists(o))
    \/ v = Kept(o, cache[o], Desired(o)) /\ Seen(o) /\ o \notin behind
Installs(o) ==
    /\ At("sync") \/ At("replace")
    /\ ~MountMissing(o) /\ Desired(o) \in ObjectType
    /\ \E v \in ObjectType : Wrote(o, v) /\ WrittenAs(o, v)
    /\ Kind[o] \in CreatedUnseen \union CreatedOnce => ~Exists(o)
    /\ \/ Advance(o)
       \/ /\ Refreshes[o] # NoOperand /\ o \notin behind /\ Seen(o)
          /\ Kind[o] = "ConfigMap" => MisMatch(o)
          /\ Goto("refresh")
\* It is deleted to be replaced.
Deletes(o) ==
    /\ At("sync") /\ Seen(o) /\ MisMatch(o) /\ Kind[o] \in Replaced
    /\ Wrote(o, Absent) /\ Goto("replace")
\* The Deployment is deleted.
DeletesRefreshed(o) ==
    /\ At("refresh") /\ Advance(o) /\ Refreshes[o] \in Operands
    /\ Wrote(Refreshes[o], Absent) \/ NoWrite

SyncOutcome(o) ==
    /\ o \in worker.todo /\ o \in Operands
    /\ Stops \/ Keeps(o) \/ Installs(o) \/ Deletes(o) \/ DeletesRefreshed(o)
    /\ events' \in 0 .. MaxEvents
    /\ UNCHANGED <<serviceVars, first>>
    /\ disturbed' = (disturbed \/ ReadsStale(o))

LEMMA SyncSteps ==
  ASSUME TypeInv, SyncOperand
  PROVE  SyncOutcome(NextOperand)
<1> DEFINE o == NextOperand
<1>0. o \in worker.todo /\ o \in Operands
  BY EarliestIs DEF NextOperand, TypeInv, TypeOK, WorkerType, SyncOperand
<1>1. Absent \in ObjectType \union {Absent}
  OBVIOUS
<1>2. ASSUME ~MountMissing(o), Put(o, Desired(o))
      PROVE  Wrote(o, Desired(o)) /\ Desired(o) \in ObjectType
  BY <1>0, <1>2, DesiredTyped, PutWrites DEF TypeInv
<1>a. ASSUME ~MountMissing(o), Put(o, Desired(o)), At("sync") => o \notin Overlooked \/ ~Exists(o)
      PROVE  Desired(o) \in ObjectType /\ \E v \in ObjectType : Wrote(o, v) /\ WrittenAs(o, v)
  BY <1>a, <1>2 DEF WrittenAs
<1>b. ASSUME ~MountMissing(o), Put(o, Kept(o, cache[o], Desired(o))), Seen(o), o \notin behind
      PROVE  Desired(o) \in ObjectType /\ \E v \in ObjectType : Wrote(o, v) /\ WrittenAs(o, v)
  <2>1. cache[o] \in ObjectType /\ Desired(o) \in ObjectType
    BY <1>0, <1>b, DesiredTyped DEF Seen, TypeInv, TypeOK
  <2>2. Kept(o, cache[o], Desired(o)) \in ObjectType
    BY <1>0, <2>1, KeptIs
  <2>3. Wrote(o, Kept(o, cache[o], Desired(o)))
    BY <1>0, <1>b, <2>2, PutWrites DEF TypeInv
  <2> QED
    BY <1>b, <2>1, <2>2, <2>3 DEF WrittenAs
<1>3. Kind[o] \in CreatedUnseen \union CreatedOnce \union Replaced => ~MountMissing(o)
  BY <1>0, ConstantsAssumption DEF MountMissing, CreatedUnseen, CreatedOnce, Replaced
<1>4. /\ \/ /\ At("sync")
            /\ \/ CreateUnseen(o) \/ AwaitConfigMap(o) \/ CreateMissing(o)
               \/ KeepSeen(o) \/ UpdateFound(o) \/ Overwrite(o)
               \/ DeleteToReplace(o) \/ FailSync
         \/ At("refresh") /\ DeleteRefreshed(o)
         \/ At("replace") /\ (CreateReplacement(o) \/ FailSync)
      /\ disturbed' = (disturbed \/ ReadsStale(o))
      /\ UNCHANGED <<serviceVars, first>>
  BY DEF SyncOperand, Disturb, o
<1> HIDE DEF o
<1> DEFINE Some == Stops \/ Keeps(o) \/ Installs(o) \/ Deletes(o) \/ DeletesRefreshed(o)
<1> SUFFICES Some /\ events' \in 0 .. MaxEvents
  BY <1>0, <1>4 DEF SyncOutcome, o
<1>5. ASSUME Succeeds \/ Fails("sync") PROVE events' \in 0 .. MaxEvents
  BY <1>5, ConstantsAssumption DEF Succeeds, Fails, Count, TypeInv, TypeOK
<1>6. CASE At("sync") /\ CreateUnseen(o)
  <2>1. ~MountMissing(o) /\ Kind[o] \in CreatedUnseen /\ Advance(o) /\ Succeeds
    BY <1>3, <1>6 DEF CreateUnseen
  <2>2. CASE Exists(o)
    BY <1>5, <1>6, <2>1, <2>2 DEF CreateUnseen, Keeps
  <2>3. CASE ~Exists(o)
    BY <1>a, <1>5, <1>6, <2>1, <2>3 DEF CreateUnseen, Installs
  <2> QED
    BY <2>2, <2>3
<1>7. CASE At("sync") /\ AwaitConfigMap(o)
  BY <1>5, <1>7 DEF AwaitConfigMap, Stops, At
<1>8. CASE At("sync") /\ CreateMissing(o)
  <2>1. CASE Exists(o)
    BY <1>5, <1>8, <2>1 DEF CreateMissing, Stops, At
  <2>2. CASE ~Exists(o)
    BY <1>a, <1>5, <1>8, <2>2 DEF CreateMissing, Installs
  <2> QED
    BY <2>1, <2>2
<1>9. CASE At("sync") /\ KeepSeen(o)
  BY <1>5, <1>9 DEF KeepSeen, Keeps
<1>10. CASE At("sync") /\ UpdateFound(o)
  <2>1. CASE o \in behind
    BY <1>5, <1>10, <2>1 DEF UpdateFound, Stops, At
  <2>2. CASE o \notin behind
    <3>1. /\ Kind[o] \notin CreatedUnseen \union CreatedOnce
          /\ Kind[o] = "ConfigMap" => MisMatch(o)
      BY <1>10 DEF UpdateFound, Rewritten, Compared, CreatedUnseen, CreatedOnce
    <3> QED
      BY <1>b, <1>5, <1>10, <2>2, <3>1 DEF UpdateFound, Installs
  <2> QED
    BY <2>1, <2>2
<1>11. CASE At("sync") /\ Overwrite(o)
  <2>1. Kind[o] \notin CreatedUnseen \union CreatedOnce /\ o \notin Overlooked
    BY <1>0, <1>11, ConstantsAssumption DEF Overwrite, Overwritten, CreatedUnseen, CreatedOnce
  <2> QED
    BY <1>a, <1>5, <1>11, <2>1 DEF Overwrite, Installs, Stops, At
<1>12. CASE At("sync") /\ DeleteToReplace(o)
  <2>1. CASE Exists(o)
    BY <1>0, <1>1, <1>5, <1>12, <2>1, PutWrites DEF DeleteToReplace, Deletes, TypeInv
  <2>2. CASE ~Exists(o)
    BY <1>5, <1>12, <2>2 DEF DeleteToReplace, Stops, At
  <2> QED
    BY <2>1, <2>2
<1>13. CASE (At("sync") \/ At("replace")) /\ FailSync
  BY <1>5, <1>13 DEF FailSync, Stops, At
<1>14. CASE At("refresh") /\ DeleteRefreshed(o)
  <2>1. Refreshes[o] \in Operands
    BY <1>0, <1>14, ConstantsAssumption DEF TypeInv, AtWork, o
  <2> QED
    BY <1>1, <1>5, <1>14, <2>1, PutWrites DEF DeleteRefreshed, DeletesRefreshed, TypeInv
<1>15. CASE At("replace") /\ CreateReplacement(o)
  <2>1. Kind[o] \in Replaced
    BY <1>15 DEF TypeInv, AtWork, o
  <2>2. Kind[o] \notin CreatedUnseen \union CreatedOnce
    BY <2>1 DEF Replaced, CreatedUnseen, CreatedOnce
  <2> QED
    BY <1>a, <1>3, <1>5, <1>15, <2>1, <2>2 DEF CreateReplacement, Installs, At
<1> QED
  BY <1>6, <1>7, <1>8, <1>9, <1>10, <1>11, <1>12, <1>13, <1>14, <1>15, <1>4

\* The same of a step of an uninstall.
UninstallOutcome(p) ==
    /\ At("uninstall") /\ p \in worker.drop /\ p[1] \in Switches /\ p[2] \in Operands
    /\ \/ Stops /\ halted' = TRUE
       \/ /\ UNCHANGED halted
          /\ \/ Kind[p[2]] \in LookedUp /\ ~Seen(p[2]) /\ NoWrite /\ Dropped({p})
             \/ Exists(p[2]) /\ Wrote(p[2], Absent) /\ Dropped({p})
             \/ ~Exists(p[2]) /\ NoWrite /\ Dropped(RestOfKind(p))
    /\ events' \in 0 .. MaxEvents
    /\ UNCHANGED <<serviceVars, first>>
    /\ disturbed' = (disturbed \/ (Kind[p[2]] \in LookedUp /\ p[2] \in behind))

LEMMA UninstallSteps ==
  ASSUME TypeInv, UninstallNext
  PROVE  UninstallOutcome(NextRemoval)
<1> DEFINE p == NextRemoval
<1>1. p \in worker.drop /\ p[1] \in Switches /\ p[2] \in Operands
  <2>1. worker.drop \in SUBSET (Switches \X Operands) /\ worker.drop # {}
    BY DEF TypeInv, TypeOK, WorkerType, UninstallNext
  <2>2. p \in worker.drop
    BY <2>1, NextRemovalIs DEF TypeInv, AtWork
  <2> QED
    BY <2>1, <2>2
<1>2. Absent \in ObjectType \union {Absent}
  OBVIOUS
<1>3. Put(p[2], Absent) => Wrote(p[2], Absent)
  BY <1>1, <1>2, PutWrites DEF TypeInv
<1> HIDE DEF p
<1>4. Succeeds \/ Fails("uninstall") => events' \in 0 .. MaxEvents
  BY ConstantsAssumption DEF Succeeds, Fails, Count, TypeInv, TypeOK
<1>5. UninstallNext =>
        LET o == p[2]
            skipped == Kind[o] \in LookedUp /\ ~Seen(o)
        IN /\ At("uninstall")
           /\ \/ /\ Succeeds /\ UNCHANGED halted
                 /\ \/ skipped /\ NoWrite /\ Dropped({p})
                    \/ ~skipped /\ Exists(o) /\ Put(o, Absent) /\ Dropped({p})
                    \/ ~skipped /\ ~Exists(o) /\ NoWrite /\ Dropped(RestOfKind(p))
              \/ Fails("uninstall") /\ halted' = TRUE /\ Requeue
           /\ disturbed' = (disturbed \/ (Kind[o] \in LookedUp /\ o \in behind))
           /\ UNCHANGED <<serviceVars, first>>
  BY DEF UninstallNext, Disturb, p
<1>6. UninstallOutcome(p)
  BY <1>1, <1>3, <1>4, <1>5 DEF UninstallOutcome, Stops, At
<1> QED
  BY <1>6 DEF p

\* The worker's new state after the steps that several actions share.
LEMMA WorkerTyped ==
  ASSUME TypeInv
  PROVE  /\ Idle \in WorkerType /\ Spec0 \in SpecType
         /\ \A o \in Operands : Advance(o) => worker' \in WorkerType /\ AtWork'
         /\ \A P : At("uninstall") /\ Dropped(P) => worker' \in WorkerType /\ AtWork'
         /\ worker' = Idle => AtWork'
<1>1. Idle \in WorkerType /\ Spec0 \in SpecType
  BY DEF Idle, Spec0, WorkerType, SpecType
<1>2. worker \in WorkerType /\ AtWork
  BY DEF TypeInv, TypeOK
<1>3. ASSUME NEW o \in Operands, Advance(o) PROVE worker' \in WorkerType /\ AtWork'
  <2>1. worker' \in WorkerType /\ worker'.pc = "sync" /\ worker'.drop = worker.drop
    BY <1>2, <1>3 DEF Advance, WorkerType
  <2> QED
    BY <1>2, <2>1 DEF AtWork, At
<1>4. ASSUME NEW P, At("uninstall"), Dropped(P) PROVE worker' \in WorkerType /\ AtWork'
  <2>1. worker' = [worker EXCEPT !.drop = @ \ P] /\ worker.pc = "uninstall"
    BY <1>4 DEF Dropped, At
  <2>2. worker' \in WorkerType /\ worker'.pc = "uninstall" /\ worker'.drop \subseteq worker.drop
    BY <1>2, <2>1 DEF WorkerType
  <2> QED
    BY <1>2, <2>2 DEF AtWork, At
<1>5. worker' = Idle => AtWork'
  BY DEF AtWork, At, Idle
<1> QED
  BY <1>1, <1>3, <1>4, <1>5

LEMMA TypeInit == Init => TypeInv
<1> SUFFICES ASSUME Init PROVE TypeInv
  OBVIOUS
<1>1. worker \in WorkerType /\ AtWork
  BY DEF Init, Idle, Spec0, WorkerType, SpecType, AtWork, At
<1>2. service \in ServiceType /\ cached = service
  BY DEF Init, ServiceType, SpecType, Spec0
<1>3. objects \in [Operands -> ObjectType \union {Absent}] /\ cache = objects
  BY DEF Init
<1>4. /\ protected \in BOOLEAN /\ release \in Nat /\ stale \in BOOLEAN /\ behind \subseteq Lagging
      /\ first \in BOOLEAN /\ queued \in BOOLEAN /\ disturbed \in BOOLEAN
      /\ halted \in BOOLEAN
  BY DEF Init
<1>5. events \in 0 .. MaxEvents
  BY ConstantsAssumption DEF Init
<1> QED
  BY <1>1, <1>2, <1>3, <1>4, <1>5 DEF TypeInv, TypeOK, CachesAgree

\* The operands in the API server and in the caches, and the queue.
ObjectsTyped ==
    /\ objects \in [Operands -> ObjectType \union {Absent}]
    /\ cache \in [Operands -> ObjectType \union {Absent}]
    /\ behind \subseteq Lagging
    /\ \A o \in Operands \ behind : cache[o] = objects[o]
    /\ queued \in BOOLEAN
ServicesTyped ==
    /\ service \in ServiceType /\ cached \in ServiceType /\ stale \in BOOLEAN
    /\ ~stale => cached = service
    /\ first \in BOOLEAN

RestTyped ==
    /\ protected \in BOOLEAN /\ release \in Nat
    /\ disturbed \in BOOLEAN /\ halted \in BOOLEAN
    /\ events \in 0 .. MaxEvents

LEMMA TypeParts ==
  (ServicesTyped /\ ObjectsTyped /\ worker \in WorkerType /\ AtWork /\ RestTyped)' => TypeInv'
  BY DEF TypeInv, TypeOK, CachesAgree, ObjectsTyped, ServicesTyped, RestTyped

LEMMA ObjectsStayTyped ==
  ASSUME TypeInv
  PROVE  /\ ObjectsTyped
         /\ NoWrite => ObjectsTyped'
         /\ UNCHANGED objectVars /\ queued' \in BOOLEAN => ObjectsTyped'
         /\ \A x, v : Wrote(x, v) => ObjectsTyped'
<1>1. ObjectsTyped
  BY DEF TypeInv, TypeOK, CachesAgree, ObjectsTyped
<1>2. UNCHANGED objectVars /\ queued' \in BOOLEAN => ObjectsTyped'
  BY <1>1 DEF ObjectsTyped, objectVars
<1>3. NoWrite => ObjectsTyped'
  BY <1>1, <1>2 DEF NoWrite, ObjectsTyped
<1>4. ASSUME NEW x, NEW v, Wrote(x, v) PROVE ObjectsTyped'
  BY <1>4 DEF Wrote, ObjectsTyped
<1> QED
  BY <1>1, <1>2, <1>3, <1>4

LEMMA ServicesStayTyped ==
  ASSUME TypeInv, UNCHANGED <<serviceVars, first>>
  PROVE  ServicesTyped'
  BY DEF TypeInv, TypeOK, CachesAgree, ServicesTyped, serviceVars

LEMMA TypeSync ==
  ASSUME TypeInv, SyncOperand, UNCHANGED <<protected, release, halted>>
  PROVE  TypeInv'
<1> DEFINE o == NextOperand
<1> USE DEF SyncOutcome
<1>1. SyncOutcome(o)
  BY SyncSteps
<1>2. ServicesTyped'
  BY <1>1, ServicesStayTyped
<1>3. ObjectsTyped' /\ worker' \in WorkerType /\ AtWork'
  <2>1. CASE Stops
    BY <2>1, ObjectsStayTyped, WorkerTyped DEF Stops, Requeue
  <2>2. CASE Keeps(o)
    BY <1>1, <2>2, ObjectsStayTyped, WorkerTyped DEF Keeps
  <2>3. CASE Installs(o)
    <3>1. ObjectsTyped'
      BY <2>3, ObjectsStayTyped DEF Installs
    <3>2. CASE Advance(o)
      BY <1>1, <3>1, <3>2, WorkerTyped
    <3>3. CASE Goto("refresh") /\ Refreshes[o] # NoOperand
      <4>1. /\ worker' \in WorkerType /\ worker'.pc = "refresh"
            /\ worker'.todo = worker.todo /\ worker'.drop = worker.drop
        BY <3>3 DEF Goto, WorkerType, TypeInv, TypeOK
      <4> QED
        BY <1>1, <3>1, <3>3, <4>1 DEF AtWork, At, NextOperand, TypeInv
    <3> QED
      BY <2>3, <3>2, <3>3 DEF Installs
  <2>4. CASE Deletes(o)
    <3>1. ObjectsTyped'
      BY <2>4, ObjectsStayTyped DEF Deletes
    <3>2. /\ worker' \in WorkerType /\ worker'.pc = "replace"
          /\ worker'.todo = worker.todo /\ worker'.drop = worker.drop
      BY <2>4 DEF Deletes, Goto, WorkerType, TypeInv, TypeOK
    <3> QED
      BY <1>1, <2>4, <3>1, <3>2 DEF Deletes, AtWork, At, NextOperand, TypeInv
  <2>5. CASE DeletesRefreshed(o)
    BY <1>1, <2>5, ObjectsStayTyped, WorkerTyped DEF DeletesRefreshed
  <2> QED
    BY <1>1, <2>1, <2>2, <2>3, <2>4, <2>5
<1>4. RestTyped'
  BY <1>1 DEF TypeInv, TypeOK, RestTyped
<1> QED
  BY <1>2, <1>3, <1>4, TypeParts

LEMMA TypeUninstall ==
  ASSUME TypeInv, UninstallNext, UNCHANGED <<protected, release>>
  PROVE  TypeInv'
<1> DEFINE p == NextRemoval
<1> USE DEF UninstallOutcome
<1>1. UninstallOutcome(p)
  BY UninstallSteps
<1>2. ServicesTyped'
  BY <1>1, ServicesStayTyped
<1>3. ObjectsTyped' /\ worker' \in WorkerType /\ AtWork'
  BY <1>1, ObjectsStayTyped, WorkerTyped DEF Stops, Requeue
<1>4. RestTyped'
  BY <1>1 DEF TypeInv, TypeOK, RestTyped
<1> QED
  BY <1>2, <1>3, <1>4, TypeParts

LEMMA TypeReconcile ==
  ASSUME TypeInv, UNCHANGED <<protected, release, halted>>,
         Take \/ Activate \/ BeginUninstall \/ EndUninstall \/ RecordStatus \/ Record
  PROVE  TypeInv'
<1> USE DEF At
<1>0. /\ Idle \in WorkerType /\ (worker' = Idle => AtWork')
      /\ worker \in WorkerType /\ AtWork
      /\ ServicesTyped /\ ObjectsTyped
  BY WorkerTyped, ObjectsStayTyped DEF TypeInv, TypeOK, CachesAgree, ServicesTyped
<1>1. /\ Succeeds \/ Fails("record") => events' \in 0 .. MaxEvents
      /\ Requeue => ObjectsTyped' /\ worker' \in WorkerType /\ AtWork'
      /\ NoWrite => ObjectsTyped'
      /\ UNCHANGED <<serviceVars, first>> => ServicesTyped'
      /\ events' \in 0 .. MaxEvents /\ disturbed' \in BOOLEAN => RestTyped'
  <2>1. Succeeds \/ Fails("record") => events' \in 0 .. MaxEvents
    BY ConstantsAssumption DEF Succeeds, Fails, Count, TypeInv, TypeOK
  <2>2. Requeue => ObjectsTyped' /\ worker' \in WorkerType /\ AtWork'
    BY <1>0, ObjectsStayTyped DEF Requeue
  <2>3. events' \in 0 .. MaxEvents /\ disturbed' \in BOOLEAN => RestTyped'
    BY DEF RestTyped, TypeInv, TypeOK
  <2> QED
    BY <2>1, <2>2, <2>3, ObjectsStayTyped, ServicesStayTyped
<1>2. disturbed \in BOOLEAN /\ events \in 0 .. MaxEvents
  BY DEF TypeInv, TypeOK
<1>3. CASE Take
  <2>1. worker' \in WorkerType /\ AtWork'
    BY <1>0, <1>3 DEF Take, WorkerType, AtWork, Idle, ServicesTyped, ServiceType
  <2>2. disturbed' \in BOOLEAN
    BY <1>2, <1>3 DEF Take, Disturb
  <2>3. ObjectsTyped' /\ ServicesTyped' /\ events' \in 0 .. MaxEvents
    BY <1>1, <1>2, <1>3, ObjectsStayTyped DEF Take
  <2> QED
    BY <1>1, <2>1, <2>2, <2>3, TypeParts
<1>4. CASE Activate
  <2>1. /\ Succeeds \/ Fails("record")
        /\ \/ /\ NoWrite
              /\ \/ worker' = Idle
                 \/ worker' = [worker EXCEPT !.pc = "sync", !.todo = InstallPlan(worker.spec)]
           \/ Requeue
        /\ UNCHANGED <<serviceVars, first, disturbed>>
    BY <1>4 DEF Activate, Finish, FailsIf
  <2>2. InstallPlan(worker.spec) \subseteq Operands
    BY DEF InstallPlan
  <2>3. worker' = [worker EXCEPT !.pc = "sync", !.todo = InstallPlan(worker.spec)]
          => worker' \in WorkerType /\ AtWork'
    BY <1>0, <2>2 DEF WorkerType, AtWork
  <2> QED
    BY <1>0, <1>1, <1>2, <2>1, <2>3, TypeParts
<1>5. CASE BeginUninstall
  <2>1. worker' \in WorkerType /\ AtWork'
    BY <1>0, <1>5 DEF BeginUninstall, UninstallPlan, WorkerType, AtWork
  <2> QED
    BY <1>1, <1>2, <1>5, <2>1, TypeParts DEF BeginUninstall
<1>6. CASE EndUninstall
  <2>1. worker' \in WorkerType /\ AtWork'
    BY <1>0, <1>6 DEF EndUninstall, Goto, WorkerType, AtWork
  <2> QED
    BY <1>1, <1>2, <1>6, <2>1, TypeParts DEF EndUninstall
<1>7. CASE RecordStatus
  <2>1. ServicesTyped'
    BY <1>0, <1>7 DEF RecordStatus, ServicesTyped, ServiceType
  <2>2. worker' = worker /\ AtWork'
    BY <1>0, <1>7 DEF RecordStatus, AtWork, NextOperand
  <2> QED
    BY <1>0, <1>1, <1>2, <1>7, <2>1, <2>2, TypeParts DEF RecordStatus
<1>8. CASE Record
  <2>1. CASE FailsIf(stale, "record") /\ Requeue /\ UNCHANGED <<service, stale, first>>
    <3>1. UNCHANGED <<cached, disturbed>>
      BY <1>8 DEF Record, WriteRecord
    <3>2. ServicesTyped'
      BY <1>0, <2>1, <3>1 DEF ServicesTyped
    <3> QED
      BY <1>1, <1>2, <2>1, <3>1, <3>2, TypeParts DEF FailsIf
  <2>2. CASE /\ ~stale /\ service.versioned /\ Succeeds
             /\ service' = [service EXCEPT !.recorded = cached.spec]
             /\ stale' = (service' # service)
             /\ first' = TRUE
             /\ Finish /\ NoWrite
    <3>1. cached' = cached /\ disturbed' = disturbed
      BY <1>8 DEF Record, WriteRecord
    <3>2. ServicesTyped'
      BY <1>0, <2>2, <3>1 DEF ServicesTyped, ServiceType
    <3> QED
      BY <1>0, <1>1, <1>2, <2>2, <3>1, <3>2, TypeParts DEF Finish
  <2> QED
    BY <1>8, <2>1, <2>2 DEF Record, WriteRecord
<1> QED
  BY <1>3, <1>4, <1>5, <1>6, <1>7, <1>8

LEMMA TypeEnvironment ==
  ASSUME TypeInv, Environment \/ Restart
  PROVE  TypeInv'
<1>0. /\ worker \in WorkerType /\ AtWork /\ ServicesTyped /\ ObjectsTyped /\ RestTyped
  BY ObjectsStayTyped DEF TypeInv, TypeOK, CachesAgree, ServicesTyped, RestTyped
<1>1. /\ UNCHANGED worker => worker' \in WorkerType /\ AtWork'
      /\ Count => events' \in 0 .. MaxEvents
      /\ UNCHANGED <<serviceVars, first>> => ServicesTyped'
      /\ UNCHANGED objectVars /\ queued' \in BOOLEAN => ObjectsTyped'
      /\ /\ UNCHANGED <<protected, release, halted>>
         /\ events' \in 0 .. MaxEvents /\ disturbed' \in BOOLEAN
         => RestTyped'
  <2>1. UNCHANGED worker => worker' \in WorkerType /\ AtWork'
    BY <1>0 DEF AtWork, At, NextOperand
  <2>2. Count => events' \in 0 .. MaxEvents
    BY <1>0, ConstantsAssumption DEF Count, RestTyped
  <2>3. /\ UNCHANGED <<protected, release, halted>>
        /\ events' \in 0 .. MaxEvents /\ disturbed' \in BOOLEAN
        => RestTyped'
    BY <1>0 DEF RestTyped
  <2> QED
    BY <2>1, <2>2, <2>3, ObjectsStayTyped, ServicesStayTyped
<1>2. CASE ObserveService /\ UNCHANGED <<protected, release, halted>>
  <2>1. ServicesTyped'
    BY <1>0, <1>2 DEF ObserveService, ServicesTyped
  <2> QED
    BY <1>0, <1>1, <1>2, <2>1, TypeParts DEF ObserveService, RestTyped
<1>3. ASSUME NEW o \in Operands, ObserveOperand(o), UNCHANGED <<protected, release, halted>>
      PROVE  TypeInv'
  <2>1. queued' \in BOOLEAN
    BY <1>0, <1>3 DEF ObserveOperand
  <2>2. ObjectsTyped'
    BY <1>0, <1>3, <2>1 DEF ObserveOperand, ObjectsTyped
  <2> QED
    BY <1>0, <1>1, <1>3, <2>2, TypeParts DEF ObserveOperand, RestTyped
<1>4. CASE Resync /\ UNCHANGED <<protected, release, halted>>
  BY <1>0, <1>1, <1>4, TypeParts DEF Resync, RestTyped
<1>5. CASE EditSpec /\ UNCHANGED <<protected, release, halted>>
  <2>1. PICK spec \in {[service.spec EXCEPT !.rev = @ + 1]} \union
           {[service.spec EXCEPT !.on = IF s \in @ THEN @ \ {s} ELSE @ \union {s}] :
               s \in Flippable} : service' = [service EXCEPT !.spec = spec]
    BY <1>5 DEF EditSpec
  <2>2. service.spec \in SpecType
    BY <1>0 DEF ServicesTyped, ServiceType
  <2>3. spec \in SpecType
    BY <2>2, ConstantsAssumption DEF SpecType
  <2>4. ServicesTyped'
    BY <1>0, <1>5, <2>1, <2>3 DEF EditSpec, ServicesTyped, ServiceType
  <2>5. ObjectsTyped' /\ worker' \in WorkerType /\ AtWork'
    BY <1>0, <1>1, <1>5 DEF EditSpec, ObjectsTyped
  <2>6. disturbed' \in BOOLEAN
    BY <1>0, <1>5 DEF EditSpec, Disturb, RestTyped
  <2> QED
    BY <1>1, <1>5, <2>4, <2>5, <2>6, TypeParts DEF EditSpec
<1>6. ASSUME NEW o \in Tamperable, Tamper(o), UNCHANGED <<protected, release, halted>>
      PROVE  TypeInv'
  <2>1. o \in Operands
    BY ConstantsAssumption
  <2>2. [objects[o] EXCEPT !.rev = 0] \in ObjectType \union {Absent}
    BY <1>0, <1>6, <2>1 DEF Tamper, Exists, ObjectsTyped, ObjectType
  <2>3. PICK v \in ObjectType \union {Absent} : Put(o, v)
    BY <1>6, <2>2 DEF Tamper
  <2>4. ObjectsTyped'
    BY <2>1, <2>3, PutWrites, ObjectsStayTyped DEF TypeInv
  <2>5. disturbed' \in BOOLEAN
    BY <1>6 DEF Tamper, Disturb
  <2> QED
    BY <1>1, <1>6, <2>4, <2>5, TypeParts DEF Tamper
<1>7. CASE Restart
  <2>1. /\ events' \in 0 .. MaxEvents /\ UNCHANGED <<protected, service, objects, disturbed>>
        /\ halted' \in BOOLEAN
    BY <1>0, <1>1, <1>7 DEF Restart, Fails, RestTyped
  <2>2. release' \in Nat
    BY <1>0, <1>7 DEF Restart, RestTyped
  <2>3. worker' \in WorkerType /\ AtWork'
    BY <1>7, WorkerTyped DEF Restart
  <2>4. ServicesTyped' /\ ObjectsTyped'
    BY <1>0, <1>7 DEF Restart, ServicesTyped, ObjectsTyped
  <2> QED
    BY <1>0, <2>1, <2>2, <2>3, <2>4, TypeParts DEF RestTyped
<1> QED
  BY <1>2, <1>3, <1>4, <1>5, <1>6, <1>7 DEF Environment

LEMMA TypeNext == TypeInv /\ [Next]_vars => TypeInv'
<1> SUFFICES ASSUME TypeInv, [Next]_vars PROVE TypeInv'
  OBVIOUS
<1>1. CASE UNCHANGED vars
  BY <1>1 DEF vars, serviceVars, objectVars, TypeInv, TypeOK, CachesAgree, AtWork, At,
     NextOperand
<1>2. CASE Worker
  BY <1>2, TypeSync, TypeUninstall, TypeReconcile DEF Worker
<1>3. CASE Environment \/ Restart
  BY <1>3, TypeEnvironment
<1> QED
  BY <1>1, <1>2, <1>3 DEF Next

\* Type correctness, which says that the caches hold the current version of whatever
\* is not known to be behind, for every set of operands and components.
THEOREM TypeCorrect == Spec => []TypeOK
<1>1. Init => TypeInv
  BY TypeInit
<1>2. TypeInv /\ [Next]_vars => TypeInv'
  BY TypeNext
<1>3. TypeInv => TypeOK
  BY DEF TypeInv
<1> QED
  BY <1>1, <1>2, <1>3, PTL DEF Spec

(* Nothing is made of a later spec, or by a later release, than there has been. *)

RevsBounded ==
    /\ cached.spec.rev <= service.spec.rev
    /\ worker.spec.rev <= service.spec.rev
    /\ \A o \in Operands : objects[o].rev <= service.spec.rev /\ objects[o].release <= release

\* What holds of the operands still holds after a write of such a thing.
LEMMA RevsWritten ==
  ASSUME TypeInv, RevsBounded, NEW x \in Operands, NEW v, Wrote(x, v),
         UNCHANGED <<release, service>>,
         v.rev <= service.spec.rev, v.release <= release
  PROVE  \A o \in Operands :
            objects'[o].rev <= service'.spec.rev /\ objects'[o].release <= release'
<1> TAKE o \in Operands
<1>1. objects' = [objects EXCEPT ![x] = v] /\ objects \in [Operands -> ObjectType \union {Absent}]
  BY DEF Wrote, TypeInv, TypeOK
<1>2. objects'[o] = v \/ objects'[o] = objects[o]
  BY <1>1
<1>3. /\ objects[o].rev <= service.spec.rev /\ objects[o].release <= release
      /\ service' = service /\ release' = release
  BY DEF RevsBounded
<1> QED
  BY <1>2, <1>3

LEMMA RevsSync ==
  ASSUME TypeInv, RevsBounded, SyncOperand, UNCHANGED <<protected, release>>
  PROVE  RevsBounded'
<1> DEFINE o == NextOperand
<1>1. SyncOutcome(o)
  BY SyncSteps
<1> HIDE DEF o
<1>2. UNCHANGED <<service, cached, release>>
  BY <1>1 DEF SyncOutcome, serviceVars
<1>3. /\ service.spec.rev \in Nat /\ release \in Nat /\ worker.spec.rev \in Nat
      /\ Absent.rev = -1 /\ Absent.release = -1
  BY DEF TypeInv, TypeOK, ServiceType, SpecType, WorkerType, Absent
<1>4. ASSUME NEW v, WrittenAs(o, v), Desired(o) \in ObjectType
      PROVE  v.rev <= service.spec.rev /\ v.release <= release
  <2>1. o \in Operands /\ Desired(o).rev = worker.spec.rev /\ Desired(o).release = release
    BY <1>1 DEF SyncOutcome, Desired, Made
  <2>2. CASE v = Desired(o)
    BY <1>3, <2>1, <2>2 DEF RevsBounded
  <2>3. CASE v = Kept(o, cache[o], Desired(o)) /\ o \notin behind
    <3>1. cache[o] = objects[o]
      BY <2>1, <2>3 DEF TypeInv, TypeOK, CachesAgree
    <3>2. v.rev = worker.spec.rev /\ v.release \in {objects[o].release, release}
      BY <1>4, <2>1, <2>3, <3>1, KeptIs
    <3> QED
      BY <1>3, <2>1, <3>2 DEF RevsBounded
  <2> QED
    BY <1>4, <2>2, <2>3 DEF WrittenAs
<1>5. worker'.spec.rev <= service'.spec.rev
  <2>1. worker'.spec = worker.spec \/ worker' = Idle
    BY <1>1 DEF SyncOutcome, Stops, Requeue, Keeps, Installs, Deletes, DeletesRefreshed,
                Advance, Goto, TypeInv, TypeOK, WorkerType
  <2>2. Idle.spec.rev = 0
    BY DEF Idle, Spec0
  <2> QED
    BY <1>2, <1>3, <2>1, <2>2 DEF RevsBounded
<1>6. \A x \in Operands :
         objects'[x].rev <= service'.spec.rev /\ objects'[x].release <= release'
  <2>1. CASE Stops \/ NoWrite
    BY <1>2, <2>1 DEF Stops, Requeue, NoWrite, objectVars, RevsBounded
  <2>2. CASE Installs(o)
    <3>1. PICK v \in ObjectType : Wrote(o, v) /\ WrittenAs(o, v)
      BY <2>2 DEF Installs
    <3>2. o \in Operands /\ v.rev <= service.spec.rev /\ v.release <= release
      BY <1>1, <1>4, <2>2, <3>1 DEF SyncOutcome, Installs
    <3> QED
      BY <1>2, <3>1, <3>2, RevsWritten
  <2>3. CASE Deletes(o)
    BY <1>1, <1>2, <1>3, <2>3, RevsWritten DEF SyncOutcome, Deletes
  <2>4. CASE DeletesRefreshed(o)
    BY <1>2, <1>3, <2>1, <2>4, RevsWritten DEF DeletesRefreshed
  <2> QED
    BY <1>1, <2>1, <2>2, <2>3, <2>4 DEF SyncOutcome, Keeps
<1> QED
  BY <1>2, <1>5, <1>6 DEF RevsBounded

LEMMA RevsNext == TypeInv /\ RevsBounded /\ [Next]_vars => RevsBounded'
<1> SUFFICES ASSUME TypeInv, RevsBounded, [Next]_vars PROVE RevsBounded'
  OBVIOUS
<1>0. /\ service.spec.rev \in Nat /\ release \in Nat /\ service \in ServiceType
      /\ Idle.spec.rev = 0 /\ worker \in WorkerType
      /\ objects \in [Operands -> ObjectType \union {Absent}]
  BY DEF TypeInv, TypeOK, ServiceType, SpecType, Idle, Spec0
<1>1. ASSUME UNCHANGED <<service, cached, objects, release>>,
             worker'.spec = worker.spec \/ worker' = Idle \/ worker'.spec = cached.spec
      PROVE  RevsBounded'
  BY <1>0, <1>1 DEF RevsBounded
<1>2. CASE UNCHANGED vars
  BY <1>1, <1>2 DEF vars, serviceVars, objectVars
<1>3. CASE Worker
  <2>1. UNCHANGED <<protected, release>>
    BY <1>3 DEF Worker
  <2>2. CASE SyncOperand
    BY <2>1, <2>2, RevsSync
  <2>3. CASE UninstallNext
    <3> DEFINE p == NextRemoval
    <3>1. UninstallOutcome(p)
      BY <2>3, UninstallSteps
    <3> HIDE DEF p
    <3>2. UNCHANGED <<service, cached>>
      BY <3>1 DEF UninstallOutcome, serviceVars
    <3>3. worker'.spec = worker.spec \/ worker' = Idle
      BY <1>0, <3>1 DEF UninstallOutcome, Stops, Requeue, Dropped, WorkerType
    <3>4. CASE Stops \/ NoWrite
      BY <1>1, <2>1, <3>2, <3>3, <3>4 DEF Stops, Requeue, NoWrite, objectVars
    <3>5. CASE Wrote(p[2], Absent)
      <4>1. Absent.rev = -1 /\ Absent.release = -1
        BY DEF Absent
      <4>2. \A x \in Operands :
               objects'[x].rev <= service'.spec.rev /\ objects'[x].release <= release'
        BY <1>0, <2>1, <3>1, <3>2, <3>5, <4>1, RevsWritten DEF UninstallOutcome
      <4> QED
        BY <1>0, <2>1, <3>2, <3>3, <4>2 DEF RevsBounded
    <3> QED
      BY <3>1, <3>4, <3>5 DEF UninstallOutcome
  <2>4. CASE Take \/ Activate \/ BeginUninstall \/ EndUninstall
    BY <1>0, <1>1, <2>1, <2>4
    DEF Take, Activate, BeginUninstall, EndUninstall, Requeue, NoWrite, Finish, Goto,
        serviceVars, objectVars, WorkerType, Idle
  <2>5. CASE RecordStatus \/ Record
    <3>1. /\ UNCHANGED <<cached, objects>> /\ service'.spec = service.spec
          /\ worker' = worker \/ worker' = Idle
      BY <1>0, <2>5 DEF RecordStatus, Record, WriteRecord, Requeue, NoWrite, Finish,
                         objectVars, ServiceType
    <3> QED
      BY <1>0, <2>1, <3>1 DEF RevsBounded
  <2> QED
    BY <1>3, <2>2, <2>3, <2>4, <2>5 DEF Worker
<1>4. CASE Environment
  <2>1. UNCHANGED <<protected, release>>
    BY <1>4 DEF Environment
  <2>2. CASE ObserveService
    BY <1>0, <2>1, <2>2 DEF ObserveService, objectVars, RevsBounded
  <2>3. CASE Resync \/ \E o \in Operands : ObserveOperand(o)
    BY <1>1, <2>1, <2>3 DEF Resync, ObserveOperand, serviceVars, objectVars
  <2>4. CASE EditSpec
    <3>1. service'.spec.rev \in {service.spec.rev, service.spec.rev + 1}
      BY <1>0, <2>4 DEF EditSpec, ServiceType, SpecType
    <3>2. UNCHANGED <<cached, objects, worker, release>>
      BY <2>1, <2>4 DEF EditSpec, objectVars
    <3>3. /\ cached.spec.rev \in Nat /\ worker.spec.rev \in Nat
          /\ \A o \in Operands : objects[o].rev \in Int /\ objects[o].release \in Int
      BY <1>0 DEF TypeInv, TypeOK, ServiceType, SpecType, WorkerType, ObjectType, Absent
    <3> QED
      BY <1>0, <3>1, <3>2, <3>3 DEF RevsBounded
  <2>5. ASSUME NEW o \in Tamperable, Tamper(o) PROVE RevsBounded'
    <3>1. o \in Operands /\ objects[o] \in ObjectType
      BY <1>0, <2>5, ConstantsAssumption DEF Tamper, Exists
    <3>2. UNCHANGED <<service, cached, worker, release>>
      BY <2>1, <2>5 DEF Tamper, serviceVars
    <3>3. PICK v \in {Absent, [objects[o] EXCEPT !.rev = 0]} : Put(o, v)
      BY <2>5 DEF Tamper
    <3>4. v \in ObjectType \union {Absent}
      BY <3>1 DEF ObjectType
    <3>5. v.rev <= service.spec.rev /\ v.release <= release
      BY <1>0, <3>1 DEF Absent, ObjectType, RevsBounded
    <3>6. Wrote(o, v)
      BY <3>1, <3>3, <3>4, PutWrites DEF TypeInv
    <3>7. \A x \in Operands :
             objects'[x].rev <= service'.spec.rev /\ objects'[x].release <= release'
      BY <3>1, <3>2, <3>5, <3>6, RevsWritten
    <3> QED
      BY <3>2, <3>7 DEF RevsBounded
  <2> QED
    BY <1>4, <2>2, <2>3, <2>4, <2>5 DEF Environment
<1>5. CASE Restart
  <2>1. /\ cached' = service /\ worker' = Idle /\ service' = service /\ objects' = objects
        /\ release' \in {release, release + 1}
    BY <1>5 DEF Restart
  <2>2. \A o \in Operands : objects[o].rev \in Int /\ objects[o].release \in Int
    BY <1>0 DEF ObjectType, Absent
  <2> QED
    BY <1>0, <2>1, <2>2 DEF RevsBounded
<1> QED
  BY <1>2, <1>3, <1>4, <1>5 DEF Next

(***************************************************************************)
(* The invariant.  As long as nobody has interfered:                       *)
(* - a reconcile works from the latest spec, and at rest it is recorded;   *)
(* - what is recorded and has been applied once by this process is in      *)
(*   order;                                                                *)
(* - what has been made of a ConfigMap was made of the one that is there;  *)
(* - of what a component leaves behind, what is listed first goes first,   *)
(*   so that an uninstall that stops at the first operand it does not find *)
(*   leaves nothing of that kind, until an uninstall ends halfway;         *)
(* - what a sync has dealt with is as it should be, and what an uninstall  *)
(*   has dealt with is gone, or left behind for one that had ended halfway;*)
(* - an operator without protection syncs only what has not been recorded  *)
(*   or not been applied by this process.                                  *)
(***************************************************************************)

\* An operand made of the spec as it is now, by this release.
Current(o) ==
    Exists(o) /\ objects[o].rev = service.spec.rev /\ objects[o].release = release
\* An operand as a sync leaves it.
Fine(o) == Exists(o) /\ (Kind[o] \in CreatedUnseen \union CreatedOnce \/ UpToSpec(o))

LatestSpec == ~At("idle") => worker.spec = service.spec /\ cached.spec = service.spec
LatestRecord == At("activate") => worker.recorded = service.recorded
RestRecorded == AtRest => first /\ service.recorded = service.spec
RecordedApplied == first /\ service.recorded = service.spec => AppliedForNow

\* The ConfigMap of a current operand, unless an uninstall has taken it, and as the
\* cache has it, unless that has not seen it yet.
MountsCurrent ==
    \A o \in Operands : Mounts[o] # NoOperand /\ Current(o) =>
       \/ ~Exists(Mounts[o])
       \/ /\ objects[Mounts[o]] = Made(service.spec, 0)
          /\ Mounts[o] \notin behind \/ ~Seen(Mounts[o])

\* Operands o and p of a kind that is uninstalled for component s, o listed first.
Before(s, o, p) ==
    /\ o \in Removes[s] /\ p \in Removes[s]
    /\ Kind[o] = Kind[p] /\ Kind[o] \in UninstallKinds \ {"Secret"}
    /\ Listed[o] < Listed[p]
GoneInOrder ==
    \A s \in Switches \ service.spec.on : \A o, p \in Operands :
       Before(s, o, p) /\ Exists(p) => Exists(o)

Syncing == At("sync") \/ At("refresh") \/ At("replace")
InSync ==
    /\ worker.todo \subseteq InstallPlan(worker.spec)
    /\ \A o \in InstallPlan(worker.spec) \ worker.todo : Fine(o)
    /\ At("refresh") =>
          /\ Fine(NextOperand) /\ Kind[NextOperand] = "ConfigMap"
          /\ ~Current(Refreshes[NextOperand])
    /\ At("replace") => ~Exists(NextOperand)
    /\ ~protected => ~(first /\ service.recorded = service.spec)
InUninstall ==
    /\ worker.drop \subseteq UninstallPlan(worker.spec)
    /\ \A o \in Operands : Wanted(worker.spec, o) => Fine(o)
    /\ \A s \in Switches, o \in Operands :
          <<s, o>> \in UninstallPlan(worker.spec) \ worker.drop
          => Kind[o] = "Secret" \/ ~Exists(o) \/ LeftBehind(o)
    /\ \A s \in Switches : \A o, p \in Operands :
          /\ <<s, o>> \in worker.drop /\ <<s, p>> \in worker.drop
          /\ Before(s, o, p) /\ Exists(p) /\ ~Exists(o)
          => \/ \E t \in Switches : <<t, p>> \in worker.drop /\ SwitchRank[t] < SwitchRank[s]
             \/ halted

Undisturbed ==
    /\ LatestSpec /\ LatestRecord /\ RestRecorded /\ RecordedApplied
    /\ MountsCurrent
    /\ ~halted /\ ~At("uninstall") => GoneInOrder
    /\ Syncing => InSync
    /\ At("uninstall") => InUninstall
    /\ At("record") => AppliedButSecrets

Inv == TypeInv /\ RevsBounded /\ (~disturbed => Undisturbed)

(* What the lists say of a single operand *)

\* What mounts a ConfigMap, the ConfigMap, and what is refreshed with it.
LEMMA MountFacts ==
  ASSUME ListsFit, NEW o \in Operands
  PROVE  /\ Mounts[o] # NoOperand =>
               /\ Mounts[o] \in Operands /\ Kind[o] \in {"Deployment", "StatefulSet"}
               /\ Kind[Mounts[o]] = "ConfigMap" /\ Needs[Mounts[o]] \subseteq Needs[o]
         /\ Kind[o] \in {"Deployment", "StatefulSet", "ConfigMap"} =>
               /\ Kind[o] \notin CreatedUnseen \union CreatedOnce \union Replaced
               /\ Kind[o] # "Secret"
         /\ Kind[o] = "ConfigMap" => Mounts[o] = NoOperand
         /\ Kind[o] \in Replaced =>
               /\ Kind[o] \notin CreatedUnseen \union CreatedOnce
               /\ Kind[o] # "Secret" /\ Mounts[o] = NoOperand
         /\ Refreshes[o] # NoOperand =>
               /\ Refreshes[o] \in Operands /\ Kind[o] = "ConfigMap"
               /\ Mounts[Refreshes[o]] = o /\ Needs[Refreshes[o]] = Needs[o]
               /\ Kind[Refreshes[o]] \in {"Deployment", "StatefulSet"}
<1> USE ConstantsAssumption
<1>1. Mounts[o] # NoOperand =>
         /\ Mounts[o] \in Operands /\ Kind[o] \in {"Deployment", "StatefulSet"}
         /\ Kind[Mounts[o]] = "ConfigMap" /\ Needs[Mounts[o]] \subseteq Needs[o]
  BY DEF ListsFit, MountsFit
<1>2. Kind[o] \in {"Deployment", "StatefulSet", "ConfigMap"} =>
         /\ Kind[o] \notin CreatedUnseen \union CreatedOnce \union Replaced
         /\ Kind[o] # "Secret"
  BY DEF CreatedUnseen, CreatedOnce, Replaced
<1>3. Kind[o] = "ConfigMap" => Mounts[o] = NoOperand
  BY <1>1
<1>4. Kind[o] \in Replaced =>
         /\ Kind[o] \notin CreatedUnseen \union CreatedOnce
         /\ Kind[o] # "Secret" /\ Mounts[o] = NoOperand
  BY <1>1 DEF CreatedUnseen, CreatedOnce, Replaced
<1>5. Refreshes[o] # NoOperand =>
         /\ Refreshes[o] \in Operands /\ Kind[o] = "ConfigMap"
         /\ Mounts[Refreshes[o]] = o /\ Needs[Refreshes[o]] = Needs[o]
         /\ Kind[Refreshes[o]] \in {"Deployment", "StatefulSet"}
  BY DEF ListsFit, MountsFit
<1> QED
  BY <1>1, <1>2, <1>3, <1>4, <1>5

\* What is removed for a component is what is installed for it.
LEMMA RemovalFacts ==
  ASSUME ListsFit, NEW o \in Operands
  PROVE  /\ Kind[o] \in UninstallKinds => \A s \in Switches : s \in Needs[o] <=> o \in Removes[s]
         /\ Needs[o] # {} => Kind[o] \in UninstallKinds
         /\ Needs[o] \subseteq Switches
         /\ \A s \in Switches, p \in Operands : Before(s, o, p) => Needs[o] \subseteq Needs[p]
  BY ConstantsAssumption DEF ListsFit, RemovesFit, ListsNested, Before

(* What a write leaves as it is *)

LEMMA UpToSpecIsCurrent ==
  ASSUME TypeInv, NEW o \in Operands, UpToSpec(o), Mounts[o] # NoOperand
  PROVE  Current(o)
<1>1. o \notin Overlooked
  BY ConstantsAssumption
<1> QED
  BY <1>1 DEF TypeInv, TypeOK, UpToSpec, Kept, Made, Current, Exists, Absent

LEMMA WroteElsewhere ==
  ASSUME TypeInv, NEW x \in Operands, NEW v, Wrote(x, v)
  PROVE  /\ objects'[x] = v
         /\ \A p \in Operands \ {x} : objects'[p] = objects[p]
  BY DEF TypeInv, TypeOK, Wrote

\* What is as the spec says was made of the ConfigMap that is there.
LEMMA MountIs ==
  ASSUME ListsFit, TypeInv, MountsCurrent, NEW o \in Operands, UpToSpec(o),
         Mounts[o] # NoOperand
  PROVE  /\ objects[Mounts[o]] = Made(service.spec, 0)
         /\ Mounts[o] \notin behind \/ ~Seen(Mounts[o])
<1>1. Current(o) /\ Mounts[o] \in Operands
  BY MountFacts, UpToSpecIsCurrent
<1>2. objects[o].cfg \in Nat /\ objects[o].cfg = objects[Mounts[o]].rev
  <2>1. o \notin Overlooked
    BY ConstantsAssumption
  <2> QED
    BY <1>1, <2>1 DEF UpToSpec, Kept, Made, Current, Exists, TypeInv, TypeOK, ObjectType
<1>3. Exists(Mounts[o])
  BY <1>2 DEF Exists, Absent
<1> QED
  BY <1>1, <1>3 DEF MountsCurrent

\* What has been made of a ConfigMap stays made of the one that is there.
LEMMA MountsKept ==
  ASSUME ListsFit, TypeInv, MountsCurrent, NEW x \in Operands, NEW v, Wrote(x, v),
         UNCHANGED <<service, release>>,
         Kind[x] = "ConfigMap" /\ v # Absent => v = Made(service.spec, 0) /\ x \notin behind,
         v # Absent /\ Mounts[x] # NoOperand =>
            objects[Mounts[x]] = Made(service.spec, 0) /\ Mounts[x] \notin behind
  PROVE  MountsCurrent'
<1> SUFFICES ASSUME NEW p \in Operands, Mounts[p] # NoOperand, Current(p)', Exists(Mounts[p])'
             PROVE  /\ objects'[Mounts[p]] = Made(service.spec, 0)'
                    /\ (Mounts[p] \notin behind \/ ~Seen(Mounts[p]))'
  BY DEF MountsCurrent
<1> DEFINE m == Mounts[p]
<1>1. m \in Operands /\ Kind[m] = "ConfigMap" /\ Kind[p] # "ConfigMap"
  BY MountFacts
<1>2. Made(service.spec, 0)' = Made(service.spec, 0)
  BY DEF Made
<1>3. m # x => /\ objects'[m] = objects[m]
               /\ m \in behind' => m \in behind /\ cache'[m] = cache[m]
  BY <1>1, WroteElsewhere DEF Wrote, TypeInv, TypeOK
<1>4. CASE p = x
  <2>1. v # Absent /\ m # x
    BY <1>1, <1>4, WroteElsewhere DEF Current, Exists
  <2>2. objects[m] = Made(service.spec, 0) /\ m \notin behind
    BY <1>4, <2>1
  <2> QED
    BY <1>2, <1>3, <2>1, <2>2
<1>5. CASE p # x
  <2>1. Current(p)
    BY <1>5, WroteElsewhere DEF Current, Exists
  <2>2. CASE m = x
    <3>1. objects'[m] = v /\ v = Made(service.spec, 0) /\ m \notin behind
      BY <1>1, <2>2, WroteElsewhere DEF Exists
    <3>2. cache[m] = objects[m]
      BY <1>1, <3>1 DEF TypeInv, TypeOK, CachesAgree
    <3>3. CASE objects[m] = v
      BY <1>2, <2>2, <3>1, <3>3 DEF Wrote
    <3>4. CASE objects[m] # v
      <4>1. cache[m] = Absent
        BY <2>1, <3>1, <3>2, <3>4 DEF MountsCurrent, Exists
      <4>2. m \notin behind' \/ cache'[m] = cache[m]
        BY <2>2, <3>1 DEF Wrote
      <4> QED
        BY <1>2, <3>1, <4>1, <4>2 DEF Seen
    <3> QED
      BY <3>3, <3>4
  <2>3. CASE m # x
    <3>1. Exists(m)
      BY <1>3, <2>3 DEF Exists
    <3> QED
      BY <1>2, <1>3, <2>1, <2>3, <3>1 DEF MountsCurrent, Seen
  <2> QED
    BY <2>2, <2>3
<1> QED
  BY <1>4, <1>5

\* What is as a sync leaves it stays so.
LEMMA FineKept ==
  ASSUME ListsFit, TypeInv, MountsCurrent, NEW x \in Operands, NEW v, Wrote(x, v),
         UNCHANGED <<service, release>>,
         Kind[x] = "ConfigMap" => v = Made(service.spec, 0),
         NEW p \in Operands, p # x, Fine(p)
  PROVE  Fine(p)'
<1>1. objects'[p] = objects[p]
  BY WroteElsewhere
<1>2. ASSUME UpToSpec(p) PROVE UpToSpec(p)'
  <2> DEFINE m == Mounts[p]
  <2>1. CASE m = NoOperand
    BY <1>1, <1>2, <2>1 DEF UpToSpec, Kept, Made
  <2>2. CASE m # NoOperand
    <3>1. m \in Operands /\ Kind[m] = "ConfigMap"
      BY <2>2, MountFacts
    <3>2. objects[m] = Made(service.spec, 0)
      BY <1>2, <2>2, MountIs
    <3>3. objects'[m] = objects[m]
      BY <3>1, <3>2, WroteElsewhere
    <3> QED
      BY <1>1, <1>2, <2>2, <3>3 DEF UpToSpec, Kept, Made
  <2> QED
    BY <2>1, <2>2
<1> QED
  BY <1>1, <1>2 DEF Fine, Exists

\* Where nothing is written and what the caches still lack stays so, nothing changes.
LEMMA StillMounts ==
  ASSUME UNCHANGED <<objects, release>>, service'.spec = service.spec, MountsCurrent,
         behind' \subseteq behind, \A m \in behind' : cache'[m] = cache[m]
  PROVE  MountsCurrent'
<1> SUFFICES ASSUME NEW o \in Operands, Mounts[o] # NoOperand, Current(o)', Exists(Mounts[o])'
             PROVE  /\ objects'[Mounts[o]] = Made(service.spec, 0)'
                    /\ (Mounts[o] \notin behind \/ ~Seen(Mounts[o]))'
  BY DEF MountsCurrent
<1>1. Current(o) /\ Exists(Mounts[o]) /\ Made(service.spec, 0)' = Made(service.spec, 0)
  BY DEF Current, Exists, Made
<1>2. /\ objects[Mounts[o]] = Made(service.spec, 0)
      /\ Mounts[o] \notin behind \/ ~Seen(Mounts[o])
  BY <1>1 DEF MountsCurrent
<1> QED
  BY <1>1, <1>2 DEF Seen

LEMMA StillSo ==
  ASSUME UNCHANGED <<objects, release, halted>>, service'.spec = service.spec,
         behind' \subseteq behind, \A m \in behind' : cache'[m] = cache[m]
  PROVE  /\ MountsCurrent => MountsCurrent'
         /\ GoneInOrder' <=> GoneInOrder
         /\ AppliedButSecrets' <=> AppliedButSecrets
         /\ \A o \in Operands : /\ (Fine(o)' <=> Fine(o)) /\ (Exists(o)' <=> Exists(o))
                               /\ (LeftBehind(o)' <=> LeftBehind(o))
<1>1. \A o : /\ (Exists(o)' <=> Exists(o)) /\ (UpToSpec(o)' <=> UpToSpec(o))
             /\ (Wanted(service.spec, o)' <=> Wanted(service.spec, o))
  BY DEF Exists, UpToSpec, Kept, Made, Wanted
<1>2. MountsCurrent => MountsCurrent'
  BY StillMounts
<1>3. GoneInOrder' <=> GoneInOrder
  BY <1>1 DEF GoneInOrder, Before
<1>4. \A o : LeftBehind(o)' <=> LeftBehind(o)
  BY <1>1 DEF LeftBehind
<1>5. AppliedButSecrets' <=> AppliedButSecrets
  BY <1>1, <1>4 DEF AppliedButSecrets, Applied, InOrder
<1> QED
  BY <1>1, <1>2, <1>3, <1>4, <1>5 DEF Fine

\* What is wanted, and a Secret, does not count for the order in which things go.
LEMMA GoneKept ==
  ASSUME ListsFit, TypeInv, GoneInOrder, NEW x \in Operands, NEW v, Wrote(x, v),
         UNCHANGED service, Kind[x] = "Secret" \/ Wanted(service.spec, x)
  PROVE  GoneInOrder'
<1> SUFFICES ASSUME NEW s \in Switches \ service.spec.on, NEW o \in Operands, NEW p \in Operands,
                    Before(s, o, p), Exists(p)'
             PROVE  Exists(o)'
  BY DEF GoneInOrder, Before
<1>1. o # x /\ p # x
  BY RemovalFacts DEF Before, Wanted
<1>2. Exists(p) /\ (Exists(o) => Exists(o)')
  BY <1>1, WroteElsewhere DEF Exists
<1> QED
  BY <1>2 DEF GoneInOrder

\* Where everything is in order, things have gone in order, whatever component goes next.
LEMMA OrderGone ==
  ASSUME ListsFit, TypeInv, InOrderButSecrets,
         NEW s \in Switches, NEW o \in Operands, NEW p \in Operands, Before(s, o, p), Exists(p)
  PROVE  Exists(o)
<1>1. Wanted(service.spec, p)
  BY DEF InOrderButSecrets, InOrder, Before
<1>2. Wanted(service.spec, o)
  BY <1>1, RemovalFacts DEF Wanted
<1> QED
  BY <1>2 DEF InOrderButSecrets, InOrder, Before

\* Until an uninstall ends halfway, what is applied is in order.
LEMMA AppliedIsInOrder ==
  ASSUME AppliedButSecrets, ~halted
  PROVE  InOrderButSecrets
  BY DEF AppliedButSecrets, InOrderButSecrets, Applied, LeftBehind

\* At rest nothing is being replaced.
LEMMA RestApplied ==
  ASSUME AtRest, AppliedForNow
  PROVE  AppliedButSecrets
  BY DEF AtRest, AppliedForNow, AppliedButSecrets, Replacing

\* What is being replaced still is while the operator goes on.
LEMMA StillApplied ==
  ASSUME UNCHANGED <<objects, release, halted, protected>>, service'.spec = service.spec,
         AppliedForNow,
         protected /\ (queued \/ ~At("idle")) => queued' \/ ~At("idle")'
  PROVE  AppliedForNow'
<1> SUFFICES ASSUME NEW o \in Operands, Kind[o] # "Secret"
             PROVE  Applied(o)' \/ Replacing(o)'
  BY DEF AppliedForNow
<1>1. Applied(o) \/ Replacing(o)
  BY DEF AppliedForNow
<1>2. Applied(o) => Applied(o)'
  BY DEF Applied, InOrder, LeftBehind, Exists, UpToSpec, Kept, Made, Wanted
<1>3. Replacing(o) => Replacing(o)'
  BY DEF Replacing, Churned, Exists
<1> QED
  BY <1>1, <1>2, <1>3

\* A DaemonSet that is replaced in every sync, in a step that does not touch it.
LEMMA ChurnedKept ==
  ASSUME ListsFit, NEW o \in Operands, Churned(o), InOrder(o) \/ Replacing(o),
         UNCHANGED <<service, release, protected>>, objects'[o] = objects[o],
         queued' \/ ~At("idle")'
  PROVE  InOrder(o)' \/ Replacing(o)'
<1>1. Mounts[o] = NoOperand
  BY MountFacts DEF Churned
<1>2. InOrder(o) => InOrder(o)'
  BY <1>1 DEF InOrder, Exists, UpToSpec, Kept, Made, Wanted
<1>3. Replacing(o) => Replacing(o)'
  BY DEF Replacing, Churned, Exists
<1> QED
  BY <1>2, <1>3

\* What is applied stays applied, if nothing that is in order is touched but to replace
\* it, and what is left behind is at most removed.
LEMMA AppliedKept ==
  ASSUME ListsFit, AppliedForNow, UNCHANGED <<service, release>>, halted => halted',
         \A p \in Operands : Kind[p] # "Secret" =>
            /\ InOrder(p) /\ ~Churned(p) => objects'[p] = objects[p]
            /\ objects'[p] \in {objects[p], Absent} \/ Wanted(service.spec, p)
            /\ Churned(p) /\ Wanted(service.spec, p) /\ (InOrder(p) \/ Replacing(p))
               => InOrder(p)' \/ Replacing(p)'
  PROVE  AppliedForNow'
<1> SUFFICES ASSUME NEW o \in Operands, Kind[o] # "Secret"
             PROVE  Applied(o)' \/ Replacing(o)'
  BY DEF AppliedForNow
<1>1. \A p \in Operands : Kind[p] # "Secret" => InOrder(p) \/ LeftBehind(p) \/ Replacing(p)
  BY DEF AppliedForNow, Applied
<1>2. CASE InOrder(o) /\ ~Churned(o) /\ Wanted(service.spec, o)
  <2>1. ASSUME Mounts[o] # NoOperand PROVE objects'[Mounts[o]] = objects[Mounts[o]]
    <3>1. /\ Mounts[o] \in Operands /\ Kind[Mounts[o]] = "ConfigMap"
          /\ Wanted(service.spec, Mounts[o])
      BY <1>2, <2>1, MountFacts DEF Wanted
    <3>2. Kind[Mounts[o]] # "Secret" /\ ~Churned(Mounts[o])
      BY <3>1, MountFacts DEF Churned
    <3>3. InOrder(Mounts[o])
      BY <1>1, <3>1, <3>2 DEF LeftBehind, Replacing
    <3> QED
      BY <3>1, <3>2, <3>3
  <2>2. objects'[o] = objects[o]
    BY <1>2
  <2>3. UpToSpec(o)' <=> UpToSpec(o)
    BY <2>1, <2>2 DEF UpToSpec, Kept, Made
  <2> QED
    BY <1>2, <2>2, <2>3 DEF Applied, InOrder, Exists, Wanted
<1>3. CASE ~Exists(o) /\ ~Wanted(service.spec, o)
  BY <1>3 DEF Applied, InOrder, Exists, Wanted
<1>4. CASE LeftBehind(o)
  <2>1. PICK s \in Switches \ service.spec.on, p \in Operands :
           /\ {o, p} \subseteq Removes[s] /\ Kind[o] = Kind[p] /\ Listed[p] < Listed[o]
           /\ ~Exists(p)
    BY <1>4 DEF LeftBehind
  <2>2. ~Wanted(service.spec, p)
    <3>1. CASE InOrder(p) \/ LeftBehind(p)
      BY <2>1, <3>1 DEF InOrder, LeftBehind
    <3>2. CASE Replacing(p)
      <4>1. Kind[p] \in UninstallKinds
        BY <3>2, UninstallPlaces DEF Replacing, Churned
      <4> QED
        BY <2>1, <4>1, RemovalFacts DEF Wanted
    <3> QED
      BY <1>1, <2>1, <3>1, <3>2
  <2>3. ~Exists(p)'
    BY <2>1, <2>2 DEF Exists
  <2> QED
    BY <1>4, <2>1, <2>3 DEF Applied, LeftBehind, Wanted
<1>5. CASE Churned(o) /\ Wanted(service.spec, o) /\ (InOrder(o) \/ Replacing(o))
  BY <1>5 DEF Applied
<1> QED
  BY <1>1, <1>2, <1>3, <1>4, <1>5 DEF InOrder, Replacing

(* A step of a sync *)

\* What an operand should look like, made of the latest spec and copies.
LEMMA DesiredIs ==
  ASSUME TypeInv, NEW o \in Operands, worker.spec = service.spec,
         Mounts[o] # NoOperand => Mounts[o] \in Operands \ behind
  PROVE  Desired(o) = Made(service.spec,
                           IF Mounts[o] = NoOperand THEN 0 ELSE objects[Mounts[o]].rev)
<1>1. Mounts[o] # NoOperand => cache[Mounts[o]] = objects[Mounts[o]]
  BY DEF TypeInv, TypeOK, CachesAgree
<1> QED
  BY <1>1 DEF Desired

\* An operand that is in order and has come up for sync is found to be.
LEMMA InOrderDesired ==
  ASSUME ListsFit, TypeInv, MountsCurrent, worker.spec = service.spec,
         NEW o \in InstallPlan(service.spec), InOrder(o), Kind[o] # "Secret", ~MountMissing(o)
  PROVE  /\ Exists(o)
         /\ Kind[o] \notin CreatedUnseen \union CreatedOnce =>
               objects[o] = Kept(o, objects[o], Desired(o))
<1>1. o \in Operands /\ Wanted(service.spec, o)
  BY DEF InstallPlan
<1>2. Exists(o)
  BY <1>1 DEF InOrder
<1>3. ASSUME Kind[o] \notin CreatedUnseen \union CreatedOnce
      PROVE  objects[o] = Kept(o, objects[o], Desired(o))
  <2>1. UpToSpec(o)
    BY <1>1, <1>3 DEF InOrder
  <2>2. Mounts[o] # NoOperand => Mounts[o] \in Operands \ behind
    BY <1>1, <2>1, MountFacts, MountIs DEF MountMissing
  <2> QED
    BY <1>1, <2>1, <2>2, DesiredIs DEF UpToSpec
<1> QED
  BY <1>2, <1>3

\* A sync leaves alone what is in order.
LEMMA SyncSpares ==
  ASSUME ListsFit, TypeInv, Undisturbed, SyncOperand,
         Kind[NextOperand] \in Replaced => NextOperand \notin behind,
         NEW p \in Operands, InOrder(p), Kind[p] # "Secret", ~Churned(p)
  PROVE  objects'[p] = objects[p]
<1> DEFINE o == NextOperand
<1>1. SyncOutcome(o)
  BY SyncSteps
<1>2. worker.spec = service.spec /\ MountsCurrent /\ InSync
  BY DEF SyncOperand, Undisturbed, LatestSpec, Syncing, At
<1>3. o \in Operands /\ o \in InstallPlan(service.spec)
  BY <1>1, <1>2 DEF SyncOutcome, InSync
<1>4. /\ At("refresh") => Kind[o] = "ConfigMap" /\ ~Current(Refreshes[o])
      /\ At("replace") => ~Exists(o)
  BY <1>2 DEF InSync
<1>5. Kind[o] \in Replaced => o \notin behind
  OBVIOUS
<1> HIDE DEF o
<1>6. CASE Stops \/ NoWrite
  BY <1>6 DEF Stops, Requeue, NoWrite, objectVars
<1>7. CASE Installs(o)
  <2>1. /\ ~MountMissing(o) /\ Desired(o) \in ObjectType /\ (At("sync") \/ At("replace"))
        /\ Kind[o] \in CreatedUnseen \union CreatedOnce => ~Exists(o)
    BY <1>7 DEF Installs
  <2>2. PICK v \in ObjectType : Wrote(o, v) /\ WrittenAs(o, v)
    BY <1>7 DEF Installs
  <2>3. ASSUME p = o PROVE v = objects[o]
    <3>1. Exists(o) /\ objects[o] = Kept(o, objects[o], Desired(o))
      BY <1>2, <1>3, <2>1, <2>3, InOrderDesired
    <3>2. CASE v = Desired(o) /\ o \notin Overlooked
      BY <1>3, <2>1, <3>1, <3>2, KeptIs
    <3>3. CASE v = Kept(o, cache[o], Desired(o)) /\ o \notin behind
      BY <1>3, <3>1, <3>3 DEF TypeInv, TypeOK, CachesAgree
    <3> QED
      BY <1>4, <2>1, <2>2, <3>1, <3>2, <3>3 DEF WrittenAs
  <2> QED
    BY <1>3, <2>2, <2>3, WroteElsewhere
<1>8. CASE Deletes(o)
  <2>1. /\ Wrote(o, Absent) /\ Kind[o] \in Replaced
        /\ p = o => cache[o] # Kept(o, cache[o], Desired(o))
    BY <1>8 DEF Deletes, MisMatch, Churned
  <2>2. cache[o] = objects[o]
    BY <1>3, <1>5, <2>1 DEF TypeInv, TypeOK, CachesAgree
  <2>3. ~MountMissing(o)
    BY <1>3, <2>1, MountFacts DEF MountMissing
  <2>4. p # o
    BY <1>2, <1>3, <2>1, <2>2, <2>3, InOrderDesired, MountFacts
  <2> QED
    BY <1>3, <2>1, <2>4, WroteElsewhere
<1>9. CASE DeletesRefreshed(o)
  <2> DEFINE x == Refreshes[o]
  <2>1. x \in Operands /\ ~Current(x) /\ Kind[o] = "ConfigMap"
    BY <1>4, <1>9 DEF DeletesRefreshed
  <2>2. x # NoOperand
    BY <2>1, ConstantsAssumption
  <2>3. Needs[x] = Needs[o] /\ Kind[x] \in {"Deployment", "StatefulSet"}
    BY <1>3, <2>2, MountFacts
  <2>4. Wanted(service.spec, x) /\ Kind[x] \notin CreatedUnseen \union CreatedOnce
    BY <1>3, <2>1, <2>3, MountFacts DEF InstallPlan, Wanted
  <2>5. p # x
    BY <1>3, <2>1, <2>2, <2>4, UpToSpecIsCurrent, MountFacts, ConstantsAssumption DEF InOrder
  <2> QED
    BY <1>6, <1>9, <2>1, <2>5, WroteElsewhere DEF DeletesRefreshed
<1> QED
  BY <1>1, <1>6, <1>7, <1>8, <1>9 DEF SyncOutcome, Keeps

\* A sync makes nothing, but for Secrets, that is not wanted.
LEMMA SyncMakesWanted ==
  ASSUME ListsFit, TypeInv, Undisturbed, SyncOperand,
         NEW p \in Operands, Kind[p] # "Secret"
  PROVE  objects'[p] \in {objects[p], Absent} \/ Wanted(service.spec, p)
<1> DEFINE o == NextOperand
<1>1. SyncOutcome(o)
  BY SyncSteps
<1>2. o \in Operands /\ (Kind[o] = "Secret" \/ Wanted(service.spec, o))
  BY <1>1
  DEF SyncOutcome, SyncOperand, Undisturbed, LatestSpec, Syncing, At, InSync, InstallPlan
<1> HIDE DEF o
<1>3. CASE Stops \/ NoWrite
  BY <1>3 DEF Stops, Requeue, NoWrite, objectVars
<1>4. CASE Installs(o)
  BY <1>2, <1>4, WroteElsewhere DEF Installs
<1>5. CASE Deletes(o)
  BY <1>2, <1>5, WroteElsewhere DEF Deletes
<1>6. CASE DeletesRefreshed(o)
  BY <1>3, <1>6, WroteElsewhere DEF DeletesRefreshed
<1> QED
  BY <1>1, <1>3, <1>4, <1>5, <1>6 DEF SyncOutcome, Keeps

\* A sync that works from current copies keeps the invariant: what it has written is as
\* it should be and was made of the ConfigMaps that are there.
LEMMA SyncCalm ==
  ASSUME ListsFit, TypeInv, Undisturbed, SyncOperand,
         UNCHANGED <<protected, release, halted>>, ~ReadsStale(NextOperand)
  PROVE  Undisturbed'
<1>0. PICK o \in Operands : o = NextOperand
  BY SyncSteps DEF SyncOutcome
<1> DEFINE todo == worker.todo
<1>1. SyncOutcome(o)
  BY <1>0, SyncSteps
<1>2. /\ worker.spec = service.spec /\ cached.spec = service.spec
      /\ MountsCurrent /\ InSync /\ (~halted => GoneInOrder) /\ Syncing
  BY DEF SyncOperand, Undisturbed, LatestSpec, Syncing, At
<1>3. o \in Operands /\ o \in todo /\ o \in InstallPlan(service.spec)
  BY <1>1, <1>2 DEF SyncOutcome, InSync
<1>4. o \notin behind /\ Mounts[o] \notin behind /\ cache[o] = objects[o]
  BY <1>0, <1>3 DEF ReadsStale, TypeInv, TypeOK, CachesAgree
<1>5. At("refresh") => Fine(o) /\ Kind[o] = "ConfigMap" /\ ~Current(Refreshes[o])
  BY <1>0, <1>2 DEF InSync
<1>6. UNCHANGED <<service, cached, stale, first, release>>
  BY <1>1 DEF SyncOutcome, serviceVars
<1>7. \A p \in Operands : InOrder(p) /\ Kind[p] # "Secret" /\ ~Churned(p)
         => objects'[p] = objects[p]
  BY <1>0, <1>4, SyncSpares
<1>9. \* The ConfigMap it mounts has been dealt with.
      Mounts[o] # NoOperand =>
         /\ Mounts[o] \in Operands \ behind
         /\ objects[Mounts[o]] = Made(service.spec, 0)
  <2> SUFFICES ASSUME Mounts[o] # NoOperand
               PROVE  Mounts[o] \in Operands /\ objects[Mounts[o]] = Made(service.spec, 0)
    BY <1>4
  <2> DEFINE m == Mounts[o]
  <2>1. /\ m \in Operands /\ Kind[m] = "ConfigMap" /\ Needs[m] \subseteq Needs[o]
        /\ Kind[o] # "Secret"
    BY <1>3, MountFacts
  <2>2. m \in InstallPlan(service.spec)
    BY <1>3, <2>1 DEF InstallPlan, Wanted
  <2>3. m \notin todo
    BY <1>0, <1>3, ConfigMapFirst DEF NextOperand, TypeInv, TypeOK, WorkerType
  <2>4. Fine(m)
    BY <1>2, <2>2, <2>3 DEF InSync
  <2>5. UpToSpec(m) /\ Mounts[m] = NoOperand
    BY <2>1, <2>4, MountFacts DEF Fine
  <2> QED
    BY <2>1, <2>5, ConstantsAssumption DEF UpToSpec, Kept
<1>10. Desired(o) = Made(service.spec,
                         IF Mounts[o] = NoOperand THEN 0 ELSE objects[Mounts[o]].rev)
  BY <1>2, <1>3, <1>9, DesiredIs
<1>11. Kind[o] = "ConfigMap" => Desired(o) = Made(service.spec, 0)
  BY <1>3, <1>10, MountFacts
<1>12. worker \in WorkerType
  BY DEF TypeInv, TypeOK
\* An operand that has been written is as it should be.
<1>a. ASSUME Installs(o) PROVE Fine(o)'
  <2>1. PICK v \in ObjectType : Wrote(o, v) /\ WrittenAs(o, v)
    BY <1>a DEF Installs
  <2>2. Desired(o) \in ObjectType /\ v = Kept(o, v, Desired(o))
    BY <1>a, <1>3, <2>1, KeptIs DEF Installs, WrittenAs
  <2>3. objects'[o] = v /\ v # Absent
    BY <1>3, <2>1, WroteElsewhere DEF ObjectType, Absent
  <2>4. Mounts[o] # NoOperand => objects'[Mounts[o]] = objects[Mounts[o]]
    BY <1>3, <2>1, WroteElsewhere, MountFacts
  <2>5. UpToSpec(o)'
    <3> DEFINE config == IF Mounts[o] = NoOperand THEN 0 ELSE objects[Mounts[o]].rev
    <3>1. Made(service.spec, config)' = Desired(o)
      BY <1>6, <1>10, <2>4 DEF Made
    <3> QED
      BY <2>2, <2>3, <3>1 DEF UpToSpec, Kept
  <2> QED
    BY <2>3, <2>5 DEF Fine, Exists
\* What was applied stays so, but for what is replaced.
<1>b. queued' \/ worker'.pc # "idle"
  BY <1>1, <1>12 DEF SyncOutcome, Stops, Requeue, Keeps, Installs, Deletes, DeletesRefreshed,
                     Advance, Goto, WorkerType
<1>8. RecordedApplied'
  <2> SUFFICES ASSUME first, service.recorded = service.spec PROVE AppliedForNow'
    BY <1>6 DEF RecordedApplied
  <2>1. AppliedForNow /\ protected
    BY <1>2 DEF Undisturbed, RecordedApplied, InSync
  <2>2. ASSUME NEW p \in Operands, Churned(p), Wanted(service.spec, p),
               InOrder(p) \/ Replacing(p)
        PROVE  InOrder(p)' \/ Replacing(p)'
    <3>1. CASE objects'[p] = objects[p]
      BY <1>6, <1>b, <2>2, <3>1, ChurnedKept DEF At
    <3>2. CASE p = o /\ Installs(o)
      BY <1>6, <1>a, <2>2, <3>2 DEF Fine, InOrder, Wanted
    <3>3. CASE p = o /\ Deletes(o)
      <4>1. ~Exists(o)'
        BY <1>3, <3>3, WroteElsewhere DEF Deletes, Exists
      <4> QED
        BY <1>b, <2>1, <2>2, <3>3, <4>1 DEF Replacing, Churned, At
    <3>4. CASE NoWrite \/ Stops
      BY <3>1, <3>4 DEF NoWrite, Stops, Requeue, objectVars
    <3>5. CASE p # o /\ (Installs(o) \/ Deletes(o))
      BY <1>3, <3>1, <3>5, WroteElsewhere DEF Installs, Deletes
    <3>6. CASE DeletesRefreshed(o)
      <4>1. Refreshes[o] \in Operands /\ Refreshes[o] # NoOperand
        BY <3>6, ConstantsAssumption DEF DeletesRefreshed
      <4>2. p # Refreshes[o]
        BY <1>3, <2>2, <4>1, MountFacts DEF Churned
      <4> QED
        BY <3>1, <3>4, <3>6, <4>1, <4>2, WroteElsewhere DEF DeletesRefreshed
    <3> QED
      BY <1>1, <3>2, <3>3, <3>4, <3>5, <3>6 DEF SyncOutcome, Keeps
  <2> QED
    BY <1>6, <1>7, <2>1, <2>2, AppliedKept, SyncMakesWanted
<1> DEFINE Calm == MountsCurrent' /\ (~halted => GoneInOrder')
           Left(D) == \A p \in D : Fine(p)'
           plan == InstallPlan(service.spec)
\* What has been written.
<1>13. ASSUME NEW x \in plan, NEW v, Wrote(x, v),
              Kind[x] = "ConfigMap" => v = Made(service.spec, 0),
              v = Absent \/ x = o
       PROVE  Calm /\ Left(plan \ (todo \union {x}))
  <2>1. x \in Operands /\ (Kind[x] = "Secret" \/ Wanted(service.spec, x))
    BY DEF InstallPlan
  <2>2. MountsCurrent'
    BY <1>2, <1>4, <1>6, <1>9, <1>13, <2>1, MountsKept
  <2>3. ~halted => GoneInOrder'
    BY <1>2, <1>6, <1>13, <2>1, GoneKept
  <2>4. ASSUME NEW p \in plan \ (todo \union {x}) PROVE Fine(p)'
    <3>1. p \in Operands /\ Fine(p)
      BY <1>2, <2>4 DEF InstallPlan, InSync
    <3> QED
      BY <1>2, <1>6, <1>13, <2>1, <2>4, <3>1, FineKept
  <2> QED
    BY <2>2, <2>3, <2>4
<1>14. ASSUME NoWrite \/ Stops PROVE Calm /\ \A p \in Operands : Fine(p)' <=> Fine(p)
  <2>1. UNCHANGED <<objects, cache, behind>>
    BY <1>14 DEF NoWrite, Stops, Requeue, objectVars
  <2> QED
    BY <1>2, <1>6, <2>1, StillSo
\* How the worker goes on.
<1>15. ASSUME Calm, worker'.spec = worker.spec, worker'.todo \subseteq worker.todo,
              Left(plan \ worker'.todo), worker'.pc \in {"sync", "refresh", "replace"},
              worker'.pc = "refresh" =>
                 /\ Fine(NextOperand)' /\ Kind[NextOperand'] = "ConfigMap"
                 /\ ~Current(Refreshes[NextOperand])',
              worker'.pc = "replace" => ~Exists(NextOperand)'
       PROVE  Undisturbed'
  <2>1. InstallPlan(worker.spec)' = plan
    BY <1>2, <1>15 DEF InstallPlan, Wanted
  <2>2. InSync'
    BY <1>2, <1>6, <1>15, <2>1 DEF InSync, At
  <2>3. LatestSpec' /\ LatestRecord' /\ RestRecorded'
    BY <1>2, <1>6, <1>15 DEF LatestSpec, LatestRecord, RestRecorded, AtRest, At
  <2> QED
    BY <1>8, <1>15, <2>2, <2>3 DEF Undisturbed, At
<1>16. CASE Stops
  <2>1. worker' = Idle /\ queued' = TRUE /\ Idle.pc = "idle"
    BY <1>16 DEF Stops, Requeue, Idle
  <2> QED
    BY <1>8, <1>14, <1>16, <2>1
    DEF Undisturbed, LatestSpec, LatestRecord, RestRecorded, AtRest, At, Syncing
<1>17. ASSUME Advance(o) PROVE /\ worker'.spec = worker.spec /\ worker'.todo = todo \ {o}
                               /\ worker'.pc = "sync"
  BY <1>12, <1>17 DEF Advance, WorkerType
<1>18. ASSUME Advance(o), Calm, Left(plan \ (todo \union {o})), Fine(o)' PROVE Undisturbed'
  <2>1. Left(plan \ worker'.todo)
    BY <1>17, <1>18
  <2> QED
    BY <1>15, <1>17, <1>18, <2>1
<1>19. CASE Keeps(o)
  <2>1. Fine(o)
    <3>1. CASE Exists(o) /\ Kind[o] \in CreatedUnseen \union CreatedOnce
      BY <3>1 DEF Fine
    <3>2. CASE Exists(o) /\ ~MisMatch(o)
      BY <1>4, <1>10, <3>2 DEF Fine, UpToSpec, MisMatch
    <3> QED
      BY <1>4, <1>19, <3>1, <3>2 DEF Keeps, Seen, Exists
  <2>2. Left(plan \ (todo \union {o})) /\ Fine(o)' /\ Calm
    BY <1>2, <1>3, <1>14, <1>19, <2>1 DEF Keeps, InSync, InstallPlan
  <2> QED
    BY <1>18, <1>19, <2>2 DEF Keeps
<1>20. CASE Installs(o)
  <2>0. PICK v \in ObjectType : Wrote(o, v) /\ WrittenAs(o, v)
    BY <1>20 DEF Installs
  <2>1. Kind[o] = "ConfigMap" => v = Made(service.spec, 0)
    BY <1>3, <1>11, <1>20, <2>0, KeptIs DEF Installs, WrittenAs
  <2>2. Calm /\ Left(plan \ (todo \union {o}))
    BY <1>3, <1>13, <2>0, <2>1
  <2>3. Fine(o)'
    BY <1>a, <1>20
  <2>4. CASE Advance(o)
    BY <1>18, <2>2, <2>3, <2>4
  <2>5. CASE /\ Refreshes[o] # NoOperand /\ Seen(o) /\ (Kind[o] = "ConfigMap" => MisMatch(o))
             /\ Goto("refresh")
    <3>1. /\ worker'.spec = worker.spec /\ worker'.todo = todo /\ worker'.pc = "refresh"
      BY <1>12, <2>5 DEF Goto, WorkerType
    <3>2. NextOperand' = o
      BY <1>0, <3>1 DEF NextOperand
    <3>3. /\ Kind[o] = "ConfigMap" /\ Refreshes[o] \in Operands /\ Mounts[Refreshes[o]] = o
          /\ Refreshes[o] # o
      BY <1>3, <2>5, MountFacts
    <3>4. objects[o] # Made(service.spec, 0)
      BY <1>3, <1>4, <1>11, <2>5, <3>3, ConstantsAssumption DEF MisMatch, Kept
    <3>5. ~Current(Refreshes[o])
      BY <1>2, <1>3, <1>4, <2>5, <3>3, <3>4, ConstantsAssumption
      DEF MountsCurrent, Exists, Seen
    <3>6. ~Current(Refreshes[o])'
      BY <1>3, <1>6, <2>0, <3>3, <3>5, WroteElsewhere DEF Current, Exists
    <3>7. Left(plan \ worker'.todo)
      BY <1>3, <2>2, <3>1
    <3>8. Fine(NextOperand)' /\ ~Current(Refreshes[NextOperand])'
      BY <2>3, <3>2, <3>6 DEF Fine, Current, Exists, UpToSpec
    <3> QED
      BY <1>15, <2>2, <3>1, <3>2, <3>3, <3>7, <3>8
  <2> QED
    BY <1>20, <2>4, <2>5 DEF Installs
<1>21. CASE Deletes(o)
  <2>1. Wrote(o, Absent) /\ Kind[o] # "ConfigMap"
    BY <1>3, <1>21, MountFacts DEF Deletes
  <2>2. Calm /\ Left(plan \ (todo \union {o}))
    BY <1>3, <1>13, <2>1
  <2>3. worker'.spec = worker.spec /\ worker'.todo = todo /\ worker'.pc = "replace"
    BY <1>12, <1>21 DEF Deletes, Goto, WorkerType
  <2>4. Left(plan \ worker'.todo)
    BY <1>3, <2>2, <2>3
  <2>5. NextOperand' = o /\ ~Exists(o)'
    BY <1>0, <1>3, <2>1, <2>3, WroteElsewhere DEF NextOperand, Exists
  <2> QED
    BY <1>15, <2>2, <2>3, <2>4, <2>5 DEF Exists
<1>22. CASE DeletesRefreshed(o)
  <2> DEFINE x == Refreshes[o]
  <2>1. At("refresh") /\ Advance(o) /\ x \in Operands /\ (Wrote(x, Absent) \/ NoWrite)
    BY <1>22 DEF DeletesRefreshed
  <2>2. x # NoOperand /\ Fine(o) /\ ~Current(x) /\ Kind[o] = "ConfigMap"
    BY <1>5, <2>1, ConstantsAssumption
  <2>3. Needs[x] = Needs[o] /\ Kind[x] \in {"Deployment", "StatefulSet"} /\ x # o
    BY <1>3, <2>2, MountFacts
  <2>4. x \in plan
    BY <1>3, <2>1, <2>2, <2>3 DEF InstallPlan, Wanted
  <2>5. x \in todo
    <3>1. Kind[x] \notin CreatedUnseen \union CreatedOnce
      BY <2>1, <2>3, MountFacts
    <3>2. ~Fine(x)
      BY <1>3, <2>1, <2>2, <3>1, UpToSpecIsCurrent, MountFacts, ConstantsAssumption DEF Fine
    <3> QED
      BY <1>2, <2>4, <3>2 DEF InSync
  <2>6. CASE Wrote(x, Absent)
    <3>1. Calm /\ Left(plan \ (todo \union {x}))
      BY <1>13, <2>3, <2>4, <2>6
    <3>2. Fine(o)'
      BY <1>2, <1>3, <1>6, <2>1, <2>2, <2>3, <2>6, FineKept
    <3> QED
      BY <1>18, <2>1, <2>5, <3>1, <3>2
  <2>7. CASE NoWrite
    <3>1. Left(plan \ (todo \union {o})) /\ Fine(o)' /\ Calm
      BY <1>2, <1>3, <1>14, <2>2, <2>7 DEF InSync, InstallPlan
    <3> QED
      BY <1>18, <2>1, <3>1
  <2> QED
    BY <2>1, <2>6, <2>7
<1> QED
  BY <1>1, <1>16, <1>19, <1>20, <1>21, <1>22 DEF SyncOutcome

(* A step of an uninstall *)

\* What comes first on the list to uninstall, seen from everything else on it.
LEMMA FirstRemoved ==
  ASSUME TypeInv, UninstallNext, worker.drop \subseteq UninstallPlan(worker.spec),
         NEW s \in Switches, NEW o \in Operands, <<s, o>> \in worker.drop
  PROVE  LET p == NextRemoval IN
         /\ SwitchRank[p[1]] <= SwitchRank[s]
         /\ p[1] = s => UninstallPlace[Kind[p[2]]] <= UninstallPlace[Kind[o]]
         /\ p[1] = s /\ Kind[p[2]] = Kind[o] /\ p[2] # o => Listed[p[2]] < Listed[o]
         /\ SwitchRank[p[1]] = SwitchRank[s] => p[1] = s
<1> DEFINE p == NextRemoval
<1>1. UninstallOutcome(p)
  BY UninstallSteps
<1>2. \A q \in worker.drop \ {p} : UninstalledBefore(p, q)
  BY NextRemovalIs DEF TypeInv, AtWork, TypeOK, WorkerType, UninstallNext
<1> HIDE DEF p
<1>3. p \in worker.drop /\ p[1] \in Switches /\ p[2] \in Operands
  BY <1>1 DEF UninstallOutcome
<1>4. Kind[p[2]] \in UninstallKinds /\ Kind[o] \in UninstallKinds
  BY <1>3 DEF UninstallPlan
<1>5. /\ SwitchRank[p[1]] \in Nat /\ SwitchRank[s] \in Nat
      /\ Listed[p[2]] \in Nat /\ Listed[o] \in Nat
      /\ SwitchRank[p[1]] = SwitchRank[s] => p[1] = s
  BY <1>3, ConstantsAssumption
<1>6. UninstallPlace[Kind[p[2]]] \in Nat /\ UninstallPlace[Kind[o]] \in Nat
  BY <1>4, UninstallPlaces
<1>7. CASE p = <<s, o>>
  BY <1>5, <1>6, <1>7 DEF p
<1>8. CASE p # <<s, o>>
  <2>1. UninstalledBefore(p, <<s, o>>)
    BY <1>2, <1>8
  <2> QED
    BY <1>5, <1>6, <2>1 DEF UninstalledBefore, p
<1> QED
  BY <1>7, <1>8

\* An uninstall that works from current copies keeps the invariant.  What it stops at,
\* because it is not there, is the first of its kind that was listed: the rest of it,
\* which it skips, is gone, or will be with another component, unless an uninstall has
\* ended halfway.
LEMMA UninstallCalm ==
  ASSUME ListsFit, TypeInv, Undisturbed, UninstallNext, UNCHANGED <<protected, release>>,
         ~(Kind[NextRemoval[2]] \in LookedUp /\ NextRemoval[2] \in behind)
  PROVE  Undisturbed'
<1>0. PICK p : p = NextRemoval
  OBVIOUS
<1> DEFINE a == p[1]
           o == p[2]
           drop == worker.drop
           plan == UninstallPlan(service.spec)
<1>1. UninstallOutcome(p)
  BY <1>0, UninstallSteps
<1>2. At("uninstall") /\ p \in drop /\ a \in Switches /\ o \in Operands
  BY <1>1 DEF UninstallOutcome
<1>3. /\ worker.spec = service.spec /\ cached.spec = service.spec
      /\ MountsCurrent /\ InUninstall
  BY <1>2 DEF Undisturbed, LatestSpec, At
<1>4. UNCHANGED <<service, cached, stale, first, release>>
  BY <1>1 DEF UninstallOutcome, serviceVars
<1>5. drop \subseteq plan
  BY <1>3 DEF InUninstall
<1>6. \A s \in Switches, q \in Operands : <<s, q>> \in plan <=>
         s \notin service.spec.on /\ q \in Removes[s] /\ Kind[q] \in UninstallKinds
  BY DEF UninstallPlan
<1>7. p = <<a, o>> /\ a \notin service.spec.on /\ o \in Removes[a] /\ Kind[o] \in UninstallKinds
  BY <1>2, <1>5 DEF UninstallPlan
<1>8. \A s \in Switches, r \in Operands : <<s, r>> \in plan \ drop =>
         Kind[r] = "Secret" \/ ~Exists(r) \/ LeftBehind(r)
  BY <1>3 DEF InUninstall
<1>9. a \in Needs[o] /\ ~Wanted(service.spec, o)
  BY <1>2, <1>7, RemovalFacts DEF Wanted
<1>10. worker \in WorkerType /\ halted \in BOOLEAN
  BY DEF TypeInv, TypeOK
\* What is not wanted is at most removed, and what is left behind stays so.
<1>11. /\ halted => halted'
       /\ \A q \in Operands : objects'[q] \in {objects[q], Absent}
       /\ \A q \in Operands : objects'[q] # objects[q] => q = o /\ Exists(o)
  <2>1. CASE Wrote(o, Absent) /\ Exists(o) /\ UNCHANGED halted
    BY <1>2, <2>1, WroteElsewhere
  <2>2. CASE objects' = objects /\ (halted => halted')
    BY <2>2
  <2> QED
    BY <1>1, <2>1, <2>2 DEF UninstallOutcome, Stops, Requeue, NoWrite, objectVars
<1>12. \A q \in Operands :
          /\ Exists(q)' => Exists(q)
          /\ LeftBehind(q) => LeftBehind(q)'
  <2>1. \A q \in Operands : Exists(q)' => Exists(q)
    BY <1>11 DEF Exists
  <2> QED
    BY <1>4, <1>11, <2>1 DEF LeftBehind, Wanted
<1>13. RecordedApplied'
  <2> SUFFICES ASSUME first, service.recorded = service.spec PROVE AppliedForNow'
    BY <1>4 DEF RecordedApplied
  <2>1. AppliedForNow
    BY DEF Undisturbed, RecordedApplied
  <2>2. \A q \in Operands : InOrder(q) \/ Wanted(service.spec, q) => objects'[q] = objects[q]
    BY <1>9, <1>11 DEF InOrder
  <2>3. queued' \/ ~At("idle")'
    BY <1>1, <1>2, <1>10
    DEF UninstallOutcome, Stops, Requeue, Dropped, WorkerType, At
  <2>4. \A q \in Operands :
           Churned(q) /\ Wanted(service.spec, q) /\ (InOrder(q) \/ Replacing(q))
           => InOrder(q)' \/ Replacing(q)'
    BY <1>4, <2>2, <2>3, ChurnedKept
  <2> QED
    BY <1>4, <1>11, <2>1, <2>2, <2>4, AppliedKept
<1>14. MountsCurrent' /\ \A q \in Operands : Wanted(service.spec, q) => Fine(q)'
  <2>1. \A q \in Operands : Wanted(service.spec, q) => Fine(q)
    BY <1>3 DEF InUninstall
  <2>2. CASE Wrote(o, Absent)
    <3>1. MountsCurrent'
      BY <1>2, <1>3, <1>4, <2>2, MountsKept
    <3>2. ASSUME NEW q \in Operands, Wanted(service.spec, q) PROVE Fine(q)'
      <4>1. Fine(q) /\ q # o /\ objects'[q] = objects[q]
        BY <1>2, <1>9, <2>1, <2>2, <3>2, WroteElsewhere
      <4>2. ASSUME Mounts[q] # NoOperand PROVE objects'[Mounts[q]] = objects[Mounts[q]]
        <5>1. Mounts[q] \in Operands /\ Wanted(service.spec, Mounts[q])
          BY <3>2, <4>2, MountFacts DEF Wanted
        <5> QED
          BY <1>2, <1>9, <2>2, <5>1, WroteElsewhere
      <4> QED
        BY <1>4, <4>1, <4>2 DEF Fine, UpToSpec, Kept, Made, Exists
    <3> QED
      BY <3>1, <3>2
  <2>3. CASE UNCHANGED <<objects, cache, behind>>
    <3>1. MountsCurrent'
      BY <1>3, <1>4, <2>3, StillMounts
    <3>2. \A q \in Operands : Fine(q)' <=> Fine(q)
      BY <1>4, <2>3 DEF Fine, UpToSpec, Kept, Made, Exists
    <3> QED
      BY <2>1, <3>1, <3>2
  <2> QED
    BY <1>1, <2>2, <2>3 DEF UninstallOutcome, Stops, Requeue, NoWrite, objectVars
\* What InUninstall says of those still to be removed.
<1>15. ASSUME NEW s \in Switches, NEW q \in Operands, NEW r \in Operands,
              <<s, q>> \in drop, <<s, r>> \in drop, Before(s, q, r), Exists(r), ~Exists(q)
       PROVE  \/ \E t \in Switches : <<t, r>> \in drop /\ SwitchRank[t] < SwitchRank[s]
              \/ halted
  BY <1>3, <1>15 DEF InUninstall
\* Nothing is missed of the kind the first one belongs to.
<1>16. ASSUME ~Exists(o), NEW r \in Operands, <<a, r>> \in drop, Kind[r] = Kind[o],
              Kind[o] # "Secret"
       PROVE  ~Exists(r) \/ LeftBehind(r)
  <2> SUFFICES ASSUME Exists(r) PROVE LeftBehind(r)
    OBVIOUS
  <2>1. Listed[o] < Listed[r] /\ r \in Removes[a]
    BY <1>0, <1>2, <1>3, <1>5, <1>6, <1>16, FirstRemoved
  <2>2. Before(a, o, r)
    BY <1>7, <1>16, <2>1 DEF Before
  <2>3. ASSUME NEW t \in Switches, <<t, r>> \in drop, SwitchRank[t] < SwitchRank[a]
        PROVE  FALSE
    <3>1. SwitchRank[a] <= SwitchRank[t]
      BY <1>0, <1>3, <1>5, <2>3, FirstRemoved
    <3> QED
      BY <1>2, <2>3, <3>1, ConstantsAssumption
  <2>4. halted
    BY <1>2, <1>7, <1>15, <1>16, <2>2, <2>3
  <2>5. ~Wanted(service.spec, r)
    BY <1>2, <1>7, <1>16, <2>1, RemovalFacts DEF Wanted
  <2> QED
    BY <1>2, <1>7, <1>16, <2>1, <2>4, <2>5 DEF LeftBehind
\* How the worker goes on.
<1>17. ASSUME NEW D, Dropped(D), UNCHANGED halted, p \in D, ~Exists(o)',
              \A s \in Switches, r \in Operands : <<s, r>> \in D \intersect drop =>
                 Kind[r] = "Secret" \/ ~Exists(r)' \/ LeftBehind(r)'
       PROVE  Undisturbed'
  <2>1. worker'.spec = worker.spec /\ worker'.drop = drop \ D /\ worker'.pc = "uninstall"
    BY <1>2, <1>10, <1>17 DEF Dropped, WorkerType, At
  <2>2. /\ UninstallPlan(worker.spec)' = plan
        /\ \A q \in Operands : Wanted(worker.spec, q)' <=> Wanted(service.spec, q)
    BY <1>3, <2>1 DEF UninstallPlan, Wanted
  <2>3. worker'.drop \subseteq UninstallPlan(worker.spec)'
    BY <1>5, <2>1, <2>2
  <2>4. \A q \in Operands : Wanted(worker.spec, q)' => Fine(q)'
    BY <1>14, <2>2
  <2>5. ASSUME NEW s \in Switches, NEW r \in Operands, <<s, r>> \in plan \ (drop \ D)
        PROVE  Kind[r] = "Secret" \/ ~Exists(r)' \/ LeftBehind(r)'
    BY <1>8, <1>12, <1>17, <2>5
  <2>6. ASSUME NEW s \in Switches, NEW q \in Operands, NEW r \in Operands,
               <<s, q>> \in drop \ D, <<s, r>> \in drop \ D,
               Before(s, q, r), Exists(r)', ~Exists(q)', ~halted
        PROVE  \E t \in Switches : <<t, r>> \in drop \ D /\ SwitchRank[t] < SwitchRank[s]
    <3>1. Exists(r) /\ r # o /\ Kind[r] # "Secret"
      BY <1>12, <1>17, <2>6 DEF Before
    <3>2. \A t \in Switches : <<t, r>> \in drop => <<t, r>> \notin D
      BY <1>17, <2>6, <3>1 DEF LeftBehind
    <3>3. CASE ~Exists(q)
      BY <1>15, <2>6, <3>1, <3>2, <3>3
    <3>4. CASE Exists(q)
      <4>1. q = o
        BY <1>11, <2>6, <3>4 DEF Exists
      <4>2. s # a
        BY <1>7, <1>17, <2>6, <4>1
      <4>3. SwitchRank[a] < SwitchRank[s]
        <5>1. SwitchRank[a] <= SwitchRank[s] /\ SwitchRank[a] # SwitchRank[s]
          BY <1>0, <1>3, <1>5, <2>6, <4>2, FirstRemoved
        <5>2. SwitchRank[a] \in Nat /\ SwitchRank[s] \in Nat
          BY <1>2, ConstantsAssumption
        <5> QED
          BY <5>1, <5>2
      <4>4. a \in Needs[r] /\ Kind[r] \in UninstallKinds
        BY <1>2, <1>9, <2>6, <4>1, RemovalFacts DEF Before
      <4>5. <<a, r>> \in plan
        BY <1>2, <1>6, <1>7, <4>4, RemovalFacts
      <4>6. <<a, r>> \in drop
        BY <1>2, <1>8, <2>6, <3>1, <4>5 DEF LeftBehind
      <4> QED
        BY <1>2, <3>2, <4>3, <4>6
    <3> QED
      BY <3>3, <3>4
  <2>7. \A s \in Switches : \A q, r \in Operands :
          /\ <<s, q>> \in worker'.drop /\ <<s, r>> \in worker'.drop
          /\ Before(s, q, r) /\ Exists(r)' /\ ~Exists(q)'
          => \/ \E t \in Switches : <<t, r>> \in worker'.drop /\ SwitchRank[t] < SwitchRank[s]
             \/ halted'
    BY <1>17, <2>1, <2>6
  <2>8. InUninstall'
    <3>1. \A s \in Switches, r \in Operands :
             <<s, r>> \in UninstallPlan(worker.spec)' \ worker'.drop
             => Kind[r] = "Secret" \/ ~Exists(r)' \/ LeftBehind(r)'
      BY <2>1, <2>2, <2>5
    <3> QED
      BY <2>3, <2>4, <2>7, <3>1 DEF InUninstall, Before
  <2>9. LatestSpec' /\ LatestRecord' /\ RestRecorded'
    BY <1>3, <1>4, <2>1 DEF LatestSpec, LatestRecord, RestRecorded, AtRest, At
  <2> QED
    BY <1>13, <1>14, <2>1, <2>8, <2>9 DEF Undisturbed, At, Syncing
\* It has failed.
<1>18. CASE Stops /\ halted' = TRUE
  <2>1. worker'.pc = "idle" /\ queued' = TRUE
    BY <1>18 DEF Stops, Requeue, Idle
  <2> QED
    BY <1>13, <1>14, <1>18, <2>1
    DEF Undisturbed, LatestSpec, LatestRecord, RestRecorded, AtRest, At, Syncing
\* It has removed one, or found it gone.
<1>19. CASE UNCHANGED halted /\ Wrote(o, Absent) /\ Dropped({p})
  <2>1. ~Exists(o)'
    BY <1>2, <1>19, WroteElsewhere DEF Exists
  <2> QED
    BY <1>7, <1>17, <1>19, <2>1
<1>20. CASE UNCHANGED halted /\ Kind[o] \in LookedUp /\ ~Seen(o) /\ NoWrite /\ Dropped({p})
  <2>1. ~Exists(o)
    BY <1>0, <1>2, <1>20 DEF TypeInv, TypeOK, CachesAgree, Seen, Exists
  <2>2. ~Exists(o)'
    BY <1>2, <1>12, <2>1
  <2> QED
    BY <1>7, <1>17, <1>20, <2>2
<1>21. CASE UNCHANGED halted /\ ~Exists(o) /\ NoWrite /\ Dropped(RestOfKind(p))
  <2>1. p \in RestOfKind(p) /\ ~Exists(o)'
    BY <1>2, <1>12, <1>21 DEF RestOfKind
  <2>2. ASSUME NEW s \in Switches, NEW r \in Operands, <<s, r>> \in RestOfKind(p) \intersect drop
        PROVE  Kind[r] = "Secret" \/ ~Exists(r)' \/ LeftBehind(r)'
    <3>1. s = a /\ Kind[r] = Kind[o] /\ <<a, r>> \in drop
      BY <2>2 DEF RestOfKind
    <3> QED
      BY <1>12, <1>16, <1>21, <3>1
  <2> QED
    BY <1>17, <1>21, <2>1, <2>2
<1> QED
  BY <1>1, <1>18, <1>19, <1>20, <1>21 DEF UninstallOutcome

(* The rest of a reconcile *)

\* A finished uninstall: what is not wanted is gone, or left behind.
LEMMA UninstalledIsApplied ==
  ASSUME ListsFit, TypeInv, InUninstall, worker.spec = service.spec, worker.drop = {}
  PROVE  AppliedButSecrets
<1> SUFFICES ASSUME NEW o \in Operands, Kind[o] # "Secret" PROVE Applied(o)
  BY DEF AppliedButSecrets
<1>1. CASE Wanted(service.spec, o)
  BY <1>1 DEF InUninstall, Fine, InOrder, Applied
<1>2. CASE ~Wanted(service.spec, o)
  <2>1. PICK s \in Needs[o] : s \notin service.spec.on
    BY <1>2 DEF Wanted
  <2>2. s \in Switches /\ o \in Removes[s] /\ Kind[o] \in UninstallKinds
    BY RemovalFacts
  <2>3. <<s, o>> \in UninstallPlan(worker.spec)
    BY <2>1, <2>2 DEF UninstallPlan
  <2>4. ~Exists(o) \/ LeftBehind(o)
    BY <2>2, <2>3 DEF InUninstall
  <2> QED
    BY <1>2, <2>4 DEF InOrder, Applied
<1> QED
  BY <1>1, <1>2

LEMMA ReconcileCalm ==
  ASSUME ListsFit, TypeInv, Undisturbed, ~disturbed',
         UNCHANGED <<protected, release, halted>>,
         Take \/ Activate \/ BeginUninstall \/ EndUninstall \/ RecordStatus \/ Record
  PROVE  Undisturbed'
<1>0. worker \in WorkerType /\ service \in ServiceType /\ (~stale => cached = service)
  BY DEF TypeInv, TypeOK, CachesAgree
<1>1. UNCHANGED <<objects, cache, behind, release>> /\ service'.spec = service.spec
  BY <1>0 DEF Take, Activate, BeginUninstall, EndUninstall, RecordStatus, Record,
     WriteRecord,
         Requeue, NoWrite, objectVars, serviceVars, ServiceType
<1>2. /\ MountsCurrent' /\ (GoneInOrder' <=> GoneInOrder)
      /\ AppliedButSecrets' <=> AppliedButSecrets
      /\ \A o \in Operands : (Fine(o)' <=> Fine(o)) /\ (Exists(o)' <=> Exists(o))
  BY <1>1, StillSo DEF Undisturbed
<1>3. ASSUME worker' = Idle, queued' = TRUE \/ (first' /\ service'.recorded = service'.spec),
             ~At("uninstall"), RecordedApplied'
      PROVE  Undisturbed'
  <2>1. worker'.pc = "idle"
    BY <1>3 DEF Idle
  <2> QED
    BY <1>2, <1>3, <2>1
    DEF Undisturbed, LatestSpec, LatestRecord, RestRecorded, AtRest, At, Syncing
<1>4. ASSUME service'.recorded = service.recorded, UNCHANGED first,
             protected => queued' \/ worker'.pc # "idle"
      PROVE  RecordedApplied'
  BY <1>1, <1>4, StillApplied DEF Undisturbed, RecordedApplied, At
<1>5. CASE Take
  <2>1. ~stale /\ At("idle") /\ UNCHANGED <<service, cached, first>>
    BY <1>5 DEF Take, Disturb, serviceVars
  <2>2. worker'.pc = "activate" /\ worker'.spec = cached.spec /\ worker'.recorded = cached.recorded
    BY <1>5 DEF Take, Idle
  <2> QED
    BY <1>0, <1>2, <1>4, <2>1, <2>2
    DEF Undisturbed, LatestSpec, LatestRecord, RestRecorded, AtRest, At, Syncing
<1>6. CASE Activate
  <2>1. /\ At("activate") /\ worker.spec = service.spec /\ cached.spec = service.spec
        /\ worker.recorded = service.recorded
        /\ UNCHANGED <<service, cached, first>>
    BY <1>6 DEF Activate, Undisturbed, LatestSpec, LatestRecord, serviceVars, At
  <2>2. CASE Requeue
    BY <1>3, <1>4, <2>1, <2>2 DEF Requeue, At
  <2>3. CASE UpToDate /\ Finish
    BY <1>3, <1>4, <2>1, <2>3 DEF UpToDate, Finish, At
  <2>4. CASE /\ worker' = [worker EXCEPT !.pc = "sync", !.todo = InstallPlan(worker.spec)]
             /\ ~UpToDate
    <3>1. /\ worker'.pc = "sync" /\ worker'.spec = worker.spec
          /\ worker'.todo = InstallPlan(worker.spec)
      BY <1>0, <2>4 DEF WorkerType
    <3>2. InstallPlan(worker.spec)' = InstallPlan(worker.spec)
      BY <3>1 DEF InstallPlan, Wanted
    <3>3. InSync'
      BY <2>1, <2>4, <3>1, <3>2 DEF InSync, At, UpToDate
    <3> QED
      BY <1>2, <1>4, <2>1, <3>1, <3>3
      DEF Undisturbed, LatestSpec, LatestRecord, RestRecorded, AtRest, At
  <2> QED
    BY <1>6, <2>2, <2>3, <2>4 DEF Activate
<1>7. CASE BeginUninstall
  <2>1. /\ At("sync") /\ worker.todo = {} /\ worker.spec = service.spec
        /\ cached.spec = service.spec /\ InSync /\ (~halted => GoneInOrder)
        /\ UNCHANGED <<service, cached, first>>
    BY <1>7 DEF BeginUninstall, Undisturbed, LatestSpec, Syncing, serviceVars, At
  <2>2. /\ worker'.pc = "uninstall" /\ worker'.spec = worker.spec
        /\ worker'.drop = UninstallPlan(worker.spec)
    BY <1>0, <1>7 DEF BeginUninstall, WorkerType
  <2>3. UninstallPlan(worker.spec)' = UninstallPlan(worker.spec)
    BY <2>2 DEF UninstallPlan
  <2>4. \A o \in Operands : Wanted(worker.spec, o)' => Fine(o)'
    BY <1>2, <2>1, <2>2 DEF InSync, InstallPlan, Wanted
  <2>5. ASSUME NEW s \in Switches, NEW o \in Operands, NEW p \in Operands,
               <<s, o>> \in UninstallPlan(worker.spec), Before(s, o, p), Exists(p), ~halted
        PROVE  Exists(o)
    BY <2>1, <2>5 DEF UninstallPlan, GoneInOrder
  <2>6. \A s \in Switches : \A o, p \in Operands :
          ~ /\ <<s, o>> \in worker'.drop /\ <<s, p>> \in worker'.drop
            /\ Before(s, o, p) /\ Exists(p)' /\ ~Exists(o)' /\ ~halted'
    BY <1>2, <2>2, <2>5
  <2>7. InUninstall'
    BY <2>2, <2>3, <2>4, <2>6 DEF InUninstall, Before
  <2> QED
    BY <1>2, <1>4, <2>1, <2>2, <2>7
    DEF Undisturbed, LatestSpec, LatestRecord, RestRecorded, AtRest, At, Syncing
<1>8. CASE EndUninstall
  <2>1. /\ At("uninstall") /\ worker.drop = {} /\ worker.spec = service.spec
        /\ cached.spec = service.spec /\ InUninstall
        /\ UNCHANGED <<service, cached, first>>
    BY <1>8 DEF EndUninstall, Undisturbed, LatestSpec, serviceVars, At
  <2>2. worker'.pc = "record" /\ worker'.spec = worker.spec
    BY <1>0, <1>8 DEF EndUninstall, Goto, WorkerType
  <2>3. AppliedButSecrets
    BY <2>1, UninstalledIsApplied
  <2>4. ~halted => GoneInOrder
    BY <2>3, AppliedIsInOrder, OrderGone DEF GoneInOrder
  <2> QED
    BY <1>2, <1>4, <2>1, <2>2, <2>3, <2>4
    DEF Undisturbed, LatestSpec, LatestRecord, RestRecorded, AtRest, At, Syncing
<1>9. CASE RecordStatus
  <2>1. /\ At("record") /\ worker' = worker /\ cached' = cached /\ first' = first
        /\ service'.spec = service.spec /\ service'.recorded = service.recorded
    BY <1>0, <1>9 DEF RecordStatus, ServiceType
  <2>2. RecordedApplied'
    BY <1>4, <2>1 DEF At
  <2> QED
    BY <1>2, <2>1, <2>2
    DEF Undisturbed, LatestSpec, LatestRecord, RestRecorded, AtRest, At, Syncing
<1>10. CASE Record
  <2>1. At("record") /\ AppliedButSecrets /\ cached.spec = service.spec
    BY <1>10 DEF Record, WriteRecord, Undisturbed, LatestSpec, At
  <2>2. CASE Requeue /\ UNCHANGED <<service, first>>
    BY <1>3, <1>4, <2>1, <2>2 DEF Requeue, At
  <2>3. CASE service' = [service EXCEPT !.recorded = cached.spec] /\ first' = TRUE /\ Finish
    <3>1. service'.recorded = service'.spec
      BY <1>0, <1>1, <2>1, <2>3 DEF ServiceType
    <3> QED
      BY <1>2, <1>3, <2>1, <2>3, <3>1
      DEF Finish, RecordedApplied, AppliedForNow, AppliedButSecrets, At
  <2> QED
    BY <1>10, <2>2, <2>3 DEF Record, WriteRecord
<1> QED
  BY <1>5, <1>6, <1>7, <1>8, <1>9, <1>10

(* The environment *)

LEMMA EnvironmentCalm ==
  ASSUME ListsFit, TypeInv, RevsBounded, Undisturbed, ~disturbed',
         Environment \/ Restart
  PROVE  Undisturbed'
<1>0. worker \in WorkerType /\ service \in ServiceType
  BY DEF TypeInv, TypeOK
\* Where nothing is written and the spec stays.
<1>1. ASSUME UNCHANGED <<objects, release, halted, protected, service, first, worker>>,
             behind' \subseteq behind, \A m \in behind' : cache'[m] = cache[m],
             cached' = cached \/ cached' = service, queued' = TRUE \/ UNCHANGED <<queued, stale>>
      PROVE  Undisturbed'
  <2>1. /\ MountsCurrent' /\ (GoneInOrder' <=> GoneInOrder)
        /\ AppliedButSecrets' <=> AppliedButSecrets
        /\ \A o \in Operands : /\ (Fine(o)' <=> Fine(o)) /\ (Exists(o)' <=> Exists(o))
                              /\ (LeftBehind(o)' <=> LeftBehind(o))
    BY <1>1, StillSo DEF Undisturbed
  <2>2. InSync' <=> InSync
    BY <1>1, <2>1 DEF InSync, NextOperand, At, InstallPlan, Wanted, Current, Fine,
       UpToSpec, Kept, Exists, Made
  <2>3. InUninstall' <=> InUninstall
    <3>1. \A q \in UninstallPlan(worker.spec) : q[2] \in Operands
      BY DEF UninstallPlan
    <3>2. UninstallPlan(worker.spec)' = UninstallPlan(worker.spec)
      BY <1>1 DEF UninstallPlan
    <3> QED
      BY <1>1, <2>1, <3>1, <3>2 DEF InUninstall, Wanted, Before
  <2>4. RecordedApplied'
    BY <1>1, StillApplied DEF Undisturbed, RecordedApplied, At
  <2> QED
    BY <1>1, <2>1, <2>2, <2>3, <2>4
    DEF Undisturbed, LatestSpec, LatestRecord, RestRecorded, AtRest, At, Syncing
<1>2. CASE Environment /\ ObserveService
  BY <1>1, <1>2 DEF Environment, ObserveService, objectVars
<1>3. CASE Environment /\ Resync
  BY <1>1, <1>3 DEF Environment, Resync, serviceVars, objectVars
<1>4. ASSUME NEW o \in Operands, Environment, ObserveOperand(o) PROVE Undisturbed'
  <2>1. queued' = TRUE \/ queued' = queued
    BY <1>4 DEF ObserveOperand, Watched, TypeInv, TypeOK
  <2>2. \A m \in behind' : cache'[m] = cache[m]
    BY <1>4, ConstantsAssumption DEF ObserveOperand, TypeInv, TypeOK
  <2> QED
    BY <1>1, <1>4, <2>1, <2>2 DEF Environment, ObserveOperand, serviceVars
<1>5. CASE Environment /\ EditSpec
  <2>1. /\ AtRest /\ UNCHANGED <<objects, cache, behind, release, halted, first, worker>>
        /\ stale' = TRUE
        /\ first /\ service.recorded = service.spec
    BY <1>5 DEF Environment, EditSpec, Disturb, objectVars, Undisturbed, RestRecorded
  <2>2. ~halted => InOrderButSecrets
    BY <2>1, RestApplied, AppliedIsInOrder DEF Undisturbed, RecordedApplied
  <2>3. PICK spec \in {[service.spec EXCEPT !.rev = @ + 1]} \union
           {[service.spec EXCEPT !.on = IF s \in @ THEN @ \ {s} ELSE @ \union {s}] :
               s \in Flippable} : service' = [service EXCEPT !.spec = spec]
    BY <1>5 DEF EditSpec
  <2>4. /\ spec # service.spec
        /\ spec.rev = service.spec.rev \/ spec.rev = service.spec.rev + 1
    BY <1>0 DEF ServiceType, SpecType
  <2>5. service'.spec = spec /\ service'.recorded = service.recorded
    BY <1>0, <2>3 DEF ServiceType
  <2>6. MountsCurrent'
    <3>1. ASSUME NEW o \in Operands, Current(o)'
          PROVE  Current(o) /\ spec.rev = service.spec.rev
      <4>1. /\ objects[o].rev = spec.rev /\ objects[o].release = release /\ Exists(o)
        BY <2>1, <2>5, <3>1 DEF Current, Exists
      <4>2. objects[o].rev <= service.spec.rev /\ service.spec.rev \in Nat
        BY <1>0 DEF RevsBounded, ServiceType, SpecType
      <4> QED
        BY <2>4, <4>1, <4>2 DEF Current
    <3> QED
      BY <2>1, <2>5, <3>1 DEF Undisturbed, MountsCurrent, Made, Exists, Seen
  <2>7. ~halted => GoneInOrder'
    BY <2>1, <2>2, OrderGone DEF GoneInOrder, Before, Exists
  <2> QED
    BY <2>1, <2>4, <2>5, <2>6, <2>7
    DEF Undisturbed, LatestSpec, LatestRecord, RestRecorded, RecordedApplied, AtRest, At,
        Syncing
<1>6. ASSUME NEW o \in Tamperable, Tamper(o) PROVE FALSE
  BY <1>6 DEF Tamper, Disturb
<1>7. CASE Restart
  <2>1. /\ worker' = Idle /\ first' = FALSE /\ queued' = TRUE
        /\ UNCHANGED <<service, objects>> /\ behind' = {} /\ release' \in {release, release + 1}
        /\ ~halted' => ~halted /\ ~At("uninstall")
    BY <1>7 DEF Restart, TypeInv, TypeOK
  <2>2. MountsCurrent'
    <3>1. CASE release' = release
      BY <2>1, <3>1, StillMounts DEF Undisturbed
    <3>2. CASE release' = release + 1
      <4>1. \A o \in Operands : ~Current(o)'
        BY <2>1, <3>2 DEF RevsBounded, Current, TypeInv, TypeOK
      <4> QED
        BY <4>1 DEF MountsCurrent
    <3> QED
      BY <2>1, <3>1, <3>2
  <2>3. ~halted' => GoneInOrder'
    BY <2>1 DEF Undisturbed, GoneInOrder, Before, Exists
  <2>4. worker'.pc = "idle"
    BY <2>1 DEF Idle
  <2> QED
    BY <2>1, <2>2, <2>3, <2>4
    DEF Undisturbed, LatestSpec, LatestRecord, RestRecorded, RecordedApplied, AtRest, At,
        Syncing
<1> QED
  BY <1>2, <1>3, <1>4, <1>5, <1>6, <1>7 DEF Environment

(* All steps *)

LEMMA InvInit == Init => Inv
<1> SUFFICES ASSUME Init PROVE Inv
  OBVIOUS
<1>1. TypeInv
  BY TypeInit
<1>2. \A o \in Operands : ~Exists(o) /\ objects[o] = Absent
  BY DEF Init, Exists
<1>3. RevsBounded
  BY <1>2 DEF RevsBounded, Init, Absent, Idle, Spec0
<1>4. Undisturbed
  BY <1>2 DEF Undisturbed, LatestSpec, LatestRecord, RestRecorded, RecordedApplied,
     MountsCurrent,
              Current, GoneInOrder, Syncing, At, AtRest, Init, Idle
<1> QED
  BY <1>1, <1>3, <1>4 DEF Inv

\* Who has interfered has.
LEMMA DisturbedStays ==
  ASSUME TypeInv, Next, ~disturbed'
  PROVE  ~disturbed
<1>1. CASE SyncOperand
  BY <1>1, SyncSteps DEF SyncOutcome
<1>2. CASE UninstallNext
  BY <1>2, UninstallSteps DEF UninstallOutcome
<1>3. CASE Take \/ Activate \/ BeginUninstall \/ EndUninstall \/ RecordStatus \/ Record
  BY <1>3 DEF Take, Activate, BeginUninstall, EndUninstall, RecordStatus, Record,
     WriteRecord, Disturb
<1>4. CASE Environment \/ Restart
  BY <1>4 DEF Environment, ObserveService, Resync, EditSpec, ObserveOperand, Tamper,
     Restart, Disturb
<1> QED
  BY <1>1, <1>2, <1>3, <1>4 DEF Next, Worker

LEMMA InvNext == ListsFit /\ Inv /\ [Next]_vars => Inv'
<1> SUFFICES ASSUME ListsFit, Inv, [Next]_vars PROVE Inv'
  OBVIOUS
<1>1. TypeInv' /\ RevsBounded'
  BY TypeNext, RevsNext DEF Inv
<1>2. ASSUME Next, ~disturbed' PROVE Undisturbed'
  <2>1. TypeInv /\ RevsBounded /\ Undisturbed
    BY <1>2, DisturbedStays DEF Inv
  <2>2. CASE Worker
    <3>1. UNCHANGED <<protected, release>> /\ (UninstallNext \/ UNCHANGED halted)
      BY <2>2 DEF Worker
    <3>2. CASE SyncOperand /\ UNCHANGED halted
      <4>1. ~ReadsStale(NextOperand)
        BY <1>2, <2>1, <3>2, SyncSteps DEF SyncOutcome
      <4> QED
        BY <2>1, <3>1, <3>2, <4>1, SyncCalm
    <3>3. CASE UninstallNext
      <4>1. ~(Kind[NextRemoval[2]] \in LookedUp /\ NextRemoval[2] \in behind)
        BY <1>2, <2>1, <3>3, UninstallSteps DEF UninstallOutcome
      <4> QED
        BY <2>1, <3>1, <3>3, <4>1, UninstallCalm
    <3>4. CASE /\ Take \/ Activate \/ BeginUninstall \/ EndUninstall \/ RecordStatus \/ Record
               /\ UNCHANGED halted
      BY <1>2, <2>1, <3>1, <3>4, ReconcileCalm
    <3> QED
      BY <2>2, <3>2, <3>3, <3>4 DEF Worker
  <2>3. CASE Environment \/ Restart
    BY <1>2, <2>1, <2>3, EnvironmentCalm
  <2> QED
    BY <1>2, <2>2, <2>3 DEF Next
<1>3. CASE UNCHANGED vars
  <2>1. (disturbed' <=> disturbed) /\ (Undisturbed' <=> Undisturbed)
    BY <1>3
    DEF vars, serviceVars, objectVars, Undisturbed, LatestSpec, LatestRecord, RestRecorded,
        RecordedApplied, MountsCurrent, GoneInOrder, InSync, InUninstall, AppliedButSecrets,
        AppliedForNow, Replacing, Churned,
        Applied, LeftBehind, Syncing, AtRest, At, Current, Fine, UpToSpec, Kept, Exists, Seen, Made,
        InOrder, Wanted, Before, InstallPlan, UninstallPlan, NextOperand
  <2> QED
    BY <1>1, <2>1 DEF Inv
<1> QED
  BY <1>1, <1>2, <1>3 DEF Inv

\* The invariant of the pipeline: as long as nobody interferes, what a sync has dealt
\* with is as the spec says, whatever mounts a ConfigMap that is current holds its
\* latest version, and an uninstall that stops at the first object that is gone leaves
\* nothing behind until one has ended halfway.
THEOREM PipelineInvariant ==
  ASSUME ListsFit
  PROVE  Spec => []Inv
<1>1. Init => Inv
  BY InvInit
<1>2. Inv /\ [Next]_vars => Inv'
  BY InvNext
<1> QED
  BY <1>1, <1>2, PTL DEF Spec

\* If nobody interferes, a recorded spec that is the spec has been applied, for every
\* list of operands that fits and whatever fails: reconciles that are skipped for that
\* reason are needless.  What an uninstall that ended halfway keeps the next ones from
\* removing is listed, of one component and one kind, after something that is gone.  A
\* DaemonSet that is replaced in every sync may be away until the protected operator,
\* which skips nothing, has repeated the reconcile that failed.
THEOREM RecordIsApplied ==
  ASSUME ListsFit
  PROVE  Spec => []RecordMeansApplied
<1>1. Spec => []Inv
  BY PipelineInvariant
<1>2. Inv => RecordMeansApplied
  BY DEF Inv, Undisturbed, RecordedApplied, RecordMeansApplied
<1> QED
  BY <1>1, <1>2, PTL

\* The operator leaves alone what is as it should be, as long as nobody interferes and
\* the copies of the Services and DaemonSets, which are deleted when they differ, are
\* up to date: but for the DaemonSets of which the compare does not fill in what the
\* API server fills in (an update of such a Deployment changes nothing).
THEOREM InOrderLeftAlone ==
  ASSUME ListsFit, ReplacedSeen
  PROVE  Spec => NoChurn
<1>1. Spec => []Inv
  BY PipelineInvariant
<1>2. Inv => [~disturbed /\ Worker =>
                \A o \in Operands :
                   InOrder(o) /\ Kind[o] # "Secret" /\ ~Churned(o)
                      => objects'[o] = objects[o]]_vars
  <2> SUFFICES ASSUME Inv,
                      NEW o \in Operands, Worker, ~disturbed, InOrder(o), Kind[o] # "Secret",
                      ~Churned(o)
               PROVE  objects'[o] = objects[o]
    OBVIOUS
  <2>1. TypeInv /\ Undisturbed
    BY DEF Inv
  <2>2. CASE SyncOperand
    <3>1. Kind[NextOperand] \in Replaced => NextOperand \notin behind
      BY <2>1, ReplacedSeen DEF ReplacedSeen, TypeInv, TypeOK
    <3> QED
      BY <2>1, <2>2, <3>1, SyncSpares
  <2>3. CASE UninstallNext
    <3>0. PICK p : p = NextRemoval
      OBVIOUS
    <3>1. UninstallOutcome(p)
      BY <2>1, <2>3, <3>0, UninstallSteps
    <3>2. CASE Exists(p[2]) /\ Wrote(p[2], Absent)
      <4>1. /\ p \in UninstallPlan(service.spec) /\ p[1] \in Switches /\ p[2] \in Operands
        BY <2>1, <3>1 DEF UninstallOutcome, Undisturbed, InUninstall, LatestSpec, At
      <4>2. p[1] \in Needs[p[2]] /\ p[1] \notin service.spec.on
        BY <4>1, RemovalFacts DEF UninstallPlan
      <4>3. ~Wanted(service.spec, p[2])
        BY <4>2 DEF Wanted
      <4>4. p[2] # o
        BY <3>2, <4>3 DEF InOrder
      <4> QED
        BY <2>1, <3>2, <4>1, <4>4, WroteElsewhere
    <3> QED
      BY <3>1, <3>2 DEF UninstallOutcome, Stops, Requeue, NoWrite, objectVars
  <2>4. CASE Take \/ Activate \/ BeginUninstall \/ EndUninstall \/ RecordStatus \/ Record
    BY <2>4 DEF Take, Activate, BeginUninstall, EndUninstall, RecordStatus, Record,
       WriteRecord,
                Requeue, NoWrite, objectVars
  <2> QED
    BY <2>2, <2>3, <2>4 DEF Worker
<1> QED
  BY <1>1, <1>2, PTL DEF NoChurn

=============================================================================
