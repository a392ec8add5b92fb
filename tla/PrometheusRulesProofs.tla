------------------------ MODULE PrometheusRulesProofs ------------------------
(***************************************************************************)
(* Proofs about PrometheusRules, for every set of records and of selectors *)
(* that do not contradict themselves, every failure and any edits.         *)
(***************************************************************************)
EXTENDS PrometheusRules, TLAPS

Bounds == MaxFailures \in Nat /\ MaxEdits \in Nat

-----------------------------------------------------------------------------
(* Type correctness *)

LEMMA StepTyped ==
  ASSUME CountersTypeOK, NEW pc \in {"idle", "read", "write"}, NEW missing \in SUBSET Records
  PROVE  Patch(pc, missing) \in PatcherType
  BY DEF Patch, PatcherType, Namespaces, CountersTypeOK

LEMMA IdleTyped == ASSUME CountersTypeOK PROVE Idle \in PatcherType
<1>1. {} \in SUBSET Records
  OBVIOUS
<1> QED
  BY <1>1, StepTyped DEF Idle

LEMMA TypeInit == ASSUME Bounds, Init PROVE RulesTypeOK
<1>1. WorldTypeOK
  <2>1. foreign \in [Records -> {"here", "elsewhere", "none"}]
    BY DEF Init
  <2> QED
    BY <2>1 DEF Init, WorldTypeOK
<1>2. ObjectsTypeOK
  BY DEF Init, ObjectsTypeOK, RuleType, Absent, Unset
<1>3. CountersTypeOK
  <2>1. gc = 1 /\ failures = 0 /\ edits = 0
    BY DEF Init
  <2> QED
    BY <2>1 DEF CountersTypeOK, Bounds
<1>4. FlagsTypeOK
  <2>1. due = TRUE /\ taken = FALSE /\ astray = FALSE
    BY DEF Init
  <2> QED
    BY <2>1 DEF FlagsTypeOK
<1>5. PatchersTypeOK
  <2>1. patcher = [p \in Patchers |-> Idle]
    BY DEF Init
  <2> QED
    BY <1>3, <2>1, IdleTyped DEF PatchersTypeOK
<1> QED
  BY <1>1, <1>2, <1>3, <1>4, <1>5 DEF RulesTypeOK

\* What keeps the types of the parts: a step that does not write them, and the GC role's
\* uid not falling.
LEMMA WorldKept ==
  ASSUME WorldTypeOK, UNCHANGED <<protected, prometheus, services, foreign>>
  PROVE  WorldTypeOK'
  BY DEF WorldTypeOK, Lists, ActiveOnly

LEMMA ObjectsKept ==
  ASSUME ObjectsTypeOK, CountersTypeOK, CountersTypeOK', gc <= gc', UNCHANGED ours
  PROVE  ObjectsTypeOK'
<1>1. \A n \in Namespaces : ours[n] \in RuleType'
  BY DEF ObjectsTypeOK, CountersTypeOK, RuleType
<1>2. Namespaces' = Namespaces /\ Absent' = Absent
  BY DEF Namespaces, Absent, Unset
<1>3. ours' \in [Namespaces -> RuleType']
  BY <1>1 DEF ObjectsTypeOK
<1> QED
  BY <1>2, <1>3 DEF ObjectsTypeOK

LEMMA PatchersKept ==
  ASSUME PatchersTypeOK, CountersTypeOK, CountersTypeOK', gc <= gc', UNCHANGED patcher
  PROVE  PatchersTypeOK'
<1>1. \A p \in Patchers : patcher[p] \in PatcherType'
  BY DEF PatchersTypeOK, CountersTypeOK, PatcherType, Namespaces
<1> QED
  BY <1>1 DEF PatchersTypeOK, Patchers

LEMMA CountersKept ==
  ASSUME Bounds, CountersTypeOK, UNCHANGED gc,
         edits' = edits \/ (edits < MaxEdits /\ edits' = edits + 1),
         failures' = failures \/ (failures < MaxFailures /\ failures' = failures + 1)
  PROVE  CountersTypeOK'
  BY DEF CountersTypeOK, Bounds

LEMMA GotoTyped ==
  ASSUME PatchersTypeOK, UNCHANGED gc, NEW p \in Patchers, NEW s \in PatcherType, Goto(p, s)
  PROVE  PatchersTypeOK'
<1>1. patcher' \in [Patchers -> PatcherType]
  BY DEF Goto, PatchersTypeOK
<1> QED
  BY <1>1 DEF PatchersTypeOK, PatcherType, Patchers, Namespaces

LEMMA NoticedTyped ==
  ASSUME PatchersTypeOK, NEW n \in Namespaces PROVE Noticed(n) \in [Patchers -> PatcherType]
<1>1. \A p \in Patchers : [patcher[p] EXCEPT !.moved = TRUE] \in PatcherType
  BY DEF PatchersTypeOK, PatcherType
<1> QED
  BY <1>1 DEF PatchersTypeOK, Noticed

-----------------------------------------------------------------------------
(* Type correctness, step by step *)

LEMMA CheckTyped ==
  ASSUME Bounds, RulesTypeOK, NEW p \in Patchers, Check(p) PROVE RulesTypeOK'
<1>1. WorldTypeOK'
  BY WorldKept DEF Check, world, RulesTypeOK
<1>2. CountersTypeOK' /\ gc' = gc
  <2>1. gc' = gc
    BY DEF Check, world
  <2>2. edits' = edits \/ (edits < MaxEdits /\ edits' = edits + 1)
    BY DEF Check
  <2>3. failures' = failures \/ (failures < MaxFailures /\ failures' = failures + 1)
    BY DEF Check, Succeeds, Fails
  <2> QED
    BY <2>1, <2>2, <2>3, CountersKept DEF RulesTypeOK
<1>3. ObjectsTypeOK'
  BY <1>2, ObjectsKept DEF Check, RulesTypeOK, CountersTypeOK
<1>4. FlagsTypeOK'
  <2>1. due' = (due /\ p # "operator") \/ due' = (due \/ p = "operator")
    BY DEF Check, Started, GiveUp, Again
  <2>2. due' \in BOOLEAN
    BY <2>1 DEF RulesTypeOK, FlagsTypeOK
  <2>3. taken' \in BOOLEAN
    BY DEF Check, RulesTypeOK, FlagsTypeOK
  <2>4. astray' \in BOOLEAN
    BY DEF Check, RulesTypeOK, FlagsTypeOK
  <2> QED
    BY <2>2, <2>3, <2>4 DEF FlagsTypeOK
<1>5. PatchersTypeOK'
  <2>1. Patch("read", Missing) \in PatcherType
    BY StepTyped DEF Missing, RulesTypeOK
  <2>2. Goto(p, Idle) \/ Goto(p, Patch("read", Missing))
    BY DEF Check, GiveUp
  <2> QED
    BY <1>2, <2>1, <2>2, IdleTyped, GotoTyped DEF RulesTypeOK
<1> QED
  BY <1>1, <1>2, <1>3, <1>4, <1>5 DEF RulesTypeOK

LEMMA ServiceKnown == ASSUME WorldTypeOK PROVE ValidService \in Namespaces
<1>1. CASE services = <<"here">>
  BY <1>1 DEF ValidService, Last, Namespaces
<1>2. CASE services = <<"here", "there">>
  BY <1>2 DEF ValidService, Last, Namespaces
<1>3. CASE services = <<"there", "here">>
  BY <1>3 DEF ValidService, Last, Namespaces
<1> QED
  BY <1>1, <1>2, <1>3 DEF WorldTypeOK, Lists, ActiveOnly

LEMMA ReadTyped ==
  ASSUME Bounds, RulesTypeOK, NEW p \in Patchers, Read(p) PROVE RulesTypeOK'
<1>1. WorldTypeOK'
  BY WorldKept DEF Read, world, RulesTypeOK
<1>2. CountersTypeOK' /\ gc' = gc
  <2>1. gc' = gc /\ edits' = edits
    BY DEF Read, world
  <2>2. failures' = failures \/ (failures < MaxFailures /\ failures' = failures + 1)
    BY DEF Read, Succeeds, Fails
  <2> QED
    BY <2>1, <2>2, CountersKept DEF RulesTypeOK
<1>3. ObjectsTypeOK'
  BY <1>2, ObjectsKept DEF Read, RulesTypeOK, CountersTypeOK
<1>4. FlagsTypeOK'
  <2>1. due' = due \/ due' = (due \/ p = "operator")
    BY DEF Read, GiveUp, Again
  <2>2. due' \in BOOLEAN
    BY <2>1 DEF RulesTypeOK, FlagsTypeOK
  <2>3. taken' = taken /\ astray' = astray
    BY DEF Read
  <2> QED
    BY <2>2, <2>3 DEF RulesTypeOK, FlagsTypeOK
<1>5. PatchersTypeOK'
  <2>1. ValidService \in Namespaces
    BY ServiceKnown DEF RulesTypeOK
  <2>2. PatchOf(p, ValidService) \in PatcherType
    BY <2>1 DEF PatchOf, PatcherType, RulesTypeOK, PatchersTypeOK, ObjectsTypeOK, RuleType,
                CountersTypeOK
  <2>3. Goto(p, Idle) \/ Goto(p, PatchOf(p, ValidService))
    BY DEF Read, GiveUp
  <2> QED
    BY <1>2, <2>2, <2>3, IdleTyped, GotoTyped DEF RulesTypeOK
<1> QED
  BY <1>1, <1>2, <1>3, <1>4, <1>5 DEF RulesTypeOK

\* What a patch writes: at most one more of every record that was missing.
LEMMA PutTyped ==
  ASSUME RulesTypeOK, LabelsSelected, NEW p \in Patchers,
         Put(p, Appended(ours[patcher[p].where].count, p)), UNCHANGED gc
  PROVE  /\ ours' \in [Namespaces -> RuleType]
         /\ \A n \in Namespaces : ours'[n].exists \/ ours'[n] = ours[n]
         /\ patcher' \in [Patchers -> PatcherType]
<1> DEFINE n == patcher[p].where
           count == Appended(ours[n].count, p)
<1>1. n \in Namespaces /\ ours[n] \in RuleType /\ ours \in [Namespaces -> RuleType]
  BY DEF RulesTypeOK, PatchersTypeOK, PatcherType, ObjectsTypeOK
<1>2. count \in [Records -> 0 .. 2]
  <2>1. ours[n].count \in [Records -> 0 .. 2]
    BY <1>1 DEF RuleType
  <2> QED
    BY <2>1 DEF Appended
<1>3. LabelFor(prometheus.selector) \in Int
  BY DEF LabelsSelected, RulesTypeOK, WorldTypeOK
<1>4. (IF patcher[p].found THEN ours[n].owner ELSE patcher[p].owner) \in 0 .. gc
  BY <1>1 DEF RulesTypeOK, PatchersTypeOK, PatcherType, RuleType
<1>5. Patched(count, p) \in RuleType /\ Patched(count, p).exists
  BY <1>2, <1>3, <1>4 DEF Patched, RuleType
<1>6. ours' = [ours EXCEPT ![n] = Patched(count, p)]
  BY DEF Put
<1>7. ours' \in [Namespaces -> RuleType]
  BY <1>1, <1>5, <1>6
<1>8. \A m \in Namespaces : ours'[m].exists \/ ours'[m] = ours[m]
  BY <1>1, <1>5, <1>6
<1>9. patcher' \in [Patchers -> PatcherType]
  <2>1. Noticed(n) \in [Patchers -> PatcherType]
    BY <1>1, NoticedTyped DEF RulesTypeOK
  <2>2. \A q \in Patchers : [Noticed(n)[q] EXCEPT !.late = ~At(q, "idle")] \in PatcherType
    BY <2>1 DEF PatcherType, At
  <2>3. Idle \in PatcherType
    BY IdleTyped DEF RulesTypeOK
  <2> QED
    BY <2>2, <2>3 DEF Put, NoticedPatch
<1> QED
  BY <1>7, <1>8, <1>9

LEMMA WriteTyped ==
  ASSUME Bounds, LabelsSelected, RulesTypeOK, NEW p \in Patchers, Write(p)
  PROVE  RulesTypeOK'
<1> DEFINE count == Appended(ours[patcher[p].where].count, p)
<1>1. WorldTypeOK'
  BY WorldKept DEF Write, WriteRules, world, RulesTypeOK
<1>2. CountersTypeOK' /\ gc' = gc
  <2>1. gc' = gc /\ edits' = edits
    BY DEF Write, WriteRules, world
  <2>2. failures' = failures \/ (failures < MaxFailures /\ failures' = failures + 1)
    BY DEF Write, WriteRules, Succeeds, Fails
  <2> QED
    BY <2>1, <2>2, CountersKept DEF RulesTypeOK
<1>3. Put(p, count) \/ (GiveUp(p) /\ UNCHANGED <<ours, astray>>)
  BY DEF Write, WriteRules
<1>4. FlagsTypeOK'
  <2>1. due' = due \/ due' = (due \/ p = "operator")
    BY DEF Write, WriteRules, GiveUp, Again
  <2>2. due' \in BOOLEAN
    BY <2>1 DEF RulesTypeOK, FlagsTypeOK
  <2>3. taken' = taken
    BY DEF Write, WriteRules
  <2>4. astray' \in BOOLEAN
    BY <1>3 DEF Put, RulesTypeOK, FlagsTypeOK
  <2> QED
    BY <2>2, <2>3, <2>4 DEF RulesTypeOK, FlagsTypeOK
<1>5. CASE Put(p, count)
  <2>1. /\ ours' \in [Namespaces -> RuleType]
        /\ \A n \in Namespaces : ours'[n].exists \/ ours'[n] = ours[n]
        /\ patcher' \in [Patchers -> PatcherType]
    BY <1>2, <1>5, PutTyped
  <2>2. ObjectsTypeOK'
    <3>1. Namespaces' = Namespaces /\ Absent' = Absent /\ RuleType' = RuleType
      BY <1>2 DEF Namespaces, Absent, Unset, RuleType
    <3> QED
      BY <2>1, <3>1 DEF RulesTypeOK, ObjectsTypeOK
  <2>3. PatchersTypeOK'
    BY <1>2, <2>1 DEF PatchersTypeOK, PatcherType, Patchers, Namespaces
  <2> QED
    BY <1>1, <1>2, <1>4, <2>2, <2>3 DEF RulesTypeOK
<1>6. CASE GiveUp(p) /\ UNCHANGED <<ours, astray>>
  <2>1. ObjectsTypeOK'
    BY <1>2, <1>6, ObjectsKept DEF RulesTypeOK, CountersTypeOK
  <2>2. PatchersTypeOK'
    BY <1>2, <1>6, IdleTyped, GotoTyped DEF GiveUp, RulesTypeOK
  <2> QED
    BY <1>1, <1>2, <1>4, <2>1, <2>2 DEF RulesTypeOK
<1> QED
  BY <1>3, <1>5, <1>6

\* What is taken from an object: all of it, or what one record counts.
Lesser(n) ==
    {Absent} \cup
    IF ours[n].exists
    THEN {[ours[n] EXCEPT !.count = [@ EXCEPT ![r] = 0]] : r \in Records} ELSE {}

LEMMA LesserTyped ==
  ASSUME RulesTypeOK, NEW n \in Namespaces, NEW object \in Lesser(n)
  PROVE  object \in RuleType /\ (object.exists \/ object = Absent)
<1>1. CASE object = Absent
  BY <1>1 DEF RulesTypeOK, CountersTypeOK, RuleType, Absent, Unset
<1>2. CASE object # Absent
  <2>1. PICK r \in Records : object = [ours[n] EXCEPT !.count = [@ EXCEPT ![r] = 0]]
    BY <1>2 DEF Lesser
  <2>2. ours[n] \in RuleType /\ ours[n].exists
    BY <1>2 DEF Lesser, RulesTypeOK, ObjectsTypeOK
  <2> QED
    BY <2>1, <2>2 DEF RuleType
<1> QED
  BY <1>1, <1>2

LEMMA LoseTyped ==
  ASSUME RulesTypeOK, CountersTypeOK', UNCHANGED <<gc, world, due, astray>>,
         NEW n \in Namespaces, NEW object \in Lesser(n), Lose(n, object)
  PROVE  RulesTypeOK'
<1>1. WorldTypeOK'
  BY WorldKept DEF world, RulesTypeOK
<1>2. FlagsTypeOK'
  BY DEF Lose, RulesTypeOK, FlagsTypeOK
<1>3. ObjectsTypeOK'
  <2>1. Namespaces' = Namespaces /\ Absent' = Absent /\ RuleType' = RuleType
    BY DEF Namespaces, Absent, Unset, RuleType
  <2>2. object \in RuleType /\ (object.exists \/ object = Absent)
    BY LesserTyped
  <2> QED
    BY <2>1, <2>2 DEF Lose, RulesTypeOK, ObjectsTypeOK
<1>4. PatchersTypeOK'
  <2>1. patcher' \in [Patchers -> PatcherType]
    BY NoticedTyped DEF Lose, RulesTypeOK
  <2> QED
    BY <2>1 DEF PatchersTypeOK, PatcherType, Patchers, Namespaces
<1> QED
  BY <1>1, <1>2, <1>3, <1>4 DEF RulesTypeOK

\* Users and the garbage collector take such parts of the object only.
LEMMA TakersLose ==
  ASSUME EditOurs \/ Collect
  PROVE  /\ \E n \in Namespaces : \E object \in Lesser(n) : Lose(n, object)
         /\ UNCHANGED <<world, due, astray, failures>>
         /\ edits' = edits \/ (edits < MaxEdits /\ edits' = edits + 1)
<1>1. CASE EditOurs
  <2>1. PICK n \in Namespaces :
           /\ ours[n].exists
           /\ \/ Lose(n, Absent)
              \/ \E r \in Records : Lose(n, [ours[n] EXCEPT !.count = [@ EXCEPT ![r] = 0]])
    BY <1>1 DEF EditOurs
  <2>2. \E object \in Lesser(n) : Lose(n, object)
    BY <2>1 DEF Lesser
  <2> QED
    BY <1>1, <2>2 DEF EditOurs, Edit
<1>2. CASE Collect
  <2>1. \E n \in Namespaces : Absent \in Lesser(n) /\ Lose(n, Absent)
    BY <1>2 DEF Collect, Lesser
  <2> QED
    BY <1>2, <2>1 DEF Collect
<1> QED
  BY <1>1, <1>2

LEMMA TakersTyped ==
  ASSUME Bounds, RulesTypeOK, EditOurs \/ Collect PROVE RulesTypeOK'
<1>1. PICK n \in Namespaces : \E object \in Lesser(n) : Lose(n, object)
  BY TakersLose
<1>2. UNCHANGED <<gc, world, due, astray>>
  BY TakersLose DEF world
<1>3. CountersTypeOK'
  <2>1. gc' = gc /\ failures' = failures
    BY TakersLose DEF world
  <2>2. edits' = edits \/ (edits < MaxEdits /\ edits' = edits + 1)
    BY TakersLose
  <2> QED
    BY <2>1, <2>2, CountersKept DEF RulesTypeOK
<1> QED
  BY <1>1, <1>2, <1>3, LoseTyped

\* The steps that leave the operator's objects alone.
LEMMA OthersTyped ==
  ASSUME Bounds, RulesTypeOK, EditForeign \/ EditServices \/ Reinstall \/ Resync \/ Restart
  PROVE  RulesTypeOK'
<1>1. WorldTypeOK'
  <2>1. UNCHANGED <<protected, prometheus>>
    BY DEF EditForeign, EditServices, Reinstall, Resync, Restart, world
  <2>2. services' \in Lists
    BY DEF EditForeign, EditServices, Reinstall, Resync, Restart, world, RulesTypeOK, WorldTypeOK
  <2>3. foreign' \in [Records -> {"here", "elsewhere", "none"}]
    BY DEF EditForeign, EditServices, Reinstall, Resync, Restart, world, RulesTypeOK, WorldTypeOK
  <2> QED
    BY <2>1, <2>2, <2>3 DEF RulesTypeOK, WorldTypeOK, Lists, ActiveOnly
<1>2. CountersTypeOK' /\ gc <= gc'
  <2>1. \/ gc' = gc /\ edits' = edits
        \/ gc' \in {gc, gc + 1} /\ edits < MaxEdits /\ edits' = edits + 1
    BY DEF EditForeign, EditServices, Reinstall, Resync, Restart, world, Edit
  <2>2. failures' = failures \/ (failures < MaxFailures /\ failures' = failures + 1)
    BY DEF EditForeign, EditServices, Reinstall, Resync, Restart, Fails
  <2> QED
    BY <2>1, <2>2 DEF RulesTypeOK, CountersTypeOK, Bounds
<1>3. ObjectsTypeOK'
  <2>1. UNCHANGED ours
    BY DEF EditForeign, EditServices, Reinstall, Resync, Restart
  <2> QED
    BY <1>2, <2>1, ObjectsKept DEF RulesTypeOK
<1>4. FlagsTypeOK'
  <2>1. due' \in BOOLEAN
    BY DEF EditForeign, EditServices, Reinstall, Resync, Restart, RulesTypeOK, FlagsTypeOK
  <2>2. taken' \in BOOLEAN
    BY DEF EditForeign, EditServices, Reinstall, Resync, Restart, RulesTypeOK, FlagsTypeOK
  <2>3. astray' \in BOOLEAN
    BY DEF EditForeign, EditServices, Reinstall, Resync, Restart, RulesTypeOK, FlagsTypeOK
  <2> QED
    BY <2>1, <2>2, <2>3 DEF FlagsTypeOK
<1>5. PatchersTypeOK'
  <2>1. CASE UNCHANGED patcher
    BY <1>2, <2>1, PatchersKept DEF RulesTypeOK
  <2>2. CASE Restart
    BY <2>2, IdleTyped, GotoTyped DEF Restart, world, RulesTypeOK, Patchers
  <2> QED
    BY <2>1, <2>2 DEF EditForeign, EditServices, Reinstall, Resync
<1> QED
  BY <1>1, <1>2, <1>3, <1>4, <1>5 DEF RulesTypeOK

LEMMA NextTyped ==
  ASSUME Bounds, LabelsSelected, RulesTypeOK, [Next]_vars PROVE RulesTypeOK'
<1>1. CASE Operator
  BY <1>1, CheckTyped, ReadTyped, WriteTyped DEF Operator, Patchers
<1>2. CASE Command
  BY <1>2, CheckTyped, ReadTyped, WriteTyped DEF Command, Patchers
<1>3. CASE EditOurs \/ Collect
  BY <1>3, TakersTyped
<1>4. CASE EditForeign \/ EditServices \/ Reinstall \/ Resync \/ Restart
  BY <1>4, OthersTyped
<1>5. CASE UNCHANGED vars
  <2>1. WorldTypeOK'
    BY <1>5, WorldKept DEF vars, RulesTypeOK
  <2>2. CountersTypeOK' /\ FlagsTypeOK'
    BY <1>5 DEF vars, RulesTypeOK, CountersTypeOK, FlagsTypeOK
  <2>3. ObjectsTypeOK'
    BY <1>5, <2>2, ObjectsKept DEF vars, RulesTypeOK, CountersTypeOK
  <2>4. PatchersTypeOK'
    BY <1>5, <2>2, PatchersKept DEF vars, RulesTypeOK, CountersTypeOK
  <2> QED
    BY <2>1, <2>2, <2>3, <2>4 DEF RulesTypeOK
<1> QED
  BY <1>1, <1>2, <1>3, <1>4, <1>5 DEF Next, Users

\* Every variable has its type in every state, whatever the records, the selectors and
\* the failures: what a patch counts, whose uid an object carries, what is put off.
THEOREM RulesTyped == ASSUME Bounds, LabelsSelected PROVE Spec => []RulesTypeOK
<1>1. Init => RulesTypeOK
  BY TypeInit
<1>2. RulesTypeOK /\ [Next]_vars => RulesTypeOK'
  BY NextTyped
<1> QED
  BY <1>1, <1>2, PTL DEF Spec

-----------------------------------------------------------------------------
(* Why Prometheus evaluates the records when the operator rests *)

\* A patch appends only what no object of the operator has, unless it comes late.
Fresh ==
    \A p \in Patchers :
        ~At(p, "idle") /\ ~patcher[p].late =>
            \A r \in patcher[p].missing : \A n \in Namespaces : ours[n].count[r] = 0
\* No record is twice in the object, and there is no other one.
Straight ==
    ~astray => /\ ours["there"] = Absent
               /\ \A r \in Records : ours["here"].count[r] <= 1
\* What is written is labelled as Prometheus selects it, which is known to see it.
Able == \A p \in Patchers : At(p, "write") => Selectable
Labelled ==
    \A n \in Namespaces :
        ours[n].exists => Selectable /\ Selects(prometheus.selector, ours[n].label)
\* What the operator does not find missing is there, until something is taken away.
Complete ==
    ~taken /\ ~At("operator", "idle") =>
        \A r \in Records \ patcher["operator"].missing : Defined(r)
Rested == ~taken /\ AtRest => \A r \in Records : Defined(r)
Inv == Fresh /\ Straight /\ Able /\ Labelled /\ Complete /\ Rested

LEMMA InitInv == ASSUME Init PROVE Inv
<1>1. \A p \in Patchers : At(p, "idle")
  BY DEF Init, At, Idle, Patch
<1>2. \A n \in Namespaces : ours[n] = Absent
  BY DEF Init
<1>3. Fresh /\ Able /\ Complete
  BY <1>1 DEF Fresh, Able, Complete, Patchers, At
<1>4. Straight /\ Labelled
  BY <1>2 DEF Straight, Labelled, Absent, Namespaces
<1>5. Rested
  BY DEF Init, Rested, AtRest
<1> QED
  BY <1>3, <1>4, <1>5 DEF Inv

\* The objects and what others define are as they were.
LEMMA ObjectsStay ==
  ASSUME UNCHANGED <<prometheus, foreign, ours, astray>>, Straight, Labelled
  PROVE  Straight' /\ Labelled' /\ \A r : Defined(r)' <=> Defined(r)
<1>1. Straight'
  BY DEF Straight, Absent, Unset
<1>2. Labelled'
  BY DEF Labelled, Namespaces, Selectable, Selects, Admits, Unset
<1>3. \A r : Defined(r)' <=> Defined(r)
  BY DEF Defined, Namespaces
<1> QED
  BY <1>1, <1>2, <1>3

\* Patcher p goes on or stops, and writes nothing.
LEMMA GotoKeeps ==
  ASSUME RulesTypeOK, Inv, UNCHANGED <<prometheus, foreign, ours, astray>>,
         NEW p \in Patchers, NEW s, Goto(p, s),
         s.pc # "idle" /\ ~s.late =>
            \A r \in s.missing : \A n \in Namespaces : ours[n].count[r] = 0,
         s.pc = "write" => Selectable,
         p # "operator" => UNCHANGED <<due, taken>>,
         p = "operator" /\ ~taken' /\ s.pc # "idle" =>
            \A r \in Records \ s.missing : Defined(r),
         p = "operator" /\ ~taken' /\ s.pc = "idle" /\ ~due' => \A r \in Records : Defined(r)
  PROVE  Inv'
<1>1. \A q \in Patchers : patcher'[q] = IF q = p THEN s ELSE patcher[q]
  BY DEF Goto, RulesTypeOK, PatchersTypeOK
<1>2. Straight' /\ Labelled' /\ \A r : Defined(r)' <=> Defined(r)
  BY ObjectsStay DEF Inv
<1>3. Fresh'
  BY <1>1 DEF Inv, Fresh, At, Patchers, Namespaces
<1>4. Able'
  BY <1>1 DEF Inv, Able, At, Patchers, Selectable
<1>5. CASE p = "operator"
  <2>1. patcher'["operator"] = s
    BY <1>1, <1>5
  <2>2. Complete'
    BY <1>2, <1>5, <2>1 DEF Complete, At
  <2>3. Rested'
    BY <1>2, <1>5, <2>1 DEF Rested, AtRest
  <2> QED
    BY <1>2, <1>3, <1>4, <2>2, <2>3 DEF Inv
<1>6. CASE p # "operator"
  <2>1. patcher'["operator"] = patcher["operator"]
    BY <1>1, <1>6 DEF Patchers
  <2>2. Complete'
    BY <1>2, <1>6, <2>1 DEF Inv, Complete, At
  <2>3. Rested'
    BY <1>2, <1>6, <2>1 DEF Inv, Rested, AtRest
  <2> QED
    BY <1>2, <1>3, <1>4, <2>2, <2>3 DEF Inv
<1> QED
  BY <1>5, <1>6

\* A patcher that gives up leaves a reconcile due, if it is the operator.
LEMMA GiveUpKeeps ==
  ASSUME RulesTypeOK, Inv, UNCHANGED <<prometheus, foreign, ours, astray>>,
         NEW p \in Patchers, Goto(p, Idle),
         p = "operator" => due',
         p # "operator" => UNCHANGED <<due, taken>>
  PROVE  Inv'
<1>1. Idle.pc = "idle"
  BY DEF Idle, Patch
<1> QED
  BY <1>1, GotoKeeps

LEMMA CheckKeeps ==
  ASSUME RulesTypeOK, Inv, NEW p \in Patchers, Check(p) PROVE Inv'
<1>1. UNCHANGED <<prometheus, foreign, ours, astray>>
  BY DEF Check, world
<1>2. p # "operator" => UNCHANGED taken
  BY DEF Check
<1>3. p # "operator" => UNCHANGED due
  BY DEF Check, Started, GiveUp, Again, RulesTypeOK, FlagsTypeOK
<1>4. \A r \in Records \ Missing : Defined(r)
  BY DEF Missing
<1>5. CASE Missing = {} /\ Goto(p, Idle)
  <2>1. Idle.pc = "idle" /\ \A r \in Records : Defined(r)
    BY <1>4, <1>5 DEF Idle, Patch
  <2> QED
    BY <1>1, <1>2, <1>3, <1>5, <2>1, GotoKeeps
<1>6. CASE Goto(p, Patch("read", Missing))
  <2> DEFINE s == Patch("read", Missing)
  <2>1. s.pc = "read" /\ s.missing = Missing
    BY DEF Patch
  <2>2. \A r \in Missing : \A n \in Namespaces : ours[n].count[r] = 0
    BY DEF Missing, Defined, RulesTypeOK, ObjectsTypeOK, RuleType
  <2> HIDE DEF s
  <2>3. Goto(p, s)
    BY <1>6 DEF s
  <2> QED
    BY <1>1, <1>2, <1>3, <1>4, <2>1, <2>2, <2>3, GotoKeeps
<1>7. CASE GiveUp(p)
  <2>1. Goto(p, Idle) /\ (p = "operator" => due')
    BY <1>7 DEF GiveUp, Again
  <2> QED
    BY <1>1, <1>2, <1>3, <2>1, GiveUpKeeps
<1> QED
  BY <1>5, <1>6, <1>7 DEF Check

LEMMA ReadKeeps ==
  ASSUME RulesTypeOK, Inv, NEW p \in Patchers, Read(p) PROVE Inv'
<1>1. UNCHANGED <<prometheus, foreign, ours, astray, taken>> /\ At(p, "read")
  BY DEF Read, world
<1>2. p # "operator" => UNCHANGED due
  BY DEF Read, GiveUp, Again, RulesTypeOK, FlagsTypeOK
<1>3. CASE Selectable /\ Goto(p, PatchOf(p, ValidService)) /\ UNCHANGED due
  <2> DEFINE s == PatchOf(p, ValidService)
  <2>1. /\ s.pc = "write" /\ s.missing = patcher[p].missing /\ s.late = patcher[p].late
        /\ ~At(p, "idle")
    BY <1>1 DEF PatchOf, At
  <2> HIDE DEF s
  <2>2. Goto(p, s)
    BY <1>3 DEF s
  <2>3. ~s.late => \A r \in s.missing : \A n \in Namespaces : ours[n].count[r] = 0
    BY <2>1 DEF Inv, Fresh
  <2>4. p = "operator" /\ ~taken' => \A r \in Records \ s.missing : Defined(r)
    BY <1>1, <2>1 DEF Inv, Complete
  <2> QED
    BY <1>1, <1>2, <1>3, <2>1, <2>2, <2>3, <2>4, GotoKeeps
<1>4. CASE GiveUp(p)
  <2>1. Goto(p, Idle) /\ (p = "operator" => due')
    BY <1>4 DEF GiveUp, Again
  <2> QED
    BY <1>1, <1>2, <2>1, GiveUpKeeps
<1> QED
  BY <1>3, <1>4 DEF Read

\* What the other patchers know after somebody wrote in namespace n.
LEMMA NoticedKnows ==
  ASSUME PatchersTypeOK, NEW n, NEW p \in Patchers
  PROVE  /\ Noticed(n)[p].pc = patcher[p].pc /\ Noticed(n)[p].missing = patcher[p].missing
         /\ Noticed(n)[p].late = patcher[p].late
<1>1. patcher[p] \in PatcherType
  BY DEF PatchersTypeOK
<1>2. [patcher[p] EXCEPT !.moved = TRUE].pc = patcher[p].pc
  BY <1>1 DEF PatcherType
<1>3. [patcher[p] EXCEPT !.moved = TRUE].missing = patcher[p].missing
  BY <1>1 DEF PatcherType
<1>4. [patcher[p] EXCEPT !.moved = TRUE].late = patcher[p].late
  BY <1>1 DEF PatcherType
<1>5. Noticed(n)[p] = patcher[p] \/ Noticed(n)[p] = [patcher[p] EXCEPT !.moved = TRUE]
  BY DEF Noticed
<1> QED
  BY <1>2, <1>3, <1>4, <1>5

\* A patch makes every other one that is under way late.
LEMMA PatchKnows ==
  ASSUME RulesTypeOK, NEW p \in Patchers, NEW n \in Namespaces, NEW q \in Patchers, q # p
  PROVE  /\ NoticedPatch(p, n)[q].pc = patcher[q].pc
         /\ NoticedPatch(p, n)[q].missing = patcher[q].missing
         /\ NoticedPatch(p, n)[q].late = ~At(q, "idle")
<1>1. Noticed(n)[q] \in PatcherType
  BY NoticedTyped DEF RulesTypeOK
<1>2. NoticedPatch(p, n)[q] = [Noticed(n)[q] EXCEPT !.late = ~At(q, "idle")]
  BY DEF NoticedPatch
<1>3. NoticedPatch(p, n)[q].pc = Noticed(n)[q].pc
  BY <1>1, <1>2 DEF PatcherType
<1>4. NoticedPatch(p, n)[q].missing = Noticed(n)[q].missing
  BY <1>1, <1>2 DEF PatcherType
<1>5. NoticedPatch(p, n)[q].late = ~At(q, "idle")
  BY <1>1, <1>2 DEF PatcherType
<1> QED
  BY <1>3, <1>4, <1>5, NoticedKnows DEF RulesTypeOK

\* The object after a patch.
LEMMA PutWrites ==
  ASSUME RulesTypeOK, LabelsSelected, Inv, NEW p \in Patchers, At(p, "write"),
         Put(p, Appended(ours[patcher[p].where].count, p)), UNCHANGED prometheus
  PROVE  /\ \A m \in Namespaces : \A r \in Records :
               /\ ours'[m].count[r] >= ours[m].count[r]
               /\ r \in patcher[p].missing /\ m = patcher[p].where => ours'[m].count[r] > 0
               /\ r \notin patcher[p].missing \/ m # patcher[p].where =>
                      ours'[m].count[r] = ours[m].count[r]
         /\ Straight' /\ Labelled'
<1> DEFINE n == patcher[p].where
           count == Appended(ours[n].count, p)
<1>1. n \in Namespaces /\ patcher[p].missing \in SUBSET Records
  BY DEF RulesTypeOK, PatchersTypeOK, PatcherType
<1>2. /\ ours \in [Namespaces -> RuleType]
      /\ \A m \in Namespaces : \A r \in Records : ours[m].count[r] \in 0 .. 2
  BY DEF RulesTypeOK, ObjectsTypeOK, RuleType
<1>3. ours' = [ours EXCEPT ![n] = Patched(count, p)]
  BY DEF Put
<1>4. ours'[n] = Patched(count, p) /\ \A m \in Namespaces \ {n} : ours'[m] = ours[m]
  BY <1>1, <1>2, <1>3
<1>5. \A r \in Records :
         count[r] = IF r \in patcher[p].missing /\ ours[n].count[r] < 2
                    THEN ours[n].count[r] + 1 ELSE ours[n].count[r]
  BY DEF Appended
<1>6. ours'[n].count = count /\ ours'[n].label = LabelFor(prometheus.selector)
  BY <1>4 DEF Patched
<1>7. \A m \in Namespaces : \A r \in Records :
         /\ ours'[m].count[r] >= ours[m].count[r]
         /\ r \in patcher[p].missing /\ m = n => ours'[m].count[r] > 0
         /\ r \notin patcher[p].missing \/ m # n => ours'[m].count[r] = ours[m].count[r]
  <2> SUFFICES ASSUME NEW m \in Namespaces, NEW r \in Records
               PROVE  /\ ours'[m].count[r] >= ours[m].count[r]
                      /\ r \in patcher[p].missing /\ m = n => ours'[m].count[r] > 0
                      /\ r \notin patcher[p].missing \/ m # n =>
                             ours'[m].count[r] = ours[m].count[r]
    OBVIOUS
  <2> HIDE DEF count, n
  <2>1. CASE m = n
    BY <1>2, <1>5, <1>6, <2>1
  <2>2. CASE m # n
    BY <1>2, <1>4, <2>2
  <2> QED
    BY <2>1, <2>2
<1>8. Labelled'
  <2>1. Selectable /\ prometheus.selector \in Selectors
    BY DEF Inv, Able, RulesTypeOK, WorldTypeOK
  <2>2. Selects(prometheus.selector, LabelFor(prometheus.selector))
    BY <2>1 DEF LabelsSelected, Selectable
  <2>3. \A m \in Namespaces :
           ours'[m].exists => Selectable /\ Selects(prometheus.selector, ours'[m].label)
    BY <1>4, <1>6, <2>1, <2>2 DEF Inv, Labelled
  <2> QED
    BY <2>3 DEF Labelled, Namespaces, Selectable, Selects, Admits, Unset
<1>9. Straight'
  <2> SUFFICES ASSUME ~astray'
               PROVE  ours'["there"] = Absent /\ \A r \in Records : ours'["here"].count[r] <= 1
    BY DEF Straight, Absent, Unset
  <2>1. ~astray /\ ~patcher[p].late /\ n = "here"
    BY DEF Put
  <2>2. ours'["there"] = Absent
    BY <1>4, <2>1 DEF Inv, Straight, Namespaces
  <2>3. \A r \in patcher[p].missing : ours[n].count[r] = 0
    BY <1>1, <2>1 DEF Inv, Fresh, At
  <2>4. \A r \in Records : ours[n].count[r] <= 1
    BY <2>1 DEF Inv, Straight
  <2> HIDE DEF count
  <2>5. \A r \in Records : ours'[n].count[r] <= 1
    BY <1>1, <1>2, <1>5, <1>6, <2>3, <2>4
  <2> QED
    BY <2>1, <2>2, <2>5
<1> QED
  BY <1>7, <1>8, <1>9

LEMMA PutKeeps ==
  ASSUME RulesTypeOK, LabelsSelected, Inv, NEW p \in Patchers, At(p, "write"),
         Put(p, Appended(ours[patcher[p].where].count, p)),
         UNCHANGED <<prometheus, foreign, taken>>, p # "operator" => UNCHANGED due
  PROVE  Inv'
<1> DEFINE n == patcher[p].where
<1>1. /\ \A m \in Namespaces : \A r \in Records :
            /\ ours'[m].count[r] >= ours[m].count[r]
            /\ r \in patcher[p].missing /\ m = n => ours'[m].count[r] > 0
            /\ r \notin patcher[p].missing \/ m # n => ours'[m].count[r] = ours[m].count[r]
      /\ Straight' /\ Labelled'
  BY PutWrites
<1>2. n \in Namespaces /\ \A m \in Namespaces : \A r \in Records : ours[m].count[r] \in 0 .. 2
  BY DEF RulesTypeOK, PatchersTypeOK, PatcherType, ObjectsTypeOK, RuleType
<1>3. patcher' = NoticedPatch(p, n)
  BY DEF Put
<1>4. patcher'[p].pc = "idle"
  BY <1>3 DEF NoticedPatch, Idle, Patch
<1>5. \A q \in Patchers \ {p} :
         /\ patcher'[q].pc = patcher[q].pc /\ patcher'[q].missing = patcher[q].missing
         /\ patcher'[q].late = ~At(q, "idle")
  BY <1>2, <1>3, PatchKnows
<1>6. Fresh'
  BY <1>4, <1>5 DEF Fresh, At, Patchers, Namespaces
<1>7. Able'
  BY <1>4, <1>5 DEF Inv, Able, At, Patchers, Selectable
<1>8. \A r \in Records : Defined(r) => Defined(r)'
  <2> HIDE DEF n
  <2>1. ASSUME NEW r \in Records, \E m \in Namespaces : ours[m].count[r] > 0
        PROVE  \E m \in Namespaces : ours'[m].count[r] > 0
    <3>1. PICK m \in Namespaces : ours[m].count[r] > 0
      BY <2>1
    <3>2. ours'[m].count[r] > 0
      <4>1. CASE r \in patcher[p].missing /\ m = n
        BY <1>1, <4>1
      <4>2. CASE r \notin patcher[p].missing \/ m # n
        BY <1>1, <3>1, <4>2
      <4> QED
        BY <4>1, <4>2
    <3> QED
      BY <3>2
  <2> QED
    BY <2>1 DEF Defined, Namespaces
<1>9. CASE p = "operator"
  <2>1. \A r \in patcher[p].missing : Defined(r)'
    BY <1>1, <1>2 DEF Defined, Namespaces, RulesTypeOK, PatchersTypeOK, PatcherType
  <2>2. ~taken => \A r \in Records : Defined(r)'
    BY <1>8, <1>9, <2>1 DEF Inv, Complete, At
  <2>3. Complete' /\ Rested'
    BY <1>4, <1>9, <2>2 DEF Complete, Rested, At
  <2> QED
    BY <1>1, <1>6, <1>7, <2>3 DEF Inv
<1>10. CASE p # "operator"
  <2>1. /\ patcher'["operator"].pc = patcher["operator"].pc
        /\ patcher'["operator"].missing = patcher["operator"].missing
    BY <1>5, <1>10 DEF Patchers
  <2>2. Complete'
    BY <1>8, <2>1 DEF Inv, Complete, At
  <2>3. Rested'
    BY <1>8, <1>10, <2>1 DEF Inv, Rested, AtRest
  <2> QED
    BY <1>1, <1>6, <1>7, <2>2, <2>3 DEF Inv
<1> QED
  BY <1>9, <1>10

LEMMA WriteKeeps ==
  ASSUME RulesTypeOK, LabelsSelected, Inv, NEW p \in Patchers, Write(p) PROVE Inv'
<1> DEFINE count == Appended(ours[patcher[p].where].count, p)
<1>1. UNCHANGED <<prometheus, foreign, taken>> /\ At(p, "write")
  BY DEF Write, WriteRules, world
<1>2. p # "operator" => UNCHANGED due
  BY DEF Write, WriteRules, GiveUp, Again, RulesTypeOK, FlagsTypeOK
<1>3. CASE Put(p, count)
  BY <1>1, <1>2, <1>3, PutKeeps
<1>4. CASE GiveUp(p) /\ UNCHANGED <<ours, astray>>
  <2>1. Goto(p, Idle) /\ (p = "operator" => due')
    BY <1>4 DEF GiveUp, Again
  <2> QED
    BY <1>1, <1>2, <1>4, <2>1, GiveUpKeeps
<1> QED
  BY <1>3, <1>4 DEF Write, WriteRules

LEMMA LoseKeeps ==
  ASSUME RulesTypeOK, Inv, UNCHANGED <<prometheus, foreign, astray>>,
         NEW n \in Namespaces, NEW object \in Lesser(n), Lose(n, object)
  PROVE  Inv'
<1>1. ours \in [Namespaces -> RuleType]
  BY DEF RulesTypeOK, ObjectsTypeOK
<1>2. ours'[n] = object /\ \A m \in Namespaces \ {n} : ours'[m] = ours[m]
  BY <1>1 DEF Lose
<1>3. \A q \in Patchers :
         /\ patcher'[q].pc = patcher[q].pc /\ patcher'[q].missing = patcher[q].missing
         /\ patcher'[q].late = patcher[q].late
  BY NoticedKnows DEF Lose, RulesTypeOK
<1>4. /\ \A r \in Records : object.count[r] \in {0, ours[n].count[r]}
      /\ object.exists => ours[n].exists /\ object.label = ours[n].label
  <2>1. CASE object = Absent
    BY <2>1 DEF Absent
  <2>2. CASE object # Absent
    <3>1. PICK r \in Records : object = [ours[n] EXCEPT !.count = [@ EXCEPT ![r] = 0]]
      BY <2>2 DEF Lesser
    <3>2. ours[n] \in RuleType /\ ours[n].exists
      BY <1>1, <2>2 DEF Lesser
    <3>3. object.count = [ours[n].count EXCEPT ![r] = 0] /\ object.label = ours[n].label
      BY <3>1, <3>2 DEF RuleType
    <3> QED
      BY <3>2, <3>3 DEF RuleType
  <2> QED
    BY <2>1, <2>2
<1>5. Fresh'
  <2>1. \A r \in Records : \A m \in Namespaces :
           ours[m].count[r] = 0 => ours'[m].count[r] = 0
    BY <1>2, <1>4
  <2>2. \A q \in Patchers : patcher[q].missing \in SUBSET Records
    BY DEF RulesTypeOK, PatchersTypeOK, PatcherType
  <2> QED
    BY <1>3, <2>1, <2>2 DEF Inv, Fresh, At, Patchers, Namespaces
<1>6. Straight'
  <2> SUFFICES ASSUME ~astray
               PROVE  ours'["there"] = Absent /\ \A r \in Records : ours'["here"].count[r] <= 1
    BY DEF Straight, Absent, Unset
  <2>1. ours["there"] = Absent /\ \A r \in Records : ours["here"].count[r] <= 1
    BY DEF Inv, Straight
  <2>2. ours'["there"] = Absent
    <3>1. CASE n = "there"
      <4>1. ~ours[n].exists
        BY <2>1, <3>1 DEF Absent
      <4> QED
        BY <1>2, <3>1, <4>1 DEF Lesser
    <3>2. CASE n # "there"
      BY <1>2, <2>1, <3>2 DEF Namespaces
    <3> QED
      BY <3>1, <3>2
  <2>3. \A r \in Records : ours'["here"].count[r] <= 1
    BY <1>2, <1>4, <2>1 DEF Namespaces
  <2> QED
    BY <2>2, <2>3
<1>7. Able'
  BY <1>3 DEF Inv, Able, At, Patchers, Selectable
<1>8. Labelled'
  BY <1>2, <1>4 DEF Inv, Labelled, Namespaces, Selectable, Selects, Admits, Unset
<1>9. Complete' /\ Rested'
  BY DEF Lose, Complete, Rested
<1> QED
  BY <1>5, <1>6, <1>7, <1>8, <1>9 DEF Inv

\* Steps after which the operator has something to do or an excuse, or that change
\* nothing the promise is about.
LEMMA OthersKeep ==
  ASSUME RulesTypeOK, Inv,
         EditForeign \/ EditServices \/ Reinstall \/ Resync \/ Restart \/ UNCHANGED vars
  PROVE  Inv'
<1>1. UNCHANGED <<prometheus, ours, astray>>
  BY DEF EditForeign, EditServices, Reinstall, Resync, Restart, world, vars
<1>2. CASE Restart
  BY <1>1, <1>2, GiveUpKeeps DEF Restart, world, Patchers
<1>3. CASE UNCHANGED patcher
  <2>1. Fresh'
    BY <1>1, <1>3 DEF Inv, Fresh, At, Patchers, Namespaces
  <2>2. Able'
    BY <1>1, <1>3 DEF Inv, Able, At, Patchers, Selectable
  <2>3. Straight'
    BY <1>1 DEF Inv, Straight, Absent, Unset
  <2>4. Labelled'
    BY <1>1 DEF Inv, Labelled, Namespaces, Selectable, Selects, Admits, Unset
  <2>5. Complete' /\ Rested'
    <3>1. CASE taken'
      BY <3>1 DEF Complete, Rested
    <3>2. CASE UNCHANGED <<foreign, taken>> /\ (due' \/ UNCHANGED due)
      <4>1. \A r \in Records : Defined(r)' <=> Defined(r)
        BY <1>1, <3>2 DEF Defined, Namespaces
      <4>2. Complete'
        BY <1>3, <3>2, <4>1 DEF Inv, Complete, At
      <4>3. Rested'
        BY <1>3, <3>2, <4>1 DEF Inv, Rested, AtRest
      <4> QED
        BY <4>2, <4>3
    <3> QED
      BY <3>1, <3>2 DEF EditForeign, EditServices, Reinstall, Resync, Restart, world, vars
  <2> QED
    BY <2>1, <2>2, <2>3, <2>4, <2>5 DEF Inv
<1> QED
  BY <1>2, <1>3 DEF EditForeign, EditServices, Reinstall, Resync, vars

LEMMA NextKeeps ==
  ASSUME LabelsSelected, RulesTypeOK, Inv, [Next]_vars PROVE Inv'
<1>1. CASE Operator
  BY <1>1, CheckKeeps, ReadKeeps, WriteKeeps DEF Operator, Patchers
<1>2. CASE Command
  BY <1>2, CheckKeeps, ReadKeeps, WriteKeeps DEF Command, Patchers
<1>3. CASE EditOurs \/ Collect
  <2>1. PICK n \in Namespaces : \E object \in Lesser(n) : Lose(n, object)
    BY <1>3, TakersLose
  <2>2. UNCHANGED <<prometheus, foreign, astray>>
    BY <1>3, TakersLose DEF world
  <2> QED
    BY <2>1, <2>2, LoseKeeps
<1>4. CASE EditForeign \/ EditServices \/ Reinstall \/ Resync \/ Restart \/ UNCHANGED vars
  BY <1>4, OthersKeep
<1> QED
  BY <1>1, <1>2, <1>3, <1>4 DEF Next, Users

\* The strengthening says what the promise at rest means.
LEMMA InvMeansPatched ==
  ASSUME LabelsSelected, RulesTypeOK, Inv PROVE RestMeansPatched
<1> SUFFICES ASSUME AtRest, ~astray
             PROVE  /\ taken \/ AllEvaluated
                    /\ \A r \in Records : ours["here"].count[r] <= 1
  BY DEF RestMeansPatched
<1>1. ours["there"] = Absent /\ \A r \in Records : ours["here"].count[r] <= 1
  BY DEF Inv, Straight
<1>2. ASSUME ~taken, NEW r \in Records PROVE Evaluated(r) \/ foreign[r] = "elsewhere"
  <2>1. Defined(r)
    BY <1>2 DEF Inv, Rested
  <2>2. foreign[r] \in {"here", "elsewhere", "none"}
    BY DEF RulesTypeOK, WorldTypeOK
  <2>3. CASE foreign[r] = "none"
    <3>1. ours["there"].count[r] = 0
      BY <1>1 DEF Absent
    <3>2. ours["here"].count[r] > 0
      BY <2>1, <2>3, <3>1 DEF Defined, Namespaces
    <3>3. ours["here"].exists
      <4>1. ours["here"].exists \/ ours["here"] = Absent
        BY DEF RulesTypeOK, ObjectsTypeOK, Namespaces
      <4> QED
        BY <3>2, <4>1 DEF Absent
    <3>4. prometheus.watched /\ Selects(prometheus.selector, ours["here"].label)
      BY <3>3 DEF Inv, Labelled, Namespaces, Selectable
    <3> QED
      BY <3>2, <3>4 DEF Evaluated
  <2> QED
    BY <2>2, <2>3 DEF Evaluated
<1> QED
  BY <1>1, <1>2 DEF AllEvaluated

\* When the operator rests Prometheus evaluates all records, each defined once, unless
\* something was taken away since or a patch went astray.
THEOREM RestIsPatched == ASSUME Bounds, LabelsSelected PROVE Spec => []RestMeansPatched
<1>1. Init => RulesTypeOK /\ Inv
  BY TypeInit, InitInv
<1>2. RulesTypeOK /\ Inv /\ [Next]_vars => (RulesTypeOK /\ Inv)'
  BY NextTyped, NextKeeps
<1>3. RulesTypeOK /\ Inv => RestMeansPatched
  BY InvMeansPatched
<1> QED
  BY <1>1, <1>2, <1>3, PTL DEF Spec
=============================================================================
