------------------------- MODULE InstallationProofs -------------------------
(***************************************************************************)
(* Proofs about the parts of MCInstallation put side by side: a behaviour  *)
(* about one of them is a behaviour of its module, and leaves the state of *)
(* the others alone.                                                       *)
(***************************************************************************)
EXTENDS MCInstallation, StorageProofs

Parts == {"storage", "exposure", "upgrade", "rules"}

-----------------------------------------------------------------------------
(* One step of the whole is a step of the part at work *)

\* A step of a part leaves the others alone, and changes no part for another.
LEMMA StepIsOfPart ==
  ASSUME [MCNext]_allVars, part \in Parts
  PROVE  /\ part' = part
         /\ part = "storage" => [Next]_vars
         /\ part # "storage" => UNCHANGED vars
         /\ part = "exposure" => [E!Next]_(E!vars)
         /\ part = "upgrade" => [U!Next]_(U!vars)
         /\ part = "rules" => [R!Next]_(R!vars)
<1>1. CASE UNCHANGED allVars
  BY <1>1 DEF allVars, exposureVars, upgradeVars, rulesVars, E!vars, U!vars, R!vars
<1>2. CASE part = "storage" /\ MCNext
  BY <1>2 DEF MCNext, InStorage, InExposure, InUpgrade, InRules, Next
<1>3. CASE part = "exposure" /\ MCNext
  BY <1>3 DEF MCNext, InStorage, InExposure, InUpgrade, InRules, E!Next
<1>4. CASE part = "upgrade" /\ MCNext
  BY <1>4 DEF MCNext, InStorage, InExposure, InUpgrade, InRules, U!Next
<1>5. CASE part = "rules" /\ MCNext
  BY <1>5 DEF MCNext, InStorage, InExposure, InUpgrade, InRules, R!Next
<1> QED
  BY <1>1, <1>2, <1>3, <1>4, <1>5 DEF Parts

\* What a run checks of a part it checks of that part's specification, which the
\* theorems of its module are about: a behaviour of the whole is one of the part it is
\* about.  (The fairness of PrometheusRules is left out: nothing proved needs it.)
THEOREM PartsBehave ==
  MCSpec => /\ part = "storage" => Spec
            /\ part = "exposure" => E!Spec
            /\ part = "upgrade" => U!Spec
            /\ part = "rules" => R!Init /\ [][R!Next]_(R!vars)
<1>1. MCInit => /\ part = "storage" => Init
                /\ part = "exposure" => E!Init
                /\ part = "upgrade" => U!Init
                /\ part = "rules" => R!Init
  BY DEF MCInit
<1>2. part = "storage" /\ [MCNext]_allVars => (part = "storage")' /\ [Next]_vars
  BY StepIsOfPart DEF Parts
<1>3. part = "exposure" /\ [MCNext]_allVars => (part = "exposure")' /\ [E!Next]_(E!vars)
  BY StepIsOfPart DEF Parts
<1>4. part = "upgrade" /\ [MCNext]_allVars => (part = "upgrade")' /\ [U!Next]_(U!vars)
  BY StepIsOfPart DEF Parts
<1>5. part = "rules" /\ [MCNext]_allVars => (part = "rules")' /\ [R!Next]_(R!vars)
  BY StepIsOfPart DEF Parts
<1> QED
  BY <1>1, <1>2, <1>3, <1>4, <1>5, PTL DEF MCSpec, Spec, E!Spec, U!Spec

-----------------------------------------------------------------------------
(* The types *)

\* The types of the parts, with what the one of the upgrade needs to be inductive.
Typed ==
    /\ part \in Parts
    /\ StorageTypeOK
    /\ part = "exposure" => E!ExposureTypeOK
    /\ part = "upgrade" => U!TypeInv
    /\ part = "rules" => R!RulesTypeOK

\* What the other parts have for storages has the types.
LEMMA NoStorageTyped ==
  ASSUME BoundsTyped, NoneIsAList, NoStorage PROVE StorageTypeOK
<1>1. spec \in SpecType
  BY DEF NoStorage, NoneIsAList, SpecType
<1>2. worker \in WorkerType
  BY <1>1 DEF NoStorage, WorkerType
<1>3. pods \in [Components -> PodType]
  <2>1. NoPod \in PodType
    BY DEF PodType
  <2> QED
    BY <2>1 DEF NoStorage
<1>4. failures \in 0 .. MaxFailures /\ edits \in 0 .. MaxEdits
  BY DEF NoStorage, BoundsTyped
<1> QED
  BY <1>1, <1>2, <1>3, <1>4 DEF NoStorage, StorageTypeOK

LEMMA TypedMCInit ==
  ASSUME BoundsTyped, NoneIsAList, MCInit PROVE Typed
<1>1. CASE part = "storage" /\ Init
  BY <1>1, StorageTypeInit DEF Typed, Parts
<1>2. CASE part = "exposure" /\ E!Init /\ NoStorage
  <2>1. E!ConstantsTyped
    BY DEF E!ConstantsTyped
  <2>2. E!ExposureTypeOK
    BY <1>2, <2>1, E!TypeInit
  <2> QED
    BY <1>2, <2>2, NoStorageTyped DEF Typed, Parts
<1>3. CASE part = "upgrade" /\ U!Init /\ NoStorage
  <2>1. U!TypeInv
    BY <1>3, U!TypeInit
  <2> QED
    BY <1>3, <2>1, NoStorageTyped DEF Typed, Parts
<1>4. CASE part = "rules" /\ R!Init /\ NoStorage
  <2>1. R!Bounds
    BY DEF R!Bounds
  <2>2. R!RulesTypeOK
    BY <1>4, <2>1, R!TypeInit
  <2> QED
    BY <1>4, <2>2, NoStorageTyped DEF Typed, Parts
<1> QED
  BY <1>1, <1>2, <1>3, <1>4 DEF MCInit

LEMMA TypedMCNext ==
  ASSUME StoragesPlain, BoundsTyped, R!LabelsSelected, Typed, [MCNext]_allVars
  PROVE  Typed'
<1>1. part \in Parts /\ StorageTypeOK
  BY DEF Typed
<1>2. part' = part
  BY <1>1, StepIsOfPart
<1>3. StorageTypeOK'
  <2>1. [Next]_vars
    BY <1>1, StepIsOfPart
  <2> QED
    BY <1>1, <2>1, StorageTypeNext
<1>4. ASSUME part = "exposure" PROVE E!ExposureTypeOK'
  <2>1. E!ConstantsTyped
    BY DEF E!ConstantsTyped
  <2>2. E!ExposureTypeOK /\ [E!Next]_(E!vars)
    BY <1>1, <1>4, StepIsOfPart DEF Typed
  <2> QED
    BY <2>1, <2>2, E!TypeNext
<1>5. ASSUME part = "upgrade" PROVE U!TypeInv'
  <2>1. U!TypeInv /\ [U!Next]_(U!vars)
    BY <1>1, <1>5, StepIsOfPart DEF Typed
  <2> QED
    BY <2>1, U!TypeNext
<1>6. ASSUME part = "rules" PROVE R!RulesTypeOK'
  <2>1. R!Bounds
    BY DEF R!Bounds
  <2>2. R!RulesTypeOK /\ [R!Next]_(R!vars)
    BY <1>1, <1>6, StepIsOfPart DEF Typed
  <2> QED
    BY <2>1, <2>2, R!NextTyped
<1> QED
  BY <1>1, <1>2, <1>3, <1>4, <1>5, <1>6 DEF Typed

\* Every variable of the part at work keeps its type, whatever fails, for all
\* components, plain storages (none among them), services, consumers and records.
THEOREM TypeCorrect ==
  ASSUME StoragesPlain, BoundsTyped, NoneIsAList, R!LabelsSelected
  PROVE  MCSpec => []TypeOK
<1>1. MCInit => Typed
  BY TypedMCInit
<1>2. Typed /\ [MCNext]_allVars => Typed'
  BY TypedMCNext
<1>3. Typed => TypeOK
  BY DEF Typed, TypeOK, Parts, U!TypeInv
<1> QED
  BY <1>1, <1>2, <1>3, PTL DEF MCSpec
=============================================================================
