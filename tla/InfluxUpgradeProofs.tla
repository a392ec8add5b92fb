------------------------- MODULE InfluxUpgradeProofs -------------------------
(***************************************************************************)
(* Proofs about InfluxUpgrade, for every set of consumers, every kind and  *)
(* every number of failures.                                               *)
(***************************************************************************)
EXTENDS InfluxUpgrade, TLAPS

(* Type correctness.  What is not installed has no pods, so that what is    *)
(* written to the databases comes from a release.                          *)

AbsentIsDown ==
    \A c \in Consumers : release[c] = "none" => replicas[c] = 0 /\ running[c] = 0
TypeInv == UpgradeTypeOK /\ AbsentIsDown

LEMMA TypeInit == ASSUME MaxFailures \in Nat, Init PROVE TypeInv
<1>1. PICK installed \in SUBSET Consumers :
         /\ release = [c \in Consumers |-> IF c \in installed THEN "kilo" ELSE "none"]
         /\ replicas = [c \in Consumers |-> IF c \in installed THEN 1 ELSE 0]
         /\ data = IF installed = {} THEN {} ELSE {"old"}
         /\ database = IF installed = {} THEN "absent" ELSE "serving"
  BY DEF Init
<1>2. release \in [Consumers -> {"none", "kilo", "lima"}] /\ replicas \in [Consumers -> 0 .. 1]
  BY <1>1
<1>3. /\ data \subseteq {"old", "kilo", "lima"}
      /\ database \in {"absent", "service", "created", "serving"}
  BY <1>1
<1>4. AbsentIsDown
  BY <1>1 DEF AbsentIsDown, Init
<1>5. task \in [Consumers -> {"start", "poll", "done", "failed"}]
  BY DEF Init, Started
<1>6. failures \in 0 .. MaxFailures
  BY DEF Init
<1> QED
  BY <1>2, <1>3, <1>4, <1>5, <1>6 DEF Init, TypeInv, UpgradeTypeOK

LEMMA TypeNext == ASSUME MaxFailures \in Nat, TypeInv, [Next]_vars PROVE TypeInv'
<1> USE DEF TypeInv, AbsentIsDown, UpgradeTypeOK, At, Fails, Succeeds, Started,
            GiveUp, Goto, clusterVars, ownVars
<1>1. CASE Check
  BY <1>1 DEF Check, CheckIf
<1>2. CASE Join
  BY <1>2 DEF Join
<1>3. CASE Drop
  <2>1. data' \subseteq {"old", "kilo", "lima"}
    <3>1. data' \subseteq data
      BY <1>3 DEF Drop, DropOr
    <3> QED
      BY <3>1
  <2> QED
    BY <1>3, <2>1 DEF Drop, DropOr
<1>4. ASSUME NEW c \in Consumers, Scale(c) PROVE TypeInv'
  BY <1>4 DEF Scale, Desired, Installed
<1>5. ASSUME NEW c \in Consumers, Poll(c) PROVE TypeInv'
  BY <1>5 DEF Poll, PollIf
<1>6. CASE Timeout
  BY <1>6 DEF Timeout
<1>7. ASSUME NEW c \in Consumers, Operate(c) PROVE TypeInv'
  BY <1>7 DEF Operate, OperateWith
<1>8. ASSUME NEW c \in Consumers, Protect(c) PROVE TypeInv'
  BY <1>8 DEF Protect, Installed
<1>9. ASSUME NEW c \in Consumers, StartOrStop(c) PROVE TypeInv'
  BY <1>9 DEF StartOrStop, Installed
<1>10. ASSUME NEW c \in Consumers, Report(c) PROVE TypeInv'
  BY <1>10 DEF Report
<1>11. ASSUME NEW c \in Consumers, Write(c) PROVE TypeInv'
  <2>1. release[c] \in {"kilo", "lima"}
    BY <1>11 DEF Write
  <2>2. data' \subseteq {"old", "kilo", "lima"}
    BY <1>11, <2>1 DEF Write
  <2> QED
    BY <1>11, <2>2 DEF Write
<1>12. CASE Restart
  BY <1>12 DEF Restart
<1>13. CASE UNCHANGED vars
  BY <1>13 DEF vars
<1>14. CASE CreateService \/ CreateDatabase \/ StartDatabase
  BY <1>14 DEF CreateService, CreateDatabase, StartDatabase
<1> QED
  BY <1>1, <1>2, <1>3, <1>4, <1>5, <1>6, <1>7, <1>8, <1>9, <1>10, <1>11, <1>12, <1>13, <1>14
  DEF Next, Upgrader, Operator, Cluster, Writes

\* Every variable keeps its type.
THEOREM UpgradeType == ASSUME MaxFailures \in Nat PROVE Spec => []UpgradeTypeOK
<1>1. Init => TypeInv
  BY TypeInit
<1>2. TypeInv /\ [Next]_vars => TypeInv'
  BY TypeNext
<1>3. TypeInv => UpgradeTypeOK
  BY DEF TypeInv
<1> QED
  BY <1>1, <1>2, <1>3, PTL DEF Spec

-----------------------------------------------------------------------------
(* Three facts, each inductive on top of the types. *)

\* Old data is in an InfluxDB that is there, and it is gone before the upgrader scales
\* up: all that follows, and Lima, come after a drop.
OldGoesFirst ==
    /\ database = "absent" => "old" \notin data
    /\ \/ pc \in {"up", "operate"}
       \/ "lima" \in data
       \/ \E c \in Consumers : release[c] = "lima"
       => "old" \notin data

\* While the consumers are scaled down, what is polled is meant to be down and what
\* is done is down.
Quiet ==
    ~misled => \A c \in Consumers :
       /\ At("down") /\ task[c] = "poll" => replicas[c] = 0
       /\ At("down") /\ task[c] = "done" => replicas[c] = 0 /\ running[c] = 0
       /\ At("drop") => replicas[c] = 0 /\ running[c] = 0

\* Unless the pod was restarted too early, Lima consumers do not run before the
\* operator does or the data tells so, and then nothing is dropped.
LimaShows ==
    ~early =>
       /\ ~At("operate") /\ "lima" \notin data => \A c \in Consumers : release[c] # "lima"
       /\ At("down") \/ At("drop") => "lima" \notin data

Inv == TypeInv /\ OldGoesFirst /\ Quiet /\ LimaShows

LEMMA InvInit == ASSUME MaxFailures \in Nat, Init PROVE Inv
<1>1. OldGoesFirst
  BY DEF Init, OldGoesFirst, Installed
<1>2. Quiet /\ LimaShows
  BY DEF Init, Quiet, LimaShows, At
<1> QED
  BY <1>1, <1>2, TypeInit DEF Inv

LEMMA OldGoesFirstNext ==
  ASSUME TypeInv, OldGoesFirst, [Next]_vars
  PROVE  OldGoesFirst'
<1> USE DEF TypeInv, AbsentIsDown, UpgradeTypeOK, OldGoesFirst, Installed, At, GiveUp,
            Goto, clusterVars, ownVars
<1>1. CASE Check
  BY <1>1 DEF Check, CheckIf
<1>2. CASE Join
  BY <1>2 DEF Join, Scaling
<1>3. CASE Drop
  <2>1. CASE data' = {}
    BY <2>1
  <2>2. CASE data' \subseteq data /\ pc' = "check"
    BY <1>3, <2>2 DEF Drop, DropOr
  <2> QED
    BY <1>3, <2>1, <2>2 DEF Drop, DropOr
<1>4. ASSUME NEW c \in Consumers, Scale(c) \/ Poll(c) PROVE OldGoesFirst'
  BY <1>4 DEF Scale, Poll, PollIf
<1>5. CASE Timeout
  BY <1>5 DEF Timeout
<1>6. ASSUME NEW c \in Consumers, Operate(c) PROVE OldGoesFirst'
  BY <1>6 DEF Operate, OperateWith
<1>7. ASSUME NEW c \in Consumers, Protect(c) \/ StartOrStop(c) \/ Report(c)
      PROVE  OldGoesFirst'
  BY <1>7 DEF Protect, StartOrStop, Report
<1>8. ASSUME NEW c \in Consumers, Write(c) PROVE OldGoesFirst'
  <2>1. release[c] \in {"kilo", "lima"}
    BY <1>8 DEF Write
  <2> QED
    BY <1>8, <2>1 DEF Write
<1>9. CASE Restart
  BY <1>9 DEF Restart
<1>10. CASE UNCHANGED vars
  BY <1>10 DEF vars
<1>11. CASE CreateService \/ CreateDatabase \/ StartDatabase
  BY <1>11 DEF CreateService, CreateDatabase, StartDatabase
<1> QED
  BY <1>1, <1>2, <1>3, <1>4, <1>5, <1>6, <1>7, <1>8, <1>9, <1>10, <1>11
  DEF Next, Upgrader, Operator, Cluster, Writes

LEMMA QuietNext == ASSUME TypeInv, Quiet, [Next]_vars PROVE Quiet'
<1> USE DEF TypeInv, AbsentIsDown, UpgradeTypeOK, Quiet, Installed, At, Started,
            GiveUp, Goto, clusterVars, ownVars
<1>1. CASE Check
  BY <1>1 DEF Check, CheckIf
<1>2. CASE Join
  BY <1>2 DEF Join
<1>3. CASE Drop
  BY <1>3 DEF Drop, DropOr
<1>4. ASSUME NEW c \in Consumers, Scale(c) PROVE Quiet'
  BY <1>4 DEF Scale, Desired, Scaling
<1>5. ASSUME NEW c \in Consumers, Poll(c) PROVE Quiet'
  BY <1>5 DEF Poll, PollIf, Desired, Scaling
<1>6. CASE Timeout
  BY <1>6 DEF Timeout, Scaling
<1>7. ASSUME NEW c \in Consumers, Operate(c) \/ Protect(c) PROVE Quiet'
  BY <1>7 DEF Operate, OperateWith, Protect
<1>8. ASSUME NEW c \in Consumers, StartOrStop(c) PROVE Quiet'
  BY <1>8 DEF StartOrStop
<1>9. ASSUME NEW c \in Consumers, Report(c) \/ Write(c) PROVE Quiet'
  BY <1>9 DEF Report, Write
<1>10. CASE Restart
  BY <1>10 DEF Restart
<1>11. CASE UNCHANGED vars
  BY <1>11 DEF vars
<1>12. CASE CreateService \/ CreateDatabase \/ StartDatabase
  BY <1>12 DEF CreateService, CreateDatabase, StartDatabase
<1> QED
  BY <1>1, <1>2, <1>3, <1>4, <1>5, <1>6, <1>7, <1>8, <1>9, <1>10, <1>11, <1>12
  DEF Next, Upgrader, Operator, Cluster, Writes

LEMMA LimaShowsNext == ASSUME TypeInv, LimaShows, [Next]_vars PROVE LimaShows'
<1> USE DEF TypeInv, AbsentIsDown, UpgradeTypeOK, LimaShows, Installed, At, GiveUp,
            Goto, clusterVars, ownVars
<1>1. CASE Check
  BY <1>1 DEF Check, CheckIf
<1>2. CASE Join
  BY <1>2 DEF Join, Scaling
<1>3. CASE Drop
  BY <1>3 DEF Drop, DropOr
<1>4. ASSUME NEW c \in Consumers, Scale(c) \/ Poll(c) PROVE LimaShows'
  BY <1>4 DEF Scale, Poll, PollIf
<1>5. CASE Timeout
  BY <1>5 DEF Timeout
<1>6. ASSUME NEW c \in Consumers, Operate(c) PROVE LimaShows'
  BY <1>6 DEF Operate, OperateWith
<1>7. ASSUME NEW c \in Consumers, Protect(c) \/ StartOrStop(c) \/ Report(c)
      PROVE  LimaShows'
  BY <1>7 DEF Protect, StartOrStop, Report
<1>8. ASSUME NEW c \in Consumers, Write(c) PROVE LimaShows'
  BY <1>8 DEF Write
<1>9. CASE Restart
  BY <1>9 DEF Restart
<1>10. CASE UNCHANGED vars
  BY <1>10 DEF vars
<1>11. CASE CreateService \/ CreateDatabase \/ StartDatabase
  BY <1>11 DEF CreateService, CreateDatabase, StartDatabase
<1> QED
  BY <1>1, <1>2, <1>3, <1>4, <1>5, <1>6, <1>7, <1>8, <1>9, <1>10, <1>11
  DEF Next, Upgrader, Operator, Cluster, Writes

THEOREM Invariance == ASSUME MaxFailures \in Nat PROVE Spec => []Inv
<1>1. Init => Inv
  BY InvInit
<1>2. Inv /\ [Next]_vars => Inv'
  BY TypeNext, OldGoesFirstNext, QuietNext, LimaShowsNext DEF Inv
<1> QED
  BY <1>1, <1>2, PTL DEF Spec

-----------------------------------------------------------------------------
(* The properties *)

\* Data from before the upgrade and Lima data are never in the databases together.
THEOREM SchemasStayApart == ASSUME MaxFailures \in Nat PROVE Spec => []SchemasApart
<1>1. Inv => SchemasApart
  BY DEF Inv, OldGoesFirst, SchemasApart
<1> QED
  BY <1>1, Invariance, PTL

\* Nobody uses the databases when they are dropped.
THEOREM DropsFindNobody == ASSUME MaxFailures \in Nat PROVE Spec => []DropsUnused
<1>1. Inv => DropsUnused
  BY DEF Inv, Quiet, DropsUnused, Installed, At
<1> QED
  BY <1>1, Invariance, PTL

\* No step drops Lima data, unless the pod was restarted too early.
THEOREM LimaStays == ASSUME MaxFailures \in Nat PROVE Spec => LimaKept
<1>1. ASSUME Inv, [Next]_vars, ~early, "lima" \in data
      PROVE  "lima" \in data'
  <2>1. CASE Drop
    BY <1>1, <2>1 DEF Inv, LimaShows, Drop, DropOr
  <2>2. ASSUME NEW c \in Consumers, Write(c) PROVE "lima" \in data'
    BY <1>1, <2>2 DEF Write
  <2>3. CASE UNCHANGED data
    BY <1>1, <2>3
  <2> QED
    BY <1>1, <2>1, <2>2, <2>3
    DEF Next, Upgrader, Operator, Cluster, Writes, Check, CheckIf, Join, Scale, Poll,
        PollIf, Timeout, Operate, OperateWith, CreateService, CreateDatabase,
        Protect, StartDatabase, StartOrStop, Report, Restart, clusterVars, vars
<1>2. Inv /\ [Next]_vars => [~early /\ "lima" \in data => "lima" \in data']_data
  BY <1>1
<1> QED
  BY <1>2, Invariance, PTL DEF Spec, LimaKept
=============================================================================
