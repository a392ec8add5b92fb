--------------------------- MODULE MCOperandSync ---------------------------
(* Some operands of four components, as in the repository; see the README. *)
EXTENDS OperandSync, TLC

CONSTANTS role, datasources, port, grafana, executor, cert, evictioner, agent, none

MCOperands == {role, datasources, port, grafana, executor, cert, evictioner, agent}
MCKind == role :> "ClusterRole" @@ datasources :> "ConfigMap" @@
          port :> "Service" @@ grafana :> "Deployment" @@ executor :> "Deployment" @@
          cert :> "Secret" @@ evictioner :> "Deployment" @@ agent :> "DaemonSet"
MCListed == role :> 1 @@ datasources :> 2 @@ grafana :> 3 @@ executor :> 4 @@
            cert :> 5 @@ evictioner :> 6 @@ agent :> 7 @@ port :> 8
MCMounts == [o \in MCOperands |-> IF o = grafana THEN datasources ELSE none]
MCRefreshes == [o \in MCOperands |-> IF o = datasources THEN grafana ELSE none]

MCSwitches == {"gui", "execution", "vpa", "weavescope"}
MCSwitchRank == "execution" :> 1 @@ "gui" :> 2 @@ "weavescope" :> 3 @@ "vpa" :> 4
MCNeeds == [o \in MCOperands |->
    CASE o \in {role, datasources, port, grafana} -> {"gui"}
      [] o = executor -> {"execution"}
      [] o \in {cert, evictioner} -> {"execution", "vpa"}
      [] o = agent -> {"weavescope"}]
MCRemoves == "gui" :> {role, datasources, port, grafana} @@
             "execution" :> {executor, cert, evictioner} @@
             "vpa" :> {cert, evictioner} @@ "weavescope" :> {agent}

\* Probes without thresholds, volumes without a source, a host path without a type.
MCUndefaulted == {grafana, executor, evictioner, agent}
MCOverlooked == {executor, port}

\* What the proofs assume of the operands.
ASSUME OperandsAgree == ListsFit /\ ReplacedSeen
=============================================================================
