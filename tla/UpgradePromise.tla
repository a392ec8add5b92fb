--------------------------- MODULE UpgradePromise ---------------------------
(***************************************************************************)
(* What the upgrade of InfluxDB promises about the data, whoever drops it  *)
(* and in which steps: stated over the state InfluxUpgrade has.            *)
(***************************************************************************)
CONSTANT Consumers    \* workload controllers other than InfluxDB's

VARIABLES
    pc,        \* the step of the pod: of the upgrader, or "operate"
    release,   \* the release of each consumer, "none" if it is not installed
    running,   \* the pods there are
    data,      \* what is in the databases: "old" data from before the upgrade,
               \* "kilo" data written by Kilo consumers since, "lima" data
    misled,    \* history: a status was read that did not tell the pods, or a
               \* consumer was restored behind it
    early      \* history: the pod was restarted after the first consumer was
               \* brought to Lima and before there was any Lima data

Installed == {c \in Consumers : release[c] # "none"}

\* Data from before the upgrade and Lima data are never in the databases together:
\* no failure or restart between the steps lets a Lima consumer start on them.
SchemasApart == ~("old" \in data /\ "lima" \in data)

\* When the databases are dropped nobody uses them, as long as the status told the
\* truth when it was polled and nobody else scaled the consumers.
DropsUnused ==
    pc = "drop" /\ ~misled => \A c \in Installed : running[c] = 0

\* The Lima data is never dropped, unless the pod was restarted before there was
\* any: then the check finds none, and what is written behind it is lost.
LimaKept == [][~early /\ "lima" \in data => "lima" \in data']_data
=============================================================================
