---------------------------- MODULE RulesPromise ----------------------------
(***************************************************************************)
(* What patching the rules of Prometheus promises about what Prometheus    *)
(* evaluates: stated over the state PrometheusRules has.                   *)
(***************************************************************************)
EXTENDS Integers, Sequences

CONSTANT Records    \* the records needed

VARIABLES
    prometheus,  \* the selector of Prometheus for rules, whether it selects its own
                 \* namespace, and whether others have PrometheusRules
    foreign,     \* where others define a record: in a rule Prometheus selects
                 \* ("here"), in one it does not ("elsewhere"), or not at all
    ours,        \* the operator's PrometheusRule in each namespace
    due,         \* whether a reconcile is queued
    patcher,     \* the patches in progress
    taken,       \* history: rules went since the operator's last check
    astray       \* history: a patch was made for another service than the active one,
                 \* or one was written between the check and the write of another

\* The label of a PrometheusRule under the one key selectors are about here: not there,
\* an empty one, or a number.
Unset == -1
Empty == 0

\* A selector is a list of requirements on the key, or nothing is selected.
Admits(req, label) ==
    \/ req.op = "In" /\ label \in req.values
    \/ req.op = "NotIn" /\ label \notin req.values
    \/ req.op = "Exists" /\ label # Unset
Selects(selector, label) ==
    selector.selectable /\ \A i \in DOMAIN selector.reqs : Admits(selector.reqs[i], label)

\* What Prometheus evaluates.  What only a rule defines that it does not select, the
\* check takes for defined: the operator promises nothing then.
Evaluated(r) ==
    \/ foreign[r] = "here"
    \/ /\ ours["here"].count[r] > 0 /\ prometheus.watched
       /\ Selects(prometheus.selector, ours["here"].label)
AllEvaluated == \A r \in Records : Evaluated(r) \/ foreign[r] = "elsewhere"

\* When the operator rests, Prometheus evaluates every record needed, and no record is
\* in the operator's object twice: whatever answer was lost or call refused before,
\* unless a rule was taken away since or a patch went astray.
AtRest == ~due /\ patcher["operator"].pc = "idle"
RestMeansPatched ==
    AtRest /\ ~astray =>
        /\ taken \/ AllEvaluated
        /\ \A r \in Records : ours["here"].count[r] <= 1
=============================================================================
