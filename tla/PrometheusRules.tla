-------------------------- MODULE PrometheusRules --------------------------
(***************************************************************************)
(* The recording rules Federator.ai needs of Prometheus.                   *)
(*                                                                         *)
(* At the end of a reconcile of a service that asks for it                 *)
(* (autoPatchPrometheusRules), and whenever somebody calls the command     *)
(* "prom_apply", the records that no PrometheusRule of the cluster defines *)
(* are written into one object, in the namespace of the Prometheus the     *)
(* AlamedaService names.  The check reads all PrometheusRules; the patch   *)
(* then looks for the service and its Prometheus, reads the object and     *)
(* creates or updates it.  In between others write: the other patcher,     *)
(* users, and the garbage collector, since the GC role owns the object.    *)
(***************************************************************************)
EXTENDS RulesPromise, FiniteSetsExt, SequencesExt

CONSTANTS
    Selectors,    \* the rule selectors of Prometheus considered
    CanFail,      \* kinds of failure: "call", "lost" (done, but no answer), "restart"
    MaxFailures,  \* bound on failures
    MaxEdits      \* bound on what users do

VARIABLES
    protected,   \* whether operands are protected: a reconcile is never skipped
    services,    \* the AlamedaServices in the order of the API server's list
    gc,          \* the uid of the GC role
    failures, edits

vars == <<protected, prometheus, services, gc, foreign, ours, due, patcher, taken,
          astray, failures, edits>>
world == <<protected, prometheus, services, gc, foreign>>

Patchers == {"operator", "command"}
\* The namespaces of the Prometheus of the active service, and of the one of a second
\* service, which is paused.
Namespaces == {"here", "there"}
ActiveOnly == <<"here">>
Lists == {ActiveOnly, <<"here", "there">>, <<"there", "here">>}

Absent == [exists |-> FALSE, count |-> [r \in Records |-> 0], label |-> Unset, owner |-> 0]
Patch(pc, missing) ==
    [pc |-> pc, missing |-> missing, where |-> "here", found |-> FALSE, owner |-> 0,
     moved |-> FALSE, late |-> FALSE]
Idle == Patch("idle", {})

RuleType == [exists : BOOLEAN, count : [Records -> 0 .. 2], label : Int, owner : 0 .. gc]
PatcherType ==
    [pc : {"idle", "read", "write"}, missing : SUBSET Records, where : Namespaces,
     found : BOOLEAN, owner : 0 .. gc, moved : BOOLEAN, late : BOOLEAN]

WorldTypeOK ==
    /\ protected \in BOOLEAN
    /\ prometheus \in [selector : Selectors, watched : BOOLEAN, rules : BOOLEAN]
    /\ services \in Lists
    /\ foreign \in [Records -> {"here", "elsewhere", "none"}]
ObjectsTypeOK ==
    /\ ours \in [Namespaces -> RuleType]
    /\ \A n \in Namespaces : ours[n].exists \/ ours[n] = Absent
CountersTypeOK ==
    /\ failures \in 0 .. MaxFailures /\ edits \in 0 .. MaxEdits
    /\ gc \in 1 .. edits + 1
FlagsTypeOK == due \in BOOLEAN /\ taken \in BOOLEAN /\ astray \in BOOLEAN
PatchersTypeOK == patcher \in [Patchers -> PatcherType]
RulesTypeOK ==
    WorldTypeOK /\ ObjectsTypeOK /\ CountersTypeOK /\ FlagsTypeOK /\ PatchersTypeOK

-----------------------------------------------------------------------------
(* The patchers *)

\* GenLabelMapByLabelSelector: the last value of the last requirement that has one.
LabelFor(selector) ==
    LET setting == SelectSeq(selector.reqs, LAMBDA req : req.op # "NotIn")
    IN  IF setting = << >> THEN Unset
        ELSE IF Last(setting).op = "Exists" THEN Empty
        ELSE Max(Last(setting).values)

At(p, pc) == patcher[p].pc = pc
Fails(f) == f \in CanFail /\ failures < MaxFailures /\ failures' = failures + 1
Succeeds == UNCHANGED failures

\* RulesCheck.  The records of all PrometheusRules count, whoever selects them.  (A slip
\* for the mutants: it is enough that the operator's object is there.)
DefinedByObject(r) == foreign[r] # "none" \/ \E n \in Namespaces : ours[n].exists
Defined(r) == foreign[r] # "none" \/ \E n \in Namespaces : ours[n].count[r] > 0
Missing == {r \in Records : ~Defined(r)}
Listed == prometheus.rules \/ \E n \in Namespaces : ours[n].exists

\* The operator starts when a reconcile is due; one that fails is repeated.  The
\* command does not try again.
Goto(p, state) == patcher' = [patcher EXCEPT ![p] = state]
Started(p) == due' = (due /\ p # "operator")
Again(p) == due' = (due \/ p = "operator")
GiveUp(p) == Goto(p, Idle) /\ Again(p)

Check(p) ==
    /\ At(p, "idle")
    /\ IF p = "operator" THEN due /\ taken' = FALSE /\ UNCHANGED edits
       ELSE edits < MaxEdits /\ edits' = edits + 1 /\ UNCHANGED taken
    /\ \/ /\ Listed /\ Missing = {} /\ Goto(p, Idle)
          /\ Started(p) /\ Succeeds
       \/ /\ Listed /\ Missing # {} /\ Goto(p, Patch("read", Missing))
          /\ Started(p) /\ Succeeds
       \/ ~Listed /\ GiveUp(p) /\ Succeeds
       \/ GiveUp(p) /\ Fails("call")
    /\ UNCHANGED <<world, ours, astray>>

\* GetValidAlamedaService.  It keeps a pointer to the variable of its loop, so what it
\* returns is the last service of the list, not the oldest one.
ValidService == Last(services)

\* PatchMissingRules, up to the write.
Selectable == prometheus.selector.selectable /\ prometheus.watched
PatchOf(p, n) ==
    [pc |-> "write", missing |-> patcher[p].missing, where |-> n, found |-> ours[n].exists,
     owner |-> gc, moved |-> FALSE, late |-> patcher[p].late]
Read(p) ==
    /\ At(p, "read")
    /\ \/ /\ Selectable /\ Goto(p, PatchOf(p, ValidService))
          /\ UNCHANGED due /\ Succeeds
       \/ ~Selectable /\ GiveUp(p) /\ Succeeds
       \/ GiveUp(p) /\ Fails("call")
    /\ UNCHANGED <<world, ours, taken, astray, edits>>

\* What anybody writes in namespace n is a conflict for those who have read it.
Noticed(n) ==
    [p \in Patchers |-> IF At(p, "write") /\ patcher[p].where = n
                        THEN [patcher[p] EXCEPT !.moved = TRUE] ELSE patcher[p]]
\* A patch also comes too late for the list of what is missing of any other.
NoticedPatch(p, n) ==
    [q \in Patchers |-> IF q = p THEN Idle
                        ELSE [Noticed(n)[q] EXCEPT !.late = ~At(q, "idle")]]

\* The missing records are appended to the object, or an object is made of them.  (A
\* slip for the mutants: they replace what it has.)
Appended(old, p) ==
    [r \in Records |-> IF r \in patcher[p].missing /\ old[r] < 2 THEN old[r] + 1 ELSE old[r]]
Replaced(old, p) == [r \in Records |-> IF r \in patcher[p].missing THEN 1 ELSE 0]
Patched(count, p) ==
    LET n == patcher[p].where
    IN  [exists |-> TRUE, count |-> count,
         label |-> LabelFor(prometheus.selector),
         owner |-> IF patcher[p].found THEN ours[n].owner ELSE patcher[p].owner]

Put(p, count) ==
    LET n == patcher[p].where
    IN  /\ ours' = [ours EXCEPT ![n] = Patched(count, p)]
        /\ patcher' = NoticedPatch(p, n)
        /\ astray' = (astray \/ patcher[p].late \/ n # "here")
Refused(p) ==
    IF patcher[p].found THEN patcher[p].moved ELSE ours[patcher[p].where].exists
WriteRules(p, count) ==
    /\ At(p, "write")
    /\ \/ ~Refused(p) /\ Put(p, count) /\ UNCHANGED due /\ Succeeds
       \/ ~Refused(p) /\ Put(p, count) /\ Again(p) /\ Fails("lost")
       \/ Refused(p) /\ GiveUp(p) /\ UNCHANGED <<ours, astray>> /\ Succeeds
       \/ GiveUp(p) /\ UNCHANGED <<ours, astray>> /\ Fails("call")
    /\ UNCHANGED <<world, taken, edits>>
WriteOver(p) == WriteRules(p, Replaced(ours[patcher[p].where].count, p))
Write(p) == WriteRules(p, Appended(ours[patcher[p].where].count, p))

Operator == Check("operator") \/ Read("operator") \/ Write("operator")
Command == Check("command") \/ Read("command") \/ Write("command")

-----------------------------------------------------------------------------
(* Users, the garbage collector, the process *)

Edit == edits < MaxEdits /\ edits' = edits + 1

\* Somebody takes our object away, or a record out of it.
Lose(n, object) ==
    /\ ours' = [ours EXCEPT ![n] = object] /\ ours' # ours
    /\ patcher' = Noticed(n) /\ taken' = TRUE
EditOurs ==
    /\ Edit
    /\ \E n \in Namespaces :
          /\ ours[n].exists
          /\ \/ Lose(n, Absent)
             \/ \E r \in Records :
                   Lose(n, [ours[n] EXCEPT !.count = [@ EXCEPT ![r] = 0]])
    /\ UNCHANGED <<world, due, astray, failures>>
EditForeign ==
    /\ Edit /\ prometheus.rules
    /\ \E r \in Records : \E place \in {"here", "elsewhere", "none"} :
          /\ foreign' = [foreign EXCEPT ![r] = place] /\ foreign' # foreign
    /\ taken' = TRUE
    /\ UNCHANGED <<protected, prometheus, services, gc, ours, due, patcher, astray, failures>>
\* A second service comes and goes.
EditServices ==
    /\ Edit /\ services' \in Lists /\ services' # services
    /\ services = ActiveOnly \/ services' = ActiveOnly
    /\ UNCHANGED <<protected, prometheus, gc, foreign, ours, due, patcher, taken, astray,
                   failures>>
\* The active service is deleted and created again; with it goes the GC role.
Reinstall ==
    /\ Edit /\ At("operator", "idle") /\ gc' = gc + 1 /\ due' = TRUE
    /\ UNCHANGED <<protected, prometheus, services, foreign, ours, patcher, taken, astray,
                   failures>>

Collect ==
    /\ \E n \in Namespaces :
          ours[n].exists /\ ours[n].owner # gc /\ Lose(n, Absent)
    /\ UNCHANGED <<world, due, astray, failures, edits>>
\* The informers' resync reconciles the service again, if that is not skipped.
Resync ==
    /\ protected /\ ~due /\ due' = TRUE
    /\ UNCHANGED <<world, ours, patcher, taken, astray, failures, edits>>
Restart ==
    /\ Fails("restart") /\ Goto("operator", Idle) /\ due' = TRUE
    /\ UNCHANGED <<world, ours, taken, astray, edits>>

Init ==
    /\ protected \in BOOLEAN
    /\ prometheus \in [selector : Selectors, watched : BOOLEAN, rules : BOOLEAN]
    /\ services \in Lists
    /\ gc = 1
    /\ foreign \in [Records -> {"here", "none"}]
    /\ prometheus.rules \/ \A r \in Records : foreign[r] = "none"
    /\ ours = [n \in Namespaces |-> Absent]
    /\ due = TRUE /\ patcher = [p \in Patchers |-> Idle]
    /\ taken = FALSE /\ astray = FALSE
    /\ failures = 0 /\ edits = 0

Users == EditOurs \/ EditForeign \/ EditServices \/ Reinstall
Next == Operator \/ Command \/ Users \/ Collect \/ Resync \/ Restart

\* The operator goes on, resyncs and collections come.
Fairness == WF_vars(Operator) /\ WF_vars(Resync) /\ WF_vars(Collect)
Spec == Init /\ [][Next]_vars /\ Fairness

-----------------------------------------------------------------------------
(* Properties, besides that of RulesPromise *)

\* A selector that asks for nothing contradictory selects what is labelled for it.
LabelsSelected ==
    \A s \in Selectors :
        /\ LabelFor(s) \in Int
        /\ s.selectable => Selects(s, LabelFor(s))

\* With operand protection the rules come back, whoever takes them away, as long as
\* Prometheus can see them.
Possible == protected /\ Selectable /\ Listed
RulesSettle == <>[]Possible /\ []~astray => <>[]AllEvaluated
=============================================================================
