------------------------------ MODULE Workflow ------------------------------
(***************************************************************************)
(* The workflow authority of codebase/_workflow.py: what the pure          *)
(* transition predicate _apply accepts, together with the check of the     *)
(* required children that transition_workflow makes in the same write      *)
(* transaction.  One action per operation; every action is one committed   *)
(* transaction.  An operation the code refuses raises and stores nothing,  *)
(* so a refusal is the absence of a step.                                  *)
(*                                                                         *)
(* A digest is its pre-image: SHA-256 over canonical JSON is taken as      *)
(* injective, so plan_sha256 is the plan and candidate_sha256 the          *)
(* candidate.  Texts the code only requires to be nonempty (references,    *)
(* reasons, observers) are left out.  The generation and the request       *)
(* identifiers are the subject of WorkflowRuntime.                             *)
(***************************************************************************)
EXTENDS Integers, FiniteSets

CONSTANTS
    Workflows,       \* workflow identities; every one belongs to the same exact owner
    Plans,           \* plans without acceptance problems
    Criteria,        \* acceptance-criterion identifiers
    Identities,      \* content identities a candidate or a readback may have
    Tasks,           \* task windows that produce candidates or review them
    Destinations,    \* delivery destinations
    Operations,      \* destination operations an owner may authorize
    BlockKinds,      \* the block reasons in use
    CheckLists,      \* the lists of checks a qualification request may carry
    RiskOf, RigorOf, CriteriaOf, DestinationOf, \* what a plan declares
    ChildrenOf,      \* its required children, each pinned to a plan
    ObligationsOf,   \* the obligations of its reconciliation contract
    Reconcilable,    \* the plans whose contract is present and supported
    None             \* JSON null

VARIABLE wf          \* wf[w]: the state of the last event of w, None before create

-----------------------------------------------------------------------------
(* The shape of a workflow state.                                          *)

Phases     == {"plan", "implement_and_qualify", "deliver"}
Progresses == {"draft", "planned", "implemented", "qualified",
               "approved_for_delivery", "delivered", "delivery_verified"}
AllBlockKinds == {"missing_evidence", "unavailable", "unsafe", "awaiting_authority",
                  "replan_required", "recovery_required", "conflict", "outcome_unknown"}
Learning   == "producer_learning"
Verdicts   == {"satisfied", "failed"}   \* "unavailable" is treated as "failed" everywhere

Candidates == [identity: Identities, producer: Tasks]
Bindings   == [plan: Plans, candidate: Candidates]
Checks     == [plan: Plans, candidate: Candidates, criterion: Criteria, status: Verdicts]
Reviews    == [plan: Plans, candidate: Candidates, reviewer: Tasks,
               kind: {"self", "independent"}, status: Verdicts]
Readbacks  == [plan: Plans, candidate: Candidates, destination: Destinations,
               observed: Identities \cup {None}]
Receipts   == [workflow: Workflows, plan: Plans, candidate: Candidates,
               verification: Readbacks]
Qualifications == [plan: Plans, candidate: Candidates, checks: SUBSET Checks,
                   review: Reviews, closure: BOOLEAN, required_children: SUBSET Receipts]
Approvals  == [plan: Plans, candidate: Candidates, destination: Destinations,
               operation: Operations, actor: {"human", "agent"}]
Deliveries == [plan: Plans, candidate: Candidates, destination: Destinations,
               basis: {"receipt", "readback"}]

States == [phase: Phases, status: {"active", "blocked", "completed", "cancelled"},
           progress: Progresses, plan: Plans, admitted: BOOLEAN,
           candidate: Candidates \cup {None}, measurements: SUBSET Checks,
           review: Reviews \cup {None}, qualification: Qualifications \cup {None},
           approval: Approvals \cup {None}, delivery: Deliveries \cup {None},
           verification: Readbacks \cup {None}, blocker: BlockKinds \cup {None},
           recovery: {None, "delivered", "not_delivered"}]

ASSUME PlanAssumption ==
    /\ RiskOf \in [Plans -> {"low", "medium", "high"}]
    /\ RigorOf \in [Plans -> {"unset", "direct", "compact", "full"}]
    /\ CriteriaOf \in [Plans -> (SUBSET Criteria) \ {{}}]
    /\ DestinationOf \in [Plans -> Destinations]
    /\ ChildrenOf \in [Plans -> SUBSET [workflow: Workflows, plan: Plans]]
    /\ \A p \in Plans : \A r, q \in ChildrenOf[p] : r.workflow = q.workflow => r = q
    /\ ObligationsOf \in [Plans -> SUBSET (Criteria \cup {Learning})]
    /\ Reconcilable \subseteq Plans

ASSUME InputAssumption ==
    /\ BlockKinds \subseteq AllBlockKinds
    /\ CheckLists \subseteq SUBSET Checks
    /\ Learning \notin Criteria

ASSUME NoneAssumption ==
    /\ None \notin States \cup Candidates \cup Reviews \cup Qualifications
    /\ None \notin Approvals \cup Deliveries \cup Readbacks
    /\ None \notin Identities \cup AllBlockKinds \cup {"delivered", "not_delivered"}

-----------------------------------------------------------------------------
(* Ranks and the predicates the operations share.                          *)

RiskRank  == [low |-> 0, medium |-> 1, high |-> 2]
RigorRank == [unset |-> -1, direct |-> 0, compact |-> 1, full |-> 2]

Exists(w)   == wf[w] # None
Terminal(s) == s.status \in {"completed", "cancelled"}
DeliveryAuthorized(s) == s.progress \in {"approved_for_delivery", "delivered"}
Open(w)     == Exists(w) /\ ~Terminal(wf[w])
Active(w)   == Open(w) /\ wf[w].status = "active"

\* _matching: evidence counts only for the exact plan and candidate.
Matching(e, s) == e.plan = s.plan /\ e.candidate = s.candidate

\* reconciliation_evidence: every obligation of the contract is discharged by
\* evidence retained for this exact plan and candidate.
Reconciled(s) ==
    /\ s.plan \in Reconcilable
    /\ \A o \in ObligationsOf[s.plan] :
         IF o = Learning
         THEN s.qualification.closure /\ Matching(s.qualification, s)
         ELSE \E c \in s.qualification.checks :
                /\ c.criterion = o
                /\ c.status = "satisfied"
                /\ Matching(c, s)

\* A child counts as done only when its destination was verified.
Verified(s) == /\ s.status = "completed"
               /\ s.progress = "delivery_verified"
               /\ s.candidate # None
               /\ s.verification # None

\* Seeded fault: the walk forgets that children must be verified.
FreshIgnoringCompletion(f, S, complete) ==
    \A x \in S : \A r \in ChildrenOf[f[x].plan] :
        r.workflow \in S /\ f[r.workflow] # None /\ f[r.workflow].plan = r.plan

\* _required_child_receipts: from w, following the required children of the
\* current plans, every child exists at its pinned plan (and is verified when
\* `complete`), and no path comes back.  S holds what the walk visits; a finite
\* graph has no cycle when every nonempty part of it has a node without a
\* child in that part.
Fresh(f, S, complete) ==
    \A x \in S : \A r \in ChildrenOf[f[x].plan] :
        /\ r.workflow \in S
        /\ f[r.workflow] # None
        /\ f[r.workflow].plan = r.plan
        /\ complete => Verified(f[r.workflow])

Acyclic(f, S) ==
    \A T \in (SUBSET S) \ {{}} :
        \E x \in T : \A r \in ChildrenOf[f[x].plan] : r.workflow \notin T

\* Seeded fault: only the direct children are looked at.
DirectChildrenHold(f, w, complete) ==
    \A r \in ChildrenOf[f[w].plan] :
        /\ r.workflow # w /\ f[r.workflow] # None
        /\ f[r.workflow].plan = r.plan
        /\ complete => Verified(f[r.workflow])

DependenciesHold(f, w, complete) ==
    \E S \in SUBSET {x \in Workflows : f[x] # None} :
        w \in S /\ Fresh(f, S, complete) /\ Acyclic(f, S)

ChildReceipts(f, w) ==
    {[workflow |-> r.workflow, plan |-> f[r.workflow].plan,
      candidate |-> f[r.workflow].candidate,
      verification |-> f[r.workflow].verification] : r \in ChildrenOf[f[w].plan]}

\* The receipts a later stage sees are the ones its qualification retained.
ReceiptsCurrent(f, w) ==
    ChildrenOf[f[w].plan] # {} => wf[w].qualification.required_children = ChildReceipts(f, w)

Becomes(w, s) == [wf EXCEPT ![w] = s]

-----------------------------------------------------------------------------
(* Creation, planning and interruption.                                    *)

Draft(p) ==
    [phase |-> "plan", status |-> "active", progress |-> "draft", plan |-> p,
     admitted |-> FALSE, candidate |-> None, measurements |-> {}, review |-> None,
     qualification |-> None, approval |-> None, delivery |-> None,
     verification |-> None, blocker |-> None, recovery |-> None]

Create(w, p) ==
    /\ ~Exists(w)
    /\ wf' = Becomes(w, Draft(p))
    /\ DependenciesHold(wf', w, FALSE)

AcceptPlan(w) ==
    /\ Active(w)
    /\ wf[w].progress = "draft"
    /\ wf' = Becomes(w, [wf[w] EXCEPT !.phase = "implement_and_qualify",
                                      !.progress = "planned", !.admitted = TRUE])
    /\ DependenciesHold(wf', w, FALSE)

\* Seeded fault: rigor is not compared.
NotWeakerInRisk(p, old) == RiskRank[RiskOf[p]] >= RiskRank[RiskOf[old]]

\* A replan may not lower the declared risk or remove rigor.
NotWeaker(p, old) == /\ RiskRank[RiskOf[p]] >= RiskRank[RiskOf[old]]
                     /\ RigorRank[RigorOf[p]] >= RigorRank[RigorOf[old]]

\* Seeded fault: a standing grant does not stop a replan.
ReplanUnderGrant(w, p) ==
    /\ Open(w)
    /\ NotWeaker(p, wf[w].plan)
    /\ wf' = Becomes(w, [Draft(p) EXCEPT !.recovery = wf[w].recovery])
    /\ DependenciesHold(wf', w, FALSE)

\* A new plan restarts the work; only the record of an earlier delivery recovery
\* survives it.
Replan(w, p) ==
    /\ Open(w)
    /\ ~DeliveryAuthorized(wf[w])
    /\ NotWeaker(p, wf[w].plan)
    /\ wf' = Becomes(w, [Draft(p) EXCEPT !.recovery = wf[w].recovery])
    /\ DependenciesHold(wf', w, FALSE)

\* Seeded fault: an unknown outcome is reclassified.
BlockOverUnknown(w, kind) ==
    /\ Open(w)
    /\ wf' = Becomes(w, [wf[w] EXCEPT !.status = "blocked", !.blocker = kind])

Block(w, kind) ==
    /\ Open(w)
    /\ wf[w].blocker = "outcome_unknown" => kind = "outcome_unknown"
    /\ wf' = Becomes(w, [wf[w] EXCEPT !.status = "blocked", !.blocker = kind])

\* The blocker is modelled by its kind; the payload of a cancellation has none.
Cancel(w) ==
    /\ Open(w)
    /\ ~DeliveryAuthorized(wf[w])
    /\ wf' = Becomes(w, [wf[w] EXCEPT !.status = "cancelled", !.blocker = None,
                                      !.approval = None])

Resume(w) ==
    /\ Open(w)
    /\ ~DeliveryAuthorized(wf[w])
    /\ wf[w].status = "blocked"
    /\ wf[w].blocker \notin {"unsafe", "replan_required", "outcome_unknown", "recovery_required"}
    /\ wf' = Becomes(w, [wf[w] EXCEPT !.status = "active", !.blocker = None])

-----------------------------------------------------------------------------
(* Implementation, evidence and qualification.                             *)

\* Seeded fault: a new candidate keeps the old review.
ImplementedKeepingReview(w, c) ==
    /\ Active(w)
    /\ wf[w].phase = "implement_and_qualify"
    /\ wf' = Becomes(w, [wf[w] EXCEPT !.progress = "implemented", !.candidate = c,
                 !.measurements = {}, !.qualification = None])

\* A candidate may replace an earlier one until the work is qualified; it drops
\* everything measured or reviewed about the earlier one.
Implemented(w, c) ==
    /\ Active(w)
    /\ wf[w].phase = "implement_and_qualify"
    /\ wf' = Becomes(w, [wf[w] EXCEPT !.progress = "implemented", !.candidate = c,
                 !.measurements = {}, !.review = None, !.qualification = None,
                 !.approval = None, !.delivery = None, !.verification = None])

RecordCheck(w) ==
    /\ Active(w)
    /\ wf[w].progress = "implemented"
    /\ \E check \in Checks :
        /\ Matching(check, wf[w])
        /\ check.criterion \in CriteriaOf[wf[w].plan]
        /\ LET others == {m \in wf[w].measurements : m.criterion # check.criterion}
           IN  wf' = Becomes(w, [wf[w] EXCEPT !.measurements = others \cup {check}])

RecordReview(w) ==
    /\ Active(w)
    /\ wf[w].progress = "implemented"
    /\ \E review \in Reviews :
        /\ Matching(review, wf[w])
        /\ wf' = Becomes(w, [wf[w] EXCEPT !.review = review])

\* Every criterion of the plan is satisfied and nothing else is cited.
Covers(checks, s) ==
    /\ \A c \in checks : Matching(c, s) /\ c.status = "satisfied"
    /\ {c.criterion : c \in checks} = CriteriaOf[s.plan]

NeedsIndependence(p) == RiskOf[p] = "high" \/ RigorOf[p] = "full"

ReviewHolds(review, s) ==
    /\ Matching(review, s)
    /\ review.status = "satisfied"
    /\ NeedsIndependence(s.plan) =>
          review.kind = "independent" /\ review.reviewer # s.candidate.producer

Qualify(w) ==
    /\ Active(w)
    /\ wf[w].progress = "implemented"
    /\ DependenciesHold(wf, w, TRUE)
    /\ \E evidence \in Bindings :
        /\ Matching(evidence, wf[w])
        /\ \E checks \in CheckLists, review \in Reviews, closure \in BOOLEAN :
            /\ Covers(checks, wf[w])
            /\ ReviewHolds(review, wf[w])
            /\ wf' = Becomes(w, [wf[w] EXCEPT !.phase = "deliver", !.progress = "qualified",
                    !.qualification = [plan |-> evidence.plan, candidate |-> evidence.candidate,
                                       checks |-> checks, review |-> review, closure |-> closure,
                                       required_children |-> ChildReceipts(wf, w)]])

-----------------------------------------------------------------------------
(* Delivery.                                                               *)

\* Seeded fault: the actor is not checked.
AuthorizesByAnyone(approval, s) ==
    Matching(approval, s) /\ approval.destination = DestinationOf[s.plan]

\* A grant: the exact candidate, for the plan's destination, by a human.
Authorizes(approval, s) == /\ Matching(approval, s)
                           /\ approval.destination = DestinationOf[s.plan]
                           /\ approval.actor = "human"

ApproveDelivery(w) ==
    /\ Active(w)
    /\ wf[w].progress = "qualified"
    /\ DependenciesHold(wf, w, TRUE)
    /\ ReceiptsCurrent(wf, w)
    /\ \E approval \in Approvals :
        /\ Authorizes(approval, wf[w])
        /\ wf' = Becomes(w, [wf[w] EXCEPT !.progress = "approved_for_delivery",
                                          !.approval = approval])

\* Withdraws an unused grant, also from a blocked workflow, unless the outcome
\* of a delivery is unknown.
RevokeDelivery(w) ==
    /\ Open(w)
    /\ wf[w].progress = "approved_for_delivery"
    /\ wf[w].blocker # "outcome_unknown"
    /\ \E evidence \in Bindings, actor \in {"human", "agent"} :
        /\ Matching(evidence, wf[w])
        /\ actor = "human"
        /\ wf' = Becomes(w, [wf[w] EXCEPT !.status = "active", !.progress = "qualified",
                                          !.approval = None, !.blocker = None])

Delivered(w) ==
    /\ Active(w)
    /\ wf[w].progress = "approved_for_delivery"
    /\ \E evidence \in Bindings, destination \in Destinations, operation \in Operations :
        /\ Matching(evidence, wf[w])
        /\ destination = wf[w].approval.destination
        /\ operation = wf[w].approval.operation
        /\ wf' = Becomes(w, [wf[w] EXCEPT !.progress = "delivered",
                     !.delivery = [plan |-> evidence.plan, candidate |-> evidence.candidate,
                                   destination |-> destination, basis |-> "receipt"]])

\* What a collector read at the plan's destination for the exact candidate.
ReadbackOf(readback, s) ==
    /\ Matching(readback, s)
    /\ readback.destination = DestinationOf[s.plan]

\* A readback settles what happened to an authorized delivery, blocked or not:
\* nothing is there, or the exact candidate is.
ReconcileDelivery(w) ==
    /\ Open(w)
    /\ DeliveryAuthorized(wf[w])
    /\ \E readback \in Readbacks :
        /\ ReadbackOf(readback, wf[w])
        /\ \/ /\ readback.observed = None
              /\ wf' = Becomes(w, [wf[w] EXCEPT !.status = "active", !.progress = "qualified",
                           !.approval = None, !.delivery = None, !.blocker = None,
                           !.recovery = "not_delivered"])
           \/ /\ readback.observed = wf[w].candidate.identity
              /\ wf' = Becomes(w, [wf[w] EXCEPT !.status = "active", !.progress = "delivered",
                           !.blocker = None, !.recovery = "delivered",
                           !.delivery = [plan |-> readback.plan, candidate |-> readback.candidate,
                                         destination |-> readback.destination,
                                         basis |-> "readback"]])

VerifyDelivery(w) ==
    /\ Active(w)
    /\ wf[w].progress = "delivered"
    /\ Reconciled(wf[w])
    /\ DependenciesHold(wf, w, TRUE)
    /\ ReceiptsCurrent(wf, w)
    /\ \E readback \in Readbacks, reconciliation \in Bindings :
        /\ ReadbackOf(readback, wf[w])
        /\ readback.observed = wf[w].candidate.identity
        /\ Matching(reconciliation, wf[w])
        /\ wf' = Becomes(w, [wf[w] EXCEPT !.progress = "delivery_verified",
                                          !.status = "completed", !.verification = readback])

-----------------------------------------------------------------------------

Init == wf = [w \in Workflows |-> None]

Planning(w) ==
    \/ \E p \in Plans : Create(w, p) \/ Replan(w, p)
    \/ AcceptPlan(w)
    \/ \E kind \in BlockKinds : Block(w, kind)
    \/ Cancel(w)
    \/ Resume(w)

Producing(w) ==
    \/ \E c \in Candidates : Implemented(w, c)
    \/ RecordCheck(w)
    \/ RecordReview(w)
    \/ Qualify(w)

Delivering(w) ==
    \/ ApproveDelivery(w)
    \/ RevokeDelivery(w)
    \/ Delivered(w)
    \/ ReconcileDelivery(w)
    \/ VerifyDelivery(w)

Next == \E w \in Workflows : Planning(w) \/ Producing(w) \/ Delivering(w)

Spec == Init /\ [][Next]_wf

-----------------------------------------------------------------------------
(* Properties.                                                             *)

\* Every stored state has the shape the readers of the event log rely on.
TypeOK == wf \in [Workflows -> States \cup {None}]

\* Nothing measured, reviewed, qualified, approved, delivered or verified for one
\* plan and candidate is ever retained beside another, however replans, candidate
\* replacements, blocks and recoveries interleave (_matching, and the resets of
\* implemented, replan, revoke and reconcile).
BindsEvidence(s) ==
    /\ s.review # None => Matching(s.review, s)
    /\ s.qualification # None => Matching(s.qualification, s)
    /\ s.approval # None => Matching(s.approval, s)
    /\ s.delivery # None => Matching(s.delivery, s)
    /\ s.verification # None => Matching(s.verification, s)
    /\ \A m \in s.measurements : Matching(m, s) /\ m.criterion \in CriteriaOf[s.plan]
    /\ s.progress \in {"draft", "planned"} <=> s.candidate = None

QualifiedOrLater(s) ==
    s.progress \in {"qualified", "approved_for_delivery", "delivered", "delivery_verified"}

\* Work counts as qualified, at whatever later stage and after whatever recovery,
\* only on satisfied evidence for each criterion of its current plan and on a
\* review by someone other than the producer when risk or rigor demand it.
RestsOnEvidence(s) ==
    /\ QualifiedOrLater(s) <=> s.qualification # None
    /\ QualifiedOrLater(s) <=> s.phase = "deliver"
    /\ QualifiedOrLater(s) =>
          /\ \A c \in CriteriaOf[s.plan] : \E k \in s.qualification.checks :
                k.criterion = c /\ k.status = "satisfied" /\ Matching(k, s)
          /\ Matching(s.qualification.review, s)
          /\ s.qualification.review.status = "satisfied"
          /\ NeedsIndependence(s.plan) =>
                s.qualification.review.reviewer # s.candidate.producer
EvidenceBound == \A w \in Workflows : Exists(w) => BindsEvidence(wf[w]) /\ RestsOnEvidence(wf[w])

\* A delivery stage rests on a standing human approval of the exact candidate for
\* the plan's destination, and completion on a readback that found the candidate
\* there with every declared obligation discharged.
RestsOnAuthority(s) ==
    /\ (DeliveryAuthorized(s) \/ s.status = "completed") =>
          /\ s.approval # None
          /\ s.approval.actor = "human"
          /\ s.approval.destination = DestinationOf[s.plan]
    /\ s.progress = "delivery_verified" <=> s.status = "completed"
    /\ s.status = "blocked" <=> s.blocker # None
    /\ s.status = "completed" =>
          /\ s.verification # None
          /\ s.verification.observed = s.candidate.identity
          /\ Reconciled(s)
DeliveryOnAuthority == \A w \in Workflows : Exists(w) => RestsOnAuthority(wf[w])

\* A parent is qualified, approved or complete only while each required child is
\* delivery verified at exactly the pinned plan, with the receipts it qualified
\* on: no later operation on a child takes that away.
RestsOnChildren(w) ==
    /\ \A r \in ChildrenOf[wf[w].plan] :
          Exists(r.workflow) /\ wf[r.workflow].plan = r.plan /\ Verified(wf[r.workflow])
    /\ wf[w].qualification.required_children = ChildReceipts(wf, w)
ParentRestsOnChildren ==
    \A w \in Workflows : Exists(w) /\ QualifiedOrLater(wf[w]) => RestsOnChildren(w)

\* No sequence of creations and replans makes workflows wait on each other in a
\* circle, not even through pins that have gone stale.
DependencyAcyclic == Acyclic(wf, {w \in Workflows : Exists(w)})

\* The outcome of a delivery that became unknown is settled by a readback only:
\* it is never revoked, resumed, replanned, cancelled or reclassified away.
UnknownDelivery(s) == DeliveryAuthorized(s) /\ s.blocker = "outcome_unknown"
UnknownOutcomeNeedsReadback ==
    [][\A w \in Workflows : Exists(w) /\ UnknownDelivery(wf[w]) =>
          \/ UnknownDelivery(wf'[w])
          \/ wf'[w].recovery = "delivered" /\ wf'[w].progress = "delivered"
          \/ wf'[w].recovery = "not_delivered" /\ wf'[w].approval = None]_wf

\* No chain of replans lowers the risk or the rigor work was created under, and
\* a finished workflow never moves again.
NeverWeakened ==
    [][\A w \in Workflows : Exists(w) =>
          /\ wf'[w] # None
          /\ RiskRank[RiskOf[wf'[w].plan]] >= RiskRank[RiskOf[wf[w].plan]]
          /\ RigorRank[RigorOf[wf'[w].plan]] >= RigorRank[RigorOf[wf[w].plan]]
          /\ Terminal(wf[w]) => wf'[w] = wf[w]]_wf
=============================================================================
