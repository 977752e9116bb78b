--------------------------- MODULE WorkflowProofs ---------------------------
(***************************************************************************)
(* Theorems about the workflow authority, for every number of workflows,   *)
(* plans, criteria and tasks; and, at the end, about the public commands   *)
(* that append to the log of one of its workflows.                         *)
(***************************************************************************)
EXTENDS WorkflowGrant, WorkflowLog, TLAPS

-----------------------------------------------------------------------------
(* Type correctness.                                                       *)

\* Every operation commits one workflow state and leaves the others alone.
LEMMA BecomesType ==
    ASSUME TypeOK, NEW w \in Workflows, NEW s \in States, wf' = Becomes(w, s)
    PROVE  TypeOK' /\ wf'[w] \in States
BY DEF TypeOK, Becomes

LEMMA BecomesAt ==
    ASSUME TypeOK, NEW w \in Workflows, NEW s, wf' = Becomes(w, s)
    PROVE  wf'[w] = s
BY DEF TypeOK, Becomes

\* The initial state of a workflow has the shape of a state.
LEMMA DraftType == \A p \in Plans : Draft(p) \in States
BY DEF Draft, States, Phases, Progresses

\* The receipts a qualification retains are receipts of verified children.
LEMMA ReceiptsType ==
    ASSUME TypeOK, NEW w \in Workflows, Exists(w), DependenciesHold(wf, w, TRUE)
    PROVE  /\ \A r \in ChildrenOf[wf[w].plan] :
                 Exists(r.workflow) /\ wf[r.workflow].plan = r.plan /\ Verified(wf[r.workflow])
           /\ ChildReceipts(wf, w) \in SUBSET Receipts
<1>1. wf[w] \in States
  BY DEF TypeOK, Exists
<1>2. PICK S \in SUBSET {x \in Workflows : wf[x] # None} : w \in S /\ Fresh(wf, S, TRUE)
  BY DEF DependenciesHold
<1>3. \A r \in ChildrenOf[wf[w].plan] :
          Exists(r.workflow) /\ wf[r.workflow].plan = r.plan /\ Verified(wf[r.workflow])
  BY <1>2 DEF Fresh, Exists
<1>4. ASSUME NEW r \in ChildrenOf[wf[w].plan]
      PROVE  [workflow |-> r.workflow, plan |-> wf[r.workflow].plan,
              candidate |-> wf[r.workflow].candidate,
              verification |-> wf[r.workflow].verification] \in Receipts
  <2>1. r.workflow \in Workflows
    BY <1>1, PlanAssumption DEF States
  <2>2. wf[r.workflow] \in States /\ Verified(wf[r.workflow])
    BY <1>3, <2>1 DEF TypeOK, Exists
  <2> QED
    BY <2>1, <2>2 DEF Receipts, Verified, States
<1> QED
  BY <1>3, <1>4 DEF ChildReceipts

\* Each operation preserves the shape of the state it commits.
LEMMA PlanningType ==
    ASSUME TypeOK, NEW w \in Workflows, Planning(w)
    PROVE  TypeOK' /\ wf'[w] \in States
<1> USE DEF Exists, Terminal, Open, Active
<1>0. Exists(w) => wf[w] \in States
  BY DEF TypeOK
<1>1. CASE \E p \in Plans : Create(w, p)
  BY <1>1, DraftType, BecomesType DEF Create
<1>2. CASE \E p \in Plans : Replan(w, p)
  <2>1. PICK p \in Plans : Replan(w, p)
    BY <1>2
  <2>2. [Draft(p) EXCEPT !.recovery = wf[w].recovery] \in States
    BY <1>0, <2>1 DEF Replan, Draft, States, Phases, Progresses
  <2> QED
    BY <2>1, <2>2, BecomesType DEF Replan
<1>3. CASE AcceptPlan(w)
  <2>1. [wf[w] EXCEPT !.phase = "implement_and_qualify",
                      !.progress = "planned", !.admitted = TRUE] \in States
    BY <1>0, <1>3 DEF AcceptPlan, States, Phases, Progresses
  <2> QED
    BY <1>3, <2>1, BecomesType DEF AcceptPlan
<1>4. CASE \E kind \in BlockKinds : Block(w, kind)
  <2>1. PICK kind \in BlockKinds : Block(w, kind)
    BY <1>4
  <2>2. [wf[w] EXCEPT !.status = "blocked", !.blocker = kind] \in States
    BY <1>0, <2>1 DEF Block, States
  <2> QED
    BY <2>1, <2>2, BecomesType DEF Block
<1>5. CASE Cancel(w)
  <2>1. [wf[w] EXCEPT !.status = "cancelled", !.blocker = None, !.approval = None] \in States
    BY <1>0, <1>5 DEF Cancel, States
  <2> QED
    BY <1>5, <2>1, BecomesType DEF Cancel
<1>6. CASE Resume(w)
  <2>1. [wf[w] EXCEPT !.status = "active", !.blocker = None] \in States
    BY <1>0, <1>6 DEF Resume, States
  <2> QED
    BY <1>6, <2>1, BecomesType DEF Resume
<1> QED
  BY <1>1, <1>2, <1>3, <1>4, <1>5, <1>6 DEF Planning

LEMMA ProducingType ==
    ASSUME TypeOK, NEW w \in Workflows, Producing(w)
    PROVE  TypeOK' /\ wf'[w] \in States
<1> USE DEF Exists, Terminal, Open, Active
<1>0. Exists(w) => wf[w] \in States
  BY DEF TypeOK
<1>1. CASE \E c \in Candidates : Implemented(w, c)
  <2>1. PICK c \in Candidates : Implemented(w, c)
    BY <1>1
  <2>2. [wf[w] EXCEPT !.progress = "implemented", !.candidate = c,
           !.measurements = {}, !.review = None, !.qualification = None,
           !.approval = None, !.delivery = None, !.verification = None] \in States
    BY <1>0, <2>1 DEF Implemented, States, Progresses
  <2> QED
    BY <2>1, <2>2, BecomesType DEF Implemented
<1>2. CASE RecordCheck(w)
  <2>1. PICK check \in Checks :
           LET others == {m \in wf[w].measurements : m.criterion # check.criterion}
           IN  wf' = Becomes(w, [wf[w] EXCEPT !.measurements = others \cup {check}])
    BY <1>2 DEF RecordCheck
  <2> DEFINE others == {m \in wf[w].measurements : m.criterion # check.criterion}
  <2>2. others \cup {check} \in SUBSET Checks
    BY <1>0, <1>2 DEF RecordCheck, States
  <2>3. [wf[w] EXCEPT !.measurements = others \cup {check}] \in States
    BY <1>0, <1>2, <2>2 DEF RecordCheck, States
  <2> QED
    BY <2>1, <2>3, BecomesType
<1>3. CASE RecordReview(w)
  <2>1. PICK review \in Reviews : wf' = Becomes(w, [wf[w] EXCEPT !.review = review])
    BY <1>3 DEF RecordReview
  <2>2. [wf[w] EXCEPT !.review = review] \in States
    BY <1>0, <1>3 DEF RecordReview, States
  <2> QED
    BY <2>1, <2>2, BecomesType
<1>4. CASE Qualify(w)
  <2>1. PICK evidence \in Bindings, checks \in CheckLists, closure \in BOOLEAN, review \in Reviews :
           wf' = Becomes(w, [wf[w] EXCEPT !.phase = "deliver", !.progress = "qualified",
                    !.qualification = [plan |-> evidence.plan, candidate |-> evidence.candidate,
                                       checks |-> checks, review |-> review, closure |-> closure,
                                       required_children |-> ChildReceipts(wf, w)]])
    BY <1>4 DEF Qualify
  <2>2. [plan |-> evidence.plan, candidate |-> evidence.candidate,
         checks |-> checks, review |-> review, closure |-> closure,
         required_children |-> ChildReceipts(wf, w)] \in Qualifications
    <3>1. ChildReceipts(wf, w) \in SUBSET Receipts
      BY <1>4, ReceiptsType DEF Qualify
    <3>2. checks \in SUBSET Checks
      BY InputAssumption
    <3> QED
      BY <3>1, <3>2 DEF Qualifications, Bindings
  <2>3. [wf[w] EXCEPT !.phase = "deliver", !.progress = "qualified",
           !.qualification = [plan |-> evidence.plan, candidate |-> evidence.candidate,
                              checks |-> checks, review |-> review, closure |-> closure,
                              required_children |-> ChildReceipts(wf, w)]] \in States
    BY <1>0, <1>4, <2>2 DEF Qualify, States, Phases, Progresses
  <2> QED
    BY <2>1, <2>3, BecomesType
<1> QED
  BY <1>1, <1>2, <1>3, <1>4 DEF Producing

LEMMA DeliveringType ==
    ASSUME TypeOK, NEW w \in Workflows, Delivering(w)
    PROVE  TypeOK' /\ wf'[w] \in States
<1> USE DEF Exists, Terminal, Open, Active
<1>0. Exists(w) => wf[w] \in States
  BY DEF TypeOK
<1>1. CASE ApproveDelivery(w)
  <2>1. PICK approval \in Approvals :
           wf' = Becomes(w, [wf[w] EXCEPT !.progress = "approved_for_delivery",
                                         !.approval = approval])
    BY <1>1 DEF ApproveDelivery, Authorizes
  <2>2. [wf[w] EXCEPT !.progress = "approved_for_delivery", !.approval = approval] \in States
    BY <1>0, <1>1 DEF ApproveDelivery, Authorizes, States, Progresses
  <2> QED
    BY <2>1, <2>2, BecomesType
<1>2. CASE RevokeDelivery(w)
  <2>1. [wf[w] EXCEPT !.status = "active", !.progress = "qualified",
                      !.approval = None, !.blocker = None] \in States
    BY <1>0, <1>2 DEF RevokeDelivery, States, Progresses
  <2> QED
    BY <1>2, <2>1, BecomesType DEF RevokeDelivery
<1>3. CASE Delivered(w)
  <2>1. PICK evidence \in Bindings, destination \in Destinations :
           wf' = Becomes(w, [wf[w] EXCEPT !.progress = "delivered",
                    !.delivery = [plan |-> evidence.plan, candidate |-> evidence.candidate,
                                  destination |-> destination, basis |-> "receipt"]])
    BY <1>3 DEF Delivered
  <2>2. [wf[w] EXCEPT !.progress = "delivered",
           !.delivery = [plan |-> evidence.plan, candidate |-> evidence.candidate,
                         destination |-> destination, basis |-> "receipt"]] \in States
    BY <1>0, <1>3 DEF Delivered, States, Progresses, Deliveries, Bindings
  <2> QED
    BY <2>1, <2>2, BecomesType
<1>4. CASE ReconcileDelivery(w)
  <2>1. [wf[w] EXCEPT !.status = "active", !.progress = "qualified", !.approval = None,
           !.delivery = None, !.blocker = None, !.recovery = "not_delivered"] \in States
    BY <1>0, <1>4 DEF ReconcileDelivery, States, Progresses
  <2>2. ASSUME NEW readback \in Readbacks
        PROVE  [wf[w] EXCEPT !.status = "active", !.progress = "delivered",
                  !.blocker = None, !.recovery = "delivered",
                  !.delivery = [plan |-> readback.plan, candidate |-> readback.candidate,
                                destination |-> readback.destination,
                                basis |-> "readback"]] \in States
    BY <1>0, <1>4 DEF ReconcileDelivery, States, Progresses, Deliveries, Readbacks
  <2> QED
    BY <1>4, <2>1, <2>2, BecomesType DEF ReconcileDelivery
<1>5. CASE VerifyDelivery(w)
  <2>1. PICK readback \in Readbacks :
           wf' = Becomes(w, [wf[w] EXCEPT !.progress = "delivery_verified",
                                         !.status = "completed", !.verification = readback])
    BY <1>5 DEF VerifyDelivery
  <2>2. [wf[w] EXCEPT !.progress = "delivery_verified", !.status = "completed",
                      !.verification = readback] \in States
    BY <1>0, <1>5 DEF VerifyDelivery, States, Progresses
  <2> QED
    BY <2>1, <2>2, BecomesType
<1> QED
  BY <1>1, <1>2, <1>3, <1>4, <1>5 DEF Delivering

\* Every reachable state of every workflow has the shape its readers rely on.
THEOREM TypeCorrect == Spec => []TypeOK
<1>1. Init => TypeOK
  BY DEF Init, TypeOK
<1>2. TypeOK /\ [Next]_wf => TypeOK'
  <2>1. ASSUME TypeOK, NEW w \in Workflows, Planning(w) \/ Producing(w) \/ Delivering(w)
        PROVE  TypeOK'
    BY <2>1, PlanningType, ProducingType, DeliveringType
  <2>2. TypeOK /\ UNCHANGED wf => TypeOK'
    BY DEF TypeOK
  <2> QED
    BY <2>1, <2>2 DEF Next
<1> QED
  BY <1>1, <1>2, PTL DEF Spec

-----------------------------------------------------------------------------
(* The evidence a state retains.  The three invariants about evidence are  *)
(* preserved together: a stage can rest on what it retains only because    *)
(* whatever replaces the plan or the candidate drops it.                   *)

Sound(s) == BindsEvidence(s) /\ RestsOnEvidence(s) /\ RestsOnAuthority(s)
AllSound == \A w \in Workflows : Exists(w) => Sound(wf[w])

\* A workflow that commits a sound state leaves the others sound.
LEMMA BecomesSound ==
    ASSUME TypeOK, AllSound, NEW w \in Workflows, NEW s, Sound(s), wf' = Becomes(w, s)
    PROVE  AllSound'
BY DEF AllSound, TypeOK, Becomes, Exists

\* A draft retains no evidence at all.
LEMMA DraftSound ==
    ASSUME NEW p \in Plans, NEW r
    PROVE  Sound(Draft(p)) /\ Sound([Draft(p) EXCEPT !.recovery = r])
BY DEF Draft, Sound, BindsEvidence, RestsOnEvidence, RestsOnAuthority, QualifiedOrLater,
       DeliveryAuthorized

LEMMA PlanningSound ==
    ASSUME TypeOK, AllSound, NEW w \in Workflows, Planning(w)
    PROVE  AllSound'
<1> USE DEF Exists, Terminal, Open, Active
<1>0. Exists(w) => wf[w] \in States /\ Sound(wf[w])
  BY DEF TypeOK, AllSound
<1>1. CASE \E p \in Plans : Create(w, p)
  BY <1>1, DraftSound, BecomesSound DEF Create
<1>2. CASE \E p \in Plans : Replan(w, p)
  BY <1>2, DraftSound, BecomesSound DEF Replan
<1>3. CASE AcceptPlan(w)
  <2>1. Sound([wf[w] EXCEPT !.phase = "implement_and_qualify",
                            !.progress = "planned", !.admitted = TRUE])
    BY <1>0, <1>3 DEF AcceptPlan, States, Sound, BindsEvidence, RestsOnEvidence,
       RestsOnAuthority, QualifiedOrLater, DeliveryAuthorized, Matching
  <2> QED
    BY <1>3, <2>1, BecomesSound DEF AcceptPlan
<1>4. CASE \E kind \in BlockKinds : Block(w, kind)
  <2>1. PICK kind \in BlockKinds : Block(w, kind)
    BY <1>4
  <2>2. Sound([wf[w] EXCEPT !.status = "blocked", !.blocker = kind])
    BY <1>0, <2>1, NoneAssumption, InputAssumption DEF Block, States, Sound, BindsEvidence, RestsOnEvidence,
       RestsOnAuthority, QualifiedOrLater, DeliveryAuthorized, Matching, NeedsIndependence, Covers, ReviewHolds
  <2> QED
    BY <2>1, <2>2, BecomesSound DEF Block
<1>5. CASE Cancel(w)
  <2>1. Sound([wf[w] EXCEPT !.status = "cancelled", !.blocker = None, !.approval = None])
    BY <1>0, <1>5 DEF Cancel, States, Sound, BindsEvidence, RestsOnEvidence,
       RestsOnAuthority, QualifiedOrLater, DeliveryAuthorized, Matching, NeedsIndependence, Covers, ReviewHolds
  <2> QED
    BY <1>5, <2>1, BecomesSound DEF Cancel
<1>6. CASE Resume(w)
  <2>1. Sound([wf[w] EXCEPT !.status = "active", !.blocker = None])
    BY <1>0, <1>6 DEF Resume, States, Sound, BindsEvidence, RestsOnEvidence,
       RestsOnAuthority, QualifiedOrLater, DeliveryAuthorized, Matching, NeedsIndependence, Covers, ReviewHolds
  <2> QED
    BY <1>6, <2>1, BecomesSound DEF Resume
<1> QED
  BY <1>1, <1>2, <1>3, <1>4, <1>5, <1>6 DEF Planning

LEMMA ProducingSound ==
    ASSUME TypeOK, AllSound, NEW w \in Workflows, Producing(w)
    PROVE  AllSound'
<1> USE DEF Exists, Terminal, Open, Active
<1>0. Exists(w) => wf[w] \in States /\ Sound(wf[w])
  BY DEF TypeOK, AllSound
<1>1. CASE \E c \in Candidates : Implemented(w, c)
  <2>1. PICK c \in Candidates : Implemented(w, c)
    BY <1>1
  <2>2. Sound([wf[w] EXCEPT !.progress = "implemented", !.candidate = c,
           !.measurements = {}, !.review = None, !.qualification = None,
           !.approval = None, !.delivery = None, !.verification = None])
    BY <1>0, <2>1, NoneAssumption DEF Implemented, States, Sound, BindsEvidence,
       RestsOnEvidence, RestsOnAuthority, QualifiedOrLater, DeliveryAuthorized
  <2> QED
    BY <2>1, <2>2, BecomesSound DEF Implemented
<1>2. CASE RecordCheck(w)
  <2>1. PICK check \in Checks :
           /\ Matching(check, wf[w])
           /\ check.criterion \in CriteriaOf[wf[w].plan]
           /\ LET others == {m \in wf[w].measurements : m.criterion # check.criterion}
              IN  wf' = Becomes(w, [wf[w] EXCEPT !.measurements = others \cup {check}])
    BY <1>2 DEF RecordCheck
  <2> DEFINE others == {m \in wf[w].measurements : m.criterion # check.criterion}
  <2>2. Sound([wf[w] EXCEPT !.measurements = others \cup {check}])
    BY <1>0, <1>2, <2>1 DEF RecordCheck, States, Sound, BindsEvidence, RestsOnEvidence,
       RestsOnAuthority, QualifiedOrLater, DeliveryAuthorized, Matching
  <2> QED
    BY <2>1, <2>2, BecomesSound
<1>3. CASE RecordReview(w)
  <2>1. PICK review \in Reviews :
           /\ Matching(review, wf[w])
           /\ wf' = Becomes(w, [wf[w] EXCEPT !.review = review])
    BY <1>3 DEF RecordReview
  <2>2. Sound([wf[w] EXCEPT !.review = review])
    BY <1>0, <1>3, <2>1 DEF RecordReview, States, Sound, BindsEvidence, RestsOnEvidence,
       RestsOnAuthority, QualifiedOrLater, DeliveryAuthorized, Matching
  <2> QED
    BY <2>1, <2>2, BecomesSound
<1>4. CASE Qualify(w)
  <2>1. PICK evidence \in Bindings, checks \in CheckLists, closure \in BOOLEAN, review \in Reviews :
           /\ Matching(evidence, wf[w])
           /\ Covers(checks, wf[w])
           /\ ReviewHolds(review, wf[w])
           /\ wf' = Becomes(w, [wf[w] EXCEPT !.phase = "deliver", !.progress = "qualified",
                    !.qualification = [plan |-> evidence.plan, candidate |-> evidence.candidate,
                                       checks |-> checks, review |-> review, closure |-> closure,
                                       required_children |-> ChildReceipts(wf, w)]])
    BY <1>4 DEF Qualify
  <2> DEFINE q == [plan |-> evidence.plan, candidate |-> evidence.candidate,
                   checks |-> checks, review |-> review, closure |-> closure,
                   required_children |-> ChildReceipts(wf, w)]
  <2>2. q # None
    <3>1. q \in Qualifications
      BY <1>4, ReceiptsType, InputAssumption DEF Qualify, Qualifications, Bindings
    <3> QED
      BY <3>1, NoneAssumption
  <2>3. Sound([wf[w] EXCEPT !.phase = "deliver", !.progress = "qualified", !.qualification = q])
    BY <1>0, <1>4, <2>1, <2>2 DEF Qualify, States, Sound, BindsEvidence, RestsOnEvidence,
       RestsOnAuthority, QualifiedOrLater, DeliveryAuthorized, Matching, NeedsIndependence, Covers, ReviewHolds
  <2> QED
    BY <2>1, <2>3, BecomesSound
<1> QED
  BY <1>1, <1>2, <1>3, <1>4 DEF Producing

LEMMA DeliveringSound ==
    ASSUME TypeOK, AllSound, NEW w \in Workflows, Delivering(w)
    PROVE  AllSound'
<1> USE DEF Exists, Terminal, Open, Active
<1>0. Exists(w) => wf[w] \in States /\ Sound(wf[w])
  BY DEF TypeOK, AllSound
<1>1. CASE ApproveDelivery(w)
  <2>1. PICK approval \in Approvals :
           /\ Matching(approval, wf[w])
           /\ approval.destination = DestinationOf[wf[w].plan]
           /\ approval.actor = "human"
           /\ wf' = Becomes(w, [wf[w] EXCEPT !.progress = "approved_for_delivery",
                                             !.approval = approval])
    BY <1>1 DEF ApproveDelivery, Authorizes
  <2>2. Sound([wf[w] EXCEPT !.progress = "approved_for_delivery", !.approval = approval])
    BY <1>0, <1>1, <2>1, NoneAssumption DEF ApproveDelivery, Authorizes, States, Sound, BindsEvidence,
       RestsOnEvidence, RestsOnAuthority, QualifiedOrLater, DeliveryAuthorized, Matching,
       NeedsIndependence, Covers, ReviewHolds
  <2> QED
    BY <2>1, <2>2, BecomesSound
<1>2. CASE RevokeDelivery(w)
  <2>1. Sound([wf[w] EXCEPT !.status = "active", !.progress = "qualified",
                            !.approval = None, !.blocker = None])
    BY <1>0, <1>2 DEF RevokeDelivery, States, Sound, BindsEvidence, RestsOnEvidence,
       RestsOnAuthority, QualifiedOrLater, DeliveryAuthorized, Matching, NeedsIndependence, Covers, ReviewHolds
  <2> QED
    BY <1>2, <2>1, BecomesSound DEF RevokeDelivery
<1>3. CASE Delivered(w)
  <2>1. PICK evidence \in Bindings, destination \in Destinations :
           /\ Matching(evidence, wf[w])
           /\ wf' = Becomes(w, [wf[w] EXCEPT !.progress = "delivered",
                    !.delivery = [plan |-> evidence.plan, candidate |-> evidence.candidate,
                                  destination |-> destination, basis |-> "receipt"]])
    BY <1>3 DEF Delivered
  <2>2. Sound([wf[w] EXCEPT !.progress = "delivered",
           !.delivery = [plan |-> evidence.plan, candidate |-> evidence.candidate,
                         destination |-> destination, basis |-> "receipt"]])
    BY <1>0, <1>3, <2>1 DEF Delivered, States, Sound, BindsEvidence, RestsOnEvidence,
       RestsOnAuthority, QualifiedOrLater, DeliveryAuthorized, Matching, NeedsIndependence, Covers, ReviewHolds
  <2> QED
    BY <2>1, <2>2, BecomesSound
<1>4. CASE ReconcileDelivery(w)
  <2>1. Sound([wf[w] EXCEPT !.status = "active", !.progress = "qualified", !.approval = None,
           !.delivery = None, !.blocker = None, !.recovery = "not_delivered"])
    BY <1>0, <1>4 DEF ReconcileDelivery, States, Sound, BindsEvidence, RestsOnEvidence,
       RestsOnAuthority, QualifiedOrLater, DeliveryAuthorized, Matching, NeedsIndependence, Covers, ReviewHolds
  <2>2. ASSUME NEW readback \in Readbacks, ReadbackOf(readback, wf[w])
        PROVE  Sound([wf[w] EXCEPT !.status = "active", !.progress = "delivered",
                  !.blocker = None, !.recovery = "delivered",
                  !.delivery = [plan |-> readback.plan, candidate |-> readback.candidate,
                                destination |-> readback.destination,
                                basis |-> "readback"]])
    BY <1>0, <1>4, <2>2 DEF ReconcileDelivery, ReadbackOf, States, Sound, BindsEvidence,
       RestsOnEvidence, RestsOnAuthority, QualifiedOrLater, DeliveryAuthorized, Matching,
       NeedsIndependence, Covers, ReviewHolds
  <2> QED
    BY <1>4, <2>1, <2>2, BecomesSound DEF ReconcileDelivery
<1>5. CASE VerifyDelivery(w)
  <2>1. PICK readback \in Readbacks :
           /\ ReadbackOf(readback, wf[w])
           /\ readback.observed = wf[w].candidate.identity
           /\ wf' = Becomes(w, [wf[w] EXCEPT !.progress = "delivery_verified",
                                             !.status = "completed", !.verification = readback])
    BY <1>5 DEF VerifyDelivery
  <2>2. Sound([wf[w] EXCEPT !.progress = "delivery_verified", !.status = "completed",
                            !.verification = readback])
    BY <1>0, <1>5, <2>1, NoneAssumption DEF VerifyDelivery, ReadbackOf, States, Sound,
       BindsEvidence, RestsOnEvidence, RestsOnAuthority, QualifiedOrLater, DeliveryAuthorized,
       Matching, NeedsIndependence, Covers, ReviewHolds, Reconciled
  <2> QED
    BY <2>1, <2>2, BecomesSound
<1> QED
  BY <1>1, <1>2, <1>3, <1>4, <1>5 DEF Delivering

LEMMA StepSound == TypeOK /\ AllSound /\ [Next]_wf => AllSound'
<1>1. ASSUME TypeOK, AllSound, NEW w \in Workflows, Planning(w) \/ Producing(w) \/ Delivering(w)
      PROVE  AllSound'
  BY <1>1, PlanningSound, ProducingSound, DeliveringSound
<1>2. AllSound /\ UNCHANGED wf => AllSound'
  BY DEF AllSound, Exists
<1> QED
  BY <1>1, <1>2 DEF Next

LEMMA AlwaysSound == Spec => []AllSound
<1>1. Init => AllSound
  BY DEF Init, AllSound, Exists
<1> QED
  BY <1>1, StepSound, TypeCorrect, PTL DEF Spec

\* Retained evidence always concerns the current plan and candidate; every stage
\* from qualified on rests on satisfied evidence and the review it needs.
THEOREM EvidenceSound == Spec => []EvidenceBound
<1>1. AllSound => EvidenceBound
  BY DEF AllSound, Sound, EvidenceBound
<1> QED
  BY <1>1, AlwaysSound, PTL

\* Every delivery stage rests on a human grant for the plan's destination, and
\* completion on a readback that found the candidate there.
THEOREM AuthoritySound == Spec => []DeliveryOnAuthority
<1>1. AllSound => DeliveryOnAuthority
  BY DEF AllSound, Sound, DeliveryOnAuthority
<1> QED
  BY <1>1, AlwaysSound, PTL

-----------------------------------------------------------------------------
(* What one operation can change.                                          *)

Operation(w) == Planning(w) \/ Producing(w) \/ Delivering(w)

\* An operation commits one workflow, and never a finished one.
LEMMA OnlyOpenWorkChanges ==
    ASSUME TypeOK, NEW w \in Workflows, Operation(w)
    PROVE  /\ Exists(w) => ~Terminal(wf[w])
           /\ \E s : wf' = Becomes(w, s)
           /\ \A x \in Workflows \ {w} : wf'[x] = wf[x]
<1>1. Exists(w) => ~Terminal(wf[w])
  BY DEF Operation, Planning, Producing, Delivering, Create, Replan, AcceptPlan, Block,
     Cancel, Resume, Implemented, RecordCheck, RecordReview, Qualify, ApproveDelivery,
     RevokeDelivery, Delivered, ReconcileDelivery, VerifyDelivery, Open, Active
<1>2. \E s : wf' = Becomes(w, s)
  BY DEF Operation, Planning, Producing, Delivering, Create, Replan, AcceptPlan, Block,
     Cancel, Resume, Implemented, RecordCheck, RecordReview, Qualify, ApproveDelivery,
     RevokeDelivery, Delivered, ReconcileDelivery, VerifyDelivery
<1> QED
  BY <1>1, <1>2 DEF Becomes, TypeOK

\* Verified children are untouched by whatever the other workflows do.
LEMMA ChildrenStay ==
    ASSUME TypeOK, NEW w \in Workflows, Operation(w), NEW x \in Workflows,
           Exists(x), RestsOnChildren(x),
           wf'[x] # None, wf'[x].plan = wf[x].plan,
           wf'[x].qualification = wf[x].qualification
    PROVE  RestsOnChildren(x)'
<1>1. \A r \in ChildrenOf[wf[x].plan] : wf'[r.workflow] = wf[r.workflow]
  <2>1. TAKE r \in ChildrenOf[wf[x].plan]
  <2>2. r.workflow \in Workflows
    BY PlanAssumption DEF TypeOK, States, Exists
  <2>3. Exists(r.workflow) /\ Terminal(wf[r.workflow])
    BY DEF RestsOnChildren, Verified, Terminal
  <2> QED
    BY <2>2, <2>3, OnlyOpenWorkChanges
<1> QED
  BY <1>1 DEF RestsOnChildren, ChildReceipts, Exists

\* Qualified work keeps its plan and its qualification, and only Qualify makes it.
LEMMA QualificationStays ==
    ASSUME TypeOK, NEW w \in Workflows, Operation(w), ~Qualify(w),
           wf'[w] # None, QualifiedOrLater(wf'[w])
    PROVE  /\ Exists(w) /\ QualifiedOrLater(wf[w])
           /\ wf'[w].plan = wf[w].plan
           /\ wf'[w].qualification = wf[w].qualification
<1> USE DEF Exists, QualifiedOrLater, Open, Active
<1>0. Exists(w) => wf[w] \in States
  BY DEF TypeOK
<1>1. CASE Planning(w)
  <2>1. ASSUME NEW p \in Plans, Create(w, p) \/ Replan(w, p)
        PROVE  FALSE
    <3>1. wf'[w] = Draft(p) \/ wf'[w] = [Draft(p) EXCEPT !.recovery = wf[w].recovery]
      BY <2>1, BecomesAt DEF Create, Replan
    <3> QED
      BY <3>1 DEF Draft
  <2>2. CASE AcceptPlan(w)
    <3>1. wf'[w] = [wf[w] EXCEPT !.phase = "implement_and_qualify",
                                 !.progress = "planned", !.admitted = TRUE]
      BY <2>2, BecomesAt DEF AcceptPlan
    <3> QED
      BY <1>0, <2>2, <3>1 DEF AcceptPlan, States
  <2>3. CASE \E kind \in BlockKinds : Block(w, kind)
    <3>1. PICK kind \in BlockKinds : Block(w, kind)
      BY <2>3
    <3>2. wf'[w] = [wf[w] EXCEPT !.status = "blocked", !.blocker = kind]
      BY <3>1, BecomesAt DEF Block
    <3> QED
      BY <1>0, <3>1, <3>2 DEF Block, States
  <2>4. CASE Cancel(w)
    <3>1. wf'[w] = [wf[w] EXCEPT !.status = "cancelled", !.blocker = None, !.approval = None]
      BY <2>4, BecomesAt DEF Cancel
    <3> QED
      BY <1>0, <2>4, <3>1 DEF Cancel, States
  <2>5. CASE Resume(w)
    <3>1. wf'[w] = [wf[w] EXCEPT !.status = "active", !.blocker = None]
      BY <2>5, BecomesAt DEF Resume
    <3> QED
      BY <1>0, <2>5, <3>1 DEF Resume, States
  <2> QED
    BY <1>1, <2>1, <2>2, <2>3, <2>4, <2>5 DEF Planning
<1>2. CASE Producing(w)
  <2>1. ASSUME NEW c \in Candidates, Implemented(w, c)
        PROVE  FALSE
    <3>1. wf'[w] = [wf[w] EXCEPT !.progress = "implemented", !.candidate = c,
             !.measurements = {}, !.review = None, !.qualification = None,
             !.approval = None, !.delivery = None, !.verification = None]
      BY <2>1, BecomesAt DEF Implemented
    <3> QED
      BY <1>0, <2>1, <3>1 DEF Implemented, States
  <2>2. ASSUME RecordCheck(w) \/ RecordReview(w)
        PROVE  FALSE
    <3>1. \E x : wf'[w] = [wf[w] EXCEPT !.measurements = x] \/ wf'[w] = [wf[w] EXCEPT !.review = x]
      BY <2>2, BecomesAt DEF RecordCheck, RecordReview
    <3> QED
      BY <1>0, <2>2, <3>1 DEF RecordCheck, RecordReview, States
  <2> QED
    BY <1>2, <2>1, <2>2 DEF Producing
<1>3. CASE Delivering(w)
  <2>1. CASE ApproveDelivery(w)
    <3>1. \E x : wf'[w] = [wf[w] EXCEPT !.progress = "approved_for_delivery", !.approval = x]
      BY <2>1, BecomesAt DEF ApproveDelivery, Authorizes
    <3> QED
      BY <1>0, <2>1, <3>1 DEF ApproveDelivery, Authorizes, States
  <2>2. CASE RevokeDelivery(w)
    <3>1. wf'[w] = [wf[w] EXCEPT !.status = "active", !.progress = "qualified",
                                 !.approval = None, !.blocker = None]
      BY <2>2, BecomesAt DEF RevokeDelivery
    <3> QED
      BY <1>0, <2>2, <3>1 DEF RevokeDelivery, States
  <2>3. CASE Delivered(w)
    <3>1. \E x : wf'[w] = [wf[w] EXCEPT !.progress = "delivered", !.delivery = x]
      BY <2>3, BecomesAt DEF Delivered
    <3> QED
      BY <1>0, <2>3, <3>1 DEF Delivered, States
  <2>4. CASE ReconcileDelivery(w)
    <3>1. \/ wf'[w] = [wf[w] EXCEPT !.status = "active", !.progress = "qualified",
                 !.approval = None, !.delivery = None, !.blocker = None,
                 !.recovery = "not_delivered"]
          \/ \E x : wf'[w] = [wf[w] EXCEPT !.status = "active", !.progress = "delivered",
                 !.blocker = None, !.recovery = "delivered", !.delivery = x]
      BY <2>4, BecomesAt DEF ReconcileDelivery
    <3> QED
      BY <1>0, <2>4, <3>1 DEF ReconcileDelivery, DeliveryAuthorized, States
  <2>5. CASE VerifyDelivery(w)
    <3>1. \E x : wf'[w] = [wf[w] EXCEPT !.progress = "delivery_verified",
                                        !.status = "completed", !.verification = x]
      BY <2>5, BecomesAt DEF VerifyDelivery
    <3> QED
      BY <1>0, <2>5, <3>1 DEF VerifyDelivery, States
  <2> QED
    BY <1>3, <2>1, <2>2, <2>3, <2>4, <2>5 DEF Delivering
<1> QED
  BY <1>1, <1>2, <1>3 DEF Operation

LEMMA StepParents ==
    ASSUME TypeOK, ParentRestsOnChildren, NEW w \in Workflows, Operation(w)
    PROVE  ParentRestsOnChildren'
<1> SUFFICES ASSUME NEW x \in Workflows, wf'[x] # None, QualifiedOrLater(wf'[x])
             PROVE  RestsOnChildren(x)'
  BY DEF ParentRestsOnChildren, Exists
<1>1. CASE x # w
  <2>1. wf'[x] = wf[x]
    BY <1>1, OnlyOpenWorkChanges
  <2> QED
    BY <2>1, ChildrenStay DEF ParentRestsOnChildren, Exists
<1>2. CASE x = w /\ ~Qualify(w)
  BY <1>2, QualificationStays, ChildrenStay DEF ParentRestsOnChildren
<1>3. CASE x = w /\ Qualify(w)
  <2>1. /\ Exists(w)
        /\ \A r \in ChildrenOf[wf[w].plan] :
              Exists(r.workflow) /\ wf[r.workflow].plan = r.plan /\ Verified(wf[r.workflow])
    BY <1>3, ReceiptsType DEF Qualify, Active, Open
  <2>2. \A r \in ChildrenOf[wf[w].plan] : wf'[r.workflow] = wf[r.workflow]
    <3>1. TAKE r \in ChildrenOf[wf[w].plan]
    <3>2. r.workflow \in Workflows
      BY <2>1, PlanAssumption DEF TypeOK, States, Exists
    <3> QED
      BY <2>1, <3>2, OnlyOpenWorkChanges DEF Verified, Terminal
  <2>3. /\ wf'[w].plan = wf[w].plan
        /\ wf'[w].qualification.required_children = ChildReceipts(wf, w)
    BY <1>3, <2>1 DEF Qualify, Becomes, TypeOK, States, Exists
  <2> QED
    BY <1>3, <2>1, <2>2, <2>3 DEF RestsOnChildren, ChildReceipts, Exists
<1> QED
  BY <1>1, <1>2, <1>3

\* A parent stays qualified, approved or complete only on children that are
\* delivery verified at the pinned plans it was qualified on.
THEOREM ParentsRest == Spec => []ParentRestsOnChildren
<1>1. Init => ParentRestsOnChildren
  BY DEF Init, ParentRestsOnChildren, Exists
<1>2. TypeOK /\ ParentRestsOnChildren /\ [Next]_wf => ParentRestsOnChildren'
  <2>1. ParentRestsOnChildren /\ UNCHANGED wf => ParentRestsOnChildren'
    BY DEF ParentRestsOnChildren, RestsOnChildren, ChildReceipts, Exists
  <2> QED
    BY <2>1, StepParents DEF Next, Operation
<1> QED
  BY <1>1, <1>2, TypeCorrect, PTL DEF Spec

\* Only creating, accepting or replanning work can change what it requires, and
\* each of them walks the children it ends up with.
LEMMA WalkOrKeep ==
    ASSUME TypeOK, NEW w \in Workflows, Operation(w)
    PROVE  \/ DependenciesHold(wf', w, FALSE)
           \/ Exists(w) /\ wf'[w].plan = wf[w].plan
<1> USE DEF Exists, Open, Active
<1>0. Exists(w) => wf[w] \in States
  BY DEF TypeOK
<1>1. CASE \E p \in Plans : Create(w, p) \/ Replan(w, p)
  BY <1>1 DEF Create, Replan
<1>2. CASE AcceptPlan(w)
  BY <1>2 DEF AcceptPlan
<1>3. CASE Planning(w) /\ ~\E p \in Plans : Create(w, p) \/ Replan(w, p)
  <2>1. CASE \E kind \in BlockKinds : Block(w, kind)
    <3>1. \E x : wf'[w] = [wf[w] EXCEPT !.status = "blocked", !.blocker = x]
      BY <2>1, BecomesAt DEF Block
    <3> QED
      BY <1>0, <2>1, <3>1 DEF Block, States
  <2>2. CASE Cancel(w)
    <3>1. wf'[w] = [wf[w] EXCEPT !.status = "cancelled", !.blocker = None, !.approval = None]
      BY <2>2, BecomesAt DEF Cancel
    <3> QED
      BY <1>0, <2>2, <3>1 DEF Cancel, States
  <2>3. CASE Resume(w)
    <3>1. wf'[w] = [wf[w] EXCEPT !.status = "active", !.blocker = None]
      BY <2>3, BecomesAt DEF Resume
    <3> QED
      BY <1>0, <2>3, <3>1 DEF Resume, States
  <2> QED
    BY <1>2, <1>3, <2>1, <2>2, <2>3 DEF Planning
<1>4. CASE Producing(w)
  <2>1. Exists(w)
    BY <1>4 DEF Producing, Implemented, RecordCheck, RecordReview, Qualify
  <2>2. ASSUME NEW c \in Candidates, Implemented(w, c)
        PROVE  wf'[w].plan = wf[w].plan
    <3>1. wf'[w] = [wf[w] EXCEPT !.progress = "implemented", !.candidate = c,
             !.measurements = {}, !.review = None, !.qualification = None,
             !.approval = None, !.delivery = None, !.verification = None]
      BY <2>2, BecomesAt DEF Implemented
    <3> QED
      BY <1>0, <2>1, <3>1 DEF States
  <2>3. ASSUME RecordCheck(w) \/ RecordReview(w)
        PROVE  wf'[w].plan = wf[w].plan
    <3>1. \E x : wf'[w] = [wf[w] EXCEPT !.measurements = x] \/ wf'[w] = [wf[w] EXCEPT !.review = x]
      BY <2>3, BecomesAt DEF RecordCheck, RecordReview
    <3> QED
      BY <1>0, <2>1, <3>1 DEF States
  <2>4. ASSUME Qualify(w)
        PROVE  wf'[w].plan = wf[w].plan
    <3>1. \E x : wf'[w] = [wf[w] EXCEPT !.phase = "deliver", !.progress = "qualified",
                                        !.qualification = x]
      BY <2>4, BecomesAt DEF Qualify
    <3> QED
      BY <1>0, <2>1, <3>1 DEF States
  <2> QED
    BY <1>4, <2>1, <2>2, <2>3, <2>4 DEF Producing
<1>5. CASE Delivering(w)
  <2>1. Exists(w)
    BY <1>5 DEF Delivering, ApproveDelivery, RevokeDelivery, Delivered, ReconcileDelivery,
       VerifyDelivery
  <2>2. CASE ApproveDelivery(w) \/ Delivered(w)
    <3>1. \E x : \/ wf'[w] = [wf[w] EXCEPT !.progress = "approved_for_delivery", !.approval = x]
                 \/ wf'[w] = [wf[w] EXCEPT !.progress = "delivered", !.delivery = x]
      BY <2>2, BecomesAt DEF ApproveDelivery, Authorizes, Delivered
    <3> QED
      BY <1>0, <2>1, <3>1 DEF States
  <2>3. CASE RevokeDelivery(w)
    <3>1. wf'[w] = [wf[w] EXCEPT !.status = "active", !.progress = "qualified",
                                 !.approval = None, !.blocker = None]
      BY <2>3, BecomesAt DEF RevokeDelivery
    <3> QED
      BY <1>0, <2>1, <3>1 DEF States
  <2>4. CASE ReconcileDelivery(w)
    <3>1. \/ wf'[w] = [wf[w] EXCEPT !.status = "active", !.progress = "qualified",
                 !.approval = None, !.delivery = None, !.blocker = None,
                 !.recovery = "not_delivered"]
          \/ \E x : wf'[w] = [wf[w] EXCEPT !.status = "active", !.progress = "delivered",
                 !.blocker = None, !.recovery = "delivered", !.delivery = x]
      BY <2>4, BecomesAt DEF ReconcileDelivery
    <3> QED
      BY <1>0, <2>1, <3>1 DEF States
  <2>5. CASE VerifyDelivery(w)
    <3>1. \E x : wf'[w] = [wf[w] EXCEPT !.progress = "delivery_verified",
                                        !.status = "completed", !.verification = x]
      BY <2>5, BecomesAt DEF VerifyDelivery
    <3> QED
      BY <1>0, <2>1, <3>1 DEF States
  <2> QED
    BY <1>5, <2>1, <2>2, <2>3, <2>4, <2>5 DEF Delivering
<1> QED
  BY <1>1, <1>2, <1>3, <1>4, <1>5 DEF Operation

\* What a walk without a cycle leaves cannot close a ring: a part of the graph
\* that meets the walk has a sink there, and one that does not is as it was.
LEMMA StepAcyclic ==
    ASSUME TypeOK, DependencyAcyclic, NEW w \in Workflows, Operation(w)
    PROVE  DependencyAcyclic'
<1> DEFINE E == {x \in Workflows : wf[x] # None}
           F == {x \in Workflows : wf'[x] # None}
<1> SUFFICES ASSUME NEW T \in (SUBSET F) \ {{}}
             PROVE  \E x \in T : \A r \in ChildrenOf[wf'[x].plan] : r.workflow \notin T
  BY DEF DependencyAcyclic, Acyclic, Exists
<1>1. \A x \in Workflows \ {w} : wf'[x] = wf[x]
  BY OnlyOpenWorkChanges
<1>2. ASSUME T \in SUBSET E, \A x \in T : wf'[x].plan = wf[x].plan
      PROVE  \E x \in T : \A r \in ChildrenOf[wf'[x].plan] : r.workflow \notin T
  <2>1. PICK x \in T : \A r \in ChildrenOf[wf[x].plan] : r.workflow \notin T
    BY <1>2 DEF DependencyAcyclic, Acyclic, Exists
  <2> QED
    BY <1>2, <2>1
<1>3. CASE DependenciesHold(wf', w, FALSE)
  <2>1. PICK S \in SUBSET F : w \in S /\ Fresh(wf', S, FALSE) /\ Acyclic(wf', S)
    BY <1>3 DEF DependenciesHold
  <2>2. CASE T \cap S = {}
    <3>1. T \in SUBSET E /\ \A x \in T : wf'[x] = wf[x]
      BY <1>1, <2>1, <2>2
    <3> QED
      BY <1>2, <3>1
  <2>3. CASE T \cap S # {}
    <3>1. T \cap S \in (SUBSET S) \ {{}}
      BY <2>3
    <3>2. PICK x \in T \cap S : \A r \in ChildrenOf[wf'[x].plan] : r.workflow \notin T \cap S
      BY <2>1, <3>1 DEF Acyclic
    <3>3. \A r \in ChildrenOf[wf'[x].plan] : r.workflow \in S
      BY <2>1, <3>2 DEF Fresh
    <3> QED
      BY <3>2, <3>3
  <2> QED
    BY <2>2, <2>3
<1>4. CASE Exists(w) /\ wf'[w].plan = wf[w].plan
  <2>1. T \in SUBSET E /\ \A x \in T : wf'[x].plan = wf[x].plan
    BY <1>1, <1>4 DEF Exists
  <2> QED
    BY <1>2, <2>1
<1> QED
  BY <1>3, <1>4, WalkOrKeep

\* Required children never form a ring, whatever is created or replanned.
THEOREM NoDependencyRing == Spec => []DependencyAcyclic
<1>1. Init => DependencyAcyclic
  BY DEF Init, DependencyAcyclic, Acyclic, Exists
<1>2. TypeOK /\ DependencyAcyclic /\ [Next]_wf => DependencyAcyclic'
  <2>1. DependencyAcyclic /\ UNCHANGED wf => DependencyAcyclic'
    BY DEF DependencyAcyclic, Acyclic, Exists
  <2> QED
    BY <2>1, StepAcyclic DEF Next, Operation
<1> QED
  BY <1>1, <1>2, TypeCorrect, PTL DEF Spec

-----------------------------------------------------------------------------
(* Action properties and the refinement.  Effect collects what one         *)
(* operation may do to the workflow it commits.                            *)

IsOpen(s)    == ~Terminal(s) /\ ~DeliveryAuthorized(s)
IsGranted(s) == ~Terminal(s) /\ DeliveryAuthorized(s)

GrantStep(s, t) ==
    \/ IsOpen(s) /\ IsOpen(t)
    \/ /\ t.plan = s.plan /\ t.candidate = s.candidate
       /\ \/ IsOpen(s) /\ t.status = "cancelled"
          \/ IsOpen(s) /\ IsGranted(t) /\ s.candidate # None
          \/ IsGranted(s) /\ (IsOpen(t) \/ IsGranted(t) \/ t.status = "completed")

Effect(s, t) ==
    /\ t.plan # s.plan =>
          /\ RiskRank[RiskOf[t.plan]] >= RiskRank[RiskOf[s.plan]]
          /\ RigorRank[RigorOf[t.plan]] >= RigorRank[RigorOf[s.plan]]
    /\ UnknownDelivery(s) =>
          \/ UnknownDelivery(t)
          \/ t.recovery = "delivered" /\ t.progress = "delivered"
          \/ t.recovery = "not_delivered" /\ t.approval = None
    /\ GrantStep(s, t)

LEMMA PlanningEffect ==
    ASSUME TypeOK, NEW w \in Workflows, Exists(w), Planning(w)
    PROVE  Effect(wf[w], wf'[w])
<1> USE DEF Exists, Open, Active
<1>0. wf[w] \in States
  BY DEF TypeOK
<1>1. ~\E p \in Plans : Create(w, p)
  BY DEF Create
<1>2. CASE \E p \in Plans : Replan(w, p)
  <2>1. PICK p \in Plans : Replan(w, p)
    BY <1>2
  <2>2. wf'[w] = [Draft(p) EXCEPT !.recovery = wf[w].recovery]
    BY <2>1, BecomesAt DEF Replan
  <2> QED
    BY <1>0, <2>1, <2>2 DEF Effect, GrantStep, IsOpen, UnknownDelivery, DeliveryAuthorized,
       Terminal, States, Replan, NotWeaker, Draft
<1>3. CASE AcceptPlan(w)
  <2>1. wf'[w] = [wf[w] EXCEPT !.phase = "implement_and_qualify",
                               !.progress = "planned", !.admitted = TRUE]
    BY <1>3, BecomesAt DEF AcceptPlan
  <2> QED
    BY <1>0, <1>3, <2>1 DEF Effect, GrantStep, IsOpen, UnknownDelivery, DeliveryAuthorized,
       Terminal, States, AcceptPlan
<1>4. CASE \E kind \in BlockKinds : Block(w, kind)
  <2>1. PICK kind \in BlockKinds : Block(w, kind)
    BY <1>4
  <2>2. wf'[w] = [wf[w] EXCEPT !.status = "blocked", !.blocker = kind]
    BY <2>1, BecomesAt DEF Block
  <2> QED
    BY <1>0, <2>1, <2>2 DEF Effect, GrantStep, IsOpen, IsGranted, UnknownDelivery,
       DeliveryAuthorized, Terminal, States, Block
<1>5. CASE Cancel(w)
  <2>1. wf'[w] = [wf[w] EXCEPT !.status = "cancelled", !.blocker = None, !.approval = None]
    BY <1>5, BecomesAt DEF Cancel
  <2> QED
    BY <1>0, <1>5, <2>1 DEF Effect, GrantStep, IsOpen, UnknownDelivery, DeliveryAuthorized,
       Terminal, States, Cancel
<1>6. CASE Resume(w)
  <2>1. wf'[w] = [wf[w] EXCEPT !.status = "active", !.blocker = None]
    BY <1>6, BecomesAt DEF Resume
  <2> QED
    BY <1>0, <1>6, <2>1 DEF Effect, GrantStep, IsOpen, UnknownDelivery, DeliveryAuthorized,
       Terminal, States, Resume
<1> QED
  BY <1>1, <1>2, <1>3, <1>4, <1>5, <1>6 DEF Planning

LEMMA ProducingEffect ==
    ASSUME TypeOK, AllSound, NEW w \in Workflows, Producing(w)
    PROVE  Effect(wf[w], wf'[w])
<1> USE DEF Exists, Open, Active
<1>0. Exists(w) => wf[w] \in States /\ Sound(wf[w])
  BY DEF TypeOK, AllSound
<1>1. ASSUME NEW c \in Candidates, Implemented(w, c)
      PROVE  Effect(wf[w], wf'[w])
  <2>1. wf'[w] = [wf[w] EXCEPT !.progress = "implemented", !.candidate = c,
           !.measurements = {}, !.review = None, !.qualification = None,
           !.approval = None, !.delivery = None, !.verification = None]
    BY <1>1, BecomesAt DEF Implemented
  <2> QED
    BY <1>0, <1>1, <2>1 DEF Effect, GrantStep, IsOpen, UnknownDelivery, DeliveryAuthorized,
       Terminal, States, Implemented, Sound, RestsOnEvidence, QualifiedOrLater
<1>2. CASE RecordCheck(w) \/ RecordReview(w)
  <2>1. \E x : wf'[w] = [wf[w] EXCEPT !.measurements = x] \/ wf'[w] = [wf[w] EXCEPT !.review = x]
    BY <1>2, BecomesAt DEF RecordCheck, RecordReview
  <2> QED
    BY <1>0, <1>2, <2>1 DEF Effect, GrantStep, IsOpen, UnknownDelivery, DeliveryAuthorized,
       Terminal, States, RecordCheck, RecordReview
<1>3. CASE Qualify(w)
  <2>1. \E x : wf'[w] = [wf[w] EXCEPT !.phase = "deliver", !.progress = "qualified",
                                      !.qualification = x]
    BY <1>3, BecomesAt DEF Qualify
  <2> QED
    BY <1>0, <1>3, <2>1 DEF Effect, GrantStep, IsOpen, UnknownDelivery, DeliveryAuthorized,
       Terminal, States, Qualify
<1> QED
  BY <1>1, <1>2, <1>3 DEF Producing

LEMMA DeliveringEffect ==
    ASSUME TypeOK, AllSound, NEW w \in Workflows, Delivering(w)
    PROVE  Effect(wf[w], wf'[w])
<1> USE DEF Exists, Open, Active, DeliveryAuthorized, Terminal
<1>0. Exists(w) => wf[w] \in States /\ Sound(wf[w])
  BY DEF TypeOK, AllSound
<1>1. CASE ApproveDelivery(w)
  <2>1. \E x \in Approvals :
           /\ Matching(x, wf[w])
           /\ wf'[w] = [wf[w] EXCEPT !.progress = "approved_for_delivery", !.approval = x]
    BY <1>1, BecomesAt DEF ApproveDelivery, Authorizes
  <2>2. wf[w].candidate # None
    BY <2>1, NoneAssumption DEF Matching, Approvals
  <2> QED
    BY <1>0, <1>1, <2>1, <2>2 DEF Effect, GrantStep, IsOpen, IsGranted, UnknownDelivery,
       States, ApproveDelivery
<1>2. CASE RevokeDelivery(w)
  <2>1. wf'[w] = [wf[w] EXCEPT !.status = "active", !.progress = "qualified",
                               !.approval = None, !.blocker = None]
    BY <1>2, BecomesAt DEF RevokeDelivery
  <2> QED
    BY <1>0, <1>2, <2>1 DEF Effect, GrantStep, IsOpen, IsGranted, UnknownDelivery,
       States, RevokeDelivery
<1>3. CASE Delivered(w)
  <2>1. \E x : wf'[w] = [wf[w] EXCEPT !.progress = "delivered", !.delivery = x]
    BY <1>3, BecomesAt DEF Delivered
  <2> QED
    BY <1>0, <1>3, <2>1 DEF Effect, GrantStep, IsGranted, UnknownDelivery, States, Delivered
<1>4. CASE ReconcileDelivery(w)
  <2>1. \/ wf'[w] = [wf[w] EXCEPT !.status = "active", !.progress = "qualified",
               !.approval = None, !.delivery = None, !.blocker = None,
               !.recovery = "not_delivered"]
        \/ \E x : wf'[w] = [wf[w] EXCEPT !.status = "active", !.progress = "delivered",
               !.blocker = None, !.recovery = "delivered", !.delivery = x]
    BY <1>4, BecomesAt DEF ReconcileDelivery
  <2> QED
    BY <1>0, <1>4, <2>1 DEF Effect, GrantStep, IsOpen, IsGranted, UnknownDelivery, States,
       ReconcileDelivery
<1>5. CASE VerifyDelivery(w)
  <2>1. \E x : wf'[w] = [wf[w] EXCEPT !.progress = "delivery_verified",
                                      !.status = "completed", !.verification = x]
    BY <1>5, BecomesAt DEF VerifyDelivery
  <2> QED
    BY <1>0, <1>5, <2>1, NoneAssumption DEF Effect, GrantStep, IsGranted, UnknownDelivery, AllBlockKinds, States,
       VerifyDelivery, Sound, RestsOnAuthority
<1> QED
  BY <1>1, <1>2, <1>3, <1>4, <1>5 DEF Delivering

LEMMA StepEffect ==
    ASSUME TypeOK, AllSound, NEW w \in Workflows, Operation(w)
    PROVE  /\ wf'[w] \in States
           /\ \A x \in Workflows \ {w} : wf'[x] = wf[x]
           /\ Exists(w) => ~Terminal(wf[w]) /\ Effect(wf[w], wf'[w])
<1>1. wf'[w] \in States
  BY PlanningType, ProducingType, DeliveringType DEF Operation
<1>2. Exists(w) => Effect(wf[w], wf'[w])
  BY PlanningEffect, ProducingEffect, DeliveringEffect DEF Operation
<1> QED
  BY <1>1, <1>2, OnlyOpenWorkChanges

\* An unknown delivery outcome is settled by a destination readback only.
THEOREM UnknownSettledByReadback == Spec => UnknownOutcomeNeedsReadback
<1> DEFINE A == \A w \in Workflows : Exists(w) /\ UnknownDelivery(wf[w]) =>
                    \/ UnknownDelivery(wf'[w])
                    \/ wf'[w].recovery = "delivered" /\ wf'[w].progress = "delivered"
                    \/ wf'[w].recovery = "not_delivered" /\ wf'[w].approval = None
<1>1. ASSUME TypeOK, AllSound, NEW w \in Workflows, Operation(w)
      PROVE  A
  BY <1>1, StepEffect DEF Effect
<1>2. TypeOK /\ AllSound /\ [Next]_wf => [A]_wf
  BY <1>1 DEF Next, Operation
<1> QED
  BY <1>2, TypeCorrect, AlwaysSound, PTL DEF Spec, UnknownOutcomeNeedsReadback

\* Risk and rigor never fall and finished workflows never move.
THEOREM NothingWeakens == Spec => NeverWeakened
<1> DEFINE A == \A w \in Workflows : Exists(w) =>
                    /\ wf'[w] # None
                    /\ RiskRank[RiskOf[wf'[w].plan]] >= RiskRank[RiskOf[wf[w].plan]]
                    /\ RigorRank[RigorOf[wf'[w].plan]] >= RigorRank[RigorOf[wf[w].plan]]
                    /\ Terminal(wf[w]) => wf'[w] = wf[w]
<1>1. ASSUME TypeOK, AllSound, NEW w \in Workflows, Operation(w)
      PROVE  A
  <2>1. \A p \in Plans : RiskRank[RiskOf[p]] \in Int /\ RigorRank[RigorOf[p]] \in Int
    BY PlanAssumption DEF RiskRank, RigorRank
  <2>2. \A x \in Workflows : Exists(x) => wf[x] \in States /\ wf[x].plan \in Plans
    BY <1>1 DEF TypeOK, States, Exists
  <2>3. /\ wf'[w] \in States
        /\ \A x \in Workflows \ {w} : wf'[x] = wf[x]
        /\ Exists(w) => ~Terminal(wf[w]) /\ Effect(wf[w], wf'[w])
    BY <1>1, StepEffect
  <2>4. ASSUME NEW x \in Workflows, x # w, Exists(x)
        PROVE  /\ wf'[x] # None
               /\ RiskRank[RiskOf[wf'[x].plan]] >= RiskRank[RiskOf[wf[x].plan]]
               /\ RigorRank[RigorOf[wf'[x].plan]] >= RigorRank[RigorOf[wf[x].plan]]
               /\ wf'[x] = wf[x]
    <3>1. wf'[x] = wf[x]
      BY <2>3, <2>4
    <3> QED
      BY <2>1, <2>2, <2>4, <3>1 DEF Exists
  <2>5. ASSUME Exists(w)
        PROVE  /\ wf'[w] # None
               /\ RiskRank[RiskOf[wf'[w].plan]] >= RiskRank[RiskOf[wf[w].plan]]
               /\ RigorRank[RigorOf[wf'[w].plan]] >= RigorRank[RigorOf[wf[w].plan]]
               /\ ~Terminal(wf[w])
    BY <2>1, <2>2, <2>3, <2>5, NoneAssumption DEF Effect
  <2> QED
    BY <2>4, <2>5
<1>2. TypeOK /\ AllSound /\ [Next]_wf => [A]_wf
  BY <1>1 DEF Next, Operation
<1> QED
  BY <1>2, TypeCorrect, AlwaysSound, PTL DEF Spec, NeverWeakened

\* A step that changes the state of one workflow changes only that workflow's
\* subject and standing.
LEMMA MappedStep ==
    ASSUME TypeOK, NEW w \in Workflows, \A x \in Workflows \ {w} : wf'[x] = wf[x]
    PROVE  /\ [x \in Workflows |-> SubjectOf(wf'[x])] =
              [[x \in Workflows |-> SubjectOf(wf[x])] EXCEPT ![w] = SubjectOf(wf'[w])]
           /\ [x \in Workflows |-> StandingOf(wf'[x])] =
              [[x \in Workflows |-> StandingOf(wf[x])] EXCEPT ![w] = StandingOf(wf'[w])]
OBVIOUS

LEMMA StandingCases ==
    ASSUME NEW s \in States
    PROVE  /\ SubjectOf(s) = <<s.plan, s.candidate>>
           /\ s.status = "completed" => StandingOf(s) = "complete"
           /\ s.status = "cancelled" => StandingOf(s) = "cancelled"
           /\ IsOpen(s) => StandingOf(s) = "open"
           /\ IsGranted(s) => StandingOf(s) = "granted"
BY NoneAssumption DEF SubjectOf, StandingOf, IsOpen, IsGranted, Terminal

LEMMA StepImplementsGrant ==
    ASSUME TypeOK, AllSound, NEW w \in Workflows, Operation(w)
    PROVE  Granted!Next \/ UNCHANGED Granted!grantVars
<1> DEFINE sub == [x \in Workflows |-> SubjectOf(wf[x])]
           sta == [x \in Workflows |-> StandingOf(wf[x])]
<1>1. /\ wf'[w] \in States
      /\ sub' = [sub EXCEPT ![w] = SubjectOf(wf'[w])]
      /\ sta' = [sta EXCEPT ![w] = StandingOf(wf'[w])]
  BY StepEffect, MappedStep
<1>2. SubjectOf(wf'[w]) \in Plans \X (Candidates \cup {None})
  BY <1>1, StandingCases DEF States
<1>3. CASE ~Exists(w)
  <2>1. \E p \in Plans : wf'[w] = Draft(p)
    BY <1>3, BecomesAt DEF Operation, Planning, Producing, Delivering, Create, Replan,
       AcceptPlan, Block, Cancel, Resume, Implemented, RecordCheck, RecordReview, Qualify,
       ApproveDelivery, RevokeDelivery, Delivered, ReconcileDelivery, VerifyDelivery,
       Open, Active
  <2>2. StandingOf(wf'[w]) = "open"
    BY <2>1, DraftType, StandingCases DEF Draft, IsOpen, Terminal, DeliveryAuthorized
  <2>3. StandingOf(wf[w]) = "unborn"
    BY <1>3 DEF Exists, StandingOf
  <2> QED
    BY <1>1, <1>2, <2>2, <2>3 DEF Granted!Next, Granted!Open, Granted!Moves
<1>4. CASE Exists(w)
  <2>1. /\ wf[w] \in States
        /\ GrantStep(wf[w], wf'[w])
    BY <1>4, StepEffect DEF Effect, TypeOK, Exists
  <2>2. CASE IsOpen(wf[w]) /\ IsOpen(wf'[w])
    <3>1. sta[w] = "open" /\ sta' = [sta EXCEPT ![w] = "open"]
      BY <1>1, <2>1, <2>2, StandingCases
    <3> QED
      BY <1>1, <1>2, <3>1 DEF Granted!Next, Granted!Rework, Granted!Moves
  <2>3. CASE wf'[w].plan = wf[w].plan /\ wf'[w].candidate = wf[w].candidate
    <3>1. sub' = sub
      BY <1>1, <2>1, <2>3, StandingCases
    <3>2. CASE IsOpen(wf[w]) /\ wf'[w].status = "cancelled"
      BY <1>1, <2>1, <3>1, <3>2, StandingCases DEF Granted!Next, Granted!Cancel, Granted!Moves
    <3>3. CASE IsOpen(wf[w]) /\ IsGranted(wf'[w]) /\ wf[w].candidate # None
      <4>1. sub[w] \in Plans \X Candidates
        BY <2>1, <3>3, StandingCases DEF States
      <4> QED
        BY <1>1, <2>1, <3>1, <3>3, <4>1, StandingCases DEF Granted!Next, Granted!Grant, Granted!Moves
    <3>4. CASE IsGranted(wf[w]) /\ IsOpen(wf'[w])
      BY <1>1, <2>1, <3>1, <3>4, StandingCases DEF Granted!Next, Granted!Withdraw, Granted!Moves
    <3>5. CASE IsGranted(wf[w]) /\ IsGranted(wf'[w])
      BY <1>1, <2>1, <3>1, <3>5, StandingCases DEF Granted!grantVars
    <3>6. CASE IsGranted(wf[w]) /\ wf'[w].status = "completed"
      BY <1>1, <2>1, <3>1, <3>6, StandingCases DEF Granted!Next, Granted!Complete, Granted!Moves
    <3> QED
      BY <2>1, <2>2, <3>2, <3>3, <3>4, <3>5, <3>6 DEF GrantStep
  <2> QED
    BY <2>1, <2>2, <2>3 DEF GrantStep
<1> QED
  BY <1>3, <1>4

\* The workflow authority implements the delivery grant: under a grant neither
\* plan nor candidate changes, and only granted work completes.
THEOREM ImplementsGrant == Spec => ImplementsDeliveryGrant
<1>1. Init => Granted!Init
  BY DEF Init, Granted!Init, SubjectOf, StandingOf
<1>2. TypeOK /\ AllSound /\ [Next]_wf => [Granted!Next]_(Granted!grantVars)
  <2>1. UNCHANGED wf => UNCHANGED Granted!grantVars
    BY DEF Granted!grantVars
  <2> QED
    BY <2>1, StepImplementsGrant DEF Next, Operation
<1> QED
  BY <1>1, <1>2, TypeCorrect, AlwaysSound, PTL DEF Spec, ImplementsDeliveryGrant, Granted!Spec

-----------------------------------------------------------------------------
(* The public commands on one workflow: the promises of WorkflowLog, for   *)
(* every number of sessions, identifiers and transitions.  The invariant   *)
(* says what each event rests on and what each session, at its step, still *)
(* knows to be true of the log others go on extending.                     *)

Runtime == INSTANCE WorkflowRuntime

ReadbacksOf(id) == {m \in Runtime!Transitions : log[m].id = id /\ log[m].part = "readback"}

\* A readback supports a verification that expected the generation before it; a
\* finished verification is the last event.
EventSound(n) ==
    /\ log[n].id \in Ids
    /\ log[n].part = "readback" =>
          log[n].request.command = "verify_delivery" /\ log[n].request.expected = n - 2
    /\ log[n].part = "main" /\ log[n].request.command = "verify_delivery" =>
          log[n].state.progress = "delivery_verified"
    /\ log[n].state.progress = "delivery_verified" => n = Len(log)

LogSound ==
    /\ log[1].id = Nothing /\ log[1].part = "main"
    /\ log[1].state.progress # "delivery_verified"
    /\ \A n \in Runtime!Transitions : EventSound(n)
    /\ Runtime!AppliedOnce
    /\ Runtime!HalvesAdjacent
    /\ Runtime!DecidedOnCurrent

Verifying(c) == session[c].at \in {"observing", "reading", "rereading", "reconcile"}

\* expected is the generation the request or its own readback gave, and what the
\* session has read since is no older.
VerifySound(c) ==
    /\ Runtime!Command(c) = "verify_delivery"
    /\ session[c].expected <= session[c].generation
    /\ \/ session[c].expected = Runtime!Request(c).expected
       \/ \E m \in ReadbacksOf(session[c].id) : m - 1 = session[c].expected
    /\ \A m \in ReadbacksOf(session[c].id) : m - 1 >= session[c].expected

CommitSound(c) ==
    /\ Runtime!Command(c) # "verify_delivery" => session[c].expected = session[c].generation
    /\ Runtime!Command(c) = "verify_delivery" =>
          /\ \A m \in ReadbacksOf(session[c].id) : m - 1 >= session[c].expected
          /\ \/ session[c].expected <= session[c].generation
             \/ /\ session[c].expected = session[c].generation + 1
                /\ session[c].expected + 1 \in ReadbacksOf(session[c].id)

AnswerSound(c) ==
    /\ session[c].generation + 1 \in Runtime!Transitions
    /\ log[session[c].generation + 1].id = session[c].id
    /\ log[session[c].generation + 1].part = "main"
    /\ log[session[c].generation + 1].request = Runtime!Request(c)

SessionSound(c) ==
    /\ session[c].generation < Len(log)
    /\ ~Runtime!At(c, "idle") => session[c].id \in Ids /\ session[c].request \in Runtime!Requests
    /\ Runtime!At(c, "checking") => session[c].expected = Runtime!Request(c).expected
    /\ session[c].at \in {"preparing", "asking"} => Runtime!Command(c) # "verify_delivery"
    /\ Runtime!At(c, "asking") => session[c].expected = session[c].generation
    /\ Verifying(c) => VerifySound(c)
    /\ Runtime!At(c, "transition") => CommitSound(c)
    /\ Runtime!At(c, "answering") => AnswerSound(c)

RuntimeInv == Runtime!RuntimeTypeOK /\ LogSound /\ \A c \in Sessions : SessionSound(c)

\* No step removes or changes an event.
LogKept ==
    /\ Len(log) <= Len(log')
    /\ \A n \in 1..Len(log) : log'[n] = log[n]

SessionSteps == {"idle", "replaying", "binding", "checking", "observing", "reading", "rereading",
                 "preparing", "asking", "reconcile", "transition", "answering"}
SessionRecords == [at: SessionSteps, id: Ids \cup {Nothing}, request: Runtime!Requests \cup {Nothing},
                   bound: Runtime!WorkStates \cup {Nothing},
                   generation: 0..MaxGeneration, expected: 0..MaxGeneration]

LEMMA LogFacts ==
  ASSUME LogParameters, Runtime!RuntimeTypeOK
  PROVE  /\ log \in Seq(Runtime!Events) /\ Len(log) \in Nat /\ Len(log) >= 1
         /\ DOMAIN log = 1..Len(log)
         /\ Runtime!Transitions = 2..Len(log)
         /\ Runtime!Generation \in 0..MaxGeneration
         /\ Runtime!Current \in Runtime!WorkStates
         /\ \A n \in 1..Len(log) : log[n] \in Runtime!Events
<1>1. log \in Seq(Runtime!Events) /\ Len(log) \in 1..(MaxGeneration + 1)
  BY DEF Runtime!RuntimeTypeOK
<1>2. Len(log) \in Nat /\ Len(log) >= 1 /\ DOMAIN log = 1..Len(log)
  BY <1>1 DEF LogParameters
<1>3. \A n \in 1..Len(log) : log[n] \in Runtime!Events
  BY <1>1
<1>4. Runtime!Transitions = 2..Len(log)
  BY <1>2 DEF Runtime!Transitions
<1>5. Runtime!Generation \in 0..MaxGeneration
  BY <1>1, <1>2 DEF Runtime!Generation, LogParameters
<1>6. Runtime!Current \in Runtime!WorkStates
  BY <1>2, <1>3 DEF Runtime!Current, Runtime!Events
<1> QED BY <1>1, <1>2, <1>3, <1>4, <1>5, <1>6

LEMMA SessionType ==
  ASSUME Runtime!RuntimeTypeOK, NEW c \in Sessions
  PROVE  session[c] \in SessionRecords
  BY DEF Runtime!RuntimeTypeOK, SessionRecords, SessionSteps

LEMMA GotoType ==
  ASSUME Runtime!RuntimeTypeOK, NEW c \in Sessions, NEW r \in SessionRecords,
         session' = [session EXCEPT ![c] = r], UNCHANGED <<log, asked>>
  PROVE  Runtime!RuntimeTypeOK'
  BY DEF Runtime!RuntimeTypeOK, SessionRecords, SessionSteps

LEMMA IdleRecord ==
  ASSUME LogParameters
  PROVE  Runtime!Idle \in SessionRecords /\ Runtime!Idle.at = "idle" /\ Runtime!Idle.generation = 0
  BY DEF LogParameters, Runtime!Idle, SessionRecords, SessionSteps

LEMMA RuntimeTypeInit ==
  ASSUME LogParameters, Runtime!Init
  PROVE  Runtime!RuntimeTypeOK
<1>1. log \in Seq(Runtime!Events) /\ Len(log) = 1
  BY DEF LogParameters, Runtime!Init, Runtime!Events, Runtime!WorkStates, Runtime!WorkProgresses,
     Runtime!Parts
<1> QED BY <1>1, IdleRecord DEF LogParameters, Runtime!Init, Runtime!RuntimeTypeOK, SessionRecords,
           SessionSteps

-----------------------------------------------------------------------------
(* A session that does not move stays sound while others append.           *)

LEMMA StaysSound ==
  ASSUME LogParameters, Runtime!RuntimeTypeOK, Runtime!RuntimeTypeOK', LogKept, NEW c \in Sessions,
         SessionSound(c),
         session'[c] = session[c]
  PROVE  SessionSound(c)'
<1> DEFINE id == session[c].id
<1>1. /\ Len(log) \in Nat /\ Len(log') \in Nat
      /\ Runtime!Transitions = 2..Len(log) /\ Runtime!Transitions' = 2..Len(log')
      /\ \A n \in 1..Len(log) : log'[n] = log[n]
      /\ Len(log) <= Len(log')
  <2>1. Len(log') \in Nat /\ Runtime!Transitions' = 2..Len(log')
    BY DEF LogParameters, Runtime!RuntimeTypeOK, Runtime!Transitions
  <2> QED BY <2>1, LogFacts DEF LogKept
<1>2. /\ session[c] \in SessionRecords
      /\ session[c].generation \in Nat /\ session[c].expected \in Nat
  BY SessionType DEF SessionRecords, LogParameters
<1>3. /\ ReadbacksOf(id) \subseteq ReadbacksOf(id)'
      /\ \A m \in ReadbacksOf(id)' : m \in ReadbacksOf(id) \/ m > Len(log)
  BY <1>1 DEF ReadbacksOf
<1>4. Verifying(c) => VerifySound(c)'
  <2> SUFFICES ASSUME Verifying(c) PROVE VerifySound(c)'
    OBVIOUS
  <2>1. VerifySound(c) /\ session[c].generation < Len(log)
    BY DEF SessionSound
  <2>2. \A m \in ReadbacksOf(id)' : m \in Int
    BY <1>1 DEF ReadbacksOf
  <2>3. \A m \in ReadbacksOf(id)' : m - 1 >= session[c].expected
    BY <2>1, <2>2, <1>1, <1>2, <1>3 DEF VerifySound
  <2> QED BY <2>1, <2>3, <1>3 DEF VerifySound, Runtime!Command, Runtime!Request
<1>5. Runtime!At(c, "transition") => CommitSound(c)'
  <2> SUFFICES ASSUME Runtime!At(c, "transition") PROVE CommitSound(c)'
    OBVIOUS
  <2>1. CommitSound(c) /\ session[c].generation < Len(log)
    BY DEF SessionSound
  <2>2. \A m \in ReadbacksOf(id)' : m \in Int
    BY <1>1 DEF ReadbacksOf
  <2>3. Runtime!Command(c) = "verify_delivery" => session[c].expected <= Len(log)
    BY <2>1, <1>1, <1>2 DEF CommitSound
  <2>4. Runtime!Command(c) = "verify_delivery" =>
           \A m \in ReadbacksOf(id)' : m - 1 >= session[c].expected
    BY <2>1, <2>2, <2>3, <1>1, <1>2, <1>3 DEF CommitSound
  <2> QED BY <2>1, <2>4, <1>3 DEF CommitSound, Runtime!Command, Runtime!Request
<1>6. Runtime!At(c, "answering") => AnswerSound(c)'
  BY <1>1, <1>2 DEF SessionSound, AnswerSound, Runtime!Request
<1> QED BY <1>1, <1>2, <1>4, <1>5, <1>6 DEF SessionSound, Runtime!At, Verifying, Runtime!Request,
           Runtime!Command

-----------------------------------------------------------------------------
(* Steps that read.                                                        *)

\* The session moves, the log does not: what is left to show is about that session.
LEMMA ReadStep ==
  ASSUME LogParameters, RuntimeInv, NEW c \in Sessions, NEW r \in SessionRecords,
         session' = [session EXCEPT ![c] = r], UNCHANGED log, Runtime!RuntimeTypeOK',
         SessionSound(c)'
  PROVE  RuntimeInv'
<1>1. LogSound'
  BY DEF RuntimeInv, LogSound, EventSound, Runtime!AppliedOnce, Runtime!HalvesAdjacent,
     Runtime!DecidedOnCurrent, Runtime!OwnHalf,
         Runtime!Transitions
<1>2. LogKept
  BY LogFacts DEF RuntimeInv, LogKept
<1>3. ASSUME NEW d \in Sessions PROVE SessionSound(d)'
  <2>1. CASE d = c
    BY <2>1
  <2>2. CASE d # c
    <3>1. session'[d] = session[d]
      BY <2>2 DEF RuntimeInv, Runtime!RuntimeTypeOK
    <3> QED BY <3>1, <1>2, StaysSound DEF RuntimeInv
  <2> QED BY <2>1, <2>2
<1> QED BY <1>1, <1>3 DEF RuntimeInv

\* To return, or to a step of which nothing more is claimed.
LEMMA ReturnStep ==
  ASSUME LogParameters, RuntimeInv, NEW c \in Sessions, Runtime!Return(c), UNCHANGED <<log, asked>>
  PROVE  RuntimeInv'
<1>1. Runtime!RuntimeTypeOK'
  BY IdleRecord, GotoType DEF RuntimeInv, Runtime!Return
<1>2. session'[c] = Runtime!Idle
  BY DEF Runtime!Return, RuntimeInv, Runtime!RuntimeTypeOK
<1>3. SessionSound(c)'
  BY <1>2, LogFacts DEF RuntimeInv, SessionSound, Runtime!Idle, Runtime!At, Verifying
<1> QED BY <1>1, <1>3, IdleRecord, ReadStep DEF Runtime!Return

LEMMA PlainStep ==
  ASSUME LogParameters, RuntimeInv, NEW c \in Sessions, NEW r \in SessionRecords,
         session' = [session EXCEPT ![c] = r], UNCHANGED <<log, asked>>,
         r.at \in {"replaying", "binding", "checking", "preparing", "asking"},
         r.id \in Ids, r.request \in Runtime!Requests,
         r.generation <= Runtime!Generation,
         r.at = "checking" => r.expected = r.request.expected,
         r.at \in {"preparing", "asking"} => r.request.command # "verify_delivery",
         r.at = "asking" => r.expected = r.generation
  PROVE  RuntimeInv'
<1>1. Runtime!RuntimeTypeOK'
  BY GotoType DEF RuntimeInv
<1>2. session'[c] = r
  BY DEF RuntimeInv, Runtime!RuntimeTypeOK
<1>3. r.generation < Len(log)
  BY LogFacts DEF RuntimeInv, SessionRecords, Runtime!Generation, LogParameters
<1>4. SessionSound(c)'
  BY <1>2, <1>3 DEF SessionSound, Runtime!At, Verifying, Runtime!Request, Runtime!Command
<1> QED BY <1>1, <1>4, ReadStep

LEMMA ActiveFacts ==
  ASSUME LogParameters, RuntimeInv, NEW c \in Sessions, session[c].at # "idle"
  PROVE  /\ session[c] \in SessionRecords /\ session[c].id \in Ids
            /\ Runtime!Request(c) \in Runtime!Requests
         /\ session[c].generation \in Nat /\ session[c].expected \in Nat
         /\ session[c].generation <= Runtime!Generation
         /\ Runtime!Request(c).expected \in Nat
         /\ Runtime!EventsOf(session[c].id, "main") \subseteq Runtime!Transitions
         /\ Runtime!EventsOf(session[c].id, "readback") = ReadbacksOf(session[c].id)
<1>1. session[c] \in SessionRecords
  BY SessionType DEF RuntimeInv
<1>2. SessionSound(c)
  BY DEF RuntimeInv
<1>3. session[c].id \in Ids /\ Runtime!Request(c) \in Runtime!Requests
  BY <1>2 DEF SessionSound, Runtime!At, Runtime!Request
<1>4. 1 \notin Runtime!EventsOf(session[c].id, "main") /\ 1 \notin Runtime!EventsOf(session[c].id, "readback")
  BY <1>3 DEF RuntimeInv, LogSound, Runtime!EventsOf, LogParameters
<1>5. Runtime!EventsOf(session[c].id, "main") \subseteq Runtime!Transitions
  BY <1>4 DEF Runtime!EventsOf, Runtime!Transitions
<1>6. Runtime!EventsOf(session[c].id, "readback") = ReadbacksOf(session[c].id)
  BY <1>4 DEF Runtime!EventsOf, Runtime!Transitions, ReadbacksOf
<1>7. session[c].generation <= Runtime!Generation
  BY <1>1, <1>2, LogFacts DEF SessionSound, Runtime!Generation, SessionRecords, LogParameters,
     RuntimeInv
<1> QED BY <1>1, <1>3, <1>5, <1>6, <1>7 DEF SessionRecords, Runtime!Requests, LogParameters

\* What is received is an event of the request.
LEMMA AnswersEvent ==
  ASSUME LogParameters, RuntimeInv, NEW c \in Sessions, session[c].at # "idle",
         NEW n \in Runtime!EventsOf(session[c].id, "main"), log[n].request = Runtime!Request(c),
         Runtime!Receive(c, n - 1), UNCHANGED <<log, asked>>
  PROVE  RuntimeInv'
<1> DEFINE r == [Runtime!Idle EXCEPT !.at = "answering", !.id = session[c].id,
                                     !.request = session[c].request, !.generation = n - 1]
<1>1. n \in Runtime!Transitions /\ n \in 2..Len(log) /\ log[n].id = session[c].id
                                   /\ log[n].part = "main"
  BY ActiveFacts, LogFacts DEF Runtime!EventsOf, RuntimeInv
<1>2. /\ r \in SessionRecords /\ r.at = "answering" /\ r.id = session[c].id
      /\ r.request = session[c].request /\ r.generation = n - 1
  <2>1. n - 1 \in 0..MaxGeneration
    BY <1>1, LogFacts DEF RuntimeInv, Runtime!Generation, LogParameters
  <2>3. session[c].id \in Ids /\ session[c].request \in Runtime!Requests
    BY ActiveFacts DEF Runtime!Request
  <2> QED BY <2>1, <2>3, IdleRecord DEF SessionRecords, SessionSteps
<1>3. session' = [session EXCEPT ![c] = r]
  BY DEF Runtime!Receive
<1> HIDE DEF r
<1>4. Runtime!RuntimeTypeOK'
  BY <1>2, <1>3, GotoType DEF RuntimeInv
<1>5. session'[c] = r
  BY <1>3 DEF RuntimeInv, Runtime!RuntimeTypeOK
<1>6. n \in Int /\ Len(log) \in Int
  BY <1>1, LogFacts DEF RuntimeInv
<1>7. SessionSound(c)'
  <2>1. r.generation < Len(log)
    BY <1>1, <1>2, <1>6
  <2>2. AnswerSound(c)'
    BY <1>1, <1>2, <1>5, <1>6 DEF AnswerSound, Runtime!Request, Runtime!Transitions
  <2> QED BY <1>2, <1>5, <2>1, <2>2, ActiveFacts DEF SessionSound, Runtime!At, Verifying,
             Runtime!Request, Runtime!Command
<1> QED BY <1>2, <1>3, <1>4, <1>7, ReadStep

LEMMA CallStep ==
  ASSUME LogParameters, RuntimeInv, NEW c \in Sessions, NEW id \in Ids,
         NEW request \in Runtime!Requests,
         Runtime!Call(c, id, request)
  PROVE  RuntimeInv'
<1> DEFINE r == [Runtime!Idle EXCEPT !.at = "replaying", !.id = id, !.request = request]
<1>1. r \in SessionRecords /\ r.at = "replaying" /\ r.id = id /\ r.request = request
                              /\ r.generation = 0
  BY IdleRecord DEF SessionRecords, SessionSteps
<1>2. session' = [session EXCEPT ![c] = r] /\ UNCHANGED log
  BY DEF Runtime!Call
<1>3. asked' \in [Ids -> Runtime!Requests \cup {Nothing}]
  BY DEF Runtime!Call, RuntimeInv, Runtime!RuntimeTypeOK
<1>4. Runtime!RuntimeTypeOK'
  BY <1>1, <1>2, <1>3 DEF RuntimeInv, Runtime!RuntimeTypeOK, SessionRecords, SessionSteps
<1>5. session'[c] = r
  BY <1>2 DEF RuntimeInv, Runtime!RuntimeTypeOK
<1>6. SessionSound(c)'
  <2> HIDE DEF r
  <2> QED BY <1>1, <1>2, <1>5, LogFacts DEF RuntimeInv, SessionSound, Runtime!At, Verifying
<1> HIDE DEF r
<1> QED BY <1>1, <1>2, <1>4, <1>6, ReadStep

LEMMA ReplayStep ==
  ASSUME LogParameters, RuntimeInv, NEW c \in Sessions, Runtime!Replay(c)
  PROVE  RuntimeInv'
<1> DEFINE prior == Runtime!EventsOf(session[c].id, "main")
<1>0. session[c].at = "replaying"
  BY DEF Runtime!Replay, Runtime!At
<1>1. CASE \E n \in prior : log[n].request = Runtime!Request(c) /\ Runtime!Receive(c, n - 1)
  <2>1. PICK n \in prior : log[n].request = Runtime!Request(c) /\ Runtime!Receive(c, n - 1)
    BY <1>1
  <2> QED BY <2>1, <1>0, AnswersEvent DEF Runtime!Replay
<1>2. CASE Runtime!Return(c)
  BY <1>2, ReturnStep DEF Runtime!Replay
<1>3. CASE Runtime!Goto(c, "binding")
  <2>1. session' = [session EXCEPT ![c] = [session[c] EXCEPT !.at = "binding"]]
    BY <1>3 DEF Runtime!Goto
  <2>2. [session[c] EXCEPT !.at = "binding"] \in SessionRecords
    BY <1>0, ActiveFacts DEF SessionRecords, SessionSteps
  <2> QED BY <2>1, <2>2, <1>0, ActiveFacts, PlainStep DEF Runtime!Replay, SessionRecords,
             Runtime!Request
<1> QED BY <1>1, <1>2, <1>3 DEF Runtime!Replay

LEMMA BindStep ==
  ASSUME LogParameters, RuntimeInv, NEW c \in Sessions, Runtime!Bind(c)
  PROVE  RuntimeInv'
<1>0. session[c].at # "idle" /\ UNCHANGED <<log, asked>>
  BY DEF Runtime!Bind, Runtime!At
<1>1. CASE Runtime!Current.progress = "draft"
  BY <1>1, ReturnStep DEF Runtime!Bind
<1>2. CASE Runtime!Current.progress # "draft"
  <2> DEFINE r == [session[c] EXCEPT !.at = "checking", !.bound = Runtime!Current,
                      !.generation = Runtime!Generation, !.expected = Runtime!Request(c).expected]
  <2>1. session' = [session EXCEPT ![c] = r]
    BY <1>2 DEF Runtime!Bind
  <2>2. /\ r \in SessionRecords /\ r.at = "checking" /\ r.id = session[c].id
        /\ r.request = Runtime!Request(c) /\ r.generation = Runtime!Generation
           /\ r.expected = Runtime!Request(c).expected
    BY <1>0, ActiveFacts, LogFacts DEF RuntimeInv, SessionRecords, SessionSteps, Runtime!Requests,
       Runtime!Request
  <2> HIDE DEF r
  <2>3. r.generation <= Runtime!Generation
    BY <2>2, LogFacts DEF RuntimeInv, LogParameters
  <2>4. r.id \in Ids /\ r.request \in Runtime!Requests /\ r.expected = r.request.expected
    BY <2>2, <1>0, ActiveFacts
  <2> QED BY <2>1, <2>2, <2>3, <2>4, <1>0, PlainStep
<1> QED BY <1>1, <1>2

\* The step after the generation check: what expected is, and that the readback half
\* there may be already is the one it goes on from.
LEMMA CheckStep ==
  ASSUME LogParameters, RuntimeInv, NEW c \in Sessions, Runtime!Check(c)
  PROVE  RuntimeInv'
<1> DEFINE halves == {n \in Runtime!EventsOf(session[c].id, "readback") : Runtime!Command(c) = "verify_delivery"}
           g == session[c].generation
<1>0. session[c].at = "checking" /\ UNCHANGED <<log, asked>>
  BY DEF Runtime!Check, Runtime!At
<1>1. SessionSound(c) /\ session[c].expected = Runtime!Request(c).expected
  BY <1>0 DEF RuntimeInv, SessionSound, Runtime!At
<1>2. CASE Runtime!Return(c)
  BY <1>0, <1>2, ReturnStep
<1>3. CASE ~Runtime!Return(c)
  <2>1. /\ Runtime!Start(c, g)
        /\ \A n \in halves : log[n].request = Runtime!Request(c)
        /\ \/ \E n \in halves : n - 1 = g
           \/ session[c].expected = g
    BY <1>3 DEF Runtime!Check
  <2> DEFINE step == CASE Runtime!Command(c) = "verify_delivery" -> "observing"
                       [] Runtime!Command(c) \in Runtime!OwnerCommands -> "preparing"
                       [] OTHER -> "transition"
             r == [session[c] EXCEPT !.expected = g,
                      !.bound = IF Runtime!Command(c) = "verify_delivery" THEN session[c].bound ELSE Nothing,
                      !.at = step]
  <2>2. session' = [session EXCEPT ![c] = r]
    BY <2>1 DEF Runtime!Start
  <2>3. /\ step \in {"observing", "preparing", "transition"}
        /\ (step = "observing" <=> Runtime!Command(c) = "verify_delivery")
    BY DEF Runtime!OwnerCommands
  <2>4. /\ r \in SessionRecords /\ r.at = step /\ r.id = session[c].id
           /\ r.request = Runtime!Request(c)
        /\ r.generation = g /\ r.expected = g
    <3> HIDE DEF step
    <3> QED BY <1>0, <2>3, ActiveFacts DEF SessionRecords, SessionSteps, Runtime!Request
  <2>5. session'[c] = r
    BY <2>2 DEF RuntimeInv, Runtime!RuntimeTypeOK
  <2>6. Runtime!RuntimeTypeOK'
    BY <2>2, <2>4, <1>0, GotoType DEF RuntimeInv
  <2>7. g \in Nat /\ g < Len(log) /\ session[c].id \in Ids
                     /\ Runtime!Request(c) \in Runtime!Requests
    BY <1>0, <1>1, ActiveFacts DEF SessionSound
  <2>8. Runtime!Command(c) = "verify_delivery" => halves = ReadbacksOf(session[c].id)
    BY <1>0, ActiveFacts
  <2>9. Runtime!Command(c) = "verify_delivery" => VerifySound(c)'
    <3> SUFFICES ASSUME Runtime!Command(c) = "verify_delivery" PROVE VerifySound(c)'
      OBVIOUS
    <3>1. ReadbacksOf(session[c].id)' = ReadbacksOf(session[c].id)
      BY <1>0, <2>4, <2>5 DEF ReadbacksOf, Runtime!Transitions
    <3>2. \A m \in ReadbacksOf(session[c].id) : m \in Int /\ Runtime!Request(c).expected = m - 2
      BY <2>1, <2>8, LogFacts DEF RuntimeInv, LogSound, EventSound, ReadbacksOf
    <3>3. \A m \in ReadbacksOf(session[c].id) : m - 1 >= g
      BY <2>1, <2>7, <2>8, <3>2, <1>1
    <3> HIDE DEF r, step
    <3> QED BY <3>1, <3>3, <1>1, <2>1, <2>4, <2>5, <2>7, <2>8 DEF VerifySound, Runtime!Command,
               Runtime!Request
  <2>10. Runtime!Command(c) # "verify_delivery" => CommitSound(c)'
    <3> HIDE DEF r, step
    <3> QED BY <2>4, <2>5 DEF CommitSound, Runtime!Command, Runtime!Request
  <2> HIDE DEF r, step
  <2>11. SessionSound(c)'
    BY <1>0, <2>3, <2>4, <2>5, <2>7, <2>9, <2>10
    DEF SessionSound, Runtime!At, Verifying, Runtime!Command, Runtime!Request
  <2> QED BY <1>0, <2>2, <2>4, <2>6, <2>11, ReadStep
<1> QED BY <1>2, <1>3

-----------------------------------------------------------------------------
(* Observing the destination and asking the owner.                         *)

\* A verification that goes on: it may have read the log again since.
LEMMA VerifyStep ==
  ASSUME LogParameters, RuntimeInv, NEW c \in Sessions, Verifying(c), NEW r \in SessionRecords,
         session' = [session EXCEPT ![c] = r], UNCHANGED <<log, asked>>,
         r.at \in {"observing", "reading", "rereading", "reconcile", "transition"},
         r.id = session[c].id, r.request = session[c].request, r.expected = session[c].expected,
         r.generation \in {session[c].generation, Runtime!Generation}
  PROVE  RuntimeInv'
<1>0. session[c].at # "idle"
  BY DEF Verifying
<1>1. Runtime!RuntimeTypeOK'
  BY GotoType DEF RuntimeInv
<1>2. session'[c] = r
  BY DEF RuntimeInv, Runtime!RuntimeTypeOK
<1>3. /\ session[c].generation <= r.generation /\ r.generation < Len(log)
      /\ r.generation \in Nat /\ session[c].generation \in Nat /\ session[c].expected \in Nat
      /\ session[c].id \in Ids /\ Runtime!Request(c) \in Runtime!Requests
  BY <1>0, ActiveFacts, LogFacts DEF RuntimeInv, Runtime!Generation, LogParameters
<1>4. VerifySound(c)
  BY DEF RuntimeInv, SessionSound
<1>5. ReadbacksOf(session[c].id)' = ReadbacksOf(session[c].id)
  BY <1>2 DEF ReadbacksOf, Runtime!Transitions
<1>6. r.expected <= r.generation
  BY <1>3, <1>4 DEF VerifySound
<1>7. VerifySound(c)'
  BY <1>2, <1>4, <1>5, <1>6 DEF VerifySound, Runtime!Command, Runtime!Request
<1>8. CommitSound(c)'
  BY <1>2, <1>4, <1>5, <1>6 DEF VerifySound, CommitSound, Runtime!Command, Runtime!Request
<1>9. SessionSound(c)'
  BY <1>2, <1>3, <1>7, <1>8 DEF SessionSound, Runtime!At, Verifying, Runtime!Request,
     Runtime!Command
<1> QED BY <1>1, <1>9, ReadStep

LEMMA ObserveStep ==
  ASSUME LogParameters, RuntimeInv, NEW c \in Sessions, Runtime!Observe(c)
  PROVE  RuntimeInv'
<1> DEFINE r == [session[c] EXCEPT !.at = "reading", !.generation = Runtime!Generation]
<1>0. session[c].at = "observing" /\ UNCHANGED <<log, asked>>
  BY DEF Runtime!Observe, Runtime!At
<1>1. Runtime!Return(c) \/ session' = [session EXCEPT ![c] = r]
  BY DEF Runtime!Observe
<1>2. /\ r \in SessionRecords /\ r.at = "reading" /\ r.id = session[c].id
      /\ r.request = session[c].request /\ r.expected = session[c].expected
      /\ r.generation = Runtime!Generation
  BY <1>0, ActiveFacts, LogFacts DEF RuntimeInv, SessionRecords, SessionSteps
<1> HIDE DEF r
<1> QED BY <1>0, <1>1, <1>2, ReturnStep, VerifyStep DEF Verifying

LEMMA ReadDestinationStep ==
  ASSUME LogParameters, RuntimeInv, NEW c \in Sessions, Runtime!ReadDestination(c)
  PROVE  RuntimeInv'
<1> DEFINE r == [session[c] EXCEPT !.at = "rereading"]
<1>0. session[c].at = "reading" /\ UNCHANGED <<log, asked>>
  BY DEF Runtime!ReadDestination, Runtime!At
<1>1. Runtime!Return(c) \/ session' = [session EXCEPT ![c] = r]
  BY DEF Runtime!ReadDestination, Runtime!Goto
<1>2. /\ r \in SessionRecords /\ r.at = "rereading" /\ r.id = session[c].id
      /\ r.request = session[c].request /\ r.expected = session[c].expected
      /\ r.generation = session[c].generation
  BY <1>0, ActiveFacts DEF SessionRecords, SessionSteps
<1> HIDE DEF r
<1> QED BY <1>0, <1>1, <1>2, ReturnStep, VerifyStep DEF Verifying

LEMMA RereadStep ==
  ASSUME LogParameters, RuntimeInv, NEW c \in Sessions, Runtime!Reread(c)
  PROVE  RuntimeInv'
<1> DEFINE step == IF session[c].bound.progress = "approved_for_delivery"
                      \/ session[c].bound.blocker # Nothing
                   THEN "reconcile" ELSE "transition"
           r == [session[c] EXCEPT !.bound = Nothing, !.at = step]
<1>0. session[c].at = "rereading" /\ UNCHANGED <<log, asked>>
  BY DEF Runtime!Reread, Runtime!At
<1>1. Runtime!Return(c) \/ session' = [session EXCEPT ![c] = r]
  BY DEF Runtime!Reread
<1>2. step \in {"reconcile", "transition"}
  OBVIOUS
<1> HIDE DEF step
<1>3. /\ r \in SessionRecords /\ r.at = step /\ r.id = session[c].id
      /\ r.request = session[c].request /\ r.expected = session[c].expected
      /\ r.generation = session[c].generation
  BY <1>0, <1>2, ActiveFacts DEF SessionRecords, SessionSteps
<1> HIDE DEF r
<1> QED BY <1>0, <1>1, <1>2, <1>3, ReturnStep, VerifyStep DEF Verifying

LEMMA PrepareStep ==
  ASSUME LogParameters, RuntimeInv, NEW c \in Sessions, Runtime!Prepare(c)
  PROVE  RuntimeInv'
<1> DEFINE r == [session[c] EXCEPT !.at = "asking", !.generation = Runtime!Generation,
                                   !.expected = Runtime!Generation]
<1>0. session[c].at = "preparing" /\ UNCHANGED <<log, asked>>
  BY DEF Runtime!Prepare, Runtime!At
<1>1. Runtime!Return(c) \/ session' = [session EXCEPT ![c] = r]
  BY DEF Runtime!Prepare
<1>2. /\ r \in SessionRecords /\ r.at = "asking" /\ r.id = session[c].id
      /\ r.request = Runtime!Request(c) /\ r.expected = Runtime!Generation
      /\ r.generation = Runtime!Generation
  BY <1>0, ActiveFacts, LogFacts DEF RuntimeInv, SessionRecords, SessionSteps, Runtime!Request
<1>3. Runtime!Command(c) # "verify_delivery"
  BY <1>0 DEF RuntimeInv, SessionSound
<1>4. /\ session[c].id \in Ids /\ Runtime!Request(c) \in Runtime!Requests
      /\ Runtime!Generation <= Runtime!Generation
  BY <1>0, ActiveFacts, LogFacts DEF RuntimeInv, LogParameters
<1> HIDE DEF r
<1> QED BY <1>0, <1>1, <1>2, <1>3, <1>4, ReturnStep, PlainStep DEF Runtime!Command

LEMMA OwnerAnswersStep ==
  ASSUME LogParameters, RuntimeInv, NEW c \in Sessions, Runtime!OwnerAnswers(c)
  PROVE  RuntimeInv'
<1> DEFINE r == [session[c] EXCEPT !.at = "transition"]
<1>0. session[c].at = "asking" /\ UNCHANGED <<log, asked>>
  BY DEF Runtime!OwnerAnswers, Runtime!At
<1>1. session' = [session EXCEPT ![c] = r]
  BY DEF Runtime!OwnerAnswers, Runtime!Goto
<1>2. /\ r \in SessionRecords /\ r.at = "transition" /\ r.id = session[c].id
      /\ r.request = Runtime!Request(c) /\ r.expected = session[c].expected
      /\ r.generation = session[c].generation
  BY <1>0, ActiveFacts DEF SessionRecords, SessionSteps, Runtime!Request
<1>3. /\ SessionSound(c) /\ Runtime!Command(c) # "verify_delivery"
      /\ session[c].expected = session[c].generation
      /\ session[c].id \in Ids /\ Runtime!Request(c) \in Runtime!Requests
  BY <1>0, ActiveFacts DEF RuntimeInv, SessionSound, Runtime!At
<1>4. Runtime!RuntimeTypeOK'
  BY <1>0, <1>1, <1>2, GotoType DEF RuntimeInv
<1>5. session'[c] = r
  BY <1>1 DEF RuntimeInv, Runtime!RuntimeTypeOK
<1> HIDE DEF r
<1>6. SessionSound(c)'
  BY <1>0, <1>2, <1>3, <1>5 DEF SessionSound, Runtime!At, Verifying, CommitSound, Runtime!Command,
     Runtime!Request
<1> QED BY <1>0, <1>1, <1>2, <1>4, <1>6, ReadStep

-----------------------------------------------------------------------------
(* Appending.                                                              *)

RuntimeOps == {"approve_delivery", "revoke_delivery", "reconcile_delivery", "verify_delivery",
               "block", "resume", "cancel", "replan"}

LEMMA ResultType ==
  ASSUME NEW s \in Runtime!WorkStates, NEW op \in RuntimeOps, NEW kind \in Kinds \cup {Nothing},
         Runtime!Admits(s, op)
  PROVE  /\ Runtime!Result(s, op, kind) \in Runtime!WorkStates
         /\ s.progress # "delivery_verified"
         /\ Runtime!Result(s, op, kind).progress = "delivery_verified" <=> op = "verify_delivery"
  BY DEF Runtime!WorkStates, Runtime!WorkProgresses, RuntimeOps, Runtime!Admits, Runtime!Result

\* What an append does to the log.
LEMMA EventAppended ==
  ASSUME LogParameters, RuntimeInv, NEW c \in Sessions, session[c].at # "idle",
         NEW part \in Runtime!Parts, NEW op \in RuntimeOps, Runtime!Admits(Runtime!Current, op),
         Runtime!AppendEvent(c, part, op)
  PROVE  /\ log' \in Seq(Runtime!Events) /\ Len(log') = Len(log) + 1
         /\ Len(log') \in 1..(MaxGeneration + 1)
         /\ LogKept
         /\ Runtime!Transitions' = Runtime!Transitions \cup {Len(log')}
         /\ log'[Len(log')].id = session[c].id /\ log'[Len(log')].part = part
         /\ log'[Len(log')].request = Runtime!Request(c)
         /\ log'[Len(log')].observed = session[c].generation
         /\ log'[Len(log')].state.progress = "delivery_verified" <=> op = "verify_delivery"
         /\ Runtime!Current.progress # "delivery_verified"
<1> DEFINE e == [id |-> session[c].id, part |-> part, request |-> Runtime!Request(c),
                 expected |-> session[c].expected, observed |-> session[c].generation,
                 state |-> Runtime!Result(Runtime!Current, op, Runtime!Request(c).kind)]
<1>1. /\ log \in Seq(Runtime!Events) /\ Len(log) \in Nat /\ Len(log) >= 1
         /\ Runtime!Transitions = 2..Len(log)
      /\ Runtime!Current \in Runtime!WorkStates /\ Runtime!Generation \in 0..MaxGeneration
  BY LogFacts DEF RuntimeInv
<1>2. /\ session[c] \in SessionRecords /\ session[c].id \in Ids
         /\ Runtime!Request(c) \in Runtime!Requests
      /\ Runtime!Request(c).kind \in Kinds \cup {Nothing}
  BY ActiveFacts DEF Runtime!Requests
<1>3. /\ Runtime!Result(Runtime!Current, op, Runtime!Request(c).kind) \in Runtime!WorkStates
      /\ Runtime!Current.progress # "delivery_verified"
      /\ Runtime!Result(Runtime!Current, op, Runtime!Request(c).kind).progress = "delivery_verified"
            <=> op = "verify_delivery"
  BY <1>1, <1>2, ResultType
<1>4. e \in Runtime!Events
  BY <1>2, <1>3 DEF Runtime!Events, SessionRecords
<1>5. log' = Append(log, e) /\ Runtime!Generation < MaxGeneration
  BY DEF Runtime!AppendEvent
<1>6. /\ e.id = session[c].id /\ e.part = part /\ e.request = Runtime!Request(c)
      /\ e.observed = session[c].generation
      /\ e.state.progress = "delivery_verified" <=> op = "verify_delivery"
  BY <1>3
<1> HIDE DEF e
<1>7. /\ log' \in Seq(Runtime!Events) /\ Len(log') = Len(log) + 1 /\ log'[Len(log')] = e
      /\ \A n \in 1..Len(log) : log'[n] = log[n]
  BY <1>1, <1>4, <1>5
<1>8. Len(log') \in 1..(MaxGeneration + 1)
  BY <1>1, <1>5, <1>7 DEF Runtime!Generation, LogParameters
<1>9. Runtime!Transitions' = 2..Len(log')
  BY <1>7 DEF Runtime!Transitions
<1>10. Runtime!Transitions' = Runtime!Transitions \cup {Len(log')}
  BY <1>1, <1>7, <1>9
<1> QED BY <1>1, <1>3, <1>6, <1>7, <1>8, <1>10 DEF LogKept

\* A part of a new identifier, added by a session that knows the end of the log.
LEMMA AppendSound ==
  ASSUME LogParameters, RuntimeInv, NEW c \in Sessions, session[c].at # "idle",
         NEW part \in Runtime!Parts, NEW op \in RuntimeOps, Runtime!MayAppend(c, part, op),
         Runtime!AppendEvent(c, part, op),
         part = "readback" =>
            /\ Runtime!Command(c) = "verify_delivery" /\ op # "verify_delivery"
            /\ Runtime!Request(c).expected = Runtime!Generation
            /\ session[c].generation = Runtime!Generation,
         part = "main" =>
            /\ Runtime!Command(c) = "verify_delivery" <=> op = "verify_delivery"
            /\ Runtime!Command(c) = "verify_delivery" =>
                  \A m \in ReadbacksOf(session[c].id) : m = Len(log)
            /\ \/ session[c].generation = Runtime!Generation
               \/ /\ session[c].generation = Runtime!Generation - 1
                  /\ Len(log) \in ReadbacksOf(session[c].id)
  PROVE  LogSound'
<1>0. PICK k : k = Len(log')
  OBVIOUS
<1>1. /\ Runtime!Admits(Runtime!Current, op) /\ Runtime!EventsOf(session[c].id, part) = {}
  BY DEF Runtime!MayAppend
<1>2. /\ k = Len(log) + 1 /\ LogKept /\ Runtime!Transitions' = Runtime!Transitions \cup {k}
      /\ log'[k].id = session[c].id /\ log'[k].part = part /\ log'[k].request = Runtime!Request(c)
      /\ log'[k].observed = session[c].generation
      /\ log'[k].state.progress = "delivery_verified" <=> op = "verify_delivery"
      /\ Runtime!Current.progress # "delivery_verified"
  BY <1>0, <1>1, EventAppended
<1>3. /\ Len(log) \in Nat /\ Len(log) >= 1 /\ Runtime!Transitions = 2..Len(log)
      /\ DOMAIN log = 1..Len(log) /\ Runtime!Generation = Len(log) - 1
      /\ session[c].id \in Ids /\ session[c].generation \in Nat
  BY LogFacts, ActiveFacts DEF RuntimeInv, Runtime!Generation
<1>4. \A n \in 1..Len(log) : log'[n] = log[n]
  BY <1>2 DEF LogKept
<1>5. \A n \in Runtime!Transitions : EventSound(n) /\ log[n].state.progress # "delivery_verified"
  BY <1>2, <1>3 DEF RuntimeInv, LogSound, EventSound, Runtime!Current
<1>6. \A n \in Runtime!Transitions : ~(log[n].id = session[c].id /\ log[n].part = part)
  BY <1>1, <1>3 DEF Runtime!EventsOf
<1>7. log'[1].id = Nothing /\ log'[1].part = "main" /\ log'[1].state.progress # "delivery_verified"
  BY <1>3, <1>4 DEF RuntimeInv, LogSound
<1>8. ASSUME NEW n \in Runtime!Transitions' PROVE EventSound(n)'
  <2>1. CASE n = k
    <3>1. part = "readback" => Runtime!Request(c).expected = k - 2
      BY <1>2, <1>3
    <3> QED BY <2>1, <3>1, <1>0, <1>2, <1>3 DEF EventSound, Runtime!Parts, Runtime!Command
  <2>2. CASE n \in Runtime!Transitions
    <3>1. log'[n] = log[n]
      BY <2>2, <1>3, <1>4
    <3> QED BY <2>2, <3>1, <1>5 DEF EventSound
  <2> QED BY <2>1, <2>2, <1>2
<1>9. Runtime!AppliedOnce'
  <2> SUFFICES ASSUME NEW m \in Runtime!Transitions', NEW n \in Runtime!Transitions',
                      log'[m].id = log'[n].id, log'[m].part = log'[n].part
               PROVE  m = n
    BY DEF Runtime!AppliedOnce
  <2> QED BY <1>2, <1>3, <1>4, <1>6 DEF RuntimeInv, LogSound, Runtime!AppliedOnce
<1>10. Runtime!HalvesAdjacent'
  <2> SUFFICES ASSUME NEW m \in Runtime!Transitions', NEW n \in Runtime!Transitions',
                      log'[m].id = log'[n].id, log'[m].part = "readback",
                      log'[n].part = "main", log'[n].request.command = "verify_delivery"
               PROVE  n = m + 1
    BY DEF Runtime!HalvesAdjacent
  <2>1. CASE n = k
    <3>1. m # k /\ part = "main" /\ Runtime!Command(c) = "verify_delivery"
      BY <2>1, <1>2 DEF Runtime!Command
    <3>2. m \in ReadbacksOf(session[c].id)
      <4>1. m \in Runtime!Transitions /\ m \in 1..Len(log) /\ log'[m] = log[m]
        BY <3>1, <1>2, <1>3, <1>4
      <4>2. log[m].id = session[c].id /\ log[m].part = "readback"
        BY <2>1, <1>2, <4>1
      <4> QED BY <4>1, <4>2 DEF ReadbacksOf
    <3> QED BY <2>1, <3>1, <3>2, <1>2
  <2>2. CASE n # k
    <3>1. n \in Runtime!Transitions /\ log'[n] = log[n]
      BY <2>2, <1>2, <1>3, <1>4
    <3>2. log[n].state.progress = "delivery_verified"
      BY <3>1, <1>5 DEF EventSound
    <3> QED BY <3>1, <3>2, <1>5
  <2> QED BY <2>1, <2>2
<1>11. Runtime!DecidedOnCurrent'
  <2> SUFFICES ASSUME NEW n \in Runtime!Transitions'
               PROVE  log'[n].observed = n - 2 \/ (Runtime!OwnHalf(n)' /\ log'[n].observed = n - 3)
    BY DEF Runtime!DecidedOnCurrent
  <2>1. CASE n = k
    <3>1. CASE session[c].generation = Runtime!Generation
      <4>1. session[c].generation = k - 2
        BY <3>1, <1>2, <1>3
      <4> QED BY <2>1, <4>1, <1>2
    <3>2. CASE session[c].generation # Runtime!Generation
      <4>1. session[c].generation = Runtime!Generation - 1 /\ Len(log) \in ReadbacksOf(session[c].id)
        BY <3>2 DEF Runtime!Parts
      <4>2. Len(log) \in Runtime!Transitions /\ log[Len(log)].part = "readback"
            /\ log[Len(log)].id = session[c].id
        BY <4>1 DEF ReadbacksOf
      <4>3. k - 1 = Len(log)
        BY <1>2, <1>3
      <4>4. log'[Len(log)] = log[Len(log)]
        BY <1>3, <1>4
      <4>5. Runtime!OwnHalf(k)'
        BY <4>2, <4>3, <4>4, <1>2 DEF Runtime!OwnHalf
      <4>6. session[c].generation = (Len(log) - 1) - 1
        BY <4>1 DEF Runtime!Generation
      <4>7. session[c].generation = k - 3
        <5>1. k = Len(log) + 1 /\ Len(log) \in Nat
          BY <1>2, <1>3
        <5>2. \A l \in Nat : (l - 1) - 1 = (l + 1) - 3
          OBVIOUS
        <5> QED BY <5>1, <5>2, <4>6
      <4> QED BY <2>1, <4>5, <4>7, <1>2
    <3> QED BY <3>1, <3>2
  <2>2. CASE n \in Runtime!Transitions
    <3>1. log[n].observed = n - 2 \/ (Runtime!OwnHalf(n) /\ log[n].observed = n - 3)
      BY <2>2 DEF RuntimeInv, LogSound, Runtime!DecidedOnCurrent
    <3>2. log'[n] = log[n]
      BY <2>2, <1>3, <1>4
    <3>3. Runtime!OwnHalf(n) => Runtime!OwnHalf(n)'
      BY <1>2, <1>3, <1>4, <3>2 DEF Runtime!OwnHalf
    <3> QED BY <3>1, <3>2, <3>3
  <2> QED BY <2>1, <2>2, <1>2
<1> QED BY <1>7, <1>8, <1>9, <1>10, <1>11 DEF LogSound


\* The readback half: only a verification that has seen the whole log gets here.
LEMMA ReconcileStep ==
  ASSUME LogParameters, RuntimeInv, NEW c \in Sessions, Runtime!Reconcile(c)
  PROVE  RuntimeInv'
<1>0. session[c].at = "reconcile" /\ UNCHANGED asked
  BY DEF Runtime!Reconcile, Runtime!At
<1>1. CASE Runtime!Return(c) /\ UNCHANGED log
  BY <1>0, <1>1, ReturnStep
<1>2. CASE ~(Runtime!Return(c) /\ UNCHANGED log)
  <2> DEFINE r == [session[c] EXCEPT !.at = "transition", !.expected = Runtime!Generation + 1]
  <2>1. /\ Runtime!MayAppend(c, "readback", "reconcile_delivery")
        /\ Runtime!AppendEvent(c, "readback", "reconcile_delivery")
        /\ session' = [session EXCEPT ![c] = r]
    BY <1>2 DEF Runtime!Reconcile
  <2>2. /\ Runtime!Admits(Runtime!Current, "reconcile_delivery")
           /\ Runtime!Generation = session[c].expected
        /\ Runtime!EventsOf(session[c].id, "readback") = {}
    BY <2>1 DEF Runtime!MayAppend
  <2>3. SessionSound(c) /\ VerifySound(c)
    BY <1>0 DEF RuntimeInv, SessionSound, Verifying
  <2>4. /\ session[c] \in SessionRecords /\ session[c].id \in Ids
           /\ Runtime!Request(c) \in Runtime!Requests
        /\ session[c].generation \in Nat /\ session[c].generation <= Runtime!Generation
        /\ ReadbacksOf(session[c].id) = {}
    BY <1>0, <2>2, ActiveFacts
  <2>5. Runtime!Generation \in Nat /\ Len(log) \in Nat /\ Runtime!Generation = Len(log) - 1
    BY LogFacts DEF RuntimeInv, LogParameters, Runtime!Generation
  <2>6. /\ Runtime!Command(c) = "verify_delivery"
           /\ Runtime!Request(c).expected = Runtime!Generation
        /\ session[c].generation = Runtime!Generation
    BY <2>2, <2>3, <2>4, <2>5 DEF VerifySound
  <2>7. /\ log' \in Seq(Runtime!Events) /\ Len(log') = Len(log) + 1 /\ LogKept
        /\ Len(log') \in 1..(MaxGeneration + 1)
        /\ Runtime!Transitions' = Runtime!Transitions \cup {Len(log')}
        /\ log'[Len(log')].id = session[c].id /\ log'[Len(log')].part = "readback"
    BY <1>0, <2>1, <2>2, EventAppended DEF RuntimeOps, Runtime!Parts
  <2>8. LogSound'
    BY <1>0, <2>1, <2>6, AppendSound DEF RuntimeOps, Runtime!Parts
  <2>9. Runtime!Generation + 1 \in 0..MaxGeneration
    BY <2>1, <2>5 DEF Runtime!AppendEvent, LogParameters
  <2>10. /\ r \in SessionRecords /\ r.at = "transition" /\ r.id = session[c].id
         /\ r.request = Runtime!Request(c) /\ r.generation = Runtime!Generation
            /\ r.expected = Runtime!Generation + 1
    BY <2>4, <2>6, <2>9 DEF SessionRecords, SessionSteps, Runtime!Request
  <2> HIDE DEF r
  <2>11. Runtime!RuntimeTypeOK'
    BY <1>0, <2>1, <2>7, <2>10 DEF RuntimeInv, Runtime!RuntimeTypeOK, SessionRecords, SessionSteps
  <2>12. session'[c] = r
    BY <2>1 DEF RuntimeInv, Runtime!RuntimeTypeOK
  <2>13. SessionSound(c)'
    <3>1. \A m \in ReadbacksOf(session[c].id)' : m = Len(log')
      <4> SUFFICES ASSUME NEW m \in ReadbacksOf(session[c].id)' PROVE m = Len(log')
        OBVIOUS
      <4>1. m \in Runtime!Transitions' /\ log'[m].id = r.id /\ log'[m].part = "readback"
        BY <2>12, <2>10 DEF ReadbacksOf
      <4>2. CASE m \in Runtime!Transitions
        <5>1. log'[m] = log[m]
          BY <4>2, <2>7, LogFacts DEF RuntimeInv, LogKept
        <5> QED BY <4>1, <4>2, <5>1, <2>4, <2>10 DEF ReadbacksOf
      <4> QED BY <4>1, <4>2, <2>7
    <3>2. Len(log') \in ReadbacksOf(session[c].id)'
      BY <2>7, <2>10, <2>12 DEF ReadbacksOf
    <3>3. CommitSound(c)'
      BY <3>1, <3>2, <2>5, <2>6, <2>7, <2>10, <2>12 DEF CommitSound, Runtime!Command,
         Runtime!Request
    <3>4. r.generation < Len(log')
      BY <2>5, <2>7, <2>10
    <3> QED BY <3>3, <3>4, <2>4, <2>10, <2>12 DEF SessionSound, Runtime!At, Verifying
  <2>14. ASSUME NEW d \in Sessions PROVE SessionSound(d)'
    <3>1. CASE d = c
      BY <3>1, <2>13
    <3>2. CASE d # c
      <4>1. session'[d] = session[d]
        BY <3>2, <2>1 DEF RuntimeInv, Runtime!RuntimeTypeOK
      <4> QED BY <4>1, <2>7, <2>11, StaysSound DEF RuntimeInv
    <3> QED BY <3>1, <3>2
  <2> QED BY <2>8, <2>11, <2>14 DEF RuntimeInv
<1> QED BY <1>1, <1>2

LEMMA TransitionStep ==
  ASSUME LogParameters, RuntimeInv, NEW c \in Sessions, Runtime!Transition(c)
  PROVE  RuntimeInv'
<1> DEFINE op == Runtime!Operation(Runtime!Command(c))
           same == {n \in Runtime!EventsOf(session[c].id, "main") : Runtime!SameTransition(log[n], c)}
<1>0. session[c].at = "transition" /\ UNCHANGED asked
  BY DEF Runtime!Transition, Runtime!At
<1>1. CASE Runtime!Return(c) /\ UNCHANGED log
  BY <1>0, <1>1, ReturnStep
<1>2. CASE \E n \in same : Runtime!Receive(c, n - 1) /\ UNCHANGED log
  <2>1. PICK n \in same : Runtime!Receive(c, n - 1) /\ UNCHANGED log
    BY <1>2
  <2> QED BY <1>0, <2>1, AnswersEvent DEF Runtime!SameTransition
<1>3. CASE /\ Runtime!MayAppend(c, "main", op) /\ Runtime!AppendEvent(c, "main", op)
           /\ Runtime!Receive(c, Runtime!Generation + 1)
  <2> DEFINE r == [Runtime!Idle EXCEPT !.at = "answering", !.id = session[c].id,
                       !.request = session[c].request, !.generation = Runtime!Generation + 1]
  <2>1. session' = [session EXCEPT ![c] = r]
    BY <1>3 DEF Runtime!Receive
  <2>2. /\ Runtime!Admits(Runtime!Current, op) /\ Runtime!Generation = session[c].expected
    BY <1>3 DEF Runtime!MayAppend
  <2>3. SessionSound(c) /\ CommitSound(c)
    BY <1>0 DEF RuntimeInv, SessionSound, Runtime!At
  <2>4. /\ session[c] \in SessionRecords /\ session[c].id \in Ids
           /\ Runtime!Request(c) \in Runtime!Requests
        /\ session[c].generation \in Nat /\ session[c].generation <= Runtime!Generation
    BY <1>0, ActiveFacts
  <2>5. Runtime!Generation \in Nat /\ Len(log) \in Nat /\ Runtime!Generation = Len(log) - 1
    BY LogFacts DEF RuntimeInv, LogParameters, Runtime!Generation
  <2>6. op \in RuntimeOps /\ (Runtime!Command(c) = "verify_delivery" <=> op = "verify_delivery")
    <3>1. Runtime!Command(c) \in Commands
      BY <2>4 DEF Runtime!Command, Runtime!Requests
    <3> QED BY <3>1 DEF Runtime!Operation, RuntimeOps, LogParameters
  <2> HIDE DEF op
  <2>7. Runtime!Command(c) = "verify_delivery" => \A m \in ReadbacksOf(session[c].id) : m = Len(log)
    <3> SUFFICES ASSUME Runtime!Command(c) = "verify_delivery", NEW m \in ReadbacksOf(session[c].id)
                 PROVE  m = Len(log)
      OBVIOUS
    <3>1. m - 1 >= session[c].expected
      BY <2>3 DEF CommitSound
    <3>2. m \in 2..Len(log)
      BY LogFacts DEF RuntimeInv, ReadbacksOf
    <3> QED BY <3>1, <3>2, <2>2, <2>5
  <2>8. \/ session[c].generation = Runtime!Generation
        \/ /\ session[c].generation = Runtime!Generation - 1
           /\ Len(log) \in ReadbacksOf(session[c].id)
    <3>1. CASE Runtime!Command(c) # "verify_delivery"
      BY <3>1, <2>2, <2>3 DEF CommitSound
    <3>2. CASE session[c].expected <= session[c].generation
      BY <3>2, <2>2, <2>4, <2>5
    <3>3. CASE /\ session[c].expected = session[c].generation + 1
               /\ session[c].expected + 1 \in ReadbacksOf(session[c].id)
      BY <3>3, <2>2, <2>4, <2>5
    <3> QED BY <3>1, <3>2, <3>3, <2>3 DEF CommitSound
  <2>9. /\ log' \in Seq(Runtime!Events) /\ Len(log') = Len(log) + 1 /\ LogKept
        /\ Len(log') \in 1..(MaxGeneration + 1)
        /\ Runtime!Transitions' = Runtime!Transitions \cup {Len(log')}
        /\ log'[Len(log')].id = session[c].id /\ log'[Len(log')].part = "main"
        /\ log'[Len(log')].request = Runtime!Request(c)
    BY <1>0, <1>3, <2>2, <2>6, EventAppended DEF Runtime!Parts
  <2>10. LogSound'
    BY <1>0, <1>3, <2>6, <2>7, <2>8, AppendSound DEF Runtime!Parts
  <2>11. Runtime!Generation + 1 \in 0..MaxGeneration
    BY <1>3, <2>5 DEF Runtime!AppendEvent, LogParameters
  <2>12. /\ r \in SessionRecords /\ r.at = "answering" /\ r.id = session[c].id
         /\ r.request = Runtime!Request(c) /\ r.generation = Runtime!Generation + 1
    BY <2>4, <2>11, IdleRecord DEF SessionRecords, SessionSteps, Runtime!Request
  <2> HIDE DEF r
  <2>13. Runtime!RuntimeTypeOK'
    BY <1>0, <2>1, <2>9, <2>12 DEF RuntimeInv, Runtime!RuntimeTypeOK, SessionRecords, SessionSteps
  <2>14. session'[c] = r
    BY <2>1 DEF RuntimeInv, Runtime!RuntimeTypeOK
  <2>15. r.generation + 1 = Len(log') /\ r.generation < Len(log')
    BY <2>5, <2>9, <2>12
  <2>16. SessionSound(c)'
    <3>1. AnswerSound(c)'
      BY <2>9, <2>12, <2>14, <2>15 DEF AnswerSound, Runtime!Request
    <3> QED BY <3>1, <2>4, <2>12, <2>14, <2>15 DEF SessionSound, Runtime!At, Verifying
  <2>17. ASSUME NEW d \in Sessions PROVE SessionSound(d)'
    <3>1. CASE d = c
      BY <3>1, <2>16
    <3>2. CASE d # c
      <4>1. session'[d] = session[d]
        BY <3>2, <2>1 DEF RuntimeInv, Runtime!RuntimeTypeOK
      <4> QED BY <4>1, <2>9, <2>13, StaysSound DEF RuntimeInv
    <3> QED BY <3>1, <3>2
  <2> QED BY <2>10, <2>13, <2>17 DEF RuntimeInv
<1> QED BY <1>1, <1>2, <1>3 DEF Runtime!Transition

-----------------------------------------------------------------------------

LEMMA RuntimeInvInit ==
  ASSUME LogParameters, Runtime!Init
  PROVE  RuntimeInv
<1>1. Runtime!RuntimeTypeOK
  BY RuntimeTypeInit
<1>2. Len(log) = 1 /\ Runtime!Transitions = {}
  BY DEF Runtime!Init, Runtime!Transitions
<1>3. log[1].id = Nothing /\ log[1].part = "main" /\ log[1].state.progress # "delivery_verified"
  BY DEF Runtime!Init
<1>4. LogSound
  BY <1>2, <1>3 DEF LogSound, Runtime!AppliedOnce, Runtime!HalvesAdjacent, Runtime!DecidedOnCurrent
<1>5. \A c \in Sessions : SessionSound(c)
  BY <1>2, IdleRecord DEF Runtime!Init, SessionSound, Runtime!At, Verifying
<1> QED BY <1>1, <1>4, <1>5 DEF RuntimeInv

LEMMA RuntimeInvStep ==
  ASSUME LogParameters, RuntimeInv, [Runtime!Next]_(Runtime!vars)
  PROVE  RuntimeInv'
<1>1. CASE UNCHANGED Runtime!vars
  <2>1. Runtime!RuntimeTypeOK' /\ LogKept
    BY <1>1, LogFacts DEF Runtime!vars, RuntimeInv, Runtime!RuntimeTypeOK, LogKept
  <2>2. LogSound'
    BY <1>1 DEF Runtime!vars, RuntimeInv, LogSound, EventSound, Runtime!AppliedOnce,
       Runtime!HalvesAdjacent, Runtime!DecidedOnCurrent,
         Runtime!OwnHalf, Runtime!Transitions
  <2>3. \A c \in Sessions : SessionSound(c)'
    BY <1>1, <2>1, StaysSound DEF Runtime!vars, RuntimeInv
  <2> QED BY <2>1, <2>2, <2>3 DEF RuntimeInv
<1>2. ASSUME NEW c \in Sessions, Runtime!Begins(c) PROVE RuntimeInv'
  BY <1>2, CallStep, ReplayStep, BindStep, CheckStep DEF Runtime!Begins
<1>3. ASSUME NEW c \in Sessions, Runtime!Observes(c) PROVE RuntimeInv'
  BY <1>3, ObserveStep, ReadDestinationStep, RereadStep DEF Runtime!Observes
<1>4. ASSUME NEW c \in Sessions, Runtime!AsksOwner(c) PROVE RuntimeInv'
  BY <1>4, PrepareStep, OwnerAnswersStep, ReturnStep DEF Runtime!AsksOwner, Runtime!OwnerDoesNot
<1>5. ASSUME NEW c \in Sessions, Runtime!Commits(c) PROVE RuntimeInv'
  BY <1>5, ReconcileStep, TransitionStep DEF Runtime!Commits
<1>6. ASSUME NEW c \in Sessions, Runtime!Ends(c) PROVE RuntimeInv'
  BY <1>6, ReturnStep DEF Runtime!Ends, Runtime!Answer, Runtime!Crash
<1> QED BY <1>1, <1>2, <1>3, <1>4, <1>5, <1>6 DEF Runtime!Next

LEMMA RuntimeInvHolds == ASSUME LogParameters PROVE Runtime!Spec => []RuntimeInv
<1>1. Runtime!Init => RuntimeInv
  BY RuntimeInvInit
<1>2. RuntimeInv /\ [Runtime!Next]_(Runtime!vars) => RuntimeInv'
  BY RuntimeInvStep
<1> QED BY <1>1, <1>2, PTL DEF Runtime!Spec

\* However often a request is sent again, by whichever sessions, and wherever one
\* ends: it changes the workflow once, its two transactions stay adjacent, and what
\* is reported as done was done for it (workflow_action, transition_workflow).
THEOREM RetriesSafe == Runtime!Spec => []RetriesAreSafe
<1>1. RuntimeInv => RetriesAreSafe
  <2>1. RuntimeInv => Runtime!RetriesAreSafe
    BY DEF RuntimeInv, LogSound, Runtime!RetriesAreSafe, Runtime!AnswersTrue, SessionSound,
       AnswerSound
  <2>2. Runtime!RetriesAreSafe => RetriesAreSafe
    BY DEF Runtime!RetriesAreSafe, Runtime!AppliedOnce, Runtime!HalvesAdjacent, Runtime!AnswersTrue,
           Runtime!Transitions, Runtime!At, Runtime!Request,
           RetriesAreSafe, AppliedOnce, HalvesAdjacent, AnswersTrue, Transitions, At, Request
  <2> QED BY <2>1, <2>2
<1> QED BY <1>1, RuntimeInvHolds, LogAssumption, PTL

\* A transition is applied to the very generation it was decided on, the minutes an
\* owner takes to answer included (prepare_delivery, transition_workflow).
THEOREM DecidedOnWhatWasSeen == Runtime!Spec => []DecidedOnCurrent
<1>1. RuntimeInv => DecidedOnCurrent
  <2>1. RuntimeInv => Runtime!DecidedOnCurrent
    BY DEF RuntimeInv, LogSound
  <2>2. Runtime!DecidedOnCurrent => DecidedOnCurrent
    BY DEF Runtime!DecidedOnCurrent, Runtime!OwnHalf, Runtime!Transitions,
           DecidedOnCurrent, OwnHalf, Transitions
  <2> QED BY <2>1, <2>2
<1> QED BY <1>1, RuntimeInvHolds, LogAssumption, PTL

\* The log and the sessions keep the shapes the commands rely on, and a session's
\* generation is one the log has or had (bound_workflow, replay_public_request).
THEOREM RuntimeTypeCorrect == Runtime!Spec => []RuntimeTypeOK
<1>1. RuntimeInv => RuntimeTypeOK
  <2>1. RuntimeInv => Runtime!RuntimeTypeOK
    BY DEF RuntimeInv
  <2>2. Runtime!RuntimeTypeOK => RuntimeTypeOK
    BY DEF Runtime!RuntimeTypeOK, Runtime!Events, Runtime!Requests, Runtime!WorkStates,
           Runtime!WorkProgresses, Runtime!Parts,
           RuntimeTypeOK, Events, Requests, WorkStates, WorkProgresses, Parts
  <2> QED BY <2>1, <2>2
<1> QED BY <1>1, RuntimeInvHolds, LogAssumption, PTL
=============================================================================
