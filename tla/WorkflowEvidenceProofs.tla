----------------------- MODULE WorkflowEvidenceProofs -----------------------
(***************************************************************************)
(* What the operations collect holds for any number of tasks, callers,     *)
(* files and edits.                                                        *)
(*                                                                         *)
(* The invariant says of every operation under way that what it has read   *)
(* still holds, or shows that it does not: a commit ends the others, and   *)
(* the tasks and edits that are left only ever grow.                       *)
(***************************************************************************)
EXTENDS WorkflowEvidence, TLAPS

\* The files are those the task started from, but for the planned ones.
InPlan(files, t) == \A f \in Files \ PathsOf[wf.plan] : files[f] = task[t].base[f]

CandidateSound ==
    /\ wf.progress \in {"implemented", "qualified"} => wf.candidate # None
    /\ wf.candidate # None =>
         /\ wf.candidate.producer \in Producers
         /\ Accepted(wf.candidate.producer)
         /\ Accepted(wf.candidate.baseline_task)
         /\ InPlan(wf.candidate.tree, wf.candidate.baseline_task)

\* t reviews the candidate for itself or was accepted for it.
ReviewsCandidate(t) ==
    /\ wf.candidate # None
    /\ MayReview(t)
    /\ t # wf.candidate.producer => Accepted(t) /\ task[t].subject = wf.candidate

CaptureSound(c) ==
    At(c, "implemented") =>
        /\ op[c].task \in Producers
        /\ Supersedable(op[c].task)
        /\ op[c].seen # None => InPlan(op[c].seen, BaselineTask(op[c].task))

TestSound(c) ==
    At(c, "test") /\ op[c].verdict # None /\ ~op[c].moved =>
        (op[c].verdict = "satisfied") = (tree \in Passing[wf.plan])

ReviewSound(c) ==
    At(c, "review") => op[c].verdict # None /\ ReviewsCandidate(op[c].task)

QualifySound(c) == At(c, "qualify") => wf.candidate # None /\ Completed(wf.candidate.producer)

OperationSound(c) ==
    /\ op[c] # None => Accepted(op[c].task)
    /\ CaptureSound(c) /\ TestSound(c) /\ ReviewSound(c) /\ QualifySound(c)

Inv ==
    /\ TypeOK
    /\ CandidateSound
    /\ wf.review # None => ReviewsCandidate(wf.review.reviewer)
    /\ wf.progress = "qualified" =>
          /\ Completed(wf.candidate.producer)
          /\ wf.review # None
    /\ \A c \in Callers : OperationSound(c)

\* Steps that leave the workflow and the operations alone; accepted tasks keep what
\* they were accepted with, and closed ones stay closed.
TasksGrow ==
    \A t \in Tasks : Accepted(t) =>
        /\ task'[t] # None
        /\ task'[t].base = task[t].base
        /\ task'[t].subject = task[t].subject
        /\ Finished(t) => task'[t].life \in {"recorded", "completed", "ended"}
        /\ Completed(t) => task'[t].life = "completed"

-----------------------------------------------------------------------------
(* Types.                                                                  *)

LEMMA OpType ==
  ASSUME TypeOK, NEW c \in Callers, op[c] # None
  PROVE  op[c] \in Operations
  BY DEF TypeOK

LEMMA TaskType ==
  ASSUME TypeOK, NEW t \in Tasks, Accepted(t)
  PROVE  task[t] \in AcceptedTasks
  BY DEF TypeOK, Accepted

LEMMA WfType ==
  ASSUME TypeOK
  PROVE  /\ wf \in States /\ wf.plan \in Plans
         /\ wf.candidate # None => wf.candidate \in Candidates
         /\ wf.review # None => wf.review \in Reviews
  BY DEF TypeOK, States

LEMMA BaselineType ==
  ASSUME TypeOK, NEW t \in Tasks
  PROVE  BaselineTask(t) \in Tasks
  BY WfType DEF BaselineTask, Candidates

\* A new operation, or one that went on.
LEMMA BeginType ==
  ASSUME TypeOK, NEW c \in Callers, NEW t \in Tasks,
         NEW kind \in {"accept_plan", "implemented", "test", "review", "qualify"},
         NEW verdict \in Verdicts \cup {None}, Begin(c, kind, t, verdict)
  PROVE  TypeOK'
<1>1. Operation(kind, t, verdict) \in Operations
  BY DEF Operation, Operations
<1>2. op' \in [Callers -> Operations \cup {None}]
  BY <1>1 DEF Begin, TypeOK
<1> QED BY <1>2 DEF Begin, TypeOK

LEMMA CommitType ==
  ASSUME TypeOK, NEW c \in Callers, NEW state \in States, Commit(c, state)
  PROVE  TypeOK'
  BY DEF Commit, TypeOK

LEMMA TypeInit ==
  ASSUME Init
  PROVE  TypeOK
  BY EvidenceAssumption DEF Init, TypeOK, States

LEMMA TurnStep ==
  ASSUME TypeOK, NEW t \in Tasks, NEW from, NEW to \in Lives, Turn(t, from, to),
         "completed" \notin from,
         "recorded" \in from => to \in {"completed", "ended"},
         "ended" \notin from
  PROVE  TypeOK' /\ TasksGrow
<1>1. task[t] \in AcceptedTasks
  BY TaskType DEF Turn
<1>2. task' = [task EXCEPT ![t] = [task[t] EXCEPT !.life = to]]
  BY DEF Turn
<1>3. [task[t] EXCEPT !.life = to] \in AcceptedTasks
  BY <1>1 DEF AcceptedTasks
<1>4. task' \in [Tasks -> AcceptedTasks \cup {None}]
  BY <1>2, <1>3 DEF TypeOK
<1>5. TypeOK'
  BY <1>4 DEF Turn, TypeOK
<1>6. TasksGrow
  <2> SUFFICES ASSUME NEW s \in Tasks, Accepted(s)
               PROVE  /\ task'[s] # None
                      /\ task'[s].base = task[s].base
                      /\ task'[s].subject = task[s].subject
                      /\ Finished(s) => task'[s].life \in {"recorded", "completed", "ended"}
                      /\ Completed(s) => task'[s].life = "completed"
    BY DEF TasksGrow
  <2>1. CASE s # t
    BY <2>1, <1>2 DEF TypeOK, Accepted, Finished, Completed
  <2>2. CASE s = t
    <3>1. task'[s] = [task[t] EXCEPT !.life = to]
      BY <2>2, <1>2 DEF TypeOK
    <3>2. task'[s] # None
      BY <3>1, <1>3, EvidenceAssumption
    <3>3. task'[s].base = task[s].base /\ task'[s].subject = task[s].subject
          /\ task'[s].life = to
      BY <3>1, <1>1, <2>2 DEF AcceptedTasks
    <3> QED BY <2>2, <3>2, <3>3 DEF Turn, Finished, Completed
  <2> QED BY <2>1, <2>2
<1> QED BY <1>5, <1>6

LEMMA AcceptStep ==
  ASSUME TypeOK, NEW t \in Tasks, ~Accepted(t), NEW subject \in Candidates \cup {None},
         task' = [task EXCEPT ![t] = NewTask(subject)],
         UNCHANGED <<tree, edits, wf, op>>
  PROVE  TypeOK' /\ TasksGrow
<1>1. NewTask(subject) \in AcceptedTasks
  BY WfType DEF NewTask, AcceptedTasks, Lives, TypeOK
<1>2. task' \in [Tasks -> AcceptedTasks \cup {None}]
  BY <1>1 DEF TypeOK
<1>3. TypeOK'
  BY <1>2 DEF TypeOK
<1>4. \A s \in Tasks : Accepted(s) => task'[s] = task[s]
  BY DEF Accepted, TypeOK
<1>5. TasksGrow
  BY <1>4 DEF TasksGrow, Accepted, Finished, Completed
<1> QED BY <1>3, <1>5

LEMMA LifetimeStep ==
  ASSUME Inv, NEW t \in Tasks,
         \/ AcceptProducer(t) \/ AcceptReviewer(t)
         \/ Freeze(t) \/ Complete(t) \/ Close(t) \/ End(t)
  PROVE  TypeOK' /\ TasksGrow /\ UNCHANGED <<tree, edits, wf, op>>
<1> USE DEF Inv
<1>1. CASE AcceptProducer(t)
  BY <1>1, AcceptStep DEF AcceptProducer
<1>2. CASE AcceptReviewer(t)
  <2>1. wf.candidate \in Candidates
    BY <1>2, WfType DEF AcceptReviewer, CandidateSound
  <2> QED BY <1>2, <2>1, AcceptStep DEF AcceptReviewer
<1>3. CASE Freeze(t)
  BY <1>3, TurnStep DEF Freeze, Lives, Turn
<1>4. CASE Complete(t)
  BY <1>4, TurnStep DEF Complete, Lives, Turn
<1>5. CASE Close(t)
  BY <1>5, TurnStep DEF Close, Lives, Turn
<1>6. CASE End(t)
  BY <1>6, TurnStep DEF End, Lives, Turn
<1> QED BY <1>1, <1>2, <1>3, <1>4, <1>5, <1>6

-----------------------------------------------------------------------------
(* The invariant.                                                          *)

\* What holds of an operation holds while the tasks grow.
LEMMA GrowKeeps ==
  ASSUME Inv, TypeOK', TasksGrow, UNCHANGED <<tree, edits, wf, op>>
  PROVE  Inv'
<1> USE DEF Inv
<1>1. \A t \in Tasks : Accepted(t) => Accepted(t)' /\ (Finished(t) => Finished(t)')
                                      /\ (Completed(t) => Completed(t)')
  BY DEF TasksGrow, Accepted, Finished, Completed
<1>2. ASSUME NEW t \in Tasks, Accepted(t), NEW files, InPlan(files, t)
      PROVE  InPlan(files, t)'
  BY <1>2 DEF InPlan, TasksGrow
<1>3. ASSUME NEW t \in Tasks
      PROVE  BaselineTask(t)' = BaselineTask(t) /\ (Supersedable(t) => Supersedable(t)')
  BY <1>1, WfType DEF BaselineTask, Supersedable, Candidates, CandidateSound
<1>4. CandidateSound'
  BY <1>1, <1>2, WfType DEF CandidateSound, Candidates
<1>5. ASSUME NEW t \in Tasks, ReviewsCandidate(t)
      PROVE  ReviewsCandidate(t)'
  BY <1>1, <1>5 DEF ReviewsCandidate, MayReview, TasksGrow
<1>6. wf'.review # None => ReviewsCandidate(wf.review.reviewer)'
  BY <1>5, WfType DEF Reviews
<1>7. wf'.progress = "qualified" => Completed(wf.candidate.producer)' /\ wf'.review # None
  BY <1>1, WfType DEF CandidateSound, Candidates
<1>8. ASSUME NEW c \in Callers
      PROVE  OperationSound(c)'
  <2>1. OperationSound(c)
    OBVIOUS
  <2>2. CASE op[c] = None
    BY <2>2 DEF OperationSound, CaptureSound, TestSound, ReviewSound, QualifySound, At
  <2>3. CASE op[c] # None
    <3>1. op[c].task \in Tasks
      BY <2>3, OpType DEF Operations
    <3>2. (op[c] # None => Accepted(op[c].task))'
      BY <1>1, <2>1, <3>1 DEF OperationSound
    <3>3. CaptureSound(c)'
      <4>1. At(c, "implemented") /\ op[c].seen # None =>
               /\ BaselineTask(op[c].task) \in Tasks
               /\ Accepted(BaselineTask(op[c].task))
        BY <2>1, <3>1, BaselineType DEF OperationSound, CandidateSound, BaselineTask, At
      <4> QED BY <1>2, <1>3, <2>1, <3>1, <4>1 DEF OperationSound, CaptureSound, At
    <3>4. TestSound(c)'
      BY <2>1 DEF OperationSound, TestSound, At
    <3>5. ReviewSound(c)'
      BY <1>5, <2>1, <3>1 DEF OperationSound, ReviewSound, At
    <3>6. QualifySound(c)'
      BY <1>1, <2>1, WfType DEF OperationSound, QualifySound, At, Candidates, CandidateSound
    <3> QED BY <3>2, <3>3, <3>4, <3>5, <3>6 DEF OperationSound
  <2> QED BY <2>2, <2>3
<1> QED BY <1>4, <1>6, <1>7, <1>8

\* A step of one operation leaves what is retained, and the other operations.
LEMMA OperationKeeps ==
  ASSUME Inv, TypeOK', NEW c \in Callers, UNCHANGED <<tree, edits, task, wf>>,
         \A d \in Callers \ {c} : op'[d] = op[d],
         OperationSound(c)'
  PROVE  Inv'
<1> USE DEF Inv
<1>1. CandidateSound'
  BY DEF CandidateSound, InPlan, Accepted
<1>2. wf'.review # None => ReviewsCandidate(wf.review.reviewer)'
  BY DEF ReviewsCandidate, MayReview, Accepted
<1>3. wf'.progress = "qualified" => Completed(wf.candidate.producer)' /\ wf'.review # None
  BY DEF Completed
<1>4. ASSUME NEW d \in Callers
      PROVE  OperationSound(d)'
  <2>1. CASE d = c
    BY <2>1
  <2>2. CASE d # c
    <3>1. op'[d] = op[d] /\ OperationSound(d)
      BY <2>2
    <3>2. CaptureSound(d)'
      BY <3>1 DEF OperationSound, CaptureSound, At, Supersedable, Finished, InPlan, BaselineTask
    <3>3. TestSound(d)'
      BY <3>1 DEF OperationSound, TestSound, At
    <3>4. ReviewSound(d)'
      BY <3>1 DEF OperationSound, ReviewSound, At, ReviewsCandidate, MayReview, Accepted
    <3>5. QualifySound(d)'
      BY <3>1 DEF OperationSound, QualifySound, At, Completed
    <3> QED BY <3>1, <3>2, <3>3, <3>4, <3>5 DEF OperationSound, Accepted
  <2> QED BY <2>1, <2>2
<1> QED BY <1>1, <1>2, <1>3, <1>4

\* A commit ends every operation.
LEMMA CommitKeeps ==
  ASSUME Inv, NEW state \in States,
         wf' = state, op' = [d \in Callers |-> None], UNCHANGED <<tree, edits, task>>,
         CandidateSound',
         wf'.review # None => ReviewsCandidate(wf.review.reviewer)',
         wf'.progress = "qualified" => Completed(wf.candidate.producer)' /\ wf'.review # None
  PROVE  Inv'
<1>1. TypeOK'
  BY DEF Inv, TypeOK
<1>2. \A c \in Callers : OperationSound(c)'
  BY DEF OperationSound, CaptureSound, TestSound, ReviewSound, QualifySound, At
<1> QED BY <1>1, <1>2 DEF Inv

LEMMA BeginKeeps ==
  ASSUME Inv, NEW c \in Callers, NEW t \in Tasks,
         \/ BeginAcceptPlan(c, t) \/ BeginImplemented(c, t) \/ BeginTest(c, t)
         \/ BeginReview(c, t) \/ BeginQualify(c, t)
  PROVE  Inv'
<1>1. PICK kind \in {"accept_plan", "implemented", "test", "review", "qualify"},
           verdict \in Verdicts \cup {None} :
         /\ Begin(c, kind, t, verdict)
         /\ kind # "review" => verdict = None
         /\ Bound(t)
         /\ kind = "implemented" => t \in Producers /\ Supersedable(t)
         /\ kind = "review" => /\ wf.progress = "implemented" /\ MayReview(t)
                               /\ verdict \in Verdicts
         /\ kind = "qualify" => wf.progress = "implemented" /\ Completed(wf.candidate.producer)
  BY DEF BeginAcceptPlan, BeginImplemented, BeginTest, BeginReview, BeginQualify, Producing
<1>2. TypeOK'
  BY <1>1, BeginType DEF Inv
<1>3. op' = [op EXCEPT ![c] = Operation(kind, t, verdict)] /\ UNCHANGED <<tree, edits, task, wf>>
  BY <1>1 DEF Begin
<1>4. op'[c] = Operation(kind, t, verdict) /\ \A d \in Callers \ {c} : op'[d] = op[d]
  BY <1>3 DEF Inv, TypeOK
<1>5. /\ op'[c].kind = kind /\ op'[c].task = t /\ op'[c].seen = None
      /\ op'[c].verdict = verdict
  BY <1>4 DEF Operation
<1>6. OperationSound(c)'
  <2>1. (op[c] # None => Accepted(op[c].task))'
    BY <1>1, <1>3, <1>5 DEF Bound, Accepted
  <2>2. CaptureSound(c)'
    BY <1>1, <1>3, <1>5 DEF CaptureSound, At, Supersedable, Finished
  <2>3. TestSound(c)'
    BY <1>1, <1>5 DEF TestSound, At
  <2>4. ReviewSound(c)'
    BY <1>1, <1>3, <1>5, EvidenceAssumption DEF ReviewSound, At, ReviewsCandidate, MayReview, Bound, Accepted,
                            Inv, CandidateSound
  <2>5. QualifySound(c)'
    BY <1>1, <1>3, <1>5 DEF QualifySound, At, Completed, Inv, CandidateSound
  <2> QED BY <2>1, <2>2, <2>3, <2>4, <2>5 DEF OperationSound
<1> QED BY <1>2, <1>3, <1>4, <1>6, OperationKeeps

LEMMA CollectKeeps ==
  ASSUME Inv, NEW c \in Callers, Collect(c)
  PROVE  Inv'
<1>1. op[c] \in Operations /\ OperationSound(c)
  BY OpType DEF Collect, At, Inv
<1>2. /\ op' = [op EXCEPT ![c] = [op[c] EXCEPT !.seen = tree]]
      /\ UNCHANGED <<tree, edits, task, wf>>
  BY DEF Collect
<1>3. [op[c] EXCEPT !.seen = tree] \in Operations
  BY <1>1 DEF Operations, Inv, TypeOK
<1>4. /\ op'[c] = [op[c] EXCEPT !.seen = tree]
      /\ \A d \in Callers \ {c} : op'[d] = op[d]
  BY <1>2 DEF Inv, TypeOK
<1>5. /\ op'[c] # None /\ op'[c].kind = "implemented" /\ op'[c].task = op[c].task
      /\ op'[c].seen = tree
  BY <1>1, <1>3, <1>4, EvidenceAssumption DEF Operations, Collect, At
<1>6. TypeOK'
  BY <1>2, <1>3 DEF Inv, TypeOK
<1>7. InPlan(tree, BaselineTask(op[c].task))
  BY DEF Collect, InScope, Changed, InPlan
<1>8. OperationSound(c)'
  <2>1. CaptureSound(c)'
    BY <1>1, <1>2, <1>5, <1>7
       DEF Collect, OperationSound, CaptureSound, At, Supersedable, Finished, InPlan, BaselineTask
  <2>2. (op[c] # None => Accepted(op[c].task))'
    BY <1>1, <1>2, <1>5 DEF Collect, OperationSound, At, Accepted
  <2> QED BY <1>5, <2>1, <2>2 DEF OperationSound, TestSound, ReviewSound, QualifySound, At
<1> QED BY <1>2, <1>4, <1>6, <1>8, OperationKeeps

LEMMA RunKeeps ==
  ASSUME Inv, NEW c \in Callers, Run(c)
  PROVE  Inv'
<1> DEFINE v == IF tree \in Passing[wf.plan] THEN "satisfied" ELSE "failed"
<1>1. op[c] \in Operations /\ OperationSound(c)
  BY OpType DEF Run, At, Inv
<1>2. /\ op' = [op EXCEPT ![c] = [op[c] EXCEPT !.verdict = v]]
      /\ UNCHANGED <<tree, edits, task, wf>>
  BY DEF Run
<1>3. [op[c] EXCEPT !.verdict = v] \in Operations
  BY <1>1 DEF Operations, Verdicts
<1>4. /\ op'[c] = [op[c] EXCEPT !.verdict = v]
      /\ \A d \in Callers \ {c} : op'[d] = op[d]
  BY <1>2 DEF Inv, TypeOK
<1>5. /\ op'[c] # None /\ op'[c].kind = "test" /\ op'[c].task = op[c].task
      /\ op'[c].verdict = v
  BY <1>1, <1>3, <1>4, EvidenceAssumption DEF Operations, Run, At
<1>6. TypeOK'
  BY <1>2, <1>3 DEF Inv, TypeOK
<1>7. (v = "satisfied") = (tree \in Passing[wf.plan])
  OBVIOUS
<1>8. OperationSound(c)'
  <2>1. TestSound(c)'
    BY <1>2, <1>5, <1>7 DEF TestSound, At
  <2>2. (op[c] # None => Accepted(op[c].task))'
    BY <1>1, <1>2, <1>5 DEF Run, OperationSound, At, Accepted
  <2> QED BY <1>5, <2>1, <2>2 DEF OperationSound, CaptureSound, ReviewSound, QualifySound, At
<1> QED BY <1>2, <1>4, <1>6, <1>8, OperationKeeps

LEMMA DropKeeps ==
  ASSUME Inv, NEW c \in Callers, Drop(c)
  PROVE  Inv'
<1>1. op' = [op EXCEPT ![c] = None] /\ UNCHANGED <<tree, edits, task, wf>>
  BY DEF Drop
<1>2. op'[c] = None /\ \A d \in Callers \ {c} : op'[d] = op[d]
  BY <1>1 DEF Inv, TypeOK
<1>3. TypeOK'
  BY <1>1 DEF Inv, TypeOK
<1>4. OperationSound(c)'
  BY <1>2 DEF OperationSound, CaptureSound, TestSound, ReviewSound, QualifySound, At
<1> QED BY <1>1, <1>2, <1>3, <1>4, OperationKeeps

LEMMA EditKeeps ==
  ASSUME Inv, Edit
  PROVE  Inv'
<1>1. PICK f \in Files, content \in Contents :
         /\ edits < MaxEdits /\ edits' = edits + 1
         /\ tree' = [tree EXCEPT ![f] = content]
         /\ op' = [c \in Callers |->
                     IF At(c, "test") THEN [op[c] EXCEPT !.moved = TRUE] ELSE op[c]]
         /\ UNCHANGED <<task, wf>>
  BY DEF Edit
<1>2. ASSUME NEW c \in Callers, At(c, "test")
      PROVE  /\ op'[c] = [op[c] EXCEPT !.moved = TRUE]
             /\ op'[c] \in Operations /\ op'[c] # None
             /\ op'[c].kind = "test" /\ op'[c].task = op[c].task /\ op'[c].moved
  <2>1. op[c] \in Operations
    BY <1>2, OpType DEF At, Inv
  <2>2. op'[c] = [op[c] EXCEPT !.moved = TRUE]
    BY <1>1, <1>2
  <2> QED BY <1>2, <2>1, <2>2, EvidenceAssumption DEF Operations, At
<1>3. ASSUME NEW c \in Callers, ~At(c, "test")
      PROVE  op'[c] = op[c]
  BY <1>1, <1>3
<1>4. TypeOK'
  <2>1. tree' \in Trees /\ edits' \in 0 .. MaxEdits
    BY <1>1, EvidenceAssumption DEF Inv, TypeOK, Trees
  <2>2. \A c \in Callers : op'[c] \in Operations \cup {None}
    BY <1>2, <1>3 DEF Inv, TypeOK
  <2>3. op' \in [Callers -> Operations \cup {None}]
    BY <1>1, <2>2
  <2> QED BY <1>1, <2>1, <2>3 DEF Inv, TypeOK
<1>5. CandidateSound'
  BY <1>1 DEF Inv, CandidateSound, InPlan, Accepted
<1>6. wf'.review # None => ReviewsCandidate(wf.review.reviewer)'
  BY <1>1 DEF Inv, ReviewsCandidate, MayReview, Accepted
<1>7. wf'.progress = "qualified" => Completed(wf.candidate.producer)' /\ wf'.review # None
  BY <1>1 DEF Inv, Completed
<1>8. ASSUME NEW c \in Callers
      PROVE  OperationSound(c)'
  <2>1. OperationSound(c)
    BY DEF Inv
  <2>2. CASE At(c, "test")
    <3>1. (op[c] # None => Accepted(op[c].task))'
      BY <1>1, <1>2, <2>1, <2>2 DEF OperationSound, At, Accepted
    <3> QED BY <1>2, <2>2, <3>1
            DEF OperationSound, CaptureSound, TestSound, ReviewSound, QualifySound, At
  <2>3. CASE ~At(c, "test")
    <3>1. op'[c] = op[c]
      BY <1>3, <2>3
    <3>2. CaptureSound(c)'
      BY <1>1, <2>1, <3>1 DEF OperationSound, CaptureSound, At, Supersedable, Finished, InPlan,
                              BaselineTask
    <3>3. TestSound(c)'
      BY <2>3, <3>1 DEF TestSound, At
    <3>4. ReviewSound(c)'
      BY <1>1, <2>1, <3>1 DEF OperationSound, ReviewSound, At, ReviewsCandidate, MayReview, Accepted
    <3>5. QualifySound(c)'
      BY <1>1, <2>1, <3>1 DEF OperationSound, QualifySound, At, Completed
    <3> QED BY <1>1, <2>1, <3>1, <3>2, <3>3, <3>4, <3>5 DEF OperationSound, Accepted
  <2> QED BY <2>2, <2>3
<1> QED BY <1>4, <1>5, <1>6, <1>7, <1>8 DEF Inv

LEMMA ReplanKeeps ==
  ASSUME Inv, NEW t \in Tasks, NEW p \in Plans, Replan(t, p)
  PROVE  Inv'
<1> DEFINE state == [plan |-> p, progress |-> "draft", admission |-> None, candidate |-> None,
                     measured |-> None, review |-> None]
<1>1. state \in States
  BY DEF States
<1>2. wf' = state /\ op' = [d \in Callers |-> None] /\ UNCHANGED <<tree, edits, task>>
  BY DEF Replan
<1>3. wf'.candidate = None /\ wf'.review = None /\ wf'.progress = "draft"
  BY <1>2
<1> QED BY <1>1, <1>2, <1>3, CommitKeeps DEF CandidateSound

LEMMA AcceptPlanKeeps ==
  ASSUME Inv, NEW c \in Callers, CommitAcceptPlan(c)
  PROVE  Inv'
<1> DEFINE admission == [source |-> task[op[c].task].base]
           state == [wf EXCEPT !.progress = "planned", !.admission = admission]
<1>1. wf \in States /\ wf.progress = "draft"
  BY WfType DEF Inv, CommitAcceptPlan
<1>2. op[c].task \in Tasks /\ Accepted(op[c].task)
  BY OpType DEF Inv, CommitAcceptPlan, At, OperationSound, Operations
<1>3. admission \in Admissions
  BY <1>2, TaskType DEF Inv, AcceptedTasks, Admissions
<1>4. state \in States
  BY <1>1, <1>3 DEF States
<1>5. wf' = state /\ op' = [d \in Callers |-> None] /\ UNCHANGED <<tree, edits, task>>
  BY DEF CommitAcceptPlan, Commit
<1>6. /\ wf'.candidate = wf.candidate /\ wf'.review = wf.review /\ wf'.plan = wf.plan
      /\ wf'.progress = "planned"
  BY <1>1, <1>5 DEF States
<1>7. CandidateSound'
  BY <1>5, <1>6 DEF Inv, CandidateSound, InPlan, Accepted
<1>8. wf'.review # None => ReviewsCandidate(wf.review.reviewer)'
  BY <1>5, <1>6 DEF Inv, ReviewsCandidate, MayReview, Accepted
<1> QED BY <1>4, <1>5, <1>6, <1>7, <1>8, CommitKeeps

\* What the commit of a candidate stores.
LEMMA CaptureCommits ==
  ASSUME Inv, NEW c \in Callers, CommitImplemented(c)
  PROVE  /\ wf' \in States /\ op' = [d \in Callers |-> None] /\ UNCHANGED <<tree, edits, task>>
         /\ wf'.progress = "implemented" /\ wf'.plan = wf.plan
         /\ wf'.measured = None /\ wf'.review = None
         /\ wf'.candidate \in Candidates
         /\ wf'.candidate.producer = op[c].task
         /\ wf'.candidate.tree = op[c].seen
         /\ wf'.candidate.baseline_task = BaselineTask(op[c].task)
         /\ CaptureSound(c) /\ Accepted(op[c].task)
<1> DEFINE candidate == [producer |-> op[c].task, tree |-> op[c].seen,
                         baseline_task |-> BaselineTask(op[c].task)]
           state == [wf EXCEPT !.progress = "implemented", !.measured = None, !.review = None,
                               !.candidate = candidate]
<1>1. wf \in States
  BY WfType DEF Inv
<1>2. op[c].task \in Tasks /\ op[c].seen \in Trees
  BY OpType DEF Inv, CommitImplemented, At, Operations
<1>3. candidate \in Candidates
  BY <1>2, BaselineType DEF Inv, Candidates
<1>4. state \in States
  BY <1>1, <1>3 DEF States
<1>5. wf' = state /\ op' = [d \in Callers |-> None] /\ UNCHANGED <<tree, edits, task>>
  BY DEF CommitImplemented, Commit
<1>6. /\ state.progress = "implemented" /\ state.plan = wf.plan
      /\ state.measured = None /\ state.review = None /\ state.candidate = candidate
  BY <1>1 DEF States
<1>7. CaptureSound(c) /\ Accepted(op[c].task)
  BY DEF Inv, OperationSound, CommitImplemented, At
<1>8. /\ candidate.producer = op[c].task /\ candidate.tree = op[c].seen
      /\ candidate.baseline_task = BaselineTask(op[c].task)
  OBVIOUS
<1> HIDE DEF candidate
<1> QED BY <1>3, <1>4, <1>5, <1>6, <1>7, <1>8

LEMMA ImplementedKeeps ==
  ASSUME Inv, NEW c \in Callers, CommitImplemented(c)
  PROVE  Inv'
<1>1. wf'.candidate # None
  BY CaptureCommits, EvidenceAssumption
<1>2. op[c].task \in Producers /\ InPlan(op[c].seen, BaselineTask(op[c].task))
  BY CaptureCommits DEF CaptureSound, CommitImplemented
<1>3. Accepted(BaselineTask(op[c].task))
  BY CaptureCommits DEF Inv, CandidateSound, BaselineTask
<1>4. CandidateSound'
  BY <1>1, <1>2, <1>3, CaptureCommits DEF CandidateSound, InPlan, Accepted
<1> QED BY <1>4, CaptureCommits, CommitKeeps

LEMMA TestKeeps ==
  ASSUME Inv, NEW c \in Callers, CommitTest(c)
  PROVE  Inv'
<1> DEFINE state == [wf EXCEPT !.measured = op[c].verdict]
<1>1. wf \in States
  BY WfType DEF Inv
<1>2. op[c].verdict \in Verdicts
  BY OpType DEF Inv, CommitTest, At, Operations
<1>3. state \in States
  BY <1>1, <1>2 DEF States
<1>4. wf' = state /\ op' = [d \in Callers |-> None] /\ UNCHANGED <<tree, edits, task>>
  BY DEF CommitTest, Commit
<1>5. /\ wf'.candidate = wf.candidate /\ wf'.review = wf.review /\ wf'.plan = wf.plan
      /\ wf'.progress = wf.progress
  BY <1>1, <1>4 DEF States
<1>6. CandidateSound'
  BY <1>4, <1>5 DEF Inv, CandidateSound, InPlan, Accepted
<1>7. wf'.review # None => ReviewsCandidate(wf.review.reviewer)'
  BY <1>4, <1>5 DEF Inv, ReviewsCandidate, MayReview, Accepted
<1>8. wf'.progress # "qualified"
  BY <1>5 DEF CommitTest
<1> QED BY <1>3, <1>4, <1>6, <1>7, <1>8, CommitKeeps

LEMMA ReviewKeeps ==
  ASSUME Inv, NEW c \in Callers, CommitReview(c)
  PROVE  Inv'
<1> DEFINE review == [reviewer |-> op[c].task, status |-> op[c].verdict]
           state == [wf EXCEPT !.review = review]
<1>1. wf \in States
  BY WfType DEF Inv
<1>2. ReviewsCandidate(op[c].task)
  BY DEF Inv, OperationSound, ReviewSound, CommitReview
<1>3. op[c].verdict # None
  BY DEF Inv, OperationSound, ReviewSound, CommitReview
<1>4. review \in Reviews
  BY <1>3, OpType DEF Inv, CommitReview, At, Operations, Reviews
<1>5. state \in States
  BY <1>1, <1>4 DEF States
<1>6. wf' = state /\ op' = [d \in Callers |-> None] /\ UNCHANGED <<tree, edits, task>>
  BY DEF CommitReview, Commit
<1>7. /\ wf'.candidate = wf.candidate /\ wf'.review = review /\ wf'.plan = wf.plan
      /\ wf'.progress = wf.progress
  BY <1>1, <1>6 DEF States
<1>8. CandidateSound'
  BY <1>6, <1>7 DEF Inv, CandidateSound, InPlan, Accepted
<1>9. ReviewsCandidate(wf.review.reviewer)'
  BY <1>2, <1>6, <1>7 DEF ReviewsCandidate, MayReview, Accepted
<1>10. wf'.progress # "qualified"
  BY <1>7 DEF CommitReview
<1> QED BY <1>5, <1>6, <1>8, <1>9, <1>10, CommitKeeps

LEMMA QualifyKeeps ==
  ASSUME Inv, NEW c \in Callers, CommitQualify(c)
  PROVE  Inv'
<1> DEFINE state == [wf EXCEPT !.progress = "qualified"]
<1>1. wf \in States
  BY WfType DEF Inv
<1>2. state \in States
  BY <1>1 DEF States
<1>3. wf' = state /\ op' = [d \in Callers |-> None] /\ UNCHANGED <<tree, edits, task>>
  BY DEF CommitQualify, Commit
<1>4. /\ wf'.candidate = wf.candidate /\ wf'.review = wf.review /\ wf'.plan = wf.plan
      /\ wf'.progress = "qualified"
  BY <1>1, <1>3 DEF States
<1>5. wf.candidate # None /\ Completed(wf.candidate.producer) /\ wf.review # None
  BY DEF Inv, OperationSound, QualifySound, CommitQualify
<1>6. CandidateSound'
  BY <1>3, <1>4, <1>5 DEF Inv, CandidateSound, InPlan, Accepted
<1>7. wf'.review # None => ReviewsCandidate(wf.review.reviewer)'
  BY <1>3, <1>4 DEF Inv, ReviewsCandidate, MayReview, Accepted
<1>8. Completed(wf.candidate.producer)' /\ wf'.review # None
  BY <1>3, <1>4, <1>5 DEF Completed
<1> QED BY <1>2, <1>3, <1>6, <1>7, <1>8, CommitKeeps

LEMMA InvInit ==
  ASSUME Init
  PROVE  Inv
<1>1. /\ wf.progress = "draft" /\ wf.candidate = None /\ wf.review = None
      /\ \A c \in Callers : op[c] = None
  BY DEF Init
<1>2. \A c \in Callers : OperationSound(c)
  BY <1>1 DEF OperationSound, CaptureSound, TestSound, ReviewSound, QualifySound, At
<1> QED BY <1>1, <1>2, TypeInit DEF Inv, CandidateSound

LEMMA InvNext ==
  ASSUME Inv, [Next]_vars
  PROVE  Inv'
<1>1. ASSUME NEW c \in Callers, Begins(c)
      PROVE  Inv'
  BY <1>1, BeginKeeps DEF Begins
<1>2. ASSUME NEW c \in Callers, Collect(c)
      PROVE  Inv'
  BY <1>2, CollectKeeps
<1>3. ASSUME NEW c \in Callers, Run(c)
      PROVE  Inv'
  BY <1>3, RunKeeps
<1>4. ASSUME NEW c \in Callers, Ends(c)
      PROVE  Inv'
  BY <1>4, AcceptPlanKeeps, ImplementedKeeps, TestKeeps, ReviewKeeps, QualifyKeeps, DropKeeps
     DEF Ends
<1>5. ASSUME NEW t \in Tasks, Lifetime(t)
      PROVE  Inv'
  <2>1. CASE \E p \in Plans : Replan(t, p)
    BY <2>1, ReplanKeeps
  <2>2. CASE \/ AcceptProducer(t) \/ AcceptReviewer(t)
             \/ Freeze(t) \/ Complete(t) \/ Close(t) \/ End(t)
    BY <2>2, LifetimeStep, GrowKeeps
  <2> QED BY <1>5, <2>1, <2>2 DEF Lifetime
<1>6. CASE Edit
  BY <1>6, EditKeeps
<1>7. CASE UNCHANGED vars
  <2>1. TypeOK' /\ TasksGrow /\ UNCHANGED <<tree, edits, wf, op>>
    BY <1>7 DEF vars, Inv, TypeOK, TasksGrow, Accepted, Finished, Completed
  <2> QED BY <2>1, GrowKeeps
<1> QED BY <1>1, <1>2, <1>3, <1>4, <1>5, <1>6, <1>7 DEF Next

LEMMA InvHolds == Spec => []Inv
<1>1. Init => Inv
  BY InvInit
<1>2. Inv /\ [Next]_vars => Inv'
  BY InvNext
<1> QED BY <1>1, <1>2, PTL DEF Spec

\* The steps that change the workflow.
LEMMA WorkflowSteps ==
  ASSUME [Next]_vars, wf' # wf
  PROVE  \/ \E c \in Callers : \/ CommitAcceptPlan(c) \/ CommitImplemented(c) \/ CommitTest(c)
                               \/ CommitReview(c) \/ CommitQualify(c)
         \/ \E t \in Tasks, p \in Plans : Replan(t, p)
<1>1. ASSUME NEW c \in Callers, Begins(c) \/ Collect(c) \/ Run(c) \/ Drop(c)
      PROVE  wf' = wf
  BY <1>1 DEF Begins, BeginAcceptPlan, BeginImplemented, BeginTest, BeginReview, BeginQualify,
              Begin, Collect, Run, Drop
<1>2. ASSUME NEW t \in Tasks, \/ AcceptProducer(t) \/ AcceptReviewer(t)
                              \/ Freeze(t) \/ Complete(t) \/ Close(t) \/ End(t)
      PROVE  wf' = wf
  BY <1>2 DEF AcceptProducer, AcceptReviewer, Freeze, Complete, Close, End, Turn
<1>3. Edit => wf' = wf
  BY DEF Edit
<1>4. UNCHANGED vars => wf' = wf
  BY DEF vars
<1> QED BY <1>1, <1>2, <1>3, <1>4 DEF Next, Ends, Lifetime

\* Only implemented changes the candidate, but for a replan, and only a test adds a
\* verdict.
LEMMA CandidateStays ==
  ASSUME Inv, [Next]_vars, wf'.candidate # None, ~ \E c \in Callers : CommitImplemented(c)
  PROVE  wf'.candidate = wf.candidate
<1>1. wf \in States
  BY WfType DEF Inv
<1>2. CASE wf' = wf
  BY <1>2
<1>3. ASSUME NEW c \in Callers, CommitAcceptPlan(c) \/ CommitTest(c) \/ CommitReview(c) \/ CommitQualify(c)
      PROVE  wf'.candidate = wf.candidate
  BY <1>1, <1>3 DEF CommitAcceptPlan, CommitTest, CommitReview, CommitQualify, Commit, States
<1>4. ASSUME NEW t \in Tasks, NEW p \in Plans, Replan(t, p)
      PROVE  wf'.candidate = None
  BY <1>4 DEF Replan
<1> QED BY <1>2, <1>3, <1>4, WorkflowSteps

LEMMA MeasuredStays ==
  ASSUME Inv, [Next]_vars, wf'.measured # None, wf'.measured # wf.measured
  PROVE  \E c \in Callers : CommitTest(c)
<1>1. wf \in States
  BY WfType DEF Inv
<1>2. ASSUME NEW c \in Callers, CommitAcceptPlan(c) \/ CommitReview(c) \/ CommitQualify(c)
      PROVE  wf'.measured = wf.measured
  BY <1>1, <1>2 DEF CommitAcceptPlan, CommitReview, CommitQualify, Commit, States
<1>3. ASSUME NEW c \in Callers, CommitImplemented(c)
      PROVE  wf'.measured = None
  BY <1>3, CaptureCommits
<1>4. ASSUME NEW t \in Tasks, NEW p \in Plans, Replan(t, p)
      PROVE  wf'.measured = None
  BY <1>4 DEF Replan
<1> QED BY <1>2, <1>3, <1>4, WorkflowSteps

-----------------------------------------------------------------------------
(* The properties.                                                         *)

\* Every variable has the shape its readers rely on, for any number of tasks,
\* callers, files and edits.
THEOREM TypeCorrect == Spec => []TypeOK
<1>1. Inv => TypeOK
  BY DEF Inv
<1> QED BY <1>1, InvHolds, PTL

\* Qualified work has a completed producer and the review its plan asks for
\* (producer_completion, collect_review).
THEOREM QualificationStands == Spec => []QualifiedStands
<1>1. Inv => QualifiedStands
  BY DEF Inv, QualifiedStands, ReviewsCandidate, MayReview, CandidateSound
<1> QED BY <1>1, InvHolds, PTL

\* The candidates of one plan admission differ in planned files only, whoever
\* makes them (collect_candidate's baseline).
THEOREM ScopeStays == Spec => ScopeKept
<1> DEFINE Kept == wf.candidate # None /\ wf'.candidate # None =>
                     \A f \in Files \ PathsOf[wf.plan] :
                         wf'.candidate.tree[f] = wf.candidate.tree[f]
<1>1. Inv /\ [Next]_vars => [Kept]_vars
  <2> SUFFICES ASSUME Inv, [Next]_vars, wf.candidate # None, wf'.candidate # None
               PROVE  \A f \in Files \ PathsOf[wf.plan] :
                         wf'.candidate.tree[f] = wf.candidate.tree[f]
    OBVIOUS
  <2>1. CASE \E c \in Callers : CommitImplemented(c)
    <3>1. PICK c \in Callers : CommitImplemented(c)
      BY <2>1
    <3>2. BaselineTask(op[c].task) = wf.candidate.baseline_task
      BY DEF BaselineTask
    <3>3. InPlan(op[c].seen, wf.candidate.baseline_task)
      BY <3>1, <3>2, CaptureCommits DEF CaptureSound, CommitImplemented
    <3>4. InPlan(wf.candidate.tree, wf.candidate.baseline_task)
      BY DEF Inv, CandidateSound
    <3> QED BY <3>1, <3>3, <3>4, CaptureCommits DEF InPlan
  <2>2. CASE ~ \E c \in Callers : CommitImplemented(c)
    <3>1. wf'.candidate = wf.candidate
      BY <2>2, CandidateStays
    <3> QED BY <3>1
  <2> QED BY <2>1, <2>2
<1> QED BY <1>1, InvHolds, PTL DEF Spec, ScopeKept

\* A candidate passes on only after its producer was closed (Supersedable is read
\* in another transaction than the one that commits).
THEOREM ProducersTakeTurns == Spec => OneProducerAtATime
<1> DEFINE Turns == wf.candidate # None /\ wf'.candidate # None =>
                      \/ wf'.candidate.producer = wf.candidate.producer
                      \/ Finished(wf.candidate.producer)
<1>1. Inv /\ [Next]_vars => [Turns]_vars
  <2> SUFFICES ASSUME Inv, [Next]_vars, wf.candidate # None, wf'.candidate # None
               PROVE  \/ wf'.candidate.producer = wf.candidate.producer
                      \/ Finished(wf.candidate.producer)
    OBVIOUS
  <2>1. CASE \E c \in Callers : CommitImplemented(c)
    BY <2>1, CaptureCommits DEF CaptureSound, Supersedable, CommitImplemented
  <2>2. CASE ~ \E c \in Callers : CommitImplemented(c)
    BY <2>2, CandidateStays
  <2> QED BY <2>1, <2>2
<1> QED BY <1>1, InvHolds, PTL DEF Spec, OneProducerAtATime

\* A retained verdict is that of the candidate's files (measured_test_steps, which
\* collects the candidate before and after the run).
THEOREM VerdictsConcernCandidate == Spec => VerdictOfCandidate
<1> DEFINE Concerns == wf'.measured # None /\ wf'.measured # wf.measured =>
               \/ (wf'.measured = "satisfied") = (wf.candidate.tree \in Passing[wf.plan])
               \/ CandidateOnDisk /\ \E c \in Callers : At(c, "test") /\ op[c].moved
<1>1. Inv /\ [Next]_vars => [Concerns]_vars
  <2> SUFFICES ASSUME Inv, [Next]_vars, wf'.measured # None, wf'.measured # wf.measured
               PROVE  \/ (wf'.measured = "satisfied") = (wf.candidate.tree \in Passing[wf.plan])
                      \/ CandidateOnDisk /\ \E c \in Callers : At(c, "test") /\ op[c].moved
    OBVIOUS
  <2>1. PICK c \in Callers : CommitTest(c)
    BY MeasuredStays
  <2>2. wf'.measured = op[c].verdict
    <3>1. wf \in States
      BY WfType DEF Inv
    <3> QED BY <2>1, <3>1 DEF CommitTest, Commit, States
  <2>3. At(c, "test") /\ op[c].verdict # None /\ CandidateOnDisk
    BY <2>1 DEF CommitTest
  <2>4. TestSound(c)
    BY DEF Inv, OperationSound
  <2> QED BY <2>2, <2>3, <2>4 DEF TestSound, CandidateOnDisk
<1> QED BY <1>1, InvHolds, PTL DEF Spec, VerdictOfCandidate
=============================================================================
