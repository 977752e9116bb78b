-------------------------- MODULE WorkflowEvidence --------------------------
(***************************************************************************)
(* How the evidence of a workflow is collected                             *)
(* (_dispatcher/_workflow_evidence.py, called from _workflow_runtime.py):  *)
(* plan admission, the candidate and its recapture by a fresh producer,    *)
(* measurements, reviews and qualification.  Workflow says what a          *)
(* transition accepts; here is where its payloads come from: an operation  *)
(* reads the workflow, the task records and the files of the repository at *)
(* different moments and commits in a transaction of its own.  Between     *)
(* these steps others edit the files, end the tasks and commit.            *)
(*                                                                         *)
(* The plans are source changes in a local Git worktree.  A content of the *)
(* files stands for the commit that holds it: an edit commits another one  *)
(* or takes one back, and the worktree is clean when a task is accepted.   *)
(* The code tells two commits of the same files apart and refuses a HEAD   *)
(* that does not descend from the baseline, so it accepts less than this.  *)
(***************************************************************************)
EXTENDS Naturals, FiniteSets

CONSTANTS
    Tasks,        \* task windows bound to the workflow
    Producers,    \* those that produce; the others are read-only and review
    Callers,      \* sessions that may have an operation under way
    Files,        \* the files of the target repository
    Contents,     \* what a file may contain
    Plans,        \* the plans the workflow may be given
    PathsOf,      \* source_paths of a plan
    Independent,  \* the plans whose risk is high or whose rigor is full
    Passing,      \* the trees on which the measured criterion of the plan is met
    Start,        \* the trees the repository may start with
    MaxEdits,     \* bound: how often the files are edited
    None          \* JSON null

VARIABLES
    tree,    \* the files as they are now
    edits,   \* how often they were edited
    task,    \* task[t]: the accepted record of t with what ended it
    wf,      \* the state of the workflow
    op       \* op[c]: the operation the caller c has under way

vars == <<tree, edits, task, wf, op>>

-----------------------------------------------------------------------------
(* Types.                                                                  *)

Trees      == [Files -> Contents]
Verdicts   == {"satisfied", "failed"}
Candidates == [producer: Tasks, tree: Trees, baseline_task: Tasks]

\* "frozen" by a learning obligation; "recorded" with a completed terminal record
\* that no closed event follows yet; "completed" with both; "ended" in any other way.
Lives == {"open", "frozen", "recorded", "completed", "ended"}

\* base: the repository when a producer was accepted; subject: the candidate a
\* reviewer is bound to.
AcceptedTasks ==
    [plan: Plans, base: Trees, subject: Candidates \cup {None}, life: Lives]

Admissions == [source: Trees]    \* the source_observation of the acceptance
Reviews    == [reviewer: Tasks, status: Verdicts]
States     == [plan: Plans, progress: {"draft", "planned", "implemented", "qualified"},
               admission: Admissions \cup {None}, candidate: Candidates \cup {None},
               measured: Verdicts \cup {None}, review: Reviews \cup {None}]

\* seen: what was read of the files; verdict: of a test run or of the findings;
\* moved: the files were changed since a test began (nothing reads this).
Operations == [kind: {"accept_plan", "implemented", "test", "review", "qualify"},
               task: Tasks, seen: Trees \cup {None}, verdict: Verdicts \cup {None}, moved: BOOLEAN]

ASSUME EvidenceAssumption ==
    /\ Producers \subseteq Tasks
    /\ Start \subseteq Trees /\ MaxEdits \in Nat
    /\ PathsOf \in [Plans -> SUBSET Files]
    /\ Independent \subseteq Plans
    /\ Passing \in [Plans -> SUBSET Trees]
    /\ None \notin Trees \cup Candidates \cup AcceptedTasks \cup Admissions
    /\ None \notin Reviews \cup Operations \cup Verdicts

-----------------------------------------------------------------------------
(* What the operations read.                                               *)

Accepted(t) == task[t] # None

\* _closure_causes: closed, terminal or frozen by learning.
Finished(t) == task[t].life \in {"recorded", "completed", "ended"}
OpenTask(t) == task[t].life = "open"

\* bound_workflow: a producer is bound to the exact plan, a reviewer to the exact
\* plan and candidate as well.
Bound(t) ==
    /\ Accepted(t)
    /\ task[t].plan = wf.plan
    /\ t \notin Producers => wf.candidate # None /\ task[t].subject = wf.candidate

Producing(t) == Bound(t) /\ t \in Producers

Changed(t, files) == {f \in Files : files[f] # task[t].base[f]}

\* Seeded fault: a recapture measures its scope from the fresh producer's own start.
BaselineIsProducer(t) == t

\* collect_candidate: the first producer's baseline stays that of the candidates
\* that replace its own.
BaselineTask(t) == IF wf.candidate = None THEN t ELSE wf.candidate.baseline_task

InScope(t, files) == Changed(BaselineTask(t), files) \subseteq PathsOf[wf.plan]

\* A fresh collect_candidate that equals the stored candidate.
CandidateOnDisk == wf.candidate # None /\ tree = wf.candidate.tree

-----------------------------------------------------------------------------
(* Operations and the transactions that end them.                          *)

Operation(kind, t, verdict) ==
    [kind |-> kind, task |-> t, seen |-> None, verdict |-> verdict, moved |-> FALSE]

Begin(c, kind, t, verdict) ==
    /\ op[c] = None
    /\ op' = [op EXCEPT ![c] = Operation(kind, t, verdict)]
    /\ UNCHANGED <<tree, edits, task, wf>>

At(c, kind) == op[c] # None /\ op[c].kind = kind

\* Seeded fault: the generation is not compared.
CommitUnchecked(c, state) ==
    /\ wf' = state
    /\ op' = [op EXCEPT ![c] = None]
    /\ UNCHANGED <<tree, edits, task>>

\* transition_workflow compares the generation the operation read with the current
\* one.  A transition so refuses every other operation under way, whatever that one
\* may still read: it is over here.
Commit(c, state) ==
    /\ wf' = state
    /\ op' = [d \in Callers |-> None]
    /\ UNCHANGED <<tree, edits, task>>

\* The call is refused, fails or dies with its process: nothing is stored.
Drop(c) ==
    /\ op[c] # None
    /\ op' = [op EXCEPT ![c] = None]
    /\ UNCHANGED <<tree, edits, task, wf>>

-----------------------------------------------------------------------------
(* Plan admission.                                                         *)

\* accept_plan: an open producer whose repository is still as it was accepted.
BeginAcceptPlan(c, t) ==
    /\ Producing(t) /\ wf.progress = "draft"
    /\ OpenTask(t)
    /\ Changed(t, tree) = {}
    /\ Begin(c, "accept_plan", t, None)

CommitAcceptPlan(c) ==
    /\ At(c, "accept_plan")
    /\ wf.progress = "draft"
    /\ Commit(c, [wf EXCEPT !.progress = "planned",
                            !.admission = [source |-> task[op[c].task].base]])

\* replan, by any producer bound to the plan it replaces: it depends on nothing
\* else here.  A plan that demands independence is not replaced by one that does not.
Replan(t, p) ==
    /\ Producing(t)
    /\ wf.plan \in Independent => p \in Independent
    /\ wf' = [plan |-> p, progress |-> "draft", admission |-> None, candidate |-> None,
              measured |-> None, review |-> None]
    /\ op' = [d \in Callers |-> None]
    /\ UNCHANGED <<tree, edits, task>>

-----------------------------------------------------------------------------
(* The candidate.                                                          *)

\* Seeded fault: a producer that gated counts as closed.
SupersedableFrozen(t) ==
    wf.candidate # None /\ wf.candidate.producer # t => ~OpenTask(wf.candidate.producer)

\* The candidate of another producer is replaced only once that one is closed;
\* a producer that is open or frozen keeps it.
Supersedable(t) ==
    wf.candidate # None /\ wf.candidate.producer # t => Finished(wf.candidate.producer)

\* implemented: that the producer is open is read in a transaction of its own.
BeginImplemented(c, t) ==
    /\ Producing(t) /\ wf.progress \in {"planned", "implemented"}
    /\ OpenTask(t)
    /\ Supersedable(t)
    /\ Begin(c, "implemented", t, None)

\* collect_candidate reads the workflow again, and then the files.
Collect(c) ==
    /\ At(c, "implemented") /\ op[c].seen = None
    /\ Bound(op[c].task)
    /\ InScope(op[c].task, tree)
    /\ op' = [op EXCEPT ![c].seen = tree]
    /\ UNCHANGED <<tree, edits, task, wf>>

\* Seeded fault: the files are read after the transition was prepared.
CommitUncollected(c) ==
    /\ At(c, "implemented")
    /\ wf.progress \in {"planned", "implemented"}
    /\ Commit(c, [wf EXCEPT !.progress = "implemented", !.measured = None, !.review = None,
                            !.candidate = [producer |-> op[c].task, tree |-> op[c].seen,
                                           baseline_task |-> BaselineTask(op[c].task)]])

CommitImplemented(c) ==
    /\ At(c, "implemented") /\ op[c].seen # None
    /\ wf.progress \in {"planned", "implemented"}
    /\ Commit(c, [wf EXCEPT !.progress = "implemented", !.measured = None, !.review = None,
                            !.candidate = [producer |-> op[c].task, tree |-> op[c].seen,
                                           baseline_task |-> BaselineTask(op[c].task)]])

-----------------------------------------------------------------------------
(* Measurements and reviews.                                               *)

\* measured_test_steps and measured_command: the candidate is collected before and
\* after the run, which sees the files as they are at some moment in between.
BeginTest(c, t) ==
    /\ Bound(t) /\ wf.progress = "implemented"
    /\ CandidateOnDisk
    /\ Begin(c, "test", t, None)

Run(c) ==
    /\ At(c, "test") /\ op[c].verdict = None
    /\ op' = [op EXCEPT ![c].verdict =
                IF tree \in Passing[wf.plan] THEN "satisfied" ELSE "failed"]
    /\ UNCHANGED <<tree, edits, task, wf>>

\* Seeded fault: the candidate is not collected again after the run.
CommitTestOnce(c) ==
    /\ At(c, "test") /\ op[c].verdict # None
    /\ wf.progress = "implemented"
    /\ Commit(c, [wf EXCEPT !.measured = op[c].verdict])

CommitTest(c) ==
    /\ At(c, "test") /\ op[c].verdict # None
    /\ wf.progress = "implemented"
    /\ CandidateOnDisk
    /\ Commit(c, [wf EXCEPT !.measured = op[c].verdict])

\* Seeded fault: any other task may review.
ReviewsAsAnyone(t) == wf.plan \in Independent => t # wf.candidate.producer

\* collect_review: the producer itself unless the plan demands independence, or a
\* read-only task bound to the exact candidate.
MayReview(t) == \/ t = wf.candidate.producer /\ wf.plan \notin Independent
                \/ t \notin Producers

BeginReview(c, t) ==
    /\ Bound(t) /\ wf.progress = "implemented"
    /\ CandidateOnDisk
    /\ MayReview(t)
    /\ \E verdict \in Verdicts : Begin(c, "review", t, verdict)

CommitReview(c) ==
    /\ At(c, "review")
    /\ wf.progress = "implemented"
    /\ Commit(c, [wf EXCEPT !.review = [reviewer |-> op[c].task, status |-> op[c].verdict]])

-----------------------------------------------------------------------------
(* Qualification.                                                          *)

\* producer_completion: a completed terminal record and a completed closed event.
Completed(t) == task[t].life = "completed"

BeginQualify(c, t) ==
    /\ Bound(t) /\ wf.progress = "implemented"
    /\ CandidateOnDisk
    /\ Completed(wf.candidate.producer)
    /\ Begin(c, "qualify", t, None)

CommitQualify(c) ==
    /\ At(c, "qualify")
    /\ wf.progress = "implemented"
    /\ wf.measured = "satisfied"
    /\ wf.review # None /\ wf.review.status = "satisfied"
    /\ wf.plan \in Independent => wf.review.reviewer # wf.candidate.producer
    /\ Commit(c, [wf EXCEPT !.progress = "qualified"])

-----------------------------------------------------------------------------
(* Tasks and files.  How a reviewer ends is left out: nothing here reads it. *)

NewTask(subject) ==
    [plan |-> wf.plan, base |-> tree, subject |-> subject, life |-> "open"]

\* A fresh producer is bound to the current plan, its repository is captured.
AcceptProducer(t) ==
    /\ ~Accepted(t) /\ t \in Producers
    /\ task' = [task EXCEPT ![t] = NewTask(None)]
    /\ UNCHANGED <<tree, edits, wf, op>>

\* bind_review.
AcceptReviewer(t) ==
    /\ ~Accepted(t) /\ t \notin Producers
    /\ wf.progress = "implemented"
    /\ task' = [task EXCEPT ![t] = NewTask(wf.candidate)]
    /\ UNCHANGED <<tree, edits, wf, op>>

Turn(t, from, to) ==
    /\ Accepted(t) /\ t \in Producers
    /\ task[t].life \in from
    /\ task' = [task EXCEPT ![t].life = to]
    /\ UNCHANGED <<tree, edits, wf, op>>

\* A successful gate, or learning, creates an obligation.  Learning is refused
\* before there is a candidate, a gate is not.
Freeze(t) == Turn(t, {"open"}, "frozen")

\* An assessment after the gate: the completed terminal record, and then the
\* closed event in a transaction of its own.
Complete(t) == Turn(t, {"frozen"}, "recorded")
Close(t)    == Turn(t, {"recorded"}, "completed")

\* Any other end: a safe stop, or the next task of the session supersedes this one,
\* be there a record or not (TaskAuthority shows how).
End(t) == Turn(t, {"open", "frozen", "recorded"}, "ended")

\* Anyone edits a file, within the plan or not.
Edit ==
    \E f \in Files, content \in Contents :
        /\ edits < MaxEdits /\ edits' = edits + 1
        /\ tree[f] # content
        /\ tree' = [tree EXCEPT ![f] = content]
        /\ op' = [c \in Callers |->
                    IF At(c, "test") THEN [op[c] EXCEPT !.moved = TRUE] ELSE op[c]]
        /\ UNCHANGED <<task, wf>>

-----------------------------------------------------------------------------

Init ==
    /\ tree \in Start /\ edits = 0
    /\ task = [t \in Tasks |-> None]
    /\ \E p \in Plans :
         wf = [plan |-> p, progress |-> "draft", admission |-> None, candidate |-> None,
               measured |-> None, review |-> None]
    /\ op = [c \in Callers |-> None]

Begins(c) == \E t \in Tasks :
    \/ BeginAcceptPlan(c, t) \/ BeginImplemented(c, t) \/ BeginTest(c, t)
    \/ BeginReview(c, t) \/ BeginQualify(c, t)

Ends(c) == \/ CommitAcceptPlan(c) \/ CommitImplemented(c) \/ CommitTest(c)
           \/ CommitReview(c) \/ CommitQualify(c) \/ Drop(c)

Lifetime(t) == \/ AcceptProducer(t) \/ AcceptReviewer(t)
               \/ Freeze(t) \/ Complete(t) \/ Close(t) \/ End(t)
               \/ \E p \in Plans : Replan(t, p)

Next == \/ \E c \in Callers : Begins(c) \/ Collect(c) \/ Run(c) \/ Ends(c)
        \/ \E t \in Tasks : Lifetime(t)
        \/ Edit

Spec == Init /\ [][Next]_vars

-----------------------------------------------------------------------------
(* Properties.                                                             *)

\* Every variable has the shape its readers rely on.
TypeOK ==
    /\ tree \in Trees /\ edits \in 0..MaxEdits
    /\ task \in [Tasks -> AcceptedTasks \cup {None}]
    /\ wf \in States
    /\ op \in [Callers -> Operations \cup {None}]

\* However producers take over from one another, and whatever others commit in
\* between, the candidates of one plan admission differ in planned files only
\* (the baseline a recapture inherits).
ScopeKept ==
    [][wf.candidate # None /\ wf'.candidate # None =>
          \A f \in Files \ PathsOf[wf.plan] : wf'.candidate.tree[f] = wf.candidate.tree[f]]_vars

\* A candidate passes from one producer to another only after the first one was
\* closed, although both may have checked before either committed.
OneProducerAtATime ==
    [][wf.candidate # None /\ wf'.candidate # None =>
          \/ wf'.candidate.producer = wf.candidate.producer
          \/ Finished(wf.candidate.producer)]_vars

\* A verdict is retained for a candidate whose files give that verdict, unless the
\* files were changed, and changed back, while the run was under way.
VerdictOfCandidate ==
    [][wf'.measured # None /\ wf'.measured # wf.measured =>
          \/ (wf'.measured = "satisfied") = (wf.candidate.tree \in Passing[wf.plan])
          \/ CandidateOnDisk /\ \E c \in Callers : At(c, "test") /\ op[c].moved]_vars

\* Qualified work has a producer whose record and closure both say completed, and
\* its reviewer is that producer or a read-only task accepted for exactly this
\* candidate; for a plan that demands independence the latter.
QualifiedStands ==
    wf.progress = "qualified" =>
        /\ Completed(wf.candidate.producer)
        /\ wf.review.reviewer = wf.candidate.producer => wf.plan \notin Independent
        /\ wf.review.reviewer # wf.candidate.producer =>
              task[wf.review.reviewer].subject = wf.candidate

\* The scope of a recaptured candidate counts every change since plan admission
\* (collect_candidate's docstring, the workflow guide and the help text).
ScopeSinceAdmission ==
    wf.candidate # None /\ wf.candidate.producer # wf.candidate.baseline_task =>
        \A f \in Files \ PathsOf[wf.plan] : wf.candidate.tree[f] = wf.admission.source[f]
=============================================================================
