# Odibi Anchor: a verification development

Odibi Anchor is a reliability and evidence layer for engineering agents, written in Python
(`src/src/odibi_anchor/`, here abbreviated to the path below it). Agents call it through a
command line or an MCP server; it keeps what they did, what was measured, and what an owner
approved in a local SQLite database shared by every process on the machine, and copies that
database to a durable root. Nothing in it is a server that orders the calls: every process runs
the code itself, in short `BEGIN IMMEDIATE` transactions, with file operations, network reads and
minutes of waiting for an owner in between. The correctness of the system lies in what may happen
between two transactions. That is what these modules model.

Contents: [inventory](#1-inventory), [modules](#2-modules-and-how-they-correspond-to-the-code),
[runs](#3-runs-bounds-and-what-they-show), [fairness](#4-fairness-and-deadlock),
[proofs](#5-what-is-proved), [findings](#6-disagreements-between-the-code-and-its-documents),
[what is not modelled](#7-what-is-only-model-checked-and-what-is-not-modelled),
[plan](#8-plan).

Run a model with `tlc -config X.cfg M`, check proofs with `tlapm M.tla`. `PROJECT.json` lists the
runs, maps each definition to the lines it models, lists the hazards of the code with the
properties that watch them, and gives for each property a mutation of the model that violates it.
Definitions commented *seeded fault* are those mutations; nothing uses them otherwise.

## 1. Inventory

Each component below gives its state, its operations, whom it talks to, what is hard about it, and
what makes it correct.

**Workflow authority** (`codebase/_workflow.py`). *State:* an append-only event log per workflow,
each event with a generation, a request identifier, the operation and the resulting state (plan,
candidate, measurements, review, qualification, approval, delivery, verification, blocker).
*Operations:* create, accept_plan, replan, block, resume, cancel, implemented, record_measurement,
record_review, qualify, approve_delivery, revoke_delivery, delivered, reconcile_delivery,
verify_delivery. `transition_workflow` commits by compare-and-set on the generation and answers a
repeated request from the log. *Hard:* what evidence survives a replan or a new candidate; delivery
with an unknown outcome; parents that rest on children which have their own lives; rings of
children. *Correct if* evidence concerns the present plan and candidate, each stage rests on the
evidence and authority before it, and nothing weakens what was demanded.

**Workflow runtime and delivery** (`_dispatcher/_workflow_runtime.py`, `_workflow_delivery.py`).
*State:* none of its own; it reads the log several times in one command and writes it once or twice.
*Interacts* with the log, with the destination (read over a network), with the owner. *Hard:*
retries of a request whose answer was lost, while the first sending still runs; a command that
commits in two halves. *Correct if* a request takes effect once, on what was decided on.

**Workflow evidence** (`_dispatcher/_workflow_evidence.py`, `_workflow_admission.py`). *State:* none of
its own; it reads the log, the task records and the repository's files at different moments, and what
it collects becomes the payload of one transition. *Operations:* bind a task, admit a plan, collect a
candidate or collect it again for a fresh producer, measure, review, qualify. *Hard:* files are edited
and tasks end between reading and committing; a run takes minutes; producers take over from one
another, each with a start of its own. *Correct if* a verdict is that of the candidate it is retained
for, a candidate changes nothing outside the plan, and qualified work has a completed producer and a
reviewer who saw it.

**Human input and owner approval** (`human_input.py`, `owner_approval.py`, transports
`human_input_*.py`). *State:* the table `human_input_requests`; threads of replies outside.
*Operations:* open, deliver, poll, accept, expire, supersede, cancel, consume an in-session answer.
*Hard:* two channels and several processes for one challenge, late and foreign replies, crashes
between creating a row and posting it, an answer that counts again on a retry. *Correct if* one
reply is one decision and what is committed is what the owner was shown.

**Task authority** (`codebase/_task_authority.py`, `codebase/_task_execution.py`,
`_dispatcher/_safe_stop.py`, `_post_dispatch.py`). *State:* accepted records, immutable task events
(closed, rebound, ...), rebind receipts, terminal records, and each process's memory of its task.
*Operations:* accept (which supersedes the session's previous task), rebind, abandon, assess and
close, safe stop. *Hard:* several sessions that hold one task, each ending it in two transactions;
a rebind in three. *Correct if* a task is accepted once, taken up only while open, and ends once
behind its record.

**Structured learning** (`codebase/structured_learning_context.py`). *State:* obligations,
observations, assessments, dispositions. *Operations:* ensure, activate, capture, assess, triage.
A task may not complete while it owes an assessment. *Hard:* look-up and insertion in two
transactions; repeated assessments against a new cycle.

**Dispatch lifecycle** (`bootstrap.py`, `_dispatcher/_pre_dispatch.py`, `_post_dispatch.py`,
`_operating_protocol.py`). Runs an action between checks and follow-ups; keeps the session's memory;
after durable transitions takes a snapshot.

**Durable snapshots and restore** (`durability.py`). *State:* content-addressed blobs and manifests
under a local root or a Databricks volume, an authority marker, and on restore a destination
directory with an ownership record. *Operations:* snapshot, retention, restore_latest,
resume_restore, abandon_restore. *Hard:* no lock at all, exclusive creation only; crashes half way
through a copy; retention beside a concurrent checkpoint; restores that die and are resumed beside
programs that write to the destination. *Correct if* a published manifest can be restored, the
latest is the newest, and a restored database stands beside its whole artifact tree.

**Project migration** (`_migration.py`, `portfolio.py`, the continuity epoch). *State:* the
portfolio file, the project's descriptor, the owner of its continuity epoch, a journal, backups and
a receipt per migration; the last durable snapshot of them. *Operations:* move_target, `--resume`,
`--rollback`; launches of the project. *Hard:* three authorities that name the target are moved one
write at a time, with snapshots on the way; the command dies anywhere, the compute is lost and its
state comes back from a snapshot while the portfolio, which is elsewhere, stays; others edit the
files. *Correct if* no session ever works on a half-moved project, a half-moved project can be
moved on or back, and the recorded end is true.

**Host installation** (`host_home.py`, `startup.py`). *State:* guidance and launcher files at the
instruction root and in the host home, a locator, a pending journal and the last one, backups.
*Operations:* setup, rollback, cancelling a preparation. *Hard:* many files change one at a time;
writes time out and land later; a failed setup rolls itself back; others edit the files. *Correct
if* a launcher that may start finds files of one installation, and no edit is lost unapproved.

**Memory** (`codebase/_memory_lifecycle.py`, `_memory_verifier.py`, `_memory_promotion.py`, the
`memory` action). *State:* a status per memory; what each task did with it (selection, disposition,
application, evaluation); verifier runs and attestations; promotion events, each naming its
predecessor; the owner's receipts. *Operations:* select, apply, dispose, evaluate, verify, attest,
activate and confirm on evidence, withdraw, promote or retire by the owner, reject, quarantine by a
reviewed report. *Interacts* with terminal records (evidence counts when its task completed on the
tested snapshot) and with the owner. *Hard:* statuses are written in many places, some without an
event; a check of minutes between reading the contradictions and recording the run; an owner's
answer that comes late; evidence that outlives a withdrawal. *Correct if* a memory is promoted only
on authority that is still there, and no evidence brings back what a task denounced.

**Session continuity** (`_dispatcher/_session.py`, `_task_continuity.py`): a generation compare-and-swap and a merge
without a lock. **Governance ledger** (`_governance_ledger/_store.py`): checkouts with one open
generation, quarantine intents, a hash-chained event log. **Forensic journal**
(`_forensic_replay/journal.py`): a hash-chained log per task. These are in the plan.

**Stateless or I/O**: enforcement and policy, managed artifacts, delivery evidence, test runners, MCP and CLI adapters, the assurance kernel, planning, data tools, utilities.
`PROJECT.json` lists them with the reason each is left out.

How they interact: the dispatcher runs one action at a time per process and calls the others.
Processes meet only in the database, at the durable root, at a restore destination and in the files
that installing and moving rewrite. The task
authority gates closing on structured learning; workflow evidence cites accepted tasks as
producers and reviewers; workflow delivery asks the owner through owner approval; post-dispatch
snapshots the database.

## 2. Modules and how they correspond to the code

| Module | Models | Extends / uses |
|---|---|---|
| `Workflow` | `_apply` and `transition_workflow` of `_workflow.py` | |
| `WorkflowGrant` | the refinement map from `Workflow` to `DeliveryGrant` | `Workflow`, instance of `DeliveryGrant` |
| `DeliveryGrant` | abstract: a grant freezes its subject | |
| `WorkflowProofs` | theorems about the three above and about the runtime | `WorkflowGrant`, `WorkflowLog`, instance of `WorkflowRuntime`, TLAPS |
| `OwnerApproval`, `OwnerApprovalProofs` | the request store, the approval protocol, the owner commands | |
| `WorkflowLog` | the log of one workflow, where its sessions stand, and what the log promises | |
| `WorkflowRuntime` | `workflow_action` over that log, with retries and crashes | `WorkflowLog` |
| `WorkflowEvidence`, `WorkflowEvidenceProofs` | candidates, measurements, reviews and qualification, beside edits and endings of tasks | |
| `TaskAuthority`, `TaskAuthorityProofs` | accepted tasks, rebinds, endings, obligations | instance of `TaskLife` |
| `TaskLife` | abstract: accepted once, taken up while open, ended once | |
| `DurableDirectory` | a local durable root, the calls at work on it, and what it promises | |
| `DurableSnapshot` | `snapshot_state` and retention on that root | `DurableDirectory` |
| `DurableRestore` | restore, resume, abandon | |
| `DurableRestoreProofs` | theorems about the two above | `DurableRestore`, `DurableDirectory`, instance of `DurableSnapshot`, TLAPS |
| `TargetMigration`, `TargetMigrationProofs` | `move_target`, resume and rollback, launches, lost computes | instance of `ProjectRoute` |
| `ProjectRoute` | abstract: an epoch is exchanged only while the route is closed | |
| `HostMigration`, `HostMigrationProofs` | host setup and rollback | |
| `MemoryPromotion`, `MemoryPromotionProofs` | how memories come into and go out of use | |
| `MC*` | constants and symmetry of the checked instances | |

A module of proofs is named after what it is about; `WorkflowProofs` and `DurableRestoreProofs` have two
subjects each. The second one's state and properties are in a module of their own (`WorkflowLog`,
`DurableDirectory`) which the proofs extend, and its actions come in as an instance (`Runtime`, `Snap`),
so that two sets of actions do not share names.

### Workflow

`wf[w]` is the state of the last event of `w`; there is one action per operation, and each action is
one committed transition. A refused operation raises and stores nothing, so it is the absence of a
step. The body of an action is the branch of `_apply` with the shared guards at the head of the
function in `Active`, `Open` and the delivery guards; the resets of each branch are its primed
fields. `Replan`, `Qualify`, `ApproveDelivery` and `VerifyDelivery` include the walk of the required
children that `transition_workflow` makes in the same transaction. Digests stand for their
pre-images. Plans are constants that have passed `require_acceptable`; references, reasons and
observers are texts the code only requires to be nonempty, and are left out. The generation and
request identifiers are `WorkflowRuntime`'s.

One observation from the children's walk: because a receipt pins the child's plan digest, which in
turn contains the pins of its own children, checking the direct children already implies most of
what the recursive walk checks; `DirectChildrenHold` is the seeded fault that shows where it does
not (the ring).

### OwnerApproval

`requests` is the table, `thread` what each Slack thread or chat has received, `caller` where each
process is, `grants` the committed owner transitions (history). The protocol's transactions are
separate steps: find a pending request, create a row, post, mark delivered, read the thread, accept
by a conditional update, supersede the others, prepare again, commit by compare-and-set. A crash
may happen at each. Abstractions: the challenge, a digest of the subject, is the subject; a reply
that is neither the challenge nor DECLINE is dropped by the pollers' filter and is left out; a
DECLINE by somebody else behaves as their exact text; replies and deadlines are added only to rows
that are open and posted, since nothing reads others. The local Windows dialog, which blocks its
caller, and the blocking `request_human_input` are not modelled.

### WorkflowRuntime

`log` is the event log, `session[c]` where session `c` is in `workflow_action`: replay from the log,
bind the workflow, check the generation, observe the destination, read it again, prepare and ask the
owner, commit. `verify_delivery` may commit a readback and then a completion. `asked` remembers the
request an identifier was first sent with, because a client retries a request unchanged. The
destination is nobody's state here: it may change at any time, so each read of it finds the candidate
or does not. One plan and one candidate: conditions on evidence are `Workflow`'s subject. The log
starts with work that has been granted delivery. Binding a task to a workflow and the measuring
commands are in `WorkflowEvidence`.

### WorkflowEvidence

`tree` is what the files hold, `task[t]` the accepted record of a task (its plan, the repository it
started from, for a reviewer its candidate) with how far it has come, `wf` the part of the workflow's
state that evidence is about, `op[c]` the operation a caller has under way. An operation begins where
its guards read the tasks and the workflow, `Collect` and `Run` where it reads or runs on the files,
and ends in a commit that compares the generation; whatever else is under way is refused by that, so
a commit ends it. A task that produces is `open`, `frozen` once a gate or learning opened an
obligation, `recorded` and then `completed` when its two closing transactions are done, or `ended` in
any other way (`TaskAuthority` has the steps). The first candidate's producer gives the baseline of
all that replace it (`BaselineTask`). Plans are source changes in a local worktree; managed artifacts,
Databricks folders, adopted baselines and linked work items are left out, and so are blocks, resumes
and what follows qualification. One criterion stands for all: each is measured in the same way. A
content of the files stands for its commit; the code tells two commits of the same content apart and
refuses a HEAD that does not descend from the baseline, so it accepts less than the module.

### TaskAuthority

Records and events are immutable, so each is a function from tasks to what was written first:
`accepted`, `closed`, `terminal`, `lineage`, and the obligation cycle `owed`. `session[s]` is what
the process believes and `step[s]` its operation in progress. Every transaction is a step of its
own, and between two of them other sessions run, the process dies (`Crash`), or a transaction gives
up on a locked database (`GiveUp`). Abstractions: sessions are bound to a route, so a new process
remembers no task; `prior_learn_debt`, which only narrows what one process may do, is left out;
capture is part of the first half of assessing; a rebind's event and its two reads of monotone
facts are one step; `blocked` and `failed` are symmetric (`Stops`); whether a repository still
matches an accepted record is left open. `Producers` are the tasks that may stop unassessed at any
time: an over-approximation of the stop a workflow allows before a candidate. Adoption of a dirty
task, relocation, and the closing of obligations of older schemas are not modelled.

### DurableSnapshot

`store` gives each blob's file (absent, whole, or reserved by the process copying into it),
`committed`, `gone` and `reserved` the manifests, `work[w]` the call of each process.
`_publish_file_exclusive` is one step with hard links and two without (`Create`, `Fill`).
`_validated_manifests` is two: a glob, then reading what was listed, so a file deleted in between
fails the call. `Expired` and `Unreferenced` are `_apply_retention`'s, computed on the call's own
listing and executed one unlink at a time. Abstractions: local root only; the database backup and
the bundle of the tree are one step (`Stage`); all listed files are verified in one step; a clock
may read any instant, which the code raises above the latest listed (`Dates`); ties between equal
instants, ordered by hash in the code, are ordered by database number. Time passes by `DaysPass`,
which makes everything published old enough to expire; with `Prompt` it only does so between calls.
`overlapped` remembers that some call began while another was running: until then writers take
turns, in any order, each taking over after a predecessor that returned or died.

### DurableRestore

`dest` is the directory at the destination path, `trees` every directory there ever was (a
directory moved aside keeps its identity; a record names device and inode), `db` the file at the
database path, `call[p]` the call of each restorer. Each exclusive creation, write, check and
removal is a step. Other programs create files where there are none (`Foreign*`); they overwrite
nothing, since what they overwrite is not this code's to keep. `Lineage` lets newer checkpoints and
retention move on between a crash and a resume. Abstractions: no directories below the tree; the
staged bytes are the snapshot and what an attempt appends (`Variants`); a half-written record reads
as none.

### TargetMigration

`portfolio` and `tree` are the stores the migration reads and writes, `snap` the tree in the last
durable snapshot, `op` the running command, `session` the project's live session. A file's hash
stands for its content: the target it names and an edit number for everything else. Each file
write, each replacement of the journal and each snapshot is a step, in the order of `Chain`; a step
looks at the files before it writes, as the code does, so a resumed command skips what is done and
stops (`Stop`) where a file is neither what was recorded nor what is expected. `Rollback` computes
its compensations once and executes them in reverse. The receipt is written once. `Crash` ends a
command anywhere; `Lose` brings the tree back from the last snapshot, relocating the live epoch to
the new home, while the portfolio stays. Sessions of other projects snapshot the shared tree at any
time (`NeighbourSnapshot`), others edit both files, and the owner may move the portfolio by hand
when no migration is unfinished. The mapping to `ProjectRoute` reads the route as open when
portfolio and descriptor agree. Abstractions: one project (the batch of `move_targets` repeats the
command for each); parsing, path checks and the destination's validation are left out; comparing a
file's hash and replacing it is one step; no session of the project is live while a command runs
(the module's documentation and the guide ask for one writer of local state,
`docs/guides/portfolio-and-durable-state.md:636-637`; the code itself checks open tasks).

### HostMigration

`disk` is what every managed file, the locator and the two journals hold, `op` the running command
with what it saw in each file, `flight` a Workspace write that timed out and may still land. A file
is compared, written and read back in three steps (`Compare`, `Write`, `ReadBack`; `627, 629-631`
when publishing, `215, 217-219` when restoring); a file found different stops the command, and one that is publishing
rolls itself back. The command's own records are written in one step each (nobody else writes them, so their
readback can only fail as `Fail`). `Fail` is a read or write that raises; `Die` ends the process;
`TimeOut` leaves the write in flight; `Edit` changes any file at any time, the file between its
comparison and its write too. Two history variables change no behaviour: `consent`, the edits the
owner of the last setup agreed to replace (`513-520`), and `raced`, that the file to be written was
changed since it was compared. Abstractions: the locator holds the hash of a journal, here the journal; backups, written and
read back before the locator, are part of the journal; files are written in any order; others edit
but do not delete; a command is given only when no
earlier one runs and no request is in flight (`docs/guides/host-home.md:85, 93-95`). One home. The
content of the package, the portfolio binding and the receipt cache are left out, and so is the
older layout of `host_setup.py`.

### MemoryPromotion

`status` is the column of that name, `authority` the latest promotion event of each memory (the
code reads no other), `use` what each task did with each memory, `runs` and `attested` the two
append-only tables, `ended` the snapshot a completed task ended on, `call` what each session is in
the middle of. A call that reads in one transaction and writes in another is two actions with the
world in between: `Retrieve` and `RecordSelection`; `Apply` and `RecordApplication`;
`ResolvePending` and `RecordDisposition`; `Verify`, `StartRun` and `RecordRun`; `AttachWithdrawal`
and `SafetyWithdrawal`; `AskOwner` and `OwnerApproves`; `ReportUnsafe` and `Hygiene`. A refused call
is `Leave`, or no step. `Lower` is `withdraw_memory_in_transaction`, which every withdrawal goes
through, and `Derive` the activation and confirmation that `finalize_verifier_attestation` attempts
in the transaction of the attestation. The actions of one transaction include the effects the code
has in it: a suspect disposition or a harmful outcome lowers the memory or is not recorded.

Abstractions: one project; a memory's claim, which never changes, is part of its name; a task
selects a memory at most once and applies it once; the repository may be at any snapshot, and
whether it is still the tested one is part of the choice to attest; what a task must have done
before it completes is `TaskAuthority`'s subject; the owner's reply is `OwnerApproval`'s. The kill
switches are left enabled. One branch of the code is left out because it cannot be reached: the
repair of a candidate whose activation stands (`_memory_promotion.py:698-704`), which
`PromotedOnAuthority` excludes. What the modelled part leaves out is listed in section 7.

## 3. Runs, bounds and what they show

| Run | Instance | Properties | Result |
|---|---|---|---|
| `workflow` | 1 workflow, 3 plans, 2 criteria, 2 identities, 2 tasks | `EvidenceBound DeliveryOnAuthority ImplementsDeliveryGrant UnknownOutcomeNeedsReadback NeverWeakened` | pass |
| `workflow_tree` | 3 workflows, 4 plans that may pin one another | `ParentRestsOnChildren DependencyAcyclic` | pass |
| `owner_approval` | 2 processes, 2 requests, 2 generations, 1 reply each | `ChallengeConsumedOnce CommittedAsShown OneReplyOneGrant` | pass |
| `workflow_runtime` | 2 sessions, 2 identifiers, 4 commands, 3 generations | `RuntimeTypeOK RetriesAreSafe DecidedOnCurrent` | pass |
| `task_authority` | 3 sessions, 1 task, 2 obligation cycles | `TypeOK HoldersAreVerified ClosureHasRecord ImplementsTaskLife` | pass |
| `evidence` | 2 producers, 1 reviewer, 2 callers, 1 planned file and 1 other, 2 plans, 2 edits | `TypeOK QualifiedStands ScopeKept OneProducerAtATime VerdictOfCandidate` | pass |
| `evidence_scope` | the same with 1 caller and 1 plan | `ScopeSinceAdmission` | violated |
| `durable` | 2 processes that both retain, 2 databases, 2 trees, 3 instants, no hard links | `NewestSurvives ReachUnlessRaced LatestHoldsNewest` | pass |
| `restore` | 1 restorer at a time, 2 snapshots, 2 files, 2 variants, 2 trees, other programs | `DatabaseOverWholeTree PartialIsRecorded KeepsOthers` | pass |
| `target_move` | 2 targets, 2 homes, 1 journal; 1 crash, 1 lost compute, 1 edit, 1 task, 1 foreign snapshot | `TypeOK SplitHasJournal ImplementsProjectRoute EndsAsRecorded Converges` | pass |
| `host_home` | 3 files, 2 installations, 1 edit, 3 faults | `LaunchesWhole EditsKept` | pass |
| `memory` | 2 memories, one promoted before events were kept; 2 tasks, 2 snapshots, 2 sessions, 3 events, 3 calls | `PromotedOnAuthority SuspectNeedsOwner` | pass |

What each property says, and of which code, stands above it in its module. A type invariant is checked
by a run where a mistake of the code could break it; it is a theorem of every module with proofs.

Why the bounds are enough. *Workflow:* the three plans differ in risk, rigor and contract, so every
comparison in `Replan` and every branch of `Qualify` occurs both ways; two identities and two
producers give evidence for something else than the present candidate. The tree instance allows
rings of two and of three; its `Bound` leaves out measurements, reviews, recovery and blockers,
which the children's walk never reads. *OwnerApproval:* the hazards are between two processes over
one challenge; a third process or request adds no kind of step. `MaxGeneration = 2` holds a grant and
its revocation; that the reply of the first grant is not used for another after the revocation, at
any later generation, is the theorem `OneGrantPerReply`. *WorkflowRuntime:* two identifiers are a
request and its rival, and three generations hold a readback half, an intruder and a completion, or
a revocation, a new grant and its repetition. The four commands are those that commit in two
halves, that wait for the owner, and that change the work under them (`block`, with an unknown
outcome, the kind `_apply` guards); `resume`, `cancel` and `replan` take the path of `block`. The
theorems allow all seven, any number of sessions and identifiers and any generation.
*TaskAuthority:* three sessions let one end a task while a second closes it and a third is taking it
up; two obligation cycles let an assessment repeat an old one. The refinement also holds on two
tasks and two sessions with one cycle (3.3 million states, checked apart from the runs). Supersession of one task by another
is covered for any number of tasks and sessions by the theorems. The obligations' and stops' values are symmetric. *WorkflowEvidence:* two producers take over from one another, two edits change a file and change
it back during a run, and the two plans differ in whether they demand an independent review. Two
operations overlap only where both capture a candidate (`Overlap`), under one of the plans: the commit
of any operation ends all others, so an overlap shows itself only where both would commit. The
theorems need none of these bounds. *DurableSnapshot:* the minimum is 1 and
three instants make a manifest that is kept, one that expires and one that a process is publishing;
`durable` runs without hard links, where more can go wrong, and its `Contained` keeps one tree once
calls have overlapped; the theorems need neither, and hold with and without hard links. *DurableRestore:* two trees are an abandoned one and its successor; that
several restorers racing at one destination remove nothing of one another's, and that one at a time
stays whole with any number of snapshots, files and trees, are the theorems `OthersKept`,
`DatabaseWhole` and `PartialRecorded`. *TargetMigration:* one of each failure is enough for the
cases the code distinguishes, and together they meet: a snapshot taken between the portfolio write
and a rollback, the compute lost in that rollback, and the launch that follows. A second journal
begins only where the first ended, in a state like the first one's start; for the safety properties and
the refinement the theorems allow any number of journals, failures and edits. *HostMigration:* three
files are one written, one being written and one not yet; edits have one content; three faults are a crash, a late write and a failed recovery; the number of each is arbitrary in the theorems. *MemoryPromotion:* two tasks
and two snapshots are what a confirmation on evidence needs; three events hold a promotion, its
withdrawal and the next promotion; three calls hold a check, its rival and the owner's late answer.
All bounds are arbitrary in the theorems.

`ReachUnlessRaced` and `LatestHoldsNewest` of `durable` say what holds while calls take turns: the
guide says that the durable store does not provide distributed locks and that one writer is active
per authority (`docs/guides/portfolio-and-durable-state.md:467-478`). Under this rule the code is
sound whatever dies where; `NewestSurvives` and the second half of `ReachUnlessRaced` hold without
it, and section 6 says what does not.

## 4. Fairness and deadlock

`Converges` of `target_move` is the liveness property: an unfinished migration ends, or comes to one
of three named dead ends, however the owner alternates between resuming and rolling back. It is
checked under `FairSpec`: a command that was started goes on (weak fairness of its steps; it may die
`MaxCrashes` times); a live session ends, and one that finds a task open closes it (strong fairness,
because a session needs a launch first); and an owner who is refused tries again, so that a resume
or a rollback that would be accepted again and again is given (strong fairness, one for each
journal: the guide tells the owner to finish or reverse a migration with `--resume` or
`--rollback`). Nothing is assumed of edits, snapshots or losses. The dead ends are: a launch started
an epoch the journal does not know (`LaunchedAstray`), continuity was archived on a compute that was
lost before the journal recorded it (`ArchivedAstray`), and a file was edited in between, which the
code refuses to overwrite (`EditedAstray`). The
first needs neither a lost compute nor an edit (section 6).

The other specifications state no fairness. Every process may die and never return, every wait for
an owner may time out, and every transaction may give up on a locked database: nothing in the code
makes an approval or a checkpoint happen eventually.

Deadlock checking is off where the system may really stop: a workflow that is finished
(`Workflow`), every bounded request or generation used up (`OwnerApproval`, `WorkflowRuntime`),
every task ended and every session over (`TaskAuthority`), every task used up (`WorkflowEvidence`),
every move used up (`TargetMigration`).
It is on for the durable modules and the host migration.

## 5. What is proved

The theorems hold for every value of the constants, with the assumptions named in the modules
(types of the constant functions, `None` outside the data, finite bounds nonnegative). The main
ones, all by an inductive invariant and a case split with one lemma per group of actions:

**`WorkflowProofs`.** `TypeCorrect`. `EvidenceSound` is `EvidenceBound` (evidence concerns the
present candidate and contract, and each stage rests on the evidence below it) and `AuthoritySound`
is `DeliveryOnAuthority`; they are inductive only as a conjunction (with `Sound`, which also ties a
blocker's kind and the recovery outcome to the stage), because a revocation restores the qualified
stage and relies on the qualification still matching. `ParentsRest` uses that only open
work changes (`OnlyOpenWorkChanges`), so a completed child stays what its receipt says.
`NoDependencyRing`: the acyclicity of the pins is inductive because the walk is made in the same
transaction as the create or replan that adds the edges (`WalkOrKeep`). `UnknownSettledByReadback`
and `NothingWeakens` are action properties read off the effect of each operation. `ImplementsGrant`
is the refinement: initial states map to initial states and `StepImplementsGrant` maps each
operation to a step of `DeliveryGrant` or a stutter.

Of the runtime, in the same module: `RuntimeTypeCorrect`, `RetriesSafe` (a repeated request takes effect
once, its two halves stay adjacent, and what is reported as done was done for it) and
`DecidedOnWhatWasSeen` (a transition extends the generation it was decided on). The invariant
`RuntimeInv` says of the log which events are readbacks and that nothing follows a completion
(`LogSound`), and of each session what it still knows at its step (`SessionSound`): what it read is an
event of the log, the generation it expects is the one its request or its own readback gave
(`VerifySound`), what it is about to commit extends what it read, or its own readback after that (`CommitSound`),
and the answer it took is its request's (`AnswerSound`). The log only grows (`LogKept`), so a step of one session
leaves the others' knowledge true (`StaysSound`).

**`OwnerApprovalProofs`.** `TypeCorrect`, `ConsumedOnce`, `CommitsWhatWasShown`, `OneGrantPerReply`,
`StaysSettled`. The strengthening (`IInv`) adds that each row is what its subject says
(`RowsFaithful`), that a caller about to decide holds an answered row of its own subject
(`CallersLinked`), and that grants cite rows and lie below the present generation
(`GrantsLinked`). Nearly every step only advances the store (`StoreGrows`: no row is lost, settled
rows never change), and everything a process remembers is stable under that. That an exact answer
came in time needs a second invariant (`Timely`): a thread only grows, what a poller has read stands
in it, a request in the session has no deadline and only the reply its caller was given, and so every row answered
exactly has that reply in its thread from before its deadline. At most one request of a challenge is
ever answered exactly; any number may be declined.

**`WorkflowEvidenceProofs`.** `TypeCorrect`, `QualificationStands`, `ScopeStays`,
`ProducersTakeTurns` and `VerdictsConcernCandidate`: all that the run `evidence` checks. The invariant
says of each operation under way that what it has read still holds: that it may replace the candidate
(`CaptureSound`, because a closed task stays closed), that its files differ from the baseline in
planned ones only, that its verdict is that of the files unless they moved (`TestSound`), that its
reviewer saw this candidate (`ReviewSound`), that the producer is completed (`QualifySound`). A commit
makes all of it void at once (`CommitKeeps`), tasks only grow (`GrowKeeps`), and an edit touches tests
alone (`EditKeeps`). `ScopeKept` follows because every candidate of one admission is measured from one
baseline.

**`TaskAuthorityProofs`.** `TypeCorrect`, `HoldersVerified`, `ClosedBehindRecord`, `EndsForGood`,
`ImplementsLife`. Records and events are only ever added (`Grows`), and what another session relies
on half way through an operation (`Claims`: which task it is recording, which cycle it is
assessing, which record it is closing behind) is stable under growth; so each action has only its
own session to re-establish (`StepGood`). `ImplementsLife` is the refinement to `TaskLife`,
with the terminal records and closed events as its record and event: accepting and superseding is
one `Accept`, recording a receipt is a `TakeUp`, the first of a terminal record and a closed event
is the `End` and the second a `Conclude`; what was written once is never rewritten.

**`DurableRestoreProofs`.** `TypeCorrect` and `OthersKept`, for any number of restorers racing with
one another and with other programs: a file being written carries the name of the call that created
it (`WritesOwn`), a directory not yet created holds nothing (`UnusedEmpty`), and a database being
copied is there (`CopiesFile`); every other step is `Quiet`, touching no file. `DatabaseWhole` and
`PartialRecorded` are about one restorer at a time (`OneRestorer`, the documented rule; other
programs may still create files) and rest on `Solo`: what the code checked several steps ago still
holds at each step (`Half`), a record names the directory it lies in (`RecordsPlaced`), and a
restored database whose record is still there is the one that record announced (`RestoredWhole`),
which is why a call that died after publishing may be finished by removing the record. With two
restorers `Solo` is not invariant, and neither property is claimed: ownership is checked before a
step, not with it.

Of the checkpoints they restore, in the same module: `SnapshotTypeCorrect`, `NewestNeverDeleted`,
`ManifestsReach` and `LatestIsNewest`. The invariant `SnapInv` says of each writer that what it lists was published
and what it expires has at least `Minimum` later manifests (`ListSound`): a listing may be stale, but
manifests are only added after those in it, so being ranked low stays true. That alone proves
`NewestNeverDeleted`, for any overlap. While calls take turns, and beyond that until a manifest is deleted,
the blobs a writer has put are there (`PutSound`) and a writer that expires nothing sweeps nothing
(`SweepsNothing`), which proves `ManifestsReach`. While calls take turns a writer's listing is
the directory (`Alone`, `AloneSound`), which proves `LatestIsNewest`. `DirectoryParameters` assumes a
minimum of at least one, as the policy's validation does, and names of processes that differ from the
states of a file.

**`TargetMigrationProofs`.** `TypeCorrect`, `Sound`, `SplitsAreNamed`, `EndsAreAsRecorded` and
`ImplementsRoute`: every property of `target_move` but `Converges`. What makes a stopped migration
resumable is said of a tree and the portfolio beside it (`SoundTree`): journals came one after another
(`Ordered`), each holds what planning found (`Planned`) and records its steps in order (`Progress`); of the
one that is not over, portfolio and descriptor each name one of its two targets, they agree only where
the live epoch belongs, and that epoch is live or archived (`UnderWay`, `Kept`), and what it has recorded
is in the files (`Advancing`). With no such journal the three authorities agree, unless the portfolio was
edited by hand or a rollback put it back before an older tree was restored (`PutBack`). This must hold
of two trees: a restore puts the tree of the last snapshot beside the portfolio of now, which no
snapshot holds. So `Stored` says that the snapshot is sound for the present portfolio as well, an
earlier state of the tree (`Earlier`), and never behind the local steps once the journal records the
snapshot taken after them (`Snapped`): the portfolio is written only after that. `OpSound` ties the
running command to its journal; in a rollback, what is not left to compensate is back
(`ReverseSound`). `SplitsAreNamed` and `EndsAreAsRecorded` are read off this invariant.
`ImplementsRoute` maps each step: the first write that splits the two files closes the route, the one that
joins them opens it, archiving, starting and restoring the epoch exchange it in between, a launch
starts one on an open route, and a loss is a loss; all else is a stutter. Two assumptions are about
the constants of the model only: `None` and "nowhere" are none of the data.

**`HostMigrationProofs`.** `TypeCorrect`, `WholeAtLaunch` and `EditsStay`. That the files are whole
whenever a launcher may start says nothing about the middle of a setup; the invariant `Inv` does.
`Stored`: while no journal is pending the files are whole, and otherwise the journal a rollback
would work from fits them, that is, putting what it holds before or after into the files it covers
gives a whole installation. `InPhase`: in each phase the files already written hold what the journal
says and the others still hold what was seen. `Seen`: what a publishing command saw is what its
journal records. `InFlight`: a timed-out write leaves this true whenever it lands before the next
command. Edits are harmless to all of it since an edited file counts as any installation's, and a
command that finds one stops. `EditsStay` needs `Kept` on top of it: until its publication a setup
replaces only edits that were agreed to (`Agreed`), and a write that was compared, in the command's
hand or in flight, lands on an edit only where that was agreed to or the file changed since
(`Compared`). `Inv` and `Kept` hold on the checked instance as well.

**`MemoryPromotionProofs`.** `MemoryTypes`, `PromotionsAuthorized` and `DenouncedStaysOut`, from the
invariant `Inv`. It adds `Backed`: every attestation, cited by an event or not, has its clear passing
run and a task that completed on the tested snapshot. Without it a finalisation that cites all of a
memory's attestations would have to be trusted for the old ones. What evidence rests on only grows
(`Grows`), so a promotion keeps its ground; `Lower` leaves no promoting event behind, whoever calls
it (`LowerType`); and the step that denounces a memory lowers it in the same transaction
(`LowerSuspect`), while `Derive` reads the contradictions again in its own.

Liveness under fairness and `ENABLED`, induction over data, and `RECURSIVE` operators are out of
the proof system's reach; there are no recursive operators in these modules.

## 6. Disagreements between the code and its documents

One is a run expected to end in a violation, quoted with its lines under `findings` in
`PROJECT.json`.

- `evidence_scope`: the scope of a source change starts at the producer of the first candidate and not
  at the task that accepted the plan. When one task accepts the plan, a file outside it is committed,
  and another task, accepted after that, makes the first candidate, the change is never counted, nor
  in any recapture; the guide, the help text and the changelog say that scope is measured from plan
  admission. Only for managed artifacts does the code compare the two tasks.

Three properties state what a document, a comment or an assertion says and have no run; add them to
the named configuration to see them violated. `CompletedClosesAsCompleted` (`TaskAuthority`,
`MCTaskAuthority.cfg` with two tasks): a completed task's terminal record and its closed event are
two transactions (`_post_dispatch.py:146-152`); when the second fails, the next accept closes the task
as superseded (`_task_authority.py:475-493`), and the check of a completed producer then fails for
good (`_workflow_evidence.py:247-253`). `LastStaysReversible` (`HostMigration`, `MCHostHome.cfg`):
undoing a setup that failed half way removes the journal of the last completed one too
(`host_home.py:220`), which can then not be rolled back any more (`185-186`); the guide says the most
recent successful publication can be (`docs/guides/host-home.md:91`). `ConcurrentEditsPreserved`
(`HostMigration`, `MCHostHome.cfg`, as a property): an edit that arrives between the comparison of a
file and its write is overwritten (`host_home.py:627, 629` and `215, 217`), where the code says
"preserve concurrent edits" (`187`) and the guide that a rollback "refuses concurrent edits rather than
overwriting them" (`docs/guides/host-home.md:91-92`); a write that timed out before the edit does the
same when it lands. `EditsKept` holds with that window as its one exception.

More were met while modelling and have no run. A migration of a project without continuity that
dies between its journal and its first route write leaves the route open on the old target, and a
launch there starts an epoch the journal does not know: `--resume` then refuses it
(`_migration.py:860-862`), `--rollback` refuses it (`1059-1060`), and the unfinished journal blocks
new moves (`1271-1273`). A rollback that died before recording its end gets there too when a launch
follows it: `--rollback` says to finish with `--resume` (`1002`) and `--resume` with `--rollback`
(`1266`). The guide says of an interrupted move "Finish or reverse it with the same arguments plus
`--resume` or `--rollback`" (`docs/guides/portfolio-and-durable-state.md:617-618`); `Converges` names
this end as `LaunchedAstray`. Withdrawing a memory asks for its latest event and not for its status
(`codebase/_memory_promotion.py:1608-1617, 1583-1589`), so a memory that was activated, withdrawn to
candidate and then retired by the owner becomes a retrievable candidate again when the withdrawal
is repeated, where the help text has retirement "stop the memory from being selected into new tasks"
(`_dispatcher/_dispatch_table.py:1055-1063`). Rejecting or quarantining by a hygiene report appends
no event, so a later suspect or harmful report about that memory is refused with "projection
diverged" (`1580-1581`) and not recorded; a memory promoted before events were kept cannot be
reported suspect either. The evidence of an activation is compared with the latest withdrawal only
(`727-735`), so after the owner reactivated a withdrawn memory and it was withdrawn once more, the old
attestations activate it again. An application recorded between another session's look and its write
may follow a contradictory disposition (`codebase/_memory_lifecycle.py:340-350`). An owner command is committed at the generation
its own preparation read, not at the one its caller observed (`_workflow_runtime.py:42` against
`:191`); `DecidedOnCurrent` holds because the preparation is what the owner is shown. Delivered work
whose plan has an undischarged reconciliation obligation admits no public command that leads on,
except blocking (`_workflow.py:295-297`), where the reference speaks of recovering or replanning.
Two processes that ask for one challenge at once both post it (`human_input.py:506-519`), where the
docstring says that one challenge never posts twice; one reply still is one decision
(`ChallengeConsumedOnce`). With two writers a retention deletes a blob that a concurrent checkpoint
is about to reference (`durability.py:1638-1640, 2014-2023`), where the changelog says concurrent
writers can no longer wedge the store; and a checkpoint backed up before another's and dated after
it supersedes it with the older database (`durability.py:1913-1914`). A crash between creating the
destination and writing its record (`durability.py:619, 637`) leaves a directory that no recovery
accepts, where the guide says that a crash leaves the incomplete-restore record. A compute lost in a
rollback and restored from a snapshot taken after the portfolio write leaves a journal that records
the portfolio step; its resumption skips the step and completes with the portfolio at the old target
(`TakenBack`).

## 7. What is only model-checked, and what is not modelled

Only model-checked: the liveness property `Converges` of `TargetMigration`, which needs `ENABLED`.
Every other property of a passing run is a theorem as well. Not modelled: the
components listed as such in section 1 and in `PROJECT.json`; within modelled components, what
section 2 names. Of memory: selections taken over by another task, seeds and their withdrawal,
withdrawals by learning decisions (`codebase/structured_learning_context.py:2165-2176`), memories
shared by all projects with their authority, kill switches, deletion, search and ranking, import and
export, and the schema migrations. Hazards without a property carry a note saying what covering them needs.

## 8. Plan

Done: the workflow authority and its grant, owner approval, the runtime, the evidence it collects,
the task authority, the local durable store and restore, the project and host migrations, memory
promotion, with the proofs of section 5.

Next, in this order:

1. **`RequestLedger`**, an abstract specification of `WorkflowRuntime` (a request takes effect at
   most once and is answered with its effect), and the refinement.
2. The two abstract specifications named at the end of this section, with their refinements proved
   from `SnapInv` and `Solo`.
3. **`MemoryPromotion` extended** by selections taken over by another task, by withdrawals that
   learning decisions make, and by seeds.
4. **`WorkflowEvidence` extended** by managed artifacts with their own baseline and adoption, and by
   the acknowledged writes of Databricks folders.
5. **`LearningLedger`**: observations, triage, projection and legacy closing of obligations.
6. **`RemoteDurability`**: the Databricks transport, its snapshot index and the deletion of older
   indexes from a listing.
7. **`GovernanceLedger`** (one open generation per checkout, quarantine, replay) and
   **`ForensicJournal`** (idempotent appends, schema creation).
8. **`Continuity`** and retained test requests.

Abstract specifications planned: a store in which a manifest is a name for a whole state
(`DurableSnapshot`), a destination that is absent, partial and recorded, or restored
(`DurableRestore`).
