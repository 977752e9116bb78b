-------------------------- MODULE TargetMigration --------------------------
(***************************************************************************)
(* Moving a project to another target (_migration.py: move_target).  The   *)
(* portfolio, the project's descriptor PROJECT.md and the owner of its     *)
(* continuity epoch each name the target.  A journaled migration moves the *)
(* three one write at a time, taking durable snapshots on the way; it may  *)
(* die between any two writes, the compute may be lost and its state       *)
(* restored from the last snapshot, files may be edited by others, and     *)
(* sessions start wherever portfolio and descriptor agree.  A later call   *)
(* resumes or rolls back what the journal and the files say is left.       *)
(*                                                                         *)
(* A file's hash stands for its content: the target it names and an edit   *)
(* number for the rest of it.  As the module's documentation asks, local   *)
(* state has one writer: no session of the project is live while a         *)
(* migration command runs, and nobody moves the portfolio by hand while a  *)
(* migration is unfinished.                                                *)
(***************************************************************************)
EXTENDS Naturals

CONSTANTS
    Targets,       \* directories the project may live in
    Homes,         \* the anchor homes of the computes
    Durable,       \* a durable root is configured
    MaxMoves,      \* bound on the journals of one tree
    MaxEdits,      \* bound on the edits others make
    MaxCrashes,    \* bound on commands that die
    MaxLosses,     \* bound on lost computes
    MaxTasks,      \* bound on accepted tasks
    MaxNeighbours, \* bound on snapshots by sessions of other projects
    None           \* no epoch, no journal, no session, no snapshot

ASSUME DurableAssumption == Durable \in BOOLEAN
ASSUME BoundsAssumption ==
    /\ MaxMoves \in Nat /\ MaxEdits \in Nat /\ MaxCrashes \in Nat
    /\ MaxLosses \in Nat /\ MaxTasks \in Nat /\ MaxNeighbours \in Nat

VARIABLES
    portfolio, \* the portfolio file
    tree,      \* the local state: artifacts of the project and its database
    snap,      \* the local state in the last durable snapshot
    home,      \* the anchor home of the compute
    session,   \* the target of the project's live session, None without one
    op,        \* the migration command that runs
    used       \* what the bounds have been spent on, and hand moves

vars == <<portfolio, tree, snap, home, session, op, used>>

Moves == 1 .. MaxMoves
Names == 0 .. MaxMoves

Documents == [target : Targets, edit : 0 .. MaxEdits]
Owners == [target : Targets, home : Homes]
Epochs == [owner : Owners, id : Names]

Active == {"planned", "portfolio_pending", "portfolio_written", "rolling_back"}
States == Active \cup {"receipt_written", "completed", "rolled_back"}
Snapshots == {"pre_snapshot", "pending_snapshot", "post_snapshot"}
Steps == Snapshots \cup {"descriptor", "continuity", "portfolio", "receipt", "rollback_snapshot"}

\* portfolio, descriptor and epoch are what the journal found before its first write.
Journals ==
    [from : Targets, to : Targets, moved : BOOLEAN,
     portfolio : Documents, descriptor : Documents, epoch : Epochs \cup {None},
     state : States, done : SUBSET Steps, archived : Owners \cup {None}]

Trees ==
    [descriptor : Documents, live : Epochs \cup {None},
     archive : [Moves -> Epochs \cup {None}],
     journal : [Moves -> Journals \cup {None}],
     backups : [Moves -> SUBSET {"portfolio", "descriptor"}],
     receipts : SUBSET Moves, open : BOOLEAN]

\* None is none of the values it stands in for, and a closed route is at no target.
ASSUME OutsideAssumption ==
    /\ None \notin Targets \cup Epochs \cup Journals \cup Trees
    /\ "nowhere" \notin Targets

Acts == {"portfolio", "rename", "leave", "descriptor"}
Commands ==
    [phase : {"idle", "forward", "reverse", "publish"}, id : Moves \cup {None},
     checked : BOOLEAN, taken : BOOLEAN, acts : SUBSET Acts]

Idle == [phase |-> "idle", id |-> None, checked |-> FALSE, taken |-> FALSE, acts |-> {}]
Run(phase, id, acts) ==
    [phase |-> phase, id |-> id, checked |-> FALSE, taken |-> FALSE, acts |-> acts]
-----------------------------------------------------------------------------
(* What the stores say of a migration.                                     *)

Split == portfolio.target # tree.descriptor.target

NewPortfolio(j) == IF j.moved THEN j.portfolio ELSE [j.portfolio EXCEPT !.target = j.to]
NewDescriptor(j) == [j.descriptor EXCEPT !.target = j.to]

\* Before the first epoch there is no owner; a restore elsewhere relocates it.
ExpectedOwner(j) == [j.epoch.owner EXCEPT !.home = home]

NewEpoch(id) ==
    LET j == tree.journal[id]
    IN  /\ tree.live # None
        /\ tree.live.owner = [target |-> j.to, home |-> home]
        /\ \/ j.epoch = None
           \/ tree.archive[id] # None
           \/ tree.live.owner # ExpectedOwner(j)

\* Continuity is out of the way, or was never there.
Archived(id) ==
    /\ tree.archive[id] # None
    /\ tree.live = None \/ NewEpoch(id)

RouteRemaining(id) ==
    LET j == tree.journal[id]
    IN  \/ tree.descriptor # NewDescriptor(j)
        \/ j.epoch # None /\ ~ Archived(id)
        \/ ~ j.moved /\ portfolio # NewPortfolio(j)

RouteApplied(id) ==
    LET j == tree.journal[id]
    IN  \/ tree.descriptor # j.descriptor
        \/ tree.archive[id] # None
        \/ ~ j.moved /\ portfolio # j.portfolio

Unfinished(id) == tree.journal[id] # None /\ tree.journal[id].state \in Active

\* The journals a call with these arguments may be about.
Matches(from, to) ==
    {id \in Moves : /\ tree.journal[id] # None
                    /\ tree.journal[id].from = from
                    /\ tree.journal[id].to = to}
Over(id) == tree.journal[id].state \in {"completed", "rolled_back"}

\* The one journal that --resume and --rollback find.
Found(id) ==
    /\ tree.journal[id] # None
    /\ {i \in Matches(tree.journal[id].from, tree.journal[id].to) : ~ Over(i)} = {id}

\* Nothing of the project runs: a command may be given.
Stopped == op = Idle /\ session = None
-----------------------------------------------------------------------------
(* A new migration.                                                        *)

NewJournal(to) ==
    [from |-> tree.descriptor.target, to |-> to, moved |-> Split,
     portfolio |-> portfolio, descriptor |-> tree.descriptor, epoch |-> tree.live,
     state |-> "planned", done |-> {}, archived |-> None]

\* Portfolio and descriptor name --from, or the portfolio names --to already.
Start(id, to) ==
    /\ Stopped
    /\ \A i \in Moves : (tree.journal[i] = None) = (i >= id)
    /\ \A i \in Moves : ~ Unfinished(i)
    /\ to # tree.descriptor.target
    /\ portfolio.target \in {tree.descriptor.target, to}
    /\ ~ tree.open
    /\ tree' = [tree EXCEPT !.journal[id] = NewJournal(to)]
    /\ op' = Run("forward", id, {})
    /\ UNCHANGED <<portfolio, snap, home, session, used>>

Resume(id) ==
    /\ Stopped
    /\ Found(id)
    /\ tree.journal[id].state # "rolling_back"
    /\ RouteRemaining(id) => ~ tree.open
    /\ op' = Run("forward", id, {})
    /\ UNCHANGED <<portfolio, tree, snap, home, session, used>>
-----------------------------------------------------------------------------
(* Running forward.                                                        *)

J == tree.journal[op.id]

\* The two local steps, in the order that leaves every split route closed.
First(j) == IF j.moved THEN "continuity" ELSE "descriptor"
Second(j) == IF j.moved THEN "descriptor" ELSE "continuity"
\* Seeded fault: the second local step comes first.
ChainSwapped(j) == <<"pre_snapshot", Second(j), First(j), "pending_snapshot",
                     "portfolio", "receipt", "post_snapshot">>

Chain(j) == <<"pre_snapshot", First(j), Second(j), "pending_snapshot",
              "portfolio", "receipt", "post_snapshot">>

\* The step is the first of the chain that the journal does not record.
Due(step) ==
    /\ op.phase = "forward"
    /\ tree.backups[op.id] = {"portfolio", "descriptor"}
    /\ \E n \in 1 .. 7 : /\ Chain(J)[n] = step
                         /\ step \notin J.done
                         /\ \A m \in 1 .. n - 1 : Chain(J)[m] \in J.done
    /\ step \in {"descriptor", "continuity"} => op.checked

\* One replacement of the journal.
Recorded(step, state) ==
    [J EXCEPT !.done = @ \cup {step}, !.state = state]
Record(j) == tree' = [tree EXCEPT !.journal[op.id] = j]

\* Seeded fault: the state is named after the next step, which no reader knows.
LocalStateOfStep(step) == IF step = Second(J) THEN "portfolio" ELSE J.state

\* A local step that is the last one opens the portfolio step.
LocalState(step) == IF step = Second(J) THEN "portfolio_pending" ELSE J.state

Stop == op' = Idle /\ UNCHANGED <<portfolio, tree, snap, home, session, used>>

Untouched(which) ==
    IF which = "portfolio" THEN portfolio = J.portfolio ELSE tree.descriptor = J.descriptor

\* A file that matches neither what was recorded nor what is expected stops the command.
Backup(which) ==
    /\ op.phase = "forward"
    /\ which \notin tree.backups[op.id]
    /\ which = "descriptor" => "portfolio" \in tree.backups[op.id]
    /\ IF Untouched(which)
       THEN /\ tree' = [tree EXCEPT !.backups[op.id] = @ \cup {which}]
            /\ UNCHANGED <<portfolio, snap, home, session, op, used>>
       ELSE Stop

PublishSnapshot(step) ==
    /\ Due(step)
    /\ Durable /\ ~ op.taken
    /\ snap' = tree
    /\ op' = [op EXCEPT !.taken = TRUE]
    /\ UNCHANGED <<portfolio, tree, home, session, used>>

RecordSnapshot(step) ==
    /\ Due(step)
    /\ Durable => op.taken
    /\ Record(Recorded(step, IF step = "post_snapshot" THEN "completed" ELSE J.state))
    /\ op' = IF step = "post_snapshot" THEN Idle ELSE [op EXCEPT !.taken = FALSE]
    /\ UNCHANGED <<portfolio, snap, home, session, used>>

\* Right before the first local step quiescence is asked again.
Recheck ==
    /\ op.phase = "forward" /\ ~ op.checked
    /\ "pre_snapshot" \in J.done
    /\ ~ {"descriptor", "continuity"} \subseteq J.done
    /\ IF tree.open /\ RouteRemaining(op.id)
       THEN Stop
       ELSE /\ op' = [op EXCEPT !.checked = TRUE]
            /\ UNCHANGED <<portfolio, tree, snap, home, session, used>>

ApplyDescriptor ==
    /\ Due("descriptor")
    /\ tree.descriptor = J.descriptor
    /\ tree' = [tree EXCEPT !.descriptor = NewDescriptor(J)]
    /\ UNCHANGED <<portfolio, snap, home, session, op, used>>

RecordDescriptor ==
    /\ Due("descriptor")
    /\ tree.descriptor # J.descriptor
    /\ IF tree.descriptor = NewDescriptor(J)
       THEN /\ Record(Recorded("descriptor", LocalState("descriptor")))
            /\ UNCHANGED <<portfolio, snap, home, session, op, used>>
       ELSE Stop

Archivable ==
    /\ J.epoch # None
    /\ tree.live # None /\ ~ NewEpoch(op.id)
    /\ tree.archive[op.id] = None
    /\ tree.live.owner = ExpectedOwner(J)

ArchiveContinuity ==
    /\ Due("continuity")
    /\ Archivable
    /\ tree' = [tree EXCEPT !.archive[op.id] = tree.live, !.live = None]
    /\ UNCHANGED <<portfolio, snap, home, session, op, used>>

\* A launch on the finished route may have started the new epoch already.
ContinuityApplied ==
    IF J.epoch = None
    THEN tree.live = None \/ NewEpoch(op.id)
    ELSE Archived(op.id) /\ tree.archive[op.id].owner = ExpectedOwner(J)

RecordContinuity ==
    /\ Due("continuity")
    /\ ~ Archivable
    /\ IF ContinuityApplied
       THEN /\ Record([Recorded("continuity", LocalState("continuity")) EXCEPT !.archived =
                           IF J.epoch = None THEN None ELSE ExpectedOwner(J)])
            /\ UNCHANGED <<portfolio, snap, home, session, op, used>>
       ELSE Stop

WritePortfolio ==
    /\ Due("portfolio")
    /\ ~ J.moved /\ portfolio = J.portfolio
    /\ portfolio' = NewPortfolio(J)
    /\ used' = [used EXCEPT !.hand = FALSE]
    /\ UNCHANGED <<tree, snap, home, session, op>>

PortfolioApplied ==
    IF J.moved THEN portfolio.target = J.to ELSE portfolio = NewPortfolio(J)

RecordPortfolio ==
    /\ Due("portfolio")
    /\ J.moved \/ portfolio # J.portfolio
    /\ IF PortfolioApplied
       THEN /\ Record(Recorded("portfolio", "portfolio_written"))
            /\ UNCHANGED <<portfolio, snap, home, session, op, used>>
       ELSE Stop

\* The receipt is created once; one that is there already tells the same.
WriteReceipt ==
    /\ Due("receipt")
    /\ op.id \notin tree.receipts
    /\ tree' = [tree EXCEPT !.receipts = @ \cup {op.id}]
    /\ UNCHANGED <<portfolio, snap, home, session, op, used>>

RecordReceipt ==
    /\ Due("receipt")
    /\ op.id \in tree.receipts
    /\ Record(Recorded("receipt", "receipt_written"))
    /\ UNCHANGED <<portfolio, snap, home, session, op, used>>
-----------------------------------------------------------------------------
(* Rolling back.                                                           *)

\* Every compensation is decided before the first write, or the rollback is refused.
PortfolioReversible(j) ==
    \/ j.moved
    \/ portfolio \in {j.portfolio, NewPortfolio(j)}
    \/ "portfolio" \notin j.done /\ portfolio.target = j.from

\* Seeded fault: the homes are compared the wrong way round.
LeftArchivedHere(id) ==
    LET j == tree.journal[id]
    IN  /\ tree.archive[id].owner # ExpectedOwner(j)
        /\ "continuity" \in j.done
        /\ j.archived.home = home
        /\ tree.archive[id].owner = j.archived

\* Archived on another compute, under an owner that would not bind here.
LeftArchived(id) ==
    LET j == tree.journal[id]
    IN  /\ tree.archive[id].owner # ExpectedOwner(j)
        /\ "continuity" \in j.done
        /\ j.archived.home # home
        /\ tree.archive[id].owner = j.archived

ContinuityReversible(id) ==
    LET j == tree.journal[id]
    IN  IF j.epoch = None THEN tree.live = None
        ELSE \/ /\ tree.archive[id] # None /\ tree.live = None
                /\ tree.archive[id].owner = ExpectedOwner(j) \/ LeftArchived(id)
             \/ /\ tree.archive[id] = None /\ tree.live # None
                /\ tree.live.owner = ExpectedOwner(j)

Reversible(id) ==
    /\ id \notin tree.receipts
    /\ PortfolioReversible(tree.journal[id])
    /\ ~ NewEpoch(id)
    /\ ContinuityReversible(id)
    /\ tree.descriptor \in {tree.journal[id].descriptor, NewDescriptor(tree.journal[id])}

\* Seeded fault: the portfolio is put back only when the journal records its write.
CompensationsRecorded(id) ==
    LET j == tree.journal[id]
    IN  {a \in Acts :
            CASE a = "portfolio" -> "portfolio" \in j.done /\ ~ j.moved
              [] a = "rename" -> /\ j.epoch # None /\ tree.archive[id] # None
                                 /\ tree.archive[id].owner = ExpectedOwner(j)
              [] a = "leave" -> /\ j.epoch # None /\ tree.archive[id] # None
                                /\ LeftArchived(id)
              [] a = "descriptor" -> tree.descriptor = NewDescriptor(j)}

Compensations(id) ==
    LET j == tree.journal[id]
    IN  {a \in Acts :
            CASE a = "portfolio" -> ~ j.moved /\ portfolio = NewPortfolio(j)
              [] a = "rename" -> /\ j.epoch # None /\ tree.archive[id] # None
                                 /\ tree.archive[id].owner = ExpectedOwner(j)
              [] a = "leave" -> /\ j.epoch # None /\ tree.archive[id] # None
                                /\ LeftArchived(id)
              [] a = "descriptor" -> tree.descriptor = NewDescriptor(j)}

Rollback(id) ==
    /\ Stopped
    /\ Found(id)
    /\ tree.journal[id].state # "receipt_written"
    /\ Reversible(id)
    /\ RouteApplied(id) => ~ tree.open
    /\ tree' = [tree EXCEPT !.journal[id].state = "rolling_back"]
    /\ op' = Run("reverse", id, Compensations(id))
    /\ UNCHANGED <<portfolio, snap, home, session, used>>

\* The acts run in the reverse of the forward order.
Reversing(act) ==
    /\ op.phase = "reverse"
    /\ act \in op.acts
    /\ CASE act = "portfolio" -> TRUE
         [] act = "rename" -> "portfolio" \notin op.acts /\ (J.moved => "descriptor" \notin op.acts)
         [] act = "descriptor" -> "portfolio" \notin op.acts /\ (~ J.moved => "rename" \notin op.acts)
         [] OTHER -> FALSE

ReversePortfolio ==
    /\ Reversing("portfolio")
    /\ IF portfolio = NewPortfolio(J)
       THEN /\ portfolio' = J.portfolio
            /\ op' = [op EXCEPT !.acts = @ \ {"portfolio"}]
            /\ used' = [used EXCEPT !.hand = FALSE]
            /\ UNCHANGED <<tree, snap, home, session>>
       ELSE Stop

ReverseContinuity ==
    /\ Reversing("rename")
    /\ tree' = [tree EXCEPT !.live = tree.archive[op.id], !.archive[op.id] = None]
    /\ op' = [op EXCEPT !.acts = @ \ {"rename"}]
    /\ UNCHANGED <<portfolio, snap, home, session, used>>

ReverseDescriptor ==
    /\ Reversing("descriptor")
    /\ IF tree.descriptor = NewDescriptor(J)
       THEN /\ tree' = [tree EXCEPT !.descriptor = J.descriptor]
            /\ op' = [op EXCEPT !.acts = @ \ {"descriptor"}]
            /\ UNCHANGED <<portfolio, snap, home, session, used>>
       ELSE Stop

\* Seeded fault: the end is recorded before the descriptor is back.
RecordRolledBackEarly ==
    /\ op.phase = "reverse"
    /\ op.acts \subseteq {"leave", "descriptor"}
    /\ Record([J EXCEPT !.state = "rolled_back",
                        !.done = @ \ {"descriptor", "continuity", "portfolio"}])
    /\ op' = Run("publish", op.id, {})
    /\ UNCHANGED <<portfolio, snap, home, session, used>>

RecordRolledBack ==
    /\ op.phase = "reverse"
    /\ op.acts \subseteq {"leave"}
    /\ Record([J EXCEPT !.state = "rolled_back",
                        !.done = @ \ {"descriptor", "continuity", "portfolio"}])
    /\ op' = Run("publish", op.id, {})
    /\ UNCHANGED <<portfolio, snap, home, session, used>>

\* The rolled-back state is published, by this call or by a repeated one.
PublishRolledBack ==
    /\ op.phase = "publish" /\ Durable /\ ~ op.taken
    /\ snap' = tree
    /\ op' = [op EXCEPT !.taken = TRUE]
    /\ UNCHANGED <<portfolio, tree, home, session, used>>

RecordRollbackSnapshot ==
    /\ op.phase = "publish"
    /\ Durable => op.taken
    /\ Record(Recorded("rollback_snapshot", J.state))
    /\ op' = Idle
    /\ UNCHANGED <<portfolio, snap, home, session, used>>

\* Without an unfinished journal --rollback turns to the last finished one.
RepeatRollback(id) ==
    /\ Stopped
    /\ tree.journal[id] # None
    /\ tree.journal[id].state = "rolled_back"
    /\ \A i \in Matches(tree.journal[id].from, tree.journal[id].to) : Over(i) /\ i <= id
    /\ "rollback_snapshot" \notin tree.journal[id].done
    /\ op' = Run("publish", id, {})
    /\ UNCHANGED <<portfolio, tree, snap, home, session, used>>
-----------------------------------------------------------------------------
(* Sessions of the project.                                                *)

Fresh == CHOOSE e \in Names :
    /\ \A i \in Moves : tree.archive[i] # None => tree.archive[i].id # e
    /\ tree.live # None => tree.live.id # e

\* The route resolves only where portfolio and descriptor agree; the first
\* launch there starts the continuity epoch and a later one must own it.
Launch ==
    /\ Stopped
    /\ ~ Split
    /\ LET owner == [target |-> portfolio.target, home |-> home]
       IN  \/ /\ tree.live = None
              /\ tree' = [tree EXCEPT !.live = [owner |-> owner, id |-> Fresh]]
           \/ /\ tree.live # None
              /\ tree.live.owner = owner
              /\ UNCHANGED tree
    /\ session' = portfolio.target
    /\ UNCHANGED <<portfolio, snap, home, op, used>>

\* A task or workflow of the project is opened and closed by a session.
OpenTask ==
    /\ session # None
    /\ ~ tree.open
    /\ used.tasks < MaxTasks
    /\ tree' = [tree EXCEPT !.open = TRUE]
    /\ used' = [used EXCEPT !.tasks = @ + 1]
    /\ UNCHANGED <<portfolio, snap, home, session, op>>

CloseTask ==
    /\ session # None
    /\ tree.open
    /\ tree' = [tree EXCEPT !.open = FALSE]
    /\ UNCHANGED <<portfolio, snap, home, session, op, used>>

EndSession ==
    /\ session # None
    /\ session' = None
    /\ UNCHANGED <<portfolio, tree, snap, home, op, used>>

SessionSnapshot ==
    /\ Durable
    /\ session # None
    /\ snap' = tree
    /\ UNCHANGED <<portfolio, tree, home, session, op, used>>
-----------------------------------------------------------------------------
(* Everybody else, and failures.                                           *)

\* A session of another project in the same home snapshots the shared state.
NeighbourSnapshot ==
    /\ Durable
    /\ used.neighbours < MaxNeighbours
    /\ snap' = tree
    /\ used' = [used EXCEPT !.neighbours = @ + 1]
    /\ UNCHANGED <<portfolio, tree, home, session, op>>

\* Others edit something else in the portfolio or in PROJECT.md.
EditPortfolio ==
    /\ used.edits < MaxEdits
    /\ portfolio' = [portfolio EXCEPT !.edit = used.edits + 1]
    /\ used' = [used EXCEPT !.edits = @ + 1]
    /\ UNCHANGED <<tree, snap, home, session, op>>

EditDescriptor ==
    /\ used.edits < MaxEdits
    /\ tree' = [tree EXCEPT !.descriptor.edit = used.edits + 1]
    /\ used' = [used EXCEPT !.edits = @ + 1]
    /\ UNCHANGED <<portfolio, snap, home, session, op>>

\* The owner moves the project in the portfolio by hand, once no migration is
\* unfinished, neither here nor in the snapshot that a restore would bring back.
Settled(t) == \A i \in Moves : t.journal[i] # None => t.journal[i].state \notin Active

HandMove(to) ==
    /\ op = Idle
    /\ Settled(tree) /\ (snap # None => Settled(snap))
    /\ used.edits < MaxEdits
    /\ to # portfolio.target
    /\ portfolio' = [target |-> to, edit |-> used.edits + 1]
    /\ used' = [used EXCEPT !.edits = @ + 1, !.hand = TRUE]
    /\ UNCHANGED <<tree, snap, home, session, op>>

\* The command dies, or a step of it raises, between two writes.
Crash ==
    /\ op # Idle
    /\ used.crashes < MaxCrashes
    /\ op' = Idle
    /\ used' = [used EXCEPT !.crashes = @ + 1]
    /\ UNCHANGED <<portfolio, tree, snap, home, session>>

\* A compute is lost and prepared again from the last snapshot: the live epoch
\* is relocated to its home, archived ones stay as they were.
Relocated(t, h) ==
    IF t.live = None THEN t ELSE [t EXCEPT !.live.owner.home = h]

Lose(h) ==
    /\ snap # None
    /\ used.losses < MaxLosses
    /\ home' = h
    /\ tree' = Relocated(snap, h)
    /\ session' = None
    /\ op' = Idle
    /\ used' = [used EXCEPT !.losses = @ + 1]
    /\ UNCHANGED <<portfolio, snap>>
-----------------------------------------------------------------------------
Init ==
    \E t \in Targets, h \in Homes :
        /\ portfolio = [target |-> t, edit |-> 0]
        /\ tree = [descriptor |-> [target |-> t, edit |-> 0], live |-> None,
                   archive |-> [i \in Moves |-> None], journal |-> [i \in Moves |-> None],
                   backups |-> [i \in Moves |-> {}], receipts |-> {}, open |-> FALSE]
        /\ snap = None
        /\ home = h
        /\ session = None
        /\ op = Idle
        /\ used = [edits |-> 0, crashes |-> 0, losses |-> 0, tasks |-> 0,
                   neighbours |-> 0, hand |-> FALSE]

Forward ==
    \/ \E which \in {"portfolio", "descriptor"} : Backup(which)
    \/ \E step \in Snapshots : PublishSnapshot(step) \/ RecordSnapshot(step)
    \/ Recheck
    \/ ApplyDescriptor \/ RecordDescriptor
    \/ ArchiveContinuity \/ RecordContinuity
    \/ WritePortfolio \/ RecordPortfolio
    \/ WriteReceipt \/ RecordReceipt

Reverse ==
    \/ ReversePortfolio \/ ReverseContinuity \/ ReverseDescriptor
    \/ RecordRolledBack \/ PublishRolledBack \/ RecordRollbackSnapshot

Call ==
    \E id \in Moves :
        \/ \E to \in Targets : Start(id, to)
        \/ Resume(id) \/ Rollback(id) \/ RepeatRollback(id)

Sessions == Launch \/ OpenTask \/ CloseTask \/ EndSession \/ SessionSnapshot

Outside ==
    \/ NeighbourSnapshot \/ EditPortfolio \/ EditDescriptor
    \/ \E t \in Targets : HandMove(t)
    \/ Crash
    \/ \E h \in Homes : Lose(h)

Next == Forward \/ Reverse \/ Call \/ Sessions \/ Outside

Spec == Init /\ [][Next]_vars

\* A command that was started goes on; sessions close their tasks and are ended;
\* an owner who is never refused for good tries again until a call gets through.
Fairness ==
    /\ WF_vars(Forward \/ Reverse)
    /\ SF_vars(tree.open /\ Launch) /\ SF_vars(CloseTask) /\ WF_vars(EndSession)
    /\ \A id \in Moves : SF_vars(Resume(id)) /\ SF_vars(Rollback(id))

FairSpec == Spec /\ Fairness
-----------------------------------------------------------------------------
TypeOK ==
    /\ portfolio \in Documents
    /\ tree \in Trees
    /\ snap \in Trees \cup {None}
    /\ home \in Homes
    /\ session \in Targets \cup {None}
    /\ op \in Commands
    /\ used \in [edits : 0 .. MaxEdits, crashes : 0 .. MaxCrashes, losses : 0 .. MaxLosses,
                 tasks : 0 .. MaxTasks, neighbours : 0 .. MaxNeighbours, hand : BOOLEAN]

\* The sessions' view: whatever the migration does and wherever it dies, the epoch is
\* exchanged only while no launch can resolve the route, and the route opens again
\* only where the epoch belongs ("so every split state fails route resolution",
\* _local_order; the reversed order of _run_rollback).
Route == INSTANCE ProjectRoute WITH
    Nowhere <- "nowhere",
    route <- IF Split THEN "nowhere" ELSE portfolio.target,
    epoch <- IF tree.live = None THEN None
             ELSE [target |-> tree.live.owner.target, id |-> tree.live.id],
    losses <- used.losses
ImplementsProjectRoute == Route!Spec

\* The original epoch is where the end of its migration says.
EpochBack(j, id) ==
    IF j.epoch = None THEN tree.live = None
    ELSE \/ tree.live # None /\ tree.live.id = j.epoch.id
         \/ tree.archive[id] # None /\ tree.archive[id].id = j.epoch.id

EpochAway(j, id) ==
    /\ j.epoch # None => tree.archive[id] # None /\ tree.archive[id].id = j.epoch.id
    /\ tree.live # None => tree.live.owner.target = j.to

\* The portfolio was written back by a rollback, but a snapshot taken between the
\* write and the rollback was restored since: the journal still records the write.
TakenBack(id) ==
    LET j == tree.journal[id]
    IN  ~ j.moved /\ "portfolio" \in j.done /\ portfolio.target = j.from

\* When a migration records its end the three authorities are where that end says,
\* after any crashes, restores, edits by others and launches in between.
EndsAsRecorded ==
    [][\A id \in Moves :
        /\ op.phase = "reverse" /\ op.id = id /\ op'.phase = "publish" =>
            LET j == tree.journal[id]
            IN  /\ tree.descriptor.target = j.from
                /\ portfolio.target = IF j.moved THEN j.to ELSE j.from
                /\ EpochBack(j, id)
        /\ used'.losses = used.losses /\ id \in tree'.receipts \ tree.receipts =>
            LET j == tree.journal[id]
            IN  /\ tree.descriptor.target = j.to
                /\ portfolio.target = j.to \/ TakenBack(id)
                /\ EpochAway(j, id)]_vars

\* A split that nobody made by hand has an unfinished journal that names its two
\* targets, so that bootstrap can say migration_pending and how to go on.
SplitHasJournal ==
    Split /\ ~ used.hand =>
        \E id \in Moves :
            /\ tree.journal[id] # None
            /\ Unfinished(id) \/ TakenBack(id)
            /\ {tree.journal[id].from, tree.journal[id].to}
                  = {portfolio.target, tree.descriptor.target}

\* A launch started an epoch that the journal does not know and no call accepts.
LaunchedAstray(id) ==
    /\ tree.live # None
    /\ IF tree.journal[id].state = "rolling_back"
       THEN NewEpoch(id) \/ ~ ContinuityReversible(id)
       ELSE tree.journal[id].epoch = None /\ ~ NewEpoch(id)

\* The epoch was archived on a lost compute before the journal could record it.
ArchivedAstray(id) ==
    /\ tree.archive[id] # None /\ tree.live = None
    /\ tree.archive[id].owner # ExpectedOwner(tree.journal[id])
    /\ "continuity" \notin tree.journal[id].done

\* Others edited a file so that it matches neither what was recorded nor what is expected.
EditedAstray(id) ==
    \/ tree.descriptor \notin {tree.journal[id].descriptor, NewDescriptor(tree.journal[id])}
    \/ ~ PortfolioReversible(tree.journal[id])

\* "Finish or reverse it with the same arguments plus --resume or --rollback"
\* (docs/guides/portfolio-and-durable-state.md): apart from these three, in which the
\* code accepts neither, a migration that is resumed or rolled back again whenever it
\* is refused or dies gets to an end, however the owner's choices follow one another.
Converges ==
    \A id \in Moves : Unfinished(id) ~>
        (~ Unfinished(id) \/ LaunchedAstray(id) \/ ArchivedAstray(id) \/ EditedAstray(id))
=============================================================================
