----------------------- MODULE TargetMigrationProofs -----------------------
(***************************************************************************)
(* For any portfolio, any number of moves, crashes, restores and edits by  *)
(* others: why a migration that is stopped anywhere can be finished or     *)
(* taken back, and what the sessions see of it meanwhile.                  *)
(*                                                                         *)
(* A stored tree is sound for the portfolio that stands now (SoundTree):   *)
(* its journals came one after another, what the one under way has         *)
(* recorded is in the files, and the three authorities are no further      *)
(* than one step past it.  The portfolio is the one authority a restore    *)
(* does not bring back, so the same must hold of the tree in the remote    *)
(* snapshot (Stored): Lose puts that tree beside the portfolio of now.     *)
(* It does because a step is recorded before the snapshot of it is due     *)
(* (Snapped) and a journal only goes forward (Earlier).  The command that  *)
(* runs is where its journal says (OpSound), and each step of Next keeps   *)
(* all of it (StepSound).  From there follow the types, the journal of     *)
(* every split, what an end promises, and step by step the refinement of   *)
(* ProjectRoute.                                                           *)
(***************************************************************************)
EXTENDS TargetMigration, FiniteSetTheorems, TLAPS

Forwarding == Active \ {"rolling_back"}
LocalSteps == {"descriptor", "continuity"}

\* The journals that are not over (_run_apply, _run_rollback: what they resume).
Pending(t) == {i \in Moves : t.journal[i] # None /\ t.journal[i].state \in Active}

\* The live epoch is none, or of this target.
LiveAt(t, target) == t.live = None \/ t.live.owner.target = target

\* Journals are opened one after another, the next when the last is over.
Ordered(t) ==
    \A i \in Moves : t.journal[i] # None =>
        \A h \in Moves : h < i => t.journal[h] # None /\ h \notin Pending(t)

\* What a journal found.
Planned(j) ==
    /\ j.from # j.to
    /\ j.descriptor.target = j.from
    /\ j.portfolio.target = IF j.moved THEN j.to ELSE j.from
    /\ j.epoch # None => j.epoch.owner.target = j.from

\* What a journal records is recorded in order.
Progress(j) ==
    /\ j.state \in {"receipt_written", "completed"} =>
          LocalSteps \cup {"pre_snapshot", "pending_snapshot", "portfolio", "receipt"} \subseteq j.done
    /\ j.state \in Forwarding =>
          /\ "receipt" \notin j.done
          /\ First(j) \notin j.done => Second(j) \notin j.done
          /\ j.done \cap {"pending_snapshot", "portfolio"} # {} => LocalSteps \subseteq j.done

\* The epoch that the journal found is live or archived under it.
Kept(t, id) ==
    LET j == t.journal[id]
    IN  /\ t.archive[id] # None => j.epoch # None /\ t.archive[id].id = j.epoch.id
        /\ j.epoch # None /\ t.archive[id] = None => t.live # None /\ t.live.id = j.epoch.id

\* A migration under way: the portfolio moves last, and portfolio and descriptor
\* agree only where the live epoch belongs.
UnderWay(t, p, id) ==
    LET j == t.journal[id]
    IN  /\ p.target \in {j.from, j.to} /\ t.descriptor.target \in {j.from, j.to}
        /\ j.moved => p.target = j.to
        /\ ~ j.moved /\ p.target = j.to => LocalSteps \subseteq j.done /\ t.descriptor.target = j.to
        /\ p.target = t.descriptor.target => LiveAt(t, p.target)
        /\ Kept(t, id)

\* What its journal records is in the files.
Advancing(t, id) ==
    LET j == t.journal[id]
    IN  /\ "descriptor" \in j.done => t.descriptor.target = j.to
        /\ j.moved /\ "continuity" \notin j.done => t.descriptor.target = j.from
        /\ "continuity" \in j.done => LiveAt(t, j.to) /\ (j.epoch # None => t.archive[id] # None)
        /\ "continuity" \notin j.done =>
              IF t.archive[id] = None THEN LiveAt(t, j.from)
              ELSE t.live = None /\ (~ j.moved => t.descriptor.target = j.to)

\* A migration over: a rollback put the portfolio back that the journal still
\* records as written.
PutBack(t, i, from, to) ==
    LET j == t.journal[i]
    IN  j # None /\ i \notin Pending(t) /\ ~ j.moved /\ "portfolio" \in j.done /\ j.from = from /\ j.to = to

\* A tree is sound for a portfolio: the one migration under way explains what
\* stands, and when none is, the three authorities agree; otherwise the portfolio
\* was edited by hand or taken back before a restore.
SoundTree(t, p, hand) ==
    /\ Ordered(t)
    /\ \A i \in Moves : IF t.journal[i] = None THEN t.archive[i] = None
                        ELSE Planned(t.journal[i]) /\ Progress(t.journal[i])
    /\ \A id \in Pending(t) :
          /\ UnderWay(t, p, id)
          /\ t.journal[id].state \in Forwarding => Advancing(t, id)
          /\ t.journal[id].moved =>
                hand \/ \E i \in Moves : PutBack(t, i, t.journal[id].to, t.journal[id].from)
    /\ Pending(t) = {} =>
          /\ LiveAt(t, t.descriptor.target)
          /\ \/ p.target = t.descriptor.target \/ hand
             \/ \E i \in Moves : PutBack(t, i, p.target, t.descriptor.target)

\* Two records of one migration: what _plan found is never written again.
SamePlan(j, k) ==
    /\ j.from = k.from /\ j.to = k.to /\ j.moved = k.moved
    /\ j.portfolio = k.portfolio /\ j.descriptor = k.descriptor /\ j.epoch = k.epoch

\* s is an earlier state of t.
Earlier(s, t) ==
    \A i \in Moves : s.journal[i] # None =>
        /\ t.journal[i] # None /\ SamePlan(s.journal[i], t.journal[i])
        /\ t.journal[i].state \in Forwarding => s.journal[i].state \in Forwarding
        /\ t.journal[i].state \in Active => s.journal[i].state \in Active

\* The snapshot holds every journal that got past its first step, and its local
\* steps once the journal records the snapshot taken after them.
Snapped(s, t) ==
    \A i \in Moves : t.journal[i] # None /\ t.journal[i].done # {} =>
        /\ s # None /\ s.journal[i] # None
        /\ t.journal[i].state \in Forwarding /\ "pending_snapshot" \in t.journal[i].done =>
              LocalSteps \subseteq s.journal[i].done

\* The step of the chain that a journal is at.
AtStep(j, step) ==
    /\ step \notin j.done
    /\ step # "pre_snapshot" => "pre_snapshot" \in j.done
    /\ step = Second(j) => First(j) \in j.done
    /\ step \in {"pending_snapshot", "portfolio", "receipt", "post_snapshot"} => LocalSteps \subseteq j.done
    /\ step \in {"portfolio", "receipt", "post_snapshot"} => "pending_snapshot" \in j.done
    /\ step \in {"receipt", "post_snapshot"} => "portfolio" \in j.done
    /\ step = "post_snapshot" => "receipt" \in j.done

\* A migrating command's journal is at a step, and a snapshot it has published
\* but not recorded holds that journal.
ForwardSound ==
    op.phase = "forward" =>
        /\ J.state \in Forwarding \cup {"receipt_written"}
        /\ op.taken => /\ \E step \in Snapshots : AtStep(J, step)
                       /\ Durable /\ snap # None /\ snap.journal[op.id] # None
                       /\ snap.journal[op.id].done = J.done

\* What is left to compensate is what still has to be put back.
ReverseSound ==
    op.phase = "reverse" =>
        /\ J.state = "rolling_back"
        /\ "portfolio" \in op.acts => ~ J.moved
        /\ "portfolio" \notin op.acts /\ ~ J.moved => portfolio.target = J.from
        /\ "descriptor" \notin op.acts => tree.descriptor.target = J.from
        /\ LiveAt(tree, J.from)
        /\ J.epoch = None => tree.live = None
        /\ "rename" \in op.acts => /\ tree.live = None /\ tree.archive[op.id] # None
                                   /\ tree.archive[op.id].owner.target = J.from

\* The running command has a journal and its phase is the journal's.
OpSound ==
    /\ op.phase = "idle" => op = Idle
    /\ op.phase # "idle" => op.id \in Moves /\ tree.journal[op.id] # None
    /\ ForwardSound
    /\ ReverseSound
    /\ op.phase = "publish" => J.state = "rolled_back" /\ (op.taken => snap # None /\ snap.journal[op.id] # None)

\* The files and the snapshot, each beside the portfolio of now.
Stored ==
    /\ SoundTree(tree, portfolio, used.hand)
    /\ snap # None => SoundTree(snap, portfolio, used.hand) /\ Earlier(snap, tree)
    /\ IF Durable THEN Snapped(snap, tree) ELSE snap = None

IInv == TypeOK /\ Stored /\ OpSound

-----------------------------------------------------------------------------
(* What the types say.                                                     *)

LEMMA NoneOutside ==
    /\ None \notin Targets /\ None \notin Epochs /\ None \notin Journals /\ None \notin Trees
    /\ "nowhere" \notin Targets
BY OutsideAssumption

LEMMA TreeTypes ==
    ASSUME NEW t \in Trees
    PROVE  /\ t.descriptor \in Documents
           /\ t.live \in Epochs \cup {None}
           /\ t.archive \in [Moves -> Epochs \cup {None}]
           /\ t.journal \in [Moves -> Journals \cup {None}]
           /\ t.backups \in [Moves -> SUBSET {"portfolio", "descriptor"}]
           /\ t.receipts \in SUBSET Moves
           /\ t.open \in BOOLEAN
           /\ \A i \in Moves : t.journal[i] # None => t.journal[i] \in Journals
           /\ \A i \in Moves : t.archive[i] # None => t.archive[i] \in Epochs
BY DEF Trees

LEMMA JournalTypes ==
    ASSUME NEW j \in Journals
    PROVE  /\ j.from \in Targets /\ j.to \in Targets /\ j.moved \in BOOLEAN
           /\ j.portfolio \in Documents /\ j.descriptor \in Documents
           /\ j.epoch \in Epochs \cup {None}
           /\ j.state \in States /\ j.done \in SUBSET Steps
           /\ j.archived \in Owners \cup {None}
BY DEF Journals

LEMMA StateKinds ==
    ASSUME NEW s \in States
    PROVE  /\ s \in Forwarding => s \in Active /\ s \notin {"rolling_back", "receipt_written", "completed", "rolled_back"}
           /\ s \in Active => s \in Forwarding \/ s = "rolling_back"
           /\ s \notin Active => s \in {"receipt_written", "completed", "rolled_back"}
BY DEF States, Active, Forwarding

LEMMA NewFiles ==
    ASSUME NEW j \in Journals
    PROVE  /\ NewPortfolio(j) \in Documents
           /\ ~ j.moved => NewPortfolio(j).target = j.to
           /\ NewDescriptor(j) \in Documents
           /\ NewDescriptor(j).target = j.to
<1>1. /\ j.portfolio \in Documents /\ j.descriptor \in Documents /\ j.to \in Targets
  BY JournalTypes
<1>2. \A d \in Documents : [d EXCEPT !.target = j.to] \in Documents
                           /\ [d EXCEPT !.target = j.to].target = j.to
  BY <1>1 DEF Documents
<1> QED
  BY <1>1, <1>2 DEF NewPortfolio, NewDescriptor

-----------------------------------------------------------------------------
(* What a stored state is sound by.                                        *)

LEMMA OnePending ==
    ASSUME NEW t \in Trees, Ordered(t), NEW i \in Pending(t), NEW k \in Pending(t)
    PROVE  i = k
<1>1. i \in Nat /\ k \in Nat /\ i \in Moves /\ k \in Moves
  BY BoundsAssumption DEF Pending, Moves
<1>2. ~ (i < k) /\ ~ (k < i)
  BY <1>1 DEF Ordered, Pending
<1> QED
  BY <1>1, <1>2

\* Trees that differ in nothing that soundness is about.
Alike(t, u) ==
    /\ u.journal = t.journal /\ u.archive = t.archive
    /\ u.descriptor.target = t.descriptor.target
    /\ (u.live = None) = (t.live = None)
    /\ t.live # None => u.live.owner.target = t.live.owner.target /\ u.live.id = t.live.id

LEMMA AlikeSound ==
    ASSUME NEW t \in Trees, NEW u \in Trees, Alike(t, u),
           NEW p \in Documents, NEW q \in Documents, q.target = p.target, NEW hand \in BOOLEAN,
           SoundTree(t, p, hand)
    PROVE  SoundTree(u, q, hand)
<1>1. Pending(u) = Pending(t)
  BY DEF Alike, Pending
<1>2. \A target : LiveAt(u, target) = LiveAt(t, target)
  BY DEF Alike, LiveAt
<1>3. Ordered(u)
  BY <1>1 DEF Alike, Ordered, SoundTree
<1>4. \A i \in Moves : Kept(t, i) => Kept(u, i)
  BY DEF Alike, Kept
<1>5. \A i \in Moves : \A from, to : PutBack(t, i, from, to) => PutBack(u, i, from, to)
  BY <1>1 DEF Alike, PutBack
<1>6. ASSUME NEW id \in Pending(u)
      PROVE  /\ UnderWay(u, q, id)
             /\ u.journal[id].state \in Forwarding => Advancing(u, id)
             /\ u.journal[id].moved =>
                   hand \/ \E i \in Moves : PutBack(u, i, u.journal[id].to, u.journal[id].from)
  <2>1. id \in Pending(t) /\ id \in Moves
    BY <1>1, <1>6 DEF Pending
  <2>2. UnderWay(u, q, id)
    BY <1>2, <1>4, <2>1 DEF UnderWay, SoundTree, Alike
  <2>3. u.journal[id].state \in Forwarding => Advancing(u, id)
    BY <1>2, <2>1 DEF Advancing, SoundTree, Alike
  <2>4. u.journal[id].moved =>
           hand \/ \E i \in Moves : PutBack(u, i, u.journal[id].to, u.journal[id].from)
    BY <1>5, <2>1 DEF SoundTree, Alike
  <2> QED
    BY <2>2, <2>3, <2>4
<1>7. \A i \in Moves : IF u.journal[i] = None THEN u.archive[i] = None
                       ELSE Planned(u.journal[i]) /\ Progress(u.journal[i])
  BY DEF Alike, SoundTree
<1>8. Pending(u) = {} =>
          /\ LiveAt(u, u.descriptor.target)
          /\ \/ q.target = u.descriptor.target \/ hand
             \/ \E i \in Moves : PutBack(u, i, q.target, u.descriptor.target)
  BY <1>1, <1>2, <1>5 DEF Alike, SoundTree
<1> QED
  BY <1>3, <1>6, <1>7, <1>8 DEF SoundTree

\* The one journal that is pending, or was when the step began.
Others(t, u, id) ==
    \A i \in Moves \ {id} : u.journal[i] = t.journal[i] /\ u.archive[i] = t.archive[i]

\* The step of a migration under way leaves it under way.
LEMMA StillUnderWay ==
    ASSUME NEW t \in Trees, NEW u \in Trees, NEW p \in Documents, NEW q \in Documents,
           NEW hand \in BOOLEAN, NEW id \in Pending(t),
           SoundTree(t, p, hand), Others(t, u, id),
           u.journal[id] # None, SamePlan(t.journal[id], u.journal[id]),
           u.journal[id].state \in Active, Progress(u.journal[id]),
           UnderWay(u, q, id), u.journal[id].state \in Forwarding => Advancing(u, id)
    PROVE  SoundTree(u, q, hand)
<1>1. id \in Moves /\ t.journal[id] # None
  BY DEF Pending
<1>2. Pending(t) = {id}
  BY OnePending DEF SoundTree
<1>3. Pending(u) = {id}
  BY <1>1, <1>2 DEF Pending, Others
<1>4. Ordered(u)
  BY <1>1, <1>2, <1>3 DEF Ordered, SoundTree, Others
<1>5. \A i \in Moves : \A from, to : PutBack(t, i, from, to) => PutBack(u, i, from, to)
  BY <1>2, <1>3 DEF PutBack, Others
<1>6. Planned(u.journal[id])
  BY <1>1 DEF SoundTree, Planned, SamePlan
<1>7. \A i \in Moves : IF u.journal[i] = None THEN u.archive[i] = None
                       ELSE Planned(u.journal[i]) /\ Progress(u.journal[i])
  BY <1>6 DEF Others, SoundTree
<1>8. u.journal[id].moved =>
         hand \/ \E i \in Moves : PutBack(u, i, u.journal[id].to, u.journal[id].from)
  BY <1>5 DEF SoundTree, SamePlan
<1> QED
  BY <1>3, <1>4, <1>7, <1>8 DEF SoundTree

\* The step that ends it.
LEMMA NowOver ==
    ASSUME NEW t \in Trees, NEW u \in Trees, NEW p \in Documents,
           NEW hand \in BOOLEAN, NEW id \in Pending(t),
           SoundTree(t, p, hand), Others(t, u, id),
           u.journal[id] # None, SamePlan(t.journal[id], u.journal[id]),
           u.journal[id].state \notin Active, Progress(u.journal[id]),
           LiveAt(u, u.descriptor.target),
           \/ p.target = u.descriptor.target
           \/ t.journal[id].moved /\ p.target = t.journal[id].to
                                  /\ u.descriptor.target = t.journal[id].from
           \/ /\ ~ t.journal[id].moved /\ "portfolio" \in u.journal[id].done
              /\ p.target = t.journal[id].from /\ u.descriptor.target = t.journal[id].to
    PROVE  SoundTree(u, p, hand)
<1>1. id \in Moves /\ t.journal[id] # None
  BY DEF Pending
<1>2. Pending(t) = {id}
  BY OnePending DEF SoundTree
<1>3. Pending(u) = {}
  BY <1>1, <1>2 DEF Pending, Others
<1>4. Ordered(u)
  BY <1>1, <1>2, <1>3 DEF Ordered, SoundTree, Others
<1>5. \A i \in Moves : \A from, to : PutBack(t, i, from, to) => PutBack(u, i, from, to)
  BY <1>2, <1>3 DEF PutBack, Others
<1>6. Planned(u.journal[id])
  BY <1>1 DEF SoundTree, Planned, SamePlan
<1>7. \A i \in Moves : IF u.journal[i] = None THEN u.archive[i] = None
                       ELSE Planned(u.journal[i]) /\ Progress(u.journal[i])
  BY <1>6 DEF Others, SoundTree
<1>8. \/ p.target = u.descriptor.target \/ hand
      \/ \E i \in Moves : PutBack(u, i, p.target, u.descriptor.target)
  <2>1. CASE p.target = u.descriptor.target
    BY <2>1
  <2>2. CASE t.journal[id].moved /\ p.target = t.journal[id].to
                                 /\ u.descriptor.target = t.journal[id].from
    <3>1. hand \/ \E i \in Moves : PutBack(t, i, t.journal[id].to, t.journal[id].from)
      BY <2>2 DEF SoundTree
    <3> QED
      BY <1>5, <2>2, <3>1
  <2>3. CASE /\ ~ t.journal[id].moved /\ "portfolio" \in u.journal[id].done
             /\ p.target = t.journal[id].from /\ u.descriptor.target = t.journal[id].to
    <3>1. PutBack(u, id, p.target, u.descriptor.target)
      BY <1>3, <2>3 DEF PutBack, SamePlan
    <3> QED
      BY <1>1, <3>1
  <2> QED
    BY <2>1, <2>2, <2>3
<1> QED
  BY <1>3, <1>4, <1>7, <1>8 DEF SoundTree

\* A journal that is over records another step.
LEMMA StillOver ==
    ASSUME NEW t \in Trees, NEW u \in Trees, NEW p \in Documents, NEW hand \in BOOLEAN,
           NEW id \in Moves, t.journal[id] # None, id \notin Pending(t),
           SoundTree(t, p, hand), Others(t, u, id), u.archive[id] = t.archive[id],
           u.descriptor = t.descriptor, u.live = t.live,
           u.journal[id] # None, SamePlan(t.journal[id], u.journal[id]),
           u.journal[id].state \notin Active, Progress(u.journal[id]),
           t.journal[id].done \subseteq u.journal[id].done
    PROVE  SoundTree(u, p, hand)
<1>1. Pending(u) = Pending(t)
  BY DEF Pending, Others
<1>2. Ordered(u)
  BY <1>1 DEF Ordered, SoundTree, Others
<1>3. \A i \in Moves : \A from, to : PutBack(t, i, from, to) => PutBack(u, i, from, to)
  BY <1>1 DEF PutBack, Others, SamePlan
<1>4. Planned(u.journal[id])
  BY DEF SoundTree, Planned, SamePlan
<1>5. \A i \in Moves : IF u.journal[i] = None THEN u.archive[i] = None
                       ELSE Planned(u.journal[i]) /\ Progress(u.journal[i])
  BY <1>4 DEF Others, SoundTree
<1>6. ASSUME NEW k \in Pending(u)
      PROVE  /\ UnderWay(u, p, k)
             /\ u.journal[k].state \in Forwarding => Advancing(u, k)
             /\ u.journal[k].moved =>
                   hand \/ \E i \in Moves : PutBack(u, i, u.journal[k].to, u.journal[k].from)
  <2>1. k \in Pending(t) /\ k \in Moves /\ k # id
    BY <1>1, <1>6 DEF Pending
  <2>2. u.journal[k] = t.journal[k] /\ u.archive[k] = t.archive[k]
    BY <2>1 DEF Others
  <2>3. UnderWay(u, p, k)
    BY <2>1, <2>2 DEF UnderWay, Kept, LiveAt, SoundTree
  <2>4. u.journal[k].state \in Forwarding => Advancing(u, k)
    BY <2>1, <2>2 DEF Advancing, LiveAt, SoundTree
  <2>5. u.journal[k].moved =>
           hand \/ \E i \in Moves : PutBack(u, i, u.journal[k].to, u.journal[k].from)
    BY <1>3, <2>1, <2>2 DEF SoundTree
  <2> QED
    BY <2>3, <2>4, <2>5
<1>7. Pending(u) = {} =>
          /\ LiveAt(u, u.descriptor.target)
          /\ \/ p.target = u.descriptor.target \/ hand
             \/ \E i \in Moves : PutBack(u, i, p.target, u.descriptor.target)
  BY <1>1, <1>3 DEF SoundTree, LiveAt
<1> QED
  BY <1>2, <1>5, <1>6, <1>7 DEF SoundTree

\* Only a migration that found the route split owes its cause to somebody.
LEMMA OwesNothing ==
    ASSUME NEW t \in Trees, NEW p \in Documents, NEW hand \in BOOLEAN, NEW id \in Pending(t),
           SoundTree(t, p, hand), ~ t.journal[id].moved
    PROVE  SoundTree(t, p, FALSE)
<1>1. Pending(t) = {id}
  BY OnePending DEF SoundTree
<1> QED
  BY <1>1 DEF SoundTree

\* The portfolio is written after both local steps ...
LEMMA PortfolioMoved ==
    ASSUME NEW t \in Trees, NEW p \in Documents, NEW q \in Documents, NEW hand \in BOOLEAN,
           NEW id \in Pending(t), SoundTree(t, p, hand),
           t.journal[id].state \in Forwarding, ~ t.journal[id].moved,
           LocalSteps \subseteq t.journal[id].done, q.target = t.journal[id].to
    PROVE  SoundTree(t, q, FALSE)
<1>1. UnderWay(t, p, id) /\ Advancing(t, id)
  BY DEF SoundTree
<1>2. UnderWay(t, q, id)
  BY <1>1 DEF UnderWay, Advancing, LocalSteps
<1>3. /\ t.journal[id] # None /\ t.journal[id].state \in Active /\ Progress(t.journal[id])
  BY DEF Pending, SoundTree
<1>4. SamePlan(t.journal[id], t.journal[id]) /\ Others(t, t, id)
  BY DEF SamePlan, Others
<1>5. SoundTree(t, q, hand)
  BY <1>1, <1>2, <1>3, <1>4, StillUnderWay
<1> QED
  BY <1>5, OwesNothing

\* ... and put back before they are undone.
LEMMA PortfolioPutBack ==
    ASSUME NEW t \in Trees, NEW p \in Documents, NEW q \in Documents, NEW hand \in BOOLEAN,
           NEW id \in Pending(t), SoundTree(t, p, hand), ~ t.journal[id].moved,
           p.target = t.journal[id].to, q.target = t.journal[id].from
    PROVE  SoundTree(t, q, FALSE)
<1>1. UnderWay(t, p, id)
  BY DEF SoundTree
<1>2. /\ t.journal[id] # None /\ t.journal[id].state \in Active /\ Progress(t.journal[id])
      /\ Planned(t.journal[id])
  BY DEF Pending, SoundTree
<1>3. UnderWay(t, q, id)
  BY <1>1, <1>2 DEF UnderWay, Planned
<1>4. SamePlan(t.journal[id], t.journal[id]) /\ Others(t, t, id)
  BY DEF SamePlan, Others
<1>5. t.journal[id].state \in Forwarding => Advancing(t, id)
  BY DEF SoundTree
<1>6. SoundTree(t, q, hand)
  BY <1>2, <1>3, <1>4, <1>5, StillUnderWay
<1> QED
  BY <1>6, OwesNothing

\* A snapshot of a state is an earlier one of itself, and covers it.
LEMMA SelfSnapped ==
    ASSUME NEW t \in Trees, NEW p, NEW hand, SoundTree(t, p, hand)
    PROVE  Earlier(t, t) /\ Snapped(t, t)
<1>1. Earlier(t, t)
  BY DEF Earlier, SamePlan
<1>2. t # None
  BY NoneOutside
<1>3. \A i \in Moves : t.journal[i] # None => Progress(t.journal[i])
  BY DEF SoundTree
<1>4. Snapped(t, t)
  BY <1>2, <1>3 DEF Snapped, Progress
<1> QED
  BY <1>1, <1>4

\* A snapshot stays behind a step of one journal.
LEMMA StillEarlier ==
    ASSUME NEW s, NEW t \in Trees, NEW u \in Trees, NEW id \in Moves,
           \A i \in Moves \ {id} : u.journal[i] = t.journal[i],
           t.journal[id] # None, u.journal[id] # None, SamePlan(t.journal[id], u.journal[id]),
           u.journal[id].state \in Forwarding => t.journal[id].state \in Forwarding,
           u.journal[id].state \in Active => t.journal[id].state \in Active,
           Earlier(s, t)
    PROVE  Earlier(s, u)
BY DEF Earlier, SamePlan

\* Only one step of the chain is due.
LEMMA DueAt ==
    ASSUME NEW step, op.id \in Moves, tree \in Trees, tree.journal[op.id] # None, Due(step)
    PROVE  /\ AtStep(J, step) /\ op.phase = "forward"
           /\ step \in Snapshots \cup LocalSteps \cup {"portfolio", "receipt"}
<1>1. op.phase = "forward"
  BY DEF Due
<1>2. PICK n \in 1 .. 7 : /\ Chain(J)[n] = step /\ step \notin J.done
                          /\ \A m \in 1 .. n - 1 : Chain(J)[m] \in J.done
  BY DEF Due
<1>3. /\ Chain(J)[1] = "pre_snapshot" /\ Chain(J)[2] = First(J) /\ Chain(J)[3] = Second(J)
      /\ Chain(J)[4] = "pending_snapshot" /\ Chain(J)[5] = "portfolio"
      /\ Chain(J)[6] = "receipt" /\ Chain(J)[7] = "post_snapshot"
  BY DEF Chain
<1>4. {First(J), Second(J)} = LocalSteps
  BY DEF First, Second, LocalSteps
<1>5. \/ n = 1 /\ step = "pre_snapshot"
      \/ n = 2 /\ step = First(J) /\ "pre_snapshot" \in J.done
      \/ n = 3 /\ step = Second(J) /\ {"pre_snapshot", First(J)} \subseteq J.done
      \/ n = 4 /\ step = "pending_snapshot" /\ {"pre_snapshot", First(J), Second(J)} \subseteq J.done
      \/ /\ n = 5 /\ step = "portfolio"
         /\ {"pre_snapshot", First(J), Second(J), "pending_snapshot"} \subseteq J.done
      \/ /\ n = 6 /\ step = "receipt"
         /\ {"pre_snapshot", First(J), Second(J), "pending_snapshot", "portfolio"} \subseteq J.done
      \/ /\ n = 7 /\ step = "post_snapshot"
         /\ {"pre_snapshot", First(J), Second(J), "pending_snapshot", "portfolio", "receipt"} \subseteq J.done
  <2>1. CASE n = 1
    BY <1>2, <1>3, <2>1
  <2>2. CASE n = 2
    <3>1. 1 \in 1 .. n - 1
      BY <2>2
    <3> QED
      BY <1>2, <1>3, <2>2, <3>1
  <2>3. CASE n = 3
    <3>1. 1 \in 1 .. n - 1 /\ 2 \in 1 .. n - 1
      BY <2>3
    <3> QED
      BY <1>2, <1>3, <2>3, <3>1
  <2>4. CASE n = 4
    <3>1. 1 \in 1 .. n - 1 /\ 2 \in 1 .. n - 1 /\ 3 \in 1 .. n - 1
      BY <2>4
    <3> QED
      BY <1>2, <1>3, <2>4, <3>1
  <2>5. CASE n = 5
    <3>1. 1 \in 1 .. n - 1 /\ 2 \in 1 .. n - 1 /\ 3 \in 1 .. n - 1 /\ 4 \in 1 .. n - 1
      BY <2>5
    <3> QED
      BY <1>2, <1>3, <2>5, <3>1
  <2>6. CASE n = 6
    <3>1. 1 \in 1 .. n - 1 /\ 2 \in 1 .. n - 1 /\ 3 \in 1 .. n - 1 /\ 4 \in 1 .. n - 1 /\ 5 \in 1 .. n - 1
      BY <2>6
    <3> QED
      BY <1>2, <1>3, <2>6, <3>1
  <2>7. CASE n = 7
    <3>1. /\ 1 \in 1 .. n - 1 /\ 2 \in 1 .. n - 1 /\ 3 \in 1 .. n - 1
          /\ 4 \in 1 .. n - 1 /\ 5 \in 1 .. n - 1 /\ 6 \in 1 .. n - 1
      BY <2>7
    <3> QED
      BY <1>2, <1>3, <2>7, <3>1
  <2> QED
    BY <1>2, <2>1, <2>2, <2>3, <2>4, <2>5, <2>6, <2>7
<1>6. AtStep(J, step)
  BY <1>2, <1>4, <1>5 DEF AtStep, LocalSteps, First, Second
<1>7. step \in Snapshots \cup LocalSteps \cup {"portfolio", "receipt"}
  BY <1>4, <1>5 DEF Snapshots
<1> QED
  BY <1>1, <1>6, <1>7

LEMMA OneStep ==
    ASSUME NEW j, NEW a \in Snapshots, NEW b \in Snapshots \cup LocalSteps \cup {"portfolio", "receipt"},
           AtStep(j, a), AtStep(j, b)
    PROVE  a = b
BY DEF AtStep, Snapshots, LocalSteps, First, Second

-----------------------------------------------------------------------------
(* The type invariant.                                                     *)

\* There are more names than archived epochs.
LEMMA FreshName ==
    ASSUME tree \in Trees, tree.live = None
    PROVE  Fresh \in Names /\ \A i \in Moves : tree.archive[i] # None => tree.archive[i].id # Fresh
<1> DEFINE M == {i \in Moves : tree.archive[i] # None}
           f == [i \in M |-> tree.archive[i].id]
           T == {f[i] : i \in M}
<1>1. IsFiniteSet(Moves) /\ Cardinality(Moves) = MaxMoves
  BY FS_Interval, BoundsAssumption DEF Moves
<1>2. IsFiniteSet(Names) /\ Cardinality(Names) = MaxMoves + 1
  BY FS_Interval, BoundsAssumption DEF Names
<1>3. IsFiniteSet(M) /\ Cardinality(M) <= MaxMoves
  BY <1>1, FS_Subset
<1>4. f \in Surjection(M, T)
  BY DEF Surjection
<1>5. IsFiniteSet(T) /\ Cardinality(T) <= Cardinality(M)
  BY <1>3, <1>4, FS_Surjection
<1>6. ~ (Names \subseteq T)
  <2>1. Cardinality(M) \in Nat /\ Cardinality(T) \in Nat
    BY <1>3, <1>5, FS_CardinalityType
  <2>2. SUFFICES ASSUME Names \subseteq T PROVE FALSE
    OBVIOUS
  <2>3. Cardinality(Names) <= Cardinality(T)
    BY <1>5, <2>2, FS_Subset
  <2> QED
    BY <1>2, <1>3, <1>5, <2>1, <2>3, BoundsAssumption
<1>7. PICK e \in Names : e \notin T
  BY <1>6
<1>8. \A i \in Moves : tree.archive[i] # None => tree.archive[i].id # e
  BY <1>7
<1> QED
  BY <1>7, <1>8 DEF Fresh

LEMMA InitTypes == Init => TypeOK
<1> SUFFICES ASSUME NEW t \in Targets, NEW h \in Homes,
                    portfolio = [target |-> t, edit |-> 0],
                    tree = [descriptor |-> [target |-> t, edit |-> 0], live |-> None,
                            archive |-> [i \in Moves |-> None], journal |-> [i \in Moves |-> None],
                            backups |-> [i \in Moves |-> {}], receipts |-> {}, open |-> FALSE],
                    snap = None, home = h, session = None, op = Idle,
                    used = [edits |-> 0, crashes |-> 0, losses |-> 0, tasks |-> 0,
                            neighbours |-> 0, hand |-> FALSE]
             PROVE  TypeOK
  BY DEF Init
<1>1. [target |-> t, edit |-> 0] \in Documents
  BY BoundsAssumption DEF Documents
<1>2. tree \in Trees
  BY <1>1 DEF Trees
<1>3. op \in Commands
  BY DEF Commands, Idle
<1>4. used \in [edits : 0 .. MaxEdits, crashes : 0 .. MaxCrashes, losses : 0 .. MaxLosses,
                tasks : 0 .. MaxTasks, neighbours : 0 .. MaxNeighbours, hand : BOOLEAN]
  BY BoundsAssumption
<1> QED
  BY <1>1, <1>2, <1>3, <1>4 DEF TypeOK

LEMMA CommandTypes ==
    ASSUME op \in Commands
    PROVE  /\ op.phase \in {"idle", "forward", "reverse", "publish"} /\ op.id \in Moves \cup {None}
           /\ op.acts \in SUBSET Acts
           /\ Idle \in Commands
           /\ \A phase \in {"forward", "reverse", "publish"}, id \in Moves, acts \in SUBSET Acts :
                 Run(phase, id, acts) \in Commands
           /\ \A b \in BOOLEAN : [op EXCEPT !.taken = b] \in Commands
           /\ \A b \in BOOLEAN : [op EXCEPT !.checked = b] \in Commands
           /\ \A a : [op EXCEPT !.acts = @ \ {a}] \in Commands
BY DEF Commands, Idle, Run

\* One replacement of a tree.
LEMMA TreeWrites ==
    ASSUME NEW t \in Trees, NEW id \in Moves
    PROVE  /\ \A j \in Journals : [t EXCEPT !.journal[id] = j] \in Trees
           /\ \A d \in Documents : [t EXCEPT !.descriptor = d] \in Trees
           /\ \A b \in BOOLEAN : [t EXCEPT !.open = b] \in Trees
           /\ [t EXCEPT !.receipts = @ \cup {id}] \in Trees
           /\ \A w \in {"portfolio", "descriptor"} : [t EXCEPT !.backups[id] = @ \cup {w}] \in Trees
           /\ \A e, l \in Epochs \cup {None} : [t EXCEPT !.archive[id] = e, !.live = l] \in Trees
           /\ \A e, l \in Epochs \cup {None} : [t EXCEPT !.live = l, !.archive[id] = e] \in Trees
           /\ \A l \in Epochs \cup {None} : [t EXCEPT !.live = l] \in Trees
<1>1. \A j \in Journals : [t EXCEPT !.journal[id] = j] \in Trees
  BY DEF Trees
<1>2. \A d \in Documents : [t EXCEPT !.descriptor = d] \in Trees
  BY DEF Trees
<1>3. \A b \in BOOLEAN : [t EXCEPT !.open = b] \in Trees
  BY DEF Trees
<1>4. [t EXCEPT !.receipts = @ \cup {id}] \in Trees
  BY DEF Trees
<1>5. \A w \in {"portfolio", "descriptor"} : [t EXCEPT !.backups[id] = @ \cup {w}] \in Trees
  <2> SUFFICES ASSUME NEW w \in {"portfolio", "descriptor"}
               PROVE  [t EXCEPT !.backups[id] = @ \cup {w}] \in Trees
    OBVIOUS
  <2>1. t.backups[id] \cup {w} \in SUBSET {"portfolio", "descriptor"}
    BY DEF Trees
  <2> QED
    BY <2>1 DEF Trees
<1>6. \A e, l \in Epochs \cup {None} : [t EXCEPT !.archive[id] = e, !.live = l] \in Trees
  BY DEF Trees
<1>7. \A e, l \in Epochs \cup {None} : [t EXCEPT !.live = l, !.archive[id] = e] \in Trees
  BY DEF Trees
<1>8. \A l \in Epochs \cup {None} : [t EXCEPT !.live = l] \in Trees
  BY DEF Trees
<1> QED
  BY <1>1, <1>2, <1>3, <1>4, <1>5, <1>6, <1>7, <1>8

LEMMA EpochTypes ==
    ASSUME NEW e \in Epochs
    PROVE  /\ e.owner \in Owners /\ e.owner.target \in Targets /\ e.owner.home \in Homes /\ e.id \in Names
           /\ \A h \in Homes : [e.owner EXCEPT !.home = h] \in Owners
           /\ \A h \in Homes : [e.owner EXCEPT !.home = h].target = e.owner.target
           /\ \A h \in Homes : [e EXCEPT !.owner.home = h] \in Epochs
           /\ \A h \in Homes : [e EXCEPT !.owner.home = h].owner.target = e.owner.target
           /\ \A h \in Homes : [e EXCEPT !.owner.home = h].id = e.id
BY DEF Epochs, Owners

\* Another home owns the live epoch, and nothing else changes.
LEMMA RelocatedAlike ==
    ASSUME NEW t \in Trees, NEW h \in Homes
    PROVE  Relocated(t, h) \in Trees /\ Alike(t, Relocated(t, h))
<1>1. CASE t.live = None
  BY <1>1 DEF Relocated, Alike
<1>2. CASE t.live # None
  <2> DEFINE e == [t.live EXCEPT !.owner.home = h]
  <2>1. t.live \in Epochs
    BY <1>2, TreeTypes
  <2>2. e \in Epochs /\ e.owner.target = t.live.owner.target /\ e.id = t.live.id
    BY <2>1, EpochTypes
  <2>3. Relocated(t, h) = [t EXCEPT !.live = e]
    BY <1>2 DEF Relocated
  <2> HIDE DEF e
  <2>4. [t EXCEPT !.live = e] \in Trees
    BY <2>2 DEF Trees
  <2>5. /\ [t EXCEPT !.live = e].live = e /\ [t EXCEPT !.live = e].journal = t.journal
        /\ [t EXCEPT !.live = e].archive = t.archive /\ [t EXCEPT !.live = e].descriptor = t.descriptor
    BY DEF Trees
  <2>6. e # None
    BY <2>2, NoneOutside
  <2> QED
    BY <1>2, <2>2, <2>3, <2>4, <2>5, <2>6 DEF Alike
<1> QED
  BY <1>1, <1>2
LEMMA Running ==
    ASSUME IInv, op.phase # "idle"
    PROVE  /\ op.id \in Moves /\ J # None /\ J \in Journals /\ J = tree.journal[op.id]
           /\ Planned(J) /\ Progress(J)
<1>1. op.id \in Moves /\ tree.journal[op.id] # None /\ tree \in Trees
  BY DEF IInv, OpSound, TypeOK
<1>2. tree.journal[op.id] \in Journals
  BY <1>1, TreeTypes
<1>3. Planned(tree.journal[op.id]) /\ Progress(tree.journal[op.id])
  BY <1>1 DEF IInv, Stored, SoundTree
<1> QED
  BY <1>1, <1>2, <1>3 DEF J

\* What the bounds may have been spent on.
Spent == [edits : 0 .. MaxEdits, crashes : 0 .. MaxCrashes, losses : 0 .. MaxLosses,
          tasks : 0 .. MaxTasks, neighbours : 0 .. MaxNeighbours, hand : BOOLEAN]

LEMMA SpentTypes ==
    ASSUME NEW u \in Spent
    PROVE  /\ u.hand \in BOOLEAN /\ u.losses \in Nat /\ u.edits \in Nat
           /\ u.edits < MaxEdits => /\ u.edits + 1 \in 0 .. MaxEdits
                                    /\ [u EXCEPT !.edits = @ + 1] \in Spent
                                    /\ [u EXCEPT !.edits = @ + 1, !.hand = TRUE] \in Spent
           /\ u.crashes < MaxCrashes => [u EXCEPT !.crashes = @ + 1] \in Spent
           /\ u.losses < MaxLosses => [u EXCEPT !.losses = @ + 1] \in Spent
           /\ u.tasks < MaxTasks => [u EXCEPT !.tasks = @ + 1] \in Spent
           /\ u.neighbours < MaxNeighbours => [u EXCEPT !.neighbours = @ + 1] \in Spent
           /\ [u EXCEPT !.hand = FALSE] \in Spent
<1>1. u.hand \in BOOLEAN /\ u.losses \in Nat /\ u.edits \in Nat
  BY BoundsAssumption DEF Spent
<1>2. u.edits < MaxEdits => u.edits + 1 \in 0 .. MaxEdits
  BY BoundsAssumption DEF Spent
<1>3. \A e \in 0 .. MaxEdits : [u EXCEPT !.edits = e] \in Spent
  BY DEF Spent
<1>4. \A e \in 0 .. MaxEdits : [u EXCEPT !.edits = e, !.hand = TRUE] \in Spent
  BY DEF Spent
<1>5. u.crashes < MaxCrashes => [u EXCEPT !.crashes = @ + 1] \in Spent
  BY BoundsAssumption DEF Spent
<1>6. u.losses < MaxLosses => [u EXCEPT !.losses = @ + 1] \in Spent
  BY BoundsAssumption DEF Spent
<1>7. u.tasks < MaxTasks => [u EXCEPT !.tasks = @ + 1] \in Spent
  BY BoundsAssumption DEF Spent
<1>8. u.neighbours < MaxNeighbours => [u EXCEPT !.neighbours = @ + 1] \in Spent
  BY BoundsAssumption DEF Spent
<1>9. [u EXCEPT !.hand = FALSE] \in Spent
  BY DEF Spent
<1> QED
  BY <1>1, <1>2, <1>3, <1>4, <1>5, <1>6, <1>7, <1>8, <1>9

\* One replacement of the journal by another of the same plan.
LEMMA Records ==
    ASSUME J \in Journals, NEW step \in Steps, NEW state \in States
    PROVE  /\ Recorded(step, state) \in Journals
           /\ Recorded(step, state).done = J.done \cup {step} /\ Recorded(step, state).state = state
           /\ SamePlan(J, Recorded(step, state))
<1>1. J.done \cup {step} \in SUBSET Steps
  BY JournalTypes
<1>2. Recorded(step, state) \in Journals
  BY <1>1 DEF Journals, Recorded
<1>3. Recorded(step, state).done = J.done \cup {step} /\ Recorded(step, state).state = state
  BY DEF Journals, Recorded
<1>4. SamePlan(J, Recorded(step, state))
  BY DEF SamePlan, Journals, Recorded
<1> QED
  BY <1>2, <1>3, <1>4

LEMMA ArchivedBy ==
    ASSUME NEW j \in Journals, NEW o \in Owners \cup {None}
    PROVE  LET k == [j EXCEPT !.archived = o]
           IN  k \in Journals /\ k.done = j.done /\ k.state = j.state /\ SamePlan(j, k)
<1>1. [j EXCEPT !.archived = o] \in Journals
  BY DEF Journals
<1>2. /\ [j EXCEPT !.archived = o].done = j.done /\ [j EXCEPT !.archived = o].state = j.state
      /\ SamePlan(j, [j EXCEPT !.archived = o])
  BY DEF Journals, SamePlan
<1> QED
  BY <1>1, <1>2

LEMMA StateWrites ==
    ASSUME NEW j \in Journals, NEW state \in States
    PROVE  /\ LET k == [j EXCEPT !.state = state]
              IN  k \in Journals /\ k.done = j.done /\ k.state = state /\ SamePlan(j, k)
           /\ LET k == [j EXCEPT !.state = state,
                                 !.done = @ \ {"descriptor", "continuity", "portfolio"}]
              IN  /\ k \in Journals /\ k.done = j.done \ {"descriptor", "continuity", "portfolio"}
                  /\ k.state = state /\ SamePlan(j, k)
<1>1. LET k == [j EXCEPT !.state = state]
      IN  k \in Journals /\ k.done = j.done /\ k.state = state /\ SamePlan(j, k)
  BY DEF Journals, SamePlan
<1>2. [j EXCEPT !.state = state, !.done = @ \ {"descriptor", "continuity", "portfolio"}] \in Journals
  <2>1. j.done \ {"descriptor", "continuity", "portfolio"} \in SUBSET Steps
    BY JournalTypes
  <2> QED
    BY <2>1 DEF Journals
<1>3. LET k == [j EXCEPT !.state = state,
                         !.done = @ \ {"descriptor", "continuity", "portfolio"}]
      IN  /\ k.done = j.done \ {"descriptor", "continuity", "portfolio"}
          /\ k.state = state /\ SamePlan(j, k)
  BY DEF Journals, SamePlan
<1> QED
  BY <1>1, <1>2, <1>3
-----------------------------------------------------------------------------
(* Steps that change nothing the invariant is about.                       *)

LEMMA QuietStep ==
    ASSUME IInv, tree' \in Trees, Alike(tree, tree'), portfolio' \in Documents,
           portfolio'.target = portfolio.target, used'.hand = used.hand, snap' = snap
    PROVE  Stored'
<1>1. /\ tree \in Trees /\ portfolio \in Documents /\ used.hand \in BOOLEAN
      /\ snap \in Trees \cup {None}
  <2>1. used \in Spent
    BY DEF IInv, TypeOK, Spent
  <2> QED
    BY <2>1, SpentTypes DEF IInv, TypeOK
<1>2. SoundTree(tree', portfolio', used.hand)
  BY <1>1, AlikeSound DEF IInv, Stored
<1>3. snap # None => SoundTree(snap, portfolio', used.hand)
  <2>1. SUFFICES ASSUME snap # None PROVE SoundTree(snap, portfolio', used.hand)
    OBVIOUS
  <2>2. Alike(snap, snap)
    BY DEF Alike
  <2> QED
    BY <1>1, <2>1, <2>2, AlikeSound DEF IInv, Stored
<1>4. snap # None => Earlier(snap, tree')
  BY DEF IInv, Stored, Earlier, Alike
<1>5. IF Durable THEN Snapped(snap, tree') ELSE snap = None
  BY DEF IInv, Stored, Snapped, Alike
<1>6. Stored' = (/\ SoundTree(tree', portfolio', used'.hand)
                 /\ snap' # None => SoundTree(snap', portfolio', used'.hand) /\ Earlier(snap', tree')
                 /\ IF Durable THEN Snapped(snap', tree') ELSE snap' = None)
  BY DEF Stored
<1> QED
  BY <1>2, <1>3, <1>4, <1>5, <1>6

LEMMA QuietOp ==
    ASSUME IInv, Alike(tree, tree'), portfolio'.target = portfolio.target, snap' = snap,
           \/ op' = op \/ op' = Idle
           \/ op.phase # "idle" /\ op' = [op EXCEPT !.checked = TRUE]
    PROVE  OpSound'
<1>1. CASE op' = Idle
  BY <1>1 DEF OpSound, ForwardSound, ReverseSound, Idle
<1>2. CASE op' # Idle
  <2>1. op.phase # "idle"
    BY <1>2 DEF IInv, OpSound
  <2>2. /\ op'.phase = op.phase /\ op'.id = op.id /\ op'.acts = op.acts /\ op'.taken = op.taken
    BY <1>2 DEF IInv, TypeOK, Commands
  <2>3. op'.id \in Moves /\ tree'.journal[op'.id] # None
    BY <2>1, <2>2 DEF IInv, OpSound, Alike
  <2>4. tree'.journal[op'.id] = tree.journal[op.id]
    BY <2>2 DEF Alike
  <2>5. ForwardSound'
    BY <2>2, <2>4 DEF IInv, OpSound, ForwardSound, J
  <2>6. ReverseSound'
    BY <2>2, <2>4 DEF IInv, OpSound, ReverseSound, J, Alike, LiveAt
  <2>7. op'.phase = "publish" => J'.state = "rolled_back" /\ (op'.taken => snap' # None /\ snap'.journal[op'.id] # None)
    BY <2>2, <2>4 DEF IInv, OpSound, J
  <2> QED
    BY <2>1, <2>2, <2>3, <2>5, <2>6, <2>7 DEF OpSound
<1> QED
  BY <1>1, <1>2

\* A snapshot of the tree as it is.
LEMMA SnapshotStep ==
    ASSUME IInv, Durable, snap' = tree, tree' = tree, portfolio' = portfolio, used'.hand = used.hand,
           \/ op' = op
           \/ op' = [op EXCEPT !.taken = TRUE] /\ op.phase = "publish"
           \/ op' = [op EXCEPT !.taken = TRUE] /\ op.phase = "forward" /\ \E step \in Snapshots : Due(step)
    PROVE  Stored' /\ OpSound'
<1>1. tree \in Trees
  BY DEF IInv, TypeOK
<1>2. Stored'
  <2>1. SoundTree(tree, portfolio, used.hand) /\ Earlier(tree, tree) /\ Snapped(tree, tree)
    BY <1>1, SelfSnapped DEF IInv, Stored
  <2>2. Stored' = (/\ SoundTree(tree', portfolio', used'.hand)
                   /\ snap' # None => SoundTree(snap', portfolio', used'.hand) /\ Earlier(snap', tree')
                   /\ IF Durable THEN Snapped(snap', tree') ELSE snap' = None)
    BY DEF Stored
  <2> QED
    BY <2>1, <2>2
<1>3. tree # None
  BY <1>1, NoneOutside
<1>4. OpSound'
  <2>1. /\ op'.phase = op.phase /\ op'.id = op.id /\ op'.acts = op.acts
        /\ op'.taken # op.taken => op.phase \in {"forward", "publish"}
    BY DEF IInv, TypeOK, Commands
  <2>2. op.phase = "idle" => op' = op
    OBVIOUS
  <2>3. J' = tree.journal[op.id] /\ J = tree.journal[op.id]
    BY <2>1 DEF J
  <2>4. op.phase # "idle" => op.id \in Moves /\ tree.journal[op.id] # None
    BY DEF IInv, OpSound
  <2>5. ForwardSound'
    <3>1. SUFFICES ASSUME op.phase = "forward"
                   PROVE  /\ J'.state \in Forwarding \cup {"receipt_written"}
                          /\ op'.taken => /\ \E step \in Snapshots : AtStep(J', step)
                                          /\ Durable /\ snap' # None /\ snap'.journal[op'.id] # None
                                          /\ snap'.journal[op'.id].done = J'.done
      BY <2>1 DEF ForwardSound
    <3>2. J.state \in Forwarding \cup {"receipt_written"}
      BY <3>1 DEF IInv, OpSound, ForwardSound
    <3>3. op'.taken => \E step \in Snapshots : AtStep(J, step)
      <4>1. CASE op' = op
        BY <3>1, <4>1 DEF IInv, OpSound, ForwardSound
      <4>2. CASE op' # op
        BY <1>1, <2>4, <3>1, <4>2, DueAt
      <4> QED
        BY <4>1, <4>2
    <3> QED
      BY <1>3, <2>1, <2>3, <2>4, <3>1, <3>2, <3>3
  <2>6. ReverseSound'
    BY <2>1, <2>3 DEF IInv, OpSound, ReverseSound, LiveAt
  <2>7. op'.phase = "publish" => J'.state = "rolled_back" /\ (op'.taken => snap' # None /\ snap'.journal[op'.id] # None)
    BY <1>3, <2>1, <2>3, <2>4 DEF IInv, OpSound
  <2> QED
    BY <2>1, <2>2, <2>4, <2>5, <2>6, <2>7 DEF OpSound, IInv
<1> QED
  BY <1>2, <1>4

\* One journal is replaced by another of the same plan.
LEMMA JournalStep ==
    ASSUME IInv, tree' \in Trees, portfolio' = portfolio, snap' = snap, used'.hand = used.hand,
           NEW id \in Moves, \A i \in Moves \ {id} : tree'.journal[i] = tree.journal[i],
           tree.journal[id] # None, tree'.journal[id] # None,
           SamePlan(tree.journal[id], tree'.journal[id]),
           tree'.journal[id].state \in Forwarding => tree.journal[id].state \in Forwarding,
           tree'.journal[id].state \in Active => tree.journal[id].state \in Active,
           Durable /\ tree'.journal[id].done # {} =>
              /\ snap # None /\ snap.journal[id] # None
              /\ tree'.journal[id].state \in Forwarding /\ "pending_snapshot" \in tree'.journal[id].done =>
                    LocalSteps \subseteq snap.journal[id].done,
           SoundTree(tree', portfolio, used.hand)
    PROVE  Stored'
<1>1. tree \in Trees
  BY DEF IInv, TypeOK
<1>2. snap # None => SoundTree(snap, portfolio, used.hand) /\ Earlier(snap, tree')
  <2>1. SUFFICES ASSUME snap # None PROVE Earlier(snap, tree')
    BY DEF IInv, Stored
  <2>2. Earlier(snap, tree)
    BY <2>1 DEF IInv, Stored
  <2> QED
    BY <1>1, <2>2, StillEarlier
<1>3. IF Durable THEN Snapped(snap, tree') ELSE snap = None
  <2>1. CASE Durable
    <3>1. Snapped(snap, tree)
      BY <2>1 DEF IInv, Stored
    <3>2. tree'.journal[id].done # {} => snap # None /\ snap.journal[id] # None
      BY <2>1
    <3>3. tree'.journal[id].state \in Forwarding /\ "pending_snapshot" \in tree'.journal[id].done =>
             LocalSteps \subseteq snap.journal[id].done
      BY <2>1
    <3> QED
      BY <2>1, <3>1, <3>2, <3>3 DEF Snapped
  <2>2. CASE ~ Durable
    BY <2>2 DEF IInv, Stored
  <2> QED
    BY <2>1, <2>2
<1>4. Stored' = (/\ SoundTree(tree', portfolio', used'.hand)
                 /\ snap' # None => SoundTree(snap', portfolio', used'.hand) /\ Earlier(snap', tree')
                 /\ IF Durable THEN Snapped(snap', tree') ELSE snap' = None)
  BY DEF Stored
<1> QED
  BY <1>2, <1>3, <1>4

\* What the snapshot is known to hold.
LEMMA SnapshotHolds ==
    ASSUME IInv, Durable, NEW id \in Moves, tree.journal[id] # None, tree.journal[id].done # {}
    PROVE  /\ snap # None /\ snap.journal[id] # None
           /\ tree.journal[id].state \in Forwarding /\ "pending_snapshot" \in tree.journal[id].done =>
                 LocalSteps \subseteq snap.journal[id].done
BY DEF IInv, Stored, Snapped
-----------------------------------------------------------------------------
(* The steps: new calls, sessions, and everybody else.                     *)

LEMMA KeptTypes ==
    ASSUME IInv
    PROVE  /\ portfolio \in Documents /\ tree \in Trees /\ snap \in Trees \cup {None}
           /\ home \in Homes /\ session \in Targets \cup {None} /\ op \in Commands
           /\ used \in Spent /\ used.hand \in BOOLEAN /\ portfolio.target \in Targets
<1>1. used \in Spent
  BY DEF IInv, TypeOK, Spent
<1>2. used.hand \in BOOLEAN
  BY <1>1, SpentTypes
<1> QED
  BY <1>1, <1>2 DEF IInv, TypeOK, Documents

LEMMA TypesAgain ==
    ASSUME portfolio' \in Documents, tree' \in Trees, snap' \in Trees \cup {None},
           home' \in Homes, session' \in Targets \cup {None}, op' \in Commands, used' \in Spent
    PROVE  TypeOK'
BY DEF TypeOK, Spent

LEMMA AlikeSelf == \A t : Alike(t, t)
BY DEF Alike

\* Nothing but the command or the session.
LEMMA CommandStep ==
    ASSUME IInv, UNCHANGED <<portfolio, tree, snap, home, used>>,
           session' \in Targets \cup {None}, op' \in Commands, OpSound'
    PROVE  IInv'
<1>1. Stored'
  BY KeptTypes, AlikeSelf, QuietStep
<1>2. TypeOK'
  BY KeptTypes, TypesAgain
<1> QED
  BY <1>1, <1>2 DEF IInv

LEMMA StopStep == IInv /\ Stop => IInv'
<1> SUFFICES ASSUME IInv, Stop PROVE IInv'
  OBVIOUS
<1>1. OpSound'
  BY AlikeSelf, QuietOp DEF Stop
<1> QED
  BY <1>1, KeptTypes, CommandTypes, CommandStep DEF Stop

LEMMA StartStep ==
    ASSUME IInv, NEW id \in Moves, NEW to \in Targets, Start(id, to)
    PROVE  IInv'
<1> DEFINE k == NewJournal(to)
<1>1. /\ op = Idle /\ session = None
      /\ \A i \in Moves : (tree.journal[i] = None) = (i >= id)
      /\ \A i \in Moves : ~ Unfinished(i)
      /\ to # tree.descriptor.target
      /\ portfolio.target \in {tree.descriptor.target, to}
      /\ tree' = [tree EXCEPT !.journal[id] = k]
      /\ op' = Run("forward", id, {})
      /\ UNCHANGED <<portfolio, snap, home, session, used>>
  BY DEF Start, Stopped
<1>2. tree \in Trees
  BY KeptTypes
<1>3. /\ k \in Journals /\ k # None /\ k.state = "planned" /\ k.done = {}
      /\ k.from = tree.descriptor.target /\ k.to = to /\ k.moved = Split /\ k.moved \in BOOLEAN
      /\ k.epoch = tree.live /\ k.portfolio = portfolio /\ k.descriptor = tree.descriptor
  <2>1. tree.descriptor \in Documents /\ tree.live \in Epochs \cup {None} /\ portfolio \in Documents
    BY <1>2, TreeTypes, KeptTypes
  <2>2. k \in Journals
    BY <2>1 DEF NewJournal, Journals, Documents, Split, States, Active
  <2> QED
    BY <2>2, NoneOutside DEF NewJournal, Split
<1> HIDE DEF k
<1>4. /\ tree' \in Trees /\ tree'.journal = [tree.journal EXCEPT ![id] = k]
      /\ tree'.descriptor = tree.descriptor /\ tree'.live = tree.live /\ tree'.archive = tree.archive
  <2>1. [tree EXCEPT !.journal[id] = k] \in Trees
    BY <1>2, <1>3, TreeWrites
  <2> QED
    BY <1>1, <1>2, <2>1 DEF Trees
<1>5. tree'.journal[id] = k /\ \A i \in Moves \ {id} : tree'.journal[i] = tree.journal[i]
  BY <1>2, <1>4, TreeTypes
<1>6. tree.journal[id] = None
  BY <1>1, BoundsAssumption DEF Moves
<1>7. Pending(tree) = {}
  BY <1>1 DEF Pending, Unfinished
<1>8. Pending(tree') = {id}
  BY <1>3, <1>5, <1>7 DEF Pending, Active
<1>9. SoundTree(tree', portfolio, used.hand)
  <2>1. SoundTree(tree, portfolio, used.hand)
    BY DEF IInv, Stored
  <2>2. Ordered(tree')
    <3>1. SUFFICES ASSUME NEW i \in Moves, tree'.journal[i] # None, NEW h \in Moves, h < i
                   PROVE  tree'.journal[h] # None /\ h \notin Pending(tree')
      BY DEF Ordered
    <3>2. i \in Int /\ h \in Int /\ id \in Int
      BY BoundsAssumption DEF Moves
    <3>3. i <= id
      BY <1>1, <1>5, <3>1, <3>2
    <3>4. h # id /\ ~ (h >= id)
      BY <3>1, <3>2, <3>3
    <3> QED
      BY <1>1, <1>5, <1>8, <3>4
  <2>3. Planned(k)
    BY <1>1, <1>3, <2>1, <1>7 DEF SoundTree, Planned, Split, LiveAt
  <2>4. Progress(k)
    BY <1>3 DEF Progress, Forwarding, Active
  <2>5. \A i \in Moves : IF tree'.journal[i] = None THEN tree'.archive[i] = None
                         ELSE Planned(tree'.journal[i]) /\ Progress(tree'.journal[i])
    BY <1>4, <1>5, <1>3, <2>1, <2>3, <2>4 DEF SoundTree
  <2>6. tree.archive[id] = None
    BY <1>6, <2>1 DEF SoundTree
  <2>7. LiveAt(tree, tree.descriptor.target)
    BY <1>7, <2>1 DEF SoundTree
  <2>8. Kept(tree', id)
    BY <1>3, <1>4, <1>5, <2>6 DEF Kept
  <2>9. UnderWay(tree', portfolio, id)
    BY <1>1, <1>3, <1>4, <1>5, <2>7, <2>8 DEF UnderWay, Split, LiveAt
  <2>10. Advancing(tree', id)
    BY <1>3, <1>4, <1>5, <2>6, <2>7 DEF Advancing, LiveAt
  <2>11. k.moved => used.hand \/ \E i \in Moves : PutBack(tree', i, k.to, k.from)
    <3>1. SUFFICES ASSUME k.moved, ~ used.hand PROVE \E i \in Moves : PutBack(tree', i, k.to, k.from)
      OBVIOUS
    <3>2. portfolio.target = k.to /\ portfolio.target # tree.descriptor.target
      BY <1>1, <1>3, <3>1 DEF Split
    <3>3. PICK i \in Moves : PutBack(tree, i, portfolio.target, tree.descriptor.target)
      BY <1>7, <2>1, <3>1, <3>2 DEF SoundTree
    <3>4. i # id
      BY <1>6, <3>3 DEF PutBack
    <3>5. PutBack(tree', i, k.to, k.from)
      BY <1>3, <1>5, <1>8, <3>2, <3>3, <3>4 DEF PutBack
    <3> QED
      BY <3>5
  <2> QED
    BY <1>5, <1>8, <2>2, <2>5, <2>9, <2>10, <2>11 DEF SoundTree
<1>10. Stored'
  <2>1. snap # None => SoundTree(snap, portfolio, used.hand) /\ Earlier(snap, tree')
    BY <1>5, <1>6 DEF IInv, Stored, Earlier
  <2>2. IF Durable THEN Snapped(snap, tree') ELSE snap = None
    BY <1>3, <1>5 DEF IInv, Stored, Snapped
  <2>3. Stored' = (/\ SoundTree(tree', portfolio', used'.hand)
                   /\ snap' # None => SoundTree(snap', portfolio', used'.hand) /\ Earlier(snap', tree')
                   /\ IF Durable THEN Snapped(snap', tree') ELSE snap' = None)
    BY DEF Stored
  <2> QED
    BY <1>1, <1>9, <2>1, <2>2, <2>3
<1>11. OpSound'
  <2>1. op'.phase = "forward" /\ op'.id = id /\ op'.taken = FALSE
    BY <1>1 DEF Run
  <2>2. J' = k
    BY <1>5, <2>1 DEF J
  <2> QED
    BY <1>3, <1>5, <2>1, <2>2 DEF OpSound, ForwardSound, ReverseSound, Forwarding, Active
<1>12. TypeOK'
  BY <1>1, <1>4, KeptTypes, CommandTypes, TypesAgain
<1> QED
  BY <1>10, <1>11, <1>12 DEF IInv

LEMMA ResumeStep ==
    ASSUME IInv, NEW id \in Moves, Resume(id)
    PROVE  IInv'
<1>1. /\ op' = Run("forward", id, {}) /\ UNCHANGED <<portfolio, tree, snap, home, session, used>>
      /\ tree.journal[id] # None /\ tree.journal[id].state # "rolling_back" /\ ~ Over(id)
  <2>1. Found(id) => tree.journal[id] # None /\ ~ Over(id)
    BY DEF Found
  <2> QED
    BY <2>1 DEF Resume
<1>2. tree.journal[id].state \in Forwarding \cup {"receipt_written"}
  <2>1. tree.journal[id].state \in States
    BY <1>1, KeptTypes, TreeTypes, JournalTypes
  <2> QED
    BY <1>1, <2>1 DEF Over, States, Forwarding, Active
<1>3. op'.phase = "forward" /\ op'.id = id /\ op'.taken = FALSE
  BY <1>1 DEF Run
<1>4. OpSound'
  BY <1>1, <1>2, <1>3 DEF OpSound, ForwardSound, ReverseSound, J
<1> QED
  BY <1>1, <1>4, KeptTypes, CommandTypes, CommandStep

LEMMA RepeatRollbackStep ==
    ASSUME IInv, NEW id \in Moves, RepeatRollback(id)
    PROVE  IInv'
<1>1. /\ op' = Run("publish", id, {}) /\ UNCHANGED <<portfolio, tree, snap, home, session, used>>
      /\ tree.journal[id] # None /\ tree.journal[id].state = "rolled_back"
  BY DEF RepeatRollback
<1>2. op'.phase = "publish" /\ op'.id = id /\ op'.taken = FALSE
  BY <1>1 DEF Run
<1>3. OpSound'
  BY <1>1, <1>2 DEF OpSound, ForwardSound, ReverseSound, J
<1> QED
  BY <1>1, <1>3, KeptTypes, CommandTypes, CommandStep
LEMMA RollbackStep ==
    ASSUME IInv, NEW id \in Moves, Rollback(id)
    PROVE  IInv'
<1> DEFINE j == tree.journal[id]
           k == [j EXCEPT !.state = "rolling_back"]
<1>1. /\ op = Idle /\ Found(id) /\ j.state # "receipt_written" /\ Reversible(id)
      /\ tree' = [tree EXCEPT !.journal[id] = k]
      /\ op' = Run("reverse", id, Compensations(id))
      /\ UNCHANGED <<portfolio, snap, home, session, used>>
  BY DEF Rollback, Stopped
<1>2. tree \in Trees /\ portfolio \in Documents
  BY KeptTypes
<1>3. j # None /\ j \in Journals /\ ~ Over(id)
  <2>1. j # None /\ ~ Over(id)
    BY <1>1 DEF Found
  <2> QED
    BY <1>2, <2>1, TreeTypes
<1>4. k \in Journals /\ k.done = j.done /\ k.state = "rolling_back" /\ SamePlan(j, k) /\ k # None
  <2>1. "rolling_back" \in States
    BY DEF States, Active
  <2> HIDE DEF j
  <2>2. k \in Journals
    BY <1>3, <2>1 DEF Journals
  <2>3. k.done = j.done /\ k.state = "rolling_back"
    BY <1>3 DEF Journals
  <2>4. SamePlan(j, k)
    BY <1>3 DEF Journals, SamePlan
  <2> QED
    BY <2>2, <2>3, <2>4, NoneOutside
<1>5. j.state \in Active
  <2>1. j.state \in States
    BY <1>3, JournalTypes
  <2> QED
    BY <1>1, <1>3, <2>1 DEF Over, States
<1> HIDE DEF k
<1>6. /\ tree' \in Trees /\ tree'.journal = [tree.journal EXCEPT ![id] = k]
      /\ tree'.descriptor = tree.descriptor /\ tree'.live = tree.live /\ tree'.archive = tree.archive
  <2>1. [tree EXCEPT !.journal[id] = k] \in Trees
    BY <1>2, <1>4, TreeWrites
  <2> QED
    BY <1>1, <1>2, <2>1 DEF Trees
<1>7. tree'.journal[id] = k /\ \A i \in Moves \ {id} : tree'.journal[i] = tree.journal[i]
  BY <1>2, <1>6, TreeTypes
<1>8. id \in Pending(tree)
  BY <1>3, <1>5 DEF Pending
<1>9. /\ SoundTree(tree, portfolio, used.hand) /\ UnderWay(tree, portfolio, id) /\ Planned(j)
  BY <1>8, <1>3 DEF IInv, Stored, SoundTree
<1>10. SoundTree(tree', portfolio, used.hand)
  <2>1. UnderWay(tree', portfolio, id)
    BY <1>4, <1>6, <1>7, <1>9 DEF UnderWay, Kept, LiveAt, SamePlan
  <2>2. Progress(k) /\ k.state \in Active /\ k.state \notin Forwarding
    BY <1>4 DEF Progress, Active, Forwarding
  <2>3. Others(tree, tree', id)
    BY <1>6, <1>7 DEF Others
  <2>4. /\ tree'.journal[id] # None /\ SamePlan(tree.journal[id], tree'.journal[id])
        /\ tree'.journal[id].state \in Active /\ tree'.journal[id].state \notin Forwarding
        /\ Progress(tree'.journal[id])
    BY <1>4, <1>7, <2>2
  <2>5. used.hand \in BOOLEAN
    BY KeptTypes
  <2>6. tree'.journal[id].state \in Forwarding => Advancing(tree', id)
    BY <2>4
  <2>7. SoundTree(tree, portfolio, used.hand)
    BY <1>9
  <2>8. tree' \in Trees
    BY <1>6
  <2> QED
    BY <1>2, <1>8, <2>1, <2>3, <2>4, <2>5, <2>6, <2>7, <2>8, StillUnderWay
<1>11. Stored'
  <2>1. tree'.journal[id].state \notin Forwarding
    BY <1>4, <1>7 DEF Active, Forwarding
  <2>2. Durable /\ tree'.journal[id].done # {} => snap # None /\ snap.journal[id] # None
    BY <1>3, <1>4, <1>7, SnapshotHolds
  <2> QED
    BY <1>1, <1>3, <1>4, <1>5, <1>6, <1>7, <1>10, <2>1, <2>2, JournalStep
<1>12. op'.phase = "reverse" /\ op'.id = id /\ op'.acts = Compensations(id)
  BY <1>1 DEF Run
<1>13. ReverseSound'
  <2>1. J' = k
    BY <1>7, <1>12 DEF J
  <2>2. k.from = j.from /\ k.moved = j.moved /\ k.epoch = j.epoch
    BY <1>4 DEF SamePlan
  <2>3. "portfolio" \in op'.acts => ~ k.moved
    BY <1>12, <2>2 DEF Compensations, Acts
  <2>4. "portfolio" \notin op'.acts /\ ~ k.moved => portfolio.target = k.from
    BY <1>1, <1>9, <1>12, <2>2 DEF Compensations, Acts, Reversible, PortfolioReversible, Planned
  <2>5. "descriptor" \notin op'.acts => tree.descriptor.target = k.from
    BY <1>1, <1>9, <1>12, <2>2 DEF Compensations, Acts, Reversible, Planned
  <2>6. /\ LiveAt(tree, k.from)
        /\ k.epoch = None => tree.live = None
        /\ "rename" \in op'.acts => /\ tree.live = None /\ tree.archive[id] # None
                                    /\ tree.archive[id].owner.target = k.from
    <3>1. j.epoch # None => ExpectedOwner(j).target = j.from
      <4>1. SUFFICES ASSUME j.epoch # None PROVE ExpectedOwner(j).target = j.from
        OBVIOUS
      <4>2. j.epoch \in Epochs /\ home \in Homes
        BY <1>3, <4>1, JournalTypes, KeptTypes
      <4> QED
        BY <1>9, <4>1, <4>2, EpochTypes DEF ExpectedOwner, Planned
    <3>2. ContinuityReversible(id)
      BY <1>1 DEF Reversible
    <3>3. CASE j.epoch = None
      <4>1. tree.live = None
        BY <3>2, <3>3 DEF ContinuityReversible
      <4>2. "rename" \notin op'.acts
        BY <1>12, <3>3 DEF Compensations
      <4> QED
        BY <4>1, <4>2 DEF LiveAt
    <3>4. CASE j.epoch # None
      <4>1. LiveAt(tree, j.from)
        BY <3>1, <3>2, <3>4 DEF ContinuityReversible, LiveAt
      <4>2. "rename" \in op'.acts => tree.archive[id] # None /\ tree.archive[id].owner = ExpectedOwner(j)
        BY <1>12, <3>4 DEF Compensations
      <4>3. "rename" \in op'.acts => tree.live = None
        BY <3>2, <3>4, <4>2 DEF ContinuityReversible
      <4> QED
        BY <2>2, <3>1, <3>4, <4>1, <4>2, <4>3
    <3> QED
      BY <3>3, <3>4
  <2> QED
    BY <1>1, <1>4, <1>6, <1>12, <2>1, <2>3, <2>4, <2>5, <2>6 DEF ReverseSound, LiveAt
<1>14. OpSound'
  BY <1>4, <1>7, <1>12, <1>13 DEF OpSound, ForwardSound
<1>15. TypeOK'
  <2>1. Compensations(id) \in SUBSET Acts
    BY DEF Compensations
  <2> QED
    BY <1>1, <1>6, <2>1, KeptTypes, CommandTypes, TypesAgain
<1> QED
  BY <1>11, <1>14, <1>15 DEF IInv

\* A step that changes only what the invariant does not look at.
LEMMA AlikeStep ==
    ASSUME IInv, tree' \in Trees, Alike(tree, tree'), portfolio' \in Documents,
           portfolio'.target = portfolio.target, used' \in Spent, used'.hand = used.hand,
           snap' = snap, home' = home, session' \in Targets \cup {None},
           \/ op' = op \/ op' = Idle
           \/ op.phase # "idle" /\ op' = [op EXCEPT !.checked = TRUE]
    PROVE  IInv'
<1>1. Stored'
  BY QuietStep
<1>2. OpSound'
  BY QuietOp
<1>3. TypeOK'
  BY KeptTypes, CommandTypes, TypesAgain
<1> QED
  BY <1>1, <1>2, <1>3 DEF IInv

LEMMA TaskSteps ==
    ASSUME IInv, OpenTask \/ CloseTask \/ EndSession
    PROVE  IInv'
<1>1. tree \in Trees /\ used \in Spent /\ portfolio \in Documents /\ session \in Targets \cup {None}
  BY KeptTypes
<1>2. \A b \in BOOLEAN : [tree EXCEPT !.open = b] \in Trees /\ Alike(tree, [tree EXCEPT !.open = b])
  BY <1>1 DEF Trees, Alike
<1>3. used.tasks < MaxTasks => [used EXCEPT !.tasks = @ + 1] \in Spent /\ [used EXCEPT !.tasks = @ + 1].hand = used.hand
  BY <1>1, SpentTypes DEF Spent
<1>4. CASE OpenTask
  BY <1>1, <1>2, <1>3, <1>4, AlikeStep DEF OpenTask
<1>5. CASE CloseTask
  BY <1>1, <1>2, <1>5, AlikeStep DEF CloseTask
<1>6. CASE EndSession
  BY <1>1, <1>6, AlikeSelf, AlikeStep DEF EndSession
<1> QED
  BY <1>4, <1>5, <1>6

LEMMA EditSteps ==
    ASSUME IInv, EditPortfolio \/ EditDescriptor \/ Crash
    PROVE  IInv'
<1>1. tree \in Trees /\ used \in Spent /\ portfolio \in Documents /\ session \in Targets \cup {None}
  BY KeptTypes
<1>2. used.edits < MaxEdits => /\ [used EXCEPT !.edits = @ + 1] \in Spent
                               /\ [used EXCEPT !.edits = @ + 1].hand = used.hand
                               /\ used.edits + 1 \in 0 .. MaxEdits
  BY <1>1, SpentTypes DEF Spent
<1>3. CASE EditPortfolio
  <2>1. /\ [portfolio EXCEPT !.edit = used.edits + 1] \in Documents
        /\ [portfolio EXCEPT !.edit = used.edits + 1].target = portfolio.target
    BY <1>1, <1>2, <1>3 DEF EditPortfolio, Documents
  <2> QED
    BY <1>1, <1>2, <1>3, <2>1, AlikeSelf, AlikeStep DEF EditPortfolio
<1>4. CASE EditDescriptor
  <2>1. PICK e \in 0 .. MaxEdits : tree' = [tree EXCEPT !.descriptor.edit = e]
    BY <1>2, <1>4 DEF EditDescriptor
  <2>2. tree.descriptor \in Documents
    BY <1>1, TreeTypes
  <2>3. /\ [tree.descriptor EXCEPT !.edit = e] \in Documents
        /\ [tree.descriptor EXCEPT !.edit = e].target = tree.descriptor.target
    BY <2>2 DEF Documents
  <2>4. PICK d \in Documents : /\ d.target = tree.descriptor.target
                               /\ tree' = [tree EXCEPT !.descriptor = d]
    BY <2>1, <2>3
  <2>5. tree' \in Trees /\ Alike(tree, tree')
    BY <1>1, <2>4 DEF Trees, Alike
  <2> QED
    BY <1>1, <1>2, <1>4, <2>5, AlikeStep DEF EditDescriptor
<1>5. CASE Crash
  <2>1. used.crashes < MaxCrashes => /\ [used EXCEPT !.crashes = @ + 1] \in Spent
                                     /\ [used EXCEPT !.crashes = @ + 1].hand = used.hand
    BY <1>1, SpentTypes DEF Spent
  <2> QED
    BY <1>1, <1>5, <2>1, AlikeSelf, AlikeStep DEF Crash
<1> QED
  BY <1>3, <1>4, <1>5

LEMMA SnapshotSteps ==
    ASSUME IInv, SessionSnapshot \/ NeighbourSnapshot
    PROVE  IInv'
<1>1. tree \in Trees /\ used \in Spent
  BY KeptTypes
<1>2. used.neighbours < MaxNeighbours => /\ [used EXCEPT !.neighbours = @ + 1] \in Spent
                                         /\ [used EXCEPT !.neighbours = @ + 1].hand = used.hand
  BY <1>1, SpentTypes DEF Spent
<1>3. /\ Durable /\ snap' = tree /\ UNCHANGED <<portfolio, tree, home, session, op>>
      /\ used' \in Spent /\ used'.hand = used.hand
  BY <1>1, <1>2 DEF SessionSnapshot, NeighbourSnapshot
<1>4. Stored' /\ OpSound'
  BY <1>3, SnapshotStep
<1>5. TypeOK'
  BY <1>1, <1>3, KeptTypes, TypesAgain
<1> QED
  BY <1>4, <1>5 DEF IInv

\* With no migration pending here or in the snapshot, the portfolio may name any target.
LEMMA HandMoveStep ==
    ASSUME IInv, NEW to \in Targets, HandMove(to)
    PROVE  IInv'
<1>1. /\ op = Idle /\ Settled(tree) /\ (snap # None => Settled(snap))
      /\ used.edits < MaxEdits
      /\ portfolio' = [target |-> to, edit |-> used.edits + 1]
      /\ used' = [used EXCEPT !.edits = @ + 1, !.hand = TRUE]
      /\ UNCHANGED <<tree, snap, home, session, op>>
  BY DEF HandMove
<1>2. /\ tree \in Trees /\ snap \in Trees \cup {None} /\ used \in Spent
  BY KeptTypes
<1>3. used' \in Spent /\ used'.hand = TRUE /\ portfolio' \in Documents
  BY <1>1, <1>2, SpentTypes DEF Spent, Documents
<1>4. ASSUME NEW t \in Trees, Settled(t), SoundTree(t, portfolio, used.hand)
      PROVE  SoundTree(t, portfolio', TRUE)
  <2>1. Pending(t) = {}
    BY <1>4 DEF Settled, Pending
  <2> QED
    BY <1>4, <2>1 DEF SoundTree
<1>5. Stored'
  <2>1. SoundTree(tree, portfolio', TRUE)
    BY <1>1, <1>2, <1>4 DEF IInv, Stored
  <2>2. snap # None => SoundTree(snap, portfolio', TRUE) /\ Earlier(snap, tree)
    BY <1>1, <1>2, <1>4 DEF IInv, Stored
  <2>3. IF Durable THEN Snapped(snap, tree) ELSE snap = None
    BY DEF IInv, Stored
  <2>4. Stored' = (/\ SoundTree(tree', portfolio', used'.hand)
                   /\ snap' # None => SoundTree(snap', portfolio', used'.hand) /\ Earlier(snap', tree')
                   /\ IF Durable THEN Snapped(snap', tree') ELSE snap' = None)
    BY DEF Stored
  <2> QED
    BY <1>1, <1>3, <2>1, <2>2, <2>3, <2>4
<1>6. OpSound'
  BY <1>1 DEF OpSound, ForwardSound, ReverseSound, Idle
<1>7. TypeOK'
  BY <1>1, <1>3, KeptTypes, TypesAgain
<1> QED
  BY <1>5, <1>6, <1>7 DEF IInv

\* A restored tree is the snapshot, with the live epoch at its new home.
LEMMA LoseStep ==
    ASSUME IInv, NEW h \in Homes, Lose(h)
    PROVE  IInv'
<1>1. /\ snap # None /\ used.losses < MaxLosses /\ home' = h
      /\ tree' = Relocated(snap, h) /\ session' = None /\ op' = Idle
      /\ used' = [used EXCEPT !.losses = @ + 1]
      /\ UNCHANGED <<portfolio, snap>>
  BY DEF Lose
<1>2. snap \in Trees /\ used \in Spent /\ portfolio \in Documents /\ used.hand \in BOOLEAN
  BY <1>1, KeptTypes
<1>3. tree' \in Trees /\ Alike(snap, tree')
  BY <1>1, <1>2, RelocatedAlike
<1>4. used' \in Spent /\ used'.hand = used.hand
  BY <1>1, <1>2, SpentTypes DEF Spent
<1>5. Stored'
  <2>1. SoundTree(snap, portfolio, used.hand) /\ Durable
    BY <1>1 DEF IInv, Stored
  <2>2. SoundTree(tree', portfolio, used.hand)
    BY <1>2, <1>3, <2>1, AlikeSound
  <2>3. Earlier(snap, snap) /\ Snapped(snap, snap)
    BY <1>2, <2>1, SelfSnapped
  <2>4. Earlier(snap, tree') /\ Snapped(snap, tree')
    BY <1>3, <2>3 DEF Alike, Earlier, Snapped
  <2>5. Stored' = (/\ SoundTree(tree', portfolio', used'.hand)
                   /\ snap' # None => SoundTree(snap', portfolio', used'.hand) /\ Earlier(snap', tree')
                   /\ IF Durable THEN Snapped(snap', tree') ELSE snap' = None)
    BY DEF Stored
  <2> QED
    BY <1>1, <1>4, <2>1, <2>2, <2>4, <2>5
<1>6. OpSound'
  BY <1>1 DEF OpSound, ForwardSound, ReverseSound, Idle
<1>7. TypeOK'
  BY <1>1, <1>2, <1>3, <1>4, KeptTypes, CommandTypes, TypesAgain
<1> QED
  BY <1>5, <1>6, <1>7 DEF IInv
-----------------------------------------------------------------------------
(* The steps: running forward.                                             *)

\* A tree with one journal replaced.
LEMMA Replaced ==
    ASSUME NEW t \in Trees, NEW id \in Moves, NEW k \in Journals, NEW u,
           u = [t EXCEPT !.journal[id] = k]
    PROVE  /\ u \in Trees /\ u.descriptor = t.descriptor /\ u.live = t.live
           /\ u.archive = t.archive /\ u.backups = t.backups /\ u.receipts = t.receipts
           /\ u.journal[id] = k /\ \A i \in Moves \ {id} : u.journal[i] = t.journal[i]
           /\ Others(t, u, id)
<1>1. u \in Trees
  BY TreeWrites
<1>2. /\ u.descriptor = t.descriptor /\ u.live = t.live
      /\ u.archive = t.archive /\ u.backups = t.backups /\ u.receipts = t.receipts
      /\ u.journal = [t.journal EXCEPT ![id] = k]
  BY DEF Trees
<1>3. u.journal[id] = k /\ \A i \in Moves \ {id} : u.journal[i] = t.journal[i]
  BY <1>2, TreeTypes
<1> QED
  BY <1>1, <1>2, <1>3 DEF Others

\* What is known of a journal with a step due.
LEMMA DueFacts ==
    ASSUME IInv, NEW step, Due(step), step # "post_snapshot"
    PROVE  /\ op.phase = "forward" /\ op.id \in Moves /\ J = tree.journal[op.id]
           /\ J # None /\ J \in Journals /\ op.id \in Pending(tree)
           /\ J.state \in Forwarding /\ J.state \in Active /\ AtStep(J, step)
           /\ step \in Steps /\ Planned(J) /\ Progress(J)
           /\ SoundTree(tree, portfolio, used.hand)
           /\ UnderWay(tree, portfolio, op.id) /\ Advancing(tree, op.id)
           /\ step \notin Snapshots => ~ op.taken
<1>1. op.phase = "forward"
  BY DEF Due
<1>2. /\ op.id \in Moves /\ J # None /\ J \in Journals /\ J = tree.journal[op.id]
      /\ Planned(J) /\ Progress(J)
  BY <1>1, Running
<1>3. AtStep(J, step) /\ step \in Snapshots \cup LocalSteps \cup {"portfolio", "receipt"}
  BY <1>2, KeptTypes, DueAt
<1>4. J.state \in Forwarding
  <2>1. J.state \in Forwarding \cup {"receipt_written"}
    BY <1>1 DEF IInv, OpSound, ForwardSound
  <2>2. J.state # "receipt_written"
    BY <1>2, <1>3 DEF Progress, AtStep, Snapshots, LocalSteps
  <2> QED
    BY <2>1, <2>2
<1>5. J.state \in Active
  BY <1>4 DEF Forwarding
<1>6. op.id \in Pending(tree)
  BY <1>2, <1>5 DEF Pending
<1>7. SoundTree(tree, portfolio, used.hand)
  BY DEF IInv, Stored
<1>8. UnderWay(tree, portfolio, op.id) /\ Advancing(tree, op.id)
  BY <1>2, <1>4, <1>6, <1>7 DEF SoundTree
<1>9. step \notin Snapshots => ~ op.taken
  <2>1. SUFFICES ASSUME step \notin Snapshots, op.taken PROVE FALSE
    OBVIOUS
  <2>2. PICK other \in Snapshots : AtStep(J, other)
    BY <1>1, <2>1 DEF IInv, OpSound, ForwardSound
  <2> QED
    BY <1>3, <2>1, <2>2, OneStep
<1>10. step \in Steps
  BY <1>3 DEF Steps, Snapshots, LocalSteps
<1> QED
  BY <1>1, <1>2, <1>3, <1>4, <1>5, <1>6, <1>7, <1>8, <1>9, <1>10

\* A step that its journal records, with more to come.
LEMMA RecordForward ==
    ASSUME IInv, NEW step, Due(step), step \notin {"receipt", "post_snapshot"},
           NEW k \in Journals, SamePlan(J, k), k.done = J.done \cup {step}, k.state \in Forwarding,
           Record(k), UNCHANGED <<portfolio, snap, home, session, used>>,
           IF step \in Snapshots THEN op' = [op EXCEPT !.taken = FALSE] /\ (Durable => op.taken)
           ELSE op' = op,
           step = "descriptor" => tree.descriptor.target = J.to,
           step = "continuity" => LiveAt(tree, J.to) /\ (J.epoch # None => tree.archive[op.id] # None)
    PROVE  IInv'
<1>1. /\ op.phase = "forward" /\ op.id \in Moves /\ J = tree.journal[op.id]
      /\ J # None /\ J \in Journals /\ op.id \in Pending(tree)
      /\ J.state \in Forwarding /\ J.state \in Active /\ AtStep(J, step)
      /\ step \in Steps /\ Planned(J) /\ Progress(J)
      /\ SoundTree(tree, portfolio, used.hand)
      /\ UnderWay(tree, portfolio, op.id) /\ Advancing(tree, op.id)
      /\ step \notin Snapshots => ~ op.taken
  BY DueFacts
<1>2. tree \in Trees /\ portfolio \in Documents /\ used.hand \in BOOLEAN
  BY KeptTypes
<1>3. /\ tree' \in Trees /\ tree'.descriptor = tree.descriptor /\ tree'.live = tree.live
      /\ tree'.archive = tree.archive /\ tree'.journal[op.id] = k
      /\ \A i \in Moves \ {op.id} : tree'.journal[i] = tree.journal[i]
      /\ Others(tree, tree', op.id)
  BY <1>1, <1>2, Replaced DEF Record
<1>4. /\ k.moved = J.moved /\ k.from = J.from /\ k.to = J.to /\ k.epoch = J.epoch
      /\ First(k) = First(J) /\ Second(k) = Second(J)
  BY DEF SamePlan, First, Second
<1>5. k # None /\ k.state \in Active
  BY NoneOutside DEF Forwarding
<1>6. Progress(k)
  <2>1. k.state \notin {"receipt_written", "completed"}
    BY DEF Forwarding, Active
  <2>2. "receipt" \notin k.done
    BY <1>1 DEF Progress
  <2>3. First(k) \notin k.done => Second(k) \notin k.done
    BY <1>1, <1>4 DEF Progress, AtStep
  <2>4. k.done \cap {"pending_snapshot", "portfolio"} # {} => LocalSteps \subseteq k.done
    BY <1>1 DEF Progress, AtStep
  <2> QED
    BY <2>1, <2>2, <2>3, <2>4 DEF Progress
<1>7. UnderWay(tree', portfolio, op.id)
  BY <1>1, <1>3, <1>4 DEF UnderWay, Kept, LiveAt
<1>8. Advancing(tree', op.id)
  <2>1. "descriptor" \in k.done => tree'.descriptor.target = k.to
    BY <1>1, <1>3, <1>4 DEF Advancing
  <2>2. k.moved /\ "continuity" \notin k.done => tree'.descriptor.target = k.from
    BY <1>1, <1>3, <1>4 DEF Advancing
  <2>3. "continuity" \in k.done => LiveAt(tree', k.to) /\ (k.epoch # None => tree'.archive[op.id] # None)
    BY <1>1, <1>3, <1>4 DEF Advancing, LiveAt
  <2>4. "continuity" \notin k.done =>
            IF tree'.archive[op.id] = None THEN LiveAt(tree', k.from)
            ELSE tree'.live = None /\ (~ k.moved => tree'.descriptor.target = k.to)
    BY <1>1, <1>3, <1>4 DEF Advancing, LiveAt
  <2> QED
    BY <1>3, <2>1, <2>2, <2>3, <2>4 DEF Advancing
<1>9. SoundTree(tree', portfolio, used.hand)
  <2>1. /\ tree'.journal[op.id] # None /\ SamePlan(tree.journal[op.id], tree'.journal[op.id])
        /\ tree'.journal[op.id].state \in Active /\ Progress(tree'.journal[op.id])
    BY <1>1, <1>3, <1>5, <1>6
  <2>2. tree' \in Trees /\ Others(tree, tree', op.id)
    BY <1>3
  <2>3. op.id \in Pending(tree) /\ SoundTree(tree, portfolio, used.hand)
    BY <1>1
  <2> QED
    BY <1>2, <1>7, <1>8, <2>1, <2>2, <2>3, StillUnderWay
<1>10. Durable /\ k.done # {} =>
          /\ snap # None /\ snap.journal[op.id] # None
          /\ k.state \in Forwarding /\ "pending_snapshot" \in k.done =>
                LocalSteps \subseteq snap.journal[op.id].done
  <2>1. SUFFICES ASSUME Durable
                 PROVE  /\ snap # None /\ snap.journal[op.id] # None
                        /\ "pending_snapshot" \in k.done => LocalSteps \subseteq snap.journal[op.id].done
    OBVIOUS
  <2>2. CASE step \in Snapshots
    <3>1. op.taken
      BY <2>1, <2>2
    <3>2. snap # None /\ snap.journal[op.id] # None /\ snap.journal[op.id].done = J.done
      BY <1>1, <3>1 DEF IInv, OpSound, ForwardSound
    <3>3. "pending_snapshot" \in k.done => LocalSteps \subseteq J.done
      BY <1>1 DEF AtStep, Progress
    <3> QED
      BY <3>2, <3>3
  <2>3. CASE step \notin Snapshots
    <3>1. J.done # {} /\ step # "pending_snapshot"
      BY <1>1, <2>3 DEF AtStep, Snapshots
    <3>2. /\ snap # None /\ snap.journal[op.id] # None
          /\ "pending_snapshot" \in J.done => LocalSteps \subseteq snap.journal[op.id].done
      BY <1>1, <2>1, <3>1, SnapshotHolds
    <3> QED
      BY <3>1, <3>2
  <2> QED
    BY <2>2, <2>3
<1>11. Stored'
  <2>1. SamePlan(tree.journal[op.id], tree'.journal[op.id])
    BY <1>1, <1>3
  <2>2. Durable /\ tree'.journal[op.id].done # {} =>
          /\ snap # None /\ snap.journal[op.id] # None
          /\ tree'.journal[op.id].state \in Forwarding /\ "pending_snapshot" \in tree'.journal[op.id].done =>
                LocalSteps \subseteq snap.journal[op.id].done
    BY <1>3, <1>10
  <2>3. tree.journal[op.id] # None /\ tree'.journal[op.id] # None
    BY <1>1, <1>3, <1>5
  <2>4. tree.journal[op.id].state \in Forwarding /\ tree.journal[op.id].state \in Active
    BY <1>1
  <2> QED
    BY <1>1, <1>3, <1>9, <2>1, <2>2, <2>3, <2>4, JournalStep
<1>12. op' \in Commands /\ op'.phase = "forward" /\ op'.id = op.id /\ ~ op'.taken
  BY <1>1, KeptTypes DEF Commands
<1>13. OpSound'
  BY <1>1, <1>3, <1>5, <1>12 DEF OpSound, ForwardSound, ReverseSound, J
<1>14. TypeOK'
  BY <1>3, <1>12, KeptTypes, TypesAgain
<1> QED
  BY <1>11, <1>13, <1>14 DEF IInv
LEMMA BackupStep ==
    ASSUME IInv, NEW which \in {"portfolio", "descriptor"}, Backup(which)
    PROVE  IInv'
<1>1. CASE Untouched(which)
  <2>1. op.phase = "forward" /\ op.id \in Moves
    <3>1. op.phase = "forward"
      BY DEF Backup
    <3> QED
      BY <3>1, Running
  <2>2. tree \in Trees
    BY KeptTypes
  <2>3. /\ tree' = [tree EXCEPT !.backups[op.id] = @ \cup {which}]
        /\ UNCHANGED <<portfolio, snap, home, session, op, used>>
    BY <1>1 DEF Backup
  <2>4. tree' \in Trees
    BY <2>1, <2>2, <2>3, TreeWrites
  <2>5. Alike(tree, tree')
    BY <2>2, <2>3 DEF Trees, Alike
  <2> QED
    BY <2>3, <2>4, <2>5, KeptTypes, AlikeStep
<1>2. CASE ~ Untouched(which)
  BY <1>2, StopStep DEF Backup
<1> QED
  BY <1>1, <1>2

LEMMA RecheckStep ==
    ASSUME IInv, Recheck
    PROVE  IInv'
<1>1. CASE tree.open /\ RouteRemaining(op.id)
  BY <1>1, StopStep DEF Recheck
<1>2. CASE ~ (tree.open /\ RouteRemaining(op.id))
  <2>1. /\ op.phase = "forward" /\ op' = [op EXCEPT !.checked = TRUE]
        /\ UNCHANGED <<portfolio, tree, snap, home, session, used>>
    BY <1>2 DEF Recheck
  <2> QED
    BY <2>1, KeptTypes, AlikeSelf, AlikeStep
<1> QED
  BY <1>1, <1>2

LEMMA PublishSnapshotStep ==
    ASSUME IInv, NEW step \in Snapshots, PublishSnapshot(step)
    PROVE  IInv'
<1>1. /\ Due(step) /\ Durable /\ snap' = tree /\ op' = [op EXCEPT !.taken = TRUE]
      /\ UNCHANGED <<portfolio, tree, home, session, used>>
  BY DEF PublishSnapshot
<1>2. op.phase = "forward"
  BY <1>1 DEF Due
<1>3. Stored' /\ OpSound'
  BY <1>1, <1>2, SnapshotStep
<1>4. op' \in Commands
  BY <1>1, KeptTypes, CommandTypes
<1>5. TypeOK'
  BY <1>1, <1>4, KeptTypes, TypesAgain
<1> QED
  BY <1>3, <1>5 DEF IInv

\* A journal that is over records its last snapshot.
LEMMA RecordOver ==
    ASSUME IInv, op.phase # "idle", NEW step \in Steps, NEW k \in Journals, SamePlan(J, k),
           k.done = J.done \cup {step}, J.state \notin Active, k.state \notin Active,
           Progress(k), Durable => op.taken /\ snap # None /\ snap.journal[op.id] # None,
           Record(k), op' = Idle, UNCHANGED <<portfolio, snap, home, session, used>>
    PROVE  IInv'
<1>1. op.id \in Moves /\ J # None /\ J \in Journals /\ J = tree.journal[op.id]
  BY Running
<1>2. tree \in Trees /\ portfolio \in Documents /\ used.hand \in BOOLEAN
  BY KeptTypes
<1>3. /\ tree' \in Trees /\ tree'.descriptor = tree.descriptor /\ tree'.live = tree.live
      /\ tree'.archive = tree.archive /\ tree'.journal[op.id] = k
      /\ \A i \in Moves \ {op.id} : tree'.journal[i] = tree.journal[i]
      /\ Others(tree, tree', op.id)
  BY <1>1, <1>2, Replaced DEF Record
<1>4. op.id \notin Pending(tree) /\ k # None /\ k.state \notin Forwarding
  BY <1>1, NoneOutside DEF Pending, Forwarding
<1>5. /\ tree'.journal[op.id] # None /\ SamePlan(tree.journal[op.id], tree'.journal[op.id])
      /\ tree'.journal[op.id].state \notin Active /\ tree'.journal[op.id].state \notin Forwarding
      /\ Progress(tree'.journal[op.id]) /\ tree.journal[op.id] # None
      /\ tree.journal[op.id].done \subseteq tree'.journal[op.id].done
  BY <1>1, <1>3, <1>4
<1>6. SoundTree(tree', portfolio, used.hand)
  <2>1. SoundTree(tree, portfolio, used.hand)
    BY DEF IInv, Stored
  <2>2. /\ tree' \in Trees /\ Others(tree, tree', op.id) /\ tree'.archive[op.id] = tree.archive[op.id]
        /\ tree'.descriptor = tree.descriptor /\ tree'.live = tree.live
    BY <1>3
  <2> QED
    BY <1>1, <1>2, <1>4, <1>5, <2>1, <2>2, StillOver
<1>7. Stored'
  BY <1>1, <1>3, <1>5, <1>6, JournalStep
<1>8. OpSound'
  BY DEF OpSound, ForwardSound, ReverseSound, Idle
<1>9. TypeOK'
  BY <1>3, KeptTypes, CommandTypes, TypesAgain
<1> QED
  BY <1>7, <1>8, <1>9 DEF IInv

LEMMA RecordSnapshotStep ==
    ASSUME IInv, NEW step \in Snapshots, RecordSnapshot(step)
    PROVE  IInv'
<1>1. /\ Due(step) /\ (Durable => op.taken)
      /\ Record(Recorded(step, IF step = "post_snapshot" THEN "completed" ELSE J.state))
      /\ op' = IF step = "post_snapshot" THEN Idle ELSE [op EXCEPT !.taken = FALSE]
      /\ UNCHANGED <<portfolio, snap, home, session, used>>
  BY DEF RecordSnapshot
<1>2. op.phase = "forward"
  BY <1>1 DEF Due
<1>3. op.id \in Moves /\ J # None /\ J \in Journals /\ J = tree.journal[op.id] /\ Progress(J)
  BY <1>2, Running
<1>4. CASE step = "post_snapshot"
  <2>1. "completed" \in States /\ step \in Steps
    BY DEF States, Steps
  <2>2. PICK k \in Journals : /\ k = Recorded(step, "completed") /\ SamePlan(J, k)
                              /\ k.done = J.done \cup {step} /\ k.state = "completed"
    BY <1>3, <2>1, Records
  <2>3. J.state \in {"receipt_written"}
    <3>1. AtStep(J, step)
      BY <1>1, <1>3, KeptTypes, DueAt
    <3>2. "receipt" \in J.done
      BY <1>4, <3>1 DEF AtStep
    <3> QED
      BY <1>2, <1>3, <3>2 DEF IInv, OpSound, ForwardSound, Progress
  <2>4. J.state \notin Active /\ k.state \notin Active
    BY <2>2, <2>3 DEF Active
  <2>5. Progress(k)
    BY <1>3, <2>2, <2>3 DEF Progress, Forwarding, Active
  <2>6. Durable => op.taken /\ snap # None /\ snap.journal[op.id] # None
    BY <1>1, <1>2 DEF IInv, OpSound, ForwardSound
  <2>7. Record(k) /\ op' = Idle
    BY <1>1, <1>4, <2>2
  <2> QED
    BY <1>1, <1>2, <2>1, <2>2, <2>4, <2>5, <2>6, <2>7, RecordOver
<1>5. CASE step # "post_snapshot"
  <2>1. J.state \in Forwarding /\ step \in Steps /\ J.state \in States
    BY <1>1, <1>3, <1>5, DueFacts, JournalTypes
  <2>2. PICK k \in Journals : /\ k = Recorded(step, J.state) /\ SamePlan(J, k)
                              /\ k.done = J.done \cup {step} /\ k.state = J.state
    BY <1>3, <2>1, Records
  <2>3. Record(k) /\ op' = [op EXCEPT !.taken = FALSE]
    BY <1>1, <1>5, <2>2
  <2>4. step \notin {"receipt", "post_snapshot", "descriptor", "continuity"}
    BY <1>5 DEF Snapshots
  <2> QED
    BY <1>1, <2>1, <2>2, <2>3, <2>4, RecordForward
<1> QED
  BY <1>4, <1>5

LEMMA RecordDescriptorStep ==
    ASSUME IInv, RecordDescriptor
    PROVE  IInv'
<1>1. CASE tree.descriptor # NewDescriptor(J)
  BY <1>1, StopStep DEF RecordDescriptor
<1>2. CASE tree.descriptor = NewDescriptor(J)
  <2>1. /\ Due("descriptor") /\ Record(Recorded("descriptor", LocalState("descriptor")))
        /\ UNCHANGED <<portfolio, snap, home, session, op, used>>
    BY <1>2 DEF RecordDescriptor
  <2>2. J \in Journals /\ J.state \in Forwarding
    BY <2>1, DueFacts
  <2>3. /\ LocalState("descriptor") \in Forwarding /\ LocalState("descriptor") \in States
        /\ "descriptor" \in Steps
    BY <2>2 DEF LocalState, Forwarding, States, Active, Steps
  <2>4. PICK k \in Journals : /\ k = Recorded("descriptor", LocalState("descriptor")) /\ SamePlan(J, k)
                              /\ k.done = J.done \cup {"descriptor"} /\ k.state = LocalState("descriptor")
    BY <2>2, <2>3, Records
  <2>5. Record(k) /\ k.state \in Forwarding
    BY <2>1, <2>3, <2>4
  <2>6. tree.descriptor.target = J.to
    BY <1>2, <2>2, NewFiles
  <2>7. "descriptor" \notin Snapshots
    BY DEF Snapshots
  <2> QED
    BY <2>1, <2>4, <2>5, <2>6, <2>7, RecordForward
<1> QED
  BY <1>1, <1>2

LEMMA RecordContinuityStep ==
    ASSUME IInv, RecordContinuity
    PROVE  IInv'
<1>1. CASE ~ ContinuityApplied
  BY <1>1, StopStep DEF RecordContinuity
<1>2. CASE ContinuityApplied
  <2> DEFINE owner == IF J.epoch = None THEN None ELSE ExpectedOwner(J)
  <2>1. /\ Due("continuity")
        /\ Record([Recorded("continuity", LocalState("continuity")) EXCEPT !.archived = owner])
        /\ UNCHANGED <<portfolio, snap, home, session, op, used>>
    BY <1>2 DEF RecordContinuity
  <2>2. J \in Journals /\ J.state \in Forwarding /\ J = tree.journal[op.id]
    BY <2>1, DueFacts
  <2>3. owner \in Owners \cup {None}
    <3>1. J.epoch \in Epochs \cup {None} /\ home \in Homes
      BY <2>2, JournalTypes, KeptTypes
    <3> QED
      BY <3>1, EpochTypes DEF ExpectedOwner
  <2> HIDE DEF owner
  <2>4. /\ LocalState("continuity") \in Forwarding /\ LocalState("continuity") \in States
        /\ "continuity" \in Steps
    BY <2>2 DEF LocalState, Forwarding, States, Active, Steps
  <2>5. PICK j \in Journals : /\ j = Recorded("continuity", LocalState("continuity")) /\ SamePlan(J, j)
                              /\ j.done = J.done \cup {"continuity"} /\ j.state = LocalState("continuity")
    BY <2>2, <2>4, Records
  <2>6. PICK k \in Journals : /\ k = [j EXCEPT !.archived = owner] /\ SamePlan(j, k)
                              /\ k.done = j.done /\ k.state = j.state
    BY <2>3, ArchivedBy
  <2>7. SamePlan(J, k)
    BY <2>5, <2>6 DEF SamePlan
  <2>8. Record(k) /\ k.state \in Forwarding /\ k.done = J.done \cup {"continuity"}
    BY <2>1, <2>4, <2>5, <2>6
  <2>9. LiveAt(tree, J.to) /\ (J.epoch # None => tree.archive[op.id] # None)
    <3>1. NewEpoch(op.id) => tree.live.owner.target = J.to
      BY <2>2 DEF NewEpoch
    <3> QED
      BY <1>2, <3>1 DEF ContinuityApplied, Archived, LiveAt
  <2>10. "continuity" \notin Snapshots
    BY DEF Snapshots
  <2> QED
    BY <2>1, <2>7, <2>8, <2>9, <2>10, RecordForward
<1> QED
  BY <1>1, <1>2

LEMMA RecordPortfolioStep ==
    ASSUME IInv, RecordPortfolio
    PROVE  IInv'
<1>1. CASE ~ PortfolioApplied
  BY <1>1, StopStep DEF RecordPortfolio
<1>2. CASE PortfolioApplied
  <2>1. /\ Due("portfolio") /\ Record(Recorded("portfolio", "portfolio_written"))
        /\ UNCHANGED <<portfolio, snap, home, session, op, used>>
    BY <1>2 DEF RecordPortfolio
  <2>2. J \in Journals
    BY <2>1, DueFacts
  <2>3. "portfolio_written" \in Forwarding /\ "portfolio_written" \in States /\ "portfolio" \in Steps
    BY DEF Forwarding, States, Active, Steps
  <2>4. PICK k \in Journals : /\ k = Recorded("portfolio", "portfolio_written") /\ SamePlan(J, k)
                              /\ k.done = J.done \cup {"portfolio"} /\ k.state = "portfolio_written"
    BY <2>2, <2>3, Records
  <2>5. Record(k) /\ k.state \in Forwarding
    BY <2>1, <2>3, <2>4
  <2>6. "portfolio" \notin Snapshots
    BY DEF Snapshots
  <2> QED
    BY <2>1, <2>4, <2>5, <2>6, RecordForward
<1> QED
  BY <1>1, <1>2
\* The descriptor or the epoch of a pending migration is moved.
LEMMA LocalStep ==
    ASSUME IInv, tree' \in Trees, NEW id \in Pending(tree), tree'.journal = tree.journal,
           Others(tree, tree', id), UNCHANGED <<portfolio, snap>>, used'.hand = used.hand,
           UnderWay(tree', portfolio, id),
           tree.journal[id].state \in Forwarding => Advancing(tree', id)
    PROVE  Stored'
<1>1. tree \in Trees /\ portfolio \in Documents /\ used.hand \in BOOLEAN
  BY KeptTypes
<1>2. SoundTree(tree, portfolio, used.hand)
  BY DEF IInv, Stored
<1>3. /\ tree'.journal[id] # None /\ SamePlan(tree.journal[id], tree'.journal[id])
      /\ tree'.journal[id].state \in Active /\ Progress(tree'.journal[id])
      /\ tree'.journal[id].state \in Forwarding => Advancing(tree', id)
  BY <1>2 DEF Pending, SamePlan, SoundTree
<1>4. SoundTree(tree', portfolio, used.hand)
  BY <1>1, <1>2, <1>3, StillUnderWay
<1>5. snap # None => SoundTree(snap, portfolio, used.hand) /\ Earlier(snap, tree')
  BY DEF IInv, Stored, Earlier
<1>6. IF Durable THEN Snapped(snap, tree') ELSE snap = None
  BY DEF IInv, Stored, Snapped
<1>7. Stored' = (/\ SoundTree(tree', portfolio', used'.hand)
                 /\ snap' # None => SoundTree(snap', portfolio', used'.hand) /\ Earlier(snap', tree')
                 /\ IF Durable THEN Snapped(snap', tree') ELSE snap' = None)
  BY DEF Stored
<1> QED
  BY <1>4, <1>5, <1>6, <1>7

LEMMA ApplyDescriptorStep ==
    ASSUME IInv, ApplyDescriptor
    PROVE  IInv'
<1>1. /\ Due("descriptor") /\ tree' = [tree EXCEPT !.descriptor = NewDescriptor(J)]
      /\ UNCHANGED <<portfolio, snap, home, session, op, used>>
  BY DEF ApplyDescriptor
<1>2. /\ op.phase = "forward" /\ op.id \in Pending(tree) /\ J = tree.journal[op.id]
      /\ J \in Journals /\ AtStep(J, "descriptor") /\ Planned(J) /\ op.id \in Moves
      /\ UnderWay(tree, portfolio, op.id) /\ Advancing(tree, op.id)
  BY <1>1, DueFacts
<1>3. tree \in Trees
  BY KeptTypes
<1>4. /\ tree' \in Trees /\ tree'.journal = tree.journal /\ tree'.archive = tree.archive
      /\ tree'.live = tree.live /\ tree'.descriptor.target = J.to
  <2>1. NewDescriptor(J) \in Documents /\ NewDescriptor(J).target = J.to
    BY <1>2, NewFiles
  <2> QED
    BY <1>1, <1>3, <2>1, TreeWrites DEF Trees
<1>5. "descriptor" \notin J.done /\ (J.moved => "continuity" \in J.done)
  BY <1>2 DEF AtStep, First, Second
<1>6. UnderWay(tree', portfolio, op.id)
  <2>1. ~ J.moved => portfolio.target = J.from
    BY <1>2, <1>5 DEF UnderWay, LocalSteps
  <2>2. J.moved => LiveAt(tree, J.to)
    BY <1>2, <1>5 DEF Advancing
  <2> QED
    BY <1>2, <1>4, <2>1, <2>2 DEF UnderWay, Planned, Kept, LiveAt
<1>7. Advancing(tree', op.id)
  BY <1>2, <1>4, <1>5 DEF Advancing, LiveAt
<1>8. Stored'
  BY <1>1, <1>2, <1>4, <1>6, <1>7, LocalStep DEF Others
<1>9. OpSound'
  BY <1>1, <1>2, <1>4 DEF IInv, OpSound, ForwardSound, ReverseSound, J
<1>10. TypeOK'
  BY <1>1, <1>4, KeptTypes, TypesAgain
<1> QED
  BY <1>8, <1>9, <1>10 DEF IInv

LEMMA ArchiveContinuityStep ==
    ASSUME IInv, ArchiveContinuity
    PROVE  IInv'
<1>1. /\ Due("continuity") /\ J.epoch # None /\ tree.live # None /\ tree.archive[op.id] = None
      /\ tree' = [tree EXCEPT !.archive[op.id] = tree.live, !.live = None]
      /\ UNCHANGED <<portfolio, snap, home, session, op, used>>
  BY DEF ArchiveContinuity, Archivable
<1>2. /\ op.phase = "forward" /\ op.id \in Pending(tree) /\ J = tree.journal[op.id]
      /\ J \in Journals /\ AtStep(J, "continuity") /\ Planned(J) /\ op.id \in Moves
      /\ UnderWay(tree, portfolio, op.id) /\ Advancing(tree, op.id)
  BY <1>1, DueFacts
<1>3. tree \in Trees /\ tree.live \in Epochs \cup {None}
  BY KeptTypes, TreeTypes
<1>4. /\ tree' \in Trees /\ tree'.journal = tree.journal /\ tree'.descriptor = tree.descriptor
      /\ tree'.live = None /\ tree'.archive = [tree.archive EXCEPT ![op.id] = tree.live]
  <2>1. tree' \in Trees
    BY <1>1, <1>2, <1>3, TreeWrites
  <2> QED
    BY <1>1, <1>3, <2>1 DEF Trees
<1>5. tree'.archive[op.id] = tree.live /\ Others(tree, tree', op.id)
  BY <1>2, <1>3, <1>4, TreeTypes DEF Others
<1>6. "continuity" \notin J.done /\ (~ J.moved => "descriptor" \in J.done)
  BY <1>2 DEF AtStep, First, Second
<1>7. UnderWay(tree', portfolio, op.id)
  <2>1. tree.live.id = J.epoch.id
    BY <1>1, <1>2 DEF UnderWay, Kept
  <2> QED
    BY <1>1, <1>2, <1>4, <1>5, <2>1 DEF UnderWay, Kept, LiveAt
<1>8. Advancing(tree', op.id)
  BY <1>1, <1>2, <1>4, <1>5, <1>6 DEF Advancing, LiveAt
<1>9. Stored'
  BY <1>1, <1>2, <1>4, <1>5, <1>7, <1>8, LocalStep
<1>10. OpSound'
  BY <1>1, <1>2, <1>4 DEF IInv, OpSound, ForwardSound, ReverseSound, J
<1>11. TypeOK'
  BY <1>1, <1>4, KeptTypes, TypesAgain
<1> QED
  BY <1>9, <1>10, <1>11 DEF IInv

LEMMA WritePortfolioStep ==
    ASSUME IInv, WritePortfolio
    PROVE  IInv'
<1>1. /\ Due("portfolio") /\ ~ J.moved /\ portfolio' = NewPortfolio(J)
      /\ used' = [used EXCEPT !.hand = FALSE]
      /\ UNCHANGED <<tree, snap, home, session, op>>
  BY DEF WritePortfolio
<1>2. /\ op.phase = "forward" /\ op.id \in Pending(tree) /\ J = tree.journal[op.id]
      /\ J # None /\ J \in Journals /\ J.state \in Forwarding /\ AtStep(J, "portfolio")
      /\ op.id \in Moves /\ SoundTree(tree, portfolio, used.hand)
  BY <1>1, DueFacts
<1>3. /\ tree \in Trees /\ portfolio \in Documents /\ used.hand \in BOOLEAN /\ used \in Spent
      /\ snap \in Trees \cup {None}
  BY KeptTypes
<1>4. portfolio' \in Documents /\ portfolio'.target = J.to
  BY <1>1, <1>2, NewFiles
<1>5. used' \in Spent /\ used'.hand = FALSE
  BY <1>1, <1>3, SpentTypes DEF Spent
<1>6. LocalSteps \subseteq J.done /\ "pending_snapshot" \in J.done /\ J.done # {}
  BY <1>2 DEF AtStep, LocalSteps
<1>7. SoundTree(tree, portfolio', FALSE)
  BY <1>1, <1>2, <1>3, <1>4, <1>6, PortfolioMoved
<1>8. snap # None => SoundTree(snap, portfolio', FALSE) /\ Earlier(snap, tree)
  <2>1. SUFFICES ASSUME snap # None
                 PROVE  SoundTree(snap, portfolio', FALSE) /\ Earlier(snap, tree)
    OBVIOUS
  <2>2. Durable /\ SoundTree(snap, portfolio, used.hand) /\ Earlier(snap, tree) /\ snap \in Trees
    BY <1>3, <2>1 DEF IInv, Stored
  <2>3. snap.journal[op.id] # None /\ LocalSteps \subseteq snap.journal[op.id].done
    BY <1>2, <1>6, <2>2, SnapshotHolds
  <2>4. /\ snap.journal[op.id].state \in Forwarding /\ snap.journal[op.id].state \in Active
        /\ SamePlan(snap.journal[op.id], J)
    BY <1>2, <2>2, <2>3 DEF Earlier, Forwarding
  <2>5. op.id \in Pending(snap)
    BY <1>2, <2>3, <2>4 DEF Pending
  <2>6. ~ snap.journal[op.id].moved /\ portfolio'.target = snap.journal[op.id].to
    BY <1>1, <1>4, <2>4 DEF SamePlan
  <2>7. SoundTree(snap, portfolio', FALSE)
    BY <1>3, <1>4, <2>2, <2>3, <2>4, <2>5, <2>6, PortfolioMoved
  <2> QED
    BY <2>2, <2>7
<1>9. Stored'
  <2>1. IF Durable THEN Snapped(snap, tree) ELSE snap = None
    BY DEF IInv, Stored
  <2>2. Stored' = (/\ SoundTree(tree', portfolio', used'.hand)
                   /\ snap' # None => SoundTree(snap', portfolio', used'.hand) /\ Earlier(snap', tree')
                   /\ IF Durable THEN Snapped(snap', tree') ELSE snap' = None)
    BY DEF Stored
  <2> QED
    BY <1>1, <1>5, <1>7, <1>8, <2>1, <2>2
<1>10. OpSound'
  BY <1>1, <1>2 DEF IInv, OpSound, ForwardSound, ReverseSound, J
<1>11. TypeOK'
  BY <1>1, <1>4, <1>5, KeptTypes, TypesAgain
<1> QED
  BY <1>9, <1>10, <1>11 DEF IInv

LEMMA WriteReceiptStep ==
    ASSUME IInv, WriteReceipt
    PROVE  IInv'
<1>1. /\ Due("receipt") /\ tree' = [tree EXCEPT !.receipts = @ \cup {op.id}]
      /\ UNCHANGED <<portfolio, snap, home, session, op, used>>
  BY DEF WriteReceipt
<1>2. op.id \in Moves /\ tree \in Trees
  BY <1>1, DueFacts, KeptTypes
<1>3. tree' \in Trees
  BY <1>1, <1>2, TreeWrites
<1>4. Alike(tree, tree')
  BY <1>1, <1>2 DEF Trees, Alike
<1> QED
  BY <1>1, <1>3, <1>4, KeptTypes, AlikeStep

LEMMA RecordReceiptStep ==
    ASSUME IInv, RecordReceipt
    PROVE  IInv'
<1>1. /\ Due("receipt") /\ Record(Recorded("receipt", "receipt_written"))
      /\ UNCHANGED <<portfolio, snap, home, session, op, used>>
  BY DEF RecordReceipt
<1>2. /\ op.phase = "forward" /\ op.id \in Pending(tree) /\ J = tree.journal[op.id]
      /\ J # None /\ J \in Journals /\ J.state \in Forwarding /\ AtStep(J, "receipt")
      /\ op.id \in Moves /\ SoundTree(tree, portfolio, used.hand) /\ ~ op.taken
      /\ UnderWay(tree, portfolio, op.id) /\ Advancing(tree, op.id) /\ J.state \in Active
  <2>1. "receipt" \notin Snapshots /\ "receipt" # "post_snapshot"
    BY DEF Snapshots
  <2> QED
    BY <1>1, <2>1, DueFacts
<1>3. "receipt_written" \in States /\ "receipt" \in Steps
  BY DEF States, Steps
<1>4. PICK k \in Journals : /\ k = Recorded("receipt", "receipt_written") /\ SamePlan(J, k)
                            /\ k.done = J.done \cup {"receipt"} /\ k.state = "receipt_written"
  BY <1>2, <1>3, Records
<1>5. Record(k) /\ k # None
  BY <1>1, <1>4, NoneOutside
<1>6. tree \in Trees /\ portfolio \in Documents /\ used.hand \in BOOLEAN
  BY KeptTypes
<1>7. /\ tree' \in Trees /\ tree'.descriptor = tree.descriptor /\ tree'.live = tree.live
      /\ tree'.archive = tree.archive /\ tree'.journal[op.id] = k
      /\ \A i \in Moves \ {op.id} : tree'.journal[i] = tree.journal[i]
      /\ Others(tree, tree', op.id)
  BY <1>2, <1>5, <1>6, Replaced DEF Record
<1>8. /\ LocalSteps \cup {"pre_snapshot", "pending_snapshot", "portfolio", "receipt"} \subseteq k.done
      /\ "descriptor" \in J.done /\ "continuity" \in J.done /\ "portfolio" \in J.done /\ J.done # {}
  BY <1>2, <1>4 DEF AtStep, LocalSteps
<1>9. Progress(k) /\ k.state \notin Active /\ k.state \notin Forwarding
  BY <1>4, <1>8 DEF Progress, Active, Forwarding
<1>10. SoundTree(tree', portfolio, used.hand)
  <2>1. tree.descriptor.target = J.to /\ LiveAt(tree, J.to)
    BY <1>2, <1>8 DEF Advancing
  <2>2. LiveAt(tree', tree'.descriptor.target)
    BY <1>7, <2>1 DEF LiveAt
  <2>3. \/ portfolio.target = tree'.descriptor.target
        \/ /\ ~ tree.journal[op.id].moved /\ "portfolio" \in tree'.journal[op.id].done
           /\ portfolio.target = tree.journal[op.id].from
           /\ tree'.descriptor.target = tree.journal[op.id].to
    BY <1>2, <1>7, <1>8, <2>1 DEF UnderWay
  <2>4. /\ tree'.journal[op.id] # None /\ SamePlan(tree.journal[op.id], tree'.journal[op.id])
        /\ tree'.journal[op.id].state \notin Active /\ Progress(tree'.journal[op.id])
    BY <1>2, <1>4, <1>5, <1>7, <1>9
  <2>5. tree' \in Trees /\ Others(tree, tree', op.id)
    BY <1>7
  <2>6. op.id \in Pending(tree) /\ SoundTree(tree, portfolio, used.hand)
    BY <1>2
  <2> QED
    BY <1>6, <2>2, <2>3, <2>4, <2>5, <2>6, NowOver
<1>11. Stored'
  <2>1. SamePlan(tree.journal[op.id], tree'.journal[op.id])
    BY <1>2, <1>4, <1>7
  <2>2. Durable => snap # None /\ snap.journal[op.id] # None
    BY <1>2, <1>8, SnapshotHolds
  <2>3. /\ tree'.journal[op.id].state \notin Active /\ tree'.journal[op.id].state \notin Forwarding
        /\ tree.journal[op.id] # None /\ tree'.journal[op.id] # None
    BY <1>2, <1>5, <1>7, <1>9
  <2> QED
    BY <1>1, <1>2, <1>7, <1>10, <2>1, <2>2, <2>3, JournalStep
<1>12. OpSound'
  BY <1>1, <1>2, <1>4, <1>5, <1>7 DEF OpSound, ForwardSound, ReverseSound, J
<1>13. TypeOK'
  BY <1>1, <1>7, KeptTypes, TypesAgain
<1> QED
  BY <1>11, <1>12, <1>13 DEF IInv

\* A launch starts an epoch only where it belongs.
LEMMA LaunchStep ==
    ASSUME IInv, Launch
    PROVE  IInv'
<1> DEFINE owner == [target |-> portfolio.target, home |-> home]
<1>1. /\ op = Idle /\ ~ Split /\ session' = portfolio.target
      /\ UNCHANGED <<portfolio, snap, home, op, used>>
  BY DEF Launch, Stopped
<1>2. /\ tree \in Trees /\ portfolio \in Documents /\ used.hand \in BOOLEAN
      /\ portfolio.target \in Targets /\ home \in Homes
  BY KeptTypes
<1>3. CASE tree' = tree
  BY <1>1, <1>2, <1>3, KeptTypes, AlikeSelf, AlikeStep
<1>4. CASE tree' # tree
  <2> DEFINE e == [owner |-> owner, id |-> Fresh]
  <2>1. tree.live = None /\ tree' = [tree EXCEPT !.live = e]
    BY <1>4 DEF Launch
  <2>2. e \in Epochs /\ e.owner.target = portfolio.target
    <3>1. Fresh \in Names
      BY <1>2, <2>1, FreshName
    <3> QED
      BY <1>2, <3>1 DEF Epochs, Owners
  <2> HIDE DEF e
  <2>3. /\ tree' \in Trees /\ tree'.journal = tree.journal /\ tree'.archive = tree.archive
        /\ tree'.descriptor = tree.descriptor /\ tree'.live = e
    <3>1. tree' \in Trees
      BY <1>2, <2>1, <2>2 DEF Trees
    <3> QED
      BY <1>2, <2>1, <3>1 DEF Trees
  <2>4. e # None
    BY <2>2, NoneOutside
  <2>5. portfolio.target = tree.descriptor.target
    BY <1>1 DEF Split
  <2>6. SoundTree(tree, portfolio, used.hand)
    BY DEF IInv, Stored
  <2>7. Stored'
    <3>1. CASE Pending(tree) = {}
      <4>1. Pending(tree') = {}
        BY <2>3, <3>1 DEF Pending
      <4>2. Ordered(tree')
        BY <2>3, <2>6, <3>1, <4>1 DEF Ordered, SoundTree
      <4>3. \A i \in Moves : IF tree'.journal[i] = None THEN tree'.archive[i] = None
                             ELSE Planned(tree'.journal[i]) /\ Progress(tree'.journal[i])
        BY <2>3, <2>6 DEF SoundTree
      <4>4. LiveAt(tree', tree'.descriptor.target)
        BY <2>2, <2>3, <2>5 DEF LiveAt
      <4>5. SoundTree(tree', portfolio, used.hand)
        BY <2>3, <2>5, <4>1, <4>2, <4>3, <4>4 DEF SoundTree
      <4>6. snap # None => SoundTree(snap, portfolio, used.hand) /\ Earlier(snap, tree')
        BY <2>3 DEF IInv, Stored, Earlier
      <4>7. IF Durable THEN Snapped(snap, tree') ELSE snap = None
        BY <2>3 DEF IInv, Stored, Snapped
      <4>8. Stored' = (/\ SoundTree(tree', portfolio', used'.hand)
                       /\ snap' # None => SoundTree(snap', portfolio', used'.hand) /\ Earlier(snap', tree')
                       /\ IF Durable THEN Snapped(snap', tree') ELSE snap' = None)
        BY DEF Stored
      <4> QED
        BY <1>1, <4>5, <4>6, <4>7, <4>8
    <3>2. ASSUME NEW id \in Pending(tree)
          PROVE  Stored'
      <4> DEFINE j == tree.journal[id]
      <4>1. UnderWay(tree, portfolio, id) /\ (j.state \in Forwarding => Advancing(tree, id))
        BY <2>6 DEF SoundTree
      <4>2. Progress(j) /\ Planned(j) /\ id \in Moves
        BY <2>6 DEF SoundTree, Pending
      <4>3. LiveAt(tree', portfolio.target)
        BY <2>2, <2>3 DEF LiveAt
      <4>4. UnderWay(tree', portfolio, id)
        BY <2>1, <2>3, <2>5, <4>1, <4>3 DEF UnderWay, Kept
      <4>5. j.state \in Forwarding => Advancing(tree', id)
        <5>1. SUFFICES ASSUME j.state \in Forwarding PROVE Advancing(tree', id)
          OBVIOUS
        <5>2. Advancing(tree, id)
          BY <4>1, <5>1
        <5>3. "continuity" \in j.done => portfolio.target = j.to
          BY <2>5, <4>1, <4>2, <5>1, <5>2 DEF UnderWay, Advancing, Progress, First, Second
        <5>4. "continuity" \notin j.done => ~ j.moved /\ portfolio.target = j.from
          BY <2>5, <4>1, <4>2, <5>2 DEF UnderWay, Advancing, Planned, LocalSteps
        <5>5. "continuity" \notin j.done => tree.archive[id] = None
          BY <2>5, <4>1, <4>2, <5>2, <5>4 DEF UnderWay, Advancing, Planned
        <5>6. /\ "descriptor" \in j.done => tree'.descriptor.target = j.to
              /\ j.moved /\ "continuity" \notin j.done => tree'.descriptor.target = j.from
          BY <2>3, <5>2 DEF Advancing
        <5>7. "continuity" \in j.done => LiveAt(tree', j.to) /\ (j.epoch # None => tree'.archive[id] # None)
          BY <2>3, <4>3, <5>2, <5>3 DEF Advancing
        <5>8. "continuity" \notin j.done =>
                  IF tree'.archive[id] = None THEN LiveAt(tree', j.from)
                  ELSE tree'.live = None /\ (~ j.moved => tree'.descriptor.target = j.to)
          BY <2>3, <4>3, <5>4, <5>5
        <5> QED
          BY <2>3, <5>6, <5>7, <5>8 DEF Advancing
      <4>6. Others(tree, tree', id)
        BY <2>3 DEF Others
      <4> QED
        BY <1>1, <2>3, <4>4, <4>5, <4>6, LocalStep
    <3> QED
      BY <3>1, <3>2
  <2>8. OpSound'
    BY <1>1 DEF OpSound, ForwardSound, ReverseSound, Idle
  <2>9. TypeOK'
    BY <1>1, <1>2, <2>3, KeptTypes, TypesAgain
  <2> QED
    BY <2>7, <2>8, <2>9 DEF IInv
<1> QED
  BY <1>3, <1>4
-----------------------------------------------------------------------------
(* The steps: rolling back.                                                *)

LEMMA ReverseFacts ==
    ASSUME IInv, op.phase = "reverse"
    PROVE  /\ op.id \in Pending(tree) /\ op.id \in Moves /\ J = tree.journal[op.id]
           /\ J # None /\ J \in Journals /\ J.state = "rolling_back"
           /\ J.state \in Active /\ J.state \notin Forwarding /\ Planned(J)
           /\ SoundTree(tree, portfolio, used.hand) /\ UnderWay(tree, portfolio, op.id)
           /\ "portfolio" \in op.acts => ~ J.moved
           /\ "portfolio" \notin op.acts /\ ~ J.moved => portfolio.target = J.from
           /\ "descriptor" \notin op.acts => tree.descriptor.target = J.from
           /\ LiveAt(tree, J.from)
           /\ J.epoch = None => tree.live = None
           /\ "rename" \in op.acts => /\ tree.live = None /\ tree.archive[op.id] # None
                                      /\ tree.archive[op.id].owner.target = J.from
<1>1. op.id \in Moves /\ J # None /\ J \in Journals /\ J = tree.journal[op.id] /\ Planned(J)
  BY Running
<1>2. ReverseSound
  BY DEF IInv, OpSound
<1>3. J.state = "rolling_back"
  BY <1>2 DEF ReverseSound
<1>4. J.state \in Active /\ J.state \notin Forwarding
  BY <1>3 DEF Active, Forwarding
<1>5. op.id \in Pending(tree)
  BY <1>1, <1>4 DEF Pending
<1>6. SoundTree(tree, portfolio, used.hand)
  BY DEF IInv, Stored
<1>7. UnderWay(tree, portfolio, op.id)
  BY <1>5, <1>6 DEF SoundTree
<1> QED
  BY <1>1, <1>2, <1>3, <1>4, <1>5, <1>6, <1>7 DEF ReverseSound

LEMMA FewerActs ==
    ASSUME op \in Commands, NEW a, op' = [op EXCEPT !.acts = @ \ {a}]
    PROVE  /\ op' \in Commands /\ op'.phase = op.phase /\ op'.id = op.id /\ op'.taken = op.taken
           /\ op'.acts = op.acts \ {a}
BY DEF Commands

LEMMA ReversePortfolioStep ==
    ASSUME IInv, ReversePortfolio
    PROVE  IInv'
<1>1. CASE portfolio # NewPortfolio(J)
  BY <1>1, StopStep DEF ReversePortfolio
<1>2. CASE portfolio = NewPortfolio(J)
  <2>1. /\ op.phase = "reverse" /\ "portfolio" \in op.acts /\ portfolio' = J.portfolio
        /\ op' = [op EXCEPT !.acts = @ \ {"portfolio"}]
        /\ used' = [used EXCEPT !.hand = FALSE]
        /\ UNCHANGED <<tree, snap, home, session>>
    BY <1>2 DEF ReversePortfolio, Reversing
  <2>2. /\ op.id \in Pending(tree) /\ op.id \in Moves /\ J = tree.journal[op.id]
        /\ J # None /\ J \in Journals /\ J.state = "rolling_back" /\ J.state \in Active
        /\ Planned(J) /\ ~ J.moved
        /\ SoundTree(tree, portfolio, used.hand) /\ UnderWay(tree, portfolio, op.id)
    BY <2>1, ReverseFacts
  <2>3. /\ tree \in Trees /\ portfolio \in Documents /\ used.hand \in BOOLEAN /\ used \in Spent
        /\ snap \in Trees \cup {None} /\ op \in Commands
    BY KeptTypes
  <2>4. portfolio.target = J.to
    BY <1>2, <2>2, NewFiles
  <2>5. portfolio' \in Documents /\ portfolio'.target = J.from
    BY <2>1, <2>2, JournalTypes DEF Planned
  <2>6. used' \in Spent /\ used'.hand = FALSE
    BY <2>1, <2>3, SpentTypes DEF Spent
  <2>7. J.done # {}
    BY <2>2, <2>4 DEF UnderWay, LocalSteps
  <2>8. SoundTree(tree, portfolio', FALSE)
    BY <2>2, <2>3, <2>4, <2>5, PortfolioPutBack
  <2>9. snap # None => SoundTree(snap, portfolio', FALSE) /\ Earlier(snap, tree)
    <3>1. SUFFICES ASSUME snap # None
                   PROVE  SoundTree(snap, portfolio', FALSE) /\ Earlier(snap, tree)
      OBVIOUS
    <3>2. Durable /\ SoundTree(snap, portfolio, used.hand) /\ Earlier(snap, tree) /\ snap \in Trees
      BY <2>3, <3>1 DEF IInv, Stored
    <3>3. snap.journal[op.id] # None
      BY <2>2, <2>7, <3>2, SnapshotHolds
    <3>4. snap.journal[op.id].state \in Active /\ SamePlan(snap.journal[op.id], J)
      BY <2>2, <3>2, <3>3 DEF Earlier
    <3>5. op.id \in Pending(snap)
      BY <2>2, <3>3, <3>4 DEF Pending
    <3>6. /\ ~ snap.journal[op.id].moved /\ portfolio.target = snap.journal[op.id].to
          /\ portfolio'.target = snap.journal[op.id].from
      BY <2>2, <2>4, <2>5, <3>4 DEF SamePlan
    <3>7. SoundTree(snap, portfolio', FALSE)
      BY <2>3, <2>5, <3>2, <3>5, <3>6, PortfolioPutBack
    <3> QED
      BY <3>2, <3>7
  <2>10. Stored'
    <3>1. IF Durable THEN Snapped(snap, tree) ELSE snap = None
      BY DEF IInv, Stored
    <3>2. Stored' = (/\ SoundTree(tree', portfolio', used'.hand)
                     /\ snap' # None => SoundTree(snap', portfolio', used'.hand) /\ Earlier(snap', tree')
                     /\ IF Durable THEN Snapped(snap', tree') ELSE snap' = None)
      BY DEF Stored
    <3> QED
      BY <2>1, <2>6, <2>8, <2>9, <3>1, <3>2
  <2>11. /\ op' \in Commands /\ op'.phase = op.phase /\ op'.id = op.id
         /\ op'.acts = op.acts \ {"portfolio"}
    BY <2>1, <2>3, FewerActs
  <2>12. OpSound'
    <3>1. ReverseSound'
      BY <2>1, <2>5, <2>11 DEF IInv, OpSound, ReverseSound, J, LiveAt
    <3> QED
      BY <2>1, <2>2, <2>11, <3>1 DEF OpSound, ForwardSound
  <2>13. TypeOK'
    BY <2>1, <2>5, <2>6, <2>11, KeptTypes, TypesAgain
  <2> QED
    BY <2>10, <2>12, <2>13 DEF IInv
<1> QED
  BY <1>1, <1>2

LEMMA ReverseContinuityStep ==
    ASSUME IInv, ReverseContinuity
    PROVE  IInv'
<1>1. /\ op.phase = "reverse" /\ "rename" \in op.acts /\ "portfolio" \notin op.acts
      /\ J.moved => "descriptor" \notin op.acts
      /\ tree' = [tree EXCEPT !.live = tree.archive[op.id], !.archive[op.id] = None]
      /\ op' = [op EXCEPT !.acts = @ \ {"rename"}]
      /\ UNCHANGED <<portfolio, snap, home, session, used>>
  BY DEF ReverseContinuity, Reversing
<1>2. /\ op.id \in Pending(tree) /\ op.id \in Moves /\ J = tree.journal[op.id]
      /\ J # None /\ J \in Journals /\ J.state = "rolling_back" /\ J.state \notin Forwarding
      /\ Planned(J) /\ UnderWay(tree, portfolio, op.id)
      /\ "portfolio" \notin op.acts /\ ~ J.moved => portfolio.target = J.from
      /\ "descriptor" \notin op.acts => tree.descriptor.target = J.from
      /\ tree.live = None /\ tree.archive[op.id] # None
      /\ tree.archive[op.id].owner.target = J.from
  BY <1>1, ReverseFacts
<1>3. tree \in Trees /\ op \in Commands
  BY KeptTypes
<1>4. tree.archive[op.id] \in Epochs
  BY <1>2, <1>3, TreeTypes
<1>5. /\ tree' \in Trees /\ tree'.journal = tree.journal /\ tree'.descriptor = tree.descriptor
      /\ tree'.live = tree.archive[op.id] /\ tree'.archive = [tree.archive EXCEPT ![op.id] = None]
  <2>1. tree' \in Trees
    BY <1>1, <1>2, <1>3, <1>4, TreeWrites
  <2> QED
    BY <1>1, <1>3, <2>1 DEF Trees
<1>6. tree'.archive[op.id] = None /\ Others(tree, tree', op.id)
  BY <1>2, <1>3, <1>5, TreeTypes DEF Others
<1>7. UnderWay(tree', portfolio, op.id)
  <2>1. Kept(tree', op.id)
    BY <1>2, <1>4, <1>5, <1>6, NoneOutside DEF UnderWay, Kept
  <2>2. portfolio.target = tree.descriptor.target => portfolio.target = J.from
    BY <1>1, <1>2 DEF UnderWay, Planned
  <2>3. LiveAt(tree', J.from)
    BY <1>2, <1>5 DEF LiveAt
  <2> QED
    BY <1>2, <1>5, <2>1, <2>2, <2>3 DEF UnderWay
<1>8. Stored'
  BY <1>1, <1>2, <1>5, <1>6, <1>7, LocalStep
<1>9. /\ op' \in Commands /\ op'.phase = op.phase /\ op'.id = op.id
      /\ op'.acts = op.acts \ {"rename"}
  BY <1>1, <1>3, FewerActs
<1>10. OpSound'
  <2>1. J' = J
    BY <1>2, <1>5, <1>9 DEF J
  <2>2. J.epoch # None
    BY <1>2 DEF UnderWay, Kept
  <2>3. LiveAt(tree', J.from)
    BY <1>2, <1>5 DEF LiveAt
  <2>4. ReverseSound
    BY DEF IInv, OpSound
  <2>5. ReverseSound'
    BY <1>1, <1>2, <1>5, <1>9, <2>1, <2>2, <2>3, <2>4 DEF ReverseSound
  <2> QED
    BY <1>1, <1>2, <1>5, <1>9, <2>5 DEF OpSound, ForwardSound
<1>11. TypeOK'
  BY <1>1, <1>5, <1>9, KeptTypes, TypesAgain
<1> QED
  BY <1>8, <1>10, <1>11 DEF IInv

LEMMA ReverseDescriptorStep ==
    ASSUME IInv, ReverseDescriptor
    PROVE  IInv'
<1>1. CASE tree.descriptor # NewDescriptor(J)
  BY <1>1, StopStep DEF ReverseDescriptor
<1>2. CASE tree.descriptor = NewDescriptor(J)
  <2>1. /\ op.phase = "reverse" /\ "descriptor" \in op.acts /\ "portfolio" \notin op.acts
        /\ tree' = [tree EXCEPT !.descriptor = J.descriptor]
        /\ op' = [op EXCEPT !.acts = @ \ {"descriptor"}]
        /\ UNCHANGED <<portfolio, snap, home, session, used>>
    BY <1>2 DEF ReverseDescriptor, Reversing
  <2>2. /\ op.id \in Pending(tree) /\ op.id \in Moves /\ J = tree.journal[op.id]
        /\ J # None /\ J \in Journals /\ J.state \notin Forwarding
        /\ Planned(J) /\ UnderWay(tree, portfolio, op.id)
        /\ "portfolio" \notin op.acts /\ ~ J.moved => portfolio.target = J.from
        /\ LiveAt(tree, J.from)
    BY <2>1, ReverseFacts
  <2>3. tree \in Trees /\ op \in Commands
    BY KeptTypes
  <2>4. /\ tree' \in Trees /\ tree'.journal = tree.journal /\ tree'.archive = tree.archive
        /\ tree'.live = tree.live /\ tree'.descriptor.target = J.from
    <3>1. J.descriptor \in Documents /\ J.descriptor.target = J.from
      BY <2>2, JournalTypes DEF Planned
    <3> QED
      BY <2>1, <2>3, <3>1, TreeWrites DEF Trees
  <2>5. UnderWay(tree', portfolio, op.id)
    BY <2>1, <2>2, <2>4 DEF UnderWay, Kept, LiveAt, Planned
  <2>6. Others(tree, tree', op.id)
    BY <2>4 DEF Others
  <2>7. Stored'
    BY <2>1, <2>2, <2>4, <2>5, <2>6, LocalStep
  <2>8. /\ op' \in Commands /\ op'.phase = op.phase /\ op'.id = op.id
        /\ op'.acts = op.acts \ {"descriptor"}
    BY <2>1, <2>3, FewerActs
  <2>9. OpSound'
    <3>1. J' = J
      BY <2>2, <2>4, <2>8 DEF J
    <3>2. ReverseSound
      BY DEF IInv, OpSound
    <3>3. ReverseSound'
      BY <2>1, <2>4, <2>8, <3>1, <3>2 DEF ReverseSound, LiveAt
    <3> QED
      BY <2>1, <2>2, <2>4, <2>8, <3>3 DEF OpSound, ForwardSound
  <2>10. TypeOK'
    BY <2>1, <2>4, <2>8, KeptTypes, TypesAgain
  <2> QED
    BY <2>7, <2>9, <2>10 DEF IInv
<1> QED
  BY <1>1, <1>2

LEMMA RecordRolledBackStep ==
    ASSUME IInv, RecordRolledBack
    PROVE  IInv'
<1> DEFINE undone == {"descriptor", "continuity", "portfolio"}
<1>1. /\ op.phase = "reverse" /\ op.acts \subseteq {"leave"}
      /\ Record([J EXCEPT !.state = "rolled_back", !.done = @ \ undone])
      /\ op' = Run("publish", op.id, {})
      /\ UNCHANGED <<portfolio, snap, home, session, used>>
  BY DEF RecordRolledBack
<1>2. /\ op.id \in Pending(tree) /\ op.id \in Moves /\ J = tree.journal[op.id]
      /\ J # None /\ J \in Journals /\ J.state \in Active /\ Planned(J)
      /\ SoundTree(tree, portfolio, used.hand) /\ UnderWay(tree, portfolio, op.id)
      /\ ~ J.moved => portfolio.target = J.from
      /\ tree.descriptor.target = J.from /\ LiveAt(tree, J.from)
  BY <1>1, ReverseFacts
<1>3. "rolled_back" \in States
  BY DEF States
<1>4. PICK k \in Journals : /\ k = [J EXCEPT !.state = "rolled_back", !.done = @ \ undone]
                            /\ SamePlan(J, k) /\ k.done = J.done \ undone /\ k.state = "rolled_back"
  BY <1>2, <1>3, StateWrites
<1>5. Record(k) /\ k # None
  BY <1>1, <1>4, NoneOutside
<1>6. tree \in Trees /\ portfolio \in Documents /\ used.hand \in BOOLEAN
  BY KeptTypes
<1>7. /\ tree' \in Trees /\ tree'.descriptor = tree.descriptor /\ tree'.live = tree.live
      /\ tree'.archive = tree.archive /\ tree'.journal[op.id] = k
      /\ \A i \in Moves \ {op.id} : tree'.journal[i] = tree.journal[i]
      /\ Others(tree, tree', op.id)
  BY <1>2, <1>5, <1>6, Replaced DEF Record
<1>8. Progress(k) /\ k.state \notin Active /\ k.state \notin Forwarding
  BY <1>4 DEF Progress, Active, Forwarding
<1>9. /\ tree'.journal[op.id] # None /\ SamePlan(tree.journal[op.id], tree'.journal[op.id])
      /\ tree'.journal[op.id].state \notin Active /\ tree'.journal[op.id].state \notin Forwarding
      /\ Progress(tree'.journal[op.id]) /\ tree.journal[op.id] # None
  BY <1>2, <1>4, <1>5, <1>7, <1>8
<1>10. SoundTree(tree', portfolio, used.hand)
  <2>1. LiveAt(tree', tree'.descriptor.target)
    BY <1>2, <1>7 DEF LiveAt
  <2>2. \/ portfolio.target = tree'.descriptor.target
        \/ tree.journal[op.id].moved /\ portfolio.target = tree.journal[op.id].to
                                     /\ tree'.descriptor.target = tree.journal[op.id].from
    BY <1>2, <1>7 DEF UnderWay
  <2>3. tree' \in Trees /\ Others(tree, tree', op.id)
    BY <1>7
  <2>4. op.id \in Pending(tree) /\ SoundTree(tree, portfolio, used.hand)
    BY <1>2
  <2> QED
    BY <1>6, <1>9, <2>1, <2>2, <2>3, <2>4, NowOver
<1>11. Stored'
  <2>1. Durable /\ tree'.journal[op.id].done # {} => snap # None /\ snap.journal[op.id] # None
    <3>1. tree'.journal[op.id].done # {} => tree.journal[op.id].done # {}
      BY <1>2, <1>4, <1>7
    <3> QED
      BY <1>2, <3>1, SnapshotHolds
  <2> QED
    BY <1>1, <1>2, <1>7, <1>9, <1>10, <2>1, JournalStep
<1>12. op'.phase = "publish" /\ op'.id = op.id /\ ~ op'.taken
  BY <1>1 DEF Run
<1>13. OpSound'
  BY <1>2, <1>4, <1>5, <1>7, <1>12 DEF OpSound, ForwardSound, ReverseSound, J
<1>14. TypeOK'
  BY <1>1, <1>2, <1>7, KeptTypes, CommandTypes, TypesAgain
<1> QED
  BY <1>11, <1>13, <1>14 DEF IInv

LEMMA PublishRolledBackStep ==
    ASSUME IInv, PublishRolledBack
    PROVE  IInv'
<1>1. /\ op.phase = "publish" /\ Durable /\ snap' = tree /\ op' = [op EXCEPT !.taken = TRUE]
      /\ UNCHANGED <<portfolio, tree, home, session, used>>
  BY DEF PublishRolledBack
<1>2. Stored' /\ OpSound'
  BY <1>1, SnapshotStep
<1>3. TypeOK'
  BY <1>1, KeptTypes, CommandTypes, TypesAgain
<1> QED
  BY <1>2, <1>3 DEF IInv

LEMMA RecordRollbackSnapshotStep ==
    ASSUME IInv, RecordRollbackSnapshot
    PROVE  IInv'
<1>1. /\ op.phase = "publish" /\ (Durable => op.taken)
      /\ Record(Recorded("rollback_snapshot", J.state)) /\ op' = Idle
      /\ UNCHANGED <<portfolio, snap, home, session, used>>
  BY DEF RecordRollbackSnapshot
<1>2. op.id \in Moves /\ J # None /\ J \in Journals /\ J.state = "rolled_back"
  BY <1>1, Running DEF IInv, OpSound
<1>3. "rollback_snapshot" \in Steps /\ J.state \in States
  BY <1>2 DEF Steps, States
<1>4. PICK k \in Journals : /\ k = Recorded("rollback_snapshot", J.state) /\ SamePlan(J, k)
                            /\ k.done = J.done \cup {"rollback_snapshot"} /\ k.state = J.state
  BY <1>2, <1>3, Records
<1>5. J.state \notin Active /\ k.state \notin Active
  BY <1>2, <1>4 DEF Active
<1>6. Progress(k)
  BY <1>2, <1>4 DEF Progress, Forwarding, Active
<1>7. Durable => op.taken /\ snap # None /\ snap.journal[op.id] # None
  BY <1>1 DEF IInv, OpSound
<1>8. Record(k)
  BY <1>1, <1>4
<1> QED
  BY <1>1, <1>3, <1>4, <1>5, <1>6, <1>7, <1>8, RecordOver

-----------------------------------------------------------------------------
(* The invariant.                                                          *)

LEMMA InitSound == Init => IInv
<1> SUFFICES ASSUME NEW t \in Targets, NEW h \in Homes,
                    portfolio = [target |-> t, edit |-> 0],
                    tree = [descriptor |-> [target |-> t, edit |-> 0], live |-> None,
                            archive |-> [i \in Moves |-> None], journal |-> [i \in Moves |-> None],
                            backups |-> [i \in Moves |-> {}], receipts |-> {}, open |-> FALSE],
                    snap = None, op = Idle, Init
             PROVE  IInv
  BY DEF Init
<1>1. /\ \A i \in Moves : tree.journal[i] = None /\ tree.archive[i] = None
      /\ tree.live = None /\ portfolio.target = tree.descriptor.target
  OBVIOUS
<1>2. Pending(tree) = {}
  BY <1>1 DEF Pending
<1>3. SoundTree(tree, portfolio, used.hand)
  BY <1>1, <1>2 DEF SoundTree, Ordered, LiveAt
<1>4. Snapped(snap, tree)
  BY <1>1 DEF Snapped
<1>5. OpSound
  BY DEF OpSound, ForwardSound, ReverseSound, Idle
<1> QED
  BY <1>3, <1>4, <1>5, InitTypes DEF IInv, Stored

LEMMA StepSound == IInv /\ [Next]_vars => IInv'
<1> SUFFICES ASSUME IInv, [Next]_vars PROVE IInv'
  OBVIOUS
<1>1. CASE Forward
  BY <1>1, BackupStep, PublishSnapshotStep, RecordSnapshotStep, RecheckStep,
     ApplyDescriptorStep, RecordDescriptorStep, ArchiveContinuityStep, RecordContinuityStep,
     WritePortfolioStep, RecordPortfolioStep, WriteReceiptStep, RecordReceiptStep DEF Forward
<1>2. CASE Reverse
  BY <1>2, ReversePortfolioStep, ReverseContinuityStep, ReverseDescriptorStep,
     RecordRolledBackStep, PublishRolledBackStep, RecordRollbackSnapshotStep DEF Reverse
<1>3. CASE Call
  BY <1>3, StartStep, ResumeStep, RollbackStep, RepeatRollbackStep DEF Call
<1>4. CASE Sessions
  BY <1>4, LaunchStep, TaskSteps, SnapshotSteps DEF Sessions
<1>5. CASE Outside
  BY <1>5, SnapshotSteps, EditSteps, HandMoveStep, LoseStep DEF Outside
<1>6. CASE UNCHANGED vars
  BY <1>6, KeptTypes, AlikeSelf, AlikeStep DEF vars
<1> QED
  BY <1>1, <1>2, <1>3, <1>4, <1>5, <1>6 DEF Next

\* Whatever steps, crashes, restores and edits by others came before, the files and
\* the snapshot are sound for the portfolio and the running command is where its
\* journal says: what _run_apply and _run_rollback find when they take up a journal
\* that an earlier process left.
THEOREM Sound == Spec => []IInv
<1>1. Init => IInv
  BY InitSound
<1>2. IInv /\ [Next]_vars => IInv'
  BY StepSound
<1> QED
  BY <1>1, <1>2, PTL DEF Spec

\* TypeOK for every value of the constants: the journal holds a state and steps of
\* _run_apply's chain, the snapshot is a whole tree, and a counter of what others
\* did stays within its bound.
THEOREM TypeCorrect == Spec => []TypeOK
<1>1. IInv => TypeOK
  BY DEF IInv
<1> QED
  BY <1>1, Sound, PTL

-----------------------------------------------------------------------------
(* What the split states say.                                              *)

\* A split that nobody made by hand has a journal that names its two targets: one
\* under way, or one over whose record of the portfolio a rollback overtook.
LEMMA SplitNamed == IInv => SplitHasJournal
<1> SUFFICES ASSUME IInv, Split, ~ used.hand
             PROVE  \E id \in Moves :
                       /\ tree.journal[id] # None
                       /\ Unfinished(id) \/ TakenBack(id)
                       /\ {tree.journal[id].from, tree.journal[id].to}
                             = {portfolio.target, tree.descriptor.target}
  BY DEF SplitHasJournal
<1>1. SoundTree(tree, portfolio, used.hand) /\ portfolio.target # tree.descriptor.target
  BY DEF IInv, Stored, Split
<1>2. ASSUME NEW id \in Pending(tree)
      PROVE  /\ id \in Moves /\ tree.journal[id] # None /\ Unfinished(id)
             /\ {tree.journal[id].from, tree.journal[id].to}
                   = {portfolio.target, tree.descriptor.target}
  <2>1. id \in Moves /\ tree.journal[id] # None /\ Unfinished(id)
    BY DEF Pending, Unfinished
  <2>2. UnderWay(tree, portfolio, id)
    BY <1>1 DEF SoundTree
  <2> QED
    BY <1>1, <2>1, <2>2 DEF UnderWay
<1>3. CASE Pending(tree) = {}
  <2>1. PICK id \in Moves : PutBack(tree, id, portfolio.target, tree.descriptor.target)
    BY <1>1, <1>3 DEF SoundTree
  <2>2. tree.journal[id] # None /\ TakenBack(id)
    BY <2>1 DEF PutBack, TakenBack
  <2> QED
    BY <2>1, <2>2 DEF PutBack
<1> QED
  BY <1>2, <1>3

\* SplitHasJournal for every value of the constants: where portfolio and descriptor
\* name different targets and nobody edited the portfolio by hand, an unfinished
\* journal (or one a rollback overtook) names both, so bootstrap can report
\* migration_pending and the caller can finish or reverse it.
THEOREM SplitsAreNamed == Spec => []SplitHasJournal
BY Sound, SplitNamed, PTL

-----------------------------------------------------------------------------
(* What each step does to the route and to the receipts.                   *)

\* Nothing that a session, or a receipt, shows.
Unseen ==
    /\ portfolio'.target = portfolio.target /\ tree'.descriptor.target = tree.descriptor.target
    /\ tree'.live = tree.live /\ used'.losses = used.losses
    /\ tree'.receipts = tree.receipts

LEMMA UnseenRecord ==
    ASSUME IInv, NEW k, Record(k), UNCHANGED <<portfolio, used>>
    PROVE  Unseen
<1>1. tree \in Trees
  BY KeptTypes
<1> QED
  BY <1>1 DEF Record, Unseen, Trees

LEMMA UnseenStop == Stop => Unseen
BY DEF Stop, Unseen

LEMMA ForwardSeen ==
    ASSUME IInv, Forward
    PROVE  /\ op'.phase \in {op.phase, "idle"}
           /\ Unseen \/ ApplyDescriptor \/ ArchiveContinuity \/ WritePortfolio \/ WriteReceipt
<1>1. tree \in Trees /\ op \in Commands
  BY KeptTypes
<1>2. Stop => op'.phase = "idle" /\ Unseen
  BY UnseenStop DEF Stop, Idle
<1>3. ASSUME NEW which \in {"portfolio", "descriptor"}, Backup(which)
      PROVE  op'.phase \in {op.phase, "idle"} /\ Unseen
  <2>1. CASE Untouched(which)
    <3>1. /\ tree' = [tree EXCEPT !.backups[op.id] = @ \cup {which}]
          /\ UNCHANGED <<portfolio, snap, home, session, op, used>>
      BY <1>3, <2>1 DEF Backup
    <3> QED
      BY <1>1, <3>1 DEF Unseen, Trees
  <2>2. CASE ~ Untouched(which)
    BY <1>2, <1>3, <2>2 DEF Backup
  <2> QED
    BY <2>1, <2>2
<1>4. ASSUME NEW step \in Snapshots, PublishSnapshot(step)
      PROVE  op'.phase \in {op.phase, "idle"} /\ Unseen
  BY <1>1, <1>4 DEF PublishSnapshot, Unseen, Commands
<1>5. ASSUME NEW step \in Snapshots, RecordSnapshot(step)
      PROVE  op'.phase \in {op.phase, "idle"} /\ Unseen
  <2>1. Unseen
    BY <1>5, UnseenRecord DEF RecordSnapshot
  <2> QED
    BY <1>1, <1>5, <2>1 DEF RecordSnapshot, Idle, Commands
<1>6. Recheck => op'.phase \in {op.phase, "idle"} /\ Unseen
  BY <1>1, <1>2 DEF Recheck, Unseen, Commands
<1>7. RecordDescriptor => op'.phase \in {op.phase, "idle"} /\ Unseen
  BY <1>2, UnseenRecord DEF RecordDescriptor
<1>8. RecordContinuity => op'.phase \in {op.phase, "idle"} /\ Unseen
  BY <1>2, UnseenRecord DEF RecordContinuity
<1>9. RecordPortfolio => op'.phase \in {op.phase, "idle"} /\ Unseen
  BY <1>2, UnseenRecord DEF RecordPortfolio
<1>10. RecordReceipt => op'.phase \in {op.phase, "idle"} /\ Unseen
  BY UnseenRecord DEF RecordReceipt
<1>11. ApplyDescriptor \/ ArchiveContinuity \/ WritePortfolio \/ WriteReceipt => op' = op
  BY DEF ApplyDescriptor, ArchiveContinuity, WritePortfolio, WriteReceipt
<1> QED
  BY <1>3, <1>4, <1>5, <1>6, <1>7, <1>8, <1>9, <1>10, <1>11 DEF Forward

LEMMA ReverseSeen ==
    ASSUME IInv, Reverse
    PROVE  /\ op'.phase \in {op.phase, "idle"} \/ RecordRolledBack
           /\ Unseen \/ ReversePortfolio \/ ReverseContinuity \/ ReverseDescriptor
<1>1. tree \in Trees /\ op \in Commands
  BY KeptTypes
<1>2. Stop => op'.phase = "idle"
  BY DEF Stop, Idle
<1>3. ReversePortfolio \/ ReverseContinuity \/ ReverseDescriptor => op'.phase \in {op.phase, "idle"}
  BY <1>1, <1>2 DEF ReversePortfolio, ReverseContinuity, ReverseDescriptor, Commands
<1>4. RecordRolledBack => Unseen
  BY UnseenRecord DEF RecordRolledBack
<1>5. PublishRolledBack => op'.phase \in {op.phase, "idle"} /\ Unseen
  BY <1>1 DEF PublishRolledBack, Unseen, Commands
<1>6. RecordRollbackSnapshot => op'.phase \in {op.phase, "idle"} /\ Unseen
  BY UnseenRecord DEF RecordRollbackSnapshot, Idle
<1> QED
  BY <1>3, <1>4, <1>5, <1>6 DEF Reverse

LEMMA CallSeen ==
    ASSUME IInv, Call
    PROVE  op = Idle /\ Unseen
<1>1. tree \in Trees
  BY KeptTypes
<1>2. PICK id \in Moves : \/ \E to \in Targets : Start(id, to)
                          \/ Resume(id) \/ Rollback(id) \/ RepeatRollback(id)
  BY DEF Call
<1>3. op = Idle /\ UNCHANGED <<portfolio, used>>
  BY <1>2 DEF Start, Resume, Rollback, RepeatRollback, Stopped
<1>4. tree' = tree \/ \E k : tree' = [tree EXCEPT !.journal[id] = k]
  BY <1>2 DEF Start, Resume, Rollback, RepeatRollback
<1> QED
  BY <1>1, <1>3, <1>4 DEF Unseen, Trees

LEMMA SessionsSeen ==
    ASSUME IInv, Sessions
    PROVE  op' = op /\ (Unseen \/ Launch)
<1>1. tree \in Trees /\ used \in Spent
  BY KeptTypes
<1>2. op' = op
  BY DEF Sessions, Launch, OpenTask, CloseTask, EndSession, SessionSnapshot
<1>3. OpenTask => Unseen
  BY <1>1 DEF OpenTask, Unseen, Trees, Spent
<1>4. CloseTask => Unseen
  BY <1>1 DEF CloseTask, Unseen, Trees
<1>5. EndSession \/ SessionSnapshot => Unseen
  BY DEF EndSession, SessionSnapshot, Unseen
<1> QED
  BY <1>2, <1>3, <1>4, <1>5 DEF Sessions

LEMMA OutsideSeen ==
    ASSUME IInv, Outside
    PROVE  /\ op' = op \/ op' = Idle
           /\ Unseen \/ (\E t \in Targets : HandMove(t)) \/ (\E h \in Homes : Lose(h))
<1>1. tree \in Trees /\ used \in Spent /\ portfolio \in Documents
  BY KeptTypes
<1>2. op' = op \/ op' = Idle
  BY DEF Outside, NeighbourSnapshot, EditPortfolio, EditDescriptor, HandMove, Crash, Lose
<1>3. NeighbourSnapshot => Unseen
  BY <1>1 DEF NeighbourSnapshot, Unseen, Spent
<1>4. EditPortfolio => Unseen
  BY <1>1 DEF EditPortfolio, Unseen, Spent, Documents
<1>5. EditDescriptor => Unseen
  <2>1. SUFFICES ASSUME EditDescriptor PROVE Unseen
    OBVIOUS
  <2>2. PICK e : tree' = [tree EXCEPT !.descriptor.edit = e]
    BY <2>1 DEF EditDescriptor
  <2>3. tree.descriptor \in Documents
    BY <1>1, TreeTypes
  <2>4. [tree.descriptor EXCEPT !.edit = e].target = tree.descriptor.target
    BY <2>3 DEF Documents
  <2>5. PICK d : d.target = tree.descriptor.target /\ tree' = [tree EXCEPT !.descriptor = d]
    BY <2>2, <2>4
  <2>6. /\ tree'.descriptor.target = tree.descriptor.target /\ tree'.live = tree.live
        /\ tree'.receipts = tree.receipts
    BY <1>1, <2>5 DEF Trees
  <2>7. portfolio' = portfolio /\ used'.losses = used.losses
    BY <1>1, <2>1 DEF EditDescriptor, Spent
  <2> QED
    BY <2>6, <2>7 DEF Unseen
<1>6. Crash => Unseen
  BY <1>1 DEF Crash, Unseen, Spent
<1> QED
  BY <1>2, <1>3, <1>4, <1>5, <1>6 DEF Outside

LEMMA Seen ==
    ASSUME IInv, [Next]_vars
    PROVE  \/ Unseen \/ ApplyDescriptor \/ ArchiveContinuity \/ WritePortfolio \/ WriteReceipt
           \/ ReversePortfolio \/ ReverseContinuity \/ ReverseDescriptor \/ Launch
           \/ (\E t \in Targets : HandMove(t)) \/ (\E h \in Homes : Lose(h))
<1>1. UNCHANGED vars => Unseen
  BY DEF vars, Unseen
<1> QED
  BY <1>1, ForwardSeen, ReverseSeen, CallSeen, SessionsSeen, OutsideSeen DEF Next

LEMMA OnlyRecordRolledBackPublishes ==
    ASSUME IInv, [Next]_vars, op.phase = "reverse", op'.phase = "publish"
    PROVE  RecordRolledBack
<1>1. op # Idle /\ op' # Idle /\ op' # op /\ op'.phase \notin {op.phase, "idle"}
  BY DEF Idle
<1>2. ~ UNCHANGED vars
  BY <1>1 DEF vars
<1> QED
  BY <1>1, <1>2, ForwardSeen, ReverseSeen, CallSeen, SessionsSeen, OutsideSeen DEF Next

LEMMA OnlyWriteReceiptAdds ==
    ASSUME IInv, [Next]_vars, used'.losses = used.losses, NEW id \in tree'.receipts \ tree.receipts
    PROVE  Due("receipt") /\ id = op.id
<1>1. tree \in Trees /\ used \in Spent
  BY KeptTypes
<1>2. ApplyDescriptor => tree'.receipts = tree.receipts
  BY <1>1 DEF ApplyDescriptor, Trees
<1>3. ArchiveContinuity => tree'.receipts = tree.receipts
  BY <1>1 DEF ArchiveContinuity, Trees
<1>4. WritePortfolio => tree'.receipts = tree.receipts
  BY DEF WritePortfolio
<1>5. ReversePortfolio => tree'.receipts = tree.receipts
  BY DEF ReversePortfolio, Stop
<1>6. ReverseContinuity => tree'.receipts = tree.receipts
  BY <1>1 DEF ReverseContinuity, Trees
<1>7. ReverseDescriptor => tree'.receipts = tree.receipts
  BY <1>1 DEF ReverseDescriptor, Stop, Trees
<1>8. Launch => tree'.receipts = tree.receipts
  BY <1>1 DEF Launch, Trees
<1>9. \A t \in Targets : HandMove(t) => tree'.receipts = tree.receipts
  BY DEF HandMove
<1>10. \A h \in Homes : Lose(h) => used'.losses # used.losses
  <2>1. used.losses \in Nat
    BY <1>1, SpentTypes
  <2> QED
    BY <1>1, <2>1 DEF Lose, Spent
<1>11. WriteReceipt => Due("receipt") /\ tree'.receipts = tree.receipts \cup {op.id}
  BY <1>1 DEF WriteReceipt, Trees
<1> QED
  BY Seen, <1>2, <1>3, <1>4, <1>5, <1>6, <1>7, <1>8, <1>9, <1>10, <1>11 DEF Unseen

-----------------------------------------------------------------------------
(* When a migration records its end the authorities are where it says.     *)

EndsStep ==
    \A id \in Moves :
        /\ op.phase = "reverse" /\ op.id = id /\ op'.phase = "publish" =>
            LET j == tree.journal[id]
            IN  /\ tree.descriptor.target = j.from
                /\ portfolio.target = IF j.moved THEN j.to ELSE j.from
                /\ EpochBack(j, id)
        /\ used'.losses = used.losses /\ id \in tree'.receipts \ tree.receipts =>
            LET j == tree.journal[id]
            IN  /\ tree.descriptor.target = j.to
                /\ portfolio.target = j.to \/ TakenBack(id)
                /\ EpochAway(j, id)

LEMMA StepEnds == IInv /\ [Next]_vars => EndsStep
<1> SUFFICES ASSUME IInv, [Next]_vars PROVE EndsStep
  OBVIOUS
<1>1. ASSUME op.phase = "reverse", op'.phase = "publish"
      PROVE  /\ tree.descriptor.target = J.from
             /\ portfolio.target = IF J.moved THEN J.to ELSE J.from
             /\ EpochBack(J, op.id) /\ J = tree.journal[op.id]
  <2>1. op.acts \subseteq {"leave"}
    BY <1>1, OnlyRecordRolledBackPublishes DEF RecordRolledBack
  <2>2. /\ J = tree.journal[op.id] /\ UnderWay(tree, portfolio, op.id)
        /\ ~ J.moved => portfolio.target = J.from
        /\ tree.descriptor.target = J.from
        /\ J.epoch = None => tree.live = None
    BY <1>1, <2>1, ReverseFacts
  <2>3. EpochBack(J, op.id)
    BY <2>2 DEF UnderWay, Kept, EpochBack
  <2> QED
    BY <2>2, <2>3 DEF UnderWay
<1>2. ASSUME used'.losses = used.losses, NEW id \in tree'.receipts \ tree.receipts
      PROVE  /\ id = op.id /\ tree.descriptor.target = J.to
             /\ portfolio.target = J.to \/ TakenBack(op.id)
             /\ EpochAway(J, op.id) /\ J = tree.journal[op.id]
  <2>1. Due("receipt") /\ id = op.id
    BY <1>2, OnlyWriteReceiptAdds
  <2>2. /\ J = tree.journal[op.id] /\ AtStep(J, "receipt")
        /\ UnderWay(tree, portfolio, op.id) /\ Advancing(tree, op.id)
    BY <2>1, DueFacts
  <2>3. {"descriptor", "continuity", "portfolio"} \subseteq J.done
    BY <2>2 DEF AtStep, LocalSteps
  <2>4. tree.descriptor.target = J.to
    BY <2>2, <2>3 DEF Advancing
  <2>5. portfolio.target = J.to \/ TakenBack(op.id)
    BY <2>2, <2>3 DEF UnderWay, TakenBack
  <2>6. EpochAway(J, op.id)
    BY <2>2, <2>3 DEF UnderWay, Kept, Advancing, LiveAt, EpochAway
  <2> QED
    BY <2>1, <2>2, <2>4, <2>5, <2>6
<1> QED
  BY <1>1, <1>2 DEF EndsStep

\* EndsAsRecorded for every value of the constants: a rollback records
\* "rolled_back" only when portfolio, descriptor and epoch are back where the
\* journal found them, and _run_apply writes a receipt only when all three are at
\* the new target.
THEOREM EndsAreAsRecorded == Spec => EndsAsRecorded
<1>1. IInv /\ [Next]_vars => EndsStep
  BY StepEnds
<1>2. EndsAsRecorded <=> [][EndsStep]_vars
  BY DEF EndsAsRecorded, EndsStep
<1>3. IInv /\ [Next]_vars => [EndsStep]_vars
  BY <1>1
<1> QED
  BY <1>2, <1>3, Sound, PTL DEF Spec

-----------------------------------------------------------------------------
(* The route that the sessions see.                                        *)

RouteNow == IF Split THEN "nowhere" ELSE portfolio.target
EpochNow ==
    IF tree.live = None THEN None ELSE [target |-> tree.live.owner.target, id |-> tree.live.id]

\* The steps of ProjectRoute, said of them.
RouteStep ==
    \/ /\ RouteNow # "nowhere" /\ EpochNow = None
       /\ EpochNow' \in {e \in Route!RouteEpochs : e.target = RouteNow}
       /\ RouteNow' = RouteNow /\ used'.losses = used.losses
    \/ /\ RouteNow # "nowhere" /\ RouteNow' = "nowhere"
       /\ EpochNow' = EpochNow /\ used'.losses = used.losses
    \/ /\ RouteNow = "nowhere" /\ EpochNow' \in Route!RouteEpochs \cup {None}
       /\ EpochNow = None \/ EpochNow' = None
       /\ RouteNow' = RouteNow /\ used'.losses = used.losses
    \/ /\ RouteNow = "nowhere" /\ RouteNow' \in Targets
       /\ EpochNow = None \/ EpochNow.target = RouteNow'
       /\ EpochNow' = EpochNow /\ used'.losses = used.losses
    \/ /\ RouteNow' \in Targets \cup {"nowhere"} /\ EpochNow' \in Route!RouteEpochs \cup {None}
       /\ RouteNow' = "nowhere" \/ EpochNow' = None \/ EpochNow'.target = RouteNow'
       /\ used'.losses = used.losses + 1
    \/ RouteNow' = RouteNow /\ EpochNow' = EpochNow /\ used'.losses = used.losses

LEMMA RouteMoves == RouteStep => [Route!Next]_(Route!routeVars)
<1> SUFFICES ASSUME RouteStep PROVE [Route!Next]_(Route!routeVars)
  OBVIOUS
<1>1. CASE /\ RouteNow # "nowhere" /\ EpochNow = None
           /\ EpochNow' \in {e \in Route!RouteEpochs : e.target = RouteNow}
           /\ RouteNow' = RouteNow /\ used'.losses = used.losses
  <2>1. Route!Launch
    BY <1>1 DEF Route!Launch, RouteNow, EpochNow
  <2> QED
    BY <2>1 DEF Route!Next
<1>2. CASE /\ RouteNow # "nowhere" /\ RouteNow' = "nowhere"
           /\ EpochNow' = EpochNow /\ used'.losses = used.losses
  <2>1. Route!Close
    BY <1>2 DEF Route!Close, RouteNow, EpochNow
  <2> QED
    BY <2>1 DEF Route!Next
<1>3. CASE /\ RouteNow = "nowhere" /\ EpochNow' \in Route!RouteEpochs \cup {None}
           /\ EpochNow = None \/ EpochNow' = None
           /\ RouteNow' = RouteNow /\ used'.losses = used.losses
  <2>1. Route!Exchange
    BY <1>3 DEF Route!Exchange, RouteNow, EpochNow
  <2> QED
    BY <2>1 DEF Route!Next
<1>4. CASE /\ RouteNow = "nowhere" /\ RouteNow' \in Targets
           /\ EpochNow = None \/ EpochNow.target = RouteNow'
           /\ EpochNow' = EpochNow /\ used'.losses = used.losses
  <2>1. Route!Open
    BY <1>4 DEF Route!Open, Route!Belongs, RouteNow, EpochNow
  <2> QED
    BY <2>1 DEF Route!Next
<1>5. CASE /\ RouteNow' \in Targets \cup {"nowhere"} /\ EpochNow' \in Route!RouteEpochs \cup {None}
           /\ RouteNow' = "nowhere" \/ EpochNow' = None \/ EpochNow'.target = RouteNow'
           /\ used'.losses = used.losses + 1
  <2>1. Route!Lose
    BY <1>5 DEF Route!Lose, Route!Belongs, RouteNow, EpochNow
  <2> QED
    BY <2>1 DEF Route!Next
<1>6. CASE RouteNow' = RouteNow /\ EpochNow' = EpochNow /\ used'.losses = used.losses
  BY <1>6 DEF Route!routeVars, RouteNow, EpochNow
<1> QED
  BY <1>1, <1>2, <1>3, <1>4, <1>5, <1>6 DEF RouteStep

\* The epoch that the sessions see.
LEMMA EpochSeen ==
    ASSUME NEW t \in Trees
    PROVE  LET e == IF t.live = None THEN None
                    ELSE [target |-> t.live.owner.target, id |-> t.live.id]
           IN  /\ e \in Route!RouteEpochs \cup {None}
               /\ \A target : LiveAt(t, target) => e = None \/ e.target = target
               /\ t.live # None => e \in Route!RouteEpochs /\ e.target = t.live.owner.target
<1>1. CASE t.live = None
  BY <1>1
<1>2. CASE t.live # None
  <2>1. t.live.owner.target \in Targets /\ t.live.id \in Names
    BY <1>2, TreeTypes, EpochTypes
  <2> QED
    BY <1>2, <2>1 DEF Route!RouteEpochs, LiveAt
<1> QED
  BY <1>1, <1>2

\* An open route is where the live epoch belongs.
LEMMA BelongsWhereOpen ==
    ASSUME NEW t \in Trees, NEW p, NEW hand, SoundTree(t, p, hand), p.target = t.descriptor.target
    PROVE  LiveAt(t, p.target)
<1>1. CASE Pending(t) = {}
  BY <1>1 DEF SoundTree
<1>2. ASSUME NEW id \in Pending(t) PROVE LiveAt(t, p.target)
  <2>1. UnderWay(t, p, id)
    BY DEF SoundTree
  <2> QED
    BY <2>1 DEF UnderWay
<1> QED
  BY <1>1, <1>2

LEMMA UnseenRoute == Unseen => RouteStep
BY DEF Unseen, RouteStep, RouteNow, EpochNow, Split

LEMMA TargetsOpen ==
    ASSUME IInv
    PROVE  /\ portfolio.target \in Targets /\ portfolio.target # "nowhere"
           /\ \A t \in Targets : t # "nowhere"
BY KeptTypes, NoneOutside

LEMMA ApplyDescriptorRoute ==
    ASSUME IInv, ApplyDescriptor
    PROVE  RouteStep
<1>1. /\ Due("descriptor") /\ tree.descriptor = J.descriptor
      /\ tree' = [tree EXCEPT !.descriptor = NewDescriptor(J)]
      /\ UNCHANGED <<portfolio, snap, home, session, op, used>>
  BY DEF ApplyDescriptor
<1>2. /\ op.id \in Pending(tree) /\ J = tree.journal[op.id]
      /\ J \in Journals /\ AtStep(J, "descriptor") /\ Planned(J)
      /\ UnderWay(tree, portfolio, op.id) /\ Advancing(tree, op.id)
  BY <1>1, DueFacts
<1>3. tree \in Trees
  BY KeptTypes
<1>4. tree'.live = tree.live /\ tree'.descriptor.target = J.to /\ tree.descriptor.target = J.from
  BY <1>1, <1>2, <1>3, NewFiles DEF Trees, Planned
<1>5. "descriptor" \notin J.done /\ (J.moved => "continuity" \in J.done)
  BY <1>2 DEF AtStep, First, Second
<1>6. J.from # J.to
  BY <1>2 DEF Planned
<1>7. EpochNow' = EpochNow
  BY <1>4 DEF EpochNow
<1>8. CASE ~ J.moved
  <2>1. portfolio.target = J.from
    BY <1>2, <1>5, <1>8 DEF UnderWay, LocalSteps
  <2>2. RouteNow = portfolio.target /\ RouteNow' = "nowhere"
    BY <1>1, <1>4, <1>6, <2>1 DEF RouteNow, Split
  <2> QED
    BY <1>1, <1>7, <2>2, TargetsOpen DEF RouteStep
<1>9. CASE J.moved
  <2>1. portfolio.target = J.to /\ LiveAt(tree, J.to)
    BY <1>2, <1>5, <1>9 DEF UnderWay, Advancing
  <2>2. RouteNow = "nowhere" /\ RouteNow' = portfolio.target
    BY <1>1, <1>4, <1>6, <2>1 DEF RouteNow, Split
  <2>3. EpochNow = None \/ EpochNow.target = portfolio.target
    BY <1>3, <2>1, EpochSeen DEF EpochNow
  <2> QED
    BY <1>1, <1>7, <2>2, <2>3, TargetsOpen DEF RouteStep
<1> QED
  BY <1>8, <1>9

LEMMA ArchiveContinuityRoute ==
    ASSUME IInv, ArchiveContinuity
    PROVE  RouteStep
<1>1. /\ Due("continuity") /\ tree.archive[op.id] = None
      /\ tree' = [tree EXCEPT !.archive[op.id] = tree.live, !.live = None]
      /\ UNCHANGED <<portfolio, snap, home, session, op, used>>
  BY DEF ArchiveContinuity, Archivable
<1>2. /\ op.id \in Pending(tree) /\ J = tree.journal[op.id]
      /\ J \in Journals /\ AtStep(J, "continuity") /\ Planned(J)
      /\ UnderWay(tree, portfolio, op.id) /\ Advancing(tree, op.id)
  BY <1>1, DueFacts
<1>3. tree \in Trees
  BY KeptTypes
<1>4. tree'.live = None /\ tree'.descriptor = tree.descriptor
  BY <1>1, <1>3 DEF Trees
<1>5. "continuity" \notin J.done /\ (~ J.moved => "descriptor" \in J.done)
  BY <1>2 DEF AtStep, First, Second
<1>6. portfolio.target # tree.descriptor.target
  BY <1>2, <1>5 DEF UnderWay, Advancing, Planned, LocalSteps
<1>7. RouteNow = "nowhere" /\ RouteNow' = "nowhere"
  BY <1>1, <1>4, <1>6 DEF RouteNow, Split
<1>8. EpochNow' = None
  BY <1>4 DEF EpochNow
<1> QED
  BY <1>1, <1>7, <1>8 DEF RouteStep

LEMMA WritePortfolioRoute ==
    ASSUME IInv, WritePortfolio
    PROVE  RouteStep
<1>1. /\ Due("portfolio") /\ ~ J.moved /\ portfolio = J.portfolio /\ portfolio' = NewPortfolio(J)
      /\ used' = [used EXCEPT !.hand = FALSE] /\ tree' = tree
  BY DEF WritePortfolio
<1>2. /\ op.id \in Pending(tree) /\ J = tree.journal[op.id]
      /\ J \in Journals /\ AtStep(J, "portfolio") /\ Planned(J)
      /\ UnderWay(tree, portfolio, op.id) /\ Advancing(tree, op.id)
  BY <1>1, DueFacts
<1>3. tree \in Trees /\ used'.losses = used.losses
  BY <1>1, KeptTypes DEF Spent
<1>4. {"descriptor", "continuity"} \subseteq J.done
  BY <1>2 DEF AtStep, LocalSteps
<1>5. tree.descriptor.target = J.to /\ LiveAt(tree, J.to) /\ portfolio.target = J.from /\ J.from # J.to
  BY <1>1, <1>2, <1>4 DEF Advancing, Planned
<1>6. portfolio'.target = J.to /\ J.to \in Targets
  BY <1>1, <1>2, NewFiles, JournalTypes
<1>7. RouteNow = "nowhere" /\ RouteNow' = J.to /\ EpochNow' = EpochNow
  BY <1>1, <1>5, <1>6 DEF RouteNow, Split, EpochNow
<1>8. EpochNow = None \/ EpochNow.target = J.to
  BY <1>3, <1>5, EpochSeen DEF EpochNow
<1> QED
  BY <1>3, <1>6, <1>7, <1>8 DEF RouteStep

LEMMA ReversePortfolioRoute ==
    ASSUME IInv, ReversePortfolio
    PROVE  RouteStep
<1>1. CASE portfolio # NewPortfolio(J)
  BY <1>1, UnseenStop, UnseenRoute DEF ReversePortfolio
<1>2. CASE portfolio = NewPortfolio(J)
  <2>1. /\ op.phase = "reverse" /\ "portfolio" \in op.acts /\ portfolio' = J.portfolio
        /\ used' = [used EXCEPT !.hand = FALSE] /\ tree' = tree
    BY <1>2 DEF ReversePortfolio, Reversing
  <2>2. /\ J \in Journals /\ Planned(J) /\ ~ J.moved /\ UnderWay(tree, portfolio, op.id)
        /\ J = tree.journal[op.id]
    BY <2>1, ReverseFacts
  <2>3. used'.losses = used.losses
    BY <2>1, KeptTypes DEF Spent
  <2>4. portfolio.target = J.to /\ tree.descriptor.target = J.to /\ portfolio'.target = J.from
        /\ J.from # J.to
    BY <1>2, <2>1, <2>2, NewFiles DEF UnderWay, Planned
  <2>5. RouteNow = portfolio.target /\ RouteNow' = "nowhere" /\ EpochNow' = EpochNow
    BY <2>1, <2>4 DEF RouteNow, Split, EpochNow
  <2> QED
    BY <2>3, <2>5, TargetsOpen DEF RouteStep
<1> QED
  BY <1>1, <1>2

\* Back at its old home the epoch may return to a route that is open already: then
\* it starts there, as at a launch.
LEMMA ReverseContinuityRoute ==
    ASSUME IInv, ReverseContinuity
    PROVE  RouteStep
<1>1. /\ op.phase = "reverse" /\ "rename" \in op.acts /\ "portfolio" \notin op.acts
      /\ J.moved => "descriptor" \notin op.acts
      /\ tree' = [tree EXCEPT !.live = tree.archive[op.id], !.archive[op.id] = None]
      /\ UNCHANGED <<portfolio, snap, home, session, used>>
  BY DEF ReverseContinuity, Reversing
<1>2. /\ op.id \in Moves /\ J = tree.journal[op.id]
      /\ Planned(J) /\ UnderWay(tree, portfolio, op.id)
      /\ "portfolio" \notin op.acts /\ ~ J.moved => portfolio.target = J.from
      /\ "descriptor" \notin op.acts => tree.descriptor.target = J.from
      /\ tree.live = None /\ tree.archive[op.id] # None
      /\ tree.archive[op.id].owner.target = J.from
  BY <1>1, ReverseFacts
<1>3. tree \in Trees
  BY KeptTypes
<1>4. tree.archive[op.id] \in Epochs
  BY <1>2, <1>3, TreeTypes
<1>5. /\ tree' \in Trees /\ tree'.live = tree.archive[op.id] /\ tree'.descriptor = tree.descriptor
  <2>1. tree' \in Trees
    BY <1>1, <1>2, <1>3, <1>4, TreeWrites
  <2> QED
    BY <1>1, <1>3, <2>1 DEF Trees
<1>6. EpochNow = None
  BY <1>2 DEF EpochNow
<1>7. EpochNow' \in Route!RouteEpochs /\ EpochNow'.target = J.from
  BY <1>2, <1>5, EpochSeen DEF EpochNow
<1>8. RouteNow' = RouteNow /\ RouteNow \in {"nowhere", J.from}
  BY <1>1, <1>2, <1>5 DEF RouteNow, Split, UnderWay
<1> QED
  BY <1>1, <1>6, <1>7, <1>8 DEF RouteStep

LEMMA ReverseDescriptorRoute ==
    ASSUME IInv, ReverseDescriptor
    PROVE  RouteStep
<1>1. CASE tree.descriptor # NewDescriptor(J)
  BY <1>1, UnseenStop, UnseenRoute DEF ReverseDescriptor
<1>2. CASE tree.descriptor = NewDescriptor(J)
  <2>1. /\ op.phase = "reverse" /\ "portfolio" \notin op.acts
        /\ tree' = [tree EXCEPT !.descriptor = J.descriptor]
        /\ UNCHANGED <<portfolio, snap, home, session, used>>
    BY <1>2 DEF ReverseDescriptor, Reversing
  <2>2. /\ J \in Journals /\ J = tree.journal[op.id] /\ Planned(J) /\ UnderWay(tree, portfolio, op.id)
        /\ "portfolio" \notin op.acts /\ ~ J.moved => portfolio.target = J.from
        /\ LiveAt(tree, J.from)
    BY <2>1, ReverseFacts
  <2>3. tree \in Trees
    BY KeptTypes
  <2>4. /\ tree'.live = tree.live /\ tree'.descriptor.target = J.from
        /\ tree.descriptor.target = J.to /\ J.from # J.to
    BY <1>2, <2>1, <2>2, <2>3, NewFiles DEF Trees, Planned
  <2>5. EpochNow' = EpochNow
    BY <2>4 DEF EpochNow
  <2>6. CASE ~ J.moved
    <3>1. RouteNow = "nowhere" /\ RouteNow' = portfolio.target /\ portfolio.target = J.from
      BY <2>1, <2>2, <2>4, <2>6 DEF RouteNow, Split
    <3>2. EpochNow = None \/ EpochNow.target = J.from
      BY <2>2, <2>3, EpochSeen DEF EpochNow
    <3> QED
      BY <2>1, <2>5, <3>1, <3>2, TargetsOpen DEF RouteStep
  <2>7. CASE J.moved
    <3>1. RouteNow = portfolio.target /\ RouteNow' = "nowhere"
      BY <2>1, <2>2, <2>4, <2>7 DEF RouteNow, Split, UnderWay
    <3> QED
      BY <2>1, <2>5, <3>1, TargetsOpen DEF RouteStep
  <2> QED
    BY <2>6, <2>7
<1> QED
  BY <1>1, <1>2

LEMMA LaunchRoute ==
    ASSUME IInv, Launch
    PROVE  RouteStep
<1>1. ~ Split /\ UNCHANGED <<portfolio, snap, home, op, used>>
  BY DEF Launch
<1>2. tree \in Trees /\ portfolio.target \in Targets
  BY KeptTypes
<1>3. CASE tree' = tree
  BY <1>1, <1>3 DEF RouteStep, RouteNow, EpochNow, Split
<1>4. CASE tree' # tree
  <2> DEFINE e == [owner |-> [target |-> portfolio.target, home |-> home], id |-> Fresh]
  <2>1. tree.live = None /\ tree' = [tree EXCEPT !.live = e]
    BY <1>4 DEF Launch
  <2>2. Fresh \in Names /\ e # None
    <3>1. Fresh \in Names
      BY <1>2, <2>1, FreshName
    <3>2. e \in Epochs
      BY <1>2, <3>1, KeptTypes DEF Epochs, Owners
    <3> QED
      BY <3>1, <3>2, NoneOutside
  <2>3. tree'.live = e /\ tree'.descriptor = tree.descriptor
    BY <1>2, <2>1 DEF Trees
  <2>4. EpochNow = None
    BY <2>1 DEF EpochNow
  <2>5. EpochNow' = [target |-> portfolio.target, id |-> Fresh]
    BY <2>2, <2>3 DEF EpochNow
  <2>6. EpochNow' \in {x \in Route!RouteEpochs : x.target = portfolio.target}
    BY <1>2, <2>2, <2>5 DEF Route!RouteEpochs
  <2>7. RouteNow = portfolio.target /\ RouteNow' = portfolio.target
    BY <1>1, <2>3 DEF RouteNow, Split
  <2> QED
    BY <1>1, <2>4, <2>6, <2>7, TargetsOpen DEF RouteStep
<1> QED
  BY <1>3, <1>4

LEMMA HandMoveRoute ==
    ASSUME IInv, NEW to \in Targets, HandMove(to)
    PROVE  RouteStep
<1>1. /\ Settled(tree) /\ to # portfolio.target /\ tree' = tree
      /\ portfolio' = [target |-> to, edit |-> used.edits + 1]
      /\ used' = [used EXCEPT !.edits = @ + 1, !.hand = TRUE]
  BY DEF HandMove
<1>2. tree \in Trees /\ used'.losses = used.losses /\ portfolio'.target = to
  BY <1>1, KeptTypes DEF Spent
<1>3. LiveAt(tree, tree.descriptor.target)
  <2>1. Pending(tree) = {}
    BY <1>1 DEF Pending, Settled
  <2> QED
    BY <2>1 DEF IInv, Stored, SoundTree
<1>4. EpochNow' = EpochNow /\ (EpochNow = None \/ EpochNow.target = tree.descriptor.target)
  BY <1>1, <1>2, <1>3, EpochSeen DEF EpochNow
<1>5. RouteNow' = IF to = tree.descriptor.target THEN to ELSE "nowhere"
  BY <1>1, <1>2 DEF RouteNow, Split
<1>6. RouteNow = IF portfolio.target = tree.descriptor.target THEN portfolio.target ELSE "nowhere"
  BY DEF RouteNow, Split
<1> QED
  BY <1>1, <1>2, <1>4, <1>5, <1>6, TargetsOpen DEF RouteStep

LEMMA LoseRoute ==
    ASSUME IInv, IInv', NEW h \in Homes, Lose(h)
    PROVE  RouteStep
<1>1. used' = [used EXCEPT !.losses = @ + 1] /\ portfolio' = portfolio
  BY DEF Lose
<1>2. used'.losses = used.losses + 1
  BY <1>1, KeptTypes DEF Spent
<1>3. tree' \in Trees /\ SoundTree(tree', portfolio', used'.hand)
  BY DEF IInv, TypeOK, Stored
<1>4. EpochNow' \in Route!RouteEpochs \cup {None}
  BY <1>3, EpochSeen DEF EpochNow
<1>5. CASE portfolio.target = tree'.descriptor.target
  <2>1. LiveAt(tree', portfolio.target)
    BY <1>1, <1>3, <1>5, BelongsWhereOpen
  <2>2. EpochNow' = None \/ EpochNow'.target = portfolio.target
    BY <1>3, <2>1, EpochSeen DEF EpochNow
  <2>3. RouteNow' = portfolio.target
    BY <1>1, <1>5 DEF RouteNow, Split
  <2> QED
    BY <1>2, <1>4, <2>2, <2>3, TargetsOpen DEF RouteStep
<1>6. CASE portfolio.target # tree'.descriptor.target
  <2>1. RouteNow' = "nowhere"
    BY <1>1, <1>6 DEF RouteNow, Split
  <2> QED
    BY <1>2, <1>4, <2>1 DEF RouteStep
<1> QED
  BY <1>5, <1>6

LEMMA WriteReceiptUnseen ==
    ASSUME IInv, WriteReceipt
    PROVE  RouteStep
<1>1. tree \in Trees
  BY KeptTypes
<1>2. /\ tree'.live = tree.live /\ tree'.descriptor = tree.descriptor
      /\ UNCHANGED <<portfolio, used>>
  BY <1>1 DEF WriteReceipt, Trees
<1> QED
  BY <1>2 DEF RouteStep, RouteNow, EpochNow, Split

LEMMA StepRoutes == IInv /\ IInv' /\ [Next]_vars => RouteStep
BY Seen, UnseenRoute, ApplyDescriptorRoute, ArchiveContinuityRoute, WritePortfolioRoute,
   WriteReceiptUnseen, ReversePortfolioRoute, ReverseContinuityRoute, ReverseDescriptorRoute,
   LaunchRoute, HandMoveRoute, LoseRoute

\* The migration implements ProjectRoute for every value of the constants: the
\* order of _local_order and _run_rollback lets the epoch change hands only while
\* no launch can resolve the route, and opens the route only where the epoch belongs.
THEOREM ImplementsRoute == Spec => ImplementsProjectRoute
<1>1. Init => Route!Init
  <2> SUFFICES ASSUME NEW t \in Targets,
                      portfolio = [target |-> t, edit |-> 0],
                      tree = [descriptor |-> [target |-> t, edit |-> 0], live |-> None,
                              archive |-> [i \in Moves |-> None], journal |-> [i \in Moves |-> None],
                              backups |-> [i \in Moves |-> {}], receipts |-> {}, open |-> FALSE],
                      used = [edits |-> 0, crashes |-> 0, losses |-> 0, tasks |-> 0,
                              neighbours |-> 0, hand |-> FALSE]
               PROVE  Route!Init
    BY DEF Init
  <2>1. ~ Split /\ portfolio.target = t /\ tree.live = None /\ used.losses = 0
    BY DEF Split
  <2> QED
    BY <2>1 DEF Route!Init
<1>2. IInv /\ IInv' /\ [Next]_vars => [Route!Next]_(Route!routeVars)
  BY StepRoutes, RouteMoves
<1> QED
  BY <1>1, <1>2, Sound, PTL DEF Spec, ImplementsProjectRoute, Route!Spec
=============================================================================
