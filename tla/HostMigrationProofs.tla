------------------------ MODULE HostMigrationProofs ------------------------
(***************************************************************************)
(* A launcher is never handed out over half of an installation, and edits  *)
(* are replaced only where they were approved, for any number of files,    *)
(* installations, edits and faults.                                        *)
(*                                                                         *)
(* The invariant: while no journal is pending the files are whole; the     *)
(* journal a rollback would work from, or a late write would publish, fits *)
(* the files it does not cover, in both directions; and in each phase the  *)
(* files already written hold what the journal says.  For edits: a write   *)
(* whose file was compared replaces only what was agreed to, unless the    *)
(* file was changed since.                                                 *)
(***************************************************************************)
EXTENDS HostMigration, TLAPS

Partials == UNION {[F -> Contents] : F \in SUBSET Files}

LEMMA PartialType ==
  ASSUME NEW g, NEW F \in SUBSET Files, g \in [F -> Contents]
  PROVE  g \in Partials
  BY DEF Partials

LEMMA JournalType ==
  ASSUME NEW j \in Journals
  PROVE  /\ Covered(j) \in SUBSET Files
         /\ j.before \in [Covered(j) -> Contents]
         /\ j.after \in Versions
         /\ j # None
<1>1. j.before \in Partials /\ j.after \in Versions
  BY DEF Journals, Partials
<1>2. PICK F \in SUBSET Files : j.before \in [F -> Contents]
  BY <1>1 DEF Partials
<1> QED
  BY <1>1, <1>2, NoneAssumption DEF Covered

LEMMA DiskType ==
  ASSUME TypeOK
  PROVE  /\ DOMAIN disk = Places
         /\ \A f \in Files : disk[f] \in Contents
         /\ \A s \in {"locator", "pending", "last"} : disk[s] \in Journals \cup {None}
  BY ContentAssumption DEF TypeOK, Disks, Places

LEMMA PutType ==
  ASSUME TypeOK, NEW w \in Writes
  PROVE  Put(disk, w) \in Disks
<1>1. \/ w.at \in Files /\ w.value \in Contents
      \/ w.at \in Places \ Files /\ w.value \in Journals \cup {None}
  BY DEF Writes
<1>2. w.at \in Places /\ w.value \in Contents \cup Journals
  BY <1>1 DEF Places, Contents
<1>3. Put(disk, w) \in [Places -> Contents \cup Journals]
  BY <1>2 DEF Put, TypeOK, Disks
<1>4. \A f \in Files : Put(disk, w)[f] \in Contents
  BY <1>1, <1>2 DEF Put, TypeOK, Disks, Places
<1>5. \A s \in Places \ Files : Put(disk, w)[s] \in Journals \cup {None}
  BY <1>1, <1>2 DEF Put, TypeOK, Disks
<1> QED
  BY <1>3, <1>4, <1>5 DEF Disks

LEMMA RunningOp ==
  ASSUME TypeOK, Running
  PROVE  /\ op \in Commands
         /\ op.journal \in Journals
         /\ op.phase \in SetupPhases \cup RollbackPhases
         /\ op.seen \in [Covered(op.journal) -> Contents]
         /\ op.todo \in SUBSET Covered(op.journal)
         /\ op.step \in Steps
         /\ (op.phase \in FilePhases /\ op.step # "compare") => op.file \in op.todo
         /\ op.phase \notin FilePhases => op.step = "write"
<1>1. /\ op \in Commands /\ DOMAIN op.seen = Covered(op.journal)
      /\ op.todo \subseteq Covered(op.journal)
      /\ (op.phase \in FilePhases /\ op.step # "compare") => op.file \in op.todo
      /\ op.phase \notin FilePhases => op.step = "write"
  BY DEF TypeOK, Running
<1>2. op.seen \in Partials
  BY <1>1 DEF Commands, Partials
<1>3. PICK F \in SUBSET Files : op.seen \in [F -> Contents]
  BY <1>2 DEF Partials
<1> QED
  BY <1>1, <1>3 DEF Commands

\* What a command writes next, phase by phase.
LEMMA NextWrite ==
  ASSUME TypeOK, Running, NEW w, w = ToWrite
  PROVE  /\ op.phase \in {"locate", "relocate"} => w = [at |-> "locator", value |-> op.journal]
         /\ op.phase \in {"journal", "repend"} => w = [at |-> "pending", value |-> op.journal]
         /\ op.phase = "publish" => w = [at |-> op.file, value |-> op.journal.after]
         /\ op.phase = "restore" => w = [at |-> op.file, value |-> op.journal.before[op.file]]
         /\ op.phase = "record" => w = [at |-> "last", value |-> op.journal]
         /\ op.phase = "forget" => w = [at |-> "last", value |-> None]
         /\ op.phase \in {"settle", "unpend"} => w = [at |-> "pending", value |-> None]
         /\ op.phase \in {"leave", "unlocate"} => w = [at |-> "locator", value |-> None]
<1>1. CASE op.phase \in {"locate", "relocate"}
  BY <1>1 DEF ToWrite
<1>2. CASE op.phase \in {"journal", "repend"}
  BY <1>2 DEF ToWrite
<1>3. CASE op.phase = "publish"
  BY <1>3 DEF ToWrite
<1>4. CASE op.phase = "restore"
  BY <1>4 DEF ToWrite
<1>5. CASE op.phase = "record"
  BY <1>5 DEF ToWrite
<1>6. CASE op.phase = "forget"
  BY <1>6 DEF ToWrite
<1>7. CASE op.phase \in {"settle", "unpend"}
  BY <1>7 DEF ToWrite
<1>8. CASE op.phase \in {"leave", "unlocate"}
  BY <1>8 DEF ToWrite
<1> QED
  BY <1>1, <1>2, <1>3, <1>4, <1>5, <1>6, <1>7, <1>8, RunningOp DEF SetupPhases, RollbackPhases

LEMMA NextWriteType ==
  ASSUME TypeOK, Running, op.step = "write", NEW w, w = ToWrite
  PROVE  /\ w \in Writes
         /\ w.at \in Files <=> op.phase \in FilePhases
         /\ op.phase \in FilePhases => w.at = op.file /\ op.file \in op.todo
<1> DEFINE j == op.journal
<1>0. /\ j \in Journals /\ op.phase \in SetupPhases \cup RollbackPhases
      /\ op.todo \in SUBSET Covered(j)
  BY RunningOp
<1>1. Covered(j) \in SUBSET Files /\ j.before \in [Covered(j) -> Contents] /\ j.after \in Contents
  BY <1>0, JournalType DEF Contents
<1>2. {"locator", "pending", "last"} = Places \ Files
  BY ContentAssumption DEF Places
<1>3. CASE op.phase \in FilePhases
  <2>1. op.file \in op.todo
    BY <1>3, RunningOp
  <2>2. w.at = op.file /\ w.value \in Contents /\ w = [at |-> op.file, value |-> w.value]
    BY <1>0, <1>1, <1>3, <2>1, NextWrite DEF FilePhases
  <2> QED
    BY <2>1, <2>2, <1>0, <1>1, <1>3 DEF Writes
<1>4. CASE op.phase \notin FilePhases
  <2>1. \E s \in {"locator", "pending", "last"}, v \in Journals \cup {None} :
           w = [at |-> s, value |-> v]
    BY <1>0, <1>4, NextWrite DEF FilePhases, SetupPhases, RollbackPhases
  <2> QED
    BY <2>1, <1>2, <1>4 DEF Writes
<1> QED
  BY <1>3, <1>4

---------------------------------------------------------------------------
(* Types.                                                                  *)

LEMMA FilesOnlyType ==
  ASSUME TypeOK, NEW F \in SUBSET Files
  PROVE  FilesOnly(disk, F) \in [F -> Contents]
  BY DiskType DEF FilesOnly

\* Commands and what a command may become.
OpType(o) ==
    /\ o \in Commands \cup {Idle}
    /\ o # Idle =>
          /\ DOMAIN o.seen = Covered(o.journal)
          /\ o.todo \subseteq Covered(o.journal)
          /\ (o.phase \in FilePhases /\ o.step # "compare") => o.file \in o.todo
          /\ o.phase \notin FilePhases => o.step = "write"

LEMMA CommandType ==
  ASSUME NEW p \in {"locate", "relocate"}, NEW j \in Journals,
         NEW s \in [Covered(j) -> Contents]
  PROVE  OpType(Command(p, j, s))
<1>1. Covered(j) \in SUBSET Files
  BY JournalType
<1>2. s \in Partials
  BY <1>1, PartialType
<1>3. Command(p, j, s) \in Commands
  BY <1>1, <1>2 DEF Command, Commands, Partials, SetupPhases, RollbackPhases, Steps
<1> QED
  BY <1>3 DEF Command, OpType, FilePhases

LEMMA UndoType ==
  ASSUME TypeOK, Recoverable
  PROVE  Recorded \in Journals /\ OpType(Undo)
<1>1. Recorded \in Journals
  BY DiskType DEF Recorded, Recoverable
<1>2. FilesOnly(disk, Covered(Recorded)) \in [Covered(Recorded) -> Contents]
  BY <1>1, JournalType, FilesOnlyType
<1> QED
  BY <1>1, <1>2, CommandType DEF Undo

\* What entering a phase leaves alone, and what it sets.
LEMMA EnterFields ==
  ASSUME TypeOK, Running, NEW p, NEW t
  PROVE  /\ Enter(p, t).journal = op.journal
         /\ Enter(p, t).seen = op.seen
         /\ Enter(p, t).phase = p
         /\ Enter(p, t).todo = t
         /\ Enter(p, t).step = IF p \in FilePhases THEN "compare" ELSE "write"
<1>1. op \in Commands
  BY RunningOp
<1> QED
  BY <1>1 DEF Enter, Commands

LEMMA EnterType ==
  ASSUME TypeOK, Running, NEW p \in SetupPhases \cup RollbackPhases, NEW t \in SUBSET op.todo
  PROVE  OpType(Enter(p, t))
<1>1. /\ op \in Commands /\ DOMAIN op.seen = Covered(op.journal)
      /\ op.todo \subseteq Covered(op.journal)
  BY DEF TypeOK, Running
<1>2. t \in SUBSET Files
  BY <1>1 DEF Commands
<1>3. Enter(p, t) \in Commands
  BY <1>1, <1>2 DEF Enter, Commands, Steps
<1> QED
  BY <1>1, <1>3, EnterFields DEF OpType

\* The phases that come after the first, and that there is one after each but the last.
LEMMA PhaseType ==
  ASSUME TypeOK, Running, op.phase \notin {"leave", "unlocate"}
  PROVE  AfterPhase(op.phase) \in SetupPhases \cup RollbackPhases
  BY RunningOp DEF AfterPhase, SetupPhases, RollbackPhases

LEMMA ProceedType ==
  ASSUME TypeOK, Running
  PROVE  OpType(Proceed)
<1>1. OpType(Idle)
  BY DEF OpType
<1>2. OpType(Enter(op.phase, op.todo \ {op.file}))
  BY RunningOp, EnterType
<1>3. ASSUME op.phase \notin {"leave", "unlocate"}
      PROVE  /\ OpType(Enter(AfterPhase(op.phase), op.todo))
             /\ OpType(Enter(AfterPhase(op.phase), {}))
  BY <1>3, PhaseType, EnterType
<1> QED
  BY <1>1, <1>2, <1>3 DEF Proceed

LEMMA StopType ==
  ASSUME TypeOK, Stop
  PROVE  OpType(op')
<1>1. OpType(Idle)
  BY DEF OpType
<1>2. Recoverable => OpType(Undo)
  BY UndoType DEF OpType
<1> QED
  BY <1>1, <1>2 DEF Stop, UndoOrStop

LEMMA SetupOp ==
  ASSUME TypeOK, NEW v \in Versions, NEW approved \in BOOLEAN, Setup(v, approved)
  PROVE  \E j \in Journals :
            /\ op' = Command("locate", j, j.before)
            /\ Covered(j) = {f \in Files : disk[f] # v}
            /\ j.before = FilesOnly(disk, Covered(j))
            /\ j.after = v
<1> DEFINE changes == {f \in Files : disk[f] # v}
           j == [before |-> FilesOnly(disk, changes), after |-> v]
<1>1. FilesOnly(disk, changes) \in [changes -> Contents]
  BY FilesOnlyType
<1>2. FilesOnly(disk, changes) \in Partials
  BY <1>1, PartialType
<1>3. j \in Journals /\ Covered(j) = changes
  BY <1>1, <1>2 DEF Journals, Partials, Covered
<1>4. op' = Command("locate", j, j.before)
  BY DEF Setup
<1> QED
  BY <1>3, <1>4

LEMMA InitType == Init => TypeOK
<1> SUFFICES ASSUME Init PROVE TypeOK
  OBVIOUS
<1>1. disk \in Disks
  BY ContentAssumption DEF Init, Disks, Contents, Places
<1>2. consent \in SUBSET (Files \X Edits) /\ raced \in BOOLEAN
  BY DEF Init
<1>3. faults \in 0..MaxFaults
  BY MaxFaultsAssumption DEF Init
<1> QED
  BY <1>1, <1>2, <1>3 DEF Init, TypeOK, Running

LEMMA StepType == TypeOK /\ [Next]_vars => TypeOK'
<1> SUFFICES ASSUME TypeOK, [Next]_vars PROVE TypeOK'
  OBVIOUS
<1> USE DEF TypeOK
<1>0. OpType(op)
  BY DEF OpType, Running
<1>1. ASSUME NEW v \in Versions, NEW approved \in BOOLEAN, Setup(v, approved) PROVE TypeOK'
  <2>1. PICK j \in Journals : op' = Command("locate", j, j.before)
    BY <1>1, SetupOp
  <2>2. OpType(op')
    BY <2>1, JournalType, CommandType
  <2>3. consent' \in SUBSET (Files \X Edits)
    BY <1>1 DEF Setup
  <2> QED
    BY <1>1, <2>2, <2>3 DEF Setup, OpType, Running
<1>2. CASE Rollback
  <2>1. OpType(op')
    BY <1>2, UndoType DEF Rollback
  <2> QED
    BY <1>2, <2>1 DEF Rollback, OpType, Running
<1>3. CASE Cancel
  <2>1. /\ [at |-> "locator", value |-> None] \in Writes
        /\ disk' = Put(disk, [at |-> "locator", value |-> None])
    BY <1>3, ContentAssumption DEF Cancel, Writes, Places, Put
  <2> QED
    BY <1>3, <2>1, PutType DEF Cancel, Running
<1>4. CASE Write
  <2>1. Running /\ op.step = "write"
    BY <1>4 DEF Write
  <2>2. disk' \in Disks
    BY <1>4, <2>1, NextWriteType, PutType DEF Write
  <2>3. OpType(op')
    <3>1. CASE op.phase \in FilePhases
      <4>1. op' = [op EXCEPT !.step = "readback"]
        BY <1>4, <3>1 DEF Write
      <4>2. op \in Commands /\ op.file \in op.todo
        BY <2>1, <3>1, RunningOp
      <4>3. op' \in Commands
        BY <4>1, <4>2 DEF Commands, Steps
      <4> QED
        BY <2>1, <3>1, <4>1, <4>2, <4>3 DEF OpType, Commands
    <3>2. CASE op.phase \notin FilePhases
      BY <1>4, <2>1, <3>2, ProceedType DEF Write
    <3> QED
      BY <3>1, <3>2
  <2>4. published' \in Journals \cup {None}
    BY <1>4, RunningOp DEF Write
  <2> QED
    BY <1>4, <2>2, <2>3, <2>4 DEF Write, OpType, Running
<1>5. CASE Compare
  <2>1. OpType(op')
    <3>1. PICK f \in op.todo : op' = [op EXCEPT !.step = "write", !.file = f] \/ Stop
      BY <1>5 DEF Compare
    <3>2. CASE op' = [op EXCEPT !.step = "write", !.file = f]
      <4>1. op \in Commands /\ Running
        BY <1>5, RunningOp DEF Compare
      <4>2. op' \in Commands
        BY <3>2, <4>1 DEF Commands, Steps
      <4> QED
        BY <3>2, <4>1, <4>2 DEF OpType, Commands
    <3> QED
      BY <3>1, <3>2, StopType
  <2> QED
    BY <1>5, <2>1 DEF Compare, OpType, Running
<1>r. CASE ReadBack
  <2>1. OpType(op')
    BY <1>r, ProceedType, StopType DEF ReadBack
  <2> QED
    BY <1>r, <2>1 DEF ReadBack, OpType, Running
<1>6. CASE Fail
  <2>1. OpType(op') /\ faults' \in 0..MaxFaults
    BY <1>6, StopType, MaxFaultsAssumption DEF Fail
  <2> QED
    BY <1>6, <2>1 DEF Fail, OpType, Running
<1>7. CASE Die
  <2>1. faults' \in 0..MaxFaults
    BY <1>7, MaxFaultsAssumption DEF Die
  <2> QED
    BY <1>7, <2>1 DEF Die, Running
<1>8. CASE TimeOut
  <2>1. flight' \in Writes /\ faults' \in 0..MaxFaults
    BY <1>8, NextWriteType, MaxFaultsAssumption DEF TimeOut
  <2> QED
    BY <1>8, <2>1 DEF TimeOut, Running
<1>9. CASE Land
  <2>1. flight \in Writes /\ disk' = Put(disk, flight)
    BY <1>9 DEF Land
  <2> QED
    BY <1>9, <2>1, PutType DEF Land, Running
<1>10. CASE Drop
  BY <1>10 DEF Drop, Running
<1>11. CASE Edit
  <2>1. PICK f \in Files, e \in Edits :
            /\ disk' = [disk EXCEPT ![f] = e]
            /\ raced' = (raced \/ (Awaited(f) /\ disk[f] # e))
    BY <1>11 DEF Edit
  <2>2. [at |-> f, value |-> e] \in Writes /\ disk' = Put(disk, [at |-> f, value |-> e])
    BY <2>1 DEF Writes, Contents, Put
  <2> QED
    BY <1>11, <2>1, <2>2, PutType DEF Edit, Running
<1>12. CASE UNCHANGED vars
  BY <1>12 DEF vars, Running
<1> QED
  BY <1>1, <1>2, <1>3, <1>4, <1>5, <1>r, <1>6, <1>7, <1>8, <1>9, <1>10, <1>11, <1>12 DEF Next

\* Files, journals, commands and writes in flight keep the shapes the code relies on.
THEOREM TypeCorrect == Spec => []TypeOK
<1> QED
  BY InitType, StepType, PTL DEF Spec

---------------------------------------------------------------------------
(* The invariant.                                                          *)

\* Journal j leads from one installation to another, given the files it leaves alone.
Fits(j, d) ==
    \E u \in Versions \cup {None} :
        /\ \A f \in Covered(j) : j.before[f] \in Edits \cup {u}
        /\ \A f \in Files \ Covered(j) : d[f] \in Edits \/ (d[f] = u /\ u = j.after)

After(j, F, d) == \A f \in F : d[f] \in Edits \cup {j.after}
Before(j, F, d) == \A f \in F : d[f] \in Edits \cup {j.before[f]}

Stored(d) ==
    /\ d["pending"] = None => Whole(d)
    /\ d["pending"] # None => Fits(d["pending"], d)
    /\ d["pending"] = None /\ d["last"] # None => Fits(d["last"], d)

InPhase(o, d) ==
    LET j == o.journal IN
    /\ o.phase \in {"locate", "journal", "relocate", "repend"} => o.todo = Covered(j)
    /\ o.phase \in {"locate", "journal"} => d["pending"] = None /\ Fits(j, d)
    /\ o.phase \in {"publish", "record", "settle"} => d["pending"] = j
    /\ o.phase = "publish" => After(j, Covered(j) \ o.todo, d)
    /\ o.phase \in {"record", "settle"} => After(j, Covered(j), d)
    /\ o.phase = "settle" => d["last"] = j
    /\ o.phase \in {"relocate", "repend"} =>
          d["pending"] = j \/ (d["pending"] = None /\ d["last"] = j)
    /\ o.phase \in {"restore", "forget", "unpend"} => d["pending"] = j
    /\ o.phase = "restore" => Before(j, Covered(j) \ o.todo, d)
    /\ o.phase \in {"forget", "unpend"} => Before(j, Covered(j), d)
    /\ o.phase = "unpend" => d["last"] = None

Seen(o) ==
    LET j == o.journal IN
    /\ o.phase \in SetupPhases => o.seen = j.before
    /\ o.phase \in RollbackPhases => \A f \in Covered(j) : o.seen[f] \in {j.before[f], j.after}

InFlight(w, d) ==
    /\ w.at \in Files => d["pending"] # None /\ w.at \in Covered(d["pending"])
    /\ w.at = "pending" /\ w.value # None => Fits(w.value, d)
    /\ w.at = "pending" /\ w.value = None =>
          Whole(d) /\ (d["last"] # None => Fits(d["last"], d))
    /\ w.at = "last" => d["pending"] # None

Inv ==
    /\ Stored(disk)
    /\ Running => InPhase(op, disk) /\ Seen(op) /\ flight = None
    /\ flight # None => InFlight(flight, disk)

\* A journal that fits leaves the files whole once they are all written, either way.
LEMMA AfterWhole ==
  ASSUME NEW j \in Journals, NEW d, Fits(j, d), After(j, Covered(j), d)
  PROVE  Whole(d)
<1>1. PICK u \in Versions \cup {None} :
        \A f \in Files \ Covered(j) : d[f] \in Edits \/ (d[f] = u /\ u = j.after)
  BY DEF Fits
<1>2. \A f \in Files : d[f] \in Edits \cup {j.after}
  BY <1>1 DEF After
<1> QED
  BY <1>2, JournalType DEF Whole

LEMMA BeforeWhole ==
  ASSUME NEW j \in Journals, NEW d, Fits(j, d), Before(j, Covered(j), d)
  PROVE  Whole(d)
<1>1. PICK u \in Versions \cup {None} :
        /\ \A f \in Covered(j) : j.before[f] \in Edits \cup {u}
        /\ \A f \in Files \ Covered(j) : d[f] \in Edits \/ (d[f] = u /\ u = j.after)
  BY DEF Fits
<1>2. \A f \in Files : d[f] \in Edits \cup {u}
  BY <1>1 DEF Before
<1> QED
  BY <1>2 DEF Whole

\* Only the files a journal leaves alone matter to whether it fits.
LEMMA FitsSame ==
  ASSUME NEW j, NEW d, NEW e, Fits(j, d), \A f \in Files \ Covered(j) : e[f] = d[f]
  PROVE  Fits(j, e)
  BY DEF Fits

\* What others write to the files, and what is written to the locator, keeps everything.
Edited(d, e) ==
    /\ \A f \in Files : e[f] = d[f] \/ e[f] \in Edits
    /\ \A s \in {"pending", "last"} : e[s] = d[s]

LEMMA WholeEdited ==
  ASSUME NEW d, NEW e, Whole(d), Edited(d, e)
  PROVE  Whole(e)
  BY DEF Whole, Edited

LEMMA FitsEdited ==
  ASSUME NEW j, NEW d, NEW e, Fits(j, d), Edited(d, e)
  PROVE  Fits(j, e)
  BY DEF Fits, Edited

LEMMA InPhaseEdited ==
  ASSUME NEW o, NEW d, NEW e, InPhase(o, d), Edited(d, e), Covered(o.journal) \in SUBSET Files
  PROVE  InPhase(o, e)
<1>1. /\ e["pending"] = d["pending"]
      /\ e["last"] = d["last"]
  BY DEF Edited
<1>2. Fits(o.journal, d) => Fits(o.journal, e)
  BY FitsEdited
<1>3. ASSUME NEW F \in SUBSET Files
      PROVE  /\ After(o.journal, F, d) => After(o.journal, F, e)
             /\ Before(o.journal, F, d) => Before(o.journal, F, e)
  BY DEF After, Before, Edited
<1>4. Covered(o.journal) \ o.todo \in SUBSET Files
  OBVIOUS
<1> QED
  BY <1>1, <1>2, <1>3, <1>4 DEF InPhase

LEMMA StoredEdited ==
  ASSUME NEW d, NEW e, Stored(d), Edited(d, e)
  PROVE  Stored(e)
<1>1. /\ e["pending"] = d["pending"]
      /\ e["last"] = d["last"]
  BY DEF Edited
<1>2. Whole(d) => Whole(e)
  BY WholeEdited
<1>3. \A j : Fits(j, d) => Fits(j, e)
  BY FitsEdited
<1> QED
  BY <1>1, <1>2, <1>3 DEF Stored

LEMMA InFlightEdited ==
  ASSUME NEW w, NEW d, NEW e, InFlight(w, d), Edited(d, e)
  PROVE  InFlight(w, e)
<1>1. /\ e["pending"] = d["pending"]
      /\ e["last"] = d["last"]
  BY DEF Edited
<1>2. Whole(d) => Whole(e)
  BY WholeEdited
<1>3. \A j : Fits(j, d) => Fits(j, e)
  BY FitsEdited
<1> QED
  BY <1>1, <1>2, <1>3 DEF InFlight

---------------------------------------------------------------------------
(* Writes.                                                                 *)

\* A write changes the place it is at.
LEMMA PutAt ==
  ASSUME TypeOK, NEW w \in Writes, NEW p \in Places
  PROVE  Put(disk, w)[p] = IF p = w.at THEN w.value ELSE disk[p]
  BY DEF Put, TypeOK, Disks

LEMMA Slots ==
  /\ {"locator", "pending", "last"} = Places \ Files
  /\ Files \subseteq Places
  BY ContentAssumption DEF Places

\* What a command writes next can land at any later time before the next command.
LEMMA NextWriteInFlight ==
  ASSUME TypeOK, Inv, Running, op.step = "write", NEW w, w = ToWrite
  PROVE  InFlight(w, disk)
<1> DEFINE j == op.journal
<1>0. /\ j \in Journals /\ j # None /\ op.phase \in SetupPhases \cup RollbackPhases
      /\ op.todo \in SUBSET Covered(j) /\ Covered(j) \in SUBSET Files
  BY RunningOp, JournalType
<1>1. InPhase(op, disk) /\ Stored(disk)
  BY DEF Inv
<1>2. CASE op.phase \in {"locate", "relocate", "leave", "unlocate"}
  <2>1. w.at = "locator"
    BY <1>2, NextWrite
  <2> QED
    BY <2>1, ContentAssumption DEF InFlight
<1>3. CASE op.phase \in {"journal", "repend"}
  <2>1. w.at = "pending" /\ w.value = j
    BY <1>3, NextWrite
  <2>2. Fits(j, disk)
    BY <1>0, <1>1, <1>3 DEF InPhase, Stored
  <2> QED
    BY <1>0, <2>1, <2>2, ContentAssumption DEF InFlight
<1>4. CASE op.phase \in {"publish", "restore"}
  <2>1. w.at \in op.todo
    BY <1>4, NextWriteType DEF FilePhases
  <2>2. disk["pending"] = j
    BY <1>1, <1>4 DEF InPhase
  <2> QED
    BY <1>0, <2>1, <2>2, ContentAssumption DEF InFlight
<1>5. CASE op.phase \in {"record", "forget"}
  <2>1. w.at = "last"
    BY <1>5, NextWrite
  <2>2. disk["pending"] = j
    BY <1>1, <1>5 DEF InPhase
  <2> QED
    BY <1>0, <2>1, <2>2, ContentAssumption DEF InFlight
<1>6. CASE op.phase \in {"settle", "unpend"}
  <2>1. w.at = "pending" /\ w.value = None
    BY <1>6, NextWrite
  <2>2. disk["pending"] = j /\ Fits(j, disk)
    BY <1>0, <1>1, <1>6 DEF InPhase, Stored
  <2>3. Whole(disk)
    BY <1>0, <1>1, <1>6, <2>2, AfterWhole, BeforeWhole DEF InPhase
  <2>4. disk["last"] # None => Fits(disk["last"], disk)
    BY <1>1, <1>6, <2>2 DEF InPhase
  <2> QED
    BY <2>1, <2>3, <2>4, ContentAssumption DEF InFlight
<1> QED
  BY <1>0, <1>2, <1>3, <1>4, <1>5, <1>6 DEF SetupPhases, RollbackPhases

\* Whenever a write lands, what is stored stays consistent.
LEMMA PutStored ==
  ASSUME TypeOK, Stored(disk), NEW w \in Writes, InFlight(w, disk)
  PROVE  Stored(Put(disk, w))
<1> DEFINE e == Put(disk, w)
<1>1. \A p \in Places : e[p] = IF p = w.at THEN w.value ELSE disk[p]
  BY PutAt
<1>2. w.at \in Files \cup {"locator", "pending", "last"}
  BY DEF Writes, Places
<1>3. \A j : (Fits(j, disk) /\ \A f \in Files \ Covered(j) : e[f] = disk[f]) => Fits(j, e)
  BY FitsSame
<1>4. w.at \notin Files => \A f \in Files : e[f] = disk[f]
  BY <1>1, Slots
<1>5. (w.at \notin Files /\ Whole(disk)) => Whole(e)
  BY <1>4 DEF Whole
<1> HIDE DEF e
<1>6. CASE w.at = "locator"
  <2>1. Edited(disk, e)
    BY <1>1, <1>4, <1>6, Slots DEF Edited
  <2> QED
    BY <2>1, StoredEdited DEF e
<1>7. CASE w.at = "pending" /\ w.value # None
  <2>1. e["pending"] = w.value /\ Fits(w.value, disk)
    BY <1>1, <1>7, Slots DEF InFlight
  <2>2. Fits(w.value, e)
    BY <1>3, <1>4, <1>7, <2>1, Slots
  <2> QED
    BY <1>7, <2>1, <2>2 DEF Stored, e
<1>8. CASE w.at = "pending" /\ w.value = None
  <2>1. e["pending"] = None /\ e["last"] = disk["last"]
    BY <1>1, <1>8, Slots
  <2>2. Whole(disk) /\ (disk["last"] # None => Fits(disk["last"], disk))
    BY <1>8 DEF InFlight
  <2>3. Whole(e) /\ (e["last"] # None => Fits(e["last"], e))
    BY <1>3, <1>4, <1>5, <1>8, <2>1, <2>2, Slots
  <2> QED
    BY <2>1, <2>3 DEF Stored, e
<1>9. CASE w.at = "last"
  <2>1. e["pending"] = disk["pending"] /\ disk["pending"] # None
    BY <1>1, <1>9, Slots DEF InFlight
  <2>2. Fits(disk["pending"], e)
    BY <1>3, <1>4, <1>9, <2>1, Slots DEF Stored
  <2> QED
    BY <2>1, <2>2 DEF Stored, e
<1>10. CASE w.at \in Files
  <2>1. /\ e["pending"] = disk["pending"] /\ disk["pending"] # None
        /\ w.at \in Covered(disk["pending"])
    BY <1>1, <1>10, Slots DEF InFlight
  <2>2. \A f \in Files \ Covered(disk["pending"]) : e[f] = disk[f]
    BY <1>1, <2>1, Slots
  <2>3. Fits(disk["pending"], e)
    BY <1>3, <2>1, <2>2 DEF Stored
  <2> QED
    BY <2>1, <2>3 DEF Stored, e
<1> QED
  BY <1>2, <1>6, <1>7, <1>8, <1>9, <1>10

\* A command goes on with what it saw, in a phase of its own kind.
LEMMA ProceedSeen ==
  ASSUME TypeOK, Running, Seen(op), op.phase \notin {"leave", "unlocate"}
  PROVE  /\ Seen(Proceed)
         /\ Proceed.journal = op.journal
         /\ op.phase \notin FilePhases =>
               Proceed.phase = AfterPhase(op.phase) /\ Proceed.todo = op.todo
         /\ (op.phase \in FilePhases /\ op.todo \ {op.file} # {}) =>
               Proceed.phase = op.phase /\ Proceed.todo = op.todo \ {op.file}
         /\ (op.phase \in FilePhases /\ op.todo \ {op.file} = {}) =>
               Proceed.phase = AfterPhase(op.phase) /\ Proceed.todo = {}
<1> DEFINE o == Proceed
<1>0. op.phase \in SetupPhases \cup RollbackPhases
  BY RunningOp
<1>1. /\ op.phase \notin FilePhases => o = Enter(AfterPhase(op.phase), op.todo)
      /\ (op.phase \in FilePhases /\ op.todo \ {op.file} # {}) =>
            o = Enter(op.phase, op.todo \ {op.file})
      /\ (op.phase \in FilePhases /\ op.todo \ {op.file} = {}) =>
            o = Enter(AfterPhase(op.phase), {})
  BY DEF Proceed
<1> HIDE DEF o
<1>2. /\ o.journal = op.journal /\ o.seen = op.seen
      /\ op.phase \notin FilePhases => o.phase = AfterPhase(op.phase) /\ o.todo = op.todo
      /\ (op.phase \in FilePhases /\ op.todo \ {op.file} # {}) =>
            o.phase = op.phase /\ o.todo = op.todo \ {op.file}
      /\ (op.phase \in FilePhases /\ op.todo \ {op.file} = {}) =>
            o.phase = AfterPhase(op.phase) /\ o.todo = {}
  BY <1>1, EnterFields
<1>3. o.phase \in SetupPhases <=> op.phase \in SetupPhases
  BY <1>0, <1>2 DEF AfterPhase, SetupPhases, RollbackPhases, FilePhases
<1>4. o.phase \in RollbackPhases <=> op.phase \in RollbackPhases
  BY <1>0, <1>2 DEF AfterPhase, SetupPhases, RollbackPhases, FilePhases
<1>5. Seen(o)
  BY <1>2, <1>3, <1>4 DEF Seen
<1> QED
  BY <1>2, <1>5 DEF o

\* After a write of its own records the command is where its next phase expects the
\* files to be.
LEMMA SlotInPhase ==
  ASSUME TypeOK, Inv, Running, op.phase \notin FilePhases, op.phase \notin {"leave", "unlocate"},
         NEW w, w = ToWrite
  PROVE  InPhase(Proceed, Put(disk, w)) /\ Seen(Proceed)
<1> DEFINE j == op.journal
           e == Put(disk, w)
           o == Proceed
<1>0. /\ j \in Journals /\ j # None /\ op.phase \in SetupPhases \cup RollbackPhases
      /\ op.todo \in SUBSET Covered(j) /\ Covered(j) \in SUBSET Files /\ op.step = "write"
  BY RunningOp, JournalType
<1>1. InPhase(op, disk) /\ Seen(op) /\ Stored(disk)
  BY DEF Inv
<1>3. \A p \in Places : e[p] = IF p = w.at THEN w.value ELSE disk[p]
  BY <1>0, NextWriteType, PutAt
<1>4. /\ o.journal = j /\ o.phase = AfterPhase(op.phase) /\ o.todo = op.todo
      /\ Seen(o)
  BY <1>1, ProceedSeen
<1>5. w.at \notin Files => \A f \in Files : e[f] = disk[f]
  BY <1>3, Slots
<1> HIDE DEF o, e
<1>s. SUFFICES InPhase(o, e)
  BY <1>4 DEF o, e
<1>7. CASE op.phase \in {"locate", "relocate"}
  <2>1. w.at = "locator"
    BY <1>7, NextWrite
  <2>2. e["pending"] = disk["pending"] /\ e["last"] = disk["last"]
    BY <1>3, <2>1, Slots
  <2>3. Fits(j, disk) => Fits(j, e)
    BY <1>0, <1>5, <2>1, Slots, FitsSame
  <2>4. o.todo = op.todo /\ o.phase = IF op.phase = "locate" THEN "journal" ELSE "repend"
    BY <1>4, <1>7 DEF AfterPhase, FilePhases
  <2> QED
    BY <1>1, <1>4, <1>7, <2>2, <2>3, <2>4 DEF InPhase
<1>8. CASE op.phase \in {"journal", "repend"}
  <2>1. w.at = "pending" /\ w.value = j
    BY <1>8, NextWrite
  <2>2. e["pending"] = j
    BY <1>3, <2>1, Slots
  <2>3. o.todo = Covered(j) /\ o.phase = IF op.phase = "journal" THEN "publish" ELSE "restore"
    BY <1>1, <1>4, <1>8 DEF AfterPhase, FilePhases, InPhase
  <2>4. Covered(o.journal) \ o.todo = {}
    BY <1>4, <2>3
  <2> QED
    BY <1>4, <2>2, <2>3, <2>4 DEF InPhase, After, Before
<1>10. CASE op.phase \in {"record", "forget"}
  <2>1. w.at = "last" /\ w.value = IF op.phase = "record" THEN j ELSE None
    BY <1>10, NextWrite
  <2>2. e["last"] = w.value /\ e["pending"] = j
    BY <1>1, <1>3, <1>10, <2>1, Slots DEF InPhase
  <2>3. \A f \in Covered(j) : e[f] = disk[f]
    BY <1>0, <1>5, <2>1, Slots
  <2>4. o.phase = IF op.phase = "record" THEN "settle" ELSE "unpend"
    BY <1>4, <1>10 DEF AfterPhase, FilePhases
  <2>5. op.phase = "record" => After(j, Covered(j), e)
    BY <1>1, <2>3 DEF InPhase, After
  <2>6. op.phase = "forget" => Before(j, Covered(j), e)
    BY <1>1, <2>3 DEF InPhase, Before
  <2> QED
    BY <1>4, <1>10, <2>1, <2>2, <2>4, <2>5, <2>6 DEF InPhase
<1>11. CASE op.phase \in {"settle", "unpend"}
  <2>1. o.phase \in {"leave", "unlocate"}
    BY <1>4, <1>11 DEF AfterPhase, FilePhases
  <2> QED
    BY <2>1 DEF InPhase
<1> QED
  BY <1>0, <1>7, <1>8, <1>10, <1>11 DEF SetupPhases, RollbackPhases, FilePhases

LEMMA FileWritten ==
  ASSUME TypeOK, Inv, Running, op.phase \in FilePhases, op.step = "write", NEW w, w = ToWrite,
         NEW o, o = [op EXCEPT !.step = "readback"]
  PROVE  InPhase(o, Put(disk, w)) /\ Seen(o)
<1> DEFINE j == op.journal
           e == Put(disk, w)
<1>0. /\ j \in Journals /\ op.todo \in SUBSET Covered(j) /\ Covered(j) \in SUBSET Files
      /\ op \in Commands /\ op.file \in op.todo /\ w.at = op.file
  BY RunningOp, JournalType, NextWriteType
<1>1. InPhase(op, disk) /\ Seen(op)
  BY DEF Inv
<1>2. /\ o.journal = j /\ o.seen = op.seen /\ o.phase = op.phase /\ o.todo = op.todo
  BY <1>0 DEF Commands
<1>3. \A p \in Places : e[p] = IF p = w.at THEN w.value ELSE disk[p]
  BY NextWriteType, PutAt
<1> HIDE DEF e
<1>4. e["pending"] = j
  BY <1>0, <1>1, <1>3, Slots DEF InPhase, FilePhases
<1>5. \A f \in Covered(j) \ op.todo : e[f] = disk[f]
  BY <1>0, <1>3, Slots
<1>6. op.phase = "publish" => After(j, Covered(j) \ op.todo, e)
  BY <1>1, <1>5 DEF InPhase, After
<1>7. op.phase = "restore" => Before(j, Covered(j) \ op.todo, e)
  BY <1>1, <1>5 DEF InPhase, Before
<1>8. InPhase(o, e)
  BY <1>2, <1>4, <1>6, <1>7 DEF InPhase, FilePhases
<1>9. Seen(o)
  BY <1>1, <1>2 DEF Seen
<1> QED
  BY <1>8, <1>9 DEF e

\* A file that reads back as written is one less to write.
LEMMA FileReadBack ==
  ASSUME TypeOK, Inv, Running, op.phase \in FilePhases, op.step = "readback",
         disk[op.file] = ToWrite.value
  PROVE  InPhase(Proceed, disk) /\ Seen(Proceed)
<1> DEFINE j == op.journal
           o == Proceed
           rest == op.todo \ {op.file}
<1>0. /\ j \in Journals /\ op.todo \in SUBSET Covered(j) /\ Covered(j) \in SUBSET Files
      /\ op.file \in op.todo /\ op.phase \notin {"leave", "unlocate"}
  BY RunningOp, JournalType DEF FilePhases
<1>1. InPhase(op, disk) /\ Seen(op)
  BY DEF Inv
<1>2. /\ o.journal = j /\ Seen(o)
      /\ rest # {} => o.phase = op.phase /\ o.todo = rest
      /\ rest = {} => o.phase = AfterPhase(op.phase) /\ o.todo = {}
  BY <1>0, <1>1, ProceedSeen
<1> HIDE DEF o
<1>3. ToWrite.value = IF op.phase = "publish" THEN j.after ELSE j.before[op.file]
  BY NextWrite DEF FilePhases
<1>4. disk["pending"] = j
  BY <1>1 DEF InPhase, FilePhases
<1>5. op.phase = "publish" => After(j, Covered(j) \ rest, disk)
  BY <1>0, <1>1, <1>3 DEF InPhase, After
<1>6. op.phase = "restore" => Before(j, Covered(j) \ rest, disk)
  BY <1>0, <1>1, <1>3 DEF InPhase, Before
<1>7. CASE rest # {}
  BY <1>2, <1>4, <1>5, <1>6, <1>7 DEF InPhase, FilePhases, o
<1>8. CASE rest = {}
  <2>1. o.phase = IF op.phase = "publish" THEN "record" ELSE "forget"
    BY <1>2, <1>8 DEF AfterPhase, FilePhases
  <2>2. Covered(j) \ rest = Covered(j)
    BY <1>8
  <2> QED
    BY <1>2, <1>4, <1>5, <1>6, <2>1, <2>2 DEF InPhase, FilePhases, o
<1> QED
  BY <1>7, <1>8

---------------------------------------------------------------------------
(* What starts a command.                                                  *)

\* Between installations that are whole, the journal of a setup fits.
LEMMA SetupFits ==
  ASSUME TypeOK, NEW j \in Journals, Whole(disk),
         Covered(j) = {f \in Files : disk[f] # j.after}, j.before = FilesOnly(disk, Covered(j))
  PROVE  Fits(j, disk)
<1>1. PICK u \in Versions \cup {None} : \A f \in Files : disk[f] \in Edits \cup {u}
  BY DEF Whole
<1>2. \A f \in Covered(j) : j.before[f] = disk[f]
  BY DEF FilesOnly
<1>3. \A f \in Files \ Covered(j) : disk[f] = j.after
  OBVIOUS
<1> QED
  BY <1>1, <1>2, <1>3 DEF Fits

\* A rollback that starts knows every file it will put back.
LEMMA UndoInPhase ==
  ASSUME TypeOK, Inv, Recoverable
  PROVE  InPhase(Undo, disk) /\ Seen(Undo)
<1>1. Recorded \in Journals
  BY UndoType
<1>2. Undo.phase = "relocate" /\ Undo.journal = Recorded /\ Undo.todo = Covered(Recorded)
      /\ Undo.seen = FilesOnly(disk, Covered(Recorded))
  BY DEF Undo, Command
<1>3. disk["pending"] = Recorded \/ (disk["pending"] = None /\ disk["last"] = Recorded)
  BY DEF Recorded
<1>4. InPhase(Undo, disk)
  BY <1>2, <1>3 DEF InPhase
<1>5. Seen(Undo)
  BY <1>2 DEF Seen, SetupPhases, FilesOnly, Recoverable
<1> QED
  BY <1>4, <1>5

LEMMA StopInv ==
  ASSUME TypeOK, Inv, Stop
  PROVE  op' # Idle => InPhase(op', disk) /\ Seen(op')
  BY UndoInPhase DEF Stop, UndoOrStop

LEMMA InitInv == Init => Inv
<1> SUFFICES ASSUME Init PROVE Inv
  OBVIOUS
<1>1. PICK v \in Versions \cup {None} :
        disk = [p \in Places |-> IF p \in Files THEN v ELSE None]
  BY DEF Init
<1>2. disk["pending"] = None /\ disk["last"] = None
  BY <1>1, Slots
<1>3. Whole(disk)
  BY <1>1, Slots DEF Whole
<1> QED
  BY <1>2, <1>3 DEF Init, Inv, Stored, Running

LEMMA StepInv == TypeOK /\ Inv /\ [Next]_vars => Inv'
<1> SUFFICES ASSUME TypeOK, Inv, [Next]_vars PROVE Inv'
  OBVIOUS
<1>1. ASSUME NEW v \in Versions, NEW approved \in BOOLEAN, Setup(v, approved) PROVE Inv'
  <2>1. PICK j \in Journals :
            /\ op' = Command("locate", j, j.before)
            /\ Covered(j) = {f \in Files : disk[f] # v}
            /\ j.before = FilesOnly(disk, Covered(j))
            /\ j.after = v
    BY <1>1, SetupOp
  <2>2. disk' = disk /\ flight' = flight /\ flight = None /\ disk["pending"] = None
    BY <1>1 DEF Setup, Available
  <2>3. Fits(j, disk)
    BY <2>1, <2>2, SetupFits DEF Inv, Stored
  <2>4. op'.phase = "locate" /\ op'.journal = j /\ op'.seen = j.before /\ op'.todo = Covered(j)
    BY <2>1 DEF Command
  <2>5. InPhase(op', disk)
    BY <2>2, <2>3, <2>4 DEF InPhase
  <2>6. Seen(op')
    BY <2>4 DEF Seen, RollbackPhases
  <2> QED
    BY <2>2, <2>5, <2>6 DEF Inv, Running
<1>2. CASE Rollback
  BY <1>2, UndoInPhase DEF Rollback, Inv, Running
<1>3. CASE Cancel
  <2>1. Edited(disk, disk')
    BY <1>3, Slots DEF Cancel, Edited, TypeOK, Disks
  <2> QED
    BY <1>3, <2>1, StoredEdited DEF Cancel, Inv, Running
<1>4. CASE Write
  <2>1. PICK w : w = ToWrite /\ disk' = Put(disk, w)
    BY <1>4 DEF Write
  <2>2. Running /\ op.step = "write" /\ flight' = flight /\ flight = None
    BY <1>4 DEF Write, Inv
  <2>3. w \in Writes /\ InFlight(w, disk)
    BY <2>1, <2>2, NextWriteInFlight, NextWriteType
  <2>4. Stored(disk')
    BY <2>1, <2>3, PutStored DEF Inv
  <2>5. CASE op.phase \in FilePhases
    <3>1. PICK o : o = [op EXCEPT !.step = "readback"]
      OBVIOUS
    <3>2. op' = o
      BY <1>4, <2>5, <3>1 DEF Write
    <3>3. InPhase(o, disk') /\ Seen(o)
      BY <2>1, <2>2, <2>5, <3>1, FileWritten
    <3> QED
      BY <2>2, <2>4, <3>2, <3>3 DEF Inv, Running
  <2>6. CASE op.phase \notin FilePhases
    <3>1. op' = Proceed
      BY <1>4, <2>6 DEF Write
    <3>2. CASE op.phase \in {"leave", "unlocate"}
      BY <2>2, <2>4, <3>1, <3>2 DEF Proceed, Inv, Running
    <3>3. CASE op.phase \notin {"leave", "unlocate"}
      BY <2>1, <2>2, <2>4, <2>6, <3>1, <3>3, SlotInPhase DEF Inv, Running
    <3> QED
      BY <3>2, <3>3
  <2> QED
    BY <2>5, <2>6
<1>5. CASE Compare
  <2>1. Running /\ disk' = disk /\ flight' = flight
    BY <1>5 DEF Compare
  <2>2. op' # Idle => InPhase(op', disk) /\ Seen(op')
    <3>1. PICK f : op' = [op EXCEPT !.step = "write", !.file = f] \/ Stop
      BY <1>5 DEF Compare
    <3>2. CASE op' = [op EXCEPT !.step = "write", !.file = f]
      <4>1. /\ op'.journal = op.journal /\ op'.seen = op.seen
            /\ op'.phase = op.phase /\ op'.todo = op.todo
        BY <2>1, <3>2, RunningOp DEF Commands
      <4> QED
        BY <2>1, <4>1 DEF Inv, InPhase, Seen
    <3> QED
      BY <3>1, <3>2, StopInv
  <2> QED
    BY <2>1, <2>2 DEF Inv, Running
<1>r. CASE ReadBack
  <2>1. Running /\ op.step = "readback" /\ disk' = disk /\ flight' = flight
    BY <1>r DEF ReadBack
  <2>2. op.phase \in FilePhases
    BY <2>1, RunningOp
  <2>3. op' # Idle => InPhase(op', disk) /\ Seen(op')
    BY <1>r, <2>1, <2>2, FileReadBack, StopInv DEF ReadBack
  <2> QED
    BY <2>1, <2>3 DEF Inv, Running
<1>6. CASE Fail
  BY <1>6, StopInv DEF Fail, Inv, Running
<1>7. CASE Die
  BY <1>7 DEF Die, Inv, Running
<1>8. CASE TimeOut
  <2>1. PICK w : w = ToWrite /\ flight' = w
    BY <1>8 DEF TimeOut
  <2>2. InFlight(w, disk)
    BY <1>8, <2>1, NextWriteInFlight DEF TimeOut
  <2> QED
    BY <1>8, <2>1, <2>2 DEF TimeOut, Inv, Running
<1>9. CASE Land
  <2>1. flight \in Writes /\ InFlight(flight, disk) /\ Stored(disk) /\ ~Running
    BY <1>9 DEF Land, Inv, TypeOK
  <2>2. Stored(disk')
    BY <1>9, <2>1, PutStored DEF Land
  <2> QED
    BY <1>9, <2>1, <2>2 DEF Land, Inv, Running
<1>10. CASE Drop
  BY <1>10 DEF Drop, Inv, Running
<1>11. CASE Edit
  <2>1. PICK f \in Files, e \in Edits : disk' = [disk EXCEPT ![f] = e]
    BY <1>11 DEF Edit
  <2>2. Edited(disk, disk')
    BY <2>1, Slots DEF Edited, TypeOK, Disks
  <2>3. Stored(disk')
    BY <2>2, StoredEdited DEF Inv
  <2>4. Running => InPhase(op, disk')
    BY <2>2, RunningOp, JournalType, InPhaseEdited DEF Inv
  <2>5. flight # None => InFlight(flight, disk')
    BY <2>2, InFlightEdited DEF Inv
  <2> QED
    BY <1>11, <2>3, <2>4, <2>5 DEF Edit, Inv, Running
<1>12. CASE UNCHANGED vars
  BY <1>12 DEF vars, Inv, Running
<1> QED
  BY <1>1, <1>2, <1>3, <1>4, <1>5, <1>r, <1>6, <1>7, <1>8, <1>9, <1>10, <1>11, <1>12 DEF Next

---------------------------------------------------------------------------
(* The results.                                                            *)

\* Whatever crashes, late writes, edits and rollbacks came before, a launcher is
\* handed out only over the files of one installation and others' edits.
THEOREM WholeAtLaunch == Spec => []LaunchesWhole
<1>1. Inv => LaunchesWhole
  BY DEF Inv, Stored, LaunchesWhole, Available
<1> QED
  BY <1>1, InitType, StepType, InitInv, StepInv, PTL DEF Spec

---------------------------------------------------------------------------
(* Edits.                                                                  *)

\* A setup up to its publication replaces only edits whose replacement was agreed to.
Agreed(o) ==
    o.phase \in {"locate", "journal", "publish"} =>
        \A f \in Covered(o.journal) :
            o.journal.before[f] \in Edits => <<f, o.journal.before[f]>> \in consent

\* A write that was compared may land on an edit only where that was agreed to.
Compared(w) ==
    (w.at \in Files /\ ~raced /\ disk[w.at] \in Edits) =>
        w.value \in Edits \/ <<w.at, disk[w.at]>> \in consent

Kept ==
    /\ Running => Agreed(op)
    /\ (Running /\ op.phase \in FilePhases /\ op.step = "write") => Compared(ToWrite)
    /\ flight # None => Compared(flight)

\* A command that stops or starts over has compared nothing yet.
LEMMA StopKept ==
  ASSUME TypeOK, Inv, Kept, Running, Stop, flight' = flight
  PROVE  Kept'
<1>1. flight' = None
  BY DEF Inv
<1>2. CASE op' = Idle
  BY <1>1, <1>2 DEF Kept, Running
<1>3. CASE op' = Undo
  <2>1. op'.phase = "relocate"
    BY <1>3 DEF Undo, Command
  <2> QED
    BY <1>1, <2>1 DEF Kept, Agreed, FilePhases
<1> QED
  BY <1>2, <1>3 DEF Stop, UndoOrStop

\* A command enters a phase that writes files by comparing.
LEMMA ProceedKept ==
  ASSUME TypeOK, Inv, Kept, Running, op' = Proceed, flight' = flight, consent' = consent
  PROVE  Kept'
<1>1. flight' = None
  BY DEF Inv
<1>2. CASE op.phase \in {"leave", "unlocate"}
  BY <1>1, <1>2 DEF Proceed, Kept, Running
<1>3. CASE op.phase \notin {"leave", "unlocate"}
  <2>1. PICK p, t : op' = Enter(p, t) /\ p \in {op.phase, AfterPhase(op.phase)}
    BY <1>3 DEF Proceed
  <2>2. op'.journal = op.journal /\ op'.phase = p
        /\ op'.step = IF p \in FilePhases THEN "compare" ELSE "write"
    BY <2>1, EnterFields
  <2>3. p \in {"locate", "journal", "publish"} => op.phase \in {"locate", "journal", "publish"}
    BY <1>3, <2>1, RunningOp DEF AfterPhase, SetupPhases, RollbackPhases
  <2>4. Agreed(op)'
    BY <2>2, <2>3 DEF Kept, Agreed
  <2> QED
    BY <1>1, <2>2, <2>4 DEF Kept
<1> QED
  BY <1>2, <1>3

LEMMA CompareKept ==
  ASSUME TypeOK, Inv, Kept, Running, NEW f \in op.todo, AsSeen(f),
         op.phase \in FilePhases, op' = [op EXCEPT !.step = "write", !.file = f],
         UNCHANGED <<disk, flight, consent>>
  PROVE  Kept'
<1> DEFINE j == op.journal
<1>1. flight' = None /\ Seen(op)
  BY DEF Inv
<1>2. /\ j \in Journals /\ op \in Commands /\ op.todo \in SUBSET Covered(j)
      /\ Covered(j) \in SUBSET Files /\ j.after \in Versions
  BY RunningOp, JournalType
<1>3. op'.phase = op.phase /\ op'.journal = j /\ op'.file = f
  BY <1>2 DEF Commands
<1>4. Agreed(op)'
  BY <1>3 DEF Kept, Agreed
<1>5. disk[f] = op.seen[f] /\ j.after \notin Edits
  BY <1>2, ContentAssumption DEF AsSeen
<1>6. Compared(ToWrite)'
  <2>1. CASE op.phase = "publish"
    <3>1. ToWrite' = [at |-> f, value |-> j.after]
      BY <1>3, <2>1 DEF ToWrite
    <3>2. op.seen = j.before
      BY <1>1, <2>1 DEF Seen, SetupPhases
    <3>3. disk[f] \in Edits => <<f, disk[f]>> \in consent
      BY <1>2, <1>5, <2>1, <3>2 DEF Kept, Agreed
    <3> QED
      BY <3>1, <3>3 DEF Compared
  <2>2. CASE op.phase = "restore"
    <3>1. ToWrite' = [at |-> f, value |-> j.before[f]]
      BY <1>3, <2>2 DEF ToWrite
    <3>2. op.seen[f] \in {j.before[f], j.after}
      BY <1>1, <1>2, <2>2 DEF Seen, RollbackPhases
    <3>3. disk[f] \in Edits => j.before[f] \in Edits
      BY <1>5, <3>2
    <3> QED
      BY <3>1, <3>3 DEF Compared
  <2> QED
    BY <2>1, <2>2 DEF FilePhases
<1> QED
  BY <1>1, <1>4, <1>6 DEF Kept

\* An edit of a file that is about to be written leaves its mark.
LEMMA EditKept ==
  ASSUME TypeOK, NEW f \in Files, NEW e \in Edits, disk' = [disk EXCEPT ![f] = e],
         raced' = (raced \/ (Awaited(f) /\ disk[f] # e)), consent' = consent,
         NEW w, Compared(w), w.at = f => Awaited(f)
  PROVE  (w.at \in Files /\ ~raced' /\ disk'[w.at] \in Edits) =>
             w.value \in Edits \/ <<w.at, disk'[w.at]>> \in consent'
<1> SUFFICES ASSUME w.at \in Files, ~raced', disk'[w.at] \in Edits
             PROVE  w.value \in Edits \/ <<w.at, disk'[w.at]>> \in consent'
  OBVIOUS
<1>1. ~raced /\ ~(Awaited(f) /\ disk[f] # e)
  OBVIOUS
<1>2. disk'[w.at] = disk[w.at]
  <2>1. CASE w.at = f
    BY <1>1, <2>1, Slots DEF TypeOK, Disks
  <2>2. CASE w.at # f
    BY <2>2, Slots DEF TypeOK, Disks
  <2> QED
    BY <2>1, <2>2
<1> QED
  BY <1>1, <1>2 DEF Compared

LEMMA StepKept == TypeOK /\ Inv /\ Kept /\ [Next]_vars => Kept'
<1> SUFFICES ASSUME TypeOK, Inv, Kept, [Next]_vars PROVE Kept'
  OBVIOUS
<1>1. ASSUME NEW v \in Versions, NEW approved \in BOOLEAN, Setup(v, approved) PROVE Kept'
  <2>1. PICK j \in Journals :
            /\ op' = Command("locate", j, j.before)
            /\ Covered(j) = {f \in Files : disk[f] # v}
            /\ j.before = FilesOnly(disk, Covered(j))
    BY <1>1, SetupOp
  <2>2. op'.phase = "locate" /\ op'.journal = j /\ flight' = None
    BY <1>1, <2>1 DEF Command, Setup
  <2>3. \A f \in Covered(j) : j.before[f] = disk[f]
    BY <2>1 DEF FilesOnly
  <2>4. \A f \in Covered(j) : disk[f] \in Edits => <<f, disk[f]>> \in consent'
    BY <1>1, <2>1 DEF Setup
  <2>5. Agreed(op)'
    BY <2>2, <2>3, <2>4 DEF Agreed
  <2> QED
    BY <2>2, <2>5 DEF Kept, FilePhases
<1>2. CASE Rollback
  <2>1. op'.phase = "relocate" /\ flight' = None
    BY <1>2 DEF Rollback, Undo, Command
  <2> QED
    BY <2>1 DEF Kept, Agreed, FilePhases
<1>3. CASE Cancel
  BY <1>3 DEF Cancel, Kept, Running
<1>4. CASE Write
  <2>1. Running /\ flight' = flight /\ flight = None /\ consent' = consent
    BY <1>4 DEF Write, Inv
  <2>2. CASE op.phase \in FilePhases
    <3>1. op' = [op EXCEPT !.step = "readback"] /\ op \in Commands
      BY <1>4, <2>1, <2>2, RunningOp DEF Write
    <3>2. op'.phase = op.phase /\ op'.journal = op.journal /\ op'.step = "readback"
      BY <3>1 DEF Commands
    <3> QED
      BY <2>1, <3>2 DEF Kept, Agreed
  <2>3. CASE op.phase \notin FilePhases
    BY <1>4, <2>1, <2>3, ProceedKept DEF Write
  <2> QED
    BY <2>2, <2>3
<1>5. CASE Compare
  <2>1. /\ Running /\ op.phase \in FilePhases
        /\ UNCHANGED <<disk, flight, consent>>
    BY <1>5, RunningOp DEF Compare
  <2>2. PICK f \in op.todo :
            \/ AsSeen(f) /\ op' = [op EXCEPT !.step = "write", !.file = f]
            \/ Stop
    BY <1>5 DEF Compare
  <2> QED
    BY <2>1, <2>2, CompareKept, StopKept
<1>r. CASE ReadBack
  BY <1>r, ProceedKept, StopKept DEF ReadBack
<1>6. CASE Fail
  BY <1>6, StopKept DEF Fail
<1>7. CASE Die
  BY <1>7 DEF Die, Inv, Kept, Running
<1>8. CASE TimeOut
  <2>1. Running /\ flight' = ToWrite /\ op' = Idle /\ op.step = "write"
        /\ UNCHANGED <<disk, consent, raced>>
    BY <1>8 DEF TimeOut
  <2>2. PICK w : w = ToWrite
    OBVIOUS
  <2>3. Compared(w)
    <3>1. CASE op.phase \in FilePhases
      BY <2>1, <2>2, <3>1 DEF Kept
    <3>2. CASE op.phase \notin FilePhases
      <4>1. w.at \notin Files
        BY <2>1, <2>2, <3>2, NextWriteType
      <4> QED
        BY <4>1 DEF Compared
    <3> QED
      BY <3>1, <3>2
  <2>4. flight' = w
    BY <2>1, <2>2
  <2>5. Compared(flight)'
    BY <2>1, <2>3, <2>4 DEF Compared
  <2> QED
    BY <2>1, <2>5 DEF Kept, Running
<1>9. CASE Land
  <2>1. ~Running /\ op' = op
    BY <1>9 DEF Land, Inv
  <2> QED
    BY <1>9, <2>1 DEF Land, Kept, Running
<1>10. CASE Drop
  <2>1. ~Running /\ op' = op
    BY <1>10 DEF Drop, Inv
  <2> QED
    BY <1>10, <2>1 DEF Drop, Kept, Running
<1>11. CASE Edit
  <2>1. PICK f \in Files, e \in Edits :
            /\ disk' = [disk EXCEPT ![f] = e]
            /\ raced' = (raced \/ (Awaited(f) /\ disk[f] # e))
    BY <1>11 DEF Edit
  <2>2. UNCHANGED <<op, flight, consent>>
    BY <1>11 DEF Edit
  <2>3. Running' => Agreed(op)'
    BY <2>2 DEF Kept, Agreed, Running
  <2>4. ASSUME Running, op.phase \in FilePhases, op.step = "write"
        PROVE  Compared(ToWrite)'
    <3>1. PICK w : w = ToWrite
      OBVIOUS
    <3>2. Compared(w)
      BY <2>4, <3>1 DEF Kept
    <3>3. w.at = f => Awaited(f)
      BY <2>4, <3>1, NextWriteType DEF Awaited
    <3>4. w = ToWrite'
      BY <2>2, <3>1 DEF ToWrite
    <3>5. (w.at \in Files /\ ~raced' /\ disk'[w.at] \in Edits) =>
             w.value \in Edits \/ <<w.at, disk'[w.at]>> \in consent'
      BY <2>1, <2>2, <3>2, <3>3, EditKept
    <3> QED
      BY <3>4, <3>5 DEF Compared
  <2>5. ASSUME flight # None
        PROVE  Compared(flight)'
    <3>1. Compared(flight)
      BY <2>5 DEF Kept
    <3>2. flight.at = f => Awaited(f)
      BY <2>5 DEF Awaited
    <3>3. (flight.at \in Files /\ ~raced' /\ disk'[flight.at] \in Edits) =>
             flight.value \in Edits \/ <<flight.at, disk'[flight.at]>> \in consent'
      BY <2>1, <2>2, <3>1, <3>2, EditKept
    <3> QED
      BY <2>2, <3>3 DEF Compared
  <2> QED
    BY <2>2, <2>3, <2>4, <2>5 DEF Kept, Running
<1>12. CASE UNCHANGED vars
  <2>1. ToWrite' = ToWrite
    BY <1>12 DEF vars, ToWrite
  <2> QED
    BY <1>12, <2>1 DEF vars, Kept, Agreed, Compared, Running
<1> QED
  BY <1>1, <1>2, <1>3, <1>4, <1>5, <1>r, <1>6, <1>7, <1>8, <1>9, <1>10, <1>11, <1>12 DEF Next

LEMMA StepEdits ==
  ASSUME TypeOK, Inv, Kept, [Next]_vars, NEW f \in Files,
         disk[f] \in Edits, disk'[f] \notin Edits
  PROVE  raced \/ <<f, disk[f]>> \in consent
<1>0. disk' # disk
  OBVIOUS
<1>1. CASE Cancel
  BY <1>1, Slots DEF Cancel, TypeOK, Disks
<1>2. CASE Write
  <2>1. PICK w : w = ToWrite /\ disk' = Put(disk, w)
    BY <1>2 DEF Write
  <2>2. Running /\ op.step = "write"
    BY <1>2 DEF Write
  <2>3. w.at = f /\ disk'[f] = w.value /\ op.phase \in FilePhases
    BY <2>1, <2>2, NextWriteType, PutAt, Slots
  <2>4. Compared(w)
    BY <2>1, <2>2, <2>3 DEF Kept
  <2> QED
    BY <2>3, <2>4 DEF Compared
<1>3. CASE Land
  <2>1. flight \in Writes /\ disk' = Put(disk, flight) /\ Compared(flight)
    BY <1>3 DEF Land, Kept, TypeOK
  <2>2. flight.at = f /\ disk'[f] = flight.value
    BY <2>1, PutAt, Slots
  <2> QED
    BY <2>1, <2>2 DEF Compared
<1>4. CASE Edit
  <2>1. PICK g \in Files, e \in Edits : disk' = [disk EXCEPT ![g] = e]
    BY <1>4 DEF Edit
  <2> QED
    BY <2>1, Slots DEF TypeOK, Disks
<1>5. ASSUME NEW v \in Versions, NEW approved \in BOOLEAN, Setup(v, approved) PROVE FALSE
  BY <1>0, <1>5 DEF Setup
<1>6. ~(Rollback \/ Compare \/ ReadBack \/ Fail \/ Die \/ TimeOut \/ Drop \/ UNCHANGED vars)
  BY <1>0 DEF Rollback, Compare, ReadBack, Fail, Die, TimeOut, Drop, vars
<1> QED
  BY <1>1, <1>2, <1>3, <1>4, <1>5, <1>6 DEF Next

\* Whatever steps, late writes, crashes and rollbacks come after one another, an edit
\* of a managed file is replaced only where the owner of the last setup agreed to
\* replace that very content, or by a write whose comparison the edit came after.
THEOREM EditsStay == Spec => EditsKept
<1>1. Init => Kept
  BY DEF Init, Kept, Running
<1>2. TypeOK /\ Inv /\ Kept /\ [Next]_vars =>
        [\A f \in Files :
            disk[f] \in Edits /\ disk'[f] \notin Edits
                => raced \/ <<f, disk[f]>> \in consent]_vars
  BY StepEdits
<1> QED
  BY <1>1, <1>2, InitType, StepType, InitInv, StepInv, StepKept, PTL DEF Spec, EditsKept
============================================================================
