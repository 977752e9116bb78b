--------------------------- MODULE HostMigration ---------------------------
(***************************************************************************)
(* Installing host guidance and rolling it back (host_home.py: setup_home, *)
(* rollback_home).  Many files at the instruction root and in the host     *)
(* home change together.  A locator at the root names the journal, the     *)
(* journal in the home names what every file holds before and after, and   *)
(* while either is there no launcher starts and no other setup begins.     *)
(* The command may die between any two writes, a Workspace write that      *)
(* timed out may land afterwards, and others may edit the files; a         *)
(* rollback undoes what the journal names, or the last completed setup.    *)
(*                                                                         *)
(* The locator holds the hash of a journal; here it holds the journal.     *)
(* The backups are written and read back before the locator and are not    *)
(* touched afterwards; they are part of the journal here.  As the guide    *)
(* asks, a command is given only when no earlier one runs and no Workspace *)
(* request is in flight.  A file is compared, written and read back in     *)
(* three steps, between which others may edit it.                          *)
(*                                                                         *)
(* Two history variables change no behaviour: consent holds the edits the  *)
(* owner agreed to replace, and raced says that a file was edited between  *)
(* its comparison and the write that follows.                              *)
(***************************************************************************)
EXTENDS Naturals

CONSTANTS
    Files,      \* managed files, at the root and in the home
    Versions,   \* installations of the package, each with its own content of every file
    Edits,      \* contents others give a file
    MaxFaults,  \* bound on writes that fail, time out or are never reached
    None        \* no file, no journal, no write in flight

ASSUME MaxFaultsAssumption == MaxFaults \in Nat
ASSUME ContentAssumption ==
    /\ Versions \cap Edits = {}
    /\ None \notin Versions \cup Edits
    /\ Files \cap {"locator", "pending", "last"} = {}

VARIABLES
    disk,      \* what every managed file, the locator and the two journals hold
    op,        \* the command that runs
    flight,    \* a timed-out write that may still land
    faults,    \* how many writes went wrong
    published, \* journal of the last completed setup, until it is rolled back
    consent,   \* <<file, content>> of the edits the owner of the last setup let it replace
    raced      \* the file to be written was changed since it was compared

vars == <<disk, op, flight, faults, published, consent, raced>>

Contents == Versions \cup Edits \cup {None}

Journals ==
    [before : UNION {[F -> Contents] : F \in SUBSET Files}, after : Versions]

Covered(j) == DOMAIN j.before

Places == Files \cup {"locator", "pending", "last"}

Disks == {d \in [Places -> Contents \cup Journals] :
            /\ \A f \in Files : d[f] \in Contents
            /\ \A s \in Places \ Files : d[s] \in Journals \cup {None}}

Writes ==
         [at : Files, value : Contents]
    \cup [at : Places \ Files, value : Journals \cup {None}]

SetupPhases == {"locate", "journal", "publish", "record", "settle", "leave"}
RollbackPhases == {"relocate", "repend", "restore", "forget", "unpend", "unlocate"}
FilePhases == {"publish", "restore"}
Steps == {"compare", "write", "readback"}

\* A missing file is neither a journal nor a write.
ASSUME NoneAssumption == None \notin Journals \cup Writes

Idle == [phase |-> "idle"]

Commands ==
    [phase : SetupPhases \cup RollbackPhases,
     journal : Journals,
     seen : UNION {[F -> Contents] : F \in SUBSET Files},
     todo : SUBSET Files,
     step : Steps,
     file : Files \cup {None}]

Running == op # Idle

TypeOK ==
    /\ disk \in Disks
    /\ op \in Commands \cup {Idle}
    /\ Running => /\ DOMAIN op.seen = Covered(op.journal)
                  /\ op.todo \subseteq Covered(op.journal)
                  /\ (op.phase \in FilePhases /\ op.step # "compare") => op.file \in op.todo
                  /\ op.phase \notin FilePhases => op.step = "write"
    /\ flight \in Writes \cup {None}
    /\ faults \in 0..MaxFaults
    /\ published \in Journals \cup {None}
    /\ consent \in SUBSET (Files \X Edits)
    /\ raced \in BOOLEAN

---------------------------------------------------------------------------
(* What a command writes next.                                             *)

Put(d, w) == [d EXCEPT ![w.at] = w.value]

\* Seeded fault: the files are published before the journal that names them.
AfterPhasePublishingFirst(p) ==
    CASE p = "locate" -> "publish"
      [] p = "publish" -> "journal"
      [] p = "journal" -> "record"
      [] p = "record" -> "settle"
      [] p = "settle" -> "leave"
      [] p = "relocate" -> "repend"
      [] p = "repend" -> "restore"
      [] p = "restore" -> "forget"
      [] p = "forget" -> "unpend"
      [] p = "unpend" -> "unlocate"

AfterPhase(p) ==
    CASE p = "locate" -> "journal"
      [] p = "journal" -> "publish"
      [] p = "publish" -> "record"
      [] p = "record" -> "settle"
      [] p = "settle" -> "leave"
      [] p = "relocate" -> "repend"
      [] p = "repend" -> "restore"
      [] p = "restore" -> "forget"
      [] p = "forget" -> "unpend"
      [] p = "unpend" -> "unlocate"

ToWrite ==
    CASE op.phase \in {"locate", "relocate"} -> [at |-> "locator", value |-> op.journal]
      [] op.phase \in {"journal", "repend"} -> [at |-> "pending", value |-> op.journal]
      [] op.phase = "publish" -> [at |-> op.file, value |-> op.journal.after]
      [] op.phase = "restore" -> [at |-> op.file, value |-> op.journal.before[op.file]]
      [] op.phase = "record" -> [at |-> "last", value |-> op.journal]
      [] op.phase = "forget" -> [at |-> "last", value |-> None]
      [] op.phase \in {"settle", "unpend"} -> [at |-> "pending", value |-> None]
      [] op.phase \in {"leave", "unlocate"} -> [at |-> "locator", value |-> None]

\* Seeded fault: files are not compared again before they are written.
AsSeenOnce(f) == TRUE

\* A file still holds what the command saw in it.
AsSeen(f) == disk[f] = op.seen[f]

Enter(phase, todo) ==
    [op EXCEPT !.phase = phase,
               !.todo = todo,
               !.step = IF phase \in FilePhases THEN "compare" ELSE "write",
               !.file = None]

\* What the command does once its write stands.
Proceed ==
    LET rest == op.todo \ {op.file} IN
    IF op.phase \in {"leave", "unlocate"} THEN Idle
    ELSE IF op.phase \notin FilePhases THEN Enter(AfterPhase(op.phase), op.todo)
    ELSE IF rest # {} THEN Enter(op.phase, rest)
    ELSE Enter(AfterPhase(op.phase), {})

Command(phase, journal, seen) ==
    [phase |-> phase, journal |-> journal, seen |-> seen, todo |-> Covered(journal),
     step |-> "write", file |-> None]

\* A file that was compared and whose write is still to come.
Awaited(f) ==
    \/ Running /\ op.step = "write" /\ op.file = f
    \/ flight # None /\ flight.at = f

FilesOnly(d, F) == [f \in F |-> d[f]]

---------------------------------------------------------------------------
(* Rolling back.                                                           *)

Available == disk["locator"] = None /\ disk["pending"] = None

\* The journal a rollback works from: the pending one, or the last completed.
Recorded == IF disk["pending"] # None THEN disk["pending"] ELSE disk["last"]

Mismatched == disk["locator"] # None /\ Recorded # disk["locator"]

\* The locator was published but its journal was not: nothing else was written.
Cancellable == Mismatched /\ disk["pending"] = None

\* Every file holds what the journal knows of it.
Recoverable ==
    /\ ~Mismatched
    /\ Recorded # None
    /\ \A f \in Covered(Recorded) : disk[f] \in {Recorded.before[f], Recorded.after}

Undo == Command("relocate", Recorded, FilesOnly(disk, Covered(Recorded)))

UndoOrStop == IF Recoverable THEN Undo ELSE Idle

---------------------------------------------------------------------------
(* The commands.                                                           *)

Init ==
    /\ \E v \in Versions \cup {None} :
         disk = [p \in Places |-> IF p \in Files THEN v ELSE None]
    /\ op = Idle
    /\ flight = None
    /\ faults = 0
    /\ published = None
    /\ consent = {}
    /\ raced = FALSE

\* setup_home up to its backups: edited files are refused without approval.
Setup(v, approved) ==
    LET changes == {f \in Files : disk[f] # v} IN
    /\ ~Running /\ flight = None
    /\ Available
    /\ changes # {}
    /\ approved \/ \A f \in changes : disk[f] \notin Edits
    /\ LET journal == [before |-> FilesOnly(disk, changes), after |-> v] IN
       op' = Command("locate", journal, journal.before)
    /\ consent' = {<<f, disk[f]>> : f \in {g \in changes : approved /\ disk[g] \in Edits}}
    /\ UNCHANGED <<disk, flight, faults, published, raced>>

\* rollback_home up to its first write.
Rollback ==
    /\ ~Running /\ flight = None
    /\ Recoverable
    /\ op' = Undo
    /\ UNCHANGED <<disk, flight, faults, published, consent, raced>>

\* rollback_home of a locator whose journal was never published.
Cancel ==
    /\ ~Running /\ flight = None
    /\ Cancellable
    /\ disk' = [disk EXCEPT !["locator"] = None]
    /\ UNCHANGED <<op, flight, faults, published, consent, raced>>

\* A file does not hold what it should, or a read or write is refused: a setup
\* that publishes rolls itself back, any other command stops where it is.
Stop == op' = IF op.phase = "publish" THEN UndoOrStop ELSE Idle

Compare ==
    /\ Running /\ op.step = "compare"
    /\ \E f \in op.todo :
         \/ AsSeen(f) /\ op' = [op EXCEPT !.step = "write", !.file = f]
         \/ ~AsSeen(f) /\ Stop
    /\ raced' = FALSE
    /\ UNCHANGED <<disk, flight, faults, published, consent>>

Write ==
    /\ Running /\ op.step = "write"
    /\ disk' = Put(disk, ToWrite)
    /\ op' = IF op.phase \in FilePhases THEN [op EXCEPT !.step = "readback"] ELSE Proceed
    /\ published' = IF op.phase = "record" THEN op.journal
                    ELSE IF op.phase = "forget" /\ op.journal = published THEN None
                    ELSE published
    /\ raced' = FALSE
    /\ UNCHANGED <<flight, faults, consent>>

ReadBack ==
    /\ Running /\ op.step = "readback"
    /\ \/ disk[op.file] = ToWrite.value /\ op' = Proceed
       \/ disk[op.file] # ToWrite.value /\ Stop
    /\ UNCHANGED <<disk, flight, faults, published, consent, raced>>

Fail ==
    /\ Running
    /\ faults < MaxFaults
    /\ Stop
    /\ faults' = faults + 1
    /\ raced' = FALSE
    /\ UNCHANGED <<disk, flight, published, consent>>

\* The process ends between two steps.
Die ==
    /\ Running
    /\ faults < MaxFaults
    /\ op' = Idle
    /\ faults' = faults + 1
    /\ raced' = FALSE
    /\ UNCHANGED <<disk, flight, published, consent>>

\* A Workspace write times out: the command stops without rolling back.
TimeOut ==
    /\ Running /\ op.step = "write"
    /\ faults < MaxFaults
    /\ flight' = ToWrite
    /\ op' = Idle
    /\ faults' = faults + 1
    /\ UNCHANGED <<disk, published, consent, raced>>

Land ==
    /\ flight # None
    /\ disk' = Put(disk, flight)
    /\ flight' = None
    /\ raced' = FALSE
    /\ UNCHANGED <<op, faults, published, consent>>

Drop ==
    /\ flight # None
    /\ flight' = None
    /\ raced' = FALSE
    /\ UNCHANGED <<disk, op, faults, published, consent>>

Edit ==
    /\ \E f \in Files, e \in Edits :
         /\ disk' = [disk EXCEPT ![f] = e]
         /\ raced' = (raced \/ (Awaited(f) /\ disk[f] # e))
    /\ UNCHANGED <<op, flight, faults, published, consent>>

Next ==
    \/ \E v \in Versions, approved \in BOOLEAN : Setup(v, approved)
    \/ Rollback \/ Cancel
    \/ Compare \/ Write \/ ReadBack \/ Fail \/ Die \/ TimeOut
    \/ Land \/ Drop \/ Edit

Spec == Init /\ [][Next]_vars

---------------------------------------------------------------------------
(* Properties.                                                             *)

Whole(d) ==
    \E v \in Versions \cup {None} : \A f \in Files : d[f] \in Edits \cup {v}

\* Whenever a launcher is handed out (neither locator nor journal is there) the
\* files, except those others edited, are all of one installation: no crash, late
\* write, cancelled preparation or half-done rollback is started from
\* (host_home.py:159-169, 619-641).
LaunchesWhole == Available => Whole(disk)

\* A file that others edited is replaced only by a setup whose owner agreed to
\* replace that very content, by whatever step or late write, and through any
\* conflicts, failed and repeated commands and rollbacks; the one exception is a file
\* that was changed in the window after the comparison of the write that replaces it
\* (host_home.py:513-520, 627-629, 203, 215-217; docs/guides/host-home.md:66-68, 91-92).
EditsKept ==
    [][\A f \in Files :
        disk[f] \in Edits /\ disk'[f] \notin Edits => raced \/ <<f, disk[f]>> \in consent]_vars

\* "preserve concurrent edits" (host_home.py:187; docs/guides/host-home.md:91-92):
\* without the exception.  TLC refutes it (README, section 6).
ConcurrentEditsPreserved ==
    [][\A f \in Files :
        disk[f] \in Edits /\ disk'[f] \notin Edits => <<f, disk[f]>> \in consent]_vars

\* "This also rolls back the most recent successful publication"
\* (docs/guides/host-home.md:91): while nothing is under way, the journal of the
\* last completed setup that was not rolled back is kept.  TLC refutes it (README,
\* section 6).
LastStaysReversible ==
    (~Running /\ flight = None /\ Available /\ published # None) => disk["last"] = published
=============================================================================
