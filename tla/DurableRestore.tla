--------------------------- MODULE DurableRestore ---------------------------
(***************************************************************************)
(* Restoring a durable snapshot (durability.py: restore_latest, resume_    *)
(* restore, abandon_restore).  A restore verifies the latest snapshot in   *)
(* staging, creates the managed artifact tree exclusively and binds it to  *)
(* itself with an ownership record, copies the artifacts into it, writes   *)
(* the hash of the database it is about to publish into the record,        *)
(* publishes the database, and removes the record.  A call may die between *)
(* any two steps, other programs may create files at the destination, and  *)
(* a later call resumes the recorded restore or moves its tree aside.      *)
(*                                                                         *)
(* A tree is a directory wherever it is moved to; the destination path     *)
(* names at most one of them.  A record names its tree (device and inode). *)
(* The bytes of a staged database depend on its snapshot and on what the   *)
(* attempt appends to it, one of Variants.                                 *)
(***************************************************************************)
EXTENDS Naturals, FiniteSets

CONSTANTS
    Restorers,  \* processes that restore, resume or abandon
    Snapshots,  \* published snapshots
    Files,      \* the artifact files of a snapshot
    Variants,   \* what an attempt may append to its staged database
    Linked,     \* the destination's file system has hard links
    Foreign,    \* other programs create files at the destination
    MaxTrees,   \* bound on the directories ever created at the destination
    Absent      \* no file, no record

ASSUME SwitchesAssumption == Linked \in BOOLEAN /\ Foreign \in BOOLEAN
ASSUME BoundAssumption == MaxTrees \in Nat \ {0}
ASSUME OutsideAssumption == "foreign" \notin Restorers \cup Snapshots

VARIABLES
    latest,  \* the snapshot a restore takes
    kept,    \* snapshots whose manifest is still there and verifies
    db,      \* the file at destination_db
    dest,    \* the tree at destination_artifacts, 0 when there is none
    trees,   \* every directory created there so far
    call     \* what each restorer is doing

vars == <<latest, kept, db, dest, trees, call>>

Trees == 1 .. MaxTrees
Entries == {Absent} \cup
    [of : Snapshots \cup {"foreign"}, by : Restorers \cup {"foreign"}, full : BOOLEAN]
Intents == {Absent} \cup (Snapshots \X Variants)
Records == [tree : Trees, of : Snapshots, intent : Intents]
Databases == {Absent} \cup
    [of : Snapshots \cup {"foreign"}, variant : Variants \cup {Absent}, full : BOOLEAN]

\* Absent is none of the values it stands in for.
ASSUME AbsentAssumption ==
    /\ Absent \notin Restorers \cup Files \cup {"foreign"}
    /\ Absent \notin [of : Snapshots \cup {"foreign"}, by : Restorers \cup {"foreign"}, full : BOOLEAN]
    /\ Absent \notin [of : Snapshots \cup {"foreign"}, variant : Variants \cup {Absent}, full : BOOLEAN]
    /\ Absent \notin Records \cup (Snapshots \X Variants)

\* A directory: the snapshot's files in it, an unexpected entry, its record, who made it.
NewTree(maker) ==
    [files |-> [f \in Files |-> Absent], alien |-> FALSE, record |-> Absent, maker |-> maker]

NoTree == [files |-> [f \in Files |-> Absent], alien |-> FALSE, record |-> Absent, maker |-> Absent]
Unused(i) == trees[i].maker = Absent

Idle == [pc |-> "idle"]

\* The directory at the destination is the one of this record, and carries it still.
Owned(record) ==
    /\ dest = record.tree
    /\ trees[dest].record = record

\* The tree holds nothing but a record.
Empty(i) == ~ trees[i].alien /\ \A f \in Files : trees[i].files[f] = Absent

\* The recorded restore at the destination, if there is one.
Incomplete == dest # 0 /\ trees[dest].record # Absent /\ Owned(trees[dest].record)

\* The database at the destination is the bytes this restore recorded before publishing.
DatabasePublished(record) ==
    /\ record.intent # Absent
    /\ db # Absent /\ db.full
    /\ <<db.of, db.variant>> = record.intent

Init ==
    /\ latest \in Snapshots
    /\ kept = Snapshots
    /\ db = Absent
    /\ dest = 0
    /\ trees = [i \in Trees |-> NoTree]
    /\ call = [p \in Restorers |-> Idle]

\* A newer checkpoint becomes the latest, and retention may delete any other.
Lineage ==
    /\ latest' \in kept
    /\ kept' \in {k \in SUBSET kept : latest' \in k}
    /\ UNCHANGED <<db, dest, trees, call>>

\* Another program creates what is absent at the destination; it overwrites nothing.
ForeignDatabase ==
    /\ Foreign /\ db = Absent
    /\ db' = [of |-> "foreign", variant |-> Absent, full |-> TRUE]
    /\ UNCHANGED <<latest, kept, dest, trees, call>>

ForeignTree ==
    /\ Foreign /\ dest = 0
    /\ \E i \in Trees :
          /\ Unused(i) /\ \A j \in 1 .. (i - 1) : ~ Unused(j)
          /\ dest' = i
          /\ trees' = [trees EXCEPT ![i] = NewTree("foreign")]
    /\ UNCHANGED <<latest, kept, db, call>>

ForeignEntry ==
    /\ Foreign /\ dest # 0
    /\ \/ ~ trees[dest].alien /\ trees' = [trees EXCEPT ![dest].alien = TRUE]
       \/ \E f \in Files :
             /\ trees[dest].files[f] = Absent
             /\ trees' = [trees EXCEPT ![dest].files[f] =
                   [of |-> "foreign", by |-> "foreign", full |-> TRUE]]
    /\ UNCHANGED <<latest, kept, db, dest, call>>

-----------------------------------------------------------------------------
\* restore_latest: both destinations absent, the latest snapshot verified in staging.
Restore(p) ==
    /\ call[p] = Idle
    /\ db = Absent /\ dest = 0
    /\ \E v \in Variants :
          call' = [call EXCEPT ![p] = [pc |-> "claim", of |-> latest, variant |-> v]]
    /\ UNCHANGED <<latest, kept, db, dest, trees>>

\* The destination is created exclusively ...
Claim(p) ==
    /\ call[p].pc = "claim"
    /\ IF dest # 0
       THEN call' = [call EXCEPT ![p] = Idle] /\ UNCHANGED <<dest, trees>>
       ELSE \E i \in Trees :
          /\ Unused(i) /\ \A j \in 1 .. (i - 1) : ~ Unused(j)
          /\ dest' = i
          /\ trees' = [trees EXCEPT ![i] = NewTree(p)]
          /\ call' = [call EXCEPT ![p] =
                [pc |-> "mark", variant |-> @.variant,
                 record |-> [tree |-> i, of |-> @.of, intent |-> Absent]]]
    /\ UNCHANGED <<latest, kept, db>>

\* The work of filling a tree that carries this record.
Filling(record, variant, fresh) ==
    [pc |-> "fill", record |-> record, variant |-> variant, fresh |-> fresh,
     todo |-> Files, created |-> {}, writing |-> Absent]

\* ... and bound to this restore by its record, created exclusively too.
MarkOwner(p) ==
    /\ call[p].pc = "mark"
    /\ IF dest # 0 /\ trees[dest].record = Absent
       THEN /\ trees' = [trees EXCEPT ![dest].record = call[p].record]
            /\ call' = [call EXCEPT ![p] = Filling(@.record, @.variant, TRUE)]
       ELSE call' = [call EXCEPT ![p] = Idle] /\ UNCHANGED trees
    /\ UNCHANGED <<latest, kept, db, dest>>

\* When the record cannot be created or written, the directory goes while it is empty.
MarkFails(p) ==
    LET tree == call[p].record.tree
    IN /\ call[p].pc = "mark"
       /\ dest' = IF dest = tree /\ Empty(tree) THEN 0 ELSE dest
       /\ call' = [call EXCEPT ![p] = Idle]
       /\ UNCHANGED <<latest, kept, db, trees>>

\* resume_restore: the recorded restore, against the snapshot it recorded.
Resume(p) ==
    /\ call[p] = Idle /\ Incomplete
    /\ LET record == trees[dest].record
       IN \/ /\ DatabasePublished(record)
             /\ call' = [call EXCEPT ![p] = [pc |-> "unmark"]]
          \/ /\ db = Absent /\ record.of \in kept
             /\ \E v \in Variants : call' = [call EXCEPT ![p] = Filling(record, v, FALSE)]
    /\ UNCHANGED <<latest, kept, db, dest, trees>>

\* An absent file is created exclusively in the claimed tree, then written ...
Create(p) ==
    LET work == call[p] tree == call[p].record.tree
    IN /\ work.pc = "fill" /\ work.writing = Absent /\ dest = tree
       /\ \E f \in work.todo :
             /\ trees[tree].files[f] = Absent
             /\ trees' = [trees EXCEPT ![tree].files[f] =
                   [of |-> work.record.of, by |-> p, full |-> FALSE]]
             /\ call' = [call EXCEPT ![p].created = @ \cup {f}, ![p].writing = f]
       /\ UNCHANGED <<latest, kept, db, dest>>

Fill(p) ==
    LET work == call[p] tree == call[p].record.tree
    IN /\ work.pc = "fill" /\ work.writing # Absent
       /\ trees' = [trees EXCEPT ![tree].files[work.writing].full = TRUE]
       /\ call' = [call EXCEPT ![p].todo = @ \ {work.writing}, ![p].writing = Absent]
       /\ UNCHANGED <<latest, kept, db, dest>>

\* A seeded fault: a file that is there already is taken for the snapshot's.
CompareName(p) ==
    LET work == call[p] tree == call[p].record.tree
    IN /\ work.pc = "fill" /\ work.writing = Absent /\ dest = tree
       /\ \E f \in work.todo :
             /\ trees[tree].files[f] # Absent
             /\ call' = [call EXCEPT ![p].todo = @ \ {f}]
       /\ UNCHANGED <<latest, kept, db, dest, trees>>

\* ... and one that is there must be the snapshot's.
Compare(p) ==
    LET work == call[p] tree == call[p].record.tree
    IN /\ work.pc = "fill" /\ work.writing = Absent /\ dest = tree
       /\ \E f \in work.todo :
             /\ trees[tree].files[f] # Absent
             /\ trees[tree].files[f].of = work.record.of /\ trees[tree].files[f].full
             /\ call' = [call EXCEPT ![p].todo = @ \ {f}]
       /\ UNCHANGED <<latest, kept, db, dest, trees>>

\* The whole tree is there, nothing unexpected is, and it is still this restore's.
FillEnds(p) ==
    LET work == call[p]
    IN /\ work.pc = "fill" /\ work.todo = {}
       /\ Owned(work.record) /\ ~ trees[dest].alien
       /\ call' = [call EXCEPT ![p] =
             [pc |-> "intent", record |-> @.record, variant |-> @.variant]]
       /\ UNCHANGED <<latest, kept, db, dest, trees>>

\* A file that differs, a tree that changed, an error or a failed proof ends the copy.
FillFails(p) ==
    /\ call[p].pc = "fill"
    /\ call' = [call EXCEPT ![p].pc = "release"]
    /\ UNCHANGED <<latest, kept, db, dest, trees>>

\* Only entries this call created are removed, and only while the tree is still its own.
Release(p) ==
    LET work == call[p]
    IN /\ work.pc = "release"
       /\ call' = [call EXCEPT ![p] =
             IF Owned(work.record)
             THEN [pc |-> "remove", record |-> work.record, created |-> work.created,
                   fresh |-> work.fresh]
             ELSE Idle]
       /\ UNCHANGED <<latest, kept, db, dest, trees>>

\* A seeded fault: cleanup removes every file of the tree, whoever created it.
RemoveAll(p) ==
    LET work == call[p] tree == call[p].record.tree
    IN /\ work.pc = "remove"
       /\ \E f \in work.created :
             /\ trees' = [trees EXCEPT ![tree].files =
                   [g \in Files |-> Absent]]
             /\ call' = [call EXCEPT ![p].created = @ \ {f}]
       /\ UNCHANGED <<latest, kept, db, dest>>

\* One by one, while the file at the name is the one this call created.
Remove(p) ==
    LET work == call[p] tree == call[p].record.tree
    IN /\ work.pc = "remove"
       /\ \E f \in work.created :
             /\ trees' = [trees EXCEPT ![tree].files[f] =
                   IF @ # Absent /\ @.by = p THEN Absent ELSE @]
             /\ call' = [call EXCEPT ![p].created = @ \ {f}]
       /\ UNCHANGED <<latest, kept, db, dest>>

\* A seeded fault: the record is removed from a tree that keeps files.
RemoveOwnerEarly(p) ==
    LET work == call[p] tree == call[p].record.tree
    IN /\ work.pc = "remove" /\ work.created = {}
       /\ IF Owned(work.record)
          THEN /\ trees' = [trees EXCEPT ![tree].record = Absent]
               /\ call' = [call EXCEPT ![p] = [pc |-> "rmdir", record |-> work.record]]
          ELSE call' = [call EXCEPT ![p] = Idle] /\ UNCHANGED trees
       /\ UNCHANGED <<latest, kept, db, dest>>

\* A tree this restore created goes with its record once nothing else is in it ...
RemoveOwner(p) ==
    LET work == call[p] tree == call[p].record.tree
    IN /\ work.pc = "remove" /\ work.created = {}
       /\ IF work.fresh /\ Empty(tree) /\ trees[tree].record = work.record
          THEN /\ trees' = [trees EXCEPT ![tree].record = Absent]
               /\ call' = [call EXCEPT ![p] = [pc |-> "rmdir", record |-> work.record]]
          ELSE call' = [call EXCEPT ![p] = Idle] /\ UNCHANGED trees
       /\ UNCHANGED <<latest, kept, db, dest>>

\* ... and stays if something has come into it.
RemoveTree(p) ==
    LET tree == call[p].record.tree
    IN /\ call[p].pc = "rmdir"
       /\ dest' = IF dest = tree /\ Empty(tree) /\ trees[tree].record = Absent THEN 0 ELSE dest
       /\ call' = [call EXCEPT ![p] = Idle]
       /\ UNCHANGED <<latest, kept, db, trees>>

-----------------------------------------------------------------------------
\* The record is checked, and then replaced by one with the database's hash.
CheckIntent(p) ==
    /\ call[p].pc = "intent"
    /\ call' = [call EXCEPT ![p] =
          IF Owned(call[p].record) THEN [@ EXCEPT !.pc = "record"] ELSE Idle]
    /\ UNCHANGED <<latest, kept, db, dest, trees>>

\* The hash identifies the staged bytes.
RecordIntent(p) ==
    /\ call[p].pc = "record"
    /\ IF dest = 0
       THEN call' = [call EXCEPT ![p] = Idle] /\ UNCHANGED trees
       ELSE LET record == [call[p].record EXCEPT !.intent = <<call[p].record.of, call[p].variant>>]
            IN /\ trees' = [trees EXCEPT ![dest].record = record]
               /\ call' = [call EXCEPT ![p] = [@ EXCEPT !.pc = "publish", !.record = record]]
    /\ UNCHANGED <<latest, kept, db, dest>>

\* The database is published exclusively: at once, or by copying without hard links.
Publish(p) ==
    LET work == call[p]
    IN /\ work.pc = "publish"
       /\ IF db # Absent
          THEN call' = [call EXCEPT ![p] = Idle] /\ UNCHANGED db
          ELSE /\ db' = [of |-> work.record.of, variant |-> work.variant, full |-> Linked]
               /\ call' = [call EXCEPT ![p].pc = IF Linked THEN "check" ELSE "copy"]
       /\ UNCHANGED <<latest, kept, dest, trees>>

Copy(p) ==
    /\ call[p].pc = "copy"
    /\ db' = [db EXCEPT !.full = TRUE]
    /\ call' = [call EXCEPT ![p].pc = "check"]
    /\ UNCHANGED <<latest, kept, dest, trees>>

\* The tree must still be this restore's; then its record is removed and the call succeeds.
CheckOwner(p) ==
    /\ call[p].pc = "check"
    /\ call' = [call EXCEPT ![p] = IF Owned(call[p].record) THEN [pc |-> "unmark"] ELSE Idle]
    /\ UNCHANGED <<latest, kept, db, dest, trees>>

Unmark(p) ==
    /\ call[p].pc = "unmark"
    /\ trees' = IF dest # 0 THEN [trees EXCEPT ![dest].record = Absent] ELSE trees
    /\ call' = [call EXCEPT ![p] = Idle]
    /\ UNCHANGED <<latest, kept, db, dest>>

\* abandon_restore: a recorded restore that has not published its database ...
Abandon(p) ==
    /\ call[p] = Idle /\ Incomplete
    /\ ~ DatabasePublished(trees[dest].record)
    /\ call' = [call EXCEPT ![p] = [pc |-> "abandon", record |-> trees[dest].record]]
    /\ UNCHANGED <<latest, kept, db, dest, trees>>

\* ... is checked once more and moved aside with everything in it.
CheckAbandon(p) ==
    /\ call[p].pc = "abandon"
    /\ call' = [call EXCEPT ![p] = IF Owned(call[p].record) THEN [pc |-> "move"] ELSE Idle]
    /\ UNCHANGED <<latest, kept, db, dest, trees>>

MoveAside(p) ==
    /\ call[p].pc = "move"
    /\ dest' = 0
    /\ call' = [call EXCEPT ![p] = Idle]
    /\ UNCHANGED <<latest, kept, db, trees>>

\* The process dies, or an error ends the call without cleanup.
Crash(p) ==
    /\ call[p] # Idle
    /\ call' = [call EXCEPT ![p] = Idle]
    /\ UNCHANGED <<latest, kept, db, dest, trees>>

Next ==
    \/ Lineage \/ ForeignDatabase \/ ForeignTree \/ ForeignEntry
    \/ \E p \in Restorers :
          \/ Restore(p) \/ Claim(p) \/ MarkOwner(p) \/ MarkFails(p) \/ Resume(p)
          \/ Create(p) \/ Fill(p) \/ Compare(p) \/ FillEnds(p) \/ FillFails(p)
          \/ Release(p) \/ Remove(p) \/ RemoveOwner(p) \/ RemoveTree(p)
          \/ CheckIntent(p) \/ RecordIntent(p) \/ Publish(p) \/ Copy(p)
          \/ CheckOwner(p) \/ Unmark(p)
          \/ Abandon(p) \/ CheckAbandon(p) \/ MoveAside(p) \/ Crash(p)

Spec == Init /\ [][Next]_vars

-----------------------------------------------------------------------------
\* What a restorer holds while it works.
Calls ==
    {Idle, [pc |-> "unmark"], [pc |-> "move"]}
    \cup [pc : {"claim"}, of : Snapshots, variant : Variants]
    \cup [pc : {"mark", "intent", "record", "publish", "copy", "check"},
          variant : Variants, record : Records]
    \cup [pc : {"fill", "release"}, record : Records, variant : Variants, fresh : BOOLEAN,
          todo : SUBSET Files, created : SUBSET Files, writing : Files \cup {Absent}]
    \cup [pc : {"remove"}, record : Records, created : SUBSET Files, fresh : BOOLEAN]
    \cup [pc : {"rmdir", "abandon"}, record : Records]

\* The destination, the trees and what each restorer holds have the shape the code relies on.
TypeOK ==
    /\ latest \in kept /\ kept \subseteq Snapshots
    /\ db \in Databases
    /\ dest \in 0 .. MaxTrees
    /\ trees \in [Trees ->
          [files : [Files -> Entries], alien : BOOLEAN, record : {Absent} \cup Records,
           maker : Restorers \cup {"foreign", Absent}]]
    /\ call \in [Restorers -> Calls]

\* A file p created in this very call.
CreatedBy(p, i, f) ==
    /\ call[p].pc \in {"fill", "remove"}
    /\ call[p].record.tree = i
    /\ f \in call[p].created
    /\ trees[i].files[f].by = p

\* Whatever restores, recoveries and other programs meet at a destination, nothing there is
\* overwritten or removed but a file by the very call that created it: a loser of a race
\* deletes nothing, and cleanup spares what others put into the tree (_release_owned_destination).
KeepsOthers ==
    [][/\ \A i \in Trees :
             /\ trees[i].alien => trees'[i].alien
             /\ \A f \in Files :
                   trees[i].files[f] \notin {Absent, trees'[i].files[f]} =>
                      \E p \in Restorers : CreatedBy(p, i, f)
       /\ db # Absent /\ db.full => db' = db]_vars

Restored == db # Absent /\ db.of \in Snapshots /\ db.full

Whole(i, s) ==
    \A f \in Files : trees[i].files[f] # Absent
                    /\ trees[i].files[f].of = s /\ trees[i].files[f].full

\* With one restorer at a time: a restored database stands beside the whole artifact tree of
\* the same snapshot, wherever calls died and were resumed and whatever checkpoint is the
\* latest by then ("a partial state cannot be presented as complete").
DatabaseOverWholeTree ==
    Restored => dest # 0 /\ Whole(dest, db.of)

AtRest == \A p \in Restorers : call[p] = Idle

\* With one restorer at a time: when no call is running, a destination with a restored file
\* in it is finished, or carries the record that resume and abandon work from.
PartialIsRecorded ==
    AtRest /\ dest # 0 /\ (\E f \in Files :
                trees[dest].files[f] # Absent /\ trees[dest].files[f].by \in Restorers)
        => Incomplete \/ Restored
=============================================================================
