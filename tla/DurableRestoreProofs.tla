------------------------ MODULE DurableRestoreProofs ------------------------
(***************************************************************************)
(* Two arguments about restores, and at the end one about the checkpoints  *)
(* they are taken from.  For any number of restorers that race with one    *)
(* another and with other programs at one destination: a file              *)
(* stands between its creation and its removal with the name of the call   *)
(* that created it (WritesOwn), and a directory that was not created yet   *)
(* holds nothing (UnusedEmpty), so none removes what another put there.    *)
(* For one restorer at a time, with other programs beside it: each step    *)
(* finds what the steps before it left (Solo), so a restored database      *)
(* stands beside its whole tree and a partial tree carries its record.     *)
(***************************************************************************)
EXTENDS DurableRestore, DurableDirectory, FiniteSetTheorems, TLAPS

FileEntries == [of : Snapshots \cup {"foreign"}, by : Restorers \cup {"foreign"}, full : BOOLEAN]
DatabaseFiles == [of : Snapshots \cup {"foreign"}, variant : Variants \cup {Absent}, full : BOOLEAN]
Directories == [files : [Files -> Entries], alien : BOOLEAN, record : {Absent} \cup Records,
                maker : Restorers \cup {"foreign", Absent}]

UnusedEmpty == \A i \in Trees : Unused(i) => Empty(i)
DestUsed    == dest # 0 => ~ Unused(dest)

\* A file being written is one this call created.
WritesOwn ==
    \A p \in Restorers : call[p].pc = "fill" /\ call[p].writing # Absent =>
        /\ call[p].writing \in call[p].created
        /\ trees[call[p].record.tree].files[call[p].writing] \in FileEntries
        /\ trees[call[p].record.tree].files[call[p].writing].by = p

\* A database being copied is there.
CopiesFile == \A p \in Restorers : call[p].pc = "copy" => db \in DatabaseFiles

IInv == TypeOK /\ UnusedEmpty /\ DestUsed /\ WritesOwn /\ CopiesFile

\* The step KeepsOthers allows.
Keeps ==
    /\ \A i \in Trees :
          /\ trees[i].alien => trees'[i].alien
          /\ \A f \in Files :
                trees[i].files[f] \notin {Absent, trees'[i].files[f]} =>
                   \E p \in Restorers : CreatedBy(p, i, f)
    /\ db # Absent /\ db.full => db' = db

\* A step of p that touches no file: it moves p, the path or a record.
Quiet(p) ==
    /\ db' = db
    /\ dest' \in {dest, 0}
    /\ \A i \in Trees : /\ trees'[i].files = trees[i].files
                        /\ trees'[i].alien = trees[i].alien
                        /\ trees'[i].maker = trees[i].maker
    /\ \A q \in Restorers \ {p} : call'[q] = call[q]
    /\ call'[p].pc # "copy"
    /\ call'[p].pc = "fill" => call'[p].writing = Absent

-----------------------------------------------------------------------------
(* What the types say of one call.                                         *)

LEMMA CallTypes ==
    ASSUME TypeOK, NEW p \in Restorers
    PROVE  /\ call[p] \in Calls
           /\ call[p].pc = "claim" =>
                 call[p] \in [pc : {"claim"}, of : Snapshots, variant : Variants]
           /\ call[p].pc \in {"mark", "intent", "record", "publish", "copy", "check"} =>
                 call[p] \in [pc : {"mark", "intent", "record", "publish", "copy", "check"},
                              variant : Variants, record : Records]
           /\ call[p].pc \in {"fill", "release"} =>
                 call[p] \in [pc : {"fill", "release"}, record : Records, variant : Variants,
                              fresh : BOOLEAN, todo : SUBSET Files, created : SUBSET Files,
                              writing : Files \cup {Absent}]
           /\ call[p].pc = "remove" =>
                 call[p] \in [pc : {"remove"}, record : Records, created : SUBSET Files, fresh : BOOLEAN]
           /\ call[p].pc \in {"rmdir", "abandon"} =>
                 call[p] \in [pc : {"rmdir", "abandon"}, record : Records]
<1>1. call[p] \in Calls
  BY DEF TypeOK
<1> QED
  BY <1>1 DEF Calls, Idle

\* The states of a call that are one value.
LEMMA Simple ==
    /\ Idle \in Calls /\ [pc |-> "unmark"] \in Calls /\ [pc |-> "move"] \in Calls
    /\ Idle.pc = "idle"
BY DEF Calls, Idle

LEMMA FillingTyped ==
    ASSUME NEW r \in Records, NEW v \in Variants, NEW b \in BOOLEAN
    PROVE  /\ Filling(r, v, b) \in Calls
           /\ Filling(r, v, b).pc = "fill" /\ Filling(r, v, b).writing = Absent
BY DEF Filling, Calls

LEMMA RecordFields ==
    ASSUME NEW r \in Records
    PROVE  r.tree \in Trees /\ r.of \in Snapshots /\ r.intent \in Intents
BY DEF Records

\* The directory at the destination.
LEMMA DestTyped ==
    ASSUME TypeOK, dest # 0
    PROVE  dest \in Trees /\ trees[dest] \in Directories
BY BoundAssumption DEF TypeOK, Trees, Directories

LEMMA NewTreeTyped ==
    ASSUME NEW m \in Restorers \cup {"foreign"}
    PROVE  /\ NewTree(m) \in Directories
           /\ NewTree(m).maker # Absent /\ ~ NewTree(m).alien
           /\ \A f \in Files : NewTree(m).files[f] = Absent
BY AbsentAssumption DEF NewTree, Directories, Entries

-----------------------------------------------------------------------------
(* A step that touches no file.                                            *)

LEMMA QuietKeeps ==
    ASSUME IInv, NEW p \in Restorers, Quiet(p), TypeOK'
    PROVE  IInv' /\ Keeps
<1>1. UnusedEmpty'
  BY DEF IInv, Quiet, UnusedEmpty, Unused, Empty
<1>2. DestUsed'
  <2>1. dest' # 0 => dest' = dest /\ dest \in Trees
    BY DestTyped DEF IInv, Quiet
  <2> QED
    BY <2>1 DEF IInv, Quiet, DestUsed, Unused
<1>3. WritesOwn'
  <2> SUFFICES ASSUME NEW q \in Restorers, call'[q].pc = "fill", call'[q].writing # Absent
               PROVE  WritesOwn!(q)'
    BY DEF WritesOwn
  <2>1. q # p /\ call'[q] = call[q]
    BY DEF Quiet
  <2>2. call[q].record.tree \in Trees
    BY <2>1, CallTypes, RecordFields DEF IInv
  <2> QED
    BY <2>1, <2>2 DEF IInv, Quiet, WritesOwn
<1>4. CopiesFile'
  BY DEF IInv, Quiet, CopiesFile
<1>5. Keeps
  BY DEF IInv, Quiet, Keeps
<1> QED
  BY <1>1, <1>2, <1>3, <1>4, <1>5 DEF IInv

\* A quiet step of p: its next state has a type, and so have the path and the records.
LEMMA QuietStep ==
    ASSUME IInv, NEW p \in Restorers, NEW x \in Calls,
           call' = [call EXCEPT ![p] = x],
           x.pc # "copy", x.pc = "fill" => x.writing = Absent,
           UNCHANGED <<latest, kept, db, dest, trees>>
    PROVE  IInv' /\ Keeps
<1>1. call \in [Restorers -> Calls]
  BY DEF IInv, TypeOK
<1>2. TypeOK'
  BY <1>1 DEF IInv, TypeOK
<1>3. Quiet(p)
  BY <1>1 DEF Quiet
<1> QED
  BY <1>2, <1>3, QuietKeeps

\* The same, where the path or a record changes.
LEMMA QuietMove ==
    ASSUME IInv, NEW p \in Restorers, NEW x \in Calls,
           call' = [call EXCEPT ![p] = x],
           x.pc # "copy", x.pc = "fill" => x.writing = Absent,
           dest' \in {dest, 0}, UNCHANGED <<latest, kept, db, trees>>
    PROVE  IInv' /\ Keeps
<1>1. call \in [Restorers -> Calls] /\ dest \in 0 .. MaxTrees
  BY DEF IInv, TypeOK
<1>2. TypeOK'
  BY <1>1, BoundAssumption DEF IInv, TypeOK
<1>3. Quiet(p)
  BY <1>1 DEF Quiet
<1> QED
  BY <1>2, <1>3, QuietKeeps

LEMMA QuietMark ==
    ASSUME IInv, NEW p \in Restorers, NEW x \in Calls,
           call' = [call EXCEPT ![p] = x],
           x.pc # "copy", x.pc = "fill" => x.writing = Absent,
           NEW i \in Trees, NEW r \in {Absent} \cup Records,
           trees' = [trees EXCEPT ![i].record = r],
           UNCHANGED <<latest, kept, db, dest>>
    PROVE  IInv' /\ Keeps
<1>1. call \in [Restorers -> Calls] /\ trees \in [Trees -> Directories]
  BY DEF IInv, TypeOK, Directories
<1>2. /\ trees' \in [Trees -> Directories]
      /\ \A j \in Trees : /\ trees'[j].files = trees[j].files
                           /\ trees'[j].alien = trees[j].alien
                           /\ trees'[j].maker = trees[j].maker
  BY <1>1 DEF Directories
<1>3. TypeOK'
  BY <1>1, <1>2 DEF IInv, TypeOK, Directories
<1>4. Quiet(p)
  BY <1>1, <1>2 DEF Quiet
<1> QED
  BY <1>3, <1>4, QuietKeeps

-----------------------------------------------------------------------------
(* The quiet steps.                                                        *)

LEMMA StartsQuietly ==
    ASSUME IInv, NEW p \in Restorers, Restore(p) \/ Resume(p) \/ Abandon(p) \/ Crash(p)
    PROVE  IInv' /\ Keeps
<1>1. CASE Restore(p)
  <2>1. PICK v \in Variants : call' = [call EXCEPT ![p] = [pc |-> "claim", of |-> latest, variant |-> v]]
    BY <1>1 DEF Restore
  <2>2. [pc |-> "claim", of |-> latest, variant |-> v] \in Calls
    BY DEF IInv, TypeOK, Calls
  <2> QED
    BY <1>1, <2>1, <2>2, QuietStep DEF Restore
<1>2. Incomplete => trees[dest].record \in Records
  BY DestTyped DEF IInv, Incomplete, Directories
<1>3. CASE Resume(p)
  <2>1. CASE call' = [call EXCEPT ![p] = [pc |-> "unmark"]]
    BY <1>3, <2>1, Simple, QuietStep DEF Resume
  <2>2. CASE \E v \in Variants : call' = [call EXCEPT ![p] = Filling(trees[dest].record, v, FALSE)]
    <3>1. PICK v \in Variants : call' = [call EXCEPT ![p] = Filling(trees[dest].record, v, FALSE)]
      BY <2>2
    <3>2. /\ Filling(trees[dest].record, v, FALSE) \in Calls
          /\ Filling(trees[dest].record, v, FALSE).pc = "fill"
          /\ Filling(trees[dest].record, v, FALSE).writing = Absent
      BY <1>2, <1>3, FillingTyped DEF Resume
    <3> QED
      BY <1>3, <3>1, <3>2, QuietStep DEF Resume
  <2> QED
    BY <1>3, <2>1, <2>2 DEF Resume
<1>4. CASE Abandon(p)
  <2>1. [pc |-> "abandon", record |-> trees[dest].record] \in Calls
    BY <1>2, <1>4 DEF Abandon, Calls
  <2> QED
    BY <1>4, <2>1, QuietStep DEF Abandon
<1>5. CASE Crash(p)
  BY <1>5, Simple, QuietStep DEF Crash
<1> QED
  BY <1>1, <1>3, <1>4, <1>5

LEMMA ChecksQuietly ==
    ASSUME IInv, NEW p \in Restorers,
           Compare(p) \/ FillEnds(p) \/ FillFails(p) \/ Release(p)
              \/ CheckIntent(p) \/ CheckOwner(p) \/ CheckAbandon(p)
    PROVE  IInv' /\ Keeps
<1> USE CallTypes, Simple
<1>1. CASE Compare(p)
  <2>1. PICK f \in call[p].todo : call' = [call EXCEPT ![p].todo = @ \ {f}]
    BY <1>1 DEF Compare
  <2> DEFINE x == [call[p] EXCEPT !.todo = @ \ {f}]
  <2>2. x \in Calls /\ x.pc = "fill" /\ x.writing = Absent
    <3>1. call[p].pc = "fill" /\ call[p].writing = Absent
      BY <1>1 DEF Compare
    <3>2. call[p] \in [pc : {"fill", "release"}, record : Records, variant : Variants,
                       fresh : BOOLEAN, todo : SUBSET Files, created : SUBSET Files,
                       writing : Files \cup {Absent}]
      BY <3>1 DEF IInv
    <3>3. x \in [pc : {"fill", "release"}, record : Records, variant : Variants,
                fresh : BOOLEAN, todo : SUBSET Files, created : SUBSET Files,
                writing : Files \cup {Absent}]
      BY <3>2
    <3> QED
      BY <3>1, <3>2, <3>3 DEF Calls
  <2>3. call' = [call EXCEPT ![p] = x]
    BY <2>1
  <2> HIDE DEF x
  <2> QED
    BY <1>1, <2>2, <2>3, QuietStep DEF Compare
<1>2. CASE FillEnds(p)
  <2>1. [pc |-> "intent", record |-> call[p].record, variant |-> call[p].variant] \in Calls
    BY <1>2 DEF FillEnds, IInv, Calls
  <2> QED
    BY <1>2, <2>1, QuietStep DEF FillEnds
<1>3. CASE FillFails(p)
  <2> DEFINE x == [call[p] EXCEPT !.pc = "release"]
  <2>1. x \in Calls /\ x.pc = "release"
    BY <1>3 DEF FillFails, IInv, Calls
  <2>2. call' = [call EXCEPT ![p] = x]
    BY <1>3 DEF FillFails
  <2> HIDE DEF x
  <2> QED
    BY <1>3, <2>1, <2>2, QuietStep DEF FillFails
<1>4. CASE Release(p)
  <2> DEFINE x == IF Owned(call[p].record)
                  THEN [pc |-> "remove", record |-> call[p].record, created |-> call[p].created,
                        fresh |-> call[p].fresh]
                  ELSE Idle
  <2>1. x \in Calls /\ x.pc \in {"remove", "idle"}
    BY <1>4 DEF Release, IInv, Calls
  <2>2. call' = [call EXCEPT ![p] = x]
    BY <1>4 DEF Release
  <2> HIDE DEF x
  <2> QED
    BY <1>4, <2>1, <2>2, QuietStep DEF Release
<1>5. CASE CheckIntent(p)
  <2> DEFINE x == IF Owned(call[p].record) THEN [call[p] EXCEPT !.pc = "record"] ELSE Idle
  <2>1. x \in Calls /\ x.pc \in {"record", "idle"}
    BY <1>5 DEF CheckIntent, IInv, Calls
  <2>2. call' = [call EXCEPT ![p] = x]
    BY <1>5 DEF CheckIntent
  <2> HIDE DEF x
  <2> QED
    BY <1>5, <2>1, <2>2, QuietStep DEF CheckIntent
<1>6. CASE CheckOwner(p)
  <2> DEFINE x == IF Owned(call[p].record) THEN [pc |-> "unmark"] ELSE Idle
  <2>1. x \in Calls /\ x.pc \in {"unmark", "idle"}
    OBVIOUS
  <2>2. call' = [call EXCEPT ![p] = x]
    BY <1>6 DEF CheckOwner
  <2> HIDE DEF x
  <2> QED
    BY <1>6, <2>1, <2>2, QuietStep DEF CheckOwner
<1>7. CASE CheckAbandon(p)
  <2> DEFINE x == IF Owned(call[p].record) THEN [pc |-> "move"] ELSE Idle
  <2>1. x \in Calls /\ x.pc \in {"move", "idle"}
    OBVIOUS
  <2>2. call' = [call EXCEPT ![p] = x]
    BY <1>7 DEF CheckAbandon
  <2> HIDE DEF x
  <2> QED
    BY <1>7, <2>1, <2>2, QuietStep DEF CheckAbandon
<1> QED
  BY <1>1, <1>2, <1>3, <1>4, <1>5, <1>6, <1>7

LEMMA LeavesQuietly ==
    ASSUME IInv, NEW p \in Restorers, MarkFails(p) \/ RemoveTree(p) \/ MoveAside(p)
    PROVE  IInv' /\ Keeps
BY Simple, QuietMove DEF MarkFails, RemoveTree, MoveAside

LEMMA MarksQuietly ==
    ASSUME IInv, NEW p \in Restorers,
           MarkOwner(p) \/ RemoveOwner(p) \/ RecordIntent(p) \/ Unmark(p)
    PROVE  IInv' /\ Keeps
<1> USE CallTypes, Simple
<1>0. dest # 0 => dest \in Trees
  BY DestTyped DEF IInv
<1>1. CASE MarkOwner(p)
  <2>1. /\ call[p].record \in Records
        /\ Filling(call[p].record, call[p].variant, TRUE) \in Calls
        /\ Filling(call[p].record, call[p].variant, TRUE).writing = Absent
        /\ Filling(call[p].record, call[p].variant, TRUE).pc = "fill"
    BY <1>1, FillingTyped DEF MarkOwner, IInv
  <2>2. CASE dest # 0 /\ trees[dest].record = Absent
    BY <1>0, <1>1, <2>1, <2>2, QuietMark DEF MarkOwner
  <2>3. CASE ~ (dest # 0 /\ trees[dest].record = Absent)
    BY <1>1, <2>3, QuietStep DEF MarkOwner
  <2> QED
    BY <2>2, <2>3
<1>2. CASE RemoveOwner(p)
  <2>1. /\ call[p].record.tree \in Trees
        /\ [pc |-> "rmdir", record |-> call[p].record] \in Calls
    BY <1>2, RecordFields DEF RemoveOwner, IInv, Calls
  <2>2. CASE call' = [call EXCEPT ![p] = Idle]
    BY <1>2, <2>1, <2>2, QuietStep, QuietMark DEF RemoveOwner
  <2>3. CASE call' = [call EXCEPT ![p] = [pc |-> "rmdir", record |-> call[p].record]]
    BY <1>2, <2>1, <2>3, QuietStep, QuietMark DEF RemoveOwner
  <2> QED
    BY <1>2, <2>2, <2>3 DEF RemoveOwner
<1>3. CASE RecordIntent(p)
  <2> DEFINE r == [call[p].record EXCEPT !.intent = <<call[p].record.of, call[p].variant>>]
             x == [call[p] EXCEPT !.pc = "publish", !.record = r]
  <2>1. r \in Records
    BY <1>3 DEF RecordIntent, IInv, Records, Intents
  <2>2. x \in Calls /\ x.pc = "publish"
    BY <1>3, <2>1 DEF RecordIntent, IInv, Calls
  <2>3. CASE dest = 0
    BY <1>3, <2>3, QuietStep DEF RecordIntent
  <2>4. CASE dest # 0
    <3>1. trees' = [trees EXCEPT ![dest].record = r] /\ call' = [call EXCEPT ![p] = x]
      BY <1>3, <2>4 DEF RecordIntent
    <3> HIDE DEF x, r
    <3> QED
      BY <1>0, <1>3, <2>1, <2>2, <2>4, <3>1, QuietMark DEF RecordIntent
  <2> QED
    BY <2>3, <2>4
<1>4. CASE Unmark(p)
  <2>1. CASE dest # 0
    BY <1>0, <1>4, <2>1, QuietMark DEF Unmark
  <2>2. CASE dest = 0
    BY <1>4, <2>2, QuietStep DEF Unmark
  <2> QED
    BY <2>1, <2>2
<1> QED
  BY <1>1, <1>2, <1>3, <1>4

-----------------------------------------------------------------------------
(* The steps that create, write and remove files.                          *)

\* A file being written stands in a directory that was created.
LEMMA WritingUsed ==
    ASSUME IInv, NEW q \in Restorers, call[q].pc = "fill", call[q].writing # Absent
    PROVE  /\ call[q].record.tree \in Trees /\ call[q].writing \in Files
           /\ trees[call[q].record.tree].files[call[q].writing] # Absent
           /\ ~ Unused(call[q].record.tree)
<1>1. call[q].record.tree \in Trees /\ call[q].writing \in Files
  BY CallTypes, RecordFields DEF IInv
<1>2. trees[call[q].record.tree].files[call[q].writing] # Absent
  BY AbsentAssumption DEF IInv, WritesOwn, FileEntries
<1> QED
  BY <1>1, <1>2 DEF IInv, UnusedEmpty, Empty

\* One entry of one directory changes.
LEMMA FileStep ==
    ASSUME IInv, NEW i \in Trees, NEW f \in Files, NEW e \in Entries,
           trees' = [trees EXCEPT ![i].files[f] = e],
           UNCHANGED <<latest, kept, db, dest>>, call' \in [Restorers -> Calls],
           ~ Unused(i),
           trees[i].files[f] \in {Absent, e} \/ \E p \in Restorers : CreatedBy(p, i, f)
    PROVE  TypeOK' /\ UnusedEmpty' /\ DestUsed' /\ Keeps
<1>1. trees \in [Trees -> Directories]
  BY DEF IInv, TypeOK, Directories
<1>2. /\ trees' \in [Trees -> Directories]
      /\ \A j \in Trees : trees'[j].alien = trees[j].alien /\ trees'[j].maker = trees[j].maker
      /\ \A j \in Trees : \A g \in Files :
            trees'[j].files[g] = IF j = i /\ g = f THEN e ELSE trees[j].files[g]
  BY <1>1 DEF Directories
<1>3. TypeOK'
  BY <1>2 DEF IInv, TypeOK, Directories
<1>4. UnusedEmpty'
  BY <1>2 DEF IInv, UnusedEmpty, Unused, Empty
<1>5. DestUsed'
  BY <1>2, DestTyped DEF IInv, DestUsed, Unused
<1>6. Keeps
  BY <1>2 DEF Keeps
<1> QED
  BY <1>3, <1>4, <1>5, <1>6

LEMMA NewDirectory ==
    ASSUME IInv, NEW i \in Trees, Unused(i), NEW m \in Restorers \cup {"foreign"},
           trees' = [trees EXCEPT ![i] = NewTree(m)], dest' = i,
           UNCHANGED <<latest, kept, db>>, call' \in [Restorers -> Calls],
           \A q \in Restorers : call'[q] = call[q] \/ call'[q].pc \notin {"copy", "fill"}
    PROVE  IInv' /\ Keeps
<1>1. trees \in [Trees -> Directories]
  BY DEF IInv, TypeOK, Directories
<1>2. trees' \in [Trees -> Directories]
  BY <1>1, NewTreeTyped
<1>3. TypeOK'
  BY <1>2, BoundAssumption DEF IInv, TypeOK, Directories, Trees
<1>4. UnusedEmpty'
  BY <1>1, NewTreeTyped DEF IInv, UnusedEmpty, Unused, Empty
<1>5. DestUsed'
  BY <1>1, NewTreeTyped DEF DestUsed, Unused
<1>6. WritesOwn'
  <2> SUFFICES ASSUME NEW q \in Restorers, call'[q].pc = "fill", call'[q].writing # Absent
               PROVE  WritesOwn!(q)'
    BY DEF WritesOwn
  <2>1. call'[q] = call[q] /\ call[q].record.tree \in Trees \ {i}
    BY WritingUsed
  <2> QED
    BY <1>1, <2>1 DEF IInv, WritesOwn
<1>7. CopiesFile'
  BY DEF IInv, CopiesFile
<1>8. Keeps
  BY <1>1 DEF IInv, UnusedEmpty, Empty, Keeps
<1> QED
  BY <1>3, <1>4, <1>5, <1>6, <1>7, <1>8 DEF IInv

LEMMA ClaimKeeps ==
    ASSUME IInv, NEW p \in Restorers, Claim(p)
    PROVE  IInv' /\ Keeps
<1>1. CASE dest # 0
  BY <1>1, Simple, QuietStep DEF Claim
<1>2. CASE dest = 0
  <2> DEFINE x(i) == [pc |-> "mark", variant |-> call[p].variant,
                      record |-> [tree |-> i, of |-> call[p].of, intent |-> Absent]]
  <2>1. PICK i \in Trees : /\ Unused(i) /\ dest' = i
                           /\ trees' = [trees EXCEPT ![i] = NewTree(p)]
                           /\ call' = [call EXCEPT ![p] = x(i)]
                           /\ UNCHANGED <<latest, kept, db>>
    BY <1>2 DEF Claim
  <2>2. x(i) \in Calls /\ x(i).pc = "mark"
    BY CallTypes DEF Claim, IInv, Calls, Records, Intents
  <2> HIDE DEF x
  <2>3. call' \in [Restorers -> Calls] /\ \A q \in Restorers \ {p} : call'[q] = call[q]
    BY <2>1, <2>2 DEF IInv, TypeOK
  <2>4. call'[p].pc = "mark"
    BY <2>1, <2>2 DEF IInv, TypeOK
  <2> QED
    BY <2>1, <2>3, <2>4, NewDirectory
<1> QED
  BY <1>1, <1>2

LEMMA CreateKeeps ==
    ASSUME IInv, NEW p \in Restorers, Create(p)
    PROVE  IInv' /\ Keeps
<1> DEFINE i == call[p].record.tree
           e == [of |-> call[p].record.of, by |-> p, full |-> FALSE]
           x(f) == [call[p] EXCEPT !.created = @ \cup {f}, !.writing = f]
<1>1. PICK f \in call[p].todo :
          /\ trees[i].files[f] = Absent
          /\ trees' = [trees EXCEPT ![i].files[f] = e]
          /\ call' = [call EXCEPT ![p] = x(f)]
          /\ call[p].pc = "fill" /\ dest = i
          /\ UNCHANGED <<latest, kept, db, dest>>
  BY DEF Create
<1>2. call[p] \in [pc : {"fill", "release"}, record : Records, variant : Variants,
                   fresh : BOOLEAN, todo : SUBSET Files, created : SUBSET Files,
                   writing : Files \cup {Absent}]
  BY <1>1, CallTypes DEF IInv
<1>3. f \in Files /\ i \in Trees /\ e \in FileEntries /\ e \in Entries /\ e.by = p
  BY <1>2, RecordFields DEF FileEntries, Entries
<1>4. /\ x(f) \in Calls /\ x(f).pc = "fill" /\ x(f).writing = f
      /\ f \in x(f).created /\ x(f).record = call[p].record
  <2>1. x(f) \in [pc : {"fill", "release"}, record : Records, variant : Variants,
                  fresh : BOOLEAN, todo : SUBSET Files, created : SUBSET Files,
                  writing : Files \cup {Absent}]
    BY <1>2, <1>3
  <2> QED
    BY <1>1, <1>2, <2>1 DEF Calls
<1>5. ~ Unused(i)
  BY <1>1, <1>3, BoundAssumption DEF IInv, DestUsed, Trees
<1> HIDE DEF x
<1>6. /\ call' \in [Restorers -> Calls] /\ call'[p] = x(f)
      /\ \A q \in Restorers \ {p} : call'[q] = call[q]
  BY <1>1, <1>4 DEF IInv, TypeOK
<1>7. TypeOK' /\ UnusedEmpty' /\ DestUsed' /\ Keeps
  BY <1>1, <1>3, <1>5, <1>6, FileStep
<1>8. /\ trees'[i].files[f] = e
      /\ \A j \in Trees : \A g \in Files :
            j # i \/ g # f => trees'[j].files[g] = trees[j].files[g]
  BY <1>1, <1>3 DEF IInv, TypeOK
<1>9. WritesOwn'
  <2> SUFFICES ASSUME NEW q \in Restorers, call'[q].pc = "fill", call'[q].writing # Absent
               PROVE  WritesOwn!(q)'
    BY DEF WritesOwn
  <2>1. CASE q = p
    BY <1>3, <1>4, <1>6, <1>8, <2>1
  <2>2. CASE q # p
    <3>1. call'[q] = call[q]
      BY <1>6, <2>2
    <3>2. call[q].record.tree # i \/ call[q].writing # f
      BY <1>1, <3>1, WritingUsed
    <3>3. call[q].record.tree \in Trees /\ call[q].writing \in Files
      BY <3>1, WritingUsed
    <3> QED
      BY <1>8, <3>1, <3>2, <3>3 DEF IInv, WritesOwn
  <2> QED
    BY <2>1, <2>2
<1>10. CopiesFile'
  BY <1>1, <1>4, <1>6 DEF IInv, CopiesFile
<1> QED
  BY <1>7, <1>9, <1>10 DEF IInv

LEMMA FillKeeps ==
    ASSUME IInv, NEW p \in Restorers, Fill(p)
    PROVE  IInv' /\ Keeps
<1> DEFINE i == call[p].record.tree
           f == call[p].writing
           e == [trees[i].files[f] EXCEPT !.full = TRUE]
           x == [call[p] EXCEPT !.todo = @ \ {f}, !.writing = Absent]
<1>1. /\ call[p].pc = "fill" /\ f # Absent
      /\ trees' = [trees EXCEPT ![i].files[f].full = TRUE]
      /\ call' = [call EXCEPT ![p] = x]
      /\ UNCHANGED <<latest, kept, db, dest>>
  BY DEF Fill
<1>2. i \in Trees /\ f \in Files /\ ~ Unused(i)
  BY <1>1, WritingUsed
<1>3. /\ trees[i].files[f] \in FileEntries /\ trees[i].files[f].by = p
      /\ CreatedBy(p, i, f)
  BY <1>1 DEF IInv, WritesOwn, CreatedBy
<1>4. e \in FileEntries /\ e \in Entries /\ e.by = p
  BY <1>3 DEF FileEntries, Entries
<1>5. trees' = [trees EXCEPT ![i].files[f] = e]
  BY <1>1
<1>6. x \in Calls /\ x.pc = "fill" /\ x.writing = Absent
  <2>1. call[p] \in [pc : {"fill", "release"}, record : Records, variant : Variants,
                     fresh : BOOLEAN, todo : SUBSET Files, created : SUBSET Files,
                     writing : Files \cup {Absent}]
    BY <1>1, CallTypes DEF IInv
  <2>2. x \in [pc : {"fill", "release"}, record : Records, variant : Variants,
               fresh : BOOLEAN, todo : SUBSET Files, created : SUBSET Files,
               writing : Files \cup {Absent}]
    BY <2>1
  <2> QED
    BY <1>1, <2>1, <2>2 DEF Calls
<1> HIDE DEF x, e
<1>7. /\ call' \in [Restorers -> Calls] /\ call'[p] = x
      /\ \A q \in Restorers \ {p} : call'[q] = call[q]
  BY <1>1, <1>6 DEF IInv, TypeOK
<1>8. TypeOK' /\ UnusedEmpty' /\ DestUsed' /\ Keeps
  <2>1. trees[i].files[f] \in {Absent, e} \/ \E q \in Restorers : CreatedBy(q, i, f)
    BY <1>3
  <2> HIDE DEF i, f
  <2> QED
    BY <1>1, <1>2, <1>4, <1>5, <1>7, <2>1, FileStep
<1>9. \A j \in Trees : \A g \in Files :
         trees'[j].files[g] = trees[j].files[g] \/ (j = i /\ g = f)
  BY <1>2, <1>5 DEF IInv, TypeOK
<1>10. WritesOwn'
  <2> SUFFICES ASSUME NEW q \in Restorers, call'[q].pc = "fill", call'[q].writing # Absent
               PROVE  WritesOwn!(q)'
    BY DEF WritesOwn
  <2>1. q # p /\ call'[q] = call[q]
    BY <1>6, <1>7
  <2>2. /\ call[q].record.tree \in Trees /\ call[q].writing \in Files
        /\ trees[call[q].record.tree].files[call[q].writing].by = q
    BY <2>1, WritingUsed DEF IInv, WritesOwn
  <2>3. trees'[call[q].record.tree].files[call[q].writing]
           = trees[call[q].record.tree].files[call[q].writing]
    BY <1>3, <1>9, <2>1, <2>2
  <2> QED
    BY <2>1, <2>3 DEF IInv, WritesOwn
<1>11. CopiesFile'
  BY <1>1, <1>6, <1>7 DEF IInv, CopiesFile
<1> QED
  BY <1>8, <1>10, <1>11 DEF IInv

LEMMA RemoveKeeps ==
    ASSUME IInv, NEW p \in Restorers, Remove(p)
    PROVE  IInv' /\ Keeps
<1> DEFINE i == call[p].record.tree
           e(f) == IF trees[i].files[f] # Absent /\ trees[i].files[f].by = p
                   THEN Absent ELSE trees[i].files[f]
           x(f) == [call[p] EXCEPT !.created = @ \ {f}]
<1>1. PICK f \in call[p].created :
          /\ call[p].pc = "remove"
          /\ trees' = [trees EXCEPT ![i].files[f] = e(f)]
          /\ call' = [call EXCEPT ![p] = x(f)]
          /\ UNCHANGED <<latest, kept, db, dest>>
  BY DEF Remove
<1>2. call[p] \in [pc : {"remove"}, record : Records, created : SUBSET Files, fresh : BOOLEAN]
  BY <1>1, CallTypes DEF IInv
<1>3. f \in Files /\ i \in Trees
  BY <1>2, RecordFields
<1>4. e(f) \in Entries
  BY <1>3 DEF IInv, TypeOK, Entries
<1>5. x(f) \in Calls /\ x(f).pc = "remove"
  BY <1>2 DEF Calls
<1>6. trees[i].files[f] = e(f) \/ (CreatedBy(p, i, f) /\ trees[i].files[f] # Absent)
  BY <1>1 DEF CreatedBy
<1>7. /\ call' \in [Restorers -> Calls] /\ call'[p] = x(f)
      /\ \A q \in Restorers \ {p} : call'[q] = call[q]
  <2> HIDE DEF x, e
  <2> QED
    BY <1>1, <1>5 DEF IInv, TypeOK
<1>8. \A j \in Trees : \A g \in Files :
         \/ trees'[j].files[g] = trees[j].files[g]
         \/ j = i /\ g = f /\ trees[i].files[f].by = p
  BY <1>1, <1>3 DEF IInv, TypeOK
<1>9. TypeOK' /\ UnusedEmpty' /\ DestUsed' /\ Keeps
  <2>1. CASE Unused(i)
    <3>1. trees[i].files[f] = Absent
      BY <1>3, <2>1 DEF IInv, UnusedEmpty, Empty
    <3>2. trees' = trees
      BY <1>1, <1>3, <3>1 DEF IInv, TypeOK
    <3> HIDE DEF x, e
    <3> QED
      BY <1>1, <1>5, <3>2, QuietStep DEF IInv
  <2>2. CASE ~ Unused(i)
    <3>1. trees[i].files[f] \in {Absent, e(f)} \/ \E q \in Restorers : CreatedBy(q, i, f)
      BY <1>6
    <3> HIDE DEF i, x, e
    <3> QED
      BY <1>1, <1>3, <1>4, <1>7, <2>2, <3>1, FileStep
  <2> QED
    BY <2>1, <2>2
<1>10. WritesOwn'
  <2> SUFFICES ASSUME NEW q \in Restorers, call'[q].pc = "fill", call'[q].writing # Absent
               PROVE  WritesOwn!(q)'
    BY DEF WritesOwn
  <2>1. q # p /\ call'[q] = call[q]
    BY <1>5, <1>7
  <2>2. /\ call[q].record.tree \in Trees /\ call[q].writing \in Files
        /\ trees[call[q].record.tree].files[call[q].writing].by = q
    BY <2>1, WritingUsed DEF IInv, WritesOwn
  <2>3. trees'[call[q].record.tree].files[call[q].writing]
           = trees[call[q].record.tree].files[call[q].writing]
    BY <1>8, <2>1, <2>2
  <2> QED
    BY <2>1, <2>3 DEF IInv, WritesOwn
<1>11. CopiesFile'
  BY <1>1, <1>5, <1>7 DEF IInv, CopiesFile
<1> QED
  BY <1>9, <1>10, <1>11 DEF IInv

-----------------------------------------------------------------------------
(* The steps that publish the database, and the rest of the world.         *)

\* The database changes and at most one call moves, to no file.
LEMMA DatabaseStep ==
    ASSUME IInv, db' \in DatabaseFiles, db = Absent \/ (db \in DatabaseFiles /\ (db.full => db' = db)),
           call' \in [Restorers -> Calls],
           \A q \in Restorers : \/ call'[q] = call[q]
                                \/ call'[q].pc # "fill" ,
           UNCHANGED <<latest, kept, dest, trees>>
    PROVE  IInv' /\ Keeps
<1>1. TypeOK'
  BY DEF IInv, TypeOK, Databases, DatabaseFiles
<1>2. UnusedEmpty' /\ DestUsed'
  BY DEF IInv, UnusedEmpty, DestUsed, Unused, Empty
<1>3. WritesOwn'
  BY DEF IInv, WritesOwn
<1>4. CopiesFile'
  BY DEF CopiesFile
<1>5. Keeps
  BY DEF Keeps
<1> QED
  BY <1>1, <1>2, <1>3, <1>4, <1>5 DEF IInv

LEMMA PublishKeeps ==
    ASSUME IInv, NEW p \in Restorers, Publish(p)
    PROVE  IInv' /\ Keeps
<1>1. CASE db # Absent
  BY <1>1, Simple, QuietStep DEF Publish
<1>2. CASE db = Absent
  <2> DEFINE x == [call[p] EXCEPT !.pc = IF Linked THEN "check" ELSE "copy"]
             d == [of |-> call[p].record.of, variant |-> call[p].variant, full |-> Linked]
  <2>1. /\ call[p].pc = "publish" /\ call' = [call EXCEPT ![p] = x]
        /\ db' = d /\ UNCHANGED <<latest, kept, dest, trees>>
    BY <1>2 DEF Publish
  <2>2. call[p] \in [pc : {"mark", "intent", "record", "publish", "copy", "check"},
                     variant : Variants, record : Records]
    BY <2>1, CallTypes DEF IInv
  <2>3. x \in Calls /\ x.pc # "fill"
    BY <2>2 DEF Calls
  <2>4. d \in DatabaseFiles
    BY <2>2, RecordFields, SwitchesAssumption DEF DatabaseFiles
  <2> HIDE DEF x, d
  <2>5. /\ call' \in [Restorers -> Calls]
        /\ \A q \in Restorers : call'[q] = call[q] \/ call'[q].pc # "fill"
    BY <2>1, <2>3 DEF IInv, TypeOK
  <2> QED
    BY <1>2, <2>1, <2>4, <2>5, DatabaseStep
<1> QED
  BY <1>1, <1>2

LEMMA CopyKeeps ==
    ASSUME IInv, NEW p \in Restorers, Copy(p)
    PROVE  IInv' /\ Keeps
<1> DEFINE x == [call[p] EXCEPT !.pc = "check"]
<1>1. /\ call[p].pc = "copy" /\ call' = [call EXCEPT ![p] = x]
      /\ db' = [db EXCEPT !.full = TRUE] /\ UNCHANGED <<latest, kept, dest, trees>>
  BY DEF Copy
<1>2. db \in DatabaseFiles
  BY <1>1 DEF IInv, CopiesFile
<1>3. db' \in DatabaseFiles /\ (db.full => db' = db)
  BY <1>1, <1>2 DEF DatabaseFiles
<1>4. x \in Calls /\ x.pc = "check"
  <2>1. call[p] \in [pc : {"mark", "intent", "record", "publish", "copy", "check"},
                     variant : Variants, record : Records]
    BY <1>1, CallTypes DEF IInv
  <2> QED
    BY <2>1 DEF Calls
<1> HIDE DEF x
<1>5. /\ call' \in [Restorers -> Calls]
      /\ \A q \in Restorers : call'[q] = call[q] \/ call'[q].pc # "fill"
  BY <1>1, <1>4 DEF IInv, TypeOK
<1> QED
  BY <1>1, <1>2, <1>3, <1>5, DatabaseStep

LEMMA WorldKeeps ==
    ASSUME IInv, Lineage \/ ForeignDatabase \/ ForeignTree \/ ForeignEntry
    PROVE  IInv' /\ Keeps
<1>0. call \in [Restorers -> Calls]
  BY DEF IInv, TypeOK
<1>1. CASE Lineage
  <2>1. TypeOK' /\ UNCHANGED <<db, dest, trees, call>>
    BY <1>1 DEF Lineage, IInv, TypeOK
  <2> QED
    BY <2>1 DEF IInv, UnusedEmpty, DestUsed, Unused, Empty, WritesOwn, CopiesFile, Keeps
<1>2. CASE ForeignDatabase
  <2>1. db' \in DatabaseFiles
    BY <1>2 DEF ForeignDatabase, DatabaseFiles
  <2> QED
    BY <1>0, <1>2, <2>1, DatabaseStep DEF ForeignDatabase
<1>3. CASE ForeignTree
  BY <1>0, <1>3, NewDirectory DEF ForeignTree
<1>4. CASE ForeignEntry
  <2>0. dest \in Trees /\ trees[dest] \in Directories /\ ~ Unused(dest)
    BY <1>4, DestTyped DEF ForeignEntry, IInv, DestUsed
  <2>1. CASE trees' = [trees EXCEPT ![dest].alien = TRUE]
    <3>1. trees \in [Trees -> Directories]
      BY DEF IInv, TypeOK, Directories
    <3>2. /\ trees' \in [Trees -> Directories]
          /\ \A j \in Trees : trees'[j].files = trees[j].files /\ trees'[j].maker = trees[j].maker
      BY <2>0, <2>1, <3>1 DEF Directories
    <3>3. /\ \A j \in Trees \ {dest} : trees'[j] = trees[j]
          /\ trees'[dest].alien
      BY <2>0, <2>1, <3>1 DEF Directories
    <3>4. latest' = latest /\ kept' = kept /\ db' = db /\ dest' = dest /\ call' = call
      BY <1>4 DEF ForeignEntry
    <3>5. TypeOK'
      BY <3>2, <3>4 DEF IInv, TypeOK, Directories
    <3>6. UnusedEmpty'
      BY <2>0, <3>2, <3>3 DEF IInv, UnusedEmpty, Unused, Empty
    <3>7. DestUsed'
      BY <2>0, <3>2, <3>4 DEF DestUsed, Unused
    <3>8. WritesOwn'
      BY <3>2, <3>4, WritingUsed DEF IInv, WritesOwn
    <3>9. CopiesFile'
      BY <3>4 DEF IInv, CopiesFile
    <3>10. Keeps
      BY <3>2, <3>3, <3>4 DEF Keeps
    <3> QED
      BY <3>5, <3>6, <3>7, <3>8, <3>9, <3>10 DEF IInv
  <2>2. CASE \E f \in Files :
                /\ trees[dest].files[f] = Absent
                /\ trees' = [trees EXCEPT ![dest].files[f] =
                       [of |-> "foreign", by |-> "foreign", full |-> TRUE]]
    <3> DEFINE e == [of |-> "foreign", by |-> "foreign", full |-> TRUE]
    <3>1. PICK f \in Files : /\ trees[dest].files[f] = Absent
                             /\ trees' = [trees EXCEPT ![dest].files[f] = e]
      BY <2>2
    <3>2. e \in Entries
      BY DEF Entries
    <3> HIDE DEF e
    <3>3. UNCHANGED <<latest, kept, db, dest, call>>
      BY <1>4 DEF ForeignEntry
    <3>4. TypeOK' /\ UnusedEmpty' /\ DestUsed' /\ Keeps
      BY <1>0, <2>0, <3>1, <3>2, <3>3, FileStep
    <3>5. \A j \in Trees : \A g \in Files :
             trees'[j].files[g] = trees[j].files[g] \/ trees[j].files[g] = Absent
      BY <2>0, <3>1 DEF IInv, TypeOK
    <3>6. WritesOwn'
      BY <3>3, <3>5, WritingUsed DEF IInv, WritesOwn
    <3>7. CopiesFile'
      BY <3>3 DEF IInv, CopiesFile
    <3> QED
      BY <3>4, <3>6, <3>7 DEF IInv
  <2> QED
    BY <1>4, <2>1, <2>2 DEF ForeignEntry
<1> QED
  BY <1>1, <1>2, <1>3, <1>4

-----------------------------------------------------------------------------
(* The theorems.                                                           *)

LEMMA InitIInv == Init => IInv
<1> SUFFICES ASSUME Init PROVE IInv
  OBVIOUS
<1>1. TypeOK
  BY BoundAssumption, Simple DEF Init, TypeOK, NoTree, Entries, Databases, Trees
<1>2. UnusedEmpty /\ DestUsed
  BY DEF Init, UnusedEmpty, DestUsed, Unused, Empty, NoTree
<1>3. WritesOwn /\ CopiesFile
  BY DEF Init, WritesOwn, CopiesFile, Idle
<1> QED
  BY <1>1, <1>2, <1>3 DEF IInv

LEMMA StepIInv == IInv /\ [Next]_vars => IInv' /\ [Keeps]_vars
<1> SUFFICES ASSUME IInv, [Next]_vars PROVE IInv' /\ [Keeps]_vars
  OBVIOUS
<1>1. CASE UNCHANGED vars
  BY <1>1 DEF vars, IInv, TypeOK, UnusedEmpty, DestUsed, Unused, Empty, WritesOwn, CopiesFile
<1>2. CASE Lineage \/ ForeignDatabase \/ ForeignTree \/ ForeignEntry
  BY <1>2, WorldKeeps
<1>3. ASSUME NEW p \in Restorers, Restore(p) \/ Resume(p) \/ Abandon(p) \/ Crash(p)
      PROVE  IInv' /\ Keeps
  BY <1>3, StartsQuietly
<1>4. ASSUME NEW p \in Restorers,
             Compare(p) \/ FillEnds(p) \/ FillFails(p) \/ Release(p)
                \/ CheckIntent(p) \/ CheckOwner(p) \/ CheckAbandon(p)
      PROVE  IInv' /\ Keeps
  BY <1>4, ChecksQuietly
<1>5. ASSUME NEW p \in Restorers,
             MarkFails(p) \/ RemoveTree(p) \/ MoveAside(p)
                \/ MarkOwner(p) \/ RemoveOwner(p) \/ RecordIntent(p) \/ Unmark(p)
      PROVE  IInv' /\ Keeps
  BY <1>5, LeavesQuietly, MarksQuietly
<1>6. ASSUME NEW p \in Restorers,
             Claim(p) \/ Create(p) \/ Fill(p) \/ Remove(p) \/ Publish(p) \/ Copy(p)
      PROVE  IInv' /\ Keeps
  BY <1>6, ClaimKeeps, CreateKeeps, FillKeeps, RemoveKeeps, PublishKeeps, CopyKeeps
<1> QED
  BY <1>1, <1>2, <1>3, <1>4, <1>5, <1>6 DEF Next

\* The destination, the trees and every call keep their shape (durability.py), for any
\* restorers, snapshots and files.
THEOREM TypeCorrect == Spec => []TypeOK
<1>1. IInv => TypeOK
  BY DEF IInv
<1> QED
  BY <1>1, InitIInv, StepIInv, PTL DEF Spec

\* However many restores, recoveries and other programs meet at one destination, none
\* overwrites or removes what another put there (_release_owned_destination,
\* _publish_file_exclusive).
THEOREM OthersKept == Spec => KeepsOthers
BY InitIInv, StepIInv, PTL DEF Spec, KeepsOthers, Keeps

-----------------------------------------------------------------------------
(* One restorer at a time.  What is at the destination then changes only   *)
(* by its own steps, and by what other programs add.                       *)

OneRestorer == \A p, q \in Restorers : p = q

\* A directory holds a file some restore put there.
Ours(i) == \E f \in Files : trees[i].files[f] # Absent /\ trees[i].files[f].by \in Restorers

WholeFile(i, f, s) ==
    trees[i].files[f] # Absent /\ trees[i].files[f].of = s /\ trees[i].files[f].full

\* What the steps still to come rely on.
Half(p) ==
    /\ call[p].pc \in {"check", "unmark"} => Restored
    /\ call[p].pc \notin {"idle", "check", "unmark"} => ~ Restored
    /\ call[p].pc = "mark" => dest = call[p].record.tree /\ ~ Ours(dest)
    /\ call[p].pc = "fill" =>
          /\ trees[call[p].record.tree].record # Absent
          /\ \A f \in Files \ call[p].todo : WholeFile(call[p].record.tree, f, call[p].record.of)
          /\ call[p].writing # Absent =>
                trees[call[p].record.tree].files[call[p].writing].of = call[p].record.of
    /\ call[p].pc \in {"intent", "record", "publish", "copy"} =>
          dest = call[p].record.tree /\ Whole(dest, call[p].record.of)
    /\ call[p].pc \in {"publish", "copy"} =>
          /\ trees[dest].record = call[p].record
          /\ call[p].record.intent = <<call[p].record.of, call[p].variant>>
    /\ call[p].pc = "copy" => db.of = call[p].record.of /\ db.variant = call[p].variant

\* A record names the directory it is in; a partial tree has one; a restored database
\* stands beside its whole tree, and a record that is still there recorded its hash.
RecordsPlaced ==
    \A i \in Trees : /\ trees[i].record # Absent => trees[i].record.tree = i
                     /\ Unused(i) => trees[i].record = Absent
OursRecorded == dest # 0 /\ Ours(dest) => trees[dest].record # Absent \/ Restored
RestoredWhole ==
    Restored => /\ dest # 0 /\ Whole(dest, db.of)
                /\ trees[dest].record # Absent =>
                      /\ trees[dest].record.intent # Absent
                      /\ trees[dest].record.intent = <<db.of, db.variant>>

Solo == /\ RecordsPlaced /\ OursRecorded /\ RestoredWhole
        /\ \A p \in Restorers : Half(p)

LEMMA InitSolo == Init => Solo
BY DEF Init, Solo, RecordsPlaced, OursRecorded, RestoredWhole, Half, Unused, NoTree, Restored, Idle

\* The steps that change only the call.
LEMMA SoloFrame ==
    ASSUME Solo, OneRestorer, NEW p \in Restorers, Half(p)', UNCHANGED <<db, dest, trees>>
    PROVE  Solo'
BY DEF OneRestorer, Solo, RecordsPlaced, OursRecorded, RestoredWhole, Unused, Ours, Restored, Whole

LEMMA SoloStarts ==
    ASSUME IInv, Solo, OneRestorer, NEW p \in Restorers,
           Restore(p) \/ Resume(p) \/ Abandon(p) \/ Crash(p)
    PROVE  Solo'
<1>0. call \in [Restorers -> Calls]
  BY DEF IInv, TypeOK
<1>1. CASE Restore(p)
  <2>1. PICK v \in Variants : call' = [call EXCEPT ![p] = [pc |-> "claim", of |-> latest, variant |-> v]]
    BY <1>1 DEF Restore
  <2>2. call'[p].pc = "claim" /\ ~ Restored /\ UNCHANGED <<db, dest, trees>>
    BY <1>0, <1>1, <2>1 DEF Restore, Restored
  <2>3. Half(p)'
    BY <2>2 DEF Half, Restored
  <2> QED
    BY <2>2, <2>3, SoloFrame
<1>2. CASE Crash(p)
  <2>1. call'[p].pc = "idle" /\ UNCHANGED <<db, dest, trees>>
    BY <1>0, <1>2 DEF Crash, Idle
  <2>2. Half(p)'
    BY <2>1 DEF Half
  <2> QED
    BY <2>1, <2>2, SoloFrame
<1>3. Incomplete => /\ dest \in Trees /\ trees[dest].record \in Records
                    /\ trees[dest].record # Absent /\ trees[dest].record.tree = dest
  BY DestTyped DEF IInv, Incomplete, Directories, Solo, RecordsPlaced
<1>4. Incomplete /\ Restored => DatabasePublished(trees[dest].record)
  BY <1>3 DEF Solo, RestoredWhole, DatabasePublished, Restored
<1>5. CASE Resume(p)
  <2>1. CASE DatabasePublished(trees[dest].record) /\ call' = [call EXCEPT ![p] = [pc |-> "unmark"]]
    <3>1. Restored
      BY <1>3, <1>5, <2>1, RecordFields DEF Resume, DatabasePublished, Restored, Intents
    <3>2. call'[p].pc = "unmark" /\ UNCHANGED <<db, dest, trees>>
      BY <1>0, <1>5, <2>1 DEF Resume
    <3>3. Half(p)'
      BY <3>1, <3>2 DEF Half, Restored
    <3> QED
      BY <3>2, <3>3, SoloFrame
  <2>2. CASE db = Absent /\ \E v \in Variants :
                call' = [call EXCEPT ![p] = Filling(trees[dest].record, v, FALSE)]
    <3>1. /\ call'[p].pc = "fill" /\ call'[p].todo = Files /\ call'[p].writing = Absent
          /\ call'[p].record = trees[dest].record /\ UNCHANGED <<db, dest, trees>>
      BY <1>0, <1>5, <2>2 DEF Resume, Filling
    <3>2. Half(p)'
      BY <1>3, <1>5, <2>2, <3>1 DEF Half, Restored, Resume
    <3> QED
      BY <3>1, <3>2, SoloFrame
  <2> QED
    BY <1>5, <2>1, <2>2 DEF Resume
<1>6. CASE Abandon(p)
  <2>1. call'[p].pc = "abandon" /\ ~ Restored /\ UNCHANGED <<db, dest, trees>>
    BY <1>0, <1>4, <1>6 DEF Abandon
  <2>2. Half(p)'
    BY <2>1 DEF Half, Restored
  <2> QED
    BY <2>1, <2>2, SoloFrame
<1> QED
  BY <1>1, <1>2, <1>5, <1>6

LEMMA SoloChecks ==
    ASSUME IInv, Solo, OneRestorer, NEW p \in Restorers,
           Compare(p) \/ FillEnds(p) \/ FillFails(p) \/ Release(p)
              \/ CheckIntent(p) \/ CheckOwner(p) \/ CheckAbandon(p)
    PROVE  Solo'
<1>0. call \in [Restorers -> Calls] /\ Half(p)
  BY DEF IInv, TypeOK, Solo
<1>1. CASE Compare(p)
  <2>1. PICK f \in call[p].todo :
            /\ WholeFile(call[p].record.tree, f, call[p].record.of)
            /\ call' = [call EXCEPT ![p].todo = @ \ {f}]
    BY <1>1 DEF Compare, WholeFile
  <2>2. /\ call[p].pc = "fill" /\ call[p].writing = Absent
        /\ call[p] \in [pc : {"fill", "release"}, record : Records, variant : Variants,
                        fresh : BOOLEAN, todo : SUBSET Files, created : SUBSET Files,
                        writing : Files \cup {Absent}]
    BY <1>1, CallTypes DEF Compare, IInv
  <2>3. /\ call'[p].pc = "fill" /\ call'[p].writing = Absent
        /\ call'[p].record = call[p].record /\ call'[p].todo = call[p].todo \ {f}
    BY <1>0, <2>1, <2>2
  <2>4. UNCHANGED <<db, dest, trees>>
    BY <1>1 DEF Compare
  <2>5. Half(p)'
    BY <1>0, <2>1, <2>2, <2>3, <2>4 DEF Half, Restored, WholeFile
  <2> QED
    BY <2>4, <2>5, SoloFrame
<1>2. CASE FillEnds(p)
  <2>1. /\ call'[p].pc = "intent" /\ call'[p].record = call[p].record
        /\ call[p].pc = "fill" /\ call[p].todo = {} /\ dest = call[p].record.tree
        /\ UNCHANGED <<db, dest, trees>>
    BY <1>0, <1>2 DEF FillEnds, Owned
  <2>2. Half(p)'
    BY <1>0, <2>1 DEF Half, Restored, Whole, WholeFile
  <2> QED
    BY <2>1, <2>2, SoloFrame
<1>3. CASE FillFails(p)
  <2>1. call[p].pc = "fill" /\ call'[p].pc = "release" /\ UNCHANGED <<db, dest, trees>>
    <3>1. call' = [call EXCEPT ![p] = [call[p] EXCEPT !.pc = "release"]]
      BY <1>3 DEF FillFails
    <3>2. call[p].pc = "fill"
      BY <1>3 DEF FillFails
    <3>3. [call[p] EXCEPT !.pc = "release"].pc = "release"
      BY <3>2, CallTypes DEF IInv
    <3> QED
      BY <1>0, <1>3, <3>1, <3>2, <3>3 DEF FillFails
  <2>2. Half(p)'
    BY <1>0, <2>1 DEF Half, Restored
  <2> QED
    BY <2>1, <2>2, SoloFrame
<1>4. CASE Release(p)
  <2>1. call[p].pc = "release" /\ call'[p].pc \in {"remove", "idle"} /\ UNCHANGED <<db, dest, trees>>
    BY <1>0, <1>4 DEF Release, Idle
  <2>2. Half(p)'
    BY <1>0, <2>1 DEF Half, Restored
  <2> QED
    BY <2>1, <2>2, SoloFrame
<1>5. CASE CheckIntent(p)
  <2>1. call[p].pc = "intent" /\ UNCHANGED <<db, dest, trees>>
    BY <1>5 DEF CheckIntent
  <2>2. \/ call'[p].pc = "record" /\ call'[p].record = call[p].record
        \/ call'[p].pc = "idle"
    <3>1. call[p] \in [pc : {"mark", "intent", "record", "publish", "copy", "check"},
                       variant : Variants, record : Records]
      BY <2>1, CallTypes DEF IInv
    <3> QED
      BY <1>0, <1>5, <3>1 DEF CheckIntent, Idle
  <2>3. Half(p)'
    BY <1>0, <2>1, <2>2 DEF Half, Restored, Whole
  <2> QED
    BY <2>1, <2>3, SoloFrame
<1>6. CASE CheckOwner(p)
  <2>1. /\ call[p].pc = "check" /\ call'[p].pc \in {"unmark", "idle"}
        /\ UNCHANGED <<db, dest, trees>>
    BY <1>0, <1>6 DEF CheckOwner, Idle
  <2>2. Half(p)'
    BY <1>0, <2>1 DEF Half, Restored
  <2> QED
    BY <2>1, <2>2, SoloFrame
<1>7. CASE CheckAbandon(p)
  <2>1. /\ call[p].pc = "abandon" /\ call'[p].pc \in {"move", "idle"}
        /\ UNCHANGED <<db, dest, trees>>
    BY <1>0, <1>7 DEF CheckAbandon, Idle
  <2>2. Half(p)'
    BY <1>0, <2>1 DEF Half, Restored
  <2> QED
    BY <2>1, <2>2, SoloFrame
<1> QED
  BY <1>1, <1>2, <1>3, <1>4, <1>5, <1>6, <1>7

LEMMA SoloLeaves ==
    ASSUME IInv, Solo, OneRestorer, NEW p \in Restorers,
           MarkFails(p) \/ RemoveTree(p) \/ MoveAside(p)
    PROVE  Solo'
<1>1. /\ call[p].pc \in {"mark", "rmdir", "move"} /\ call'[p].pc = "idle"
      /\ dest' \in {dest, 0} /\ UNCHANGED <<db, trees>>
  BY DEF IInv, TypeOK, MarkFails, RemoveTree, MoveAside, Idle
<1>2. ~ Restored /\ ~ Restored'
  BY <1>1 DEF Solo, Half, Restored
<1>3. \A q \in Restorers : Half(q)'
  BY <1>1 DEF OneRestorer, Half
<1>4. RecordsPlaced' /\ OursRecorded' /\ RestoredWhole'
  BY <1>1, <1>2 DEF Solo, RecordsPlaced, OursRecorded, RestoredWhole, Unused, Ours
<1> QED
  BY <1>3, <1>4 DEF Solo

-----------------------------------------------------------------------------
(* The steps that change a record.                                         *)

LEMMA Recorded ==
    ASSUME IInv, NEW i \in Trees, NEW r, trees' = [trees EXCEPT ![i].record = r]
    PROVE  /\ trees'[i].record = r
           /\ \A j \in Trees \ {i} : trees'[j].record = trees[j].record
           /\ \A j \in Trees : trees'[j].files = trees[j].files /\ trees'[j].maker = trees[j].maker
BY DEF IInv, TypeOK

LEMMA SoloMarks ==
    ASSUME IInv, Solo, OneRestorer, NEW p \in Restorers, MarkOwner(p)
    PROVE  Solo'
<1>0. call \in [Restorers -> Calls] /\ Half(p) /\ call[p].pc = "mark"
  BY DEF IInv, TypeOK, Solo, MarkOwner
<1>1. call[p].record \in Records /\ call[p].record # Absent
  BY <1>0, CallTypes, AbsentAssumption DEF IInv
<1>2. CASE dest # 0 /\ trees[dest].record = Absent
  <2>1. /\ dest \in Trees /\ ~ Unused(dest) /\ call[p].record.tree = dest /\ ~ Restored
        /\ UNCHANGED <<db, dest>>
    BY <1>0, <1>2, DestTyped DEF IInv, DestUsed, Half, MarkOwner
  <2>2. /\ call'[p].pc = "fill" /\ call'[p].record = call[p].record
        /\ call'[p].todo = Files /\ call'[p].writing = Absent
    BY <1>0, <1>2 DEF MarkOwner, Filling
  <2>3. /\ trees'[dest].record = call[p].record
        /\ \A j \in Trees \ {dest} : trees'[j].record = trees[j].record
        /\ \A j \in Trees : trees'[j].files = trees[j].files /\ trees'[j].maker = trees[j].maker
    BY <1>2, <2>1, Recorded DEF MarkOwner
  <2>4. Half(p)' /\ ~ Restored'
    BY <1>1, <2>1, <2>2, <2>3 DEF Half, Restored
  <2>5. RecordsPlaced' /\ OursRecorded' /\ RestoredWhole'
    BY <1>1, <2>1, <2>3, <2>4 DEF Solo, RecordsPlaced, OursRecorded, RestoredWhole, Unused
  <2> QED
    BY <2>4, <2>5 DEF Solo, OneRestorer
<1>3. CASE ~ (dest # 0 /\ trees[dest].record = Absent)
  <2>0. call' = [call EXCEPT ![p] = Idle] /\ UNCHANGED <<db, dest, trees>>
    BY <1>3 DEF MarkOwner
  <2>1. call'[p].pc = "idle" /\ UNCHANGED <<db, dest, trees>>
    BY <1>0, <2>0 DEF Idle
  <2>2. Half(p)'
    BY <2>1 DEF Half
  <2> QED
    BY <2>1, <2>2, SoloFrame
<1> QED
  BY <1>2, <1>3

LEMMA SoloRemovesOwner ==
    ASSUME IInv, Solo, OneRestorer, NEW p \in Restorers, RemoveOwner(p)
    PROVE  Solo'
<1>0. /\ call \in [Restorers -> Calls] /\ Half(p) /\ call[p].pc = "remove"
      /\ UNCHANGED <<db, dest>>
  BY DEF IInv, TypeOK, Solo, RemoveOwner
<1>1. ~ Restored /\ ~ Restored'
  BY <1>0 DEF Half, Restored
<1>2. call'[p].pc \in {"idle", "rmdir"}
  BY <1>0 DEF RemoveOwner, Idle
<1>3. Half(p)'
  BY <1>1, <1>2 DEF Half
<1>4. CASE trees' = trees
  BY <1>0, <1>3, <1>4, SoloFrame
<1>5. CASE trees' # trees
  <2> DEFINE i == call[p].record.tree
  <2>1. i \in Trees /\ Empty(i) /\ trees' = [trees EXCEPT ![i].record = Absent]
    BY <1>0, <1>5, CallTypes, RecordFields DEF RemoveOwner, IInv
  <2> HIDE DEF i
  <2>2. /\ trees'[i].record = Absent
        /\ \A j \in Trees \ {i} : trees'[j].record = trees[j].record
        /\ \A j \in Trees : trees'[j].files = trees[j].files /\ trees'[j].maker = trees[j].maker
    BY <2>1, Recorded
  <2>3. dest # 0 => dest \in Trees
    BY DestTyped DEF IInv
  <2>4. RecordsPlaced'
    BY <2>2 DEF Solo, RecordsPlaced, Unused
  <2>5. OursRecorded'
    BY <1>0, <1>1, <2>1, <2>2, <2>3 DEF Solo, OursRecorded, Ours, Empty
  <2>6. RestoredWhole'
    BY <1>1 DEF RestoredWhole
  <2> QED
    BY <1>3, <2>4, <2>5, <2>6 DEF Solo, OneRestorer
<1> QED
  BY <1>4, <1>5

LEMMA SoloRecords ==
    ASSUME IInv, Solo, OneRestorer, NEW p \in Restorers, RecordIntent(p)
    PROVE  Solo'
<1> DEFINE r == [call[p].record EXCEPT !.intent = <<call[p].record.of, call[p].variant>>]
           x == [call[p] EXCEPT !.pc = "publish", !.record = r]
<1>0. /\ call \in [Restorers -> Calls] /\ Half(p) /\ call[p].pc = "record"
      /\ UNCHANGED <<db, dest>>
  BY DEF IInv, TypeOK, Solo, RecordIntent
<1>1. call[p] \in [pc : {"mark", "intent", "record", "publish", "copy", "check"},
                   variant : Variants, record : Records]
  BY <1>0, CallTypes DEF IInv
<1>2. /\ dest = call[p].record.tree /\ dest \in Trees /\ dest # 0
      /\ Whole(dest, call[p].record.of) /\ ~ Restored /\ ~ Restored'
  BY <1>0, <1>1, RecordFields DEF Half, Restored, Trees
<1>3. /\ r \in Records /\ r.tree = dest /\ r.of = call[p].record.of
      /\ r.intent = <<call[p].record.of, call[p].variant>>
  BY <1>1, <1>2 DEF Records, Intents
<1>4. x.pc = "publish" /\ x.record = r /\ x.variant = call[p].variant
  BY <1>1
<1>5. trees' = [trees EXCEPT ![dest].record = r] /\ call' = [call EXCEPT ![p] = x]
  BY <1>2 DEF RecordIntent
<1>6. r # Absent
  BY <1>3, AbsentAssumption
<1> HIDE DEF r, x
<1>7. /\ trees'[dest].record = r
      /\ \A j \in Trees \ {dest} : trees'[j].record = trees[j].record
      /\ \A j \in Trees : trees'[j].files = trees[j].files /\ trees'[j].maker = trees[j].maker
  BY <1>2, <1>5, Recorded
<1>8. call'[p] = x
  BY <1>0, <1>5
<1>9. Half(p)'
  BY <1>0, <1>2, <1>3, <1>4, <1>7, <1>8 DEF Half, Whole, Restored
<1>10. ~ Unused(dest)
  BY <1>2 DEF IInv, DestUsed
<1>11. RecordsPlaced'
  BY <1>2, <1>3, <1>7, <1>10 DEF Solo, RecordsPlaced, Unused
<1>12. OursRecorded' /\ RestoredWhole'
  BY <1>0, <1>2, <1>6, <1>7 DEF OursRecorded, RestoredWhole
<1> QED
  BY <1>9, <1>11, <1>12 DEF Solo, OneRestorer

LEMMA SoloUnmarks ==
    ASSUME IInv, Solo, OneRestorer, NEW p \in Restorers, Unmark(p)
    PROVE  Solo'
<1>0. /\ call \in [Restorers -> Calls] /\ Half(p) /\ call[p].pc = "unmark"
      /\ call'[p].pc = "idle" /\ UNCHANGED <<db, dest>>
  BY DEF IInv, TypeOK, Solo, Unmark, Idle
<1>1. Half(p)'
  BY <1>0 DEF Half
<1>2. Restored /\ dest # 0 /\ dest \in Trees
  BY <1>0, DestTyped DEF Half, Solo, RestoredWhole, IInv
<1>3. /\ trees'[dest].record = Absent
      /\ \A j \in Trees \ {dest} : trees'[j].record = trees[j].record
      /\ \A j \in Trees : trees'[j].files = trees[j].files /\ trees'[j].maker = trees[j].maker
  BY <1>2, Recorded DEF Unmark
<1>4. RecordsPlaced'
  BY <1>3 DEF Solo, RecordsPlaced, Unused
<1>5. OursRecorded' /\ RestoredWhole'
  BY <1>0, <1>2, <1>3 DEF Solo, OursRecorded, RestoredWhole, Restored, Whole
<1> QED
  BY <1>1, <1>4, <1>5 DEF Solo, OneRestorer

-----------------------------------------------------------------------------
(* The steps that create a directory, and write its files.                 *)

\* A directory that was not there yet, whoever creates it.
LEMMA SoloTree ==
    ASSUME IInv, Solo, dest = 0, NEW i \in Trees, Unused(i),
           NEW m \in Restorers \cup {"foreign"},
           trees' = [trees EXCEPT ![i] = NewTree(m)], dest' = i, db' = db
    PROVE  RecordsPlaced' /\ OursRecorded' /\ RestoredWhole' /\ ~ Ours(i)' /\ ~ Restored'
<1>1. /\ trees'[i] = NewTree(m)
      /\ \A j \in Trees \ {i} : trees'[j] = trees[j]
  BY DEF IInv, TypeOK
<1>2. /\ NewTree(m).record = Absent /\ NewTree(m).maker # Absent
      /\ \A f \in Files : NewTree(m).files[f] = Absent
  BY AbsentAssumption DEF NewTree
<1>3. ~ Restored /\ ~ Restored'
  BY DEF Solo, RestoredWhole, Restored
<1>4. RecordsPlaced'
  BY <1>1, <1>2 DEF Solo, RecordsPlaced, Unused
<1>5. ~ Ours(i)'
  BY <1>1, <1>2 DEF Ours
<1> QED
  BY <1>3, <1>4, <1>5 DEF OursRecorded, RestoredWhole

LEMMA SoloClaims ==
    ASSUME IInv, Solo, OneRestorer, NEW p \in Restorers, Claim(p)
    PROVE  Solo'
<1>0. call \in [Restorers -> Calls] /\ Half(p) /\ call[p].pc = "claim"
  BY DEF IInv, TypeOK, Solo, Claim
<1>1. CASE dest # 0
  <2>1. call'[p].pc = "idle" /\ UNCHANGED <<db, dest, trees>>
    BY <1>0, <1>1 DEF Claim, Idle
  <2>2. Half(p)'
    BY <2>1 DEF Half
  <2> QED
    BY <2>1, <2>2, SoloFrame
<1>2. CASE dest = 0
  <2>1. PICK i \in Trees :
            /\ Unused(i) /\ dest' = i /\ db' = db
            /\ trees' = [trees EXCEPT ![i] = NewTree(p)]
            /\ call' = [call EXCEPT ![p] =
                  [pc |-> "mark", variant |-> @.variant,
                   record |-> [tree |-> i, of |-> @.of, intent |-> Absent]]]
    BY <1>2 DEF Claim
  <2>2. call'[p].pc = "mark" /\ call'[p].record.tree = i
    BY <1>0, <2>1
  <2>3. RecordsPlaced' /\ OursRecorded' /\ RestoredWhole' /\ ~ Ours(i)' /\ ~ Restored'
    BY <1>2, <2>1, SoloTree
  <2>4. ~ Ours(dest)'
    BY <2>1, <2>3 DEF Ours
  <2>5. Half(p)'
    BY <2>1, <2>2, <2>3, <2>4 DEF Half
  <2> QED
    BY <2>3, <2>5 DEF Solo, OneRestorer
<1> QED
  BY <1>1, <1>2

LEMMA SoloCreates ==
    ASSUME IInv, Solo, OneRestorer, NEW p \in Restorers, Create(p)
    PROVE  Solo'
<1> DEFINE i == call[p].record.tree
           e == [of |-> call[p].record.of, by |-> p, full |-> FALSE]
<1>1. PICK f \in call[p].todo :
          /\ trees[i].files[f] = Absent
          /\ trees' = [trees EXCEPT ![i].files[f] = e]
          /\ call' = [call EXCEPT ![p].created = @ \cup {f}, ![p].writing = f]
          /\ call[p].pc = "fill" /\ dest = i /\ UNCHANGED <<db, dest>>
  BY DEF Create
<1>2. call[p] \in [pc : {"fill", "release"}, record : Records, variant : Variants,
                   fresh : BOOLEAN, todo : SUBSET Files, created : SUBSET Files,
                   writing : Files \cup {Absent}]
  BY <1>1, CallTypes DEF IInv
<1>3. f \in Files /\ i \in Trees
  BY <1>2, RecordFields
<1>4. e.of = call[p].record.of
  OBVIOUS
<1>5. call \in [Restorers -> Calls] /\ Half(p)
  BY DEF IInv, TypeOK, Solo
<1>6. /\ call'[p].pc = "fill" /\ call'[p].record = call[p].record
      /\ call'[p].todo = call[p].todo /\ call'[p].writing = f
  BY <1>1, <1>2, <1>5
<1> HIDE DEF e
<1>7. /\ trees'[i].files[f] = e
      /\ \A g \in Files \ {f} : trees'[i].files[g] = trees[i].files[g]
      /\ \A j \in Trees : trees'[j].record = trees[j].record /\ trees'[j].maker = trees[j].maker
  BY <1>1, <1>3 DEF IInv, TypeOK
<1>8. ~ Restored /\ ~ Restored' /\ trees'[i].record # Absent
  BY <1>1, <1>3, <1>5, <1>7 DEF Half, Restored
<1>9. ASSUME NEW g \in Files \ call'[p].todo
      PROVE  WholeFile(call[p].record.tree, g, call[p].record.of)'
  <2>1. WholeFile(i, g, call[p].record.of)
    BY <1>1, <1>5, <1>6 DEF Half
  <2>2. trees'[i].files[g] = trees[i].files[g]
    BY <1>1, <1>7, <2>1 DEF WholeFile
  <2> QED
    BY <1>6, <2>1, <2>2 DEF WholeFile
<1>10. trees'[i].files[call'[p].writing].of = call'[p].record.of
  BY <1>4, <1>6, <1>7
<1>11. Half(p)'
  BY <1>6, <1>8, <1>9, <1>10 DEF Half
<1>12. RecordsPlaced' /\ OursRecorded' /\ RestoredWhole'
  BY <1>1, <1>7, <1>8 DEF Solo, RecordsPlaced, OursRecorded, RestoredWhole, Unused
<1> QED
  BY <1>11, <1>12 DEF Solo, OneRestorer

LEMMA SoloFills ==
    ASSUME IInv, Solo, OneRestorer, NEW p \in Restorers, Fill(p)
    PROVE  Solo'
<1> DEFINE i == call[p].record.tree
           f == call[p].writing
           e == [trees[i].files[f] EXCEPT !.full = TRUE]
<1>1. /\ call[p].pc = "fill" /\ f # Absent
      /\ trees' = [trees EXCEPT ![i].files[f] = e]
      /\ call' = [call EXCEPT ![p].todo = @ \ {f}, ![p].writing = Absent]
      /\ UNCHANGED <<db, dest>>
  BY DEF Fill
<1>2. call[p] \in [pc : {"fill", "release"}, record : Records, variant : Variants,
                   fresh : BOOLEAN, todo : SUBSET Files, created : SUBSET Files,
                   writing : Files \cup {Absent}]
  BY <1>1, CallTypes DEF IInv
<1>3. /\ i \in Trees /\ f \in Files /\ trees[i].files[f] \in FileEntries
      /\ trees[i].files[f] # Absent /\ trees[i].files[f].by = p
  BY <1>1, WritingUsed DEF IInv, WritesOwn
<1>4. call \in [Restorers -> Calls] /\ Half(p)
  BY DEF IInv, TypeOK, Solo
<1>5. e \in FileEntries /\ e.of = call[p].record.of /\ e.full /\ e # Absent
  BY <1>1, <1>3, <1>4, AbsentAssumption DEF Half, FileEntries
<1>6. /\ call'[p].pc = "fill" /\ call'[p].record = call[p].record
      /\ call'[p].todo = call[p].todo \ {f} /\ call'[p].writing = Absent
  BY <1>1, <1>2, <1>4
<1> HIDE DEF e
<1>7. /\ trees'[i].files[f] = e
      /\ \A g \in Files \ {f} : trees'[i].files[g] = trees[i].files[g]
      /\ \A j \in Trees \ {i} : trees'[j].files = trees[j].files
      /\ \A j \in Trees : trees'[j].record = trees[j].record /\ trees'[j].maker = trees[j].maker
  BY <1>1, <1>3 DEF IInv, TypeOK
<1>8. ~ Restored /\ ~ Restored' /\ trees'[i].record # Absent
  BY <1>1, <1>3, <1>4, <1>7 DEF Half, Restored
<1>9. ASSUME NEW g \in Files \ call'[p].todo
      PROVE  WholeFile(call[p].record.tree, g, call[p].record.of)'
  <2>1. CASE g = f
    BY <1>5, <1>6, <1>7, <2>1 DEF WholeFile
  <2>2. CASE g # f
    <3>1. WholeFile(i, g, call[p].record.of)
      BY <1>1, <1>4, <1>6, <2>2 DEF Half
    <3>2. trees'[i].files[g] = trees[i].files[g]
      BY <1>7, <2>2
    <3> QED
      BY <1>6, <3>1, <3>2 DEF WholeFile
  <2> QED
    BY <2>1, <2>2
<1>10. Half(p)'
  BY <1>6, <1>8, <1>9 DEF Half
<1>11. RecordsPlaced' /\ RestoredWhole'
  BY <1>7, <1>8 DEF Solo, RecordsPlaced, RestoredWhole, Unused
<1>12. OursRecorded'
  <2>1. dest # 0 => dest \in Trees
    BY DestTyped DEF IInv
  <2>2. CASE dest = i
    BY <1>1, <1>8, <2>2 DEF OursRecorded
  <2>3. CASE dest # i
    BY <1>1, <1>7, <1>8, <2>1, <2>3 DEF Solo, OursRecorded, Ours
  <2> QED
    BY <2>2, <2>3
<1> QED
  BY <1>10, <1>11, <1>12 DEF Solo, OneRestorer

LEMMA SoloRemoves ==
    ASSUME IInv, Solo, OneRestorer, NEW p \in Restorers, Remove(p)
    PROVE  Solo'
<1> DEFINE i == call[p].record.tree
           e(f) == IF trees[i].files[f] # Absent /\ trees[i].files[f].by = p
                   THEN Absent ELSE trees[i].files[f]
           x(f) == [call[p] EXCEPT !.created = @ \ {f}]
<1>1. PICK f \in call[p].created :
          /\ call[p].pc = "remove"
          /\ trees' = [trees EXCEPT ![i].files[f] = e(f)]
          /\ call' = [call EXCEPT ![p] = x(f)]
          /\ UNCHANGED <<db, dest>>
  BY DEF Remove
<1>2. call[p] \in [pc : {"remove"}, record : Records, created : SUBSET Files, fresh : BOOLEAN]
  BY <1>1, CallTypes DEF IInv
<1>3. f \in Files /\ i \in Trees /\ x(f).pc = "remove"
  BY <1>2, RecordFields
<1>4. e(f) \in {Absent, trees[i].files[f]}
  OBVIOUS
<1>5. call \in [Restorers -> Calls] /\ Half(p)
  BY DEF IInv, TypeOK, Solo
<1> HIDE DEF x, e
<1>6. call'[p].pc = "remove"
  BY <1>1, <1>3, <1>5
<1>7. /\ \A j \in Trees : \A g \in Files : trees'[j].files[g] \in {Absent, trees[j].files[g]}
      /\ \A j \in Trees : trees'[j].record = trees[j].record /\ trees'[j].maker = trees[j].maker
  BY <1>1, <1>3, <1>4 DEF IInv, TypeOK
<1>8. ~ Restored /\ ~ Restored'
  BY <1>1, <1>5 DEF Half, Restored
<1>9. Half(p)'
  BY <1>6, <1>8 DEF Half
<1>10. RecordsPlaced' /\ RestoredWhole'
  BY <1>7, <1>8 DEF Solo, RecordsPlaced, RestoredWhole, Unused
<1>11. OursRecorded'
  <2>1. dest # 0 => dest \in Trees
    BY DestTyped DEF IInv
  <2> QED
    BY <1>1, <1>7, <1>8, <2>1 DEF Solo, OursRecorded, Ours
<1> QED
  BY <1>9, <1>10, <1>11 DEF Solo, OneRestorer

-----------------------------------------------------------------------------
(* The steps that publish the database, and those of other programs.       *)

\* The database is whole and is what the record of the whole tree beside it names.
LEMMA SoloPublished ==
    ASSUME IInv, Solo, NEW r \in Records, NEW v \in Variants,
           dest = r.tree, Whole(dest, r.of), trees[dest].record = r,
           r.intent = <<r.of, v>>, db' = [of |-> r.of, variant |-> v, full |-> TRUE],
           UNCHANGED <<dest, trees>>
    PROVE  Restored' /\ RecordsPlaced' /\ OursRecorded' /\ RestoredWhole'
<1>1. dest # 0 /\ r.of \in Snapshots
  BY RecordFields DEF Trees
<1>2. r.intent # Absent
  BY <1>1, AbsentAssumption
<1>3. /\ db'.of = r.of /\ db'.variant = v /\ db'.full = TRUE
      /\ db' \in [of : Snapshots, variant : Variants, full : BOOLEAN]
  BY <1>1
<1>4. db' # Absent
  BY <1>3, AbsentAssumption
<1>5. Restored'
  BY <1>1, <1>3, <1>4 DEF Restored
<1>6. RecordsPlaced' /\ OursRecorded'
  BY <1>5 DEF Solo, RecordsPlaced, OursRecorded, Unused
<1>7. RestoredWhole'
  BY <1>1, <1>2, <1>3 DEF RestoredWhole, Whole
<1> QED
  BY <1>5, <1>6, <1>7

LEMMA SoloPublishes ==
    ASSUME IInv, Solo, OneRestorer, NEW p \in Restorers, Publish(p)
    PROVE  Solo'
<1>0. call \in [Restorers -> Calls] /\ Half(p) /\ call[p].pc = "publish"
  BY DEF IInv, TypeOK, Solo, Publish
<1>1. call[p] \in [pc : {"mark", "intent", "record", "publish", "copy", "check"},
                   variant : Variants, record : Records]
  BY <1>0, CallTypes DEF IInv
<1>2. CASE db # Absent
  <2>1. call'[p].pc = "idle" /\ UNCHANGED <<db, dest, trees>>
    BY <1>0, <1>2 DEF Publish, Idle
  <2>2. Half(p)'
    BY <2>1 DEF Half
  <2> QED
    BY <2>1, <2>2, SoloFrame
<1>3. CASE db = Absent
  <2> DEFINE x == [call[p] EXCEPT !.pc = IF Linked THEN "check" ELSE "copy"]
  <2>1. /\ call' = [call EXCEPT ![p] = x]
        /\ db' = [of |-> call[p].record.of, variant |-> call[p].variant, full |-> Linked]
        /\ UNCHANGED <<dest, trees>>
    BY <1>3 DEF Publish
  <2>2. /\ x.pc = IF Linked THEN "check" ELSE "copy"
        /\ x.record = call[p].record /\ x.variant = call[p].variant
    BY <1>1
  <2> HIDE DEF x
  <2>3. call'[p] = x
    BY <1>0, <2>1
  <2>4. /\ call[p].record \in Records /\ call[p].variant \in Variants
        /\ dest = call[p].record.tree /\ Whole(dest, call[p].record.of)
        /\ trees[dest].record = call[p].record
        /\ call[p].record.intent = <<call[p].record.of, call[p].variant>> /\ ~ Restored
    BY <1>0, <1>1 DEF Half
  <2>5. CASE Linked = TRUE
    <3>1. Restored' /\ RecordsPlaced' /\ OursRecorded' /\ RestoredWhole'
      BY <2>1, <2>4, <2>5, SoloPublished
    <3>2. Half(p)'
      BY <2>2, <2>3, <2>5, <3>1 DEF Half
    <3> QED
      BY <3>1, <3>2 DEF Solo, OneRestorer
  <2>6. CASE Linked = FALSE
    <3>1. /\ ~ Restored' /\ db'.of = call[p].record.of /\ db'.variant = call[p].variant
      BY <2>1, <2>6 DEF Restored
    <3>2. call'[p].pc = "copy" /\ call'[p].record = call[p].record /\ call'[p].variant = call[p].variant
      BY <2>2, <2>3, <2>6
    <3>3. Half(p)'
      BY <2>1, <2>4, <3>1, <3>2 DEF Half, Whole
    <3>4. trees[dest].record # Absent
      BY <2>4, AbsentAssumption
    <3>5. RecordsPlaced' /\ OursRecorded' /\ RestoredWhole'
      BY <2>1, <3>1, <3>4 DEF Solo, RecordsPlaced, OursRecorded, RestoredWhole, Unused
    <3> QED
      BY <3>3, <3>5 DEF Solo, OneRestorer
  <2> QED
    BY <2>5, <2>6, SwitchesAssumption
<1> QED
  BY <1>2, <1>3

LEMMA SoloCopies ==
    ASSUME IInv, Solo, OneRestorer, NEW p \in Restorers, Copy(p)
    PROVE  Solo'
<1> DEFINE x == [call[p] EXCEPT !.pc = "check"]
<1>0. /\ call \in [Restorers -> Calls] /\ Half(p) /\ call[p].pc = "copy"
      /\ call' = [call EXCEPT ![p] = x] /\ UNCHANGED <<dest, trees>>
  BY DEF IInv, TypeOK, Solo, Copy
<1>1. call[p] \in [pc : {"mark", "intent", "record", "publish", "copy", "check"},
                   variant : Variants, record : Records]
  BY <1>0, CallTypes DEF IInv
<1>2. x.pc = "check"
  BY <1>1
<1> HIDE DEF x
<1>3. call'[p].pc = "check"
  BY <1>0, <1>2
<1>4. /\ call[p].record \in Records /\ call[p].variant \in Variants
      /\ dest = call[p].record.tree /\ Whole(dest, call[p].record.of)
      /\ trees[dest].record = call[p].record
      /\ call[p].record.intent = <<call[p].record.of, call[p].variant>>
      /\ db.of = call[p].record.of /\ db.variant = call[p].variant
  BY <1>0, <1>1 DEF Half
<1>5. db' = [of |-> call[p].record.of, variant |-> call[p].variant, full |-> TRUE]
  <2>1. db \in DatabaseFiles
    BY <1>0 DEF IInv, CopiesFile
  <2>2. db' = [db EXCEPT !.full = TRUE]
    BY DEF Copy
  <2> QED
    BY <1>4, <2>1, <2>2 DEF DatabaseFiles
<1>6. Restored' /\ RecordsPlaced' /\ OursRecorded' /\ RestoredWhole'
  BY <1>0, <1>4, <1>5, SoloPublished
<1>7. Half(p)'
  BY <1>3, <1>6 DEF Half
<1> QED
  BY <1>6, <1>7 DEF Solo, OneRestorer

\* Another program creates the database.
LEMMA SoloOtherDatabase ==
    ASSUME IInv, Solo, ForeignDatabase
    PROVE  Solo'
<1>1. db = Absent /\ db'.of = "foreign" /\ UNCHANGED <<dest, trees, call>>
  BY DEF ForeignDatabase
<1>2. ~ Restored /\ ~ Restored'
  BY <1>1, OutsideAssumption DEF Restored
<1>3. \A q \in Restorers : call[q].pc # "copy"
  BY <1>1, AbsentAssumption DEF IInv, CopiesFile, DatabaseFiles
<1>4. \A q \in Restorers : Half(q)'
  BY <1>1, <1>2, <1>3 DEF Solo, Half, WholeFile, Whole, Ours
<1>5. RecordsPlaced' /\ OursRecorded' /\ RestoredWhole'
  BY <1>1, <1>2 DEF Solo, RecordsPlaced, OursRecorded, RestoredWhole, Unused, Ours
<1> QED
  BY <1>4, <1>5 DEF Solo

\* Another program creates the directory.
LEMMA SoloOtherTree ==
    ASSUME IInv, Solo, ForeignTree
    PROVE  Solo'
<1>1. PICK i \in Trees : /\ Unused(i) /\ dest = 0 /\ dest' = i /\ db' = db /\ call' = call
                         /\ trees' = [trees EXCEPT ![i] = NewTree("foreign")]
  BY DEF ForeignTree
<1>2. RecordsPlaced' /\ OursRecorded' /\ RestoredWhole' /\ ~ Restored'
  BY <1>1, SoloTree
<1>3. \A j \in Trees \ {i} : trees'[j] = trees[j]
  BY <1>1 DEF IInv, TypeOK
<1>4. ASSUME NEW q \in Restorers PROVE Half(q)'
  <2>1. Half(q) /\ call'[q] = call[q]
    BY <1>1 DEF Solo
  <2>2. call[q].pc \in {"mark", "intent", "record", "publish", "copy"} => call[q].record \in Records
    BY CallTypes DEF IInv
  <2>3. call[q].pc \notin {"mark", "intent", "record", "publish", "copy"}
    BY <1>1, <2>1, <2>2, RecordFields DEF Half, Trees
  <2>4. call[q].pc \notin {"check", "unmark"}
    BY <1>1, <2>1 DEF Half, Solo, RestoredWhole
  <2>5. call[q].pc = "fill" => call[q].record.tree \in Trees \ {i}
    <3>1. call[q].pc = "fill" => call[q].record.tree \in Trees
      BY CallTypes, RecordFields DEF IInv
    <3> QED
      BY <1>1, <2>1, <3>1 DEF Half, Solo, RecordsPlaced
  <2> QED
    BY <1>2, <1>3, <2>1, <2>3, <2>4, <2>5 DEF Half, WholeFile
<1> QED
  BY <1>2, <1>4 DEF Solo

\* Another program puts an entry into the directory.
LEMMA SoloOtherEntry ==
    ASSUME IInv, Solo, ForeignEntry
    PROVE  Solo'
<1>0. dest \in Trees /\ UNCHANGED <<db, dest, call>>
  BY DestTyped DEF ForeignEntry, IInv
<1> DEFINE e == [of |-> "foreign", by |-> "foreign", full |-> TRUE]
<1>1. e.by \notin Restorers
  BY OutsideAssumption
<1>2. /\ \A j \in Trees : trees'[j].record = trees[j].record /\ trees'[j].maker = trees[j].maker
      /\ \A j \in Trees : \A g \in Files :
            \/ trees'[j].files[g] = trees[j].files[g]
            \/ trees[j].files[g] = Absent /\ trees'[j].files[g] = e
  <2>1. CASE trees' = [trees EXCEPT ![dest].alien = TRUE]
    BY <1>0, <2>1 DEF IInv, TypeOK
  <2>2. CASE \E f \in Files :
                /\ trees[dest].files[f] = Absent
                /\ trees' = [trees EXCEPT ![dest].files[f] = e]
    <3>1. PICK f \in Files : /\ trees[dest].files[f] = Absent
                             /\ trees' = [trees EXCEPT ![dest].files[f] = e]
      BY <2>2
    <3> HIDE DEF e
    <3> QED
      BY <1>0, <3>1 DEF IInv, TypeOK
  <2> QED
    BY <2>1, <2>2 DEF ForeignEntry
<1> HIDE DEF e
<1>3. \A j \in Trees : Ours(j)' => Ours(j)
  BY <1>1, <1>2 DEF Ours
<1>4. \A j \in Trees : \A g \in Files : trees[j].files[g] # Absent => trees'[j].files[g] = trees[j].files[g]
  BY <1>2
<1>5. Restored' <=> Restored
  BY <1>0 DEF Restored
<1>6. \A s : Whole(dest, s) => \A g \in Files : trees'[dest].files[g] = trees[dest].files[g]
  BY <1>0, <1>4 DEF Whole
<1>7. RecordsPlaced' /\ OursRecorded' /\ RestoredWhole'
  <2>1. RecordsPlaced'
    BY <1>2 DEF Solo, RecordsPlaced, Unused
  <2>2. OursRecorded'
    BY <1>0, <1>2, <1>3, <1>5 DEF Solo, OursRecorded, Ours
  <2>3. RestoredWhole'
    BY <1>0, <1>2, <1>5, <1>6 DEF Solo, RestoredWhole, Whole
  <2> QED
    BY <2>1, <2>2, <2>3
<1>8. ASSUME NEW q \in Restorers PROVE Half(q)'
  <2>1. Half(q) /\ call'[q] = call[q]
    BY <1>0 DEF Solo
  <2>2. CASE call[q].pc = "fill"
    <3>1. call[q].record.tree \in Trees
      BY <2>2, CallTypes, RecordFields DEF IInv
    <3>2. trees'[call[q].record.tree].record # Absent
      BY <1>2, <2>1, <2>2, <3>1 DEF Half
    <3>3. ASSUME NEW g \in Files \ call'[q].todo
          PROVE  WholeFile(call[q].record.tree, g, call[q].record.of)'
      <4>1. WholeFile(call[q].record.tree, g, call[q].record.of)
        BY <2>1, <2>2 DEF Half
      <4>2. trees'[call[q].record.tree].files[g] = trees[call[q].record.tree].files[g]
        BY <1>4, <3>1, <4>1 DEF WholeFile
      <4> QED
        BY <2>1, <4>1, <4>2 DEF WholeFile
    <3>4. call[q].writing # Absent =>
             trees'[call[q].record.tree].files[call[q].writing].of = call[q].record.of
      BY <1>4, <2>1, <2>2, WritingUsed DEF Half
    <3> QED
      BY <1>5, <2>1, <2>2, <3>2, <3>3, <3>4 DEF Half
  <2>3. CASE call[q].pc = "mark"
    BY <1>0, <1>3, <1>5, <2>1, <2>3 DEF Half, Ours
  <2>4. CASE call[q].pc \notin {"fill", "mark"}
    BY <1>0, <1>2, <1>5, <1>6, <2>1, <2>4 DEF Half, Whole
  <2> QED
    BY <2>2, <2>3, <2>4
<1> QED
  BY <1>7, <1>8 DEF Solo

-----------------------------------------------------------------------------
LEMMA StepSolo == OneRestorer /\ IInv /\ Solo /\ [Next]_vars => Solo'
<1> SUFFICES ASSUME OneRestorer, IInv, Solo, [Next]_vars PROVE Solo'
  OBVIOUS
<1>1. CASE UNCHANGED <<db, dest, trees, call>>
  BY <1>1 DEF Solo, RecordsPlaced, OursRecorded, RestoredWhole, Half, Unused, Ours,
              Restored, Whole, WholeFile
<1>2. CASE Lineage \/ UNCHANGED vars
  BY <1>1, <1>2 DEF Lineage, vars
<1>3. CASE ForeignDatabase \/ ForeignTree \/ ForeignEntry
  BY <1>3, SoloOtherDatabase, SoloOtherTree, SoloOtherEntry
<1>4. ASSUME NEW p \in Restorers,
             \/ Restore(p) \/ Resume(p) \/ Abandon(p) \/ Crash(p)
             \/ Compare(p) \/ FillEnds(p) \/ FillFails(p) \/ Release(p)
             \/ CheckIntent(p) \/ CheckOwner(p) \/ CheckAbandon(p)
      PROVE  Solo'
  BY <1>4, SoloStarts, SoloChecks
<1>5. ASSUME NEW p \in Restorers,
             \/ MarkFails(p) \/ RemoveTree(p) \/ MoveAside(p)
             \/ MarkOwner(p) \/ RemoveOwner(p) \/ RecordIntent(p) \/ Unmark(p)
      PROVE  Solo'
  BY <1>5, SoloLeaves, SoloMarks, SoloRemovesOwner, SoloRecords, SoloUnmarks
<1>6. ASSUME NEW p \in Restorers,
             Claim(p) \/ Create(p) \/ Fill(p) \/ Remove(p) \/ Publish(p) \/ Copy(p)
      PROVE  Solo'
  BY <1>6, SoloClaims, SoloCreates, SoloFills, SoloRemoves, SoloPublishes, SoloCopies
<1> QED
  BY <1>2, <1>3, <1>4, <1>5, <1>6 DEF Next

\* With one restorer at a time a restored database stands beside the whole artifact tree of its
\* own snapshot, however often calls died, were resumed or were abandoned and whatever other
\* programs added (restore_latest, resume_restore, _destination_intent_published).
THEOREM DatabaseWhole == OneRestorer => (Spec => []DatabaseOverWholeTree)
<1> SUFFICES ASSUME OneRestorer PROVE Spec => []DatabaseOverWholeTree
  OBVIOUS
<1>1. Solo => DatabaseOverWholeTree
  BY DEF Solo, RestoredWhole, DatabaseOverWholeTree
<1>2. IInv /\ Solo /\ [Next]_vars => Solo'
  BY StepSolo
<1> QED
  BY <1>1, <1>2, InitIInv, StepIInv, InitSolo, PTL DEF Spec

\* With one restorer at a time a destination that holds a restored file is finished or carries
\* its own record, so resume_restore and abandon_restore can always work from it.
THEOREM PartialRecorded == OneRestorer => (Spec => []PartialIsRecorded)
<1> SUFFICES ASSUME OneRestorer PROVE Spec => []PartialIsRecorded
  OBVIOUS
<1>1. IInv /\ Solo => PartialIsRecorded
  BY DestTyped DEF IInv, Solo, RecordsPlaced, OursRecorded, PartialIsRecorded, Ours,
                   Incomplete, Owned
<1>2. IInv /\ Solo /\ [Next]_vars => Solo'
  BY StepSolo
<1> QED
  BY <1>1, <1>2, InitIInv, StepIInv, InitSolo, PTL DEF Spec

-----------------------------------------------------------------------------
(* The checkpoints a restore is taken from: the promises of               *)
(* DurableDirectory, for every number of writers, contents and retained   *)
(* snapshots.  The invariant says of each writer which manifests it lists *)
(* and expires (ListSound), of those that have not been raced which blobs *)
(* it has put (PutSound), and of one that works alone what it still knows *)
(* of the directory (AloneSound).                                         *)

Snap == INSTANCE DurableSnapshot

\* The instance counts as the library does.
LEMMA SameCardinality == \A S : Snap!Cardinality(S) = Cardinality(S)
  BY DEF Snap!Cardinality, Cardinality

Newer(m) == {n \in committed : Snap!Precedes(m, n)}
Publishing == {"database", "artifacts", "manifest"}
Enforcing == {"unlist", "sweep"}

\* Every manifest of the list was published, or is later than the rest and bears the name
\* of one that was.
Witnessed(list) ==
    \E rest \in SUBSET committed :
        \/ list = rest
        \/ \E m \in Snap!Manifests : \E n \in committed :
              /\ list = rest \cup {m} /\ Snap!Name(m) = Snap!Name(n)
              /\ \A r \in rest : r.at < m.at

ListSound(w) ==
    /\ work[w].pc \in Publishing =>
          LET m == work[w].manifest
          IN  /\ work[w].list \subseteq committed
              /\ m.by = w /\ m.db = work[w].content.db /\ m.tree = work[w].content.tree
              /\ \A n \in work[w].list : n.at < m.at
              /\ \A name \in m.seen : name[1] < m.at
              /\ work[w].pc = "database" /\ work[w].half => Snap!Database(m.db) \in work[w].fresh
              /\ work[w].pc = "artifacts" /\ work[w].half => Snap!Bundle(m.tree) \in work[w].fresh
              /\ work[w].pc = "manifest" /\ work[w].half =>
                    m \in reserved \/ \E n \in committed : Snap!Name(n) = Snap!Name(m)
    /\ work[w].pc = "mark" => Witnessed(work[w].list)
    /\ work[w].pc \in Enforcing =>
          \A m \in work[w].expired : m \in committed /\ Cardinality(Newer(m)) >= Minimum

Unraced == ~ overlapped \/ gone = {}

\* The blobs a writer has put are there.
PutSound(w) ==
    LET content == work[w].content
    IN  /\ work[w].pc = "database" /\ work[w].half => store[Snap!Database(content.db)] = w
        /\ work[w].pc \in {"artifacts", "manifest"} => store[Snap!Database(content.db)] = "whole"
        /\ work[w].pc = "artifacts" /\ work[w].half => store[Snap!Bundle(content.tree)] = w
        /\ work[w].pc = "manifest" => store[Snap!Bundle(content.tree)] = "whole"

SweepsNothing(w) ==
    /\ work[w].pc = "unlist" /\ work[w].expired = {} => work[w].dead = {}
    /\ work[w].pc = "sweep" => work[w].dead = {}

Newest(t) == t \in Snap!Published /\ \A n \in Snap!Published : n.at <= t.at

AloneSound(w) ==
    /\ work[w].pc # "idle" => promised <= work[w].content.db /\ work[w].content.db <= live.db
    /\ work[w].pc = "globbed" => work[w].names = {Snap!Name(m) : m \in Snap!Published \cup reserved}
    /\ work[w].pc \in Publishing =>
          /\ work[w].list = Snap!Published
          /\ work[w].pc = "manifest" /\ work[w].half => work[w].manifest \in reserved
    /\ work[w].pc = "mark" =>
          /\ work[w].list = Snap!Published
          /\ \E t \in Snap!Published : Newest(t) /\ t.db = work[w].content.db
    /\ work[w].pc \in Enforcing =>
          /\ \E t \in Snap!Published : /\ Newest(t) /\ t.db = work[w].content.db
                                       /\ \A m \in work[w].expired : m.at < t.at
          /\ \A m \in Snap!Published : m \in work[w].expired \/ Snap!BlobsOf(m) \cap work[w].dead = {}
          /\ work[w].pc = "sweep" => work[w].expired = {}

Alone ==
    /\ \A v, w \in Writers : work[v] # Snap!NoWork /\ work[w] # Snap!NoWork => v = w
    /\ \A m, n \in Snap!Published : m.at = n.at => m = n
    /\ \A m \in gone : \E n \in Snap!Published : m.at < n.at
    /\ promised <= live.db
    /\ \A m \in Snap!Published : Newest(m) => promised <= m.db
    /\ \A w \in Writers : AloneSound(w)

SnapInv ==
    /\ Snap!SnapshotTypeOK
    /\ IsFiniteSet(committed)
    /\ Snap!NewestSurvives
    /\ \A w \in Writers : ListSound(w)
    /\ Unraced => Snap!CommittedReach /\ \A w \in Writers : PutSound(w)
    /\ gone = {} => \A w \in Writers : SweepsNothing(w)
    /\ ~ overlapped => Alone
-----------------------------------------------------------------------------
(* Types.                                                                  *)

Putting == [pc : Publishing, content : Snap!Contents, list : SUBSET Snap!Manifests,
            half : BOOLEAN, fresh : SUBSET Snap!Blobs, manifest : Snap!Manifests]
Purging == [pc : Enforcing, content : Snap!Contents, expired : SUBSET Snap!Manifests, dead : SUBSET Snap!Blobs]

LEMMA WorksAre ==
  Snap!Works = {Snap!NoWork} \cup [pc : {"staged"}, content : Snap!Contents]
               \cup [pc : {"globbed"}, content : Snap!Contents, names : SUBSET Snap!Names]
               \cup Putting \cup [pc : {"mark"}, content : Snap!Contents, list : SUBSET Snap!Manifests] \cup Purging
  BY DEF Snap!Works, Putting, Purging, Publishing, Enforcing

LEMMA Phase ==
  ASSUME Snap!SnapshotTypeOK, NEW w \in Writers
  PROVE  /\ work[w] \in Snap!Works
         /\ work[w].pc = "idle" <=> work[w] = Snap!NoWork
         /\ work[w].pc # "idle" => work[w].content \in Snap!Contents
         /\ work[w].pc = "globbed" => work[w].names \in SUBSET Snap!Names
         /\ work[w].pc \in Publishing => work[w] \in Putting
         /\ work[w].pc = "mark" => work[w].list \in SUBSET Snap!Manifests
         /\ work[w].pc \in Enforcing => work[w] \in Purging
<1>1. work[w] \in Snap!Works
  BY DEF Snap!SnapshotTypeOK
<1>2. CASE work[w] = Snap!NoWork
  BY <1>1, <1>2 DEF Snap!NoWork, Publishing, Enforcing
<1>3. CASE work[w] \in [pc : {"staged"}, content : Snap!Contents]
  BY <1>1, <1>3 DEF Snap!NoWork, Publishing, Enforcing
<1>4. CASE work[w] \in [pc : {"globbed"}, content : Snap!Contents, names : SUBSET Snap!Names]
  BY <1>1, <1>4 DEF Snap!NoWork, Publishing, Enforcing
<1>5. CASE work[w] \in Putting
  BY <1>1, <1>5 DEF Snap!NoWork, Publishing, Enforcing, Putting
<1>6. CASE work[w] \in [pc : {"mark"}, content : Snap!Contents, list : SUBSET Snap!Manifests]
  BY <1>1, <1>6 DEF Snap!NoWork, Publishing, Enforcing
<1>7. CASE work[w] \in Purging
  BY <1>1, <1>7 DEF Snap!NoWork, Publishing, Enforcing, Purging
<1> QED BY <1>1, <1>2, <1>3, <1>4, <1>5, <1>6, <1>7, WorksAre

LEMMA NoWorkWorks == Snap!NoWork \in Snap!Works
  BY DEF Snap!Works

LEMMA BlobFacts ==
  /\ \A version \in Snap!Versions : Snap!Database(version) \in Snap!Blobs
  /\ \A tree \in ArtifactTrees : Snap!Bundle(tree) \in Snap!Blobs
  /\ \A version, tree : Snap!Database(version) # Snap!Bundle(tree)
  /\ \A content : Snap!BlobsOf(content) = {Snap!Database(content.db), Snap!Bundle(content.tree)}
  /\ \A c, d : c.db = d.db /\ c.tree = d.tree => Snap!BlobsOf(c) = Snap!BlobsOf(d)
<1>1. \A version \in Snap!Versions : Snap!Database(version) \in Snap!Blobs
  BY DEF Snap!Blobs
<1>2. \A tree \in ArtifactTrees : Snap!Bundle(tree) \in Snap!Blobs
  BY DEF Snap!Blobs
<1>3. \A version, tree : Snap!Database(version) # Snap!Bundle(tree)
  BY DEF Snap!Database, Snap!Bundle
<1> QED BY <1>1, <1>2, <1>3 DEF Snap!BlobsOf

LEMMA SnapTypeInit ==
  ASSUME DirectoryParameters, Snap!Init
  PROVE  Snap!SnapshotTypeOK
<1>1. 0 \in Snap!Versions
  BY DEF DirectoryParameters, Snap!Versions
<1>2. work \in [Writers -> Snap!Works]
  BY NoWorkWorks DEF Snap!Init
<1> QED BY <1>1, <1>2 DEF Snap!Init, Snap!SnapshotTypeOK, Snap!Contents

\* A step of one writer's own record.
LEMMA WorkType ==
  ASSUME Snap!SnapshotTypeOK, NEW w \in Writers, NEW r \in Snap!Works,
         work' = [work EXCEPT ![w] = r]
  PROVE  /\ work' \in [Writers -> Snap!Works] /\ work'[w] = r
         /\ \A v \in Writers : v # w => work'[v] = work[v]
  BY DEF Snap!SnapshotTypeOK

LEMMA NameType ==
  ASSUME NEW m \in Snap!Manifests
  PROVE  /\ Snap!Name(m) \in Snap!Names /\ Snap!Name(m)[1] = m.at
         /\ m.at \in Snap!Instants /\ m.db \in Snap!Versions /\ m.tree \in ArtifactTrees
         /\ Snap!BlobsOf(m) \subseteq Snap!Blobs
  BY BlobFacts DEF Snap!Manifests, Snap!Names, Snap!Name

\* The same name sorts alike.
LEMMA SameName ==
  ASSUME NEW m, NEW n, Snap!Name(m) = Snap!Name(n)
  PROVE  m.at = n.at /\ m.db = n.db
  BY DEF Snap!Name

-----------------------------------------------------------------------------
(* What stays as it is.                                                    *)

LEMMA ListStays ==
  ASSUME IsFiniteSet(committed'), committed \subseteq committed', Snap!SnapshotTypeOK,
         DirectoryParameters,
         \A m \in reserved : m \in reserved' \/ \E n \in committed' : Snap!Name(n) = Snap!Name(m),
         NEW v \in Writers, ListSound(v), work'[v] = work[v]
  PROVE  ListSound(v)'
<1>1. work[v].pc \in Publishing => ListSound(v)'
  BY DEF ListSound, Publishing, Enforcing
<1>2. work[v].pc = "mark" => ListSound(v)'
  BY DEF ListSound, Witnessed, Publishing, Enforcing
<1>3. work[v].pc \in Enforcing => ListSound(v)'
  <2>1. \A m : Newer(m) \subseteq Newer(m)'
    BY DEF Newer
  <2>2. \A m : IsFiniteSet(Newer(m)')
    <3>1. \A m : Newer(m)' \subseteq committed'
      BY DEF Newer
    <3> QED BY <3>1, FS_Subset
  <2>3. ASSUME NEW m PROVE Cardinality(Newer(m)) <= Cardinality(Newer(m)') /\ Cardinality(Newer(m)') \in Nat
                           /\ Cardinality(Newer(m)) \in Nat
    BY <2>1, <2>2, FS_Subset, FS_CardinalityType
  <2>4. ASSUME work[v].pc \in Enforcing, NEW m \in work[v].expired
        PROVE  m \in committed' /\ Cardinality(Newer(m)') >= Minimum
    <3>1. m \in committed /\ Cardinality(Newer(m)) >= Minimum
      BY <2>4 DEF ListSound
    <3>2. Minimum \in Nat
      BY DEF DirectoryParameters
    <3>3. Cardinality(Newer(m)) <= Cardinality(Newer(m)') /\ Cardinality(Newer(m)') \in Nat
          /\ Cardinality(Newer(m)) \in Nat
      BY <2>3
    <3> QED BY <3>1, <3>2, <3>3
  <2> QED BY <2>4 DEF ListSound, Publishing, Enforcing
<1> QED BY <1>1, <1>2, <1>3 DEF ListSound

LEMMA SurvivesStays ==
  ASSUME DirectoryParameters, IsFiniteSet(committed'), committed \subseteq committed', Snap!NewestSurvives,
         gone' = gone, \A m \in committed' \ committed : \A name \in m.seen : name[1] < m.at
  PROVE  Snap!NewestSurvives'
<1>1. ASSUME NEW m \in gone PROVE Cardinality({n \in committed' : Snap!Precedes(m, n)}) >= Minimum
  <2> DEFINE old == {n \in committed : Snap!Precedes(m, n)}
             new == {n \in committed' : Snap!Precedes(m, n)}
  <2>1. IsFiniteSet(new) /\ old \subseteq new
    <3>1. new \subseteq committed'
      OBVIOUS
    <3> QED BY <3>1, FS_Subset
  <2>2. Cardinality(old) <= Cardinality(new) /\ Cardinality(old) \in Nat /\ Cardinality(new) \in Nat
    BY <2>1, FS_Subset, FS_CardinalityType
  <2>3. Cardinality(old) >= Minimum /\ Minimum \in Nat
    BY SameCardinality DEF Snap!NewestSurvives, DirectoryParameters
  <2> HIDE DEF old, new
  <2>4. Cardinality(new) >= Minimum
    BY <2>2, <2>3
  <2> QED BY <2>4 DEF new
<1> QED BY <1>1, SameCardinality DEF Snap!NewestSurvives

LEMMA PutStays ==
  ASSUME Snap!SnapshotTypeOK, NEW v \in Writers, PutSound(v), work'[v] = work[v],
         \A b \in Snap!Blobs : /\ store[b] = "whole" => store'[b] = "whole"
                               /\ store[b] = v => store'[b] = v
  PROVE  PutSound(v)'
<1>1. CASE work[v].pc \in Publishing
  <2>1. Snap!Database(work[v].content.db) \in Snap!Blobs /\ Snap!Bundle(work[v].content.tree) \in Snap!Blobs
    BY <1>1, Phase, BlobFacts DEF Putting, Snap!Contents
  <2> QED BY <2>1 DEF PutSound
<1>2. CASE work[v].pc \notin Publishing
  BY <1>2 DEF PutSound, Publishing
<1> QED BY <1>1, <1>2

LEMMA ReachStays ==
  ASSUME Snap!SnapshotTypeOK, Snap!CommittedReach, Snap!Published' \subseteq Snap!Published,
         \A b \in Snap!Blobs : store[b] = "whole" => store'[b] = "whole"
  PROVE  Snap!CommittedReach'
<1>1. \A m \in Snap!Published : Snap!BlobsOf(m) \subseteq Snap!Blobs
  BY NameType DEF Snap!SnapshotTypeOK, Snap!Published
<1> QED BY <1>1 DEF Snap!CommittedReach

LEMMA NoWorkSound ==
  ASSUME NEW v \in Writers, work[v] = Snap!NoWork
  PROVE  ListSound(v) /\ PutSound(v) /\ SweepsNothing(v) /\ AloneSound(v)
  BY DEF Snap!NoWork, ListSound, PutSound, SweepsNothing, AloneSound, Publishing, Enforcing

\* A step of w that others see in the blobs alone.
LEMMA OwnStep ==
  ASSUME DirectoryParameters, SnapInv, NEW w \in Writers, NEW r \in Snap!Works,
         work' = [work EXCEPT ![w] = r],
         UNCHANGED <<live, committed, gone, aged, reserved, promised>>,
         marker' \in BOOLEAN, overlapped' \in BOOLEAN, overlapped => overlapped',
         ~overlapped' /\ r # Snap!NoWork => \A v \in Writers : v # w => work[v] = Snap!NoWork,
         store' \in [Snap!Blobs -> {"absent", "whole"} \cup Writers],
         Unraced => Snap!CommittedReach' /\ \A v \in Writers : PutSound(v)',
         ListSound(w)', gone = {} => SweepsNothing(w)',
         ~overlapped => AloneSound(w)'
  PROVE  SnapInv'
<1>1. /\ work' \in [Writers -> Snap!Works] /\ work'[w] = r
      /\ \A v \in Writers : v # w => work'[v] = work[v]
  BY WorkType DEF SnapInv
<1>2. Snap!SnapshotTypeOK'
  BY <1>1 DEF SnapInv, Snap!SnapshotTypeOK, Snap!Contents
<1>3. Snap!NewestSurvives' /\ IsFiniteSet(committed')
  BY DEF SnapInv, Snap!NewestSurvives, Snap!Precedes
<1>4. ASSUME NEW v \in Writers PROVE ListSound(v)'
  BY <1>1, <1>3, ListStays DEF SnapInv
<1>5. Unraced' => Unraced
  BY DEF Unraced
<1>6. Unraced' => Snap!CommittedReach' /\ \A v \in Writers : PutSound(v)'
  BY <1>5
<1>7. gone' = {} => \A v \in Writers : SweepsNothing(v)'
  BY <1>1 DEF SnapInv, SweepsNothing
<1>8. ~overlapped' => Alone'
  <2> SUFFICES ASSUME ~overlapped' PROVE Alone'
    OBVIOUS
  <2>1. Alone /\ ~overlapped
    BY DEF SnapInv
  <2>2. \A u, v \in Writers : work'[u] # Snap!NoWork /\ work'[v] # Snap!NoWork => u = v
    BY <2>1, <1>1 DEF Alone
  <2>3. Snap!Published' = Snap!Published
    BY DEF Snap!Published
  <2>4. ASSUME NEW v \in Writers PROVE AloneSound(v)'
    BY <1>1, <2>1, <2>3 DEF Alone, AloneSound, Newest
  <2> QED BY <2>1, <2>2, <2>3, <2>4 DEF Alone, Newest
<1> QED BY <1>2, <1>3, <1>4, <1>6, <1>7, <1>8 DEF SnapInv

\* What a step does to the blobs that keeps what others rely on.
BlobsKept(w) ==
    \A b \in Snap!Blobs : /\ store[b] = "whole" => store'[b] = "whole"
                          /\ \A v \in Writers \ {w} : store[b] = v => store'[b] = v

LEMMA PutsStay ==
  ASSUME DirectoryParameters, SnapInv, NEW w \in Writers, BlobsKept(w), Unraced,
         UNCHANGED <<committed, gone>>,
         \A v \in Writers : v # w => work'[v] = work[v], PutSound(w)'
  PROVE  Snap!CommittedReach' /\ \A v \in Writers : PutSound(v)'
<1>1. Snap!CommittedReach'
  BY ReachStays DEF SnapInv, Snap!Published, BlobsKept
<1>2. ASSUME NEW v \in Writers, v # w PROVE PutSound(v)'
  BY <1>2, PutStays DEF SnapInv, BlobsKept
<1> QED BY <1>1, <1>2

\* A call that ends leaves the rest as it is.
LEMMA EndStep ==
  ASSUME DirectoryParameters, SnapInv, NEW w \in Writers, work' = [work EXCEPT ![w] = Snap!NoWork],
         UNCHANGED <<live, store, committed, gone, aged, reserved, marker, promised, overlapped>>
  PROVE  SnapInv'
<1>1. work'[w] = Snap!NoWork
  BY DEF SnapInv, Snap!SnapshotTypeOK
<1>2. ListSound(w)' /\ PutSound(w)' /\ SweepsNothing(w)' /\ AloneSound(w)'
  BY <1>1 DEF Snap!NoWork, ListSound, PutSound, SweepsNothing, AloneSound, Publishing, Enforcing
<1>3. Unraced => Snap!CommittedReach' /\ \A v \in Writers : PutSound(v)'
  BY <1>1, <1>2, PutsStay DEF SnapInv, Snap!SnapshotTypeOK, BlobsKept
<1> QED BY <1>2, <1>3, NoWorkWorks, OwnStep DEF SnapInv, Snap!SnapshotTypeOK

-----------------------------------------------------------------------------
(* Reading.                                                                *)

LEMMA StageStep ==
  ASSUME DirectoryParameters, SnapInv, NEW w \in Writers, Snap!Stage(w)
  PROVE  SnapInv'
<1> DEFINE r == [pc |-> "staged", content |-> live]
<1>1. live \in Snap!Contents /\ r \in Snap!Works /\ r # Snap!NoWork
  BY DEF SnapInv, Snap!SnapshotTypeOK, Snap!Works, Snap!NoWork
<1>2. work' = [work EXCEPT ![w] = r]
  BY DEF Snap!Stage
<1>3. work'[w] = r
  BY <1>1, <1>2, WorkType DEF SnapInv
<1>4. ListSound(w)' /\ PutSound(w)' /\ SweepsNothing(w)'
  BY <1>3 DEF ListSound, PutSound, SweepsNothing, Publishing, Enforcing
<1>5. ~overlapped => AloneSound(w)'
  <2> SUFFICES ASSUME ~overlapped PROVE AloneSound(w)'
    OBVIOUS
  <2>1. promised <= live.db /\ live.db <= live.db
    BY DEF SnapInv, Alone, Snap!SnapshotTypeOK, Snap!Contents, Snap!Versions, DirectoryParameters
  <2> QED BY <1>3, <2>1 DEF Snap!Stage, AloneSound, Publishing, Enforcing
<1>6. /\ UNCHANGED <<live, store, committed, gone, aged, reserved, marker, promised>>
      /\ overlapped' = (overlapped \/ \E x \in Writers : work[x] # Snap!NoWork)
  BY DEF Snap!Stage
<1> HIDE DEF r
<1>7. ~overlapped' => \A v \in Writers : v # w => work[v] = Snap!NoWork
  BY <1>6
<1>8. marker' \in BOOLEAN /\ overlapped' \in BOOLEAN /\ (overlapped => overlapped')
  BY <1>6 DEF SnapInv, Snap!SnapshotTypeOK
<1>9. \A v \in Writers : v # w => work'[v] = work[v]
  BY <1>1, <1>2, WorkType DEF SnapInv
<1>10. store' \in [Snap!Blobs -> {"absent", "whole"} \cup Writers] /\ BlobsKept(w)
  BY <1>6 DEF SnapInv, Snap!SnapshotTypeOK, BlobsKept
<1>11. Unraced => Snap!CommittedReach' /\ \A v \in Writers : PutSound(v)'
  BY <1>4, <1>6, <1>9, <1>10, PutsStay
<1> QED BY <1>1, <1>2, <1>4, <1>5, <1>6, <1>7, <1>8, <1>10, <1>11, OwnStep

\* The only call there is while none have overlapped.
LEMMA OnlyOne ==
  ASSUME SnapInv, NEW w \in Writers, work[w] # Snap!NoWork, ~overlapped
  PROVE  Alone /\ AloneSound(w) /\ \A v \in Writers : v # w => work[v] = Snap!NoWork
  BY DEF SnapInv, Alone

\* The shape all steps between the first and the last have.
LEMMA NextPhase ==
  ASSUME DirectoryParameters, SnapInv, NEW w \in Writers, work[w] # Snap!NoWork,
         NEW r \in Snap!Works,
         work' = [work EXCEPT ![w] = r],
         UNCHANGED <<live, committed, gone, aged, reserved, promised, overlapped>>,
         marker' \in BOOLEAN,
         UNCHANGED store \/ (store' \in [Snap!Blobs -> {"absent", "whole"} \cup Writers] /\ BlobsKept(w)),
         ListSound(w)', Unraced => PutSound(w)', gone = {} => SweepsNothing(w)',
         ~overlapped => AloneSound(w)'
  PROVE  SnapInv'
<1>1. overlapped' \in BOOLEAN /\ (overlapped => overlapped')
  BY DEF SnapInv, Snap!SnapshotTypeOK
<1>2. ~overlapped' => \A v \in Writers : v # w => work[v] = Snap!NoWork
  BY OnlyOne
<1>3. store' \in [Snap!Blobs -> {"absent", "whole"} \cup Writers] /\ BlobsKept(w)
  BY DEF SnapInv, Snap!SnapshotTypeOK, BlobsKept
<1>4. \A v \in Writers : v # w => work'[v] = work[v]
  BY WorkType DEF SnapInv
<1>5. Unraced => Snap!CommittedReach' /\ \A v \in Writers : PutSound(v)'
  BY <1>3, <1>4, PutsStay
<1> QED BY <1>1, <1>2, <1>3, <1>5, OwnStep

LEMMA GlobStep ==
  ASSUME DirectoryParameters, SnapInv, NEW w \in Writers, Snap!Glob(w)
  PROVE  SnapInv'
<1> DEFINE names == {Snap!Name(m) : m \in Snap!Published \cup reserved}
           r == [pc |-> "globbed", content |-> work[w].content, names |-> names]
<1>0. work[w].pc = "staged" /\ work[w] # Snap!NoWork
  BY DEF Snap!Glob, Snap!NoWork
<1>1. names \subseteq Snap!Names
  BY NameType DEF SnapInv, Snap!SnapshotTypeOK, Snap!Published
<1>2. work[w].content \in Snap!Contents
  BY <1>0, Phase DEF SnapInv
<1>3. work' = [work EXCEPT ![w] = r]
  BY DEF Snap!Glob
<1> HIDE DEF names
<1>4. r \in Snap!Works
  BY <1>1, <1>2 DEF Snap!Works
<1>5. work'[w] = r
  BY <1>3, <1>4, WorkType DEF SnapInv
<1>6. ListSound(w)' /\ PutSound(w)' /\ SweepsNothing(w)'
  BY <1>5 DEF ListSound, PutSound, SweepsNothing, Publishing, Enforcing
<1>7. UNCHANGED <<live, store, committed, gone, aged, reserved, marker, promised, overlapped>>
  BY DEF Snap!Glob
<1>8. ~overlapped => AloneSound(w)'
  <2> SUFFICES ASSUME ~overlapped PROVE AloneSound(w)'
    OBVIOUS
  <2>1. AloneSound(w)
    BY <1>0, OnlyOne
  <2>2. names = {Snap!Name(m) : m \in Snap!Published' \cup reserved'}
    BY <1>7 DEF names, Snap!Published
  <2> QED BY <1>0, <1>5, <1>7, <2>1, <2>2 DEF AloneSound, Publishing, Enforcing
<1> HIDE DEF r
<1>9. marker' \in BOOLEAN
  BY <1>7 DEF SnapInv, Snap!SnapshotTypeOK
<1> QED BY <1>0, <1>3, <1>4, <1>6, <1>7, <1>8, <1>9, NextPhase

\* What a listing that verified says of the directory.
LEMMA ListingFacts ==
  ASSUME Snap!SnapshotTypeOK, NEW names, Snap!Sound(names)
  PROVE  /\ Snap!Listing(names) \subseteq Snap!Published
         /\ \A name \in names : \E m \in Snap!Listing(names) : Snap!Name(m) = name
         /\ names = {Snap!Name(m) : m \in Snap!Published \cup reserved} => Snap!Listing(names) = Snap!Published
<1>1. Snap!Listing(names) \subseteq Snap!Published
  BY DEF Snap!Listing
<1>2. \A name \in names : \E m \in Snap!Listing(names) : Snap!Name(m) = name
  BY DEF Snap!Sound, Snap!Listing
<1>3. names = {Snap!Name(m) : m \in Snap!Published \cup reserved} => Snap!Listing(names) = Snap!Published
  BY DEF Snap!Listing
<1> QED BY <1>1, <1>2, <1>3

LEMMA LatestFacts ==
  ASSUME NEW list, NEW m \in list, Snap!Latest(list) = {m}, list = Snap!Published
  PROVE  Newest(m)
  BY DEF Snap!Latest, Newest

LEMMA ListedStep ==
  ASSUME DirectoryParameters, SnapInv, NEW w \in Writers, Snap!Listed(w)
  PROVE  SnapInv'
<1> DEFINE names == work[w].names
           content == work[w].content
           list == Snap!Listing(names)
<1>0. /\ work[w].pc = "globbed" /\ work[w] # Snap!NoWork
      /\ UNCHANGED <<live, store, committed, gone, aged, reserved, marker, promised, overlapped>>
      /\ Snap!SnapshotTypeOK /\ marker' \in BOOLEAN
  BY DEF Snap!Listed, Snap!NoWork, SnapInv, Snap!SnapshotTypeOK
<1>1. CASE ~Snap!Sound(names)
  BY <1>0, <1>1, EndStep DEF Snap!Listed
<1>2. names \subseteq Snap!Names /\ content \in Snap!Contents
  BY <1>0, Phase
<1>3. ~overlapped => AloneSound(w) /\ names = {Snap!Name(m) : m \in Snap!Published \cup reserved}
  BY <1>0, OnlyOne DEF AloneSound
<1>4. list \in SUBSET Snap!Manifests /\ list \subseteq committed
  BY <1>0 DEF Snap!Listing, Snap!Published, Snap!SnapshotTypeOK
<1>5. CASE Snap!Sound(names) /\ Snap!Same(list, content)
  <2> DEFINE r == [pc |-> "mark", content |-> content, list |-> list]
  <2>1. work' = [work EXCEPT ![w] = r]
    BY <1>5 DEF Snap!Listed
  <2> HIDE DEF names, content, list
  <2>2. r \in Snap!Works
    BY <1>2, <1>4 DEF Snap!Works
  <2>3. work'[w] = r
    BY <1>0, <2>1, <2>2, WorkType
  <2>4. ListSound(w)'
    <3>1. \A l : l \subseteq committed' => Witnessed(l)'
      BY DEF Witnessed
    <3> QED BY <1>0, <1>4, <2>3, <3>1 DEF ListSound, Publishing, Enforcing
  <2>5. PutSound(w)' /\ SweepsNothing(w)'
    BY <2>3 DEF PutSound, SweepsNothing
  <2>6. ~overlapped => AloneSound(w)'
    <3> SUFFICES ASSUME ~overlapped PROVE AloneSound(w)'
      OBVIOUS
    <3>1. list = Snap!Published
      BY <1>0, <1>3, <1>5, ListingFacts DEF list
    <3>2. PICK t \in list : Snap!Latest(list) = {t} /\ t.db = content.db
      BY <1>5 DEF Snap!Same
    <3>3. Newest(t) /\ t \in Snap!Published
      BY <3>1, <3>2, LatestFacts
    <3>4. \E s \in Snap!Published : Newest(s) /\ s.db = content.db
      BY <3>2, <3>3
    <3> QED BY <1>0, <1>3, <2>3, <3>1, <3>4
        DEF AloneSound, Newest, Snap!Published, Publishing, Enforcing, content
  <2> HIDE DEF r
  <2> QED BY <1>0, <2>1, <2>2, <2>4, <2>5, <2>6, NextPhase
<1>6. CASE Snap!Sound(names) /\ ~Snap!Same(list, content)
  <2>1. PICK at \in Snap!Dates(list) : work' = [work EXCEPT ![w] =
           [pc |-> "database", list |-> list, content |-> content, half |-> FALSE,
            fresh |-> {b \in Snap!BlobsOf(content) : store[b] = "absent"},
            manifest |-> [at |-> at, db |-> content.db, tree |-> content.tree,
                          by |-> w, seen |-> names]]]
    BY <1>6 DEF Snap!Listed
  <2> DEFINE fresh == {b \in Snap!BlobsOf(content) : store[b] = "absent"}
             m == [at |-> at, db |-> content.db, tree |-> content.tree, by |-> w, seen |-> names]
             r == [pc |-> "database", list |-> list, content |-> content, half |-> FALSE,
                   fresh |-> fresh, manifest |-> m]
  <2>2. at \in Snap!Instants /\ \A n \in list : n.at < at
    BY DEF Snap!Dates
  <2>3. fresh \subseteq Snap!Blobs
    BY <1>2, BlobFacts DEF Snap!Contents
  <2>4. m \in Snap!Manifests
    BY <1>2, <2>2 DEF Snap!Manifests, Snap!Contents
  <2>5. \A name \in names : name[1] < at
    <3> SUFFICES ASSUME NEW name \in names PROVE name[1] < at
      OBVIOUS
    <3>1. PICK n \in list : Snap!Name(n) = name
      BY <1>0, <1>6, ListingFacts
    <3> QED BY <1>4, <2>2, <3>1, NameType
  <2> HIDE DEF names, content, list, fresh
  <2>6. /\ m.at = at /\ m.db = content.db /\ m.tree = content.tree /\ m.by = w /\ m.seen = names
    OBVIOUS
  <2> HIDE DEF m
  <2>7. r \in Snap!Works
    BY <1>2, <1>4, <2>3, <2>4 DEF Snap!Works
  <2>8. work' = [work EXCEPT ![w] = r]
    BY <2>1 DEF names, content, list, fresh, m
  <2>9. work'[w] = r
    BY <1>0, <2>7, <2>8, WorkType
  <2>10. ListSound(w)'
    BY <1>0, <1>4, <2>2, <2>5, <2>6, <2>9 DEF ListSound, Publishing, Enforcing
  <2>11. PutSound(w)' /\ SweepsNothing(w)'
    BY <2>9 DEF PutSound, SweepsNothing
  <2>12. ~overlapped => AloneSound(w)'
    <3> SUFFICES ASSUME ~overlapped PROVE AloneSound(w)'
      OBVIOUS
    <3>1. list = Snap!Published
      BY <1>0, <1>3, <1>6, ListingFacts DEF list
    <3> QED BY <1>0, <1>3, <2>9, <3>1
        DEF AloneSound, Newest, Snap!Published, Publishing, Enforcing, content
  <2> HIDE DEF r
  <2> QED BY <1>0, <2>7, <2>8, <2>10, <2>11, <2>12, NextPhase
<1> QED BY <1>1, <1>5, <1>6

-----------------------------------------------------------------------------
(* Publishing.                                                             *)

\* The blob a writer has to put, and the phase that comes next.
Puts(w, b, next) ==
    LET content == work[w].content
    IN  \/ work[w].pc = "database" /\ b = Snap!Database(content.db) /\ next = "artifacts"
        \/ work[w].pc = "artifacts" /\ b = Snap!Bundle(content.tree) /\ next = "manifest"

LEMMA PuttingFacts ==
  ASSUME Snap!SnapshotTypeOK, NEW w \in Writers, NEW b, NEW next, Puts(w, b, next)
  PROVE  /\ work[w] \in Putting /\ work[w] # Snap!NoWork /\ work[w].pc \in Publishing
         /\ work[w].pc # "manifest"
         /\ b \in Snap!Blobs /\ next \in Publishing
         /\ Snap!Database(work[w].content.db) \in Snap!Blobs
<1>1. work[w].pc \in Publishing /\ work[w] # Snap!NoWork /\ next \in Publishing
                                   /\ work[w].pc # "manifest"
  BY DEF Puts, Publishing, Snap!NoWork
<1>2. work[w] \in Putting
  BY <1>1, Phase
<1>3. Snap!Database(work[w].content.db) \in Snap!Blobs /\ Snap!Bundle(work[w].content.tree) \in Snap!Blobs
  BY <1>2, BlobFacts DEF Putting, Snap!Contents
<1> QED BY <1>1, <1>2, <1>3 DEF Puts

\* Still the blobs of the same manifest, in this phase or the next.
LEMMA PutPhase ==
  ASSUME DirectoryParameters, SnapInv, NEW w \in Writers, NEW b, NEW next, Puts(w, b, next),
         NEW pc \in {work[w].pc, next}, NEW half \in BOOLEAN,
         work' = [work EXCEPT ![w] = [work[w] EXCEPT !.pc = pc, !.half = half]],
         UNCHANGED <<live, committed, gone, aged, reserved, marker, promised, overlapped>>,
         UNCHANGED store \/ (store' \in [Snap!Blobs -> {"absent", "whole"} \cup Writers] /\ BlobsKept(w)),
         half => pc # next /\ b \in work[w].fresh /\ store'[b] = w,
         pc = next => (Unraced => store'[b] = "whole"),
         pc # next => half
  PROVE  SnapInv'
<1> DEFINE r == [work[w] EXCEPT !.pc = pc, !.half = half]
<1>1. /\ work[w] \in Putting /\ work[w] # Snap!NoWork /\ work[w].pc \in Publishing
      /\ b \in Snap!Blobs /\ next \in Publishing /\ work[w].pc # "manifest" /\ Snap!SnapshotTypeOK
      /\ Snap!Database(work[w].content.db) \in Snap!Blobs
  BY PuttingFacts DEF SnapInv
<1>2. /\ r \in Putting /\ r.pc = pc /\ r.half = half /\ r.content = work[w].content
      /\ r.list = work[w].list /\ r.fresh = work[w].fresh /\ r.manifest = work[w].manifest
  BY <1>1 DEF Putting
<1> HIDE DEF r
<1>3. r \in Snap!Works
  BY <1>2, WorksAre
<1>4. work' = [work EXCEPT ![w] = r]
  BY DEF r
<1>5. work'[w] = r
  BY <1>1, <1>3, <1>4, WorkType
<1>6. ListSound(w) /\ (Unraced => PutSound(w)) /\ (~overlapped => AloneSound(w))
  BY <1>1, OnlyOne DEF SnapInv
<1>7. b = Snap!Database(work[w].manifest.db) \/ b = Snap!Bundle(work[w].manifest.tree)
  BY <1>1, <1>6 DEF ListSound, Puts
<1>8. ListSound(w)'
  <2>1. pc = "database" /\ half => Snap!Database(work[w].manifest.db) \in work[w].fresh
    BY <1>1, <1>6 DEF ListSound, Puts
  <2>2. pc = "artifacts" /\ half => Snap!Bundle(work[w].manifest.tree) \in work[w].fresh
    BY <1>1, <1>6 DEF ListSound, Puts
  <2>3. ~(pc = "manifest" /\ half) /\ pc \in Publishing
    BY <1>1 DEF Puts
  <2> QED BY <1>1, <1>2, <1>5, <1>6, <2>1, <2>2, <2>3 DEF ListSound, Publishing, Enforcing
<1>9. Unraced => PutSound(w)'
  <2> SUFFICES ASSUME Unraced PROVE PutSound(w)'
    OBVIOUS
  <2>1. \A x \in Snap!Blobs : store[x] = "whole" => store'[x] = "whole"
    BY DEF BlobsKept
  <2>2. CASE work[w].pc = "database"
    BY <1>1, <1>2, <1>5, <2>2 DEF PutSound, Puts
  <2>3. CASE work[w].pc = "artifacts"
    <3>1. store'[Snap!Database(work[w].content.db)] = "whole"
      BY <1>1, <1>6, <2>1, <2>3 DEF PutSound
    <3> QED BY <1>1, <1>2, <1>5, <2>3, <3>1 DEF PutSound, Puts
  <2> QED BY <2>2, <2>3 DEF Puts
<1>10. gone = {} => SweepsNothing(w)'
  BY <1>2, <1>5, <1>1 DEF SweepsNothing, Puts, Publishing
<1>11. ~overlapped => AloneSound(w)'
  <2> SUFFICES ASSUME ~overlapped PROVE AloneSound(w)'
    OBVIOUS
  <2>1. Snap!Published' = Snap!Published
    BY DEF Snap!Published
  <2> QED BY <1>1, <1>2, <1>5, <1>6, <2>1 DEF AloneSound, Puts, Publishing, Enforcing
<1> QED BY <1>1, <1>3, <1>4, <1>8, <1>9, <1>10, <1>11, NextPhase DEF Snap!SnapshotTypeOK

LEMMA PutStep ==
  ASSUME DirectoryParameters, SnapInv, NEW w \in Writers, NEW b, NEW next, Puts(w, b, next),
         Snap!Put(w, b, next),
         UNCHANGED <<live, committed, gone, aged, reserved, marker, promised, overlapped>>
  PROVE  SnapInv'
<1>1. /\ work[w] \in Putting /\ work[w] # Snap!NoWork /\ work[w].pc \in Publishing
      /\ b \in Snap!Blobs /\ next \in Publishing /\ work[w].pc # "manifest" /\ Snap!SnapshotTypeOK
  BY PuttingFacts DEF SnapInv
<1>2. /\ store \in [Snap!Blobs -> {"absent", "whole"} \cup Writers] /\ work[w].half \in BOOLEAN
      /\ "absent" \notin Writers /\ "whole" \notin Writers /\ work[w].pc # next
  BY <1>1 DEF Snap!SnapshotTypeOK, Putting, DirectoryParameters, Puts
<1>3. work[w].half => b \in work[w].fresh
  BY <1>1 DEF SnapInv, ListSound, Puts
<1>4. CASE work' = [work EXCEPT ![w] = Snap!NoWork] /\ UNCHANGED store
  BY <1>4, EndStep
<1>5. CASE b \in work[w].fresh /\ work[w].half
  <2>1. /\ store' = [store EXCEPT ![b] = IF store[b] = w THEN "whole" ELSE store[b]]
        /\ work' = [work EXCEPT ![w] = [work[w] EXCEPT !.pc = next, !.half = FALSE]]
    BY <1>5 DEF Snap!Put, Snap!Fill, Snap!ReservedBy
  <2>2. store' \in [Snap!Blobs -> {"absent", "whole"} \cup Writers] /\ BlobsKept(w)
    BY <1>1, <1>2, <2>1 DEF BlobsKept
  <2>3. Unraced => store[b] = w
    BY <1>5 DEF SnapInv, PutSound, Puts
  <2>4. Unraced => store'[b] = "whole"
    BY <1>1, <1>2, <2>1, <2>3
  <2>5. next \in {work[w].pc, next} /\ FALSE \in BOOLEAN
    OBVIOUS
  <2> QED BY <2>1, <2>2, <2>4, <2>5, PutPhase
<1>6. CASE b \in work[w].fresh /\ ~work[w].half /\ store[b] = "absent" /\ HardLinks
  <2>1. /\ store' = [store EXCEPT ![b] = "whole"]
        /\ work' = [work EXCEPT ![w].pc = next]
    BY <1>6 DEF Snap!Put, Snap!Create
  <2>2. store' \in [Snap!Blobs -> {"absent", "whole"} \cup Writers] /\ BlobsKept(w)
    BY <1>1, <1>2, <1>6, <2>1 DEF BlobsKept
  <2>3. work' = [work EXCEPT ![w] = [work[w] EXCEPT !.pc = next, !.half = FALSE]]
    BY <1>1, <1>2, <1>6, <2>1 DEF Putting
  <2>4. store'[b] = "whole" /\ next \in {work[w].pc, next} /\ FALSE \in BOOLEAN
    BY <1>1, <1>2, <2>1
  <2> QED BY <2>2, <2>3, <2>4, PutPhase
<1>7. CASE b \in work[w].fresh /\ ~work[w].half /\ store[b] = "absent" /\ ~HardLinks
  <2>1. /\ store' = [store EXCEPT ![b] = w]
        /\ work' = [work EXCEPT ![w].half = TRUE]
    BY <1>7 DEF Snap!Put, Snap!Create, Snap!ReservedBy
  <2>2. store' \in [Snap!Blobs -> {"absent", "whole"} \cup Writers] /\ BlobsKept(w)
    BY <1>1, <1>2, <1>7, <2>1 DEF BlobsKept
  <2>3. work' = [work EXCEPT ![w] = [work[w] EXCEPT !.pc = work[w].pc, !.half = TRUE]]
    BY <1>1, <2>1 DEF Putting
  <2>4. store'[b] = w /\ work[w].pc \in {work[w].pc, next} /\ TRUE \in BOOLEAN
    BY <1>1, <1>2, <2>1
  <2> QED BY <1>2, <1>7, <2>2, <2>3, <2>4, PutPhase
<1>8. CASE b \notin work[w].fresh /\ store[b] = "whole"
  <2>1. /\ UNCHANGED store
        /\ work' = [work EXCEPT ![w] = [work[w] EXCEPT !.pc = next]]
    BY <1>8 DEF Snap!Put, Snap!Verified
  <2>2. work' = [work EXCEPT ![w] = [work[w] EXCEPT !.pc = next, !.half = FALSE]]
    BY <1>1, <1>2, <1>3, <1>8, <2>1 DEF Putting
  <2> QED BY <1>1, <1>2, <1>8, <2>1, <2>2, PutPhase
<1> QED BY <1>4, <1>5, <1>6, <1>7, <1>8 DEF Snap!Put, Snap!Create, Snap!Verified

LEMMA PutDatabaseStep ==
  ASSUME DirectoryParameters, SnapInv, NEW w \in Writers, Snap!PutDatabase(w)
  PROVE  SnapInv'
<1>1. Puts(w, Snap!Database(work[w].content.db), "artifacts")
  BY DEF Snap!PutDatabase, Puts
<1> QED BY <1>1, PutStep DEF Snap!PutDatabase

LEMMA PutArtifactsStep ==
  ASSUME DirectoryParameters, SnapInv, NEW w \in Writers, Snap!PutArtifacts(w)
  PROVE  SnapInv'
<1>1. Puts(w, Snap!Bundle(work[w].content.tree), "manifest")
  BY DEF Snap!PutArtifacts, Puts
<1> QED BY <1>1, PutStep DEF Snap!PutArtifacts

\* A step that publishes or reserves a manifest.
LEMMA PublishStep ==
  ASSUME DirectoryParameters, SnapInv, NEW w \in Writers, work[w] # Snap!NoWork,
         NEW r \in Snap!Works,
         work' = [work EXCEPT ![w] = r],
         UNCHANGED <<live, store, gone, aged, marker, promised, overlapped>>,
         committed \subseteq committed', committed' \subseteq Snap!Manifests,
         IsFiniteSet(committed'),
         reserved' \subseteq Snap!Manifests,
         \A m \in committed' \ committed : \A name \in m.seen : name[1] < m.at,
         \A m \in reserved : m \in reserved' \/ \E n \in committed' : Snap!Name(n) = Snap!Name(m),
         ListSound(w)', Unraced => Snap!CommittedReach' /\ PutSound(w)',
         gone = {} => SweepsNothing(w)',
         ~overlapped => /\ \A m, n \in Snap!Published' : m.at = n.at => m = n
                        /\ \A m \in Snap!Published' : Newest(m)' => promised <= m.db
                        /\ AloneSound(w)'
  PROVE  SnapInv'
<1>1. /\ work' \in [Writers -> Snap!Works] /\ work'[w] = r
      /\ \A v \in Writers : v # w => work'[v] = work[v]
  BY WorkType DEF SnapInv
<1>2. Snap!SnapshotTypeOK'
  BY <1>1 DEF SnapInv, Snap!SnapshotTypeOK, Snap!Contents
<1>3. Snap!NewestSurvives'
  BY SurvivesStays DEF SnapInv
<1>4. ASSUME NEW v \in Writers PROVE ListSound(v)'
  BY <1>1, ListStays DEF SnapInv
<1>5. Unraced' <=> Unraced
  BY DEF Unraced
<1>6. Unraced' => \A v \in Writers : PutSound(v)'
  BY <1>1, <1>5, PutStays DEF SnapInv
<1>7. gone' = {} => \A v \in Writers : SweepsNothing(v)'
  BY <1>1 DEF SnapInv, SweepsNothing
<1>8. ~overlapped' => Alone'
  <2> SUFFICES ASSUME ~overlapped PROVE Alone'
    OBVIOUS
  <2>1. Alone /\ \A v \in Writers : v # w => work[v] = Snap!NoWork
    BY OnlyOne
  <2>2. \A u, v \in Writers : work'[u] # Snap!NoWork /\ work'[v] # Snap!NoWork => u = v
    BY <2>1, <1>1
  <2>3. \A m \in gone' : \E n \in Snap!Published' : m.at < n.at
    BY <2>1 DEF Alone, Snap!Published
  <2>4. ASSUME NEW v \in Writers PROVE AloneSound(v)'
    <3>1. v # w => work'[v] = Snap!NoWork
      BY <1>1, <2>1
    <3>2. work'[v] = Snap!NoWork => AloneSound(v)'
      BY DEF Snap!NoWork, AloneSound, Publishing, Enforcing
    <3> QED BY <3>1, <3>2
  <2>5. promised' <= live'.db
    BY <2>1 DEF Alone
  <2> QED BY <2>2, <2>3, <2>4, <2>5 DEF Alone
<1> QED BY <1>2, <1>3, <1>4, <1>5, <1>6, <1>7, <1>8 DEF SnapInv

LEMMA CommitStep ==
  ASSUME DirectoryParameters, SnapInv, NEW w \in Writers, Snap!Commit(w)
  PROVE  SnapInv'
<1>0. PICK m : m = work[w].manifest
  OBVIOUS
<1>1. /\ work[w].pc = "manifest" /\ work[w] # Snap!NoWork /\ work[w].pc \in Publishing
         /\ Snap!SnapshotTypeOK
      /\ UNCHANGED <<live, store, gone, aged, marker, promised, overlapped>>
  BY DEF Snap!Commit, Snap!NoWork, Publishing, SnapInv
<1>2. work[w] \in Putting /\ m \in Snap!Manifests /\ work[w].content \in Snap!Contents
      /\ work[w].list \in SUBSET Snap!Manifests
  BY <1>0, <1>1, Phase DEF Putting
<1>3. ListSound(w) /\ (Unraced => PutSound(w)) /\ (~overlapped => Alone /\ AloneSound(w))
  BY <1>1, OnlyOne DEF SnapInv
<1>4. /\ work[w].list \subseteq committed /\ m.by = w
      /\ m.db = work[w].content.db /\ m.tree = work[w].content.tree
      /\ \A n \in work[w].list : n.at < m.at
      /\ \A name \in m.seen : name[1] < m.at
      /\ work[w].half => m \in reserved \/ \E n \in committed : Snap!Name(n) = Snap!Name(m)
  BY <1>0, <1>1, <1>3 DEF ListSound
<1>5. ~overlapped => /\ work[w].list = Snap!Published /\ (work[w].half => m \in reserved)
                     /\ promised <= m.db /\ m.db <= live.db
  BY <1>0, <1>1, <1>3, <1>4 DEF AloneSound, Snap!NoWork
<1>6. CASE work' = [work EXCEPT ![w] = Snap!NoWork] /\ UNCHANGED <<committed, reserved>>
  BY <1>1, <1>6, EndStep
<1>7. CASE /\ HardLinks \/ work[w].half
           /\ committed' = IF HardLinks \/ m \in reserved THEN committed \cup {m} ELSE committed
           /\ reserved' = reserved \ {m}
           /\ work' = [work EXCEPT ![w] =
                 [pc |-> "mark", content |-> @.content, list |-> @.list \cup {m}]]
  <2> DEFINE r == [pc |-> "mark", content |-> work[w].content, list |-> work[w].list \cup {m}]
  <2>1. work' = [work EXCEPT ![w] = r]
    BY <1>7
  <2>2. r \in Snap!Works
    BY <1>2 DEF Snap!Works
  <2>3. work'[w] = r
    BY <1>1, <2>1, <2>2, WorkType
  <2>4. committed \subseteq committed' /\ committed' \subseteq committed \cup {m}
    BY <1>7
  <2>5. committed' \subseteq Snap!Manifests /\ reserved' \subseteq Snap!Manifests
    BY <1>1, <1>2, <1>7, <2>4 DEF Snap!SnapshotTypeOK
  <2>6. IsFiniteSet(committed')
    BY <2>4, FS_AddElement, FS_Subset DEF SnapInv
  <2>7. \A x \in committed' \ committed : \A name \in x.seen : name[1] < x.at
    BY <1>4, <2>4
  <2>8. \A x \in reserved : x \in reserved' \/ \E n \in committed' : Snap!Name(n) = Snap!Name(x)
    BY <1>7
  <2>9. ASSUME NEW l, l = work[w].list \cup {m} PROVE Witnessed(l)'
    <3>0. work[w].list \in SUBSET committed'
      BY <1>4, <2>4
    <3>1. CASE m \in committed'
      <4>1. l \in SUBSET committed'
        BY <2>9, <3>0, <3>1
      <4> QED BY <4>1 DEF Witnessed
    <3>2. CASE m \notin committed'
      <4>1. PICK n \in committed' : Snap!Name(m) = Snap!Name(n)
        BY <1>4, <1>7, <2>4, <3>2
      <4> QED BY <1>2, <1>4, <2>9, <3>0, <4>1 DEF Witnessed
    <3> QED BY <3>1, <3>2
  <2>10. ListSound(w)'
    BY <2>3, <2>9 DEF ListSound, Publishing, Enforcing
  <2>11. PutSound(w)' /\ SweepsNothing(w)'
    BY <2>3 DEF PutSound, SweepsNothing
  <2>12. Unraced => Snap!CommittedReach'
    <3> SUFFICES ASSUME Unraced PROVE Snap!CommittedReach'
      OBVIOUS
    <3>1. \A b \in Snap!BlobsOf(m) : store[b] = "whole"
      BY <1>1, <1>3, <1>4 DEF PutSound, Snap!BlobsOf
    <3>2. Snap!Published' \subseteq Snap!Published \cup {m}
      BY <1>1, <2>4 DEF Snap!Published
    <3> QED BY <1>1, <3>1, <3>2 DEF SnapInv, Snap!CommittedReach
  <2>13. ~overlapped => /\ \A x, y \in Snap!Published' : x.at = y.at => x = y
                        /\ \A x \in Snap!Published' : Newest(x)' => promised <= x.db
                        /\ AloneSound(w)'
    <3> SUFFICES ASSUME ~overlapped
                 PROVE  /\ \A x, y \in Snap!Published' : x.at = y.at => x = y
                        /\ \A x \in Snap!Published' : Newest(x)' => promised <= x.db
                        /\ AloneSound(w)'
      OBVIOUS
    <3>1. \A n \in Snap!Published : n \in Snap!Manifests /\ n.at < m.at /\ n.at \in Int
                                                            /\ m.at \in Int
      BY <1>1, <1>2, <1>4, <1>5, NameType DEF Snap!Published, Snap!SnapshotTypeOK, Snap!Instants
    <3>2. m \notin gone
      <4> SUFFICES ASSUME m \in gone PROVE FALSE
        OBVIOUS
      <4>1. PICK n \in Snap!Published : m.at < n.at
        BY <1>3 DEF Alone
      <4> QED BY <3>1, <4>1
    <3>3. Snap!Published' = Snap!Published \cup {m}
      BY <1>1, <1>5, <1>7, <3>2 DEF Snap!Published
    <3>4. m.at \in Int
      BY <1>2, NameType DEF Snap!Instants
    <3>5. \A x, y \in Snap!Published' : x.at = y.at => x = y
      BY <1>3, <3>1, <3>3, <3>4 DEF Alone
    <3>6. Newest(m)' /\ \A x \in Snap!Published' : Newest(x)' => x = m
      BY <3>1, <3>3, <3>4 DEF Newest
    <3>7. \E t \in Snap!Published' : Newest(t)' /\ t.db = work[w].content.db
      BY <1>4, <3>3, <3>6
    <3>8. AloneSound(w)'
      BY <1>1, <1>4, <1>5, <2>3, <3>3, <3>7 DEF AloneSound, Publishing, Enforcing, Newest
    <3> QED BY <1>5, <3>5, <3>6, <3>8
  <2> HIDE DEF r
  <2> QED BY <1>1, <2>1, <2>2, <2>4, <2>5, <2>6, <2>7, <2>8, <2>10, <2>11, <2>12, <2>13, PublishStep
<1>8. CASE /\ ~HardLinks /\ ~work[w].half
           /\ reserved' = reserved \cup {m}
           /\ work' = [work EXCEPT ![w].half = TRUE]
           /\ UNCHANGED committed
  <2> DEFINE r == [work[w] EXCEPT !.half = TRUE]
  <2>1. work' = [work EXCEPT ![w] = r]
    BY <1>8
  <2>2. /\ r \in Putting /\ r.pc = "manifest" /\ r.half /\ r.content = work[w].content
        /\ r.list = work[w].list /\ r.fresh = work[w].fresh /\ r.manifest = m
    BY <1>0, <1>1, <1>2 DEF Putting
  <2> HIDE DEF r
  <2>3. r \in Snap!Works /\ work'[w] = r
    BY <1>1, <2>1, <2>2, WorksAre, WorkType
  <2>4. IsFiniteSet(committed') /\ committed' \subseteq Snap!Manifests
                                   /\ reserved' \subseteq Snap!Manifests
    BY <1>1, <1>2, <1>8 DEF SnapInv, Snap!SnapshotTypeOK
  <2>13. r.pc = "manifest" /\ r.manifest = m /\ r.content = work[w].content /\ r.list = work[w].list
    BY <2>2
  <2>14. m \in reserved' /\ committed \subseteq committed'
    BY <1>8
  <2>12. /\ m \in reserved' /\ work'[w].pc = "manifest" /\ work'[w].manifest = m
         /\ work'[w].content = work[w].content /\ work'[w].list = work[w].list
         /\ committed \subseteq committed'
    BY <2>3, <2>13, <2>14
  <2>5. ListSound(w)'
    <3>1. Publishing = {"database", "artifacts", "manifest"} /\ work'[w].pc \notin Enforcing
      BY <2>12 DEF Publishing, Enforcing
    <3>2. /\ work'[w].list \subseteq committed'
          /\ m.by = w /\ m.db = work'[w].content.db /\ m.tree = work'[w].content.tree
          /\ \A n \in work'[w].list : n.at < m.at
          /\ \A name \in m.seen : name[1] < m.at
      BY <1>4, <2>12
    <3> QED BY <2>12, <3>1, <3>2 DEF ListSound
  <2>6. PutSound(w)' <=> PutSound(w)
    BY <1>1, <2>2, <2>3 DEF PutSound
  <2>7. SweepsNothing(w)'
    BY <2>2, <2>3 DEF SweepsNothing
  <2>8. Snap!Published' = Snap!Published
    BY <1>1, <1>8 DEF Snap!Published
  <2>9. Unraced => Snap!CommittedReach'
    BY <1>1, <2>8 DEF SnapInv, Snap!CommittedReach
  <2>10. ~overlapped => /\ \A x, y \in Snap!Published' : x.at = y.at => x = y
                        /\ \A x \in Snap!Published' : Newest(x)' => promised <= x.db
    BY <1>1, <1>3, <2>8 DEF Alone, Newest
  <2>11. ~overlapped => AloneSound(w)'
    <3> SUFFICES ASSUME ~overlapped PROVE AloneSound(w)'
      OBVIOUS
    <3>1. promised' <= work'[w].content.db /\ work'[w].content.db <= live'.db
      BY <1>1, <1>3, <2>12 DEF AloneSound, Publishing
    <3>2. work'[w].list = Snap!Published'
      BY <1>5, <2>8, <2>12
    <3> QED BY <2>12, <3>1, <3>2 DEF AloneSound, Publishing, Enforcing
  <2> QED BY <1>1, <1>3, <1>8, <2>1, <2>3, <2>4, <2>5, <2>6, <2>7, <2>9, <2>10, <2>11, PublishStep
<1> QED BY <1>0, <1>6, <1>7, <1>8 DEF Snap!Commit

-----------------------------------------------------------------------------
(* Retention.                                                              *)

LEMMA ReturnStep ==
  ASSUME DirectoryParameters, SnapInv, NEW w \in Writers, work[w].pc \in {"mark", "sweep"},
         Snap!Return(w),
         UNCHANGED <<live, store, committed, gone, aged, reserved, overlapped>>,
         marker' \in BOOLEAN
  PROVE  SnapInv'
<1>1. Snap!SnapshotTypeOK /\ work[w] # Snap!NoWork /\ work[w].pc \in {"mark", "unlist", "sweep"}
  BY DEF SnapInv, Snap!NoWork
<1>2. work[w].content \in Snap!Contents /\ work[w].content.db \in Snap!Versions
                                           /\ promised \in Snap!Versions
  BY <1>1, Phase DEF Snap!SnapshotTypeOK, Snap!Contents
<1>3. /\ promised' = IF work[w].content.db > promised THEN work[w].content.db ELSE promised
      /\ work' = [work EXCEPT ![w] = Snap!NoWork]
  BY DEF Snap!Return
<1>4. /\ work' \in [Writers -> Snap!Works] /\ work'[w] = Snap!NoWork
      /\ \A v \in Writers : v # w => work'[v] = work[v]
  BY <1>1, <1>3, NoWorkWorks, WorkType
<1>5. Snap!SnapshotTypeOK'
  BY <1>2, <1>3, <1>4 DEF SnapInv, Snap!SnapshotTypeOK, Snap!Contents
<1>6. Snap!NewestSurvives' /\ IsFiniteSet(committed')
  BY DEF SnapInv, Snap!NewestSurvives, Snap!Precedes
<1>8. ListSound(w)' /\ PutSound(w)' /\ SweepsNothing(w)' /\ AloneSound(w)'
  BY <1>4 DEF Snap!NoWork, ListSound, PutSound, SweepsNothing, AloneSound, Publishing, Enforcing
<1>9. ASSUME NEW v \in Writers PROVE ListSound(v)'
  BY <1>1, <1>4, <1>6, <1>8, ListStays DEF SnapInv
<1>10. Unraced' <=> Unraced
  BY DEF Unraced
<1>11. Unraced => Snap!CommittedReach' /\ \A v \in Writers : PutSound(v)'
  BY <1>4, <1>8, PutsStay DEF BlobsKept
<1>12. gone' = {} => \A v \in Writers : SweepsNothing(v)'
  BY <1>4, <1>8 DEF SnapInv, SweepsNothing
<1>13. ~overlapped' => Alone'
  <2> SUFFICES ASSUME ~overlapped PROVE Alone'
    OBVIOUS
  <2>1. Alone /\ AloneSound(w) /\ \A v \in Writers : v # w => work[v] = Snap!NoWork
    BY <1>1, OnlyOne
  <2>2. promised' = work[w].content.db /\ promised' <= live.db
    BY <1>1, <1>2, <1>3, <2>1 DEF AloneSound, Snap!Versions
  <2>3. Snap!Published' = Snap!Published
    BY DEF Snap!Published
  <2>4. PICK t \in Snap!Published : Newest(t) /\ t.db = work[w].content.db
    BY <1>1, <2>1 DEF AloneSound, Enforcing
  <2>5. ASSUME NEW m \in Snap!Published, Newest(m) PROVE promised' <= m.db
    <3>1. m \in Snap!Manifests /\ t \in Snap!Manifests
      BY <1>1 DEF Snap!SnapshotTypeOK, Snap!Published
    <3>2. m.at = t.at
      BY <2>4, <2>5, <3>1, NameType DEF Newest, Snap!Instants
    <3>3. m = t
      BY <2>1, <3>2 DEF Alone
    <3> QED BY <1>2, <2>2, <2>4, <3>3 DEF Snap!Versions
  <2>6. \A v \in Writers : AloneSound(v)'
    <3>1. \A v \in Writers : work'[v] = Snap!NoWork
      BY <1>4, <2>1
    <3> QED BY <3>1 DEF Snap!NoWork, AloneSound, Publishing, Enforcing
  <2>7. \A u, v \in Writers : work'[u] # Snap!NoWork /\ work'[v] # Snap!NoWork => u = v
    BY <1>4, <2>1
  <2>8. \A m \in Snap!Published' : Newest(m)' => promised' <= m.db
    BY <2>3, <2>5 DEF Newest
  <2> QED BY <2>1, <2>2, <2>3, <2>6, <2>7, <2>8 DEF Alone
<1> QED BY <1>5, <1>6, <1>9, <1>10, <1>11, <1>12, <1>13 DEF SnapInv

\* What the rank in a listing says of the rank among all that were ever published.
LEMMA WitnessedRank ==
  ASSUME DirectoryParameters, Snap!SnapshotTypeOK, IsFiniteSet(committed), NEW list,
         Witnessed(list), NEW m \in committed,
         Cardinality({n \in list : Snap!Precedes(m, n)}) >= Minimum
  PROVE  Cardinality(Newer(m)) >= Minimum
<1> DEFINE After(set) == {n \in set : Snap!Precedes(m, n)}
<1>1. IsFiniteSet(Newer(m)) /\ Cardinality(Newer(m)) \in Nat /\ Minimum \in Nat
  <2>1. Newer(m) \subseteq committed
    BY DEF Newer
  <2> QED BY <2>1, FS_Subset, FS_CardinalityType DEF DirectoryParameters
<1>2. ASSUME NEW some, some \subseteq Newer(m), Cardinality(some) >= Minimum
      PROVE  Cardinality(Newer(m)) >= Minimum
  <2>1. Cardinality(some) <= Cardinality(Newer(m)) /\ Cardinality(some) \in Nat
    BY <1>1, <1>2, FS_Subset, FS_CardinalityType
  <2> QED BY <1>1, <1>2, <2>1
<1>3. PICK rest \in SUBSET committed :
        \/ list = rest
        \/ \E x \in Snap!Manifests : \E e \in committed :
              /\ list = rest \cup {x} /\ Snap!Name(x) = Snap!Name(e)
              /\ \A r \in rest : r.at < x.at
  BY DEF Witnessed
<1>4. After(rest) \subseteq Newer(m)
  BY <1>3 DEF Newer
<1>5. CASE list = rest
  BY <1>2, <1>4, <1>5
<1>6. ASSUME NEW x \in Snap!Manifests, NEW e \in committed, list = rest \cup {x}, Snap!Name(x) = Snap!Name(e),
             \A r \in rest : r.at < x.at
      PROVE  Cardinality(Newer(m)) >= Minimum
  <2>1. x.at \in Int /\ x.at = e.at /\ x.db = e.db
    BY <1>6, SameName, NameType DEF Snap!Instants
  <2>2. x \notin rest /\ e \notin rest
    BY <1>6, <2>1
  <2>3. CASE ~ Snap!Precedes(m, x)
    <3>1. After(list) = After(rest)
      BY <1>6, <2>3
    <3> QED BY <1>2, <1>4, <3>1
  <2>4. CASE Snap!Precedes(m, x)
    <3>1. Snap!Precedes(m, e)
      BY <2>1, <2>4 DEF Snap!Precedes
    <3>2. After(list) = After(rest) \cup {x}
      BY <1>6, <2>4
    <3>3. After(rest) \cup {e} \subseteq Newer(m)
      BY <1>4, <3>1 DEF Newer
    <3>4. IsFiniteSet(After(rest)) /\ x \notin After(rest) /\ e \notin After(rest)
      BY <1>1, <1>4, <2>2, FS_Subset
    <3> HIDE DEF After
    <3>5. Cardinality(After(rest) \cup {x}) = Cardinality(After(rest) \cup {e})
      BY <3>4, FS_AddElement
    <3>6. Cardinality(After(list)) >= Minimum
      BY DEF After
    <3> QED BY <1>2, <3>2, <3>3, <3>5, <3>6
  <2> QED BY <2>3, <2>4
<1> QED BY <1>3, <1>5, <1>6

LEMMA EnforceStep ==
  ASSUME DirectoryParameters, SnapInv, NEW w \in Writers, work[w].pc = "mark",
         NEW list, list = work[w].list, NEW expired, expired = Snap!Expired(list),
         work' = [work EXCEPT ![w] = [pc |-> "unlist", content |-> work[w].content,
                                      expired |-> expired, dead |-> Snap!Unreferenced(list, expired)]],
         UNCHANGED <<live, store, committed, gone, aged, reserved, promised, overlapped>>,
         marker' = TRUE
  PROVE  SnapInv'
<1> DEFINE dead == Snap!Unreferenced(list, expired)
           r == [pc |-> "unlist", content |-> work[w].content, expired |-> expired, dead |-> dead]
<1>1. Snap!SnapshotTypeOK /\ work[w] # Snap!NoWork /\ work[w].content \in Snap!Contents
                             /\ list \in SUBSET Snap!Manifests
  BY Phase DEF SnapInv, Snap!NoWork
<1>2. /\ expired \subseteq list /\ expired \subseteq committed /\ expired \subseteq Snap!Manifests
      /\ \A m \in expired : Cardinality({n \in list : Snap!Precedes(m, n)}) >= Minimum
  BY <1>1, SameCardinality DEF Snap!Expired, Snap!SnapshotTypeOK
<1>3. dead \subseteq Snap!Blobs
  BY <1>2, NameType DEF Snap!Unreferenced
<1>4. \A m \in list \ expired : Snap!BlobsOf(m) \cap dead = {}
  BY DEF Snap!Unreferenced
<1>5. expired = {} => dead = {}
  BY DEF Snap!Unreferenced
<1>6. work' = [work EXCEPT ![w] = r]
  OBVIOUS
<1> HIDE DEF dead
<1>7. r \in Snap!Works
  BY <1>1, <1>2, <1>3 DEF Snap!Works
<1>8. work'[w] = r
  BY <1>1, <1>6, <1>7, WorkType
<1>9. ListSound(w)'
  <2>1. Witnessed(list)
    BY DEF SnapInv, ListSound
  <2>2. \A m \in expired : m \in committed /\ Cardinality(Newer(m)) >= Minimum
    BY <1>1, <1>2, <2>1, WitnessedRank DEF SnapInv
  <2>3. \A m \in expired : m \in committed' /\ Cardinality(Newer(m)') >= Minimum
    BY <2>2 DEF Newer, Snap!Precedes
  <2> QED BY <1>8, <2>3 DEF ListSound, Publishing, Enforcing
<1>10. PutSound(w)' /\ SweepsNothing(w)'
  BY <1>5, <1>8 DEF PutSound, SweepsNothing
<1>11. ~overlapped => AloneSound(w)'
  <2> SUFFICES ASSUME ~overlapped PROVE AloneSound(w)'
    OBVIOUS
  <2>1. Alone /\ AloneSound(w)
    BY <1>1, OnlyOne
  <2>2. list = Snap!Published
    BY <2>1 DEF AloneSound
  <2>3. PICK t \in Snap!Published : Newest(t) /\ t.db = work[w].content.db
    BY <2>1 DEF AloneSound
  <2>4. ASSUME NEW m \in expired PROVE m.at < t.at
    <3>1. m \in Snap!Published /\ m \in Snap!Manifests /\ t \in Snap!Manifests
      BY <1>1, <1>2, <2>2, <2>3
    <3>2. m.at <= t.at /\ m.at \in Int /\ t.at \in Int
      BY <2>3, <3>1, NameType DEF Newest, Snap!Instants
    <3>3. CASE m = t
      <4>1. ASSUME NEW n \in list, Snap!Precedes(t, n) PROVE FALSE
        <5>1. n \in Snap!Manifests /\ n.at \in Int /\ n.at <= t.at /\ n.db \in Int
          BY <1>1, <2>2, <2>3, <4>1, NameType DEF Newest, Snap!Instants, Snap!Versions
        <5>2. n.at = t.at /\ t.db < n.db
          BY <3>2, <4>1, <5>1 DEF Snap!Precedes
        <5>3. n = t
          BY <2>1, <2>2, <3>1, <4>1, <5>2 DEF Alone
        <5> QED BY <5>1, <5>2, <5>3
      <4>2. {n \in list : Snap!Precedes(m, n)} = {}
        BY <3>3, <4>1
      <4>3. Cardinality({n \in list : Snap!Precedes(m, n)}) = 0
        BY <4>2, FS_EmptySet
      <4> QED BY <1>2, <4>3 DEF DirectoryParameters
    <3>4. CASE m # t
      BY <2>1, <3>1, <3>2, <3>4 DEF Alone
    <3> QED BY <3>3, <3>4
  <2>5. UNCHANGED Snap!Published
    BY DEF Snap!Published
  <2>6. \E s \in Snap!Published' : /\ Newest(s)' /\ s.db = work[w].content.db
                                   /\ \A m \in expired : m.at < s.at
    BY <2>3, <2>4, <2>5 DEF Newest
  <2>7. \A m \in Snap!Published' : m \in expired \/ Snap!BlobsOf(m) \cap dead = {}
    BY <1>4, <2>2, <2>5
  <2>8. promised' <= work[w].content.db /\ work[w].content.db <= live'.db
    BY <2>1 DEF AloneSound
  <2> QED BY <1>8, <2>6, <2>7, <2>8 DEF AloneSound, Publishing, Enforcing
<1> HIDE DEF r
<1> QED BY <1>1, <1>6, <1>7, <1>9, <1>10, <1>11, NextPhase DEF Snap!SnapshotTypeOK

LEMMA MarkStep ==
  ASSUME DirectoryParameters, SnapInv, NEW w \in Writers, Snap!Mark(w)
  PROVE  SnapInv'
<1>1. /\ work[w].pc = "mark" /\ marker' = TRUE /\ marker' \in BOOLEAN
      /\ UNCHANGED <<live, store, committed, gone, aged, reserved, overlapped>>
  BY DEF Snap!Mark
<1>2. CASE Snap!Return(w)
  BY <1>1, <1>2, ReturnStep
<1>3. ASSUME ~Snap!Return(w) PROVE SnapInv'
  <2>1. /\ work' = [work EXCEPT ![w] =
              [pc |-> "unlist", content |-> work[w].content, expired |-> Snap!Expired(work[w].list),
               dead |-> Snap!Unreferenced(work[w].list, Snap!Expired(work[w].list))]]
        /\ UNCHANGED promised
    BY <1>3 DEF Snap!Mark
  <2>2. PICK list : list = work[w].list
    OBVIOUS
  <2>3. PICK expired : expired = Snap!Expired(list)
    OBVIOUS
  <2>4. work' = [work EXCEPT ![w] = [pc |-> "unlist", content |-> work[w].content,
                                     expired |-> expired, dead |-> Snap!Unreferenced(list, expired)]]
    BY <2>1, <2>2, <2>3
  <2> QED BY <1>1, <2>1, <2>2, <2>3, <2>4, EnforceStep
<1> QED BY <1>2, <1>3

LEMMA UnlistStep ==
  ASSUME DirectoryParameters, SnapInv, NEW w \in Writers, Snap!Unlist(w)
  PROVE  SnapInv'
<1>1. /\ work[w].pc = "unlist" /\ work[w] # Snap!NoWork /\ Snap!SnapshotTypeOK
         /\ work[w].pc \in Enforcing
      /\ UNCHANGED <<live, store, committed, aged, marker, promised, overlapped>>
      /\ IsFiniteSet(committed')
  BY DEF Snap!Unlist, Snap!NoWork, SnapInv, Enforcing
<1>2. work[w] \in Purging
  BY <1>1, Phase
<1>3. /\ ListSound(w) /\ (gone = {} => SweepsNothing(w))
      /\ ~overlapped => Alone /\ AloneSound(w) /\ \A v \in Writers : v # w => work[v] = Snap!NoWork
  BY <1>1, OnlyOne DEF SnapInv
<1>4. CASE work[w].expired = {}
  <2> DEFINE r == [work[w] EXCEPT !.pc = "sweep"]
  <2>1. work' = [work EXCEPT ![w] = r] /\ UNCHANGED <<gone, reserved>>
    BY <1>4 DEF Snap!Unlist
  <2>2. /\ r \in Purging /\ r.pc = "sweep" /\ r.content = work[w].content
        /\ r.expired = {} /\ r.dead = work[w].dead
    BY <1>2, <1>4 DEF Purging, Enforcing
  <2> HIDE DEF r
  <2>3. r \in Snap!Works /\ work'[w] = r
    BY <1>1, <2>1, <2>2, WorksAre, WorkType
  <2>4. ListSound(w)' /\ PutSound(w)'
    BY <2>2, <2>3 DEF ListSound, PutSound, Publishing, Enforcing
  <2>5. gone = {} => SweepsNothing(w)'
    BY <1>1, <1>3, <1>4, <2>2, <2>3 DEF SweepsNothing
  <2>6. Snap!Published' = Snap!Published
    BY <1>1, <2>1 DEF Snap!Published
  <2>7. ~overlapped => AloneSound(w)'
    <3> SUFFICES ASSUME ~overlapped PROVE AloneSound(w)'
      OBVIOUS
    <3>1. PICK t \in Snap!Published : Newest(t) /\ t.db = work[w].content.db
      BY <1>1, <1>3 DEF AloneSound
    <3>2. Newest(t)'
      BY <2>6, <3>1 DEF Newest
    <3>3. promised <= work[w].content.db /\ work[w].content.db <= live.db
      BY <1>1, <1>3 DEF AloneSound
    <3>4. \A m \in Snap!Published : Snap!BlobsOf(m) \cap work[w].dead = {}
      BY <1>1, <1>3, <1>4 DEF AloneSound
    <3> QED BY <1>1, <2>2, <2>3, <2>6, <3>1, <3>2, <3>3, <3>4 DEF AloneSound, Publishing, Enforcing
  <2> QED BY <1>1, <2>1, <2>3, <2>4, <2>5, <2>7, NextPhase DEF Snap!SnapshotTypeOK
<1>5. ASSUME NEW m \in work[w].expired,
             gone' = gone \cup {n \in Snap!Published : Snap!Name(n) = Snap!Name(m)},
             reserved' = {n \in reserved : Snap!Name(n) # Snap!Name(m)},
             work' = [work EXCEPT ![w].expired = @ \ {m}]
      PROVE  SnapInv'
  <2> DEFINE r == [work[w] EXCEPT !.expired = work[w].expired \ {m}]
  <2>1. work' = [work EXCEPT ![w] = r]
    BY <1>5
  <2>2. /\ r \in Purging /\ r.pc = "unlist" /\ r.content = work[w].content
        /\ r.expired = work[w].expired \ {m} /\ r.dead = work[w].dead
    BY <1>1, <1>2 DEF Purging
  <2> HIDE DEF r
  <2>3. r \in Snap!Works
    BY <2>2, WorksAre
  <2>4. /\ work' \in [Writers -> Snap!Works] /\ work'[w] = r
        /\ \A v \in Writers : v # w => work'[v] = work[v]
    BY <1>1, <2>1, <2>3, WorkType
  <2>5. /\ m \in committed /\ Cardinality(Newer(m)) >= Minimum
        /\ \A e \in work[w].expired : e \in committed /\ Cardinality(Newer(e)) >= Minimum
    BY <1>1, <1>3, <1>5 DEF ListSound
  <2>6. Snap!Published' = {n \in Snap!Published : Snap!Name(n) # Snap!Name(m)}
    BY <1>1, <1>5 DEF Snap!Published
  <2>7. Snap!SnapshotTypeOK'
    <3>1. gone' \subseteq committed
      BY <1>1, <1>5 DEF Snap!SnapshotTypeOK, Snap!Published
    <3>2. reserved' \subseteq Snap!Manifests
      BY <1>1, <1>5 DEF Snap!SnapshotTypeOK
    <3> QED BY <1>1, <2>4, <3>1, <3>2 DEF Snap!SnapshotTypeOK, Snap!Contents
  <2>8. Snap!NewestSurvives'
    <3>1. ASSUME NEW n \in gone' PROVE Cardinality({x \in committed : Snap!Precedes(n, x)}) >= Minimum
      <4>1. CASE n \in gone
        BY <4>1, SameCardinality DEF SnapInv, Snap!NewestSurvives
      <4>2. CASE Snap!Name(n) = Snap!Name(m)
        <5>1. n.at = m.at /\ n.db = m.db
          BY <4>2, SameName
        <5>2. {x \in committed : Snap!Precedes(n, x)} = Newer(m)
          BY <5>1 DEF Newer, Snap!Precedes
        <5> QED BY <2>5, <5>2
      <4> QED BY <1>5, <3>1, <4>1, <4>2
    <3> QED BY <1>1, <3>1, SameCardinality DEF SnapInv, Snap!NewestSurvives
  <2>9. ASSUME NEW v \in Writers PROVE ListSound(v)'
    <3>1. \A x \in reserved : x \in reserved' \/ \E n \in committed' : Snap!Name(n) = Snap!Name(x)
      BY <1>1, <1>5, <2>5
    <3>2. v # w => ListSound(v)'
      BY <1>1, <2>4, <3>1, ListStays DEF SnapInv
    <3>3. \A e \in r.expired : e \in committed' /\ Cardinality(Newer(e)') >= Minimum
      BY <1>1, <2>2, <2>5 DEF Newer
    <3>4. ListSound(w)'
      BY <2>2, <2>4, <3>3 DEF ListSound, Publishing, Enforcing
    <3> QED BY <3>2, <3>4
  <2>10. Unraced' => Snap!CommittedReach' /\ \A v \in Writers : PutSound(v)'
    <3> SUFFICES ASSUME Unraced' PROVE Snap!CommittedReach' /\ \A v \in Writers : PutSound(v)'
      OBVIOUS
    <3>1. Unraced
      BY <1>1, <1>5 DEF Unraced
    <3>2. Snap!CommittedReach'
      BY <1>1, <2>6, <3>1 DEF SnapInv, Snap!CommittedReach
    <3>3. PutSound(w)'
      BY <2>2, <2>4 DEF PutSound
    <3>4. \A v \in Writers : v # w => PutSound(v)'
      BY <1>1, <2>4, <3>1, PutStays DEF SnapInv
    <3> QED BY <3>2, <3>3, <3>4
  <2>11. gone' = {} => \A v \in Writers : SweepsNothing(v)'
    <3> SUFFICES ASSUME gone' = {} PROVE FALSE
      OBVIOUS
    <3>1. m \in Snap!Published
      BY <1>5, <2>5 DEF Snap!Published
    <3> QED BY <1>5, <3>1
  <2>12. ~overlapped' => Alone'
    <3> SUFFICES ASSUME ~overlapped PROVE Alone'
      BY <1>1
    <3>1. PICK t \in Snap!Published : /\ Newest(t) /\ t.db = work[w].content.db
                                      /\ \A e \in work[w].expired : e.at < t.at
      BY <1>1, <1>3 DEF AloneSound
    <3>2. /\ \A n \in Snap!Published : n \in Snap!Manifests /\ n.at \in Int
          /\ \A n \in gone : n \in Snap!Manifests /\ n.at \in Int
          /\ m.at \in Int /\ t.at \in Int
      BY <1>1, <2>5, NameType DEF Snap!Published, Snap!SnapshotTypeOK, Snap!Instants
    <3>3. Snap!Name(t) # Snap!Name(m)
      BY <1>5, <3>1, <3>2, SameName
    <3>4. t \in Snap!Published' /\ Newest(t)'
      BY <2>6, <3>1, <3>3 DEF Newest
    <3>5. \A x, y \in Snap!Published' : x.at = y.at => x = y
      BY <1>3, <2>6 DEF Alone
    <3>6. ASSUME NEW x \in gone' PROVE \E n \in Snap!Published' : x.at < n.at
      <4>1. CASE x \in gone
        <5>1. PICK n \in Snap!Published : x.at < n.at
          BY <1>3, <4>1 DEF Alone
        <5>2. n.at <= t.at
          BY <3>1, <5>1 DEF Newest
        <5> QED BY <3>2, <3>4, <4>1, <5>1, <5>2
      <4>2. CASE Snap!Name(x) = Snap!Name(m)
        <5>1. x.at = m.at
          BY <4>2, SameName
        <5> QED BY <1>5, <3>1, <3>4, <5>1
      <4> QED BY <1>5, <3>6, <4>1, <4>2
    <3>7. ASSUME NEW x \in Snap!Published', Newest(x)' PROVE promised <= x.db
      <4>1. x \in Snap!Published /\ t.at <= x.at /\ x.at <= t.at
        BY <2>6, <3>1, <3>4, <3>7 DEF Newest
      <4>2. x = t
        BY <1>3, <3>2, <4>1 DEF Alone
      <4> QED BY <1>3, <3>1, <4>2 DEF Alone
    <3>8. AloneSound(w)'
      <4>1. promised' <= r.content.db /\ r.content.db <= live'.db
        BY <1>1, <1>3, <2>2 DEF AloneSound, Snap!NoWork
      <4>2. \A e \in r.expired : e.at < t.at
        BY <2>2, <3>1
      <4>3. \A n \in Snap!Published' : n \in r.expired \/ Snap!BlobsOf(n) \cap r.dead = {}
        BY <1>1, <1>3, <2>2, <2>6 DEF AloneSound
      <4>4. t.db = r.content.db
        BY <2>2, <3>1
      <4> QED BY <2>2, <2>4, <3>4, <4>1, <4>2, <4>3, <4>4 DEF AloneSound, Publishing, Enforcing
    <3>9. \A v \in Writers : v # w => AloneSound(v)'
      BY <1>3, <2>4 DEF Snap!NoWork, AloneSound, Publishing, Enforcing
    <3>10. \A u, v \in Writers : work'[u] # Snap!NoWork /\ work'[v] # Snap!NoWork => u = v
      BY <1>3, <2>4
    <3>11. promised' <= live'.db
      BY <1>1, <1>3 DEF Alone
    <3> QED BY <1>1, <3>5, <3>6, <3>7, <3>8, <3>9, <3>10, <3>11 DEF Alone
  <2> QED BY <1>1, <2>7, <2>8, <2>9, <2>10, <2>11, <2>12 DEF SnapInv
<1> QED BY <1>4, <1>5 DEF Snap!Unlist

LEMMA SweepStep ==
  ASSUME DirectoryParameters, SnapInv, NEW w \in Writers, Snap!Sweep(w)
  PROVE  SnapInv'
<1>1. /\ work[w].pc = "sweep" /\ work[w] # Snap!NoWork /\ Snap!SnapshotTypeOK
         /\ work[w].pc \in Enforcing
      /\ UNCHANGED <<live, committed, gone, aged, reserved, marker, overlapped>>
      /\ marker' \in BOOLEAN /\ overlapped' \in BOOLEAN
  BY DEF Snap!Sweep, Snap!NoWork, SnapInv, Enforcing, Snap!SnapshotTypeOK
<1>2. work[w] \in Purging
  BY <1>1, Phase
<1>3. CASE work[w].dead = {}
  BY <1>1, <1>3, ReturnStep DEF Snap!Sweep
<1>4. ASSUME NEW b \in work[w].dead, store' = [store EXCEPT ![b] = "absent"],
             work' = [work EXCEPT ![w].dead = @ \ {b}], UNCHANGED promised
      PROVE  SnapInv'
  <2> DEFINE r == [work[w] EXCEPT !.dead = work[w].dead \ {b}]
  <2>1. work' = [work EXCEPT ![w] = r]
    BY <1>4
  <2>2. /\ r \in Purging /\ r.pc = "sweep" /\ r.content = work[w].content
        /\ r.expired = work[w].expired /\ r.dead = work[w].dead \ {b} /\ r # Snap!NoWork
    BY <1>1, <1>2 DEF Purging, Snap!NoWork
  <2> HIDE DEF r
  <2>3. r \in Snap!Works
    BY <2>2, WorksAre
  <2>4. /\ work'[w] = r
        /\ \A v \in Writers : v # w => work'[v] = work[v]
    BY <1>1, <2>1, <2>3, WorkType
  <2>5. b \in Snap!Blobs
    BY <1>2, <1>4 DEF Purging
  <2>6. store' \in [Snap!Blobs -> {"absent", "whole"} \cup Writers]
    BY <1>1, <1>4 DEF Snap!SnapshotTypeOK
  <2>7. ListSound(w) /\ gone # {}
    BY <1>1, <1>4 DEF SnapInv, SweepsNothing
  <2>8. ListSound(w)'
    <3>1. \A e \in r.expired : e \in committed' /\ Cardinality(Newer(e)') >= Minimum
      BY <1>1, <2>2, <2>7 DEF Newer, ListSound
    <3> QED BY <2>2, <2>4, <3>1 DEF ListSound, Publishing, Enforcing
  <2>9. ~overlapped => Alone /\ AloneSound(w) /\ \A v \in Writers : v # w => work[v] = Snap!NoWork
    BY <1>1, OnlyOne
  <2>10. Snap!Published' = Snap!Published
    BY <1>1 DEF Snap!Published
  <2>11. Unraced => Snap!CommittedReach' /\ \A v \in Writers : PutSound(v)'
    <3> SUFFICES ASSUME Unraced PROVE Snap!CommittedReach' /\ \A v \in Writers : PutSound(v)'
      OBVIOUS
    <3>1. ~overlapped /\ Snap!CommittedReach
      BY <2>7 DEF Unraced, SnapInv
    <3>2. \A m \in Snap!Published : b \notin Snap!BlobsOf(m)
      BY <1>1, <1>4, <2>9, <3>1 DEF AloneSound
    <3>3. \A m \in Snap!Published : Snap!BlobsOf(m) \subseteq Snap!Blobs
      BY <1>1, NameType DEF Snap!SnapshotTypeOK, Snap!Published
    <3>4. Snap!CommittedReach'
      BY <1>1, <1>4, <2>10, <3>1, <3>2, <3>3 DEF Snap!CommittedReach, Snap!SnapshotTypeOK
    <3>5. PutSound(w)'
      BY <2>2, <2>4 DEF PutSound
    <3>6. \A v \in Writers : v # w => PutSound(v)'
      BY <2>4, <2>9, <3>1 DEF Snap!NoWork, PutSound
    <3> QED BY <3>4, <3>5, <3>6
  <2>12. ~overlapped => AloneSound(w)'
    <3> SUFFICES ASSUME ~overlapped PROVE AloneSound(w)'
      OBVIOUS
    <3>1. PICK t \in Snap!Published : /\ Newest(t) /\ t.db = work[w].content.db
                                      /\ \A m \in work[w].expired : m.at < t.at
      BY <1>1, <2>9 DEF AloneSound
    <3>2. Newest(t)'
      BY <2>10, <3>1 DEF Newest
    <3>3. /\ promised' <= r.content.db /\ r.content.db <= live'.db /\ r.expired = {}
          /\ \A m \in Snap!Published : m \in r.expired \/ Snap!BlobsOf(m) \cap r.dead = {}
      BY <1>1, <1>4, <2>2, <2>9 DEF AloneSound, Enforcing
    <3> QED BY <2>2, <2>4, <2>10, <3>1, <3>2, <3>3 DEF AloneSound, Publishing, Enforcing
  <2> QED BY <1>1, <1>4, <2>1, <2>3, <2>6, <2>7, <2>8, <2>9, <2>11, <2>12, OwnStep
<1> QED BY <1>3, <1>4 DEF Snap!Sweep

-----------------------------------------------------------------------------
(* The system around the calls, and the whole.                             *)

LEMMA CallDies ==
  ASSUME DirectoryParameters, SnapInv, NEW w \in Writers, Snap!Crash(w)
  PROVE  SnapInv'
  BY EndStep DEF Snap!Crash

\* Nothing a call holds depends on what is aged, nor on how far the database has come.
LEMMA AroundStep ==
  ASSUME DirectoryParameters, SnapInv, live' \in Snap!Contents, live.db <= live'.db,
         aged' \subseteq committed,
         UNCHANGED <<store, committed, gone, reserved, marker, promised, overlapped, work>>
  PROVE  SnapInv'
<1>1. Snap!SnapshotTypeOK'
  BY DEF SnapInv, Snap!SnapshotTypeOK
<1>2. Snap!NewestSurvives' /\ IsFiniteSet(committed')
  BY DEF SnapInv, Snap!NewestSurvives, Snap!Precedes
<1>3. ASSUME NEW v \in Writers PROVE ListSound(v)'
  BY <1>2, ListStays DEF SnapInv
<1>4. Unraced' => Snap!CommittedReach' /\ \A v \in Writers : PutSound(v)'
  BY DEF SnapInv, Unraced, Snap!CommittedReach, Snap!Published, PutSound
<1>5. gone' = {} => \A v \in Writers : SweepsNothing(v)'
  BY DEF SnapInv, SweepsNothing
<1>6. ~overlapped' => Alone'
  <2> SUFFICES ASSUME ~overlapped PROVE Alone'
    OBVIOUS
  <2>1. Alone /\ Snap!Published' = Snap!Published
    BY DEF SnapInv, Snap!Published
  <2>2. live.db \in Int /\ live'.db \in Int /\ promised \in Int
    BY DEF SnapInv, Snap!SnapshotTypeOK, Snap!Contents, Snap!Versions
  <2>3. promised' <= live'.db
    BY <2>1, <2>2 DEF Alone
  <2>4. ASSUME NEW v \in Writers PROVE AloneSound(v)'
    <3>1. AloneSound(v) /\ (work[v].pc # "idle" => work[v].content.db \in Int)
      BY <2>1, Phase DEF Alone, SnapInv, Snap!Contents, Snap!Versions
    <3>2. work[v].pc # "idle" => work'[v].content.db <= live'.db
      BY <2>2, <3>1 DEF AloneSound
    <3> QED BY <2>1, <3>1, <3>2 DEF AloneSound, Newest
  <2> QED BY <2>1, <2>3, <2>4 DEF Alone, Newest
<1> QED BY <1>1, <1>2, <1>3, <1>4, <1>5, <1>6 DEF SnapInv

LEMMA SnapInvInit ==
  ASSUME DirectoryParameters, Snap!Init
  PROVE  SnapInv
<1>1. Snap!SnapshotTypeOK
  BY SnapTypeInit
<1>2. IsFiniteSet(committed) /\ committed = {} /\ gone = {} /\ Snap!Published = {}
  BY FS_EmptySet DEF Snap!Init, Snap!Published
<1>3. \A w \in Writers : ListSound(w) /\ PutSound(w) /\ SweepsNothing(w) /\ AloneSound(w)
  BY NoWorkSound DEF Snap!Init
<1>4. Snap!NewestSurvives /\ Snap!CommittedReach
  BY <1>2 DEF Snap!NewestSurvives, Snap!CommittedReach
<1>5. Alone
  <2>1. \A w \in Writers : work[w] = Snap!NoWork
    BY DEF Snap!Init
  <2>2. promised <= live.db
    BY DEF Snap!Init
  <2> QED BY <1>2, <1>3, <2>1, <2>2 DEF Alone
<1> QED BY <1>1, <1>2, <1>3, <1>4, <1>5 DEF SnapInv

LEMMA SnapInvStep ==
  ASSUME DirectoryParameters, SnapInv, [Snap!Next]_(Snap!vars)
  PROVE  SnapInv'
<1>1. CASE Snap!Write
  <2>1. PICK version \in {live.db, live.db + 1} \cap Snap!Versions, tree \in ArtifactTrees :
           live' = [db |-> version, tree |-> tree]
    BY <1>1 DEF Snap!Write
  <2>2. live' \in Snap!Contents /\ live.db <= live'.db
    BY <2>1 DEF SnapInv, Snap!SnapshotTypeOK, Snap!Contents, Snap!Versions
  <2> QED BY <1>1, <2>2, AroundStep DEF Snap!Write, SnapInv, Snap!SnapshotTypeOK
<1>2. CASE Snap!DaysPass
  <2>1. live' \in Snap!Contents /\ live.db <= live'.db
    BY <1>2 DEF Snap!DaysPass, SnapInv, Snap!SnapshotTypeOK, Snap!Contents, Snap!Versions
  <2> QED BY <1>2, <2>1, AroundStep DEF Snap!DaysPass
<1>3. CASE UNCHANGED Snap!vars
  <2>1. live' \in Snap!Contents /\ live.db <= live'.db
    BY <1>3 DEF Snap!vars, SnapInv, Snap!SnapshotTypeOK, Snap!Contents, Snap!Versions
  <2> QED BY <1>3, <2>1, AroundStep DEF Snap!vars, SnapInv, Snap!SnapshotTypeOK
<1>4. ASSUME NEW w \in Writers,
             \/ Snap!Stage(w) \/ Snap!Glob(w) \/ Snap!Listed(w)
             \/ Snap!PutDatabase(w) \/ Snap!PutArtifacts(w) \/ Snap!Commit(w)
             \/ Snap!Mark(w) \/ Snap!Unlist(w) \/ Snap!Sweep(w) \/ Snap!Crash(w)
      PROVE  SnapInv'
  BY <1>4, StageStep, GlobStep, ListedStep, PutDatabaseStep, PutArtifactsStep, CommitStep,
     MarkStep, UnlistStep, SweepStep, CallDies
<1> QED BY <1>1, <1>2, <1>3, <1>4 DEF Snap!Next

LEMMA SnapInvHolds ==
  ASSUME DirectoryParameters
  PROVE  Snap!Spec => []SnapInv
<1>1. Snap!Init => SnapInv
  BY SnapInvInit
<1>2. SnapInv /\ [Snap!Next]_(Snap!vars) => SnapInv'
  BY SnapInvStep
<1> QED BY <1>1, <1>2, PTL DEF Snap!Spec

\* The directory, its history and what each writer holds keep the shapes the calls rely
\* on (snapshot_state, _apply_retention).
THEOREM SnapshotTypeCorrect == Snap!Spec => []SnapshotTypeOK
<1>1. SnapInv => SnapshotTypeOK
  <2>1. SnapInv => Snap!SnapshotTypeOK
    BY DEF SnapInv
  <2>2. Snap!SnapshotTypeOK => SnapshotTypeOK
    BY DEF Snap!SnapshotTypeOK, Snap!Contents, Snap!Blobs, Snap!Database, Snap!Bundle,
           Snap!Manifests, Snap!Instants, Snap!Names, Snap!Versions, Snap!Works, Snap!NoWork,
           SnapshotTypeOK, Contents, Blobs, Database, Bundle,
           Manifests, Instants, Names, Versions, Works, NoWork
  <2> QED BY <2>1, <2>2
<1> QED BY <1>1, SnapInvHolds, DirectoryAssumption, PTL

\* Whatever listings any number of writers enforce retention from, and wherever they die:
\* the newest Minimum manifests are never deleted, and a checkpoint sorts after every one
\* its writer found published (_apply_retention, snapshot_state).
THEOREM NewestNeverDeleted == Snap!Spec => []NewestSurvives
<1>1. SnapInv => NewestSurvives
  <2>1. SnapInv => Snap!NewestSurvives
    BY DEF SnapInv
  <2>2. Snap!NewestSurvives => NewestSurvives
    BY SameCardinality DEF Snap!NewestSurvives, Snap!Precedes, NewestSurvives, Precedes
  <2> QED BY <2>1, <2>2
<1> QED BY <1>1, SnapInvHolds, DirectoryAssumption, PTL

\* Every published manifest's blobs are there and complete, wherever calls die, while they
\* run one after another, and where they overlap until something is deleted
\* (_validated_manifests).
THEOREM ManifestsReach == Snap!Spec => []ReachUnlessRaced
<1>1. SnapInv => ReachUnlessRaced
  <2>1. SnapInv => Snap!ReachUnlessRaced
    BY DEF SnapInv, Unraced, Snap!ReachUnlessRaced
  <2>2. Snap!ReachUnlessRaced => ReachUnlessRaced
    BY DEF Snap!ReachUnlessRaced, Snap!CommittedReach, Snap!Published, Snap!BlobsOf,
           Snap!Database, Snap!Bundle,
           ReachUnlessRaced, CommittedReach, Published, BlobsOf, Database, Bundle
  <2> QED BY <2>1, <2>2
<1> QED BY <1>1, SnapInvHolds, DirectoryAssumption, PTL

\* While calls run one after another, the manifest a restore would take holds the newest
\* database a call has reported durable (restore_latest, snapshot_state).
THEOREM LatestIsNewest == Snap!Spec => []LatestHoldsNewest
<1>1. SnapInv => LatestHoldsNewest
  <2> SUFFICES ASSUME SnapInv, ~overlapped, NEW m \in Published, Latest(Published) = {m}
               PROVE  promised <= m.db
    BY DEF LatestHoldsNewest
  <2>1. m \in Snap!Published /\ \A n \in Snap!Published : n.at <= m.at
    BY DEF Latest, Published, Snap!Published
  <2>2. Newest(m)
    BY <2>1 DEF Newest
  <2> QED BY <2>1, <2>2 DEF SnapInv, Alone
<1> QED BY <1>1, SnapInvHolds, DirectoryAssumption, PTL
=============================================================================
