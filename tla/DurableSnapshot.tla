-------------------------- MODULE DurableSnapshot --------------------------
(***************************************************************************)
(* Durable checkpoints (durability.py, snapshot_state) on a local durable  *)
(* root.  Several processes checkpoint one authority: each backs the live  *)
(* database and artifact tree up to private staging, lists and verifies    *)
(* every published manifest, publishes the content-addressed blobs that    *)
(* are missing, publishes the manifest last, as the commit marker, marks   *)
(* the authority, and may then enforce the retention policy.  No lock is   *)
(* taken: only the exclusive creation of a file is atomic, and a process   *)
(* can die between any two steps.                                          *)
(*                                                                         *)
(* Contents are abstract: a database backup is the number of the write it  *)
(* was taken after, an artifact bundle a tree, which may come back to an   *)
(* earlier content; the blob of a content is named by it (its SHA-256).    *)
(***************************************************************************)
EXTENDS DurableDirectory

vars == <<live, store, committed, gone, aged, reserved, marker, promised, overlapped, work>>

\* Every manifest in the listing is complete and its blobs are there, or the call fails.
Sound(names) ==
    /\ names \cap {Name(m) : m \in reserved} = {}
    /\ \A name \in names :
          \E m \in Published : Name(m) = name /\ \A b \in BlobsOf(m) : store[b] = "whole"

Listing(names) == {m \in Published : Name(m) \in names}

\* A seeded fault: the database is not compared before a checkpoint is reused.
SameTree(list, content) == \E m \in list : Latest(list) = {m} /\ m.tree = content.tree

\* The checkpoint that already stands: the unique latest, of the same contents.
Same(list, content) ==
    \E m \in list : Latest(list) = {m} /\ m.db = content.db /\ m.tree = content.tree

\* The dates a new manifest may get: the clock's, raised past the latest listed.
Dates(list) == {t \in Instants : \A m \in list : m.at < t}

\* A seeded fault: the rank of the newest manifest is counted from one.
ExpiredEarly(list) ==
    {m \in list \cap aged : Cardinality({n \in list : Precedes(m, n)}) + 1 >= Minimum}

\* Expired: beyond the newest Minimum of this listing and older than the policy's days.
Expired(list) ==
    {m \in list \cap aged : Cardinality({n \in list : Precedes(m, n)}) >= Minimum}

\* A seeded fault: a blob shared with a retained manifest is not spared.
AllBlobs(list, expired) == UNION {BlobsOf(m) : m \in expired \cap list}

\* Blobs of expired manifests that no manifest retained in this listing refers to.
Unreferenced(list, expired) ==
    (UNION {BlobsOf(m) : m \in expired}) \ (UNION {BlobsOf(m) : m \in list \ expired})

Init ==
    /\ live \in [db : {0}, tree : ArtifactTrees]
    /\ store = [b \in Blobs |-> "absent"]
    /\ committed = {}
    /\ gone = {}
    /\ aged = {}
    /\ reserved = {}
    /\ marker = FALSE
    /\ promised = 0
    /\ overlapped = FALSE
    /\ work = [w \in Writers |-> NoWork]

\* The system writes to the database, to the artifact tree, or to both.
Write ==
    /\ \E db \in {live.db, live.db + 1} \cap Versions, tree \in ArtifactTrees :
          live' = [db |-> db, tree |-> tree]
    /\ live' # live
    /\ UNCHANGED <<store, committed, gone, aged, reserved, marker, promised, work, overlapped>>

\* The live state is backed up to private staging.
Stage(w) ==
    /\ work[w] = NoWork
    /\ work' = [work EXCEPT ![w] = [pc |-> "staged", content |-> live]]
    /\ overlapped' = (overlapped \/ \E x \in Writers : work[x] # NoWork)
    /\ UNCHANGED <<live, store, committed, gone, aged, reserved, marker, promised>>

\* The directory is listed ...
Glob(w) ==
    /\ work[w].pc = "staged"
    /\ work' = [work EXCEPT ![w] =
          [pc |-> "globbed", content |-> @.content,
           names |-> {Name(m) : m \in Published \cup reserved}]]
    /\ UNCHANGED <<live, store, committed, gone, aged, reserved, marker, promised, overlapped>>

\* ... and what it lists is read and verified; a manifest or blob that has gone since fails the call.
Listed(w) ==
    /\ work[w].pc = "globbed"
    /\ LET names == work[w].names
           content == work[w].content
           list == Listing(names)
       IN IF ~ Sound(names)
          THEN work' = [work EXCEPT ![w] = NoWork]
          ELSE IF Same(list, content)
          THEN work' = [work EXCEPT ![w] = [pc |-> "mark", content |-> content, list |-> list]]
          ELSE \E at \in Dates(list) :
             work' = [work EXCEPT ![w] =
                [pc |-> "database", list |-> list, content |-> content, half |-> FALSE,
                 fresh |-> {b \in BlobsOf(content) : store[b] = "absent"},
                 manifest |-> [at |-> at, db |-> content.db, tree |-> content.tree,
                               by |-> w, seen |-> names]]]
    /\ UNCHANGED <<live, store, committed, gone, aged, reserved, marker, promised, overlapped>>

\* What stands under a blob's name while w copies into the file it created.
ReservedBy(w) == w

\* The bytes already published under the name have the hash it names.
Verified(b) == store[b] = "whole"

\* Create the blob under its final name, exclusively: at once by a hard link, or reserved first.
Create(w, b, next) ==
    IF store[b] # "absent"
    THEN work' = [work EXCEPT ![w] = NoWork] /\ UNCHANGED store
    ELSE IF HardLinks
    THEN /\ store' = [store EXCEPT ![b] = "whole"]
         /\ work' = [work EXCEPT ![w].pc = next]
    ELSE /\ store' = [store EXCEPT ![b] = ReservedBy(w)]
         /\ work' = [work EXCEPT ![w].half = TRUE]

\* The copy is complete; a file deleted meanwhile is filled without its name.
Fill(w, b, next) ==
    /\ store' = [store EXCEPT ![b] = IF @ = ReservedBy(w) THEN "whole" ELSE @]
    /\ work' = [work EXCEPT ![w].pc = next, ![w].half = FALSE]

\* Publish blob b where the writer found none, or verify the one there.
Put(w, b, next) ==
    IF b \in work[w].fresh
    THEN IF work[w].half THEN Fill(w, b, next) ELSE Create(w, b, next)
    ELSE /\ work' = [work EXCEPT ![w] = IF Verified(b) THEN [@ EXCEPT !.pc = next] ELSE NoWork]
         /\ UNCHANGED store

PutDatabase(w) ==
    /\ work[w].pc = "database"
    /\ Put(w, Database(work[w].content.db), "artifacts")
    /\ UNCHANGED <<live, committed, gone, aged, reserved, marker, promised, overlapped>>

PutArtifacts(w) ==
    /\ work[w].pc = "artifacts"
    /\ Put(w, Bundle(work[w].content.tree), "manifest")
    /\ UNCHANGED <<live, committed, gone, aged, reserved, marker, promised, overlapped>>

\* A manifest of this name is in the directory already, complete or not.
Taken(name) == \E m \in Published \cup reserved : Name(m) = name

\* The manifest is the commit marker and is published last, exclusively.
Commit(w) ==
    /\ work[w].pc = "manifest"
    /\ LET m == work[w].manifest
       IN IF Taken(Name(m)) /\ ~ work[w].half
          THEN work' = [work EXCEPT ![w] = NoWork] /\ UNCHANGED <<committed, reserved>>
          ELSE IF HardLinks \/ work[w].half
          THEN /\ committed' = IF HardLinks \/ m \in reserved THEN committed \cup {m} ELSE committed
               /\ reserved' = reserved \ {m}
               /\ work' = [work EXCEPT ![w] =
                     [pc |-> "mark", content |-> @.content, list |-> @.list \cup {m}]]
          ELSE /\ reserved' = reserved \cup {m}
               /\ work' = [work EXCEPT ![w].half = TRUE]
               /\ UNCHANGED committed
    /\ UNCHANGED <<live, store, gone, aged, marker, promised, overlapped>>

\* The checkpoint is complete: what the caller is told is durable.
Return(w) ==
    /\ promised' = IF work[w].content.db > promised THEN work[w].content.db ELSE promised
    /\ work' = [work EXCEPT ![w] = NoWork]

\* The authority is marked; the call returns, or first enforces retention.
Mark(w) ==
    /\ work[w].pc = "mark"
    /\ marker' = TRUE
    /\ \/ Return(w)
       \/ /\ w \in Retaining
          /\ LET list == work[w].list
                 expired == Expired(list)
             IN work' = [work EXCEPT ![w] =
                   [pc |-> "unlist", content |-> @.content, expired |-> expired,
                    dead |-> Unreferenced(list, expired)]]
          /\ UNCHANGED promised
    /\ UNCHANGED <<live, store, committed, gone, aged, reserved, overlapped>>

\* Expired manifests are deleted one by one, a missing one tolerated ...
Unlist(w) ==
    /\ work[w].pc = "unlist"
    /\ IF work[w].expired = {}
       THEN work' = [work EXCEPT ![w].pc = "sweep"] /\ UNCHANGED <<gone, reserved>>
       ELSE \E m \in work[w].expired :
          /\ gone' = gone \cup {n \in Published : Name(n) = Name(m)}
          /\ reserved' = {n \in reserved : Name(n) # Name(m)}
          /\ work' = [work EXCEPT ![w].expired = @ \ {m}]
    /\ UNCHANGED <<live, store, committed, aged, marker, promised, overlapped>>

\* ... and then the blobs nothing retained refers to.
Sweep(w) ==
    /\ work[w].pc = "sweep"
    /\ IF work[w].dead = {}
       THEN Return(w) /\ UNCHANGED store
       ELSE \E b \in work[w].dead :
          /\ store' = [store EXCEPT ![b] = "absent"]
          /\ work' = [work EXCEPT ![w].dead = @ \ {b}]
          /\ UNCHANGED promised
    /\ UNCHANGED <<live, committed, gone, aged, reserved, marker, overlapped>>

\* The process dies, or an error ends the call; what it published stays.
Crash(w) ==
    /\ work[w] # NoWork
    /\ work' = [work EXCEPT ![w] = NoWork]
    /\ UNCHANGED <<live, store, committed, gone, aged, reserved, marker, promised, overlapped>>

\* The days of the retention policy pass for everything published so far.
DaysPass ==
    /\ aged # committed
    /\ Prompt => \A w \in Writers : work[w] = NoWork
    /\ aged' = committed
    /\ UNCHANGED <<live, store, committed, gone, reserved, marker, promised, work, overlapped>>

Next ==
    \/ Write \/ DaysPass
    \/ \E w \in Writers :
          \/ Stage(w) \/ Glob(w) \/ Listed(w)
          \/ PutDatabase(w) \/ PutArtifacts(w) \/ Commit(w)
          \/ Mark(w) \/ Unlist(w) \/ Sweep(w) \/ Crash(w)

Spec == Init /\ [][Next]_vars
============================================================================
