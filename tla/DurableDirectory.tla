-------------------------- MODULE DurableDirectory -------------------------
(***************************************************************************)
(* The durable root several processes checkpoint one authority into        *)
(* (durability.py): its blobs and manifests, what each process holds while *)
(* it works, and what the directory promises whoever restores from it.     *)
(* The steps are those of DurableSnapshot.                                 *)
(***************************************************************************)
EXTENDS Integers, FiniteSets

CONSTANTS
    Writers,        \* processes that checkpoint the authority
    Retaining,      \* those whose calls may enforce retention
    ArtifactTrees,  \* contents of the managed artifact tree
    Minimum,        \* minimum_snapshots of the retention policy
    HardLinks,      \* the durable root's file system has hard links
    Prompt,         \* every call ends within the retention policy's days
    MaxDb,          \* bound on the writes to the live database
    MaxInstant      \* bound on the instants a manifest may be dated

\* What stands under a blob's name tells an absent or whole file from a writer's own.
DirectoryParameters ==
    /\ IsFiniteSet(Writers) /\ Retaining \subseteq Writers
    /\ {"absent", "whole"} \cap Writers = {}
    /\ Minimum \in Nat \ {0}
    /\ HardLinks \in BOOLEAN /\ Prompt \in BOOLEAN
    /\ MaxDb \in Nat /\ MaxInstant \in Nat

ASSUME DirectoryAssumption == DirectoryParameters

VARIABLES
    live,       \* the live database and artifact tree
    store,      \* each blob: absent, whole, or reserved by the writer filling it
    committed,  \* every manifest ever published (history)
    gone,       \* those of them retention has deleted
    aged,       \* those of them older than the retention policy's days
    reserved,   \* manifests whose file is created but not yet filled
    marker,     \* the authority marker AUTHORITY.json is present
    promised,   \* the newest database a returned checkpoint answers for (history)
    overlapped, \* a call began while another was running (history)
    work        \* what each writer is doing

Versions == 0 .. MaxDb
Instants == 1 .. MaxInstant
Contents == [db : Versions, tree : ArtifactTrees]

\* The blobs a checkpoint is made of, named by their content.
Database(db) == <<"database", db>>
Bundle(tree) == <<"artifacts", tree>>
Blobs == {Database(db) : db \in Versions} \cup {Bundle(tree) : tree \in ArtifactTrees}
BlobsOf(content) == {Database(content.db), Bundle(content.tree)}

\* A manifest's file name is its instant and the hash of its database; "seen" is
\* history: the names published when its writer listed the directory.
Names == Instants \X Versions
Name(m) == <<m.at, m.db>>
Manifests ==
    [at : Instants, db : Versions, tree : ArtifactTrees, by : Writers, seen : SUBSET Names]

Published == committed \ gone

NoWork == [pc |-> "idle"]

\* Names sort as retention sorts them: by instant, then by hash.
Precedes(m, n) == m.at < n.at \/ (m.at = n.at /\ m.db < n.db)

\* The manifests of the latest instant; a restore wants exactly one.
Latest(list) == {m \in list : \A n \in list : n.at <= m.at}

-----------------------------------------------------------------------------
\* What a writer holds while it works, phase by phase.
Works ==
    {NoWork}
    \cup [pc : {"staged"}, content : Contents]
    \cup [pc : {"globbed"}, content : Contents, names : SUBSET Names]
    \cup [pc : {"database", "artifacts", "manifest"}, content : Contents, list : SUBSET Manifests,
          half : BOOLEAN, fresh : SUBSET Blobs, manifest : Manifests]
    \cup [pc : {"mark"}, content : Contents, list : SUBSET Manifests]
    \cup [pc : {"unlist", "sweep"}, content : Contents, expired : SUBSET Manifests,
          dead : SUBSET Blobs]

\* The directory, its history and what each writer holds have the shape the code relies on.
SnapshotTypeOK ==
    /\ live \in Contents
    /\ store \in [Blobs -> {"absent", "whole"} \cup Writers]
    /\ committed \subseteq Manifests
    /\ gone \subseteq committed
    /\ aged \subseteq committed
    /\ reserved \subseteq Manifests
    /\ marker \in BOOLEAN
    /\ promised \in Versions
    /\ overlapped \in BOOLEAN
    /\ work \in [Writers -> Works]

\* Whatever listings concurrent writers enforce retention from, and wherever one dies,
\* the newest Minimum manifests ever published are still there (_apply_retention); and
\* newest means later: a checkpoint sorts after every one its writer found published,
\* though clocks disagree, others publish meanwhile and retention deletes (snapshot_state).
NewestSurvives ==
    /\ \A m \in gone : Cardinality({n \in committed : Precedes(m, n)}) >= Minimum
    /\ \A m \in committed : \A name \in m.seen : name[1] < m.at

\* The manifest is the commit marker: every published manifest's blobs are there, complete.
\* One that is not makes every later checkpoint and restore fail (_validated_manifests).
CommittedReach ==
    \A m \in Published : \A b \in BlobsOf(m) : store[b] = "whole"

\* It is so wherever calls die, as long as they run one after another, by whatever process;
\* and, where they overlap and share half-copied blobs, until retention deletes something.
ReachUnlessRaced == ~ overlapped \/ gone = {} => CommittedReach

\* The manifest a restore would take holds the newest database a call reported durable, as
\* long as calls run one after another, wherever they died, wrote again and reused.
LatestHoldsNewest ==
    ~ overlapped =>
        \A m \in Published : Latest(Published) = {m} => promised <= m.db
============================================================================
