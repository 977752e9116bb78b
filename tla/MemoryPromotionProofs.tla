----------------------- MODULE MemoryPromotionProofs -----------------------
(***************************************************************************)
(* No memory is promoted without authority, and a denounced one only by    *)
(* the owner, for any number of memories, tasks, runs and sessions.        *)
(*                                                                         *)
(* The invariant adds that every attestation, cited by an event or not,    *)
(* has its clear passing run and its completed task.                       *)
(***************************************************************************)
EXTENDS MemoryPromotion, TLAPS

Backed == \A a \in attested : Proven(a)

Inv == TypeOK /\ Backed /\ PromotedOnAuthority /\ SuspectNeedsOwner

Statuses == Retrievable \cup Excluded

\* What the verifier and the tasks put on record is never taken back.
Grows ==
    /\ attested \subseteq attested'
    /\ runs \subseteq runs'
    /\ \A t \in Tasks : ended[t] # None => ended'[t] = ended[t]

-----------------------------------------------------------------------------
(* Types.                                                                  *)

LEMMA CallType ==
  ASSUME TypeOK, NEW p \in Sessions
  PROVE  /\ call[p].phase \in {"select", "apply", "verify", "dispose", "run"} =>
                call[p].task \in Tasks /\ call[p].memory \in Memories
         /\ call[p].phase = "dispose" => call[p].disposition \in Dispositions
         /\ call[p].phase = "run" =>
                call[p].snapshot \in Snapshots /\ call[p].clear \in BOOLEAN
         /\ call[p].phase \in {"attach", "withdraw", "hygiene"} => call[p].memory \in Memories
         /\ call[p].phase = "owner" => call[p].subject \in Subjects
  BY DEF TypeOK, Calls, Idle

LEMMA LastType ==
  ASSUME TypeOK, NEW m \in Memories
  PROVE  Last(m) \in 0 .. MaxEvents
  BY BoundsAssumption DEF TypeOK, Last, Events

LEMMA BeginType ==
  ASSUME TypeOK, NEW p \in Sessions, NEW c \in Calls, Begin(p, c)
  PROVE  call' \in [Sessions -> Calls] /\ calls' \in 0 .. MaxCalls
  BY BoundsAssumption DEF TypeOK, Begin

LEMMA BecomeType ==
  ASSUME TypeOK, NEW p \in Sessions, NEW c \in Calls, Become(p, c)
  PROVE  call' \in [Sessions -> Calls] /\ calls' \in 0 .. MaxCalls
  BY DEF TypeOK, Become

LEMMA IdleType == Idle \in Calls
  BY DEF Calls

LEMMA AfterRunType ==
  ASSUME NEW m \in Memories, NEW x, NEW y
  PROVE  AfterRun(x, y, m) \in Calls
  BY DEF AfterRun, Calls

\* Appending changes the latest event of one memory.
LEMMA Appended ==
  ASSUME TypeOK, NEW m \in Memories,
         NEW target \in {"active", "confirmed", "candidate", "quarantined"},
         NEW lane \in {"machine", "owner", "safety"},
         NEW evidence \in SUBSET Attestations, NEW steps \in {1, 2},
         AppendEvent(m, target, lane, evidence, steps)
  PROVE  /\ authority' \in [Memories -> Events \cup {None}]
         /\ authority'[m] # None
         /\ authority'[m].target = target
         /\ authority'[m].lane = lane
         /\ authority'[m].evidence = evidence
         /\ \A o \in Memories \ {m} : authority'[o] = authority[o]
<1> DEFINE n == Last(m) + steps
           e == [n |-> n, target |-> target, lane |-> lane, evidence |-> evidence]
<1>1. n \in 1 .. MaxEvents
  BY LastType, BoundsAssumption DEF AppendEvent
<1>2. e \in Events
  BY <1>1 DEF Events
<1>3. authority' = [authority EXCEPT ![m] = e]
  BY DEF AppendEvent
<1>4. e # None
  BY <1>2, NoneAssumption
<1> HIDE DEF e
<1>5. /\ authority' \in [Memories -> Events \cup {None}]
      /\ authority'[m] = e
      /\ \A o \in Memories \ {m} : authority'[o] = authority[o]
  BY <1>2, <1>3 DEF TypeOK
<1> QED
  BY <1>4, <1>5 DEF e

\* A note changes what one task did with one memory.
LEMMA Noted ==
  ASSUME TypeOK, NEW t \in Tasks, NEW m \in Memories, NEW u \in Uses, Note(t, m, u)
  PROVE  /\ use' \in [Tasks -> [Memories -> Uses]]
         /\ use'[t][m] = u
         /\ \A q \in Tasks, o \in Memories : <<q, o>> # <<t, m>> => use'[q][o] = use[q][o]
<1>1. /\ use \in [Tasks -> [Memories -> Uses]]
      /\ use' = [use EXCEPT ![t] = [use[t] EXCEPT ![m] = u]]
  BY DEF TypeOK, Note
<1>2. [use[t] EXCEPT ![m] = u] \in [Memories -> Uses]
  BY <1>1
<1> QED
  BY <1>1, <1>2

-----------------------------------------------------------------------------
(* Lowering and promoting.                                                 *)

Lowerings == Excluded \cup {"candidate"}

LEMMA LowerType ==
  ASSUME TypeOK, NEW m \in Memories, NEW final \in Lowerings, Lower(m, final)
  PROVE  /\ status' \in [Memories -> Statuses]
         /\ authority' \in [Memories -> Events \cup {None}]
         /\ status'[m] = final
         /\ ~ Promotes(authority'[m])
         /\ \A o \in Memories \ {m} : status'[o] = status[o] /\ authority'[o] = authority[o]
<1>1. /\ status' \in [Memories -> Statuses]
      /\ status'[m] = final
      /\ \A o \in Memories \ {m} : status'[o] = status[o]
  BY DEF TypeOK, Lower, Lowerings, Statuses, Retrievable
<1>2. CASE status[m] \in Promoted
  <2>1. WithdrawalTarget(final) \in {"candidate", "quarantined"}
    BY DEF WithdrawalTarget
  <2>2. authority[m].evidence \in SUBSET Attestations
    BY <1>2 DEF TypeOK, Lower, Promotes, Events
  <2>3. AppendEvent(m, WithdrawalTarget(final), "safety", authority[m].evidence, 1)
    BY <1>2 DEF Lower
  <2>4. /\ authority' \in [Memories -> Events \cup {None}]
        /\ authority'[m].target \in {"candidate", "quarantined"}
        /\ \A o \in Memories \ {m} : authority'[o] = authority[o]
    BY <2>1, <2>2, <2>3, Appended
  <2> QED
    BY <1>1, <2>4 DEF Promotes, Promoted
<1>3. CASE status[m] \notin Promoted
  BY <1>1, <1>3 DEF TypeOK, Lower, Promotes
<1> QED
  BY <1>2, <1>3

LEMMA PromoteType ==
  ASSUME TypeOK, NEW m \in Memories, NEW target \in Promoted,
         NEW lane \in {"machine", "owner"}, NEW evidence \in SUBSET Attestations,
         NEW steps \in {1, 2}, Promote(m, target, lane, evidence, steps)
  PROVE  /\ status' \in [Memories -> Statuses]
         /\ authority' \in [Memories -> Events \cup {None}]
         /\ status'[m] = target
         /\ authority'[m] # None
         /\ authority'[m].target = target
         /\ authority'[m].lane = lane
         /\ authority'[m].evidence = evidence
         /\ \A o \in Memories \ {m} : status'[o] = status[o] /\ authority'[o] = authority[o]
<1>1. AppendEvent(m, target, lane, evidence, steps)
  BY DEF Promote
<1>2. /\ status' \in [Memories -> Statuses]
      /\ status'[m] = target
      /\ \A o \in Memories \ {m} : status'[o] = status[o]
  BY DEF TypeOK, Promote, Statuses, Retrievable
<1> QED
  BY <1>1, <1>2, Appended DEF Promoted

-----------------------------------------------------------------------------
(* What an attestation rests on stays.                                     *)

LEMMA ProvenStays ==
  ASSUME TypeOK, Grows, NEW a \in attested, Proven(a)
  PROVE  Proven(a)'
<1>1. a.task \in Tasks /\ a.snapshot \in Snapshots
  BY DEF TypeOK, Attestations
<1>2. ended'[a.task] = ended[a.task]
  BY <1>1, NoneAssumption DEF Grows, Proven
<1> QED
  BY <1>2 DEF Grows, Proven

\* So does the grant of a memory whose status and authority stay.
LEMMA GrantStays ==
  ASSUME TypeOK, Grows, NEW m \in Memories, Granted(m),
         status'[m] = status[m], authority'[m] = authority[m]
  PROVE  Granted(m)'
<1>1. Rests(m) => Rests(m)'
  <2> SUFFICES ASSUME Rests(m) PROVE Rests(m)'
    OBVIOUS
  <2>1. \A a \in authority[m].evidence : a \in attested /\ Proven(a)
    BY DEF Rests, Proven
  <2>2. \A a \in authority[m].evidence : Proven(a)'
    BY <2>1, ProvenStays
  <2> QED
    BY <2>2 DEF Rests, Distinct
<1> QED
  BY <1>1 DEF Granted, Promotes

LEMMA LowerGranted ==
  ASSUME TypeOK, Grows, PromotedOnAuthority,
         NEW m \in Memories, NEW final \in Lowerings, Lower(m, final)
  PROVE  PromotedOnAuthority'
<1> SUFFICES ASSUME NEW o \in Memories PROVE Granted(o)'
  BY DEF PromotedOnAuthority
<1>1. CASE o = m
  BY <1>1, LowerType DEF Granted, Lowerings, Excluded, Promoted
<1>2. CASE o # m
  BY <1>2, LowerType, GrantStays DEF PromotedOnAuthority
<1> QED
  BY <1>1, <1>2

LEMMA OwnerGranted ==
  ASSUME TypeOK, Grows, PromotedOnAuthority, NEW m \in Memories, NEW target \in Promoted,
         Promote(m, target, "owner", {}, 1)
  PROVE  PromotedOnAuthority'
<1> SUFFICES ASSUME NEW o \in Memories PROVE Granted(o)'
  BY DEF PromotedOnAuthority
<1>1. CASE o = m
  BY <1>1, PromoteType DEF Granted
<1>2. CASE o # m
  BY <1>2, PromoteType, GrantStays DEF PromotedOnAuthority
<1> QED
  BY <1>1, <1>2

LEMMA MachineGranted ==
  ASSUME TypeOK, Grows, PromotedOnAuthority, NEW m \in Memories, NEW target \in Promoted,
         NEW evidence \in SUBSET Attestations, NEW steps \in {1, 2},
         Promote(m, target, "machine", evidence, steps),
         evidence # {}, \A a \in evidence : a.memory = m /\ Proven(a)',
         target = "confirmed" => Distinct(evidence)
  PROVE  PromotedOnAuthority'
<1> SUFFICES ASSUME NEW o \in Memories PROVE Granted(o)'
  BY DEF PromotedOnAuthority
<1>1. CASE o = m
  <2>1. /\ status'[m] = target
        /\ authority'[m] # None
        /\ authority'[m].target = target
        /\ authority'[m].lane = "machine"
        /\ authority'[m].evidence = evidence
    BY PromoteType
  <2>2. Rests(m)'
    BY <2>1 DEF Rests, Distinct
  <2> QED
    BY <1>1, <2>1, <2>2 DEF Granted
<1>2. CASE o # m
  BY <1>2, PromoteType, GrantStays DEF PromotedOnAuthority
<1> QED
  BY <1>1, <1>2

LEMMA SameGranted ==
  ASSUME TypeOK, Grows, PromotedOnAuthority, UNCHANGED <<status, authority>>
  PROVE  PromotedOnAuthority'
  BY GrantStays DEF PromotedOnAuthority

-----------------------------------------------------------------------------
(* What somebody denounced.                                                *)

LEMMA SameSuspect ==
  ASSUME SuspectNeedsOwner, UNCHANGED <<status, authority>>,
         \A o \in Memories : Denounced(o)' => Denounced(o)
  PROVE  SuspectNeedsOwner'
  BY DEF SuspectNeedsOwner

\* A memory that is not promoted afterwards may be denounced by the step.
LEMMA LoweredSuspect ==
  ASSUME SuspectNeedsOwner, NEW m \in Memories, status'[m] \notin Promoted,
         \A o \in Memories \ {m} : status'[o] = status[o] /\ authority'[o] = authority[o],
         \A o \in Memories \ {m} : Denounced(o)' => Denounced(o)
  PROVE  SuspectNeedsOwner'
  BY DEF SuspectNeedsOwner

LEMMA LowerSuspect ==
  ASSUME TypeOK, SuspectNeedsOwner, NEW m \in Memories, NEW final \in Lowerings,
         Lower(m, final),
         \A o \in Memories \ {m} : Denounced(o)' => Denounced(o)
  PROVE  SuspectNeedsOwner'
<1>1. /\ status'[m] \notin Promoted
      /\ \A o \in Memories \ {m} : status'[o] = status[o] /\ authority'[o] = authority[o]
  BY LowerType DEF Lowerings, Excluded, Promoted
<1> QED
  BY <1>1, LoweredSuspect

\* A note about one memory denounces no other, and this one only by its own words.
LEMMA NotedOthers ==
  ASSUME TypeOK, NEW t \in Tasks, NEW m \in Memories, NEW u \in Uses, Note(t, m, u)
  PROVE  \A o \in Memories \ {m} : Denounced(o)' => Denounced(o)
  BY Noted DEF Denounced

LEMMA NotedSame ==
  ASSUME TypeOK, NEW t \in Tasks, NEW m \in Memories, NEW u \in Uses, Note(t, m, u),
         u.disposition = "suspect" => use[t][m].disposition = "suspect",
         u.outcome = "harmful" => use[t][m].outcome = "harmful"
  PROVE  \A o \in Memories : Denounced(o)' => Denounced(o)
<1>1. /\ use'[t][m] = u
      /\ \A q \in Tasks, o \in Memories : <<q, o>> # <<t, m>> => use'[q][o] = use[q][o]
  BY Noted
<1>2. SUFFICES ASSUME NEW o \in Memories, NEW q \in Tasks,
                      use'[q][o].disposition = "suspect" \/ use'[q][o].outcome = "harmful"
               PROVE  use[q][o].disposition = "suspect" \/ use[q][o].outcome = "harmful"
  BY DEF Denounced
<1> QED
  BY <1>1, <1>2

\* What the operations write into a use.
LEMMA UseMarked ==
  ASSUME NEW u \in Uses
  PROVE  /\ [u EXCEPT !.selected = TRUE] \in Uses
         /\ [u EXCEPT !.selected = TRUE].disposition = u.disposition
         /\ [u EXCEPT !.selected = TRUE].outcome = u.outcome
         /\ [u EXCEPT !.applied = TRUE] \in Uses
         /\ [u EXCEPT !.applied = TRUE].disposition = u.disposition
         /\ [u EXCEPT !.applied = TRUE].outcome = u.outcome
  BY DEF Uses

LEMMA UseDisposed ==
  ASSUME NEW u \in Uses, NEW d \in Dispositions
  PROVE  /\ [u EXCEPT !.disposition = d, !.applied = @ \/ d = "applied"] \in Uses
         /\ [u EXCEPT !.disposition = d, !.applied = @ \/ d = "applied"].disposition = d
         /\ [u EXCEPT !.disposition = d, !.applied = @ \/ d = "applied"].outcome = u.outcome
  BY DEF Uses

LEMMA UseEvaluated ==
  ASSUME NEW u \in Uses, NEW o \in Outcomes
  PROVE  /\ [u EXCEPT !.outcome = o] \in Uses
         /\ [u EXCEPT !.outcome = o].disposition = u.disposition
         /\ [u EXCEPT !.outcome = o].outcome = o
  BY DEF Uses

-----------------------------------------------------------------------------
(* The steps.                                                              *)

LEMMA SameBacked ==
  ASSUME TypeOK, Backed, Grows, attested' = attested
  PROVE  Backed'
  BY ProvenStays DEF Backed

\* A step that changes only what a session is in the middle of.
LEMMA CallStep ==
  ASSUME Inv, call' \in [Sessions -> Calls], calls' \in 0 .. MaxCalls,
         UNCHANGED <<status, authority, use, runs, attested, ended>>
  PROVE  Inv'
<1>1. Grows
  BY DEF Grows
<1>2. TypeOK'
  BY DEF Inv, TypeOK
<1>3. Backed'
  BY <1>1, SameBacked DEF Inv
<1>4. PromotedOnAuthority'
  BY <1>1, SameGranted DEF Inv
<1>5. SuspectNeedsOwner'
  BY SameSuspect DEF Inv, Denounced
<1> QED
  BY <1>2, <1>3, <1>4, <1>5 DEF Inv

LEMMA RetrieveStep ==
  ASSUME Inv, NEW p \in Sessions, NEW t \in Tasks, NEW m \in Memories,
         Retrieve(p, t, m) \/ Apply(p, t, m) \/ Verify(p, t, m)
  PROVE  Inv'
<1>1. PICK c \in Calls : Begin(p, c)
  BY DEF Retrieve, Apply, Verify, Calls
<1>2. call' \in [Sessions -> Calls] /\ calls' \in 0 .. MaxCalls
  BY <1>1, BeginType DEF Inv
<1> QED
  BY <1>2, CallStep DEF Retrieve, Apply, Verify

LEMMA ResolvePendingStep ==
  ASSUME Inv, NEW p \in Sessions, NEW t \in Tasks, NEW m \in Memories, NEW d \in Dispositions,
         ResolvePending(p, t, m, d)
  PROVE  Inv'
<1>1. PICK c \in Calls : Begin(p, c)
  BY DEF ResolvePending, Calls
<1>2. call' \in [Sessions -> Calls] /\ calls' \in 0 .. MaxCalls
  BY <1>1, BeginType DEF Inv
<1> QED
  BY <1>2, CallStep DEF ResolvePending

LEMMA ReportUnsafeStep ==
  ASSUME Inv, NEW p \in Sessions, NEW m \in Memories, ReportUnsafe(p, m)
  PROVE  Inv'
<1>1. PICK c \in Calls : Begin(p, c)
  BY DEF ReportUnsafe, Calls
<1>2. call' \in [Sessions -> Calls] /\ calls' \in 0 .. MaxCalls
  BY <1>1, BeginType DEF Inv
<1> QED
  BY <1>2, CallStep DEF ReportUnsafe

LEMMA StartRunStep ==
  ASSUME Inv, NEW p \in Sessions, NEW s \in Snapshots, StartRun(p, s)
  PROVE  Inv'
<1> DEFINE t == call[p].task
           m == call[p].memory
           run == [phase |-> "run", task |-> t, memory |-> m, snapshot |-> s,
                   clear |-> ~ Contradicted(m)]
<1>1. t \in Tasks /\ m \in Memories
  BY CallType DEF Inv, StartRun
<1>2. PICK c \in Calls : Become(p, c)
  <2>1. CASE SameRun(t, m, s) = {}
    <3>1. run \in Calls
      BY <1>1 DEF Calls
    <3> QED
      BY <2>1, <3>1 DEF StartRun
  <2>2. CASE SameRun(t, m, s) # {}
    <3>1. PICK r \in SameRun(t, m, s) : Become(p, AfterRun(r.passed, r.clear, m))
      BY <2>2 DEF StartRun
    <3> QED
      BY <1>1, <3>1, AfterRunType
  <2> QED
    BY <2>1, <2>2
<1>3. call' \in [Sessions -> Calls] /\ calls' \in 0 .. MaxCalls
  BY <1>2, BecomeType DEF Inv
<1> QED
  BY <1>3, CallStep DEF StartRun

LEMMA AttachWithdrawalStep ==
  ASSUME Inv, NEW p \in Sessions, AttachWithdrawal(p) \/ Leave(p)
  PROVE  Inv'
<1>1. PICK c \in Calls : Become(p, c)
  BY CallType, IdleType DEF Inv, AttachWithdrawal, Leave, Calls
<1>2. call' \in [Sessions -> Calls] /\ calls' \in 0 .. MaxCalls
  BY <1>1, BecomeType DEF Inv
<1> QED
  BY <1>2, CallStep DEF AttachWithdrawal, Leave

LEMMA AskOwnerStep ==
  ASSUME Inv, NEW p \in Sessions, NEW m \in Memories, NEW command \in OwnerCommands,
         NEW other \in Memories \cup {None}, AskOwner(p, m, command, other)
  PROVE  Inv'
<1>1. status[m] \in Statuses
  BY DEF Inv, TypeOK, Statuses
<1>2. IF other = None THEN TRUE ELSE status[other] \in Statuses
  BY DEF Inv, TypeOK, Statuses
<1>3. Subject(m, command, other) \in Subjects
  BY <1>1, <1>2, LastType DEF Inv, Subject, Subjects, Statuses
<1>4. [phase |-> "owner", subject |-> Subject(m, command, other)] \in Calls
  BY <1>3 DEF Calls
<1>5. call' \in [Sessions -> Calls] /\ calls' \in 0 .. MaxCalls
  BY <1>4, BeginType DEF Inv, AskOwner
<1> QED
  BY <1>5, CallStep DEF AskOwner

\* A selection or an application denounces nothing.
LEMMA RecordUseStep ==
  ASSUME Inv, NEW p \in Sessions, RecordSelection(p) \/ RecordApplication(p)
  PROVE  Inv'
<1> DEFINE t == call[p].task
           m == call[p].memory
<1>1. t \in Tasks /\ m \in Memories
  BY CallType DEF Inv, RecordSelection, RecordApplication
<1>2. use[t][m] \in Uses
  BY <1>1 DEF Inv, TypeOK
<1>3. PICK u \in Uses : /\ Note(t, m, u)
                        /\ u.disposition = use[t][m].disposition
                        /\ u.outcome = use[t][m].outcome
  <2>1. CASE RecordSelection(p)
    <3> DEFINE u == [use[t][m] EXCEPT !.selected = TRUE]
    <3>1. Note(t, m, u)
      BY <2>1 DEF RecordSelection
    <3>2. /\ u \in Uses
          /\ u.disposition = use[t][m].disposition
          /\ u.outcome = use[t][m].outcome
      BY <1>2, UseMarked
    <3> QED
      BY <3>1, <3>2
  <2>2. CASE RecordApplication(p)
    <3> DEFINE u == [use[t][m] EXCEPT !.applied = TRUE]
    <3>1. Note(t, m, u)
      BY <2>2 DEF RecordApplication
    <3>2. /\ u \in Uses
          /\ u.disposition = use[t][m].disposition
          /\ u.outcome = use[t][m].outcome
      BY <1>2, UseMarked
    <3> QED
      BY <3>1, <3>2
  <2> QED
    BY <2>1, <2>2
<1>4. Grows
  BY DEF Grows, RecordSelection, RecordApplication
<1>5. TypeOK'
  <2>1. use' \in [Tasks -> [Memories -> Uses]]
    BY <1>1, <1>3, Noted DEF Inv
  <2>2. call' \in [Sessions -> Calls] /\ calls' \in 0 .. MaxCalls
    BY IdleType, BecomeType DEF Inv, RecordSelection, RecordApplication
  <2> QED
    BY <2>1, <2>2 DEF Inv, TypeOK, RecordSelection, RecordApplication
<1>6. Backed'
  BY <1>4, SameBacked DEF Inv, RecordSelection, RecordApplication
<1>7. PromotedOnAuthority'
  BY <1>4, SameGranted DEF Inv, RecordSelection, RecordApplication
<1>8. \A o \in Memories : Denounced(o)' => Denounced(o)
  BY <1>1, <1>3, NotedSame DEF Inv
<1>9. SuspectNeedsOwner'
  BY <1>8, SameSuspect DEF Inv, RecordSelection, RecordApplication
<1> QED
  BY <1>5, <1>6, <1>7, <1>9 DEF Inv

\* A suspect memory is lowered by the step that calls it suspect.
LEMMA RecordDispositionStep ==
  ASSUME Inv, NEW p \in Sessions, RecordDisposition(p)
  PROVE  Inv'
<1> DEFINE t == call[p].task
           m == call[p].memory
           d == call[p].disposition
           u == [use[t][m] EXCEPT !.disposition = d, !.applied = @ \/ d = "applied"]
<1>1. t \in Tasks /\ m \in Memories /\ d \in Dispositions
  BY CallType DEF Inv, RecordDisposition
<1>2. use[t][m] \in Uses
  BY <1>1 DEF Inv, TypeOK
<1>3. u \in Uses /\ u.disposition = d /\ u.outcome = use[t][m].outcome
  BY <1>1, <1>2, UseDisposed
<1>4. Note(t, m, u) /\ Effects(m, d) /\ Become(p, Idle) /\ UNCHANGED <<runs, attested, ended>>
  BY DEF RecordDisposition
<1> HIDE DEF t, m, d, u
<1>5. Grows
  BY <1>4 DEF Grows
<1>6. use' \in [Tasks -> [Memories -> Uses]]
  BY <1>1, <1>3, <1>4, Noted DEF Inv
<1>7. call' \in [Sessions -> Calls] /\ calls' \in 0 .. MaxCalls
  BY <1>4, IdleType, BecomeType DEF Inv
<1>8. Backed'
  BY <1>4, <1>5, SameBacked DEF Inv
<1>9. \A o \in Memories \ {m} : Denounced(o)' => Denounced(o)
  BY <1>1, <1>3, <1>4, NotedOthers DEF Inv
<1>10. CASE d \in {"suspect", "superseded"}
  <2>1. PICK final \in Lowerings : Lower(m, final)
    BY <1>4, <1>10 DEF Effects, Lowerings, Excluded
  <2>2. TypeOK'
    BY <1>1, <1>4, <1>6, <1>7, <2>1, LowerType DEF Inv, TypeOK, Statuses
  <2>3. PromotedOnAuthority'
    BY <1>1, <1>5, <2>1, LowerGranted DEF Inv
  <2>4. SuspectNeedsOwner'
    BY <1>1, <1>9, <2>1, LowerSuspect DEF Inv
  <2> QED
    BY <1>8, <2>2, <2>3, <2>4 DEF Inv
<1>11. CASE d \notin {"suspect", "superseded"}
  <2>1. UNCHANGED <<status, authority>>
    BY <1>4, <1>11 DEF Effects
  <2>2. TypeOK'
    BY <1>4, <1>6, <1>7, <2>1 DEF Inv, TypeOK
  <2>3. PromotedOnAuthority'
    BY <1>5, <2>1, SameGranted DEF Inv
  <2>4. \A o \in Memories : Denounced(o)' => Denounced(o)
    BY <1>1, <1>3, <1>4, <1>11, NotedSame DEF Inv
  <2>5. SuspectNeedsOwner'
    BY <2>1, <2>4, SameSuspect DEF Inv
  <2> QED
    BY <1>8, <2>2, <2>3, <2>5 DEF Inv
<1> QED
  BY <1>10, <1>11

LEMMA EvaluateStep ==
  ASSUME Inv, NEW t \in Tasks, NEW m \in Memories, NEW o \in Outcomes, Evaluate(t, m, o)
  PROVE  Inv'
<1> DEFINE u == [use[t][m] EXCEPT !.outcome = o]
<1>1. use[t][m] \in Uses
  BY DEF Inv, TypeOK
<1>2. u \in Uses /\ u.disposition = use[t][m].disposition /\ u.outcome = o
  BY <1>1, UseEvaluated
<1>3. Note(t, m, u) /\ UNCHANGED <<runs, attested, ended, call, calls>>
  BY DEF Evaluate
<1> HIDE DEF u
<1>4. Grows
  BY <1>3 DEF Grows
<1>5. use' \in [Tasks -> [Memories -> Uses]]
  BY <1>2, <1>3, Noted DEF Inv
<1>6. Backed'
  BY <1>3, <1>4, SameBacked DEF Inv
<1>7. \A q \in Memories \ {m} : Denounced(q)' => Denounced(q)
  BY <1>2, <1>3, NotedOthers DEF Inv
<1>8. CASE o \in {"harmful", "superseded"}
  <2>1. "quarantined" \in Lowerings /\ Lower(m, "quarantined")
    BY <1>8 DEF Evaluate, Lowerings, Excluded
  <2>2. TypeOK'
    BY <1>3, <1>5, <2>1, LowerType DEF Inv, TypeOK, Statuses
  <2>3. PromotedOnAuthority'
    BY <1>4, <2>1, LowerGranted DEF Inv
  <2>4. SuspectNeedsOwner'
    BY <1>7, <2>1, LowerSuspect DEF Inv
  <2> QED
    BY <1>6, <2>2, <2>3, <2>4 DEF Inv
<1>9. CASE o \notin {"harmful", "superseded"}
  <2>1. UNCHANGED <<status, authority>>
    BY <1>9 DEF Evaluate
  <2>2. TypeOK'
    BY <1>3, <1>5, <2>1 DEF Inv, TypeOK
  <2>3. PromotedOnAuthority'
    BY <1>4, <2>1, SameGranted DEF Inv
  <2>4. \A q \in Memories : Denounced(q)' => Denounced(q)
    BY <1>2, <1>3, <1>9, NotedSame DEF Inv
  <2>5. SuspectNeedsOwner'
    BY <2>1, <2>4, SameSuspect DEF Inv
  <2> QED
    BY <1>6, <2>2, <2>3, <2>5 DEF Inv
<1> QED
  BY <1>8, <1>9

LEMMA RecordRunStep ==
  ASSUME Inv, NEW p \in Sessions, NEW passed \in BOOLEAN, RecordRun(p, passed)
  PROVE  Inv'
<1> DEFINE c == call[p]
           r == [task |-> c.task, memory |-> c.memory, snapshot |-> c.snapshot,
                 passed |-> passed, clear |-> c.clear]
<1>1. /\ c.task \in Tasks /\ c.memory \in Memories
      /\ c.snapshot \in Snapshots /\ c.clear \in BOOLEAN
  BY CallType DEF Inv, RecordRun
<1>2. r \in Runs
  BY <1>1 DEF Runs
<1>3. runs' = runs \cup {r}
  BY DEF RecordRun
<1>4. Become(p, AfterRun(passed, c.clear, c.memory))
  BY DEF RecordRun
<1>5. UNCHANGED <<status, authority, use, attested, ended>>
  BY DEF RecordRun
<1> HIDE DEF c, r
<1>6. Grows
  BY <1>3, <1>5 DEF Grows
<1>7. TypeOK'
  <2>1. call' \in [Sessions -> Calls] /\ calls' \in 0 .. MaxCalls
    BY <1>1, <1>4, AfterRunType, BecomeType DEF Inv
  <2> QED
    BY <1>2, <1>3, <1>5, <2>1 DEF Inv, TypeOK
<1>8. Backed'
  BY <1>5, <1>6, SameBacked DEF Inv
<1>9. PromotedOnAuthority'
  BY <1>5, <1>6, SameGranted DEF Inv
<1>10. SuspectNeedsOwner'
  BY <1>5, SameSuspect DEF Inv, Denounced
<1> QED
  BY <1>7, <1>8, <1>9, <1>10 DEF Inv

LEMMA CompleteStep ==
  ASSUME Inv, NEW t \in Tasks, NEW s \in Snapshots, Complete(t, s)
  PROVE  Inv'
<1>1. UNCHANGED <<status, authority, use, runs, attested, call, calls>>
  BY DEF Complete
<1>2. Grows
  BY DEF Inv, TypeOK, Grows, Complete
<1>3. TypeOK'
  BY <1>1 DEF Inv, TypeOK, Complete
<1>4. Backed'
  BY <1>1, <1>2, SameBacked DEF Inv
<1>5. PromotedOnAuthority'
  BY <1>1, <1>2, SameGranted DEF Inv
<1>6. SuspectNeedsOwner'
  BY <1>1, SameSuspect DEF Inv, Denounced
<1> QED
  BY <1>3, <1>4, <1>5, <1>6 DEF Inv

\* Lowering, whoever asks.
LEMMA LowerStep ==
  ASSUME Inv, NEW m \in Memories, NEW final \in Lowerings, Lower(m, final),
         call' \in [Sessions -> Calls], calls' \in 0 .. MaxCalls,
         UNCHANGED <<use, runs, attested, ended>>
  PROVE  Inv'
<1>1. Grows
  BY DEF Grows
<1>2. TypeOK'
  BY LowerType DEF Inv, TypeOK, Statuses
<1>3. Backed'
  BY <1>1, SameBacked DEF Inv
<1>4. PromotedOnAuthority'
  BY <1>1, LowerGranted DEF Inv
<1>5. SuspectNeedsOwner'
  BY LowerSuspect DEF Inv, Denounced
<1> QED
  BY <1>2, <1>3, <1>4, <1>5 DEF Inv

\* Excluding a memory whose event, if any, stays as it was.
LEMMA ExcludeStep ==
  ASSUME Inv, NEW m \in Memories, NEW final \in Excluded,
         status' = [status EXCEPT ![m] = final],
         Promotes(authority[m]) => final \in {"rejected", "quarantined"},
         call' \in [Sessions -> Calls], calls' \in 0 .. MaxCalls,
         UNCHANGED <<authority, use, runs, attested, ended>>
  PROVE  Inv'
<1>1. Grows
  BY DEF Grows
<1>2. /\ status' \in [Memories -> Statuses]
      /\ status'[m] = final
      /\ \A o \in Memories \ {m} : status'[o] = status[o]
  BY DEF Inv, TypeOK, Statuses
<1>3. final \notin Promoted
  BY DEF Excluded, Promoted
<1>4. TypeOK'
  BY <1>2 DEF Inv, TypeOK, Statuses
<1>5. Backed'
  BY <1>1, SameBacked DEF Inv
<1>6. PromotedOnAuthority'
  <2> SUFFICES ASSUME NEW o \in Memories PROVE Granted(o)'
    BY DEF PromotedOnAuthority
  <2>1. CASE o = m
    <3>1. Rests(m) => Rests(m)'
      <4>1. Rests(m) => \A a \in authority[m].evidence : a \in attested /\ Proven(a)
        BY DEF Rests, Proven
      <4>2. Rests(m) => \A a \in authority[m].evidence : Proven(a)'
        BY <1>1, <4>1, ProvenStays DEF Inv
      <4> QED
        BY <4>2 DEF Rests, Distinct
    <3> QED
      BY <1>2, <1>3, <2>1, <3>1 DEF Inv, PromotedOnAuthority, Granted, Promotes
  <2>2. CASE o # m
    BY <1>1, <1>2, <2>2, GrantStays DEF Inv, PromotedOnAuthority
  <2> QED
    BY <2>1, <2>2
<1>7. SuspectNeedsOwner'
  BY <1>2, <1>3, LoweredSuspect DEF Inv, Denounced
<1> QED
  BY <1>4, <1>5, <1>6, <1>7 DEF Inv

LEMMA WithdrawStep ==
  ASSUME Inv, NEW m \in Memories, NEW target \in {"candidate", "quarantined"},
         WithdrawCommand(m, target)
  PROVE  Inv'
<1>1. target \in Lowerings /\ Lower(m, target)
  BY DEF WithdrawCommand, Withdraw, Lowerings, Excluded
<1> QED
  BY <1>1, LowerStep DEF Inv, TypeOK, WithdrawCommand

LEMMA SafetyWithdrawalStep ==
  ASSUME Inv, NEW p \in Sessions, SafetyWithdrawal(p)
  PROVE  Inv'
<1>1. call[p].memory \in Memories
  BY CallType DEF Inv, SafetyWithdrawal
<1>2. "quarantined" \in Lowerings /\ Lower(call[p].memory, "quarantined")
  BY DEF SafetyWithdrawal, Withdraw, Lowerings, Excluded
<1>3. call' \in [Sessions -> Calls] /\ calls' \in 0 .. MaxCalls
  BY IdleType, BecomeType DEF Inv, SafetyWithdrawal
<1> QED
  BY <1>1, <1>2, <1>3, LowerStep DEF SafetyWithdrawal

LEMMA RejectStep ==
  ASSUME Inv, NEW m \in Memories, Reject(m)
  PROVE  Inv'
<1>1. "rejected" \in Excluded
  BY DEF Excluded
<1> QED
  BY <1>1, ExcludeStep DEF Inv, TypeOK, Reject

LEMMA HygieneStep ==
  ASSUME Inv, NEW p \in Sessions, Hygiene(p)
  PROVE  Inv'
<1>1. "quarantined" \in Excluded
  BY DEF Excluded
<1>2. call[p].memory \in Memories
  BY CallType DEF Inv, Hygiene
<1>3. call' \in [Sessions -> Calls] /\ calls' \in 0 .. MaxCalls
  BY IdleType, BecomeType DEF Inv, Hygiene
<1> QED
  BY <1>1, <1>2, <1>3, ExcludeStep DEF Hygiene

\* The owner's promotion needs no evidence and covers what was denounced.
LEMMA OwnerPromoteStep ==
  ASSUME Inv, NEW m \in Memories, NEW target \in Promoted, Promote(m, target, "owner", {}, 1),
         call' \in [Sessions -> Calls], calls' \in 0 .. MaxCalls,
         UNCHANGED <<use, runs, attested, ended>>
  PROVE  Inv'
<1>1. Grows
  BY DEF Grows
<1>2. /\ status' \in [Memories -> Statuses]
      /\ authority' \in [Memories -> Events \cup {None}]
      /\ authority'[m] # None
      /\ authority'[m].lane = "owner"
      /\ \A o \in Memories \ {m} : status'[o] = status[o] /\ authority'[o] = authority[o]
  BY PromoteType DEF Inv
<1>3. TypeOK'
  BY <1>2 DEF Inv, TypeOK, Statuses
<1>4. Backed'
  BY <1>1, SameBacked DEF Inv
<1>5. PromotedOnAuthority'
  BY <1>1, OwnerGranted DEF Inv
<1>6. SuspectNeedsOwner'
  BY <1>2 DEF Inv, SuspectNeedsOwner, Denounced
<1> QED
  BY <1>3, <1>4, <1>5, <1>6 DEF Inv

LEMMA RetireStep ==
  ASSUME Inv, NEW m \in Memories, NEW final \in {"retired", "superseded"}, Retire(m, final),
         call' \in [Sessions -> Calls], calls' \in 0 .. MaxCalls,
         UNCHANGED <<use, runs, attested, ended>>
  PROVE  Inv'
<1>1. final \in Lowerings /\ final \in Excluded
  BY DEF Lowerings, Excluded
<1>2. CASE Promotes(authority[m])
  BY <1>1, <1>2, LowerStep DEF Retire
<1>3. CASE ~ Promotes(authority[m])
  BY <1>1, <1>3, ExcludeStep DEF Retire
<1> QED
  BY <1>2, <1>3

LEMMA OwnerApprovesStep ==
  ASSUME Inv, NEW p \in Sessions, OwnerApproves(p)
  PROVE  Inv'
<1> DEFINE m == call[p].subject.memory
           command == call[p].subject.command
<1>1. call[p].subject \in Subjects
  BY CallType DEF Inv, OwnerApproves
<1>2. m \in Memories /\ command \in OwnerCommands
  BY <1>1 DEF Subjects
<1>3. call' \in [Sessions -> Calls] /\ calls' \in 0 .. MaxCalls
  BY IdleType, BecomeType DEF Inv, OwnerApproves
<1>4. UNCHANGED <<use, runs, attested, ended>>
  BY DEF OwnerApproves
<1>5. CASE command = "activation"
  <2>1. "active" \in Promoted /\ Promote(m, "active", "owner", {}, 1)
    BY <1>5 DEF OwnerApproves, Promoted
  <2> QED
    BY <1>2, <1>3, <1>4, <2>1, OwnerPromoteStep
<1>6. CASE command = "confirmation"
  <2>1. "confirmed" \in Promoted /\ Promote(m, "confirmed", "owner", {}, 1)
    BY <1>6 DEF OwnerApproves, Promoted
  <2> QED
    BY <1>2, <1>3, <1>4, <2>1, OwnerPromoteStep
<1>7. CASE command = "retire"
  <2>1. Retire(m, "retired")
    BY <1>7 DEF OwnerApproves
  <2> QED
    BY <1>2, <1>3, <1>4, <2>1, RetireStep
<1>8. CASE command = "supersede"
  <2>1. Retire(m, "superseded")
    BY <1>8 DEF OwnerApproves
  <2> QED
    BY <1>2, <1>3, <1>4, <2>1, RetireStep
<1> QED
  BY <1>2, <1>5, <1>6, <1>7, <1>8 DEF OwnerCommands

\* What is derived rests on the attestations of the memory, the new one among them.
LEMMA FinalizeStep ==
  ASSUME Inv, NEW r \in runs, Finalize(r)
  PROVE  Inv'
<1> DEFINE m == r.memory
           a == [task |-> r.task, memory |-> r.memory, snapshot |-> r.snapshot]
           evidence == {b \in attested' : b.memory = m}
<1>1. /\ r.task \in Tasks /\ m \in Memories /\ r.snapshot \in Snapshots
      /\ r.passed /\ r.clear
      /\ ended[r.task] = r.snapshot
  BY DEF Inv, TypeOK, Runs, Finalize, Attestable
<1>2. attested' = attested \cup {a} /\ a \in Attestations
  BY <1>1 DEF Finalize, Attestations
<1>3. UNCHANGED <<use, runs, ended, call, calls>>
  BY DEF Finalize
<1>4. Derive(m, evidence)
  BY DEF Finalize
<1>5. Grows
  BY <1>2, <1>3 DEF Grows
<1>6. Backed'
  <2>1. Proven(a)'
    BY <1>1, <1>2, <1>3 DEF Proven
  <2>2. \A b \in attested : Proven(b)'
    BY <1>5, ProvenStays DEF Inv, Backed
  <2> QED
    BY <1>2, <2>1, <2>2 DEF Backed
<1>7. /\ evidence \in SUBSET Attestations
      /\ evidence # {}
      /\ \A b \in evidence : b.memory = m /\ Proven(b)'
  BY <1>2, <1>6 DEF Inv, TypeOK, Backed
<1> HIDE DEF a, evidence
<1>8. attested' \subseteq Attestations
  BY <1>2 DEF Inv, TypeOK
<1>9. CASE UNCHANGED <<status, authority>>
  <2>1. TypeOK'
    BY <1>3, <1>8, <1>9 DEF Inv, TypeOK
  <2>2. PromotedOnAuthority'
    BY <1>5, <1>9, SameGranted DEF Inv
  <2>3. SuspectNeedsOwner'
    BY <1>3, <1>9, SameSuspect DEF Inv, Denounced
  <2> QED
    BY <1>6, <2>1, <2>2, <2>3 DEF Inv
<1>10. CASE ~ UNCHANGED <<status, authority>>
  <2>1. ~ Contradicted(m)
    BY <1>4, <1>10 DEF Derive, Confirms, Activates
  <2>2. PICK target \in Promoted, steps \in {1, 2} :
           /\ Promote(m, target, "machine", evidence, steps)
           /\ target = "confirmed" => Distinct(evidence)
    BY <1>4, <1>10 DEF Derive, Confirms, Promoted
  <2>3. /\ status' \in [Memories -> Statuses]
        /\ authority' \in [Memories -> Events \cup {None}]
        /\ \A o \in Memories \ {m} : status'[o] = status[o] /\ authority'[o] = authority[o]
    BY <1>1, <1>7, <2>2, PromoteType DEF Inv
  <2>4. TypeOK'
    BY <1>3, <1>8, <2>3 DEF Inv, TypeOK, Statuses
  <2>5. PromotedOnAuthority'
    BY <1>1, <1>5, <1>7, <2>2, MachineGranted DEF Inv
  <2>6. ~ Denounced(m)'
    BY <1>3, <2>1 DEF Contradicted, Denounced
  <2>7. SuspectNeedsOwner'
    BY <1>3, <2>3, <2>6 DEF Inv, SuspectNeedsOwner, Denounced
  <2> QED
    BY <1>6, <2>4, <2>5, <2>7 DEF Inv
<1> QED
  BY <1>9, <1>10

-----------------------------------------------------------------------------
LEMMA InitInv == Init => Inv
<1> SUFFICES ASSUME Init PROVE Inv
  OBVIOUS
<1>1. \A m \in Memories : status[m] \in Promoted <=> m \in Legacy
  BY DEF Init
<1>2. \A m \in Memories : authority[m] = None
  BY DEF Init
<1>3. Unused \in Uses
  BY DEF Unused, Uses
<1>4. TypeOK
  <2>1. authority \in [Memories -> Events \cup {None}] /\ ended \in [Tasks -> Snapshots \cup {None}]
    BY DEF Init
  <2>2. use \in [Tasks -> [Memories -> Uses]]
    BY <1>3 DEF Init
  <2>3. call \in [Sessions -> Calls] /\ calls \in 0 .. MaxCalls
    BY IdleType, BoundsAssumption DEF Init
  <2> QED
    BY <2>1, <2>2, <2>3 DEF Init, TypeOK
<1>5. Backed
  BY DEF Init, Backed
<1>6. PromotedOnAuthority
  BY <1>1, <1>2 DEF PromotedOnAuthority, Granted, Promotes
<1>7. SuspectNeedsOwner
  <2>1. \A m \in Memories : ~ Denounced(m)
    BY NoneAssumption DEF Init, Denounced, Unused, Dispositions, Outcomes
  <2> QED
    BY <2>1 DEF SuspectNeedsOwner
<1> QED
  BY <1>4, <1>5, <1>6, <1>7 DEF Inv

LEMMA NextInv ==
  ASSUME Inv, [Next]_vars
  PROVE  Inv'
<1>1. CASE UseMemory
  BY <1>1, RetrieveStep, ResolvePendingStep, RecordUseStep, RecordDispositionStep, EvaluateStep
     DEF UseMemory
<1>2. CASE VerifyMemory
  BY <1>2, RetrieveStep, StartRunStep, RecordRunStep, AttachWithdrawalStep,
     SafetyWithdrawalStep, CompleteStep, FinalizeStep
     DEF VerifyMemory
<1>3. CASE Decide
  BY <1>3, AskOwnerStep, OwnerApprovesStep, AttachWithdrawalStep, RejectStep, ReportUnsafeStep,
     HygieneStep, WithdrawStep
     DEF Decide
<1>4. CASE UNCHANGED vars
  <2>1. UNCHANGED <<status, authority, use, runs, attested, ended, call, calls>>
    BY <1>4 DEF vars
  <2> QED
    BY <2>1, CallStep DEF Inv, TypeOK
<1> QED
  BY <1>1, <1>2, <1>3, <1>4 DEF Next

LEMMA Invariance == Spec => []Inv
  BY InitInv, NextInv, PTL DEF Spec

\* Every variable keeps its type: in particular no event has a number out of range.
THEOREM MemoryTypes == Spec => []TypeOK
<1>1. Inv => TypeOK
  BY DEF Inv
<1> QED
  BY <1>1, Invariance, PTL

\* Selections, verifier runs, attestations, the owner's answers and withdrawals, in any
\* order and by any number of sessions (_memory_promotion.py), leave no memory active or
\* confirmed without an event that grants just that and rests on the owner or on clear
\* runs of completed tasks.
THEOREM PromotionsAuthorized == Spec => []PromotedOnAuthority
<1>1. Inv => PromotedOnAuthority
  BY DEF Inv
<1> QED
  BY <1>1, Invariance, PTL

\* After a suspect disposition or a harmful outcome (_memory_lifecycle.py) only the
\* owner's own decision has the memory active or confirmed.
THEOREM DenouncedStaysOut == Spec => []SuspectNeedsOwner
<1>1. Inv => SuspectNeedsOwner
  BY DEF Inv
<1> QED
  BY <1>1, Invariance, PTL
=============================================================================
