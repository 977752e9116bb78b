-------------------------- MODULE MemoryPromotion --------------------------
(***************************************************************************)
(* How a memory comes into and goes out of use (_memory_lifecycle.py,      *)
(* _memory_verifier.py, _memory_promotion.py).  Tasks select memories,     *)
(* say what became of them and evaluate what they applied; an installed    *)
(* verifier runs the check a memory's claim names; the end of a completed  *)
(* task turns its clear runs into attestations, and those into activation  *)
(* and confirmation.  The owner may promote, retire or supersede by hand.  *)
(* Every promotion and withdrawal is an event that names its predecessor.  *)
(*                                                                         *)
(* A claim does not change, so it is part of the memory's name.  A run may *)
(* find the repository at any snapshot, and whether the snapshot is still  *)
(* the one tested is part of the choice to attest.  The memories stand in  *)
(* one project; a task selects one at most once and applies it once.       *)
(* Learning decisions, seeds and selections taken over are left out.       *)
(***************************************************************************)
EXTENDS Naturals

CONSTANTS
    Memories,
    Legacy,      \* memories promoted before events were kept
    Verifiable,  \* memories whose claim an installed verifier accepts
    Unsafe,      \* memories whose content the hygiene report names
    Tasks,       \* accepted tasks other than those that wrote the memories
    Snapshots,   \* states of the repository after those tasks
    Sessions,
    MaxEvents,   \* bound on the events of one memory
    MaxCalls,    \* bound on the calls of sessions that take more than one step
    None

ASSUME MemoriesAssumption == Legacy \subseteq Memories
ASSUME BoundsAssumption == MaxEvents \in Nat /\ MaxCalls \in Nat

VARIABLES
    status,    \* of each memory
    authority, \* its latest promotion event, None without one
    use,       \* what each task did with each memory
    runs,      \* verifier runs
    attested,  \* attestations
    ended,     \* the snapshot a completed task ended on, None before
    call,      \* what each session is in the middle of
    calls      \* how many calls were begun

vars == <<status, authority, use, runs, attested, ended, call, calls>>

Promoted == {"active", "confirmed"}
Retrievable == Promoted \cup {"candidate"}
Excluded == {"quarantined", "rejected", "retired", "superseded"}

Dispositions == {"applied", "irrelevant", "suspect", "superseded"}
Outcomes == {"helpful", "not_helpful", "harmful", "superseded"}
Uses == [selected : BOOLEAN, disposition : Dispositions \cup {None},
         applied : BOOLEAN, outcome : Outcomes \cup {None}]

Attestations == [task : Tasks, memory : Memories, snapshot : Snapshots]
Runs == [task : Tasks, memory : Memories, snapshot : Snapshots,
         passed : BOOLEAN, clear : BOOLEAN]

\* The target tells an activation, a confirmation and the two withdrawals apart.
\* The owner's receipt is no attestation: evidence is empty.
Events == [n : 1 .. MaxEvents, target : {"active", "confirmed", "candidate", "quarantined"},
           lane : {"machine", "owner", "safety"}, evidence : SUBSET Attestations]

OwnerCommands == {"activation", "confirmation", "retire", "supersede"}
Subjects == [memory : Memories, status : Retrievable \cup Excluded, prior : 0 .. MaxEvents,
             command : OwnerCommands, other : Memories \cup {None},
             seen : Retrievable \cup Excluded \cup {None}]

\* None is none of the things it stands in for.
ASSUME NoneAssumption ==
    None \notin Events \cup Memories \cup Snapshots \cup Dispositions \cup Outcomes

Idle == [phase |-> "idle"]
Calls ==
         {Idle}
    \cup [phase : {"select", "apply", "verify"}, task : Tasks, memory : Memories]
    \cup [phase : {"dispose"}, task : Tasks, memory : Memories, disposition : Dispositions]
    \cup [phase : {"run"}, task : Tasks, memory : Memories, snapshot : Snapshots, clear : BOOLEAN]
    \cup [phase : {"attach", "withdraw", "hygiene"}, memory : Memories]
    \cup [phase : {"owner"}, subject : Subjects]

Begin(p, c) ==
    /\ call[p] = Idle
    /\ calls < MaxCalls
    /\ call' = [call EXCEPT ![p] = c]
    /\ calls' = calls + 1

Become(p, c) ==
    /\ call' = [call EXCEPT ![p] = c]
    /\ UNCHANGED calls
-----------------------------------------------------------------------------
(* Promotion events.                                                       *)

Promotes(e) == e # None /\ e.target \in Promoted
Withdraws(e) == e # None /\ e.target \notin Promoted

\* The events of a memory are numbered; zero stands for none.
Last(m) == IF authority[m] = None THEN 0 ELSE authority[m].n

AppendEvent(m, target, lane, evidence, steps) ==
    LET n == Last(m) + steps
    IN  /\ n <= MaxEvents
        /\ authority' = [authority EXCEPT ![m] =
               [n |-> n, target |-> target, lane |-> lane, evidence |-> evidence]]

Promote(m, target, lane, evidence, steps) ==
    /\ AppendEvent(m, target, lane, evidence, steps)
    /\ status' = [status EXCEPT ![m] = target]

WithdrawalTarget(final) == IF final = "candidate" THEN "candidate" ELSE "quarantined"

\* A promoted memory is lowered together with its authority, one without effective
\* authority alone; anything else is refused, whatever the caller wrote before it.
Lower(m, final) ==
    /\ status' = [status EXCEPT ![m] = final]
    /\ IF status[m] \in Promoted
       THEN /\ Promotes(authority[m])
            /\ AppendEvent(m, WithdrawalTarget(final), "safety", authority[m].evidence, 1)
       ELSE /\ ~ Promotes(authority[m])
            /\ UNCHANGED authority
-----------------------------------------------------------------------------
(* Tasks use memories.                                                     *)

Note(t, m, u) == use' = [use EXCEPT ![t][m] = u]

\* The candidates are read first; their selection does not ask again.
Retrieve(p, t, m) ==
    /\ status[m] \in Retrievable
    /\ Begin(p, [phase |-> "select", task |-> t, memory |-> m])
    /\ UNCHANGED <<status, authority, use, runs, attested, ended>>

RecordSelection(p) ==
    /\ call[p].phase = "select"
    /\ LET t == call[p].task
           m == call[p].memory
       IN  Note(t, m, [use[t][m] EXCEPT !.selected = TRUE])
    /\ Become(p, Idle)
    /\ UNCHANGED <<status, authority, runs, attested, ended>>

\* The disposition is read before the insertion takes the write lock.
Apply(p, t, m) ==
    /\ use[t][m].selected
    /\ use[t][m].disposition \in {None, "applied"}
    /\ Begin(p, [phase |-> "apply", task |-> t, memory |-> m])
    /\ UNCHANGED <<status, authority, use, runs, attested, ended>>

RecordApplication(p) ==
    /\ call[p].phase = "apply"
    /\ LET t == call[p].task
           m == call[p].memory
       IN  Note(t, m, [use[t][m] EXCEPT !.applied = TRUE])
    /\ Become(p, Idle)
    /\ UNCHANGED <<status, authority, runs, attested, ended>>

\* Only a selection without a disposition is resolved ...
ResolvePending(p, t, m, d) ==
    /\ use[t][m].selected
    /\ use[t][m].disposition = None
    /\ Begin(p, [phase |-> "dispose", task |-> t, memory |-> m, disposition |-> d])
    /\ UNCHANGED <<status, authority, use, runs, attested, ended>>

\* Seeded fault: a suspect memory is not lowered.
EffectsOfReplacement(m, d) ==
    IF d = "superseded" THEN Lower(m, "superseded") ELSE UNCHANGED <<status, authority>>

Effects(m, d) ==
    CASE d = "suspect" -> Lower(m, "quarantined")
      [] d = "superseded" -> Lower(m, "superseded")
      [] OTHER -> UNCHANGED <<status, authority>>

\* ... but the same disposition, recorded in between, is recorded again with its effects.
RecordDisposition(p) ==
    /\ call[p].phase = "dispose"
    /\ LET t == call[p].task
           m == call[p].memory
           d == call[p].disposition
       IN  /\ use[t][m].disposition \in {None, d}
           /\ use[t][m].applied => d = "applied"
           /\ d = "superseded" => \E r \in Memories : status[r] \in Retrievable
           /\ Note(t, m, [use[t][m] EXCEPT !.disposition = d,
                                           !.applied = @ \/ d = "applied"])
           /\ Effects(m, d)
    /\ Become(p, Idle)
    /\ UNCHANGED <<runs, attested, ended>>

\* An evaluation repeated with the same outcome has its effects again.
Evaluate(t, m, o) ==
    /\ use[t][m].applied
    /\ use[t][m].outcome \in {None, o}
    /\ Note(t, m, [use[t][m] EXCEPT !.outcome = o])
    /\ IF o \in {"harmful", "superseded"}
       THEN Lower(m, "quarantined")
       ELSE UNCHANGED <<status, authority>>
    /\ UNCHANGED <<runs, attested, ended, call, calls>>

Contradicted(m) ==
    \E t \in Tasks : \/ use[t][m].disposition = "suspect"
                     \/ use[t][m].outcome \in {"not_helpful", "harmful"}
-----------------------------------------------------------------------------
(* The installed verifier.                                                 *)

Verify(p, t, m) ==
    /\ m \in Verifiable
    /\ status[m] \in Retrievable
    /\ Begin(p, [phase |-> "verify", task |-> t, memory |-> m])
    /\ UNCHANGED <<status, authority, use, runs, attested, ended>>

SameRun(t, m, s) == {r \in runs : r.task = t /\ r.memory = m /\ r.snapshot = s}

AfterRun(passed, clear, m) ==
    IF passed /\ clear THEN Idle ELSE [phase |-> "attach", memory |-> m]

\* A run that is there already is answered; otherwise the check starts, and the
\* contradiction read now is the one recorded with its result.
StartRun(p, s) ==
    /\ call[p].phase = "verify"
    /\ LET t == call[p].task
           m == call[p].memory
       IN  IF SameRun(t, m, s) = {}
           THEN Become(p, [phase |-> "run", task |-> t, memory |-> m, snapshot |-> s,
                           clear |-> ~ Contradicted(m)])
           ELSE \E r \in SameRun(t, m, s) : Become(p, AfterRun(r.passed, r.clear, m))
    /\ UNCHANGED <<status, authority, use, runs, attested, ended>>

\* The first of two equal runs is kept, the second is refused.
RecordRun(p, passed) ==
    /\ call[p].phase = "run"
    /\ LET c == call[p]
       IN  /\ SameRun(c.task, c.memory, c.snapshot) = {}
           /\ runs' = runs \cup {[task |-> c.task, memory |-> c.memory, snapshot |-> c.snapshot,
                                  passed |-> passed, clear |-> c.clear]}
           /\ Become(p, AfterRun(passed, c.clear, c.memory))
    /\ UNCHANGED <<status, authority, use, attested, ended>>

\* An event that is withdrawn already stays withdrawn to where it was.
Withdraw(m, target) ==
    /\ authority[m] # None
    /\ Withdraws(authority[m]) => authority[m].target = target
    /\ Lower(m, target)

\* A bad run of a promoted memory quarantines it, in a transaction after the look.
AttachWithdrawal(p) ==
    /\ call[p].phase = "attach"
    /\ Become(p, IF status[call[p].memory] \in Promoted
                 THEN [phase |-> "withdraw", memory |-> call[p].memory] ELSE Idle)
    /\ UNCHANGED <<status, authority, use, runs, attested, ended>>

SafetyWithdrawal(p) ==
    /\ call[p].phase = "withdraw"
    /\ Withdraw(call[p].memory, "quarantined")
    /\ Become(p, Idle)
    /\ UNCHANGED <<use, runs, attested, ended>>
-----------------------------------------------------------------------------
(* Attestation, activation, confirmation.                                  *)

Complete(t, s) ==
    /\ ended[t] = None
    /\ ended' = [ended EXCEPT ![t] = s]
    /\ UNCHANGED <<status, authority, use, runs, attested, call, calls>>

Distinct(evidence) ==
    /\ \E a, b \in evidence : a.task # b.task
    /\ \E a, b \in evidence : a.snapshot # b.snapshot

\* There is nothing to activate, and that is no error.
Settled(m, evidence) ==
    \/ status[m] \in Promoted /\ authority[m] # None /\ authority[m].target = status[m]
    \/ status[m] \in Excluded /\ authority[m] # None /\ authority[m].target # "confirmed"
    \/ /\ status[m] = "candidate" /\ ~ Contradicted(m)
       /\ Withdraws(authority[m]) /\ authority[m].evidence = evidence

\* The repair of a candidate whose activation stands is left out: there is none, as
\* PromotedOnAuthority shows.
Activates(m, evidence) ==
    /\ status[m] = "candidate" /\ ~ Contradicted(m)
    /\ ~ Promotes(authority[m])
    /\ Withdraws(authority[m]) => authority[m].evidence # evidence

Confirms(m, evidence) == status[m] = "active" /\ ~ Contradicted(m) /\ Distinct(evidence)

Derive(m, evidence) ==
    \/ /\ Settled(m, evidence)
       /\ IF Confirms(m, evidence)
          THEN Promote(m, "confirmed", "machine", evidence, 1)
          ELSE UNCHANGED <<status, authority>>
    \/ /\ Activates(m, evidence)
       /\ IF Distinct(evidence)
          THEN Promote(m, "confirmed", "machine", evidence, 2)
          ELSE Promote(m, "active", "machine", evidence, 1)

\* Seeded fault: the task need not have completed on the tested snapshot.
AttestableUnended(r) ==
    /\ r.passed /\ r.clear
    /\ \A o \in runs : o.memory = r.memory /\ o.snapshot = r.snapshot => o.passed /\ o.clear
    /\ \A a \in attested : a.memory = r.memory /\ a.snapshot = r.snapshot => a.task = r.task

Attestable(r) ==
    /\ r.passed /\ r.clear
    /\ ended[r.task] = r.snapshot
    /\ \A o \in runs : o.memory = r.memory /\ o.snapshot = r.snapshot => o.passed /\ o.clear
    /\ \A a \in attested : a.memory = r.memory /\ a.snapshot = r.snapshot => a.task = r.task

\* When its task completes, and again whenever somebody asks.
Finalize(r) ==
    /\ Attestable(r)
    /\ attested' = attested \cup {[task |-> r.task, memory |-> r.memory, snapshot |-> r.snapshot]}
    /\ Derive(r.memory, {a \in attested' : a.memory = r.memory})
    /\ UNCHANGED <<use, runs, ended, call, calls>>
-----------------------------------------------------------------------------
(* The owner.                                                              *)

Retirable(m) ==
    /\ status[m] \in Retrievable
    /\ IF Promotes(authority[m]) THEN status[m] \in Promoted
       ELSE status[m] \in Promoted => authority[m] = None

OwnerMay(m, command, other) ==
    \/ /\ command = "activation" /\ other = None
       /\ status[m] \in {"candidate", "quarantined"}
       /\ ~ Promotes(authority[m])
       /\ status[m] = "quarantined" /\ authority[m] # None
             => authority[m].target = "quarantined"
    \/ /\ command = "confirmation" /\ other = None
       /\ status[m] = "active"
       /\ authority[m] # None /\ authority[m].target = "active"
    \/ command = "retire" /\ other = None /\ Retirable(m)
    \/ /\ command = "supersede" /\ other \in Memories \ {m}
       /\ status[other] \in Retrievable
       /\ Retirable(m)

Subject(m, command, other) ==
    [memory |-> m, status |-> status[m], prior |-> Last(m), command |-> command,
     other |-> other, seen |-> IF other = None THEN None ELSE status[other]]

AskOwner(p, m, command, other) ==
    /\ OwnerMay(m, command, other)
    /\ Begin(p, [phase |-> "owner", subject |-> Subject(m, command, other)])
    /\ UNCHANGED <<status, authority, use, runs, attested, ended>>

\* A memory without promotion authority is retired without an event.
Retire(m, final) ==
    IF Promotes(authority[m]) THEN Lower(m, final)
    ELSE status' = [status EXCEPT ![m] = final] /\ UNCHANGED authority

\* The owner approved; what was approved must still be what is there.
OwnerApproves(p) ==
    /\ call[p].phase = "owner"
    /\ LET asked == call[p].subject
           m == asked.memory
           command == asked.command
       IN  /\ asked = Subject(m, command, asked.other)
           /\ OwnerMay(m, command, asked.other)
           /\ CASE command = "activation" -> Promote(m, "active", "owner", {}, 1)
                [] command = "confirmation" -> Promote(m, "confirmed", "owner", {}, 1)
                [] command = "retire" -> Retire(m, "retired")
                [] command = "supersede" -> Retire(m, "superseded")
    /\ Become(p, Idle)
    /\ UNCHANGED <<use, runs, attested, ended>>
-----------------------------------------------------------------------------
(* Anybody.                                                                *)

WithdrawCommand(m, target) ==
    /\ Withdraw(m, target)
    /\ UNCHANGED <<use, runs, attested, ended, call, calls>>

Reject(m) ==
    /\ status' = [status EXCEPT ![m] = "rejected"]
    /\ UNCHANGED <<authority, use, runs, attested, ended, call, calls>>

\* The call reports again, and then quarantines what it was asked to without looking.
ReportUnsafe(p, m) ==
    /\ m \in Unsafe
    /\ status[m] \notin {"quarantined", "retired", "superseded"}
    /\ Begin(p, [phase |-> "hygiene", memory |-> m])
    /\ UNCHANGED <<status, authority, use, runs, attested, ended>>

Hygiene(p) ==
    /\ call[p].phase = "hygiene"
    /\ status' = [status EXCEPT ![call[p].memory] = "quarantined"]
    /\ Become(p, Idle)
    /\ UNCHANGED <<authority, use, runs, attested, ended>>

\* The call is refused, declined, or its process dies.
Leave(p) ==
    /\ call[p] # Idle
    /\ Become(p, Idle)
    /\ UNCHANGED <<status, authority, use, runs, attested, ended>>
-----------------------------------------------------------------------------
Unused == [selected |-> FALSE, disposition |-> None, applied |-> FALSE, outcome |-> None]

Init ==
    /\ status \in [Memories -> Retrievable]
    /\ \A m \in Memories : status[m] \in Promoted <=> m \in Legacy
    /\ authority = [m \in Memories |-> None]
    /\ use = [t \in Tasks |-> [m \in Memories |-> Unused]]
    /\ runs = {}
    /\ attested = {}
    /\ ended = [t \in Tasks |-> None]
    /\ call = [p \in Sessions |-> Idle]
    /\ calls = 0

UseMemory ==
    \/ \E p \in Sessions, t \in Tasks, m \in Memories :
           \/ Retrieve(p, t, m) \/ Apply(p, t, m)
           \/ \E d \in Dispositions : ResolvePending(p, t, m, d)
    \/ \E p \in Sessions : RecordSelection(p) \/ RecordApplication(p) \/ RecordDisposition(p)
    \/ \E t \in Tasks, m \in Memories, o \in Outcomes : Evaluate(t, m, o)

VerifyMemory ==
    \/ \E p \in Sessions, t \in Tasks, m \in Memories : Verify(p, t, m)
    \/ \E p \in Sessions, s \in Snapshots : StartRun(p, s)
    \/ \E p \in Sessions, passed \in BOOLEAN : RecordRun(p, passed)
    \/ \E p \in Sessions : AttachWithdrawal(p) \/ SafetyWithdrawal(p)
    \/ \E t \in Tasks, s \in Snapshots : Complete(t, s)
    \/ \E r \in runs : Finalize(r)

Decide ==
    \/ \E p \in Sessions, m \in Memories, c \in OwnerCommands, o \in Memories \cup {None} :
           AskOwner(p, m, c, o)
    \/ \E p \in Sessions, m \in Memories : ReportUnsafe(p, m)
    \/ \E p \in Sessions : OwnerApproves(p) \/ Hygiene(p) \/ Leave(p)
    \/ \E m \in Memories : Reject(m)
    \/ \E m \in Memories, target \in {"candidate", "quarantined"} : WithdrawCommand(m, target)

Next == UseMemory \/ VerifyMemory \/ Decide

Spec == Init /\ [][Next]_vars
-----------------------------------------------------------------------------
TypeOK ==
    /\ status \in [Memories -> Retrievable \cup Excluded]
    /\ authority \in [Memories -> Events \cup {None}]
    /\ use \in [Tasks -> [Memories -> Uses]]
    /\ runs \subseteq Runs
    /\ attested \subseteq Attestations
    /\ ended \in [Tasks -> Snapshots \cup {None}]
    /\ call \in [Sessions -> Calls]
    /\ calls \in 0 .. MaxCalls

\* The evidence of a promotion nobody approved: attestations of clear passing runs of
\* tasks that completed on the tested snapshot, and for a confirmation two tasks and
\* two snapshots ("minimum_confirmation_attestations", POLICY).
Proven(a) ==
    /\ a \in attested
    /\ ended[a.task] = a.snapshot
    /\ \E r \in runs : /\ r.task = a.task /\ r.memory = a.memory /\ r.snapshot = a.snapshot
                       /\ r.passed /\ r.clear

Rests(m) ==
    LET e == authority[m]
    IN  /\ e.evidence # {}
        /\ \A a \in e.evidence : a.memory = m /\ Proven(a)
        /\ e.target = "confirmed" => Distinct(e.evidence)

\* The latest event grants just the memory's status and rests on the owner or on
\* evidence; one that grants a status the memory lost was overruled by rejection or
\* hygiene, which append no event.
Granted(m) ==
    /\ status[m] \in Promoted =>
           IF authority[m] = None THEN m \in Legacy ELSE authority[m].target = status[m]
    /\ Promotes(authority[m]) =>
           /\ status[m] \in {authority[m].target, "rejected", "quarantined"}
           /\ \/ authority[m].lane = "owner"
              \/ authority[m].lane = "machine" /\ Rests(m)

\* No memory is promoted without authority that is still there, however tasks, runs,
\* the owner's answers and withdrawals interleave.
PromotedOnAuthority == \A m \in Memories : Granted(m)

Denounced(m) ==
    \E t \in Tasks : use[t][m].disposition = "suspect" \/ use[t][m].outcome = "harmful"

\* A memory somebody found suspect or harmful is promoted only where the owner's own
\* decision is the latest: no evidence, gathered before or after, brings it back.
SuspectNeedsOwner ==
    \A m \in Memories : Denounced(m) /\ status[m] \in Promoted
        => authority[m] # None /\ authority[m].lane = "owner"
=============================================================================
