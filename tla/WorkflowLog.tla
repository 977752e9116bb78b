----------------------------- MODULE WorkflowLog -----------------------------
(***************************************************************************)
(* The event log of one workflow as the public commands read and extend it *)
(* (codebase/_workflow.py), where each session stands in its command, and  *)
(* what the log and the answers taken from it promise.  WorkflowRuntime    *)
(* has the commands.                                                       *)
(***************************************************************************)
EXTENDS Integers, Sequences, FiniteSets

CONSTANTS
    Sessions,        \* agent sessions bound to the workflow
    Ids,             \* request identifiers
    Commands,        \* the public commands in use
    Kinds,           \* the block reasons in use
    MaxGeneration,   \* bound: transitions after the work is qualified
    Nothing          \* no blocker, no request yet

\* A request always has an identifier.
LogParameters ==
    /\ MaxGeneration \in Nat
    /\ Commands \subseteq {"request_delivery_approval", "revoke_delivery", "verify_delivery",
                           "block", "resume", "cancel", "replan"}
    /\ Kinds \subseteq {"unavailable", "unsafe", "outcome_unknown"}
    /\ Nothing \notin Ids

ASSUME LogAssumption == LogParameters

VARIABLES
    log,      \* the events of the workflow, oldest first
    asked,    \* the request each identifier was first sent with
    session   \* where each session is

vars == <<log, asked, session>>

Requests == [command: Commands, kind: Kinds \cup {Nothing}, expected: 0..MaxGeneration]
WorkProgresses == {"qualified", "approved_for_delivery", "delivered", "delivery_verified",
                   "draft", "cancelled"}
WorkStates == [progress: WorkProgresses, blocker: Kinds \cup {Nothing}]

\* Half of a command: verify_delivery may append a readback event before its own.
Parts == {"readback", "main"}

-----------------------------------------------------------------------------
(* The log.                                                                *)

Generation == Len(log) - 1
Current    == log[Len(log)].state

EventsOf(id, part) == {n \in DOMAIN log : log[n].id = id /\ log[n].part = part}

-----------------------------------------------------------------------------
(* Where a session is.                                                     *)

At(c, step) == session[c].at = step
Request(c)  == session[c].request

-----------------------------------------------------------------------------
(* Properties.                                                             *)

Events == [id: Ids \cup {Nothing}, part: Parts, request: Requests \cup {Nothing},
           expected: 0..MaxGeneration, observed: 0..MaxGeneration, state: WorkStates]

\* The log and the sessions have the shapes their readers rely on; generations are
\* those of the log.
RuntimeTypeOK ==
    /\ log \in Seq(Events) /\ Len(log) \in 1..(MaxGeneration + 1)
    /\ asked \in [Ids -> Requests \cup {Nothing}]
    /\ session \in [Sessions ->
          [at: {"idle", "replaying", "binding", "checking", "observing", "reading", "rereading",
                "preparing", "asking", "reconcile", "transition", "answering"},
           id: Ids \cup {Nothing}, request: Requests \cup {Nothing},
           bound: WorkStates \cup {Nothing},
           generation: 0..MaxGeneration, expected: 0..MaxGeneration]]

Transitions == DOMAIN log \ {1}

\* An identifier never has two events of a kind.
AppliedOnce ==
    \A m, n \in Transitions : log[m].id = log[n].id /\ log[m].part = log[n].part => m = n

\* The two halves of a verification are adjacent.
HalvesAdjacent ==
    \A m, n \in Transitions :
        /\ log[m].id = log[n].id /\ log[m].part = "readback"
        /\ log[n].part = "main" /\ log[n].request.command = "verify_delivery"
        => n = m + 1

\* What is about to be reported is an event of that identifier for that request.
AnswersTrue ==
    \A c \in Sessions : At(c, "answering") =>
        /\ session[c].generation + 1 \in Transitions
        /\ LET e == log[session[c].generation + 1]
           IN  e.id = session[c].id /\ e.part = "main" /\ e.request = Request(c)

\* A request may be sent again at any time, also while an earlier sending still
\* runs or after its answer was lost.  It changes the workflow once; nothing any
\* session does comes between the readback and the completion it supports, though
\* they are two transactions and a crash between them is made up for by a retry;
\* and whatever a command reports as done was done for that very request
\* (workflow_action, transition_workflow).
RetriesAreSafe == AppliedOnce /\ HalvesAdjacent /\ AnswersTrue

\* What was observed of the workflow when a transition was decided is what it was
\* applied to, the minutes an owner takes included: only a verification's own
\* readback half may lie between.
OwnHalf(n) == n - 1 \in Transitions /\ log[n - 1].part = "readback" /\ log[n - 1].id = log[n].id
DecidedOnCurrent ==
    \A n \in Transitions :
        log[n].observed = n - 2 \/ (OwnHalf(n) /\ log[n].observed = n - 3)
==============================================================================
