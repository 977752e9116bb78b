--------------------------- MODULE WorkflowRuntime ---------------------------
(***************************************************************************)
(* The public workflow commands on qualified work: workflow_action of      *)
(* _dispatcher/_workflow_runtime.py over the event log of                  *)
(* codebase/_workflow.py, with the readback of _workflow_delivery.py.      *)
(* A command reads the log in several transactions, may observe the        *)
(* destination or ask the owner in between, and appends by compare-and-set *)
(* on the generation.  Several sessions run commands at once; a session    *)
(* may end between any two steps or lose the answer, and a request may be  *)
(* sent again with its identifier while the first sending still runs.      *)
(*                                                                         *)
(* One plan and one candidate: the conditions Workflow states on evidence  *)
(* are taken as met.  The owner's answer is OwnerApproval's subject; here  *)
(* it comes at some point or does not.                                     *)
(***************************************************************************)
EXTENDS WorkflowLog

OwnerCommands == {"request_delivery_approval", "revoke_delivery"}

-----------------------------------------------------------------------------
(* _apply, restricted to qualified work.                                   *)

Granted(s) == s.progress \in {"approved_for_delivery", "delivered"}

\* What the predicate requires of the present state for an operation.
Admits(s, op) ==
    /\ s.progress \notin {"delivery_verified", "cancelled"}
    /\ CASE op = "approve_delivery"   -> s.progress = "qualified" /\ s.blocker = Nothing
         [] op = "revoke_delivery"    -> /\ s.progress = "approved_for_delivery"
                                         /\ s.blocker # "outcome_unknown"
         [] op = "reconcile_delivery" -> Granted(s)
         [] op = "verify_delivery"    -> s.progress = "delivered" /\ s.blocker = Nothing
         [] op = "block"              -> TRUE
         [] op = "resume"             -> ~Granted(s) /\ s.blocker = "unavailable"
         [] op \in {"cancel", "replan"} -> ~Granted(s)

\* Blocking over an unknown outcome keeps it unknown.
MayBlock(s, kind) == s.blocker = "outcome_unknown" => kind = "outcome_unknown"

Result(s, op, kind) ==
    CASE op = "approve_delivery"   -> [s EXCEPT !.progress = "approved_for_delivery"]
      [] op = "revoke_delivery"    -> [progress |-> "qualified", blocker |-> Nothing]
      [] op = "reconcile_delivery" -> [progress |-> "delivered", blocker |-> Nothing]
      [] op = "verify_delivery"    -> [s EXCEPT !.progress = "delivery_verified"]
      [] op = "block"              -> [s EXCEPT !.blocker = kind]
      [] op = "resume"             -> [s EXCEPT !.blocker = Nothing]
      [] op = "cancel"             -> [progress |-> "cancelled", blocker |-> Nothing]
      [] op = "replan"             -> [progress |-> "draft", blocker |-> Nothing]

Operation(command) == IF command = "request_delivery_approval" THEN "approve_delivery" ELSE command

-----------------------------------------------------------------------------
(* A session.                                                              *)

Idle == [at |-> "idle", id |-> Nothing, request |-> Nothing, bound |-> Nothing, generation |-> 0,
         expected |-> 0]

Goto(c, step)   == session' = [session EXCEPT ![c].at = step]
Return(c)       == session' = [session EXCEPT ![c] = Idle]

\* Seeded fault: the receipt counts events where generations start at zero.
ReceiveCount(c, n) ==
    session' = [session EXCEPT ![c] = [Idle EXCEPT !.at = "answering", !.id = session[c].id,
                                                   !.request = session[c].request, !.generation = n + 1]]

\* The receipt of a command is the generation of the event it returns.
Receive(c, n) ==
    session' = [session EXCEPT ![c] = [Idle EXCEPT !.at = "answering", !.id = session[c].id,
                                                   !.request = session[c].request, !.generation = n]]

Command(c) == Request(c).command

\* A new request carries the generation its caller last saw; an identifier may
\* be sent again with the same request, or by mistake with another one.
Call(c, id, request) ==
    /\ At(c, "idle")
    /\ request = asked[id] \/ request.expected = Generation
    /\ request.kind # Nothing <=> request.command = "block"
    /\ session' = [session EXCEPT ![c] = [Idle EXCEPT !.at = "replaying", !.id = id, !.request = request]]
    /\ asked' = [asked EXCEPT ![id] = IF @ = Nothing THEN request ELSE @]
    /\ UNCHANGED log

\* replay_public_request: an earlier event of this identifier answers the same
\* request and refuses another.
Replay(c) ==
    LET prior == EventsOf(session[c].id, "main")
    IN  /\ At(c, "replaying")
        /\ \/ \E n \in prior : /\ log[n].request = Request(c)
                               /\ Receive(c, n - 1)
           \/ \E n \in prior : log[n].request # Request(c) /\ Return(c)
           \/ prior = {} /\ Goto(c, "binding")
        /\ UNCHANGED <<log, asked>>

\* bound_workflow: the state the command is decided on.  A replanned workflow is
\* no longer the one the session is bound to.
Bind(c) ==
    /\ At(c, "binding")
    /\ IF Current.progress = "draft"
       THEN Return(c)
       ELSE session' = [session EXCEPT ![c].at = "checking", ![c].bound = Current,
                                       ![c].generation = Generation, ![c].expected = Request(c).expected]
    /\ UNCHANGED <<log, asked>>

Start(c, expected) ==
    session' = [session EXCEPT ![c] = [@ EXCEPT !.expected = expected,
                   !.bound = IF Command(c) = "verify_delivery" THEN session[c].bound ELSE Nothing,
                   !.at = CASE Command(c) = "verify_delivery" -> "observing"
                            [] Command(c) \in OwnerCommands -> "preparing"
                            [] OTHER -> "transition"]]

\* The generation check.  A verification whose readback half was appended before,
\* and is still the last event, goes on from there.
Check(c) ==
    LET halves == {n \in EventsOf(session[c].id, "readback") : Command(c) = "verify_delivery"}
        resumed == {n \in halves : n - 1 = session[c].generation}
    IN  /\ At(c, "checking")
        /\ IF \E n \in halves : log[n].request # Request(c) THEN Return(c)
           ELSE IF resumed # {} \/ session[c].expected = session[c].generation
           THEN Start(c, session[c].generation)
           ELSE Return(c)
        /\ UNCHANGED <<log, asked>>

\* _fresh: only active work, or work with an unknown outcome, is read back.
Observe(c) ==
    /\ At(c, "observing")
    /\ IF Granted(Current) /\ Current.blocker \in {Nothing, "outcome_unknown"}
       THEN session' = [session EXCEPT ![c].at = "reading", ![c].generation = Generation]
       ELSE Return(c)
    /\ UNCHANGED <<log, asked>>

\* Whoever delivers, and anyone else with access, changes the destination at any
\* time: the read finds the candidate or it does not.
ReadDestination(c) ==
    /\ At(c, "reading")
    /\ Goto(c, "rereading") \/ Return(c)
    /\ UNCHANGED <<log, asked>>

\* The workflow must not have moved during the observation.
Reread(c) ==
    /\ At(c, "rereading")
    /\ IF Generation = session[c].generation
       THEN session' = [session EXCEPT ![c].bound = Nothing,
               ![c].at = IF \/ session[c].bound.progress = "approved_for_delivery"
                            \/ session[c].bound.blocker # Nothing
                         THEN "reconcile" ELSE "transition"]
       ELSE Return(c)
    /\ UNCHANGED <<log, asked>>

\* prepare_delivery, prepare_revocation: the subject the owner is asked about is
\* the workflow as it is now, and the owner's transition is made at its generation.
Prepare(c) ==
    /\ At(c, "preparing")
    /\ IF Admits(Current, Operation(Command(c)))
       THEN session' = [session EXCEPT ![c].at = "asking", ![c].generation = Generation,
                                       ![c].expected = Generation]
       ELSE Return(c)
    /\ UNCHANGED <<log, asked>>

\* The owner has answered; the subject must still be the same.
OwnerAnswers(c) ==
    /\ At(c, "asking")
    /\ Goto(c, "transition")
    /\ Generation = session[c].expected
    /\ UNCHANGED <<log, asked>>

\* Not answered in time, declined, or the subject changed.
OwnerDoesNot(c) ==
    /\ At(c, "asking")
    /\ Return(c)
    /\ UNCHANGED <<log, asked>>

-----------------------------------------------------------------------------
(* transition_workflow: one write transaction.                             *)

\* A readback's payload carries its time, so no two observations send the same
\* transition; the other payloads are determined by the request.
SameTransition(e, c) ==
    /\ e.request = Request(c)
    /\ e.expected = session[c].expected
    /\ Command(c) # "verify_delivery"

\* Seeded fault: the identifier is not looked up in the transaction.
MayAppendAgain(c, part, op) ==
    /\ Generation = session[c].expected
    /\ Admits(Current, op)
    /\ op = "block" => MayBlock(Current, Request(c).kind)

\* Seeded fault: the generation is not compared in the transaction.
MayAppendAnytime(c, part, op) ==
    /\ EventsOf(session[c].id, part) = {}
    /\ Admits(Current, op)
    /\ op = "block" => MayBlock(Current, Request(c).kind)

\* A new identifier, the generation the request expects, and an admitted operation.
MayAppend(c, part, op) ==
    /\ EventsOf(session[c].id, part) = {}
    /\ Generation = session[c].expected
    /\ Admits(Current, op)
    /\ op = "block" => MayBlock(Current, Request(c).kind)

AppendEvent(c, part, op) ==
    /\ Generation < MaxGeneration
    /\ log' = Append(log, [id |-> session[c].id, part |-> part, request |-> Request(c),
                           expected |-> session[c].expected, observed |-> session[c].generation,
                           state |-> Result(Current, op, Request(c).kind)])

\* The readback half of a verification.
Reconcile(c) ==
    /\ At(c, "reconcile")
    /\ IF MayAppend(c, "readback", "reconcile_delivery")
       THEN /\ AppendEvent(c, "readback", "reconcile_delivery")
            /\ session' = [session EXCEPT ![c].at = "transition", ![c].expected = Generation + 1]
       ELSE Return(c) /\ UNCHANGED log
    /\ UNCHANGED asked

\* The transition itself; one that is in the log already is acknowledged.
Transition(c) ==
    LET op == Operation(Command(c))
        same == {n \in EventsOf(session[c].id, "main") : SameTransition(log[n], c)}
    IN  /\ At(c, "transition")
        /\ \/ MayAppend(c, "main", op) /\ AppendEvent(c, "main", op) /\ Receive(c, Generation + 1)
           \/ \E n \in same : Receive(c, n - 1) /\ UNCHANGED log
           \/ ~MayAppend(c, "main", op) /\ same = {} /\ Return(c) /\ UNCHANGED log
        /\ UNCHANGED asked

Answer(c) ==
    /\ At(c, "answering")
    /\ Return(c)
    /\ UNCHANGED <<log, asked>>

\* The session ends, or its answer is lost.
Crash(c) ==
    /\ ~At(c, "idle")
    /\ Return(c)
    /\ UNCHANGED <<log, asked>>

-----------------------------------------------------------------------------

\* The work has been granted delivery.
Init == /\ log = << [id |-> Nothing, part |-> "main", request |-> Nothing, expected |-> 0, observed |-> 0,
                     state |-> [progress |-> "approved_for_delivery", blocker |-> Nothing]] >>
        /\ asked = [id \in Ids |-> Nothing]
        /\ session = [c \in Sessions |-> Idle]

Begins(c)    == \/ \E id \in Ids, request \in Requests : Call(c, id, request)
                \/ Replay(c) \/ Bind(c) \/ Check(c)
Observes(c)  == Observe(c) \/ ReadDestination(c) \/ Reread(c)
AsksOwner(c) == Prepare(c) \/ OwnerAnswers(c) \/ OwnerDoesNot(c)
Commits(c)   == Reconcile(c) \/ Transition(c)
Ends(c)      == Answer(c) \/ Crash(c)

Next == \E c \in Sessions : Begins(c) \/ Observes(c) \/ AsksOwner(c) \/ Commits(c) \/ Ends(c)

Spec == Init /\ [][Next]_vars
==============================================================================
