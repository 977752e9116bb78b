---------------------------- MODULE WorkflowGrant ----------------------------
(* The workflow authority implements DeliveryGrant: the map from workflow     *)
(* states to subjects and standings.                                          *)
EXTENDS Workflow

SubjectOf(s)  == IF s = None THEN None ELSE <<s.plan, s.candidate>>
StandingOf(s) ==
    IF s = None THEN "unborn"
    ELSE CASE s.status = "completed" -> "complete"
           [] s.status = "cancelled" -> "cancelled"
           [] ~Terminal(s) /\ DeliveryAuthorized(s)  -> "granted"
           [] ~Terminal(s) /\ ~DeliveryAuthorized(s) -> "open"

Granted == INSTANCE DeliveryGrant WITH
    Subjects  <- Plans \X (Candidates \cup {None}),
    Grantable <- Plans \X Candidates,
    Blank     <- None,
    subject   <- [w \in Workflows |-> SubjectOf(wf[w])],
    standing  <- [w \in Workflows |-> StandingOf(wf[w])]

\* Every operation on a workflow is a step of the grant or leaves it alone: no
\* operation changes the plan or the candidate under a standing grant, and none
\* completes work that was not granted.
ImplementsDeliveryGrant == Granted!Spec
=============================================================================
