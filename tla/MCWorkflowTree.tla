--------------------------- MODULE MCWorkflowTree ---------------------------
(***************************************************************************)
(* Three workflows that may require one another.  The pins allow a chain   *)
(* of two edges and, if the walk of the children did not refuse it, rings  *)
(* of two and of three workflows.  The evidence itself is MCWorkflow's     *)
(* subject: here one candidate and one criterion suffice, and the bound    *)
(* leaves out what the children's check never reads.                       *)
(***************************************************************************)
EXTENDS Workflow, TLC

CONSTANTS a, b, c, leaf, onB, onA, onC, c1

Pin(w, p) == [workflow |-> w, plan |-> p]

MCChildrenOf == leaf :> {} @@ onB :> {Pin(b, leaf)} @@ onA :> {Pin(a, onB)}
                @@ onC :> {Pin(c, onA)}
MCRiskOf     == [p \in Plans |-> "low"]
MCRigorOf    == [p \in Plans |-> "unset"]
MCCriteriaOf == [p \in Plans |-> {c1}]
MCDestinationOf == [p \in Plans |-> CHOOSE d \in Destinations : TRUE]
MCObligationsOf == [p \in Plans |-> {}]
MCCheckLists == {{k} : k \in Checks}

\* The bound: no retained measurement, review or delivery recovery, no blocker.
Bound == \A w \in Workflows : Exists(w) =>
            /\ wf[w].measurements = {}
            /\ wf[w].review = None
            /\ wf[w].recovery = None
            /\ wf[w].blocker = None
=============================================================================
