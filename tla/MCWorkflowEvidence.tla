------------------------- MODULE MCWorkflowEvidence -------------------------
(***************************************************************************)
(* Two producers and a reviewer, a file within the plan and one outside of *)
(* it, a plan of low risk and one that demands independence.               *)
(***************************************************************************)
EXTENDS WorkflowEvidence, TLC

CONSTANTS planned, other, light, strict, old, new

MCPathsOf == [p \in Plans |-> {planned}]
MCPassing == [p \in Plans |-> {files \in Trees : files[planned] = new}]
MCStart   == {[f \in Files |-> old]}

\* Bound: two operations are under way at once only where they capture a candidate,
\* under the plan whose risk is high.  A commit ends every other operation, whatever
\* its kind, and an operation that does not commit is invisible to the others.
Overlap == \A c, d \in Callers : c # d /\ op[c] # None /\ op[d] # None =>
              wf.plan = strict /\ {op[c].kind, op[d].kind} = {"implemented"}

MCSymmetry == Permutations(Producers) \cup Permutations(Callers)
=============================================================================
