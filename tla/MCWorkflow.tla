----------------------------- MODULE MCWorkflow -----------------------------
(***************************************************************************)
(* One workflow with every kind of evidence: plans that differ in risk, in *)
(* rigor and in their reconciliation contract, two criteria, and           *)
(* candidates that differ in content and in producer.                      *)
(***************************************************************************)
EXTENDS WorkflowGrant, TLC

CONSTANTS light, risky, strict, c1, c2

MCRiskOf     == light :> "low"    @@ risky :> "high"   @@ strict :> "low"
MCRigorOf    == light :> "direct" @@ risky :> "direct" @@ strict :> "full"
MCCriteriaOf == light :> {c1}     @@ risky :> {c1, c2} @@ strict :> {c2}
MCDestinationOf == [p \in Plans |-> CHOOSE d \in Destinations : TRUE]
MCChildrenOf    == [p \in Plans |-> {}]
MCObligationsOf == light :> {}    @@ risky :> {c2, Learning} @@ strict :> {}
MCReconcilable  == {light, risky}

\* At most one check for each criterion, each for any plan, candidate and verdict.
MCCheckLists == LET Of(c) == {{}} \cup {{k} : k \in {k \in Checks : k.criterion = c}}
                IN  {a \cup b : a \in Of(c1), b \in Of(c2)}

MCSymmetry == Permutations(Tasks) \cup Permutations(Identities)
=============================================================================
