---------------------------- MODULE DeliveryGrant ----------------------------
(***************************************************************************)
(* What the workflow authority promises about delivery, without evidence,  *)
(* stages or recovery: for each piece of work, which exact subject (a plan *)
(* and a candidate) an owner's grant covers.  Work changes freely while    *)
(* open; a grant freezes its subject until it is withdrawn or the delivery *)
(* completes; completed and cancelled work never moves again.              *)
(***************************************************************************)
CONSTANTS Workflows, \* pieces of work
          Subjects,  \* what a piece of work may be
          Grantable, \* the subjects a grant may cover
          Blank      \* the subject of work that does not exist yet

VARIABLES subject,   \* subject[w]: what w currently is
          standing   \* standing[w]: where w stands

grantVars == <<subject, standing>>

Standings == {"unborn", "open", "granted", "complete", "cancelled"}

GrantTypeOK == /\ subject \in [Workflows -> Subjects \cup {Blank}]
               /\ standing \in [Workflows -> Standings]

Init == /\ subject = [w \in Workflows |-> Blank]
        /\ standing = [w \in Workflows |-> "unborn"]

Moves(w, from, to) == standing[w] = from /\ standing' = [standing EXCEPT ![w] = to]

Open(w)     == /\ Moves(w, "unborn", "open")
               /\ \E x \in Subjects : subject' = [subject EXCEPT ![w] = x]
Rework(w)   == /\ Moves(w, "open", "open")
               /\ \E x \in Subjects : subject' = [subject EXCEPT ![w] = x]
Grant(w)    == /\ Moves(w, "open", "granted")
               /\ subject[w] \in Grantable
               /\ UNCHANGED subject
Withdraw(w) == Moves(w, "granted", "open")     /\ UNCHANGED subject
Complete(w) == Moves(w, "granted", "complete") /\ UNCHANGED subject
Cancel(w)   == Moves(w, "open", "cancelled")   /\ UNCHANGED subject

Next == \E w \in Workflows :
            Open(w) \/ Rework(w) \/ Grant(w) \/ Withdraw(w) \/ Complete(w) \/ Cancel(w)

Spec == Init /\ [][Next]_grantVars
=============================================================================
