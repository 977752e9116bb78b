---------------------------- MODULE ProjectRoute ----------------------------
(***************************************************************************)
(* What moving a project promises its sessions, without journals, files or *)
(* snapshots.  A project's route is open on one target or closed.  Its     *)
(* continuity epoch is started by the first launch on an open route and    *)
(* belongs to that target.  The epoch is put away or brought back only     *)
(* while the route is closed, and the route opens again only where the     *)
(* epoch, if there is one, belongs.  Losing the compute brings back an     *)
(* earlier state, in which the epoch belongs to an open route too.         *)
(***************************************************************************)
EXTENDS Naturals

CONSTANTS Targets, Names, Nowhere, None

VARIABLES route, epoch, losses

routeVars == <<route, epoch, losses>>

RouteEpochs == [target : Targets, id : Names]

Belongs(e, r) == r = Nowhere \/ e = None \/ e.target = r

RouteTypeOK ==
    /\ route \in Targets \cup {Nowhere}
    /\ epoch \in RouteEpochs \cup {None}
    /\ losses \in Nat

Init ==
    /\ route \in Targets
    /\ epoch = None
    /\ losses = 0

\* The first launch on an open route starts an epoch of its target.
Launch ==
    /\ route # Nowhere
    /\ epoch = None
    /\ epoch' \in {e \in RouteEpochs : e.target = route}
    /\ UNCHANGED <<route, losses>>

Close ==
    /\ route # Nowhere
    /\ route' = Nowhere
    /\ UNCHANGED <<epoch, losses>>

\* Out of the sessions' reach the epoch is put away or brought back.
Exchange ==
    /\ route = Nowhere
    /\ epoch' \in RouteEpochs \cup {None}
    /\ epoch = None \/ epoch' = None
    /\ UNCHANGED <<route, losses>>

Open ==
    /\ route = Nowhere
    /\ route' \in Targets
    /\ Belongs(epoch, route')
    /\ UNCHANGED <<epoch, losses>>

Lose ==
    /\ route' \in Targets \cup {Nowhere}
    /\ epoch' \in RouteEpochs \cup {None}
    /\ Belongs(epoch', route')
    /\ losses' = losses + 1

Next == Launch \/ Close \/ Exchange \/ Open \/ Lose

Spec == Init /\ [][Next]_routeVars
=============================================================================
