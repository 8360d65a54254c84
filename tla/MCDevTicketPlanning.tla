------------------------- MODULE MCDevTicketPlanning -------------------------
(***************************************************************************)
(* DevTicketPlanning for TLC, in two kinds of histories: everything the    *)
(* code tells apart, on two of three tickets, and one owner's work on the  *)
(* graph of all three.                                                     *)
(***************************************************************************)
EXTENDS DevTicketPlanning, TLC

CONSTANTS t1, t2, t3, owner, admin, outsider

MCTicket == {t1, t2, t3}
MCUser == {owner, admin, outsider}
MCMember == {owner, admin}
MCAdmin == {admin}

\* A feature whose declared risk covers its floor with and without
\* dependencies, and a security bug whose declared risk is just its floor
\* without dependencies, so that a dependency pushes the floor past it.
Feature == [type |-> "feature", areas |-> {"frontend"}, declared |-> 1]
SecurityBug == [type |-> "bug", areas |-> {"security"}, declared |-> 2]
MCClassification == {Feature, SecurityBug}

OnPair ==
    \E t \in Ticket : ticket[t] = NewRow(owner) /\ \A p \in edge : t \notin {p[1], p[2]}

OnGraph ==
    \A t \in Ticket : /\ ticket[t].owner = owner /\ ticket[t].approvedBy = owner
                      /\ ticket[t].cls # SecurityBug
                      /\ ticket[t].version < MaxVersion

MCSpec == Init /\ (OnPair \/ OnGraph) /\ [][Next /\ (OnPair \/ OnGraph)']_vars

Symmetry == Permutations(MCTicket)
=============================================================================
