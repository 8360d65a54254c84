------------------------------ MODULE TodoOrder ------------------------------
(***************************************************************************)
(* What the Todo queue of the Dev Board promises: a set of Dev Tickets in  *)
(* a strict total order.  A ticket enters at the end, leaves without       *)
(* disturbing the others, and is moved next to a neighbour while every     *)
(* other pair keeps its order.  Ranks, gaps and rebalancing do not show.   *)
(***************************************************************************)
CONSTANT Ticket

VARIABLES members,   \* the tickets in Todo
          precedes   \* the pairs <<a, b>> with a ahead of b

vars == <<members, precedes>>

Init == members = {} /\ precedes = {}

\* The order among the tickets other than t.
Without(t) == {pair \in precedes : pair[1] # t /\ pair[2] # t}

Enter(t) ==
  /\ t \notin members
  /\ members' = members \cup {t}
  /\ precedes' = precedes \cup (members \X {t})

Leave(t) ==
  /\ t \in members
  /\ members' = members \ {t}
  /\ precedes' = Without(t)

\* t is put directly ahead of n: behind what is ahead of n, ahead of n and the rest.
MoveBefore(t, n) ==
  /\ t \in members /\ n \in members /\ t # n
  /\ members' = members
  /\ precedes' = Without(t)
                 \cup ({y \in members \ {t} : <<y, n>> \in precedes} \X {t})
                 \cup ({t} \X {y \in members \ {t} : y = n \/ <<n, y>> \in precedes})

\* t is put directly behind n.
MoveAfter(t, n) ==
  /\ t \in members /\ n \in members /\ t # n
  /\ members' = members
  /\ precedes' = Without(t)
                 \cup ({y \in members \ {t} : y = n \/ <<y, n>> \in precedes} \X {t})
                 \cup ({t} \X {y \in members \ {t} : <<n, y>> \in precedes})

Next ==
  \/ \E t \in Ticket : Enter(t) \/ Leave(t)
  \/ \E t, n \in Ticket : MoveBefore(t, n) \/ MoveAfter(t, n)

Spec == Init /\ [][Next]_vars
=============================================================================
