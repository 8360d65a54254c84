--------------------------- MODULE DependencyGraph ---------------------------
(***************************************************************************)
(* What the dependency commands of the Dev Board promise together: the     *)
(* graph of active dependencies changes one edge at a time, between active *)
(* tickets only, never closes a cycle, and a ticket is archived only when  *)
(* nobody waits for it.  DevTicketPlanning, where a command is atomic, and *)
(* DependencyLocks, where it is a sequence of statements under locks, both *)
(* implement it.                                                           *)
(***************************************************************************)
CONSTANT Ticket

VARIABLES
    edge,       \* the active dependencies: <<dependent, blocker>>
    archived    \* the archived tickets

vars == <<edge, archived>>

\* No set of tickets in which each waits for another of the set.
Acyclic(E) ==
    \A S \in SUBSET Ticket :
        (\A t \in S : \E u \in S : <<t, u>> \in E) => S = {}

Init ==
    /\ edge = {}
    /\ archived = {}

Add(dependent, blocker) ==
    /\ {dependent, blocker} \cap archived = {}
    /\ Acyclic(edge \cup {<<dependent, blocker>>})
    /\ edge' = edge \cup {<<dependent, blocker>>}
    /\ UNCHANGED archived

Remove(dependent, blocker) ==
    /\ {dependent, blocker} \cap archived = {}
    /\ edge' = edge \ {<<dependent, blocker>>}
    /\ UNCHANGED archived

Archive(t) ==
    /\ \A d \in Ticket : <<d, t>> \notin edge
    /\ archived' = archived \cup {t}
    /\ UNCHANGED edge

Restore(t) ==
    /\ archived' = archived \ {t}
    /\ UNCHANGED edge

Next ==
    \/ \E dependent, blocker \in Ticket : Add(dependent, blocker)
    \/ \E dependent, blocker \in Ticket : Remove(dependent, blocker)
    \/ \E t \in Ticket : Archive(t)
    \/ \E t \in Ticket : Restore(t)

Spec == Init /\ [][Next]_vars
=============================================================================
