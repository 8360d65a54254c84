-------------------------- MODULE MCDependencyLocks --------------------------
(***************************************************************************)
(* DependencyLocks for TLC: two sessions and two kinds of histories, every *)
(* command on a pair of tickets, and adds around a ring of four tickets,   *)
(* the smallest in which two adds share no ticket row.                     *)
(***************************************************************************)
EXTENDS DependencyLocks

CONSTANTS s1, s2

MCSession == {s1, s2}
MCTicket == 1..4

Cmd(op, t, b) == [op |-> op, ticket |-> t, blocker |-> b]

RingCommands == {Cmd("add", 1, 2), Cmd("add", 2, 3), Cmd("add", 3, 4), Cmd("add", 4, 1)}
PairCommands ==
    {Cmd("add", 1, 2), Cmd("add", 2, 1), Cmd("remove", 1, 2), Cmd("remove", 2, 1),
     Cmd("classify", 1, 1), Cmd("approve", 1, 1), Cmd("reorder", 1, 1),
     Cmd("archive", 1, 1), Cmd("archive", 2, 2), Cmd("restore", 2, 2)}
MCCommand == RingCommands \cup PairCommands

Sent(commands) ==
    \A s \in Session : tx[s].pc # "idle" => Cmd(tx[s].op, tx[s].ticket, tx[s].blocker) \in commands

\* The bound counts the adds under way, so that it never stops a commit.
Adding == {s \in Session : tx[s].pc # "idle" /\ tx[s].op = "add"}
OnPair ==
    /\ Sent(PairCommands)
    /\ \A i \in DOMAIN edge : {edge[i].dependent, edge[i].blocker} = {1, 2}
    /\ Len(edge) + Cardinality(Adding) <= 2

OnRing ==
    /\ Sent(RingCommands)
    /\ \A i \in DOMAIN edge : edge[i].active
    /\ \A t \in TicketId : ticket[t].floor = "none" /\ ticket[t].version <= 2

\* Clients may stop sending (as they do at the bounds); any other state in which
\* nothing can happen is a deadlock.
Rest == InFlight = {} /\ UNCHANGED locksVars

\* Only what a client sends can leave a scope; the steps of a command stay in it.
MCSpec ==
    LocksInit /\ [][Rest \/ (LocksNext /\ (OnPair \/ OnRing)')]_locksVars /\ Fairness
=============================================================================
