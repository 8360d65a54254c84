------------------------------ MODULE TodoQueue ------------------------------
(***************************************************************************)
(* The Todo lane of the Dev Board as it is stored: one rank per member,    *)
(* one version of the whole queue (dev_board_lane_queue and                *)
(* dev_board_lane_queue_version).  Every command that touches the queue    *)
(* locks the header row first, so a command is one step here.              *)
(*                                                                         *)
(* A client reads the board, and later sends commands that carry the queue *)
(* version it read; what it saw is kept in view.                           *)
(*                                                                         *)
(* D_Something next to D is D with a plausible mistake; no specification   *)
(* uses it.                                                                *)
(***************************************************************************)
EXTENDS Integers, FiniteSets

CONSTANTS Ticket,      \* Dev Ticket ids, as Postgres orders uuids
          Client,
          Stride,      \* RANK_STRIDE
          MaxRank,     \* POSTGRES_BIGINT_MAX
          MaxVersion   \* bound of the model on the queue version

ASSUME QueueAssumption ==
  /\ Ticket \subseteq Nat /\ IsFiniteSet(Ticket)
  /\ Stride \in Nat \ {0, 1}
  /\ MaxRank \in Nat /\ MaxRank >= 2 * Stride
  /\ MaxVersion \in Nat

VARIABLES rank,          \* [Ticket -> 0..MaxRank], 0 for a ticket that is not in Todo
          queueVersion,  \* version of the queue header
          view           \* [Client -> what the client last read]

vars == <<rank, queueVersion, view>>

Members == {t \in Ticket : rank[t] # 0}

\* order by rank, dev_ticket_id
Ahead(a, b) == rank[a] < rank[b] \/ (rank[a] = rank[b] /\ a < b)
Precedes == {pair \in Members \X Members : Ahead(pair[1], pair[2])}

\* Anchors of a reorder: before or after a neighbour, or the empty band.
Anchor == [kind : {"before", "after"}, neighbor : Ticket] \cup {[kind |-> "empty_band"]}

TypeOK ==
  /\ rank \in [Ticket -> 0..MaxRank]
  /\ queueVersion \in Nat \ {0}
  /\ view \in [Client -> [version : Nat \ {0}, precedes : SUBSET (Ticket \X Ticket)]]

Init ==
  /\ rank = [t \in Ticket |-> 0]
  /\ queueVersion = 1
  /\ view = [c \in Client |-> [version |-> 1, precedes |-> {}]]

-----------------------------------------------------------------------------
\* rebalanceTodoBand: the ticket at 0-based index i of the given order gets rank
\* (i + 2) * RANK_STRIDE.  The index of x is the number of tickets ahead of it.
Index_ById(x, ids, order) == Cardinality({y \in ids : y < x})
Index(x, ids, order) == Cardinality({y \in ids : <<y, x>> \in order})
Rebalanced(ids, order) ==
  [x \in Ticket |-> IF x \in ids THEN (Index(x, ids, order) + 2) * Stride ELSE rank[x]]

\* casBumpTodoQueueVersion under the locked header.
BumpQueueVersion == queueVersion < MaxVersion /\ queueVersion' = queueVersion + 1

\* The client's queue version is the header's: no lane_queue_version_drift.
Undrifted(c) == view[c].version = queueVersion

\* A board read: the version and the order come from one snapshot.
ReadBoard(c) ==
  /\ view' = [view EXCEPT ![c] = [version |-> queueVersion, precedes |-> Precedes]]
  /\ UNCHANGED <<rank, queueVersion>>

(***************************************************************************)
(* Where a ticket goes: the members other than t, in order, leave a slot   *)
(* behind p and ahead of n; NoTicket is either end.                        *)
(***************************************************************************)
Others(t) == Members \ {t}
NoTicket == -1

\* p is directly ahead of n among the others.
Slot(t, p, n) ==
  /\ p \in Others(t) \cup {NoTicket}
  /\ n \in Others(t) \cup {NoTicket}
  /\ p # NoTicket /\ n # NoTicket => Ahead(p, n)
  /\ \A x \in Others(t) :
       \/ p # NoTicket /\ (x = p \/ Ahead(x, p))
       \/ n # NoTicket /\ (x = n \/ Ahead(n, x))

\* The rank between the neighbours, 0 when the gap has no room.
SlotRank_NoRoomCheck(p, n) ==
  CASE p = NoTicket /\ n = NoTicket -> 2 * Stride
    [] p = NoTicket /\ n # NoTicket -> rank[n] - Stride
    [] p # NoTicket /\ n = NoTicket -> rank[p] + Stride
    [] p # NoTicket /\ n # NoTicket -> rank[p] + (rank[n] - rank[p]) \div 2
SlotRank(p, n) ==
  CASE p = NoTicket /\ n = NoTicket -> 2 * Stride
    [] p = NoTicket /\ n # NoTicket -> rank[n] - Stride
    [] p # NoTicket /\ n = NoTicket -> rank[p] + Stride
    [] p # NoTicket /\ n # NoTicket ->
         IF rank[n] - rank[p] >= 2 THEN rank[p] + (rank[n] - rank[p]) \div 2 ELSE 0

\* A rank the column can hold; reorderTodo renumbers the band otherwise.
RankFits_NoUpperBound(r) == r >= 1
RankFits(r) == r \in 1..MaxRank

\* The queue part of approveReadyToTodo: the ticket is appended; when the next
\* rank passes the column's maximum the band is renumbered first, and when even
\* that does not fit the command is rejected and nothing changes.
ApproveReadyToTodo(c, t) ==
  /\ t \notin Members
  /\ Undrifted(c)
  /\ \E last \in Ticket \cup {NoTicket} :
       /\ Slot(t, last, NoTicket)
       /\ \/ /\ SlotRank(last, NoTicket) <= MaxRank
             /\ rank' = [rank EXCEPT ![t] = SlotRank(last, NoTicket)]
          \/ /\ SlotRank(last, NoTicket) > MaxRank
             /\ (Cardinality(Members) + 2) * Stride <= MaxRank
             /\ rank' = [Rebalanced(Members, Precedes) EXCEPT
                           ![t] = (Cardinality(Members) + 2) * Stride]
  /\ BumpQueueVersion
  /\ UNCHANGED view

\* The queue part of archiveDevTicket and of addDependency and removeDependency
\* on a Todo dependent: deleteTodoQueueMembership and the version bump.
RemoveFromTodo_NoBump(c, t) ==
  /\ t \in Members
  /\ Undrifted(c)
  /\ rank' = [rank EXCEPT ![t] = 0]
  /\ UNCHANGED <<queueVersion, view>>
RemoveFromTodo(c, t) ==
  /\ t \in Members
  /\ Undrifted(c)
  /\ rank' = [rank EXCEPT ![t] = 0]
  /\ BumpQueueVersion
  /\ UNCHANGED view

\* The slot an anchor names; an anchor with no slot is todo_anchor_invalid.
AnchorSlot(anchor, t, p, n) ==
  /\ Slot(t, p, n)
  /\ CASE anchor.kind = "empty_band" -> p = NoTicket /\ n = NoTicket
       [] anchor.kind = "before"     -> n = anchor.neighbor
       [] anchor.kind = "after"      -> p = anchor.neighbor

\* orderedIds: the others with t spliced into the slot behind p.
UpTo(t, p) == {x \in Others(t) : p # NoTicket /\ (x = p \/ Ahead(x, p))}
Spliced(t, p) ==
  {pair \in Precedes : pair[1] # t /\ pair[2] # t}
    \cup (UpTo(t, p) \X {t})
    \cup ({t} \X (Others(t) \ UpTo(t, p)))

ReorderTodo(c, t, anchor) ==
  /\ t \in Members
  /\ Undrifted(c)
  /\ \E p, n \in Ticket \cup {NoTicket} :
       /\ AnchorSlot(anchor, t, p, n)
       /\ \/ /\ RankFits(SlotRank(p, n))
             /\ rank' = [rank EXCEPT ![t] = SlotRank(p, n)]
          \/ /\ ~RankFits(SlotRank(p, n))
             /\ (Cardinality(Members) + 1) * Stride <= MaxRank
             /\ rank' = Rebalanced(Members, Spliced(t, p))
  /\ BumpQueueVersion
  /\ UNCHANGED view

Next ==
  \E c \in Client :
    \/ ReadBoard(c)
    \/ \E t \in Ticket : ApproveReadyToTodo(c, t) \/ RemoveFromTodo(c, t)
    \/ \E t \in Ticket, anchor \in Anchor : ReorderTodo(c, t, anchor)

Spec == Init /\ [][Next]_vars

-----------------------------------------------------------------------------
(***************************************************************************)
(* Properties                                                              *)
(***************************************************************************)

\* No two members share a rank, whatever gaps halvings, appends and
\* renumberings have left: the tie-break on the ticket id never decides, so the
\* order shown is the order the commands asked for.
RanksDistinct ==
  \A a, b \in Members : a # b => rank[a] # rank[b]

\* The queue version names the order: a client whose version passes the drift
\* check decided on the order that is there now.
VersionNamesOrder ==
  \A c \in Client : Undrifted(c) => view[c].precedes = Precedes

\* The stored ranks implement the abstract order, step by step.
Order == INSTANCE TodoOrder WITH members <- Members, precedes <- Precedes
ImplementsOrder == Order!Spec
=============================================================================
