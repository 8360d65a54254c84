--------------------------- MODULE DependencyLocks ---------------------------
(***************************************************************************)
(* The commands of DevTicketPlanning taken apart into their statements:    *)
(* which locks they take, in which order, what they read under them and    *)
(* what they decide from it                                                *)
(* (packages/dev-board/src/application/dev-board-planning-commands.ts).    *)
(*                                                                         *)
(* A session takes its locks one at a time: the edge row (only a removal), *)
(* the ticket rows in the order of their ids, the advisory lock of the     *)
(* workspace's graph, and last the header row of the Todo queue.  Under    *)
(* READ COMMITTED a statement sees what was committed before it; what a    *)
(* session writes appears when it commits.  Authorization and the contract *)
(* are module DevTicketPlanning; of the Change Risk floor only what the    *)
(* graph decides is kept: whether it counted an active dependency.         *)
(***************************************************************************)
EXTENDS Integers, Sequences, FiniteSets

CONSTANTS
    TicketId,       \* tickets are numbers, ordered as their ids are sorted
    Session,        \* database sessions, each running one command at a time
    NoSession,      \* the lock is free
    Command,        \* the commands clients send: op, ticket and blocker
    MaxEdge,        \* bound: rows of the edge table
    MaxRowVersion   \* bound: no ticket version grows past it

Op == {"add", "remove", "archive", "restore", "classify", "approve", "reorder"}

ASSUME LocksAssumption ==
    /\ TicketId \subseteq Nat /\ TicketId # {}
    /\ IsFiniteSet(Session)
    /\ NoSession \notin Session
    /\ Command \subseteq [op : Op, ticket : TicketId, blocker : TicketId]
    /\ MaxEdge \in Nat
    /\ MaxRowVersion \in Nat \ {0}

VARIABLES
    ticket,     \* committed rows of dev_board_dev_ticket
    edge,       \* committed rows of dev_board_dependency_edge; the id is the index
    queue,      \* the Todo queue: header version and members
    lock,       \* holder of each lock
    tx          \* what each session is doing

locksVars == <<ticket, edge, queue, lock, tx>>

\* floor: the stored policy evaluation is none, or it counted no ("free") or some
\* ("dependent") active dependency.
Floor == {"none", "free", "dependent"}
Row == [version : Nat \ {0}, lane : {"backlog", "todo"}, archived : BOOLEAN, floor : Floor]
EdgeRow == [dependent : TicketId, blocker : TicketId, active : BOOLEAN]

TicketRow(t) == <<"ticket", t>>
EdgeRowLock(e) == <<"edge", e>>
Graph == <<"graph", 0>>
Header == <<"header", 0>>
Resource == {TicketRow(t) : t \in TicketId} \cup {EdgeRowLock(e) : e \in 1..MaxEdge}
              \cup {Graph, Header}

\* A session's command: the edge it names, the versions the client expects, the
\* locks it has taken so far, and the rows it has read.
Tx == [pc : {"idle", "locking", "admitted", "ready"},
       op : Op, ticket : TicketId, blocker : TicketId, edge : 0..MaxEdge,
       version : Nat, blockerVersion : Nat, queueVersion : Nat,
       taken : Nat, row : Row, blockerRow : Row]

LocksTypeOK ==
    /\ ticket \in [TicketId -> Row]
    /\ edge \in Seq(EdgeRow)
    /\ queue \in [version : Nat \ {0}, members : SUBSET TicketId]
    /\ lock \in [Resource -> Session \cup {NoSession}]
    /\ tx \in [Session -> Tx]

NewRow == [version |-> 1, lane |-> "backlog", archived |-> FALSE, floor |-> "none"]

IdleTx(t) ==
    [pc |-> "idle", op |-> "add", ticket |-> t, blocker |-> t, edge |-> 0,
     version |-> 1, blockerVersion |-> 1, queueVersion |-> 0, taken |-> 0,
     row |-> NewRow, blockerRow |-> NewRow]

LocksInit ==
    /\ ticket = [t \in TicketId |-> NewRow]
    /\ edge = <<>>
    /\ queue = [version |-> 1, members |-> {}]
    /\ lock = [r \in Resource |-> NoSession]
    /\ tx = [s \in Session |-> IdleTx(CHOOSE t \in TicketId : TRUE)]

-----------------------------------------------------------------------------
ActiveEdges == {<<edge[i].dependent, edge[i].blocker>> : i \in {j \in DOMAIN edge : edge[j].active}}

FloorNow(t) == IF \E b \in TicketId : <<t, b>> \in ActiveEdges THEN "dependent" ELSE "free"

InFlight == {s \in Session : tx[s].pc # "idle"}

\* A client sends a command with the versions it has just read; a removal names
\* an edge it saw active.  The bounds leave room for the commands in flight.
Send(s, c, e) ==
    /\ tx[s].pc = "idle"
    /\ IF c.op = "remove"
       THEN e \in DOMAIN edge /\ edge[e].active
            /\ edge[e].dependent = c.ticket /\ edge[e].blocker = c.blocker
       ELSE e = 0
    /\ c.op = "add" => Len(edge) + Cardinality(InFlight) < MaxEdge
    /\ ticket[c.ticket].version + Cardinality(InFlight) < MaxRowVersion
    /\ tx' = [tx EXCEPT ![s] =
                [IdleTx(c.ticket) EXCEPT !.pc = "locking", !.op = c.op, !.blocker = c.blocker,
                    !.edge = e, !.version = ticket[c.ticket].version,
                    !.blockerVersion = ticket[c.blocker].version,
                    !.queueVersion = queue.version]]
    /\ UNCHANGED <<ticket, edge, queue, lock>>

-----------------------------------------------------------------------------
\* Mutant: the endpoints are locked in the order the client named them.
EndpointRows_Unsorted(t) == <<TicketRow(t.ticket), TicketRow(t.blocker)>>

\* The rows of both endpoints, sorted by id.
EndpointRows(t) ==
    IF t.ticket < t.blocker
    THEN <<TicketRow(t.ticket), TicketRow(t.blocker)>>
    ELSE <<TicketRow(t.blocker), TicketRow(t.ticket)>>

\* The locks a command takes before it decides, in order.
Plan(t) ==
    LET rows == EndpointRows(t)
    IN  CASE t.op = "add" -> <<rows[1], rows[2], Graph>>
          [] t.op = "remove" -> <<EdgeRowLock(t.edge), rows[1], rows[2], Graph>>
          [] t.op = "archive" -> <<TicketRow(t.ticket), Graph>>
          [] OTHER -> <<TicketRow(t.ticket)>>

\* The header row is locked last, by a command that changes the queue.
NeedsHeader(t) ==
    \/ t.op \in {"approve", "reorder"}
    \/ t.op \in {"add", "remove", "archive"} /\ t.row.lane = "todo"

\* The early returns before and between locks, from what the command has read so
\* far.  A removal checks no ticket version; the other commands do.
RefusedEarly(t) ==
    \/ t.op = "add" /\ t.ticket = t.blocker
    \/ t.op = "remove" /\ t.taken >= 1 /\ ~edge[t.edge].active
    \/ t.op = "remove" /\ t.taken >= 3 /\ (t.row.archived \/ t.blockerRow.archived)
    \/ t.op = "archive" /\ t.taken >= 1 /\ (t.row.version # t.version \/ t.row.archived)

\* Mutant: nobody waits for the lock of the graph.
Lockable_NoGraph(r, s) == r = Graph \/ lock[r] = NoSession

Lockable(r, s) == lock[r] = NoSession

\* The next lock of the plan: selectDependencyEdge, selectDevTicketForUpdate or
\* lockDependencyGraph.  A row is returned as committed when its lock is had.
TakeLock(s) ==
    LET t == tx[s]
        r == Plan(t)[t.taken + 1]
    IN  /\ t.pc = "locking" /\ t.taken < Len(Plan(t))
        /\ ~RefusedEarly(t)
        /\ Lockable(r, s)
        /\ lock' = [lock EXCEPT ![r] = s]
        /\ tx' = [tx EXCEPT ![s] =
                    [t EXCEPT !.taken = @ + 1,
                              !.row = IF r = TicketRow(t.ticket) THEN ticket[t.ticket] ELSE @,
                              !.blockerRow = IF r = TicketRow(t.blocker) THEN ticket[t.blocker] ELSE @]]
        /\ UNCHANGED <<ticket, edge, queue>>

\* The end of a transaction: every lock of the session is released.
Release(s) ==
    /\ lock' = [r \in Resource |-> IF lock[r] = s THEN NoSession ELSE lock[r]]
    /\ tx' = [tx EXCEPT ![s] = IdleTx(@.ticket)]

-----------------------------------------------------------------------------
ClosedUnderBlockers(S) == \A p \in ActiveEdges : p[1] \in S => p[2] \in S

DependencyCreatesCycle(dependent, blocker) ==
    \A S \in SUBSET TicketId :
        blocker \in S /\ ClosedUnderBlockers(S) => dependent \in S

\* What a command decides under the locks of its plan.  An add whose edge is
\* active already is accepted without effect, which leaves this state alone.
Admitted(t) ==
    \/ /\ t.op = "add"
       /\ <<t.ticket, t.blocker>> \notin ActiveEdges
       /\ t.row.version = t.version /\ t.blockerRow.version = t.blockerVersion
       /\ ~t.row.archived /\ ~t.blockerRow.archived
       /\ ~DependencyCreatesCycle(t.ticket, t.blocker)
    \/ t.op = "remove"
    \/ t.op = "archive" /\ \A d \in TicketId : <<d, t.ticket>> \notin ActiveEdges
    \/ t.op = "restore" /\ t.row.version = t.version /\ t.row.archived
    \/ t.op = "classify" /\ t.row.version = t.version /\ t.row.lane = "backlog"
    \/ /\ t.op = "approve" /\ t.row.version = t.version
       /\ t.row.lane = "backlog" /\ ~t.row.archived /\ t.row.floor = FloorNow(t.ticket)
    \/ t.op = "reorder" /\ t.row.version = t.version /\ t.row.lane = "todo"

AllTaken(t) == t.pc = "locking" /\ t.taken = Len(Plan(t)) /\ ~RefusedEarly(t)

\* A classification also records the floor, evaluated here.
Admit(s) ==
    /\ AllTaken(tx[s]) /\ Admitted(tx[s])
    /\ tx' = [tx EXCEPT ![s].pc = IF NeedsHeader(tx[s]) THEN "admitted" ELSE "ready",
                        ![s].row.floor = IF tx[s].op = "classify" THEN FloorNow(tx[s].ticket) ELSE @]
    /\ UNCHANGED <<ticket, edge, queue, lock>>

\* getOrLockTodoQueueHeader and the check of the queue version.
LockHeader(s) ==
    /\ tx[s].pc = "admitted"
    /\ Lockable(Header, s)
    /\ queue.version = tx[s].queueVersion
    /\ lock' = [lock EXCEPT ![Header] = s]
    /\ tx' = [tx EXCEPT ![s].pc = "ready"]
    /\ UNCHANGED <<ticket, edge, queue>>

\* A rejection commits its receipt and nothing else.
Reject(s) ==
    LET t == tx[s]
    IN  /\ \/ t.pc = "locking" /\ RefusedEarly(t)
           \/ AllTaken(t) /\ ~Admitted(t)
           \/ t.pc = "admitted" /\ Lockable(Header, s) /\ queue.version # t.queueVersion
        /\ Release(s)
        /\ UNCHANGED <<ticket, edge, queue>>

-----------------------------------------------------------------------------
\* Mutant: a dependent in Todo stays there.
RowAfter_StaysInTodo(t) ==
    LET row == [t.row EXCEPT !.version = @ + 1]
    IN  CASE t.op = "archive" -> [row EXCEPT !.archived = TRUE, !.lane = "backlog"]
          [] t.op = "restore" -> [row EXCEPT !.archived = FALSE, !.lane = "backlog"]
          [] t.op = "approve" -> [row EXCEPT !.lane = "todo"]
          [] OTHER -> row

\* The ticket row a command leaves.
RowAfter(t) ==
    LET row == [t.row EXCEPT !.version = @ + 1]
    IN  CASE t.op \in {"add", "remove"} -> [row EXCEPT !.lane = "backlog"]
          [] t.op = "archive" -> [row EXCEPT !.archived = TRUE, !.lane = "backlog"]
          [] t.op = "restore" -> [row EXCEPT !.archived = FALSE, !.lane = "backlog"]
          [] t.op = "approve" -> [row EXCEPT !.lane = "todo"]
          [] OTHER -> row

EdgesAfter(t) ==
    CASE t.op = "add" -> Append(edge, [dependent |-> t.ticket, blocker |-> t.blocker, active |-> TRUE])
      [] t.op = "remove" -> [edge EXCEPT ![t.edge].active = FALSE]
      [] OTHER -> edge

QueueAfter(t) ==
    IF NeedsHeader(t)
    THEN [version |-> queue.version + 1,
          members |-> IF t.op \in {"approve", "reorder"} THEN queue.members \cup {t.ticket}
                      ELSE queue.members \ {t.ticket}]
    ELSE queue

\* The guards of the writes: updates by version, the retirement of an active
\* edge, the membership of a ticket that leaves Todo, the bump of the header.
WritesMatch(t) ==
    /\ ticket[t.ticket].version = t.row.version
    /\ t.op = "remove" => edge[t.edge].active
    /\ NeedsHeader(t) => /\ queue.version = t.queueVersion
                         /\ (t.ticket \in queue.members) = (t.op # "approve")

\* The writes and the commit, which shows them.  If a write matches no row, the
\* savepoint is rolled back and the command is rejected.
Commit(s) ==
    LET t == tx[s]
    IN  /\ t.pc = "ready"
        /\ IF WritesMatch(t)
           THEN /\ ticket' = [ticket EXCEPT ![t.ticket] = RowAfter(t)]
                /\ edge' = EdgesAfter(t)
                /\ queue' = QueueAfter(t)
           ELSE UNCHANGED <<ticket, edge, queue>>
        /\ Release(s)

\* The connection breaks: everything uncommitted is undone.
Abort(s) ==
    /\ tx[s].pc # "idle"
    /\ Release(s)
    /\ UNCHANGED <<ticket, edge, queue>>

-----------------------------------------------------------------------------
Step(s) ==
    \/ TakeLock(s)
    \/ Admit(s)
    \/ LockHeader(s)
    \/ Reject(s)
    \/ Commit(s)

LocksNext ==
    \/ \E s \in Session, c \in Command, e \in 0..MaxEdge : Send(s, c, e)
    \/ \E s \in Session : Step(s)
    \/ \E s \in Session : Abort(s)

LocksSpec == LocksInit /\ [][LocksNext]_locksVars

\* A session that can go on does, and the database hands a lock to those who
\* wait for it in turn.  Nothing is assumed of clients or broken connections.
Fairness == \A s \in Session : SF_locksVars(Step(s))

FairSpec == LocksSpec /\ Fairness

-----------------------------------------------------------------------------
\* The commands, interleaved statement by statement, do to the graph what atomic
\* commands would: no two adds that do not see each other close a cycle, and no
\* dependency is left on a ticket that was archived meanwhile.
Abstract == INSTANCE DependencyGraph
              WITH Ticket <- TicketId, edge <- ActiveEdges, archived <- {t \in TicketId : ticket[t].archived}

ImplementsDependencyGraph == Abstract!Spec

\* A ticket in Todo was approved under the risk floor its dependencies give it
\* now, and exactly the tickets in Todo are in the queue: approveReadyToTodo
\* reads the dependencies without the lock of the graph.
TodoMatchesGraph ==
    \A t \in TicketId :
        /\ (ticket[t].lane = "todo") = (t \in queue.members)
        /\ ticket[t].lane = "todo" => ~ticket[t].archived /\ ticket[t].floor = FloorNow(t)

\* Every command that reaches the database ends: the commands take their locks
\* in one order, so no set of sessions waits for each other.
EveryCommandEnds ==
    \A s \in Session : tx[s].pc # "idle" ~> tx[s].pc = "idle"
=============================================================================
