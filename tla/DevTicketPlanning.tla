-------------------------- MODULE DevTicketPlanning --------------------------
(***************************************************************************)
(* The planning life of the DevTickets of one workspace of the Dev Board:  *)
(* classification with its Change Risk floor, the Ready contract and its   *)
(* approval into Todo, the dependency graph, and the archive overlay       *)
(* (packages/dev-board/src/application/dev-board-planning-commands.ts).    *)
(*                                                                         *)
(* Every command is one action.  That is justified by its locks: it reads  *)
(* the rows it decides on with FOR UPDATE, and a command that changes the  *)
(* graph, or an archive that depends on it, also holds the advisory lock   *)
(* of the workspace's graph; module DependencyLocks takes the commands     *)
(* apart, statement by statement, and checks that these locks suffice.     *)
(* A rejected command writes its receipt (module CommandSpine) and leaves  *)
(* the state of this module alone, so it is a stuttering step: an action   *)
(* below is a command that is accepted, and its guard is the conjunction   *)
(* of the negations of the code's early returns.  The expected versions a  *)
(* command carries are such a guard (they equal the current ones), which   *)
(* is why VersionCoversRow matters: it says what equal versions are worth. *)
(***************************************************************************)
EXTENDS Integers

CONSTANTS
    Ticket,             \* the DevTickets of the workspace
    User,               \* users that may send a command or be named as owner
    Member,             \* the active members of the organization
    Admin,              \* members with the organization role owner or admin
    Classification,     \* the classifications a client may send
    NoClassification,   \* null in the classification columns
    MaxVersion          \* bound: no row version grows past it

DevTicketType == {"feature", "bug"}
WorkArea == {"frontend", "security", "data_database", "infrastructure"}

\* changeRisks: low, medium, high and critical, by index; NoRisk is null.
ChangeRisk == 0..3
NoRisk == -1

ASSUME PlanningAssumption ==
    /\ Admin \subseteq Member
    /\ Member \subseteq User
    /\ Member # {}
    /\ Classification \subseteq
         [type : DevTicketType, areas : (SUBSET WorkArea) \ {{}}, declared : ChangeRisk]
    /\ NoClassification \notin Classification
    /\ MaxVersion \in Nat \ {0}

VARIABLES
    ticket,     \* the rows of dev_board_dev_ticket
    edge,       \* active rows of dev_board_dependency_edge: <<dependent, blocker>>
    queued      \* the tickets with a Todo queue membership

vars == <<ticket, edge, queued>>

\* What a Ready contract binds: owner, classification, and, through the policy
\* evaluation it embeds, whether the ticket had active dependencies.  The
\* content hash is the content.
Content == [owner : Member, cls : Classification \cup {NoClassification}, deps : BOOLEAN]

Lane == {"backlog", "todo"}

\* contract and content are ready_contract_version and ready_contract_content;
\* approvedContract and approvedBy are the ready_approval columns, which the code
\* sets and clears together: approvedContract = 0 is null in all of them.
Row == [version : 1..MaxVersion, lane : Lane, ready : {"draft", "approved"},
        archived : BOOLEAN, lastActiveLane : Lane \cup {"none"},
        owner : Member, cls : Classification \cup {NoClassification},
        minimum : ChangeRisk \cup {NoRisk},
        contract : Nat \ {0}, content : Content,
        approvedContract : Nat, approvedBy : User]

TypeOK ==
    /\ ticket \in [Ticket -> Row]
    /\ edge \subseteq Ticket \X Ticket
    /\ queued \subseteq Ticket

\* A row as insertDevTicket leaves it for an accepted Proposal: Backlog draft,
\* contract 1, no classification.
NewRow(owner) ==
    [version |-> 1, lane |-> "backlog", ready |-> "draft",
     archived |-> FALSE, lastActiveLane |-> "none",
     owner |-> owner, cls |-> NoClassification, minimum |-> NoRisk,
     contract |-> 1,
     content |-> [owner |-> owner, cls |-> NoClassification, deps |-> FALSE],
     approvedContract |-> 0, approvedBy |-> owner]

Init ==
    /\ ticket \in [Ticket -> {NewRow(owner) : owner \in Member}]
    /\ edge = {}
    /\ queued = {}

-----------------------------------------------------------------------------
Blockers(t) == {b \in Ticket : <<t, b>> \in edge}

HasActiveDependencies(t) == Blockers(t) # {}

\* The policy floor.  Each rule raises it to a level, an active dependency
\* raises the result by one step, and critical is the ceiling.
EvaluateChangeRisk(cls, deps) ==
    LET bug == cls.type = "bug"
        security == "security" \in cls.areas
        sensitive == {"data_database", "infrastructure"} \cap cls.areas # {}
        floor == IF security /\ (bug \/ sensitive) THEN 2
                 ELSE IF security \/ bug THEN 1 ELSE 0
    IN  IF deps THEN (IF floor + 1 > 3 THEN 3 ELSE floor + 1) ELSE floor

CurrentMinimum(t) == EvaluateChangeRisk(ticket[t].cls, HasActiveDependencies(t))

\* The Human Owner, or an organization owner or admin.
Authorized(actor, row) == actor = row.owner \/ actor \in Admin

-----------------------------------------------------------------------------
\* Mutant: the stored policy minimum is not compared.
ClassificationUnchanged_IgnoresPolicy(row, owner, cls, minimum) ==
    row.owner = owner /\ row.cls = cls

\* An unchanged SET is rejected as a client error.
ClassificationUnchanged(row, owner, cls, minimum) ==
    row.owner = owner /\ row.cls = cls /\ row.minimum = minimum

\* Backlog only; an archived ticket rests in Backlog and is not excluded.
MaySetClassification(t, owner, cls) ==
    LET minimum == EvaluateChangeRisk(cls, HasActiveDependencies(t))
    IN  /\ ticket[t].lane = "backlog"
        /\ owner # ticket[t].owner => owner \in Member
        /\ cls.declared >= minimum
        /\ ~ClassificationUnchanged(ticket[t], owner, cls, minimum)

\* updateDevTicketClassification.
Classified(row, owner, cls, deps) ==
    [row EXCEPT !.version = @ + 1,
                !.owner = owner,
                !.cls = cls,
                !.minimum = EvaluateChangeRisk(cls, deps),
                !.contract = @ + 1,
                !.content = [owner |-> owner, cls |-> cls, deps |-> deps]]

SetDevTicketClassification(t, owner, cls) ==
    /\ MaySetClassification(t, owner, cls)
    /\ ticket[t].version < MaxVersion
    /\ ticket' = [ticket EXCEPT ![t] = Classified(@, owner, cls, HasActiveDependencies(t))]
    /\ UNCHANGED <<edge, queued>>

-----------------------------------------------------------------------------
\* Mutant: the policy is not evaluated again at approval.
MayApprove_StalePolicy(t, actor, content) ==
    LET row == ticket[t]
    IN  /\ row.lane = "backlog" /\ row.ready = "draft" /\ ~row.archived
        /\ Authorized(actor, row)
        /\ row.cls # NoClassification
        /\ content.cls = row.cls /\ content.owner = row.owner
        /\ row.minimum # NoRisk
        /\ content.deps = row.content.deps

\* The contract head is the one the client expects, the contract it submits
\* binds the row's classification and owner and the policy as it evaluates
\* now, and the policy evaluation stored at classification has not drifted.
MayApprove(t, actor, content) ==
    LET row == ticket[t]
    IN  /\ row.lane = "backlog" /\ row.ready = "draft" /\ ~row.archived
        /\ Authorized(actor, row)
        /\ row.cls # NoClassification
        /\ content.cls = row.cls /\ content.owner = row.owner
        /\ row.minimum # NoRisk
        /\ row.cls.declared >= CurrentMinimum(t)
        /\ row.minimum = CurrentMinimum(t)
        /\ content.deps = HasActiveDependencies(t)

\* updateDevTicketForReadyApproval.
Approved(row, actor, content) ==
    [row EXCEPT !.version = @ + 1,
                !.lane = "todo",
                !.ready = "approved",
                !.contract = @ + 1,
                !.content = content,
                !.approvedContract = row.contract + 1,
                !.approvedBy = actor]

ApproveReadyToTodo(t, actor, content) ==
    /\ MayApprove(t, actor, content)
    /\ t \notin queued
    /\ ticket[t].version < MaxVersion
    /\ ticket' = [ticket EXCEPT ![t] = Approved(@, actor, content)]
    /\ queued' = queued \cup {t}
    /\ UNCHANGED edge

\* bumpDevTicketVersion.
Bumped(row) == [row EXCEPT !.version = @ + 1]

\* The effect of reorderTodo on the ticket it moves; its effect on the queue is
\* module TodoQueue.
ReorderTodo(t) ==
    /\ ticket[t].lane = "todo"
    /\ t \in queued
    /\ ticket[t].version < MaxVersion
    /\ ticket' = [ticket EXCEPT ![t] = Bumped(@)]
    /\ UNCHANGED <<edge, queued>>

-----------------------------------------------------------------------------
DependencyEndpointOk(t) == ~ticket[t].archived

\* The recursive query: the blocker reaches the dependent along active edges.
\* Reachability is stated through closed sets: every set that holds the
\* blocker and the blockers of its members holds the dependent.
ClosedUnderBlockers(S) == \A p \in edge : p[1] \in S => p[2] \in S

\* Mutant: the query looks one edge deep instead of recursing.
DependencyCreatesCycle_OneHop(dependent, blocker) ==
    dependent = blocker \/ <<blocker, dependent>> \in edge

DependencyCreatesCycle(dependent, blocker) ==
    \A S \in SUBSET Ticket :
        blocker \in S /\ ClosedUnderBlockers(S) => dependent \in S

\* Mutant: only a ticket that leaves Todo gets a new version.
ApplyDependencyChange_NoVersion(row) ==
    IF row.lane = "todo"
    THEN [row EXCEPT !.version = @ + 1, !.lane = "backlog", !.ready = "draft",
                     !.approvedContract = 0]
    ELSE row

\* A dependent in Todo falls back to a Backlog draft without approval.
ApplyDependencyChange(row) ==
    IF row.lane = "todo"
    THEN [row EXCEPT !.version = @ + 1, !.lane = "backlog", !.ready = "draft",
                     !.approvedContract = 0]
    ELSE [row EXCEPT !.version = @ + 1]

\* A duplicate of an active edge is accepted without effect, a stuttering step.
AddDependency(dependent, blocker) ==
    /\ dependent # blocker
    /\ <<dependent, blocker>> \notin edge
    /\ DependencyEndpointOk(dependent) /\ DependencyEndpointOk(blocker)
    /\ ~DependencyCreatesCycle(dependent, blocker)
    /\ ticket[dependent].lane = "todo" => dependent \in queued
    /\ ticket[dependent].version < MaxVersion
    /\ edge' = edge \cup {<<dependent, blocker>>}
    /\ ticket' = [ticket EXCEPT ![dependent] = ApplyDependencyChange(@)]
    /\ queued' = queued \ {dependent}

\* Mutant: the dependencies of an archived ticket can be removed.
RemoveDependency_AnyEndpoint(dependent, blocker) ==
    /\ <<dependent, blocker>> \in edge
    /\ ticket[dependent].lane = "todo" => dependent \in queued
    /\ ticket[dependent].version < MaxVersion
    /\ edge' = edge \ {<<dependent, blocker>>}
    /\ ticket' = [ticket EXCEPT ![dependent] = ApplyDependencyChange(@)]
    /\ queued' = queued \ {dependent}

RemoveDependency(dependent, blocker) ==
    /\ <<dependent, blocker>> \in edge
    /\ DependencyEndpointOk(dependent) /\ DependencyEndpointOk(blocker)
    /\ ticket[dependent].lane = "todo" => dependent \in queued
    /\ ticket[dependent].version < MaxVersion
    /\ edge' = edge \ {<<dependent, blocker>>}
    /\ ticket' = [ticket EXCEPT ![dependent] = ApplyDependencyChange(@)]
    /\ queued' = queued \ {dependent}

-----------------------------------------------------------------------------
\* selectActiveBlockerEdges: active edges whose blocker is the ticket.
HasActiveDependents(t) == \E d \in Ticket : <<d, t>> \in edge

\* archiveDevTicket of the store.  The overlay: the live lane rests at Backlog
\* and the prior lane is kept apart.
Archived(row) ==
    [row EXCEPT !.version = @ + 1,
                !.archived = TRUE,
                !.lastActiveLane = row.lane,
                !.lane = "backlog",
                !.ready = "draft",
                !.approvedContract = 0]

ArchiveDevTicket(t, actor) ==
    /\ ~ticket[t].archived
    /\ Authorized(actor, ticket[t])
    /\ ~HasActiveDependents(t)
    /\ ticket[t].lane = "todo" => t \in queued
    /\ ticket[t].version < MaxVersion
    /\ ticket' = [ticket EXCEPT ![t] = Archived(@)]
    /\ queued' = queued \ {t}
    /\ UNCHANGED edge

\* restoreDevTicket of the store; the lane before the archive is not restored.
Restored(row) ==
    [row EXCEPT !.version = @ + 1,
                !.archived = FALSE,
                !.lane = "backlog",
                !.ready = "draft",
                !.approvedContract = 0]

\* No ticket reaches the lane done, so the refusal to restore one is void here.
RestoreDevTicket(t, actor) ==
    /\ ticket[t].archived
    /\ Authorized(actor, ticket[t])
    /\ ticket[t].version < MaxVersion
    /\ ticket' = [ticket EXCEPT ![t] = Restored(@)]
    /\ UNCHANGED <<edge, queued>>

Next ==
    \/ \E t \in Ticket, owner \in User, cls \in Classification :
            SetDevTicketClassification(t, owner, cls)
    \/ \E t \in Ticket, actor \in User, content \in Content :
            ApproveReadyToTodo(t, actor, content)
    \/ \E t \in Ticket : ReorderTodo(t)
    \/ \E dependent, blocker \in Ticket : AddDependency(dependent, blocker)
    \/ \E dependent, blocker \in Ticket : RemoveDependency(dependent, blocker)
    \/ \E t \in Ticket, actor \in User : ArchiveDevTicket(t, actor)
    \/ \E t \in Ticket, actor \in User : RestoreDevTicket(t, actor)

Spec == Init /\ [][Next]_vars

-----------------------------------------------------------------------------
\* The active edges never close a cycle, so no ticket waits for itself: there
\* is no set of tickets in which each one is blocked by another of the set
\* (addDependency and the recursive query of dependencyCreatesCycle).
NoDependencyCycle ==
    \A S \in SUBSET Ticket :
        (\A t \in S : Blockers(t) \cap S # {}) => S = {}

\* A ticket that is archived blocks nobody: otherwise its dependents would stay
\* locked behind work that nobody sees on the Board (archiveDevTicket against
\* addDependency and restoreDevTicket).
ArchivedBlocksNothing ==
    \A p \in edge : ~ticket[p[2]].archived

\* The commands do to the graph what the abstract dependency graph allows, and an
\* archived ticket keeps the dependencies it had until it is restored.
Graph == INSTANCE DependencyGraph WITH archived <- {t \in Ticket : ticket[t].archived}

ImplementsDependencyGraph == Graph!Spec

\* What the Todo lane promises to whoever takes work from it: exactly the queued
\* tickets are approved, the approval is of the contract head, that contract
\* binds the owner, the classification and the dependencies the ticket has now,
\* and the declared risk meets the policy floor evaluated now, whatever
\* happened to the graph since the approval.
TodoContractCurrent ==
    \A t \in Ticket :
        LET row == ticket[t]
        IN  /\ (row.lane = "todo") = (row.ready = "approved")
            /\ (row.lane = "todo") = (t \in queued)
            /\ (row.lane = "todo") = (row.approvedContract # 0)
            /\ row.lane = "todo" =>
                 /\ ~row.archived
                 /\ row.cls # NoClassification
                 /\ row.approvedContract = row.contract
                 /\ row.content = [owner |-> row.owner, cls |-> row.cls,
                                   deps |-> HasActiveDependencies(t)]
                 /\ row.minimum = CurrentMinimum(t)
                 /\ row.cls.declared >= CurrentMinimum(t)

\* A ticket in Todo was approved by the human who owns it now, or by an
\* organization owner or admin: no change of owner leaves an approval behind
\* that the present owner never gave (approveReadyToTodo against
\* setDevTicketClassification).
TodoApprovedByAuthority ==
    \A t \in Ticket :
        ticket[t].lane = "todo" => ticket[t].approvedBy \in {ticket[t].owner} \cup Admin

\* No ticket gets stuck between the two commands that lead to Todo: if its
\* declared risk meets the floor, then it can be approved as it is, or the same
\* classification can be set again to record the floor that a change of its
\* dependencies moved; the rejection of an unchanged classification never
\* coincides with the rejection of an approval for policy drift.
Reapprovable ==
    \A t \in Ticket :
        LET row == ticket[t]
            bound == [owner |-> row.owner, cls |-> row.cls, deps |-> HasActiveDependencies(t)]
        IN  (/\ row.lane = "backlog" /\ ~row.archived
             /\ row.cls # NoClassification
             /\ row.cls.declared >= CurrentMinimum(t))
            => \/ MayApprove(t, row.owner, bound)
               \/ MaySetClassification(t, row.owner, row.cls)

\* Two reads of a ticket that return the same version saw the same row and the
\* same blockers: a step that changes either raises the version.  The
\* expected-version check of every command rests on it.
VersionCoversRow ==
    [][\A t \in Ticket :
           (ticket'[t] # ticket[t] \/ Blockers(t)' # Blockers(t))
           => ticket'[t].version > ticket[t].version]_vars

\* An approval always names a contract version that did not exist before it, so
\* no later step (a restore, a dependency taken back) can revive an old one.
ApprovalIsFresh ==
    [][\A t \in Ticket :
           ticket'[t].approvedContract # ticket[t].approvedContract
           => \/ ticket'[t].approvedContract = 0
              \/ ticket'[t].approvedContract > ticket[t].contract]_vars
=============================================================================
