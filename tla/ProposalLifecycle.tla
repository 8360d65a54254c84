-------------------------- MODULE ProposalLifecycle --------------------------
(***************************************************************************)
(* Proposals of the Dev Board and the commands that race to decide them:   *)
(* draft, submit, accept (which creates a DevTicket), merge into an        *)
(* existing DevTicket, reject, archive and restore                         *)
(* (packages/dev-board/src/application/dev-board-planning-commands.ts).    *)
(*                                                                         *)
(* Unlike DevTicketPlanning, a command is not atomic here.  A session      *)
(* takes the row lock and reads the row, decides, inserts, updates and     *)
(* commits in separate steps, under READ COMMITTED: what it wrote is seen  *)
(* by others when it commits, and is lost if its connection breaks first.  *)
(* The receipt of the command and its replay are module CommandSpine.      *)
(***************************************************************************)
EXTENDS Integers

CONSTANTS
    Proposal,       \* proposal identities
    Session,        \* database sessions, each running one command at a time
    Actor,          \* actors of commands: users and agents
    Admin,          \* humans with the organization role owner or admin
    NoSession,      \* the lock is free
    MaxVersion      \* bound: no row version grows past it

ASSUME ProposalAssumption ==
    /\ Admin \subseteq Actor
    /\ NoSession \notin Session
    /\ MaxVersion \in Nat \ {0}

VARIABLES
    proposal,   \* committed rows of dev_board_proposal; version 0: no row
    ticket,     \* proposals with a committed DevTicket created from them
    target,     \* a DevTicket that exists already and that a merge may name
    event,      \* committed activity events of the proposals
    lock,       \* holder of each proposal's row lock (or unique index entry)
    targetLock, \* holder of the target ticket's row lock
    tx          \* what each session is doing

vars == <<proposal, ticket, target, event, lock, targetLock, tx>>

Decision == {"accepted", "merged", "rejected"}
LifecycleState == {"draft", "awaiting_decision"} \cup Decision
Row == [version : 0..MaxVersion, state : LifecycleState, archived : BOOLEAN]

Op == {"draft", "submit", "accept", "merge", "reject", "archive", "restore"}

\* A session's command and its uncommitted work.  version and targetVersion are
\* the expected versions the client sent, row is what the locked read returned,
\* inserted says that a DevTicket was inserted, updated that the row was.
Tx == [pc : {"idle", "sent", "locked", "decided", "inserted", "updated"},
       op : Op, proposal : Proposal, actor : Actor,
       version : 0..MaxVersion, targetVersion : 1..MaxVersion,
       row : Row, inserted : BOOLEAN]

NoRow == [version |-> 0, state |-> "draft", archived |-> FALSE]

Idle(t) == [t EXCEPT !.pc = "idle", !.op = "draft", !.version = 0, !.targetVersion = 1,
                     !.row = NoRow, !.inserted = FALSE]

TypeOK ==
    /\ proposal \in [Proposal -> Row]
    /\ ticket \subseteq Proposal
    /\ target \in [version : 1..MaxVersion, archived : BOOLEAN]
    /\ event \subseteq [proposal : Proposal, version : 1..MaxVersion, op : Op, actor : Actor]
    /\ lock \in [Proposal -> Session \cup {NoSession}]
    /\ targetLock \in Session \cup {NoSession}
    /\ tx \in [Session -> Tx]

Init ==
    /\ proposal = [p \in Proposal |-> NoRow]
    /\ ticket = {}
    /\ target = [version |-> 1, archived |-> FALSE]
    /\ event = {}
    /\ lock = [p \in Proposal |-> NoSession]
    /\ targetLock = NoSession
    /\ \E p \in Proposal, a \in Actor :
           tx = [s \in Session |->
                   [pc |-> "idle", op |-> "draft", proposal |-> p, actor |-> a,
                    version |-> 0, targetVersion |-> 1, row |-> NoRow, inserted |-> FALSE]]

-----------------------------------------------------------------------------
\* A client sends a command with the versions it has read; only drafting names
\* a proposal that does not exist yet.
Send(s, op, p, actor) ==
    /\ tx[s].pc = "idle"
    /\ op # "draft" => proposal[p].version # 0
    /\ proposal[p].version < MaxVersion
    /\ tx' = [tx EXCEPT ![s] = [pc |-> "sent", op |-> op, proposal |-> p, actor |-> actor,
                                version |-> IF op = "draft" THEN 0 ELSE proposal[p].version,
                                targetVersion |-> target.version,
                                row |-> NoRow, inserted |-> FALSE]]
    /\ UNCHANGED <<proposal, ticket, target, event, lock, targetLock>>

\* Mutant: the target's lock outlives the transaction.
Release_KeepsTarget(s) ==
    /\ lock' = [p \in Proposal |-> IF lock[p] = s THEN NoSession ELSE lock[p]]
    /\ UNCHANGED targetLock
    /\ tx' = [tx EXCEPT ![s] = Idle(@)]

\* The end of a transaction, by commit or by rollback: its locks are released.
Release(s) ==
    /\ lock' = [p \in Proposal |-> IF lock[p] = s THEN NoSession ELSE lock[p]]
    /\ targetLock' = IF targetLock = s THEN NoSession ELSE targetLock
    /\ tx' = [tx EXCEPT ![s] = Idle(@)]

\* Mutant: the proposal is read without FOR UPDATE.
SelectProposalForUpdate_NoLock(s) ==
    LET t == tx[s]
    IN  /\ t.pc = "sent"
        /\ tx' = [tx EXCEPT ![s].pc = "locked", ![s].row = proposal[t.proposal]]
        /\ UNCHANGED <<proposal, ticket, target, event, lock, targetLock>>

\* selectProposalForUpdate waits for the row lock and returns the row as
\* committed when it gets it.  A draft waits on the primary key in the same way.
SelectProposalForUpdate(s) ==
    LET t == tx[s]
    IN  /\ t.pc = "sent"
        /\ lock[t.proposal] = NoSession
        /\ lock' = [lock EXCEPT ![t.proposal] = s]
        /\ tx' = [tx EXCEPT ![s].pc = "locked", ![s].row = proposal[t.proposal]]
        /\ UNCHANGED <<proposal, ticket, target, event, targetLock>>

\* Mutant: the target of a merge is read without FOR UPDATE.
TargetLockable_NoLock(s) == targetLock' = targetLock

\* A merge also locks its target ticket, after the proposal; no other proposal
\* command does.
TargetLockable(s) ==
    /\ targetLock = NoSession
    /\ targetLock' = s

AwaitingDecision(row) == row.state = "awaiting_decision" /\ ~row.archived

\* The early returns after the read: version drift, lifecycle, archive overlay
\* and, for the overlay commands only, the role of the actor.  A draft is
\* refused by the primary key.
Admitted(t) ==
    \/ t.op = "draft" /\ t.row.version = 0
    \/ /\ t.op # "draft"
       /\ t.row.version = t.version
       /\ \/ t.op = "submit" /\ t.row.state = "draft" /\ ~t.row.archived
          \/ t.op \in {"accept", "reject"} /\ AwaitingDecision(t.row)
          \/ t.op = "merge" /\ AwaitingDecision(t.row)
                            /\ target.version = t.targetVersion /\ ~target.archived
          \/ t.op = "archive" /\ ~t.row.archived /\ t.actor \in Admin
          \/ t.op = "restore" /\ t.row.archived /\ t.actor \in Admin

Admit(s) ==
    /\ tx[s].pc = "locked"
    /\ Admitted(tx[s])
    /\ IF tx[s].op = "merge" THEN TargetLockable(s) ELSE UNCHANGED targetLock
    /\ tx' = [tx EXCEPT ![s].pc = "decided"]
    /\ UNCHANGED <<proposal, ticket, target, event, lock>>

\* A rejection commits its receipt and nothing else.
Reject(s) ==
    /\ tx[s].pc = "locked"
    /\ tx[s].op = "merge" => targetLock = NoSession
    /\ ~Admitted(tx[s])
    /\ Release(s)
    /\ UNCHANGED <<proposal, ticket, target, event>>

-----------------------------------------------------------------------------
\* insertDevTicket of an accept.  The unique index on the source proposal makes
\* it wait for an uncommitted insert for the same proposal, and refuses it once
\* one is committed; the savepoint then undoes the insert and the command is
\* rejected.
InsertDevTicket(s) ==
    LET p == tx[s].proposal
    IN  /\ tx[s].pc = "decided" /\ tx[s].op = "accept"
        /\ \A r \in Session \ {s} : ~(tx[r].inserted /\ tx[r].proposal = p)
        /\ IF p \in ticket
           THEN Release(s)
           ELSE /\ tx' = [tx EXCEPT ![s].pc = "inserted", ![s].inserted = TRUE]
                /\ UNCHANGED <<lock, targetLock>>
        /\ UNCHANGED <<proposal, ticket, target, event>>

ReadyToUpdate(t) ==
    IF t.op = "accept" THEN t.pc = "inserted" ELSE t.pc = "decided"

\* updateProposal writes where the version is still the expected one.  If no row
\* matches, the command is rejected, and because nothing was thrown the
\* savepoint is released: what was inserted before is committed with the
\* rejection.
UpdateProposal(s) ==
    LET t == tx[s]
        p == t.proposal
    IN  /\ ReadyToUpdate(t)
        /\ lock[p] \in {s, NoSession}
        /\ IF proposal[p].version = t.version
           THEN /\ lock' = [lock EXCEPT ![p] = s]
                /\ tx' = [tx EXCEPT ![s].pc = "updated"]
                /\ UNCHANGED <<ticket, targetLock>>
           ELSE /\ ticket' = IF t.inserted THEN ticket \cup {p} ELSE ticket
                /\ Release(s)
        /\ UNCHANGED <<proposal, target, event>>

\* Mutant: a restored proposal is open for a decision again.
RowAfter_RestoreReopens(t) ==
    [version |-> t.row.version + 1,
     state |-> CASE t.op = "draft" -> "draft"
                 [] t.op \in {"submit", "restore"} -> "awaiting_decision"
                 [] t.op = "accept" -> "accepted"
                 [] t.op = "merge" -> "merged"
                 [] t.op = "reject" -> "rejected"
                 [] OTHER -> t.row.state,
     archived |-> CASE t.op = "archive" -> TRUE
                    [] t.op = "restore" -> FALSE
                    [] OTHER -> t.row.archived]

\* The row a command leaves.
RowAfter(t) ==
    [version |-> t.row.version + 1,
     state |-> CASE t.op = "draft" -> "draft"
                 [] t.op = "submit" -> "awaiting_decision"
                 [] t.op = "accept" -> "accepted"
                 [] t.op = "merge" -> "merged"
                 [] t.op = "reject" -> "rejected"
                 [] OTHER -> t.row.state,
     archived |-> CASE t.op = "archive" -> TRUE
                    [] t.op = "restore" -> FALSE
                    [] OTHER -> t.row.archived]

\* Mutant: a decision is not appended to the activity ledger.
ActivityOf_NoReject(t) ==
    IF t.op \in {"draft", "reject"} THEN {}
    ELSE {[proposal |-> t.proposal, version |-> t.row.version + 1,
           op |-> t.op, actor |-> t.actor]}

\* Drafting records a planning entry only; every other command appends one
\* activity event at the version it creates.
ActivityOf(t) ==
    IF t.op = "draft" THEN {}
    ELSE {[proposal |-> t.proposal, version |-> t.row.version + 1,
           op |-> t.op, actor |-> t.actor]}

\* The transaction commits: row, ticket and ledger appear together.
Commit(s) ==
    LET t == tx[s]
    IN  /\ t.pc = "updated"
        /\ proposal' = [proposal EXCEPT ![t.proposal] = RowAfter(t)]
        /\ ticket' = IF t.inserted THEN ticket \cup {t.proposal} ELSE ticket
        /\ event' = event \cup ActivityOf(t)
        /\ Release(s)
        /\ UNCHANGED target

\* The connection breaks: everything uncommitted is undone.
Abort(s) ==
    /\ tx[s].pc \notin {"idle", "sent"}
    /\ Release(s)
    /\ UNCHANGED <<proposal, ticket, target, event>>

\* Another command archives or restores the target ticket, under its row lock
\* (module DevTicketPlanning).
ToggleTarget ==
    /\ targetLock = NoSession
    /\ target.version < MaxVersion
    /\ target' = [version |-> target.version + 1, archived |-> ~target.archived]
    /\ UNCHANGED <<proposal, ticket, event, lock, targetLock, tx>>

-----------------------------------------------------------------------------
Step(s) ==
    \/ SelectProposalForUpdate(s)
    \/ Admit(s)
    \/ Reject(s)
    \/ InsertDevTicket(s)
    \/ UpdateProposal(s)
    \/ Commit(s)

Next ==
    \/ \E s \in Session, op \in Op, p \in Proposal, a \in Actor : Send(s, op, p, a)
    \/ \E s \in Session : Step(s)
    \/ \E s \in Session : Abort(s)
    \/ ToggleTarget

Spec == Init /\ [][Next]_vars

\* A session that can go on does: the process runs the next statement, and the
\* database hands a lock to the sessions that wait for it in turn, so one that
\* waits while others come and go gets it (hence strong fairness).  Nothing is
\* assumed of clients or of broken connections.
Fairness == \A s \in Session : SF_vars(Step(s))

FairSpec == Spec /\ Fairness

-----------------------------------------------------------------------------
\* A DevTicket was created from a proposal exactly when that proposal is
\* accepted: a losing accept leaves no orphan ticket behind and no accepted
\* proposal lacks its ticket (acceptProposal inserts the ticket before the
\* guarded update, and keeps it when that update matches no row).
AcceptedMeansTicket ==
    ticket = {p \in Proposal : proposal[p].state = "accepted"}

\* Each version of a proposal after the first has exactly one activity event,
\* whatever commands raced for it ("each human decision/overlay command emits
\* exactly one corresponding ... activity event").
ActivityCoversVersions ==
    \A p \in Proposal :
        /\ {e.version : e \in {x \in event : x.proposal = p}} = 2..proposal[p].version
        /\ \A e, f \in event : e.proposal = f.proposal /\ e.version = f.version => e = f

\* A decision is final: no later command, in whatever order the sessions run,
\* changes a proposal that was accepted, merged or rejected to another state;
\* archive and restore are an overlay.
DecisionIsFinal ==
    [][\A p \in Proposal :
           proposal[p].state \in Decision => proposal'[p].state = proposal[p].state]_vars

\* At the moment a merge commits, its target ticket is active.
MergedIntoActiveTicket ==
    [][\A p \in Proposal :
           proposal'[p].state = "merged" /\ proposal[p].state # "merged"
           => ~target'.archived]_vars

\* Every command that reaches the database ends, by commit, rejection or
\* rollback: no lock is held for ever and no two sessions wait for each other.
EveryCommandEnds ==
    \A s \in Session : tx[s].pc # "idle" ~> tx[s].pc = "idle"
=============================================================================
