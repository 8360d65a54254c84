------------------------------ MODULE TaskDone ------------------------------
(***************************************************************************)
(* Quality review and Done of tasks, together with the close outbox that   *)
(* Done feeds.  Every command is one withTenant transaction at READ        *)
(* COMMITTED: it reads, decides, and writes, and other sessions commit in  *)
(* between.  A command's first step is its reads, its last the commit of   *)
(* its writes.  A returned error commits, an exception rolls back.         *)
(*                                                                         *)
(* The review statuses open and changes_requested are one: no decision     *)
(* tells them apart.  The list of reviewers is written and never read.     *)
(***************************************************************************)
EXTENDS IssueCloseOutbox

CONSTANTS
  Sessions,   \* web requests in flight
  Users,
  UserOf,     \* the user of each session
  NoUser,
  Checks,     \* quality checks, each with the idempotency key that adds it
  Nonces      \* ids of task_done_confirmation rows

ASSUME TaskAssumption ==
  /\ UserOf \in [Sessions -> Users]
  /\ NoUser \notin Users

VARIABLES
  done,       \* tasks with status 'done'
  review,     \* task_quality_review.status, or "none"
  check,      \* check[t][c]: task_quality_check.state, or "none"
  conf,       \* task_done_confirmation
  call,       \* the command each session is in the middle of
  bought,     \* history: Done commits each confirmation paid for
  promised    \* history: tasks whose Done was to close their issue

taskVars == <<done, review, check, conf, call, bought, promised>>
vars == <<taskVars, outboxVars>>

-----------------------------------------------------------------------------
CheckStates == {"pending", "pass", "fail"}

\* A confirmation row; user is NoUser when there is no row.
Confirmations == [user : Users \union {NoUser}, task : Tasks \union {NoTask},
                  consumed : BOOLEAN, expired : BOOLEAN]
NoConfirmation == [user |-> NoUser, task |-> NoTask, consumed |-> FALSE, expired |-> FALSE]

Idle == [op |-> "idle"]
Calls ==
  {Idle}
    \union [op : {"insertAdd", "add", "toggle"}, task : Tasks, check : Checks,
            state : CheckStates, row : BOOLEAN]
    \union [op : {"insertApprove", "approve"}, task : Tasks, row : BOOLEAN]
    \union [op : {"confirm", "commit"}, task : Tasks, nonce : Nonces,
            inTime : BOOLEAN, card : BOOLEAN]

Begin(s, c) == call' = [call EXCEPT ![s] = c]
End(s) == call' = [call EXCEPT ![s] = Idle]

Init ==
  /\ OutboxInit
  /\ done = {}
  /\ review = [t \in Tasks |-> "none"]
  /\ check = [t \in Tasks |-> [c \in Checks |-> "none"]]
  /\ conf = [n \in Nonces |-> NoConfirmation]
  /\ call = [s \in Sessions |-> Idle]
  /\ bought = [n \in Nonces |-> 0]
  /\ promised = {}

-----------------------------------------------------------------------------
\* ensureQualityReview: what its insert on conflict leaves in the row.
Ensured(t) == IF review[t] = "none" THEN "open" ELSE review[t]

\* That insert creates the row or updates it, and the row stays locked until the
\* commit (call[s].row); a command that found the row by its select locks nothing.
HoldsReview(s, t) == call[s].op \in {"add", "approve"} /\ call[s].task = t /\ call[s].row
ReviewFree(s, t) == \A r \in Sessions \ {s} : ~HoldsReview(r, t)

\* ensureTaskQualityReview
EnsureReview(s, t) ==
  /\ call[s] = Idle
  /\ review[t] = "none" /\ ReviewFree(s, t)
  /\ review' = [review EXCEPT ![t] = Ensured(t)]
  /\ UNCHANGED <<done, check, conf, call, bought, promised, outboxVars>>

\* addQualityCheck whose select finds no review.
AddSelect(s, t, c, v) ==
  /\ call[s] = Idle
  /\ review[t] = "none"
  /\ Begin(s, [op |-> "insertAdd", task |-> t, check |-> c, state |-> v, row |-> FALSE])
  /\ UNCHANGED <<done, review, check, conf, bought, promised, outboxVars>>

\* Its insert of the review, which waits for the one of another command and then
\* returns that row: a key that is known is a replay, an approved review refuses.
AddInsert(s) ==
  /\ call[s].op = "insertAdd"
  /\ LET t == call[s].task  c == call[s].check IN
       /\ ReviewFree(s, t)
       /\ IF check[t][c] = "none" /\ review[t] # "approved"
            THEN Begin(s, [call[s] EXCEPT !.op = "add", !.row = TRUE])
            ELSE End(s)
  /\ UNCHANGED <<done, review, check, conf, bought, promised, outboxVars>>

\* addQualityCheck on a review that exists, up to the insert of the check.
AddRead(s, t, c, v) ==
  /\ call[s] = Idle
  /\ check[t][c] = "none" /\ review[t] = "open"
  /\ Begin(s, [op |-> "add", task |-> t, check |-> c, state |-> v, row |-> FALSE])
  /\ UNCHANGED <<done, review, check, conf, bought, promised, outboxVars>>

\* The insert, a no-op when another session's insert of the key won.
AddWrite(s) ==
  /\ call[s].op = "add"
  /\ LET t == call[s].task  c == call[s].check IN
       /\ review' = [review EXCEPT ![t] = Ensured(t)]
       /\ check' = [check EXCEPT ![t][c] = IF @ = "none" THEN call[s].state ELSE @]
  /\ End(s)
  /\ UNCHANGED <<done, conf, bought, promised, outboxVars>>

\* toggleQualityCheck up to the update of the check.
ToggleRead(s, t, c, v) ==
  /\ call[s] = Idle
  /\ check[t][c] # "none" /\ review[t] # "approved"
  /\ Begin(s, [op |-> "toggle", task |-> t, check |-> c, state |-> v, row |-> FALSE])
  /\ UNCHANGED <<done, review, check, conf, bought, promised, outboxVars>>

\* Mutant: the review is reopened whatever its status is.
Reopened_Always(t) == "open"

\* The update of the review that follows a toggle leaves an approved one alone.
Reopened(t) == IF review[t] = "approved" THEN "approved" ELSE "open"

ToggleWrite(s) ==
  /\ call[s].op = "toggle"
  /\ LET t == call[s].task IN
       /\ ReviewFree(s, t)
       /\ check' = [check EXCEPT ![t][call[s].check] = call[s].state]
       /\ review' = [review EXCEPT ![t] = Reopened(t)]
  /\ End(s)
  /\ UNCHANGED <<done, conf, bought, promised, outboxVars>>

AllPass(t) == \A c \in Checks : check[t][c] \in {"none", "pass"}

\* approveQualityReview: as addQualityCheck, with the checks it then reads.
ApproveSelect(s, t) ==
  /\ call[s] = Idle
  /\ review[t] = "none"
  /\ Begin(s, [op |-> "insertApprove", task |-> t, row |-> FALSE])
  /\ UNCHANGED <<done, review, check, conf, bought, promised, outboxVars>>

ApproveInsert(s) ==
  /\ call[s].op = "insertApprove"
  /\ ReviewFree(s, call[s].task)
  /\ IF AllPass(call[s].task) /\ review[call[s].task] # "approved"
       THEN Begin(s, [call[s] EXCEPT !.op = "approve", !.row = TRUE])
       ELSE End(s)
  /\ UNCHANGED <<done, review, check, conf, bought, promised, outboxVars>>

ApproveRead(s, t) ==
  /\ call[s] = Idle
  /\ review[t] = "open" /\ AllPass(t)
  /\ Begin(s, [op |-> "approve", task |-> t, row |-> FALSE])
  /\ UNCHANGED <<done, review, check, conf, bought, promised, outboxVars>>

ApproveWrite(s) ==
  /\ call[s].op = "approve"
  /\ ReviewFree(s, call[s].task)
  /\ review' = [review EXCEPT ![call[s].task] = "approved"]
  /\ End(s)
  /\ UNCHANGED <<done, check, conf, bought, promised, outboxVars>>

-----------------------------------------------------------------------------
\* Ids are never used twice: a row's id that a session still knows is not new.
Unused(n) ==
  /\ conf[n] = NoConfirmation
  /\ \A s \in Sessions : call[s].op \in {"confirm", "commit"} => call[s].nonce # n

\* issueDoneConfirmation
IssueConfirmation(s, t) ==
  /\ call[s] = Idle
  /\ \E n \in Nonces :
       /\ Unused(n)
       /\ conf' = [conf EXCEPT ![n] = [NoConfirmation EXCEPT !.user = UserOf[s], !.task = t]]
       /\ bought' = [bought EXCEPT ![n] = 0]
  /\ UNCHANGED <<done, review, check, call, promised, outboxVars>>

\* Five minutes pass.
Expire(n) ==
  /\ conf[n].user # NoUser /\ ~conf[n].expired
  /\ conf' = [conf EXCEPT ![n].expired = TRUE]
  /\ UNCHANGED <<done, review, check, call, bought, promised, outboxVars>>

\* The confirmation row and the task row that a Done has updated and not committed.
Locks(s) == IF call[s].op = "commit" THEN {call[s].nonce, call[s].task} ELSE {}
Free(s, x) == \A r \in Sessions \ {s} : x \notin Locks(r)

\* cleanupDoneConfirmations: the delete waits for rows that a Done has updated.
Cleanup ==
  LET gone == {n \in Nonces : conf[n].consumed \/ conf[n].expired} IN
  /\ gone # {}
  /\ \A n \in gone, s \in Sessions : n \notin Locks(s)
  /\ conf' = [n \in Nonces |-> IF n \in gone THEN NoConfirmation ELSE conf[n]]
  /\ UNCHANGED <<done, review, check, call, bought, promised, outboxVars>>

\* markTaskDone (card = FALSE, the board) and markTaskDoneAndEnqueueIssueClose
\* (the card): the transaction begins, which fixes its now(), and the review it
\* reads is approved.  The nonce is whatever the caller presents.
DoneRead(s, t, n, card) ==
  /\ call[s] = Idle
  /\ review[t] = "approved"
  /\ Begin(s, [op |-> "confirm", task |-> t, nonce |-> n,
               inTime |-> ~conf[n].expired, card |-> card])
  /\ UNCHANGED <<done, review, check, conf, bought, promised, outboxVars>>

\* Mutant: a confirmation that was spent is taken again.
Spendable_Reusable(s) ==
  LET n == call[s].nonce IN
  conf[n].user = UserOf[s] /\ conf[n].task = call[s].task /\ call[s].inTime

\* The where clause of the update that consumes the confirmation.
Spendable(s) ==
  LET n == call[s].nonce IN
  /\ conf[n].user = UserOf[s] /\ conf[n].task = call[s].task
  /\ ~conf[n].consumed /\ call[s].inTime

\* Confirmation and task are updated; both rows stay locked until the commit.
DoneWrite(s) ==
  /\ call[s].op = "confirm"
  /\ Free(s, call[s].nonce) /\ Free(s, call[s].task)
  /\ IF Spendable(s) THEN Begin(s, [call[s] EXCEPT !.op = "commit"]) ELSE End(s)
  /\ UNCHANGED <<done, review, check, conf, bought, promised, outboxVars>>

\* What the commit of a Done makes visible.
DoneRows(s) ==
  /\ conf' = [conf EXCEPT ![call[s].nonce].consumed = TRUE]
  /\ bought' = [bought EXCEPT ![call[s].nonce] = @ + 1]
  /\ done' = done \union {call[s].task}
  /\ promised' = IF call[s].card /\ call[s].task \in Linked
                   THEN promised \union {call[s].task} ELSE promised

\* The close intent is recorded and the transaction commits.
DoneCommit(s) ==
  /\ call[s].op = "commit"
  /\ DoneRows(s)
  /\ entry' = IF call[s].card /\ call[s].task \in Linked
                THEN [entry EXCEPT ![call[s].task] = Enqueued(call[s].task)] ELSE entry
  /\ End(s)
  /\ UNCHANGED <<review, check, batch, answer>>

\* Mutant: the failed enqueue returns an error, and the transaction commits.
EnqueueFails_Returns(s) ==
  /\ call[s].op = "commit" /\ call[s].card /\ call[s].task \in Linked
  /\ DoneRows(s)
  /\ End(s)
  /\ UNCHANGED <<review, check, outboxVars>>

\* enqueueIssueCloseForTaskTx throws: everything is rolled back.
EnqueueFails(s) ==
  /\ call[s].op = "commit" /\ call[s].card /\ call[s].task \in Linked
  /\ End(s)
  /\ UNCHANGED <<done, review, check, conf, bought, promised, outboxVars>>

\* The process or its connection dies and the transaction is rolled back.
Abort(s) ==
  /\ call[s] # Idle
  /\ End(s)
  /\ UNCHANGED <<done, review, check, conf, bought, promised, outboxVars>>

\* moveTask: any column but Done, from any column.
Move(t) ==
  /\ t \in done
  /\ \A s \in Sessions : t \notin Locks(s)
  /\ done' = done \ {t}
  /\ UNCHANGED <<review, check, conf, call, bought, promised, outboxVars>>

SessionNext(s) ==
  \/ AddInsert(s) \/ AddWrite(s) \/ ToggleWrite(s) \/ ApproveInsert(s) \/ ApproveWrite(s)
  \/ DoneWrite(s) \/ DoneCommit(s) \/ EnqueueFails(s) \/ Abort(s)
  \/ \E t \in Tasks :
       \/ EnsureReview(s, t) \/ ApproveSelect(s, t) \/ ApproveRead(s, t)
       \/ IssueConfirmation(s, t)
       \/ \E c \in Checks, v \in CheckStates :
            AddSelect(s, t, c, v) \/ AddRead(s, t, c, v) \/ ToggleRead(s, t, c, v)
       \/ \E n \in Nonces, card \in BOOLEAN : DoneRead(s, t, n, card)

Next ==
  \/ \E s \in Sessions : SessionNext(s)
  \/ \E t \in Tasks : Move(t)
  \/ \E n \in Nonces : Expire(n)
  \/ Cleanup
  \/ OutboxNext /\ UNCHANGED taskVars

Spec == Init /\ [][Next]_vars

-----------------------------------------------------------------------------
TypeOK ==
  /\ OutboxTypeOK
  /\ done \subseteq Tasks
  /\ review \in [Tasks -> {"none", "open", "approved"}]
  /\ check \in [Tasks -> [Checks -> CheckStates \union {"none"}]]
  /\ conf \in [Nonces -> Confirmations]
  /\ call \in [Sessions -> Calls]
  /\ bought \in [Nonces -> Nat]
  /\ promised \subseteq Linked

(* A task in Done has an approved review: the gate of markTaskDone reads   *)
(* the review without a lock, and toggles that read it earlier may commit  *)
(* in between and afterwards, but none of them takes an approval back.     *)
DoneHasApproval == \A t \in done : review[t] = "approved"

(* One confirmation pays for one Done, however many sessions present it,   *)
(* whatever is rolled back, and whenever the cleanup runs.                 *)
ConfirmationSpentOnce == \A n \in Nonces : bought[n] <= 1

(* Every Done from the card of a task with a linked issue has left an      *)
(* entry in the outbox: "commit together or not at all".                   *)
DoneLeavesIntent == \A t \in promised : entry[t].state # "none"

(* "All quality checks must pass before approval", and "Approved quality   *)
(* reviews cannot be changed": an approved review has only passed checks.  *)
ApprovedMeansAllPass ==
  \A t \in Tasks, c \in Checks : review[t] = "approved" => check[t][c] \in {"none", "pass"}
=============================================================================
