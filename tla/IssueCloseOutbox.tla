-------------------------- MODULE IssueCloseOutbox --------------------------
(***************************************************************************)
(* The outbox that closes GitHub issues of finished tasks: the table       *)
(* issue_close_outbox with enqueueIssueCloseForTaskTx, and the runs of     *)
(* processIssueCloseOutbox, which claim a batch in one transaction, call   *)
(* GitHub outside of any, and save each answer in a transaction of its     *)
(* own.  Several runs may overlap; nothing in the code prevents it.        *)
(*                                                                         *)
(* The times of a row are two flags: due (next_attempt_at is past) and     *)
(* overdue (claimed_at is older than the processing timeout).  A run       *)
(* claims once, so the worker's name stands for its claim_token.           *)
(***************************************************************************)
EXTENDS Naturals, FiniteSets

CONSTANTS
  Tasks,         \* tasks of the workspace
  Linked,        \* those whose provenance names a GitHub issue
  Workers,       \* overlapping runs of the outbox script
  NoTask,
  NoWorker,
  MaxAttempts,   \* maxAttempts
  BatchLimit     \* limit

ASSUME OutboxAssumption ==
  /\ Linked \subseteq Tasks
  /\ NoTask \notin Tasks
  /\ NoWorker \notin Workers
  /\ {MaxAttempts, BatchLimit} \subseteq Nat \ {0}

VARIABLES
  entry,    \* issue_close_outbox: the row of each task's issue
  batch,    \* batch[w][t]: the attempts of the claimed entry of t, as w read them
  answer    \* answer[w]: the task w has called GitHub for, and what it heard

outboxVars == <<entry, batch, answer>>

-----------------------------------------------------------------------------
States == {"none", "pending", "processing", "failed", "closed", "dead"}
Settled == {"closed", "dead"}

Entries == [state : States, attempts : 0..MaxAttempts,
            token : Workers \union {NoWorker}, due : BOOLEAN, overdue : BOOLEAN]

Absent == [state |-> "none", attempts |-> 0, token |-> NoWorker,
           due |-> FALSE, overdue |-> FALSE]

NotClaimed == MaxAttempts            \* no claimed entry has that many attempts
NoBatch == [t \in Tasks |-> NotClaimed]
NoAnswer == [task |-> NoTask, closed |-> FALSE]
Answers == [task : Tasks, closed : BOOLEAN] \union {NoAnswer}

OutboxInit ==
  /\ entry = [t \in Tasks |-> Absent]
  /\ batch = [w \in Workers |-> NoBatch]
  /\ answer = [w \in Workers |-> NoAnswer]

\* enqueueIssueCloseForTaskTx: one row per task and issue for ever; the
\* conflict only touches updated_at, so a settled row is not armed again.
Enqueued(t) ==
  IF entry[t].state = "none" THEN [Absent EXCEPT !.state = "pending", !.due = TRUE]
                             ELSE entry[t]

-----------------------------------------------------------------------------
\* The first statement of the claim: entries out of attempts are dead.
Exhausted(t) ==
  entry[t].state \in {"pending", "failed", "processing"} /\ entry[t].attempts >= MaxAttempts

\* The candidates of the claim.
Claimable(t) ==
  /\ entry[t].attempts < MaxAttempts
  /\ \/ entry[t].state \in {"pending", "failed"} /\ entry[t].due
     \/ entry[t].state = "processing" /\ entry[t].overdue

\* A run of the script starts and claims; rows locked by others are skipped.
Claim(w) ==
  /\ batch[w] = NoBatch /\ answer[w] = NoAnswer
  /\ \E S \in SUBSET {t \in Tasks : Claimable(t)} :
       /\ Cardinality(S) <= BatchLimit
       /\ entry' = [t \in Tasks |->
            IF t \in S
              THEN [entry[t] EXCEPT !.state = "processing", !.token = w, !.overdue = FALSE]
            ELSE IF Exhausted(t)
              THEN [entry[t] EXCEPT !.state = "dead", !.token = NoWorker, !.overdue = FALSE]
            ELSE entry[t]]
       /\ batch' = [batch EXCEPT ![w] = [t \in Tasks |-> IF t \in S THEN entry[t].attempts
                                                                    ELSE NotClaimed]]
  /\ UNCHANGED answer

\* closeIssue of the next entry: GitHub closes it, refuses, or is not heard.
CloseIssue(w) ==
  /\ answer[w] = NoAnswer
  /\ \E t \in Tasks, closed \in BOOLEAN :
       /\ batch[w][t] # NotClaimed
       /\ answer' = [answer EXCEPT ![w] = [task |-> t, closed |-> closed]]
  /\ UNCHANGED <<entry, batch>>

\* Mutant: the save does not compare the claim token.
Fenced_Unfenced(w, t) == TRUE

\* The where clause of the save.
Fenced(w, t) == entry[t].token = w

\* What the save writes, from the attempts read at the claim.
Saved(w, t) ==
  [entry[t] EXCEPT !.state = IF answer[w].closed THEN "closed"
                             ELSE IF batch[w][t] + 1 >= MaxAttempts THEN "dead" ELSE "failed",
                   !.attempts = @ + 1, !.token = NoWorker,
                   !.due = answer[w].closed, !.overdue = FALSE]

SavedRow(w, t) == IF Fenced(w, t) THEN [entry EXCEPT ![t] = Saved(w, t)] ELSE entry

\* The answer is saved, or dropped because another run claimed the entry since.
Save(w) ==
  /\ answer[w] # NoAnswer
  /\ entry' = SavedRow(w, answer[w].task)
  /\ batch' = [batch EXCEPT ![w][answer[w].task] = NotClaimed]
  /\ answer' = [answer EXCEPT ![w] = NoAnswer]

\* The run ends early: its process dies, or the save throws before or after
\* its commit and the rest of the batch stays in processing.
RunDies(w) ==
  /\ batch[w] # NoBatch
  /\ \E committed \in BOOLEAN :
       /\ committed => answer[w] # NoAnswer
       /\ entry' = IF committed THEN SavedRow(w, answer[w].task) ELSE entry
  /\ batch' = [batch EXCEPT ![w] = NoBatch]
  /\ answer' = [answer EXCEPT ![w] = NoAnswer]

\* Time passes: a backoff of five minutes per attempt, or the 15 minutes after
\* which a claim counts as abandoned.
BackoffEnds(t) ==
  /\ entry[t].state = "failed" /\ ~entry[t].due
  /\ entry' = [entry EXCEPT ![t].due = TRUE]
  /\ UNCHANGED <<batch, answer>>

ClaimTimesOut(t) ==
  /\ entry[t].state = "processing" /\ ~entry[t].overdue
  /\ entry' = [entry EXCEPT ![t].overdue = TRUE]
  /\ UNCHANGED <<batch, answer>>

OutboxNext ==
  \/ \E w \in Workers : Claim(w) \/ CloseIssue(w) \/ Save(w) \/ RunDies(w)
  \/ \E t \in Tasks : BackoffEnds(t) \/ ClaimTimesOut(t)

-----------------------------------------------------------------------------
OutboxTypeOK ==
  /\ entry \in [Tasks -> Entries]
  /\ batch \in [Workers -> [Tasks -> 0..MaxAttempts]]
  /\ answer \in [Workers -> Answers]

(* An entry that was closed or given up stays so: a run that lost its      *)
(* claim to the timeout and comes back with an old answer overwrites       *)
(* nothing, and a second Done of the task does not arm the entry again.    *)
SettledForGood ==
  [][\A t \in Tasks : entry[t].state \in Settled => entry'[t] = entry[t]]_outboxVars

(* An entry is given up only after every attempt it has was answered and   *)
(* saved; attempts of runs that died or lost their claim are not counted.  *)
DeadMeansExhausted ==
  \A t \in Tasks : entry[t].state = "dead" => entry[t].attempts = MaxAttempts
=============================================================================
