---------------------------- MODULE CommandSpine ----------------------------
(***************************************************************************)
(* The Dev Board command spine: how one command handler of                 *)
(* packages/dev-board runs inside one database transaction (withTenant),   *)
(* reserves the receipt of its idempotency key, works on one versioned row *)
(* under its row lock, appends to the two ledgers of the workspace under   *)
(* their advisory locks, finalizes the receipt and commits.                *)
(*                                                                         *)
(* A transaction is one call of a handler, with its envelope.  Its steps   *)
(* are the statements it sends; between two statements any other           *)
(* transaction may run.  What a transaction has written and not committed  *)
(* is in fresh, outcome, effect, planSeq and actSeq; the committed tables  *)
(* are receipt, version, planning and activity.                            *)
(*                                                                         *)
(* The handlers differ in what they write beside the receipt, which Effects*)
(* says, and in whether they test the version of their row.  Left out is   *)
(* importLegacyDevTicket, whose first import and re-imports write          *)
(* different rows under one outcome code.                                  *)
(*                                                                         *)
(* A definition named D_Something next to D is D with a plausible mistake  *)
(* in it; no specification uses it.  PROJECT.json pairs it with the        *)
(* property that must notice the mistake.                                  *)
(***************************************************************************)
EXTENDS Naturals, FiniteSets, FiniteSetsExt

CONSTANTS Tx,         \* the calls: one transaction each
          NoTx,       \* the holder of a free lock
          Key,        \* idempotency keys (scoped by workspace and command name)
          Hash,       \* request hashes
          CommandId,  \* command ids; a retry may carry a new one
          Record,     \* rows with a version: proposals, Dev Tickets
          Envelope    \* the envelopes clients send

\* A command id is minted for one command, hence one idempotency key; the
\* request hash covers the request, so equal hashes do the same work.  wellFormed
\* says whether the actor and the input parse.
Work == {"draft", "submit", "decide", "accept", "link", "unlink"}
ASSUME SpineAssumption ==
  /\ NoTx \notin Tx
  /\ Envelope \subseteq [op : {"command", "reserve"}, key : Key, hash : Hash,
                         commandId : CommandId, target : Record, expected : Nat \ {0},
                         wellFormed : BOOLEAN, work : Work]
  /\ \A e, f \in Envelope : e.commandId = f.commandId => e.key = f.key
  /\ \A e, f \in Envelope : e.hash = f.hash => e.work = f.work

VARIABLES
  receipt,      \* [Key -> receipt row], committed
  version,      \* [Record -> Nat], committed; 0 where there is no row
  planning,     \* committed rows of dev_board_planning_decision_entry
  activity,     \* committed rows of dev_board_activity_event
  receiptLock,  \* [Key -> Tx or NoTx]: who inserted or updated the receipt row
  recordLock,   \* [Record -> Tx or NoTx]: FOR UPDATE row locks
  ledgerLock,   \* advisory transaction locks of the two ledgers
  pc,           \* the next statement of each transaction
  env,          \* its envelope
  fresh,        \* whether it inserted the receipt itself
  outcome,      \* what it is about to finalize the receipt with
  effect,       \* the ledger rows that outcome comes with
  planSeq,      \* sequence of its uncommitted planning entry, 0 when none
  actSeq,       \* sequence of its first uncommitted activity event, 0 when none
  reply         \* what its caller was told

locks == <<receiptLock, recordLock, ledgerLock>>
tables == <<receipt, version, planning, activity>>
local == <<fresh, outcome, effect, planSeq, actSeq>>
vars == <<tables, locks, pc, env, local, reply>>

\* The ledger rows a command may write: a planning decision, an activity event
\* about its target, and one about a Dev Ticket it created.
Entry == {"decision", "change", "creation"}

Absent == [state |-> "absent"]
ReceiptRow == [state : {"reserved", "accepted", "rejected"},
               commandId : CommandId, hash : Hash, effect : SUBSET Entry]
PlanningRow == [seq : Nat \ {0}, commandId : CommandId, key : Key]
\* A created ticket has a random id that no other row names, and version 1.
ActivityRow == [seq : Nat \ {0}, commandId : CommandId, key : Key,
                event : {"change"}, target : Record, version : Nat \ {0}]
               \cup [seq : Nat \ {0}, commandId : CommandId, key : Key, event : {"creation"}]
Ledger == {"planning", "activity"}
Active == {"insert", "select", "record", "planning", "activity", "finalize", "commit"}
Silent == [kind |-> "none"]
Reply == {Silent, [kind |-> "error"], [kind |-> "lost"], [kind |-> "conflict"]}
         \cup [kind : {"reserved", "accepted", "rejected"}, commandId : CommandId]

TypeOK ==
  /\ receipt \in [Key -> {Absent} \cup ReceiptRow]
  /\ version \in [Record -> Nat]
  /\ planning \subseteq PlanningRow
  /\ activity \subseteq ActivityRow
  /\ receiptLock \in [Key -> Tx \cup {NoTx}]
  /\ recordLock \in [Record -> Tx \cup {NoTx}]
  /\ ledgerLock \in [Ledger -> Tx \cup {NoTx}]
  /\ pc \in [Tx -> {"idle", "done"} \cup Active]
  /\ env \in [Tx -> Envelope]
  /\ fresh \in [Tx -> BOOLEAN]
  /\ outcome \in [Tx -> {"none", "accepted", "rejected"}]
  /\ effect \in [Tx -> SUBSET Entry]
  /\ planSeq \in [Tx -> Nat]
  /\ actSeq \in [Tx -> Nat]
  /\ reply \in [Tx -> Reply]

Init ==
  /\ receipt = [k \in Key |-> Absent]
  /\ version \in [Record -> {0, 1}]
  /\ planning = {}
  /\ activity = {}
  /\ receiptLock = [k \in Key |-> NoTx]
  /\ recordLock = [r \in Record |-> NoTx]
  /\ ledgerLock = [l \in Ledger |-> NoTx]
  /\ pc = [t \in Tx |-> "idle"]
  /\ env \in [Tx -> Envelope]
  /\ fresh = [t \in Tx |-> FALSE]
  /\ outcome = [t \in Tx |-> "none"]
  /\ effect = [t \in Tx |-> {}]
  /\ planSeq = [t \in Tx |-> 0]
  /\ actSeq = [t \in Tx |-> 0]
  /\ reply = [t \in Tx |-> Silent]

(***************************************************************************)
(* Helpers                                                                 *)
(***************************************************************************)

\* coalesce(max(sequence), 0) + 1 over the committed rows of a ledger.
NextSeq(ledger) == Max({0} \cup {row.seq : row \in ledger}) + 1

\* reserve() after the receipt turned out to be 'reserved': an envelope whose
\* actor or input does not parse is finalized as rejected at once; a standalone
\* reservation commits; any other command goes on to its row.
Admit(t) ==
  /\ pc' = [pc EXCEPT ![t] = IF env[t].op = "reserve" THEN "commit"
                             ELSE IF env[t].wellFormed THEN "record" ELSE "finalize"]
  /\ outcome' = [outcome EXCEPT ![t] =
                   IF env[t].op = "command" /\ ~env[t].wellFormed THEN "rejected" ELSE @]

\* The receipt row that command_id names is visible to t: its own insert, or
\* a committed row with that command id.
SeesOwnReceipt(t) ==
  \/ fresh[t]
  \/ /\ receipt[env[t].key] # Absent
     /\ receipt[env[t].key].commandId = env[t].commandId

\* The state the receipt is committed in: 'reserved' by the column's default
\* when the command did not finalize it.
CommittedState(t) == IF outcome[t] = "none" THEN "reserved" ELSE outcome[t]

\* COMMIT and ROLLBACK release every lock of t.
Released(lock, t) == [x \in DOMAIN lock |-> IF lock[x] = t THEN NoTx ELSE lock[x]]
ReleaseLocks_SessionAdvisory(t) ==
  /\ receiptLock' = Released(receiptLock, t)
  /\ recordLock' = Released(recordLock, t)
  /\ UNCHANGED ledgerLock
ReleaseLocks(t) ==
  /\ receiptLock' = Released(receiptLock, t)
  /\ recordLock' = Released(recordLock, t)
  /\ ledgerLock' = Released(ledgerLock, t)

\* withTenant: a throw rolls the transaction back, and nothing it wrote stays.
\* Its caller gets an error, or nothing, and knows no more in either case.
Rollback_LedgerOutside(t) ==
  /\ pc' = [pc EXCEPT ![t] = "done"]
  /\ reply' = [reply EXCEPT ![t] = [kind |-> "error"]]
  /\ planning' = IF planSeq[t] = 0 THEN planning
                 ELSE planning \cup {[seq |-> planSeq[t], commandId |-> env[t].commandId,
                                      key |-> env[t].key]}
  /\ ReleaseLocks(t)
  /\ UNCHANGED <<receipt, version, activity, env, local>>
Rollback(t) ==
  /\ pc' = [pc EXCEPT ![t] = "done"]
  /\ reply' = [reply EXCEPT ![t] = [kind |-> "error"]]
  /\ ReleaseLocks(t)
  /\ UNCHANGED <<tables, env, local>>

-----------------------------------------------------------------------------
\* A client sends its envelope.
Begin(t) ==
  /\ pc[t] = "idle"
  /\ pc' = [pc EXCEPT ![t] = "insert"]
  /\ UNCHANGED <<tables, locks, env, local, reply>>

\* insert ... on conflict do nothing: waits while another transaction has an
\* uncommitted row for the key, inserts when there is none, else falls through.
InsertReceipt(t) ==
  LET k == env[t].key IN
  /\ pc[t] = "insert"
  /\ \/ /\ receipt[k] = Absent
        /\ receiptLock[k] = NoTx
        /\ receiptLock' = [receiptLock EXCEPT ![k] = t]
        /\ fresh' = [fresh EXCEPT ![t] = TRUE]
        /\ Admit(t)
     \/ /\ receipt[k] # Absent
        /\ pc' = [pc EXCEPT ![t] = "select"]
        /\ UNCHANGED <<receiptLock, fresh, outcome>>
  /\ UNCHANGED <<tables, recordLock, ledgerLock, env, effect, planSeq, actSeq, reply>>

\* The answer taken from an existing receipt; the transaction wrote nothing.
Answer(t, answer) ==
  /\ pc' = [pc EXCEPT ![t] = "done"]
  /\ reply' = [reply EXCEPT ![t] = answer]
  /\ UNCHANGED <<tables, locks, env, local>>

\* select of the existing receipt: another hash is a conflict, a final state is
\* replayed, a committed reservation is taken over by this command.
SelectReceipt(t) ==
  LET row == receipt[env[t].key] IN
  /\ pc[t] = "select"
  /\ \/ /\ row.hash # env[t].hash
        /\ Answer(t, [kind |-> "conflict"])
     \/ /\ row.hash = env[t].hash
        /\ row.state # "reserved" \/ env[t].op = "reserve"
        /\ Answer(t, [kind |-> row.state, commandId |-> row.commandId])
     \/ /\ row.hash = env[t].hash
        /\ row.state = "reserved"
        /\ env[t].op = "command"
        /\ Admit(t)
        /\ UNCHANGED <<tables, locks, env, fresh, effect, planSeq, actSeq, reply>>

\* What an accepted command writes to the ledgers.  draftProposal inserts its row
\* and records a decision; submitProposal and reorderTodo leave only an event;
\* acceptProposal tells of the proposal and of the new ticket; addDependency
\* writes nothing when the edge is already active.
Effects(work) ==
  CASE work = "draft"  -> {{"decision"}}
    [] work = "submit" -> {{"change"}}
    [] work = "accept" -> {{"decision", "change", "creation"}}
    [] work = "link"   -> {{"decision", "change"}, {}}
    [] OTHER           -> {{"decision", "change"}}

\* The expected-version test.  A new row has no version to test, removeDependency
\* (and reconcileHistoricalCompletion) tests none of the row it moves, and
\* addDependency finds an active edge before it compares.
MayApply(t, written) ==
  \/ written = {}
  \/ env[t].work \in {"draft", "unlink"}
  \/ version[env[t].target] = env[t].expected

\* The statement after the row: the planning decision comes before the events.
FirstAppend(written) ==
  IF "decision" \in written THEN "planning" ELSE IF "change" \in written THEN "activity" ELSE "finalize"
Decide(t, verdict, written) ==
  /\ outcome' = [outcome EXCEPT ![t] = verdict]
  /\ effect' = [effect EXCEPT ![t] = written]
  /\ pc' = [pc EXCEPT ![t] = FirstAppend(written)]

\* A command that changes a row that is not there, or drafts one that is, is
\* refused and locks nothing.  Any other takes the row lock (an insert, the index
\* entry), is refused by a guard of its own or by the version, or goes on; the
\* compare-and-set update that follows cannot miss under the lock.
LockRecord_NotForUpdate(t) ==
  LET work == env[t].work
      fits == (version[env[t].target] = 0) <=> (work = "draft") IN
  /\ pc[t] = "record"
  /\ \/ Decide(t, "rejected", {})
     \/ /\ fits
        /\ \E written \in Effects(work) : MayApply(t, written) /\ Decide(t, "accepted", written)
  /\ UNCHANGED <<tables, locks, env, fresh, planSeq, actSeq, reply>>
LockRecord(t) ==
  LET r == env[t].target
      work == env[t].work
      fits == (version[r] = 0) <=> (work = "draft") IN
  /\ pc[t] = "record"
  /\ \/ /\ ~fits
        /\ Decide(t, "rejected", {})
        /\ UNCHANGED recordLock
     \/ /\ fits
        /\ recordLock[r] = NoTx
        /\ recordLock' = [recordLock EXCEPT ![r] = t]
        /\ \/ Decide(t, "rejected", {})
           \/ \E written \in Effects(work) : MayApply(t, written) /\ Decide(t, "accepted", written)
  /\ UNCHANGED <<tables, receiptLock, ledgerLock, env, fresh, planSeq, actSeq, reply>>

\* appendPlanningDecisionEntry: advisory lock, then insert of max + 1.  The
\* foreign key on command_id makes the append throw when the receipt that this
\* command took over carries another command id.
AppendPlanning(t) ==
  /\ pc[t] = "planning"
  /\ ledgerLock["planning"] = NoTx
  /\ IF SeesOwnReceipt(t)
     THEN /\ ledgerLock' = [ledgerLock EXCEPT !["planning"] = t]
          /\ planSeq' = [planSeq EXCEPT ![t] = NextSeq(planning)]
          /\ pc' = [pc EXCEPT ![t] = FirstAppend(effect[t] \ {"decision"})]
          /\ UNCHANGED <<tables, receiptLock, recordLock, env, fresh, outcome, effect, actSeq, reply>>
     ELSE Rollback(t)

\* appendActivityEvent, in the same way on the other ledger.  The second event of
\* acceptProposal takes the next number under the lock the first one took.
AppendActivity_NoLock(t) ==
  /\ pc[t] = "activity"
  /\ IF SeesOwnReceipt(t)
     THEN /\ actSeq' = [actSeq EXCEPT ![t] = NextSeq(activity)]
          /\ pc' = [pc EXCEPT ![t] = "finalize"]
          /\ UNCHANGED <<tables, locks, env, fresh, outcome, effect, planSeq, reply>>
     ELSE Rollback(t)
AppendActivity(t) ==
  /\ pc[t] = "activity"
  /\ ledgerLock["activity"] = NoTx
  /\ IF SeesOwnReceipt(t)
     THEN /\ ledgerLock' = [ledgerLock EXCEPT !["activity"] = t]
          /\ actSeq' = [actSeq EXCEPT ![t] = NextSeq(activity)]
          /\ pc' = [pc EXCEPT ![t] = "finalize"]
          /\ UNCHANGED <<tables, receiptLock, recordLock, env, fresh, outcome, effect, planSeq, reply>>
     ELSE Rollback(t)

\* finalizeTransaction: update ... where command_id and state = 'reserved'
\* returning.  It waits for another writer of the row; no row is a throw.
FinalizeReceipt_AnyState(t) ==
  LET k == env[t].key IN
  /\ pc[t] = "finalize"
  /\ receiptLock[k] \in {NoTx, t}
  /\ IF SeesOwnReceipt(t)
     THEN /\ receiptLock' = [receiptLock EXCEPT ![k] = t]
          /\ pc' = [pc EXCEPT ![t] = "commit"]
          /\ UNCHANGED <<tables, recordLock, ledgerLock, env, local, reply>>
     ELSE Rollback(t)
FinalizeReceipt(t) ==
  LET k == env[t].key IN
  /\ pc[t] = "finalize"
  /\ receiptLock[k] \in {NoTx, t}
  /\ IF SeesOwnReceipt(t) /\ (fresh[t] \/ receipt[k].state = "reserved")
     THEN /\ receiptLock' = [receiptLock EXCEPT ![k] = t]
          /\ pc' = [pc EXCEPT ![t] = "commit"]
          /\ UNCHANGED <<tables, recordLock, ledgerLock, env, local, reply>>
     ELSE Rollback(t)

\* The rows that COMMIT publishes.
NewReceipt(t) == [state |-> CommittedState(t), commandId |-> env[t].commandId,
                  hash |-> env[t].hash, effect |-> effect[t]]
NewPlanning(t) == [seq |-> planSeq[t], commandId |-> env[t].commandId, key |-> env[t].key]
NewChange(t) == [seq |-> actSeq[t], commandId |-> env[t].commandId, key |-> env[t].key,
                 event |-> "change", target |-> env[t].target,
                 version |-> version[env[t].target] + 1]
NewCreation(t) == [seq |-> actSeq[t] + 1, commandId |-> env[t].commandId, key |-> env[t].key,
                   event |-> "creation"]

\* COMMIT publishes the receipt, the row and the ledger rows together.  The
\* caller learns the outcome, or never hears of it (the connection died).
Commit(t) ==
  /\ pc[t] = "commit"
  /\ receipt' = IF fresh[t] \/ outcome[t] # "none"
                THEN [receipt EXCEPT ![env[t].key] = NewReceipt(t)] ELSE receipt
  /\ version' = IF effect[t] = {} THEN version ELSE [version EXCEPT ![env[t].target] = @ + 1]
  /\ planning' = IF "decision" \in effect[t] THEN planning \cup {NewPlanning(t)} ELSE planning
  /\ activity' = activity \cup (IF "change" \in effect[t] THEN {NewChange(t)} ELSE {})
                          \cup (IF "creation" \in effect[t] THEN {NewCreation(t)} ELSE {})
  /\ pc' = [pc EXCEPT ![t] = "done"]
  /\ \/ reply' = [reply EXCEPT ![t] = [kind |-> CommittedState(t), commandId |-> env[t].commandId]]
     \/ reply' = [reply EXCEPT ![t] = [kind |-> "lost"]]
  /\ ReleaseLocks(t)
  /\ UNCHANGED <<env, local>>

\* The process or the connection dies, or a statement fails, before COMMIT.
Abort(t) ==
  /\ pc[t] \in Active
  /\ Rollback(t)

Step(t) ==
  \/ InsertReceipt(t) \/ SelectReceipt(t) \/ LockRecord(t)
  \/ AppendPlanning(t) \/ AppendActivity(t) \/ FinalizeReceipt(t) \/ Commit(t)

\* Every call has ended; the model's supply of calls is finite.
AllServed == (\A t \in Tx : pc[t] = "done") /\ UNCHANGED vars

Next ==
  \/ \E t \in Tx : Begin(t) \/ Step(t) \/ Abort(t)
  \/ AllServed

Spec == Init /\ [][Next]_vars

\* Postgres runs every statement whose locks are free; Begin is up to a client.
Fairness == \A t \in Tx : WF_vars(Step(t))
FairSpec == Spec /\ Fairness

-----------------------------------------------------------------------------
(***************************************************************************)
(* Properties                                                              *)
(***************************************************************************)

\* One effect per idempotency key: the ledgers hold, under a key, exactly the rows
\* that its receipt was accepted with and its request calls for, each once,
\* and none while it is reserved or rejected, whatever was retried, lost,
\* reserved ahead or rolled back.
EffectOf(k) == IF receipt[k].state = "accepted" THEN receipt[k].effect ELSE {}
OneEffectPerKey ==
  \A k \in Key :
    /\ receipt[k].state = "accepted" =>
         \E e \in Envelope : e.hash = receipt[k].hash /\ receipt[k].effect \in Effects(e.work)
    /\ "decision" \in EffectOf(k) <=> \E row \in planning : row.key = k
    /\ EffectOf(k) \ {"decision"} = {row.event : row \in {a \in activity : a.key = k}}
    /\ \A a, b \in activity : a.key = k /\ b.key = k /\ a.event = b.event => a = b
    /\ \A a, b \in planning : a.key = k /\ b.key = k => a = b

\* The sequences of each ledger number its rows 1, 2, 3, ... without a gap or a
\* repeat: a rolled back append leaves no hole, two appends never share one.
NumberedWithoutGap(ledger) ==
  /\ \A row \in ledger : \A n \in 1..row.seq : \E other \in ledger : other.seq = n
  /\ \A a, b \in ledger : a.seq = b.seq => a = b
LedgersGapFree == NumberedWithoutGap(planning) /\ NumberedWithoutGap(activity)

\* A command that names a version takes effect only on that version (removing a
\* dependency names none), and the activity ledger tells the versions of a row in
\* the order they were made.
Changes == {row \in activity : row.event = "change"}
EffectsFollowVersions ==
  /\ \A row \in Changes : \E e \in Envelope :
       /\ e.commandId = row.commandId /\ e.key = row.key /\ e.target = row.target
       /\ e.work = "unlink" \/ row.version = e.expected + 1
  /\ \A a, b \in Changes : a.target = b.target /\ a.seq < b.seq => a.version < b.version
  /\ \A row \in Changes : row.version <= version[row.target]

\* Two callers are never told different things about a key: what a caller heard
\* is what the committed receipt says, now and after every retry.
AnswersAgree ==
  \A t \in Tx : reply[t].kind \in {"accepted", "rejected"} =>
    /\ receipt[env[t].key].state = reply[t].kind
    /\ receipt[env[t].key].commandId = reply[t].commandId

\* What the open transactions hold while they wait: the part of the inductive
\* invariant that ties uncommitted work to locks.  A transaction that inserted
\* a receipt, or is about to commit one, holds its row; one that will change its
\* target holds it, at the version it expected; a pending ledger row still has
\* the next number of its ledger, under the ledger's lock.
Holds(t) ==
  LET k == env[t].key
      row == receipt[k] IN
  /\ fresh[t] => receiptLock[k] = t /\ row = Absent
  /\ ~fresh[t] /\ pc[t] \in {"record", "planning", "activity", "finalize", "commit"}
       => row # Absent /\ row.hash = env[t].hash
  /\ pc[t] = "select" => row # Absent
  /\ pc[t] = "commit" =>
       /\ receiptLock[k] = t
       /\ fresh[t] \/ (row.state = "reserved" /\ row.commandId = env[t].commandId)
       /\ fresh[t] \/ outcome[t] # "none"
  /\ effect[t] # {} => recordLock[env[t].target] = t /\ MayApply(t, effect[t])
  /\ planSeq[t] # 0 => ledgerLock["planning"] = t /\ planSeq[t] = NextSeq(planning)
  /\ actSeq[t] # 0 => ledgerLock["activity"] = t /\ actSeq[t] = NextSeq(activity)

\* Where each statement of a transaction stands in its work.
Progress(t) ==
  /\ pc[t] \in {"idle", "insert", "select"} => ~fresh[t]
  /\ pc[t] \in {"idle", "insert", "select", "record"} => outcome[t] = "none"
  /\ pc[t] \in {"planning", "activity"} => outcome[t] = "accepted"
  /\ pc[t] = "finalize" => outcome[t] # "none"
  /\ IF outcome[t] = "accepted" THEN effect[t] \in Effects(env[t].work) ELSE effect[t] = {}
  /\ pc[t] = "planning" => "decision" \in effect[t]
  /\ pc[t] = "activity" => "change" \in effect[t]
  /\ planSeq[t] # 0 <=> "decision" \in effect[t] /\ pc[t] # "planning"
  /\ actSeq[t] # 0 <=> "change" \in effect[t] /\ pc[t] \notin {"planning", "activity"}

OpenWorkIsLocked == \A t \in Tx : pc[t] # "done" => Holds(t) /\ Progress(t)

\* A receipt only moves from absent to reserved to one final state, and keeps
\* the command id and the hash it was created with.
ReceiptAdvances(old, new) ==
  \/ new = old
  \/ old = Absent
  \/ /\ old.state = "reserved"
     /\ new.state \in {"accepted", "rejected"}
     /\ new.commandId = old.commandId
     /\ new.hash = old.hash
ReceiptsOnlyAdvance == [][\A k \in Key : ReceiptAdvances(receipt[k], receipt'[k])]_vars

\* Every call that began ends: no order of the receipt, row and ledger locks
\* leaves transactions waiting for each other, and an aborted one blocks none.
EveryCallEnds == \A t \in Tx : pc[t] # "idle" ~> pc[t] = "done"
=============================================================================
