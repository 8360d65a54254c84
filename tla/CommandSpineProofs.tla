------------------------ MODULE CommandSpineProofs ------------------------
(***************************************************************************)
(* Proofs about CommandSpine, for any number of calls, keys and rows.      *)
(***************************************************************************)
EXTENDS CommandSpine, TLAPS

\* The receipt an active transaction commits is a well-formed row.
LEMMA CommittedStateType ==
  ASSUME TypeOK, NEW t \in Tx
  PROVE  CommittedState(t) \in {"reserved", "accepted", "rejected"}
  BY DEF CommittedState, TypeOK

\* An envelope's fields have the types the tables store.
LEMMA EnvelopeType ==
  ASSUME TypeOK, NEW t \in Tx
  PROVE  /\ env[t].key \in Key
         /\ env[t].hash \in Hash
         /\ env[t].commandId \in CommandId
         /\ env[t].target \in Record
         /\ env[t].expected \in Nat \ {0}
         /\ env[t].wellFormed \in BOOLEAN
         /\ env[t].op \in {"command", "reserve"}
         /\ env[t].work \in Work
  BY SpineAssumption DEF TypeOK

\* What commands write: an event about a new ticket comes after one about the
\* target, a draft leaves no event, and no effect is without a ledger row.
LEMMA EffectShape ==
  ASSUME NEW work \in Work, NEW written \in Effects(work)
  PROVE  /\ written \in SUBSET Entry
         /\ "creation" \in written => "change" \in written
         /\ "change" \in written => work # "draft"
         /\ written # {} => "decision" \in written \/ "change" \in written
  BY DEF Effects, Work, Entry

\* The next statement is one the transaction has work for.
LEMMA FirstAppendType ==
  ASSUME NEW written
  PROVE  /\ FirstAppend(written) \in {"planning", "activity", "finalize"}
         /\ FirstAppend(written) = "planning" <=> "decision" \in written
         /\ FirstAppend(written) = "activity" <=> "decision" \notin written /\ "change" \in written
  BY DEF FirstAppend

\* Releasing locks leaves a lock table a lock table.
LEMMA ReleasedType ==
  ASSUME NEW S, NEW lock \in [S -> Tx \cup {NoTx}], NEW t \in Tx
  PROVE  Released(lock, t) \in [S -> Tx \cup {NoTx}]
  BY DEF Released

\* Ending a transaction leaves three lock tables.
LEMMA ReleaseLocksType ==
  ASSUME TypeOK, NEW t \in Tx, ReleaseLocks(t)
  PROVE  /\ receiptLock' \in [Key -> Tx \cup {NoTx}]
         /\ recordLock' \in [Record -> Tx \cup {NoTx}]
         /\ ledgerLock' \in [Ledger -> Tx \cup {NoTx}]
  BY ReleasedType DEF TypeOK, ReleaseLocks

\* A rollback keeps the types.
LEMMA RollbackType ==
  ASSUME TypeOK, NEW t \in Tx, Rollback(t)
  PROVE  TypeOK'
  BY ReleaseLocksType DEF TypeOK, Rollback, Reply, tables, local

----------------------------------------------------------------------------
(***************************************************************************)
(* The ledgers: max + 1 is one more than the number of rows.               *)
(***************************************************************************)
Seqs(ledger) == {row.seq : row \in ledger}

\* The form of NumberedWithoutGap that the induction uses.
Numbered(ledger) ==
  /\ NextSeq(ledger) \in Nat \ {0}
  /\ Seqs(ledger) = 1..(NextSeq(ledger) - 1)
  /\ \A a, b \in ledger : a.seq = b.seq => a = b

\* The largest of 0..n is n.
LEMMA NextSeqOf ==
  ASSUME NEW ledger, NEW n \in Nat, Seqs(ledger) = 1..n
  PROVE  NextSeq(ledger) = n + 1
<1> DEFINE S == {0} \cup {row.seq : row \in ledger}
<1>1. S = 0..n
  BY DEF Seqs
<1>5. NextSeq(ledger) = (CHOOSE x \in S : \A y \in S : x >= y) + 1
  BY DEF NextSeq, Max
<1> HIDE DEF S
<1>2. \A x \in S : (\A y \in S : x >= y) => x = n
  BY <1>1
<1>3. n \in S /\ \A y \in S : n >= y
  BY <1>1
<1>4. (CHOOSE x \in S : \A y \in S : x >= y) = n
  BY <1>2, <1>3
<1> QED BY <1>5, <1>4

\* An empty ledger starts at 1.
LEMMA NumberedEmpty == Numbered({})
<1>1. Seqs({}) = 1..0
  BY DEF Seqs
<1>2. NextSeq({}) = 0 + 1
  BY <1>1, NextSeqOf
<1> QED BY <1>1, <1>2 DEF Numbered

\* Adding the row with the next number keeps the numbering.
LEMMA NumberedAppend ==
  ASSUME NEW ledger, Numbered(ledger), NEW new, new.seq = NextSeq(ledger)
  PROVE  Numbered(ledger \cup {new})
<1> DEFINE n == NextSeq(ledger) - 1
<1>1. n \in Nat /\ Seqs(ledger) = 1..n /\ new.seq = n + 1
  BY DEF Numbered
<1>2. Seqs(ledger \cup {new}) = Seqs(ledger) \cup {new.seq}
  BY Zenon DEF Seqs
<1> HIDE DEF n
<1>3. Seqs(ledger \cup {new}) = 1..(n + 1)
  <2>1. (1..n) \cup {n + 1} = 1..(n + 1)
    BY <1>1
  <2> QED BY <2>1, <1>1, <1>2, Zenon
<1>4. NextSeq(ledger \cup {new}) = n + 1 + 1
  BY <1>1, <1>3, NextSeqOf
<1>5. \A a \in ledger : a.seq \in 1..n
  BY <1>1 DEF Seqs
<1>6. ASSUME NEW a \in ledger \cup {new}, NEW b \in ledger \cup {new}, a.seq = b.seq
      PROVE  a = b
  <2>1. CASE a = new /\ b \in ledger
    BY <2>1, <1>1, <1>5, <1>6
  <2>2. CASE b = new /\ a \in ledger
    BY <2>2, <1>1, <1>5, <1>6
  <2>3. CASE a \in ledger /\ b \in ledger
    BY <2>3, <1>6 DEF Numbered
  <2> QED BY <2>1, <2>2, <2>3, <1>6
<1> QED BY <1>1, <1>3, <1>4, <1>6 DEF Numbered

\* The number after the appended row's is the one after it.
LEMMA NumberedNext ==
  ASSUME NEW ledger, Numbered(ledger), NEW new, new.seq = NextSeq(ledger)
  PROVE  NextSeq(ledger \cup {new}) = NextSeq(ledger) + 1
<1>1. Seqs(ledger \cup {new}) = Seqs(ledger) \cup {new.seq}
  BY Zenon DEF Seqs
<1>2. NextSeq(ledger) \in Nat \ {0} /\ Seqs(ledger) = 1..(NextSeq(ledger) - 1)
  BY DEF Numbered
<1> DEFINE n == NextSeq(ledger)
<1>3. n \in Nat \ {0} /\ Seqs(ledger) = 1..(n - 1) /\ new.seq = n
  BY <1>2
<1> HIDE DEF n
<1>4. (1..(n - 1)) \cup {n} = 1..n
  BY <1>3
<1>5. Seqs(ledger \cup {new}) = 1..n
  BY <1>1, <1>3, <1>4, Zenon
<1>6. NextSeq(ledger \cup {new}) = n + 1
  BY <1>3, <1>5, NextSeqOf
<1> QED BY <1>6 DEF n

\* Numbering in the induction's form gives the property the runs check.
LEMMA NumberedGapFree ==
  ASSUME NEW ledger, Numbered(ledger)
  PROVE  NumberedWithoutGap(ledger)
<1>1. \A row \in ledger : row.seq \in 1..(NextSeq(ledger) - 1)
  BY DEF Numbered, Seqs
<1>2. \A n \in 1..(NextSeq(ledger) - 1) : \E other \in ledger : other.seq = n
  BY DEF Numbered, Seqs
<1>3. ASSUME NEW row \in ledger, NEW n \in 1..row.seq
      PROVE  \E other \in ledger : other.seq = n
  BY <1>1, <1>2, <1>3 DEF Numbered
<1> QED BY <1>3 DEF Numbered, NumberedWithoutGap

----------------------------------------------------------------------------
(***************************************************************************)
(* The inductive invariant.  The properties alone are not inductive: that  *)
(* a second effect for a key cannot be committed rests on the locks the    *)
(* open transactions hold.                                                 *)
(***************************************************************************)
SpineInv ==
  /\ TypeOK
  /\ OpenWorkIsLocked
  /\ Numbered(planning)
  /\ Numbered(activity)
  /\ OneEffectPerKey
  /\ EffectsFollowVersions
  /\ AnswersAgree

\* The parts of SpineInv that speak of committed rows only.
LEMMA TablesUnchanged ==
  ASSUME SpineInv, UNCHANGED tables
  PROVE  /\ Numbered(planning)'
         /\ Numbered(activity)'
         /\ OneEffectPerKey'
         /\ EffectsFollowVersions'
  BY DEF SpineInv, tables, Numbered, OneEffectPerKey, EffectOf, EffectsFollowVersions, Changes

\* The invariant holds before the first call.
LEMMA InitSpineInv == Init => SpineInv
<1> SUFFICES ASSUME Init PROVE SpineInv
  OBVIOUS
<1>1. TypeOK
  BY SpineAssumption DEF Init, TypeOK, Reply, Silent, Active, Ledger, Absent
<1>2. OpenWorkIsLocked
  BY DEF Init, OpenWorkIsLocked, Holds, Progress, MayApply
<1>3. Numbered(planning) /\ Numbered(activity)
  BY NumberedEmpty DEF Init
<1>4. OneEffectPerKey /\ EffectsFollowVersions
  BY DEF Init, OneEffectPerKey, EffectOf, EffectsFollowVersions, Changes, Absent
<1>5. AnswersAgree
  BY DEF Init, AnswersAgree, Silent
<1> QED BY <1>1, <1>2, <1>3, <1>4, <1>5 DEF SpineInv

\* Sending a call preserves the invariant.
LEMMA BeginPreserves ==
  ASSUME SpineInv, NEW t \in Tx, Begin(t)
  PROVE  SpineInv'
<1>1. TypeOK'
  BY DEF SpineInv, TypeOK, Begin, tables, locks, local, Active
<1>2. OpenWorkIsLocked'
  BY DEF SpineInv, TypeOK, OpenWorkIsLocked, Holds, Progress, MayApply, Begin, tables, locks, local
<1>3. AnswersAgree'
  BY DEF SpineInv, AnswersAgree, Begin, tables
<1> QED BY <1>1, <1>2, <1>3, TablesUnchanged DEF SpineInv, Begin

\* A lock that another transaction holds survives the release of t's locks.
LEMMA ReleasedKeeps ==
  ASSUME NEW S, NEW lock \in [S -> Tx \cup {NoTx}], NEW t \in Tx, NEW x \in S, NEW u \in Tx,
         u # t, lock[x] = u
  PROVE  Released(lock, t)[x] = u
  BY DEF Released

\* After a rollback the other transactions stand where they stood.
LEMMA OthersKeepLocks ==
  ASSUME SpineInv, NEW t \in Tx, ReleaseLocks(t), NEW u \in Tx, u # t, pc[u] # "done"
  PROVE  /\ receiptLock[env[u].key] = u => receiptLock'[env[u].key] = u
         /\ recordLock[env[u].target] = u => recordLock'[env[u].target] = u
         /\ \A l \in Ledger : ledgerLock[l] = u => ledgerLock'[l] = u
  BY ReleasedKeeps, EnvelopeType DEF SpineInv, TypeOK, ReleaseLocks

\* A rollback preserves the invariant: it undoes everything and frees its locks.
LEMMA RollbackPreserves ==
  ASSUME SpineInv, NEW t \in Tx, Rollback(t)
  PROVE  SpineInv'
<1>1. TypeOK'
  BY RollbackType DEF SpineInv
<1>2. OpenWorkIsLocked'
  <2> SUFFICES ASSUME NEW u \in Tx, pc'[u] # "done"
               PROVE  (Holds(u) /\ Progress(u))'
    BY DEF OpenWorkIsLocked
  <2>1. u # t /\ pc'[u] = pc[u]
    BY DEF Rollback, SpineInv, TypeOK
  <2>2. Holds(u) /\ Progress(u)
    BY <2>1 DEF SpineInv, OpenWorkIsLocked
  <2>3. UNCHANGED <<tables, env, local>> /\ ReleaseLocks(t)
    BY DEF Rollback
  <2> QED BY <2>1, <2>2, <2>3, OthersKeepLocks DEF Holds, Progress, MayApply, tables, local, Ledger
<1>3. AnswersAgree'
  <2> SUFFICES ASSUME NEW u \in Tx, reply'[u].kind \in {"accepted", "rejected"}
               PROVE  /\ receipt[env[u].key].state = reply'[u].kind
                      /\ receipt[env[u].key].commandId = reply'[u].commandId
    BY DEF AnswersAgree, Rollback, tables
  <2>1. u # t
    BY DEF Rollback, SpineInv, TypeOK
  <2>2. reply'[u] = reply[u]
    BY <2>1 DEF Rollback, SpineInv, TypeOK
  <2> QED BY <2>2 DEF SpineInv, AnswersAgree
<1> QED BY <1>1, <1>2, <1>3, TablesUnchanged DEF SpineInv, Rollback

\* The receipt insert, new or in conflict, preserves the invariant.
LEMMA InsertReceiptPreserves ==
  ASSUME SpineInv, NEW t \in Tx, InsertReceipt(t)
  PROVE  SpineInv'
<1>0. env[t].key \in Key /\ env[t].op \in {"command", "reserve"} /\ env[t].wellFormed \in BOOLEAN
  BY EnvelopeType DEF SpineInv
<1>1. TypeOK'
  <2>1. receiptLock' \in [Key -> Tx \cup {NoTx}]
    BY <1>0 DEF SpineInv, TypeOK, InsertReceipt
  <2>2. fresh' \in [Tx -> BOOLEAN]
    BY Zenon DEF SpineInv, TypeOK, InsertReceipt
  <2>3. pc' \in [Tx -> {"idle", "done"} \cup Active] /\ outcome' \in [Tx -> {"none", "accepted", "rejected"}]
    BY <1>0 DEF SpineInv, TypeOK, InsertReceipt, Admit, Active
  <2> QED BY <2>1, <2>2, <2>3 DEF SpineInv, TypeOK, InsertReceipt, tables
<1>2. OpenWorkIsLocked'
  <2> SUFFICES ASSUME NEW u \in Tx, pc'[u] # "done"
               PROVE  (Holds(u) /\ Progress(u))'
    BY DEF OpenWorkIsLocked
  <2>1. CASE u = t
    BY <1>0, <2>1, SpineAssumption DEF SpineInv, TypeOK, OpenWorkIsLocked, Holds, Progress, MayApply, InsertReceipt, Admit, tables
  <2>2. CASE u # t
    BY <1>0, <2>2, SpineAssumption DEF SpineInv, TypeOK, OpenWorkIsLocked, Holds, Progress, MayApply, InsertReceipt, Admit, tables
  <2> QED BY <2>1, <2>2
<1>3. AnswersAgree'
  BY DEF SpineInv, AnswersAgree, InsertReceipt, tables
<1> QED BY <1>1, <1>2, <1>3, TablesUnchanged DEF SpineInv, InsertReceipt

\* An answer taken from the committed receipt agrees with it.
LEMMA AnswerPreserves ==
  ASSUME SpineInv, NEW t \in Tx, NEW answer \in Reply, Answer(t, answer),
         answer.kind \in {"accepted", "rejected"} =>
           /\ receipt[env[t].key].state = answer.kind
           /\ receipt[env[t].key].commandId = answer.commandId
  PROVE  SpineInv'
<1>1. TypeOK'
  BY DEF SpineInv, TypeOK, Answer, tables, locks, local
<1>2. OpenWorkIsLocked'
  BY DEF SpineInv, TypeOK, OpenWorkIsLocked, Holds, Progress, MayApply, Answer, tables, locks, local
<1>3. AnswersAgree'
  BY DEF SpineInv, TypeOK, AnswersAgree, Answer, tables
<1> QED BY <1>1, <1>2, <1>3, TablesUnchanged DEF SpineInv, Answer

\* Reading the receipt in conflict preserves the invariant.
LEMMA SelectReceiptPreserves ==
  ASSUME SpineInv, NEW t \in Tx, SelectReceipt(t)
  PROVE  SpineInv'
<1> DEFINE row == receipt[env[t].key]
<1>0. env[t].key \in Key /\ env[t].op \in {"command", "reserve"} /\ env[t].wellFormed \in BOOLEAN
  BY EnvelopeType DEF SpineInv
<1>1. row \in ReceiptRow
  BY <1>0 DEF SpineInv, TypeOK, OpenWorkIsLocked, Holds, SelectReceipt
<1>2. CASE Answer(t, [kind |-> "conflict"])
  <2>1. [kind |-> "conflict"] \in Reply
    BY DEF Reply
  <2> QED BY <1>2, <2>1, AnswerPreserves
<1>3. CASE Answer(t, [kind |-> row.state, commandId |-> row.commandId])
  <2>1. [kind |-> row.state, commandId |-> row.commandId] \in Reply
    BY <1>1 DEF Reply, ReceiptRow
  <2> QED BY <1>3, <2>1, AnswerPreserves
<1>4. CASE /\ row.hash = env[t].hash
           /\ row.state = "reserved"
           /\ env[t].op = "command"
           /\ Admit(t)
           /\ UNCHANGED <<tables, locks, env, fresh, effect, planSeq, actSeq, reply>>
  <2>1. pc[t] = "select"
    BY DEF SelectReceipt
  <2>2. TypeOK'
    BY <1>0, <1>4 DEF SpineInv, TypeOK, Admit, tables, locks, Active
  <2>3. OpenWorkIsLocked'
    BY <1>0, <1>4, <2>1 DEF SpineInv, TypeOK, OpenWorkIsLocked, Holds, Progress, MayApply, Admit, tables, locks
  <2>4. AnswersAgree'
    BY <1>4 DEF SpineInv, AnswersAgree, tables
  <2> QED BY <1>4, <2>2, <2>3, <2>4, TablesUnchanged DEF SpineInv
<1> QED BY <1>2, <1>3, <1>4 DEF SelectReceipt

\* Taking the row lock and testing the version preserves the invariant.
LEMMA LockRecordPreserves ==
  ASSUME SpineInv, NEW t \in Tx, LockRecord(t)
  PROVE  SpineInv'
<1>0. env[t].target \in Record /\ env[t].key \in Key /\ env[t].work \in Work
  BY EnvelopeType DEF SpineInv
<1>1. PICK verdict \in {"accepted", "rejected"}, written \in SUBSET Entry :
        /\ Decide(t, verdict, written)
        /\ verdict = "rejected" => written = {}
        /\ verdict = "accepted" =>
             /\ written \in Effects(env[t].work) /\ MayApply(t, written)
             /\ recordLock[env[t].target] = NoTx
             /\ recordLock' = [recordLock EXCEPT ![env[t].target] = t]
  <2>1. CASE Decide(t, "rejected", {})
    <3>1. {} \in SUBSET Entry /\ "rejected" # "accepted"
      OBVIOUS
    <3> QED BY <2>1, <3>1
  <2>2. CASE \E written \in Effects(env[t].work) : MayApply(t, written) /\ Decide(t, "accepted", written)
    <3>1. PICK written \in Effects(env[t].work) : MayApply(t, written) /\ Decide(t, "accepted", written)
      BY <2>2
    <3>2. written \in SUBSET Entry
      BY <1>0, EffectShape
    <3>3. outcome'[t] = "accepted"
      BY <3>1 DEF Decide, SpineInv, TypeOK
    <3>4. ~Decide(t, "rejected", {})
      BY <3>3 DEF Decide, SpineInv, TypeOK
    <3> QED BY <3>1, <3>2, <3>4 DEF LockRecord
  <2> QED BY <2>1, <2>2 DEF LockRecord
<1>2. \/ UNCHANGED recordLock
      \/ /\ recordLock[env[t].target] = NoTx
         /\ recordLock' = [recordLock EXCEPT ![env[t].target] = t]
  BY DEF LockRecord
<1>3. pc[t] = "record" /\ UNCHANGED <<tables, receiptLock, ledgerLock, env, fresh, planSeq, actSeq, reply>>
  BY DEF LockRecord
<1>4. FirstAppend(written) \in {"planning", "activity", "finalize"}
  BY FirstAppendType
<1>5. TypeOK'
  BY <1>0, <1>1, <1>2, <1>3, <1>4 DEF SpineInv, TypeOK, Decide, tables, Active
<1>6. OpenWorkIsLocked'
  <2> SUFFICES ASSUME NEW u \in Tx, pc'[u] # "done"
               PROVE  (Holds(u) /\ Progress(u))'
    BY DEF OpenWorkIsLocked
  <2>1. CASE u = t
    <3>1. /\ pc'[t] = FirstAppend(written) /\ outcome'[t] = verdict /\ effect'[t] = written
          /\ Holds(t) /\ Progress(t)
      BY <1>1, <1>3 DEF Decide, SpineInv, TypeOK, OpenWorkIsLocked
    <3>2. Progress(t)'
      BY <1>1, <1>3, <1>4, <3>1, FirstAppendType DEF Progress
    <3>3. written # {} => recordLock'[env[t].target] = t
      BY <1>0, <1>1 DEF SpineInv, TypeOK
    <3>4. Holds(t)'
      BY <1>1, <1>3, <1>4, <3>1, <3>3 DEF Holds, Progress, MayApply, tables
    <3> QED BY <2>1, <3>2, <3>4
  <2>2. CASE u # t
    <3>1. /\ pc'[u] = pc[u] /\ outcome'[u] = outcome[u] /\ effect'[u] = effect[u]
      BY <1>1, <2>2 DEF Decide, SpineInv, TypeOK
    <3>2. Holds(u) /\ Progress(u)
      BY <3>1 DEF SpineInv, OpenWorkIsLocked
    <3>3. recordLock[env[u].target] = u => recordLock'[env[u].target] = u
      BY <1>0, <1>2, <2>2, EnvelopeType, SpineAssumption DEF SpineInv, TypeOK
    <3> QED BY <1>3, <3>1, <3>2, <3>3 DEF Holds, Progress, MayApply, tables
  <2> QED BY <2>1, <2>2
<1>7. AnswersAgree'
  BY <1>3 DEF SpineInv, AnswersAgree, tables
<1> QED BY <1>3, <1>5, <1>6, <1>7, TablesUnchanged DEF SpineInv

\* Numbering a planning decision preserves the invariant.
LEMMA AppendPlanningPreserves ==
  ASSUME SpineInv, NEW t \in Tx, AppendPlanning(t)
  PROVE  SpineInv'
<1>1. CASE ~SeesOwnReceipt(t)
  BY <1>1, RollbackPreserves DEF AppendPlanning
<1>2. CASE SeesOwnReceipt(t)
  <2>0. NextSeq(planning) \in Nat \ {0}
    BY DEF SpineInv, Numbered
  <2> DEFINE next == FirstAppend(effect[t] \ {"decision"})
  <2>4. /\ next \in {"activity", "finalize"}
        /\ next = "activity" <=> "change" \in effect[t]
    BY FirstAppendType
  <2> HIDE DEF next
  <2>5. pc' = [pc EXCEPT ![t] = next]
    BY <1>2 DEF AppendPlanning, next
  <2>1. TypeOK'
    BY <1>2, <2>0, <2>4, <2>5 DEF SpineInv, TypeOK, AppendPlanning, tables, Active, Ledger
  <2>2. OpenWorkIsLocked'
    <3> SUFFICES ASSUME NEW u \in Tx, pc'[u] # "done"
                 PROVE  (Holds(u) /\ Progress(u))'
      BY DEF OpenWorkIsLocked
    <3>1. CASE u = t
      BY <1>2, <2>0, <2>4, <2>5, <3>1
      DEF SpineInv, TypeOK, OpenWorkIsLocked, Holds, Progress, MayApply, AppendPlanning, tables, Ledger
    <3>2. CASE u # t
      BY <1>2, <2>5, <3>2, SpineAssumption
      DEF SpineInv, TypeOK, OpenWorkIsLocked, Holds, Progress, MayApply, AppendPlanning, tables, Ledger
    <3> QED BY <3>1, <3>2
  <2>3. AnswersAgree'
    BY <1>2 DEF SpineInv, AnswersAgree, AppendPlanning, tables
  <2> QED BY <1>2, <2>1, <2>2, <2>3, TablesUnchanged DEF SpineInv, AppendPlanning
<1> QED BY <1>1, <1>2

\* Numbering an activity event preserves the invariant.
LEMMA AppendActivityPreserves ==
  ASSUME SpineInv, NEW t \in Tx, AppendActivity(t)
  PROVE  SpineInv'
<1>1. CASE ~SeesOwnReceipt(t)
  BY <1>1, RollbackPreserves DEF AppendActivity
<1>2. CASE SeesOwnReceipt(t)
  <2>0. NextSeq(activity) \in Nat \ {0}
    BY DEF SpineInv, Numbered
  <2>1. TypeOK'
    BY <1>2, <2>0 DEF SpineInv, TypeOK, AppendActivity, tables, Active, Ledger
  <2>2. OpenWorkIsLocked'
    <3> SUFFICES ASSUME NEW u \in Tx, pc'[u] # "done"
                 PROVE  (Holds(u) /\ Progress(u))'
      BY DEF OpenWorkIsLocked
    <3>1. CASE u = t
      BY <1>2, <2>0, <3>1
      DEF SpineInv, TypeOK, OpenWorkIsLocked, Holds, Progress, MayApply, AppendActivity, tables, Ledger
    <3>2. CASE u # t
      BY <1>2, <3>2, SpineAssumption
      DEF SpineInv, TypeOK, OpenWorkIsLocked, Holds, Progress, MayApply, AppendActivity, tables, Ledger
    <3> QED BY <3>1, <3>2
  <2>3. AnswersAgree'
    BY <1>2 DEF SpineInv, AnswersAgree, AppendActivity, tables
  <2> QED BY <1>2, <2>1, <2>2, <2>3, TablesUnchanged DEF SpineInv, AppendActivity
<1> QED BY <1>1, <1>2

\* Finalizing the receipt preserves the invariant.
LEMMA FinalizeReceiptPreserves ==
  ASSUME SpineInv, NEW t \in Tx, FinalizeReceipt(t)
  PROVE  SpineInv'
<1> DEFINE matches == SeesOwnReceipt(t) /\ (fresh[t] \/ receipt[env[t].key].state = "reserved")
<1>0. env[t].key \in Key
  BY EnvelopeType DEF SpineInv
<1>1. CASE ~matches
  BY <1>1, RollbackPreserves DEF FinalizeReceipt
<1>2. CASE matches
  <2>1. TypeOK'
    BY <1>0, <1>2 DEF SpineInv, TypeOK, FinalizeReceipt, tables, local, Active
  <2>2. OpenWorkIsLocked'
    <3> SUFFICES ASSUME NEW u \in Tx, pc'[u] # "done"
                 PROVE  (Holds(u) /\ Progress(u))'
      BY DEF OpenWorkIsLocked
    <3>1. CASE u = t
      BY <1>0, <1>2, <3>1
      DEF SpineInv, TypeOK, OpenWorkIsLocked, Holds, Progress, MayApply, FinalizeReceipt,
          SeesOwnReceipt, tables, local
    <3>2. CASE u # t
      <4>1. pc'[u] = pc[u] /\ UNCHANGED <<tables, recordLock, ledgerLock, env, local>>
        BY <1>2, <3>2 DEF FinalizeReceipt, SpineInv, TypeOK
      <4>2. Holds(u) /\ Progress(u)
        BY <4>1 DEF SpineInv, OpenWorkIsLocked
      <4>3. receiptLock[env[u].key] = u => receiptLock'[env[u].key] = u
        BY <1>0, <1>2, <3>2, EnvelopeType, SpineAssumption DEF FinalizeReceipt, SpineInv, TypeOK
      <4> QED BY <4>1, <4>2, <4>3 DEF Holds, Progress, MayApply, tables, local
    <3> QED BY <3>1, <3>2
  <2>3. AnswersAgree'
    BY <1>2 DEF SpineInv, AnswersAgree, FinalizeReceipt, tables
  <2> QED BY <1>2, <2>1, <2>2, <2>3, TablesUnchanged DEF SpineInv, FinalizeReceipt
<1> QED BY <1>1, <1>2

\* What COMMIT writes, under the locks it was written: one receipt, final or
\* reserved, over an absent or a reserved one; and, for a command with an effect
\* only, one version and its ledger rows, numbered next.
LEMMA CommitWrites ==
  ASSUME SpineInv, NEW t \in Tx, Commit(t)
  PROVE  /\ receipt' = [receipt EXCEPT ![env[t].key] = NewReceipt(t)]
         /\ NewReceipt(t) \in ReceiptRow
         /\ \/ receipt[env[t].key] = Absent
            \/ /\ receipt[env[t].key].state = "reserved"
               /\ receipt[env[t].key].commandId = env[t].commandId
               /\ receipt[env[t].key].hash = env[t].hash
               /\ CommittedState(t) # "reserved"
         /\ receiptLock[env[t].key] = t
         /\ outcome[t] = "accepted" => effect[t] \in Effects(env[t].work)
         /\ outcome[t] # "accepted" => effect[t] = {}
         /\ effect[t] # {} => recordLock[env[t].target] = t
         /\ "decision" \in effect[t] => /\ ledgerLock["planning"] = t
                                        /\ NewPlanning(t) \in PlanningRow
                                        /\ planSeq[t] = NextSeq(planning)
         /\ "change" \in effect[t] => /\ ledgerLock["activity"] = t
                                      /\ NewChange(t) \in ActivityRow
                                      /\ NewCreation(t) \in ActivityRow
                                      /\ actSeq[t] = NextSeq(activity)
                                      /\ \/ env[t].work = "unlink"
                                         \/ version[env[t].target] = env[t].expected
         /\ "creation" \in effect[t] => "change" \in effect[t]
<1> DEFINE k == env[t].key
           r == env[t].target
<1>0. /\ k \in Key /\ r \in Record /\ env[t].hash \in Hash /\ env[t].commandId \in CommandId
      /\ env[t].work \in Work
  BY EnvelopeType DEF SpineInv
<1>1. pc[t] = "commit" /\ Holds(t) /\ Progress(t)
  BY DEF Commit, SpineInv, OpenWorkIsLocked
<1>2. fresh[t] \/ outcome[t] # "none"
  BY <1>1 DEF Holds
<1>3. receipt' = [receipt EXCEPT ![k] = NewReceipt(t)]
  BY <1>2 DEF Commit
<1>4. NewReceipt(t) \in ReceiptRow
  BY <1>0, CommittedStateType DEF NewReceipt, ReceiptRow, SpineInv, TypeOK
<1>5. receiptLock[k] = t
  BY <1>1 DEF Holds
<1>6. \/ receipt[k] = Absent
      \/ /\ receipt[k].state = "reserved"
         /\ receipt[k].commandId = env[t].commandId
         /\ receipt[k].hash = env[t].hash
         /\ CommittedState(t) # "reserved"
  BY <1>1 DEF Holds, CommittedState, SpineInv, TypeOK
<1>7. /\ outcome[t] = "accepted" => effect[t] \in Effects(env[t].work)
      /\ outcome[t] # "accepted" => effect[t] = {}
      /\ planSeq[t] # 0 <=> "decision" \in effect[t]
      /\ actSeq[t] # 0 <=> "change" \in effect[t]
  BY <1>1 DEF Progress
<1>8. /\ "creation" \in effect[t] => "change" \in effect[t]
      /\ "change" \in effect[t] => env[t].work # "draft"
  BY <1>0, <1>7, EffectShape
<1>9. /\ effect[t] # {} => recordLock[r] = t /\ MayApply(t, effect[t])
      /\ "decision" \in effect[t] => ledgerLock["planning"] = t /\ planSeq[t] = NextSeq(planning)
      /\ "change" \in effect[t] => ledgerLock["activity"] = t /\ actSeq[t] = NextSeq(activity)
  BY <1>1, <1>7 DEF Holds
<1>10. "change" \in effect[t] => env[t].work = "unlink" \/ version[r] = env[t].expected
  BY <1>8, <1>9 DEF MayApply
<1>11. "decision" \in effect[t] => NewPlanning(t) \in PlanningRow
  BY <1>0, <1>7 DEF NewPlanning, PlanningRow, SpineInv, TypeOK
<1>12. "change" \in effect[t] => NewChange(t) \in ActivityRow /\ NewCreation(t) \in ActivityRow
  BY <1>0, <1>7 DEF NewChange, NewCreation, ActivityRow, SpineInv, TypeOK
<1> QED BY <1>3, <1>4, <1>5, <1>6, <1>7, <1>8, <1>9, <1>10, <1>11, <1>12

\* A commit preserves the invariant.
LEMMA CommitPreserves ==
  ASSUME SpineInv, NEW t \in Tx, Commit(t)
  PROVE  SpineInv'
<1> DEFINE k == env[t].key
           r == env[t].target
<1>0. k \in Key /\ r \in Record /\ env[t].commandId \in CommandId /\ env[t] \in Envelope
  BY EnvelopeType DEF SpineInv, TypeOK
<1>1. /\ receipt' = [receipt EXCEPT ![k] = NewReceipt(t)]
      /\ NewReceipt(t) \in ReceiptRow
      /\ receiptLock[k] = t
  BY CommitWrites
<1>2. \/ receipt[k] = Absent
      \/ /\ receipt[k].state = "reserved"
         /\ receipt[k].commandId = env[t].commandId
         /\ receipt[k].hash = env[t].hash
         /\ CommittedState(t) # "reserved"
  BY CommitWrites
<1>3. ReleaseLocks(t) /\ UNCHANGED <<env, local>> /\ pc' = [pc EXCEPT ![t] = "done"]
  BY DEF Commit
<1>4. /\ effect[t] # {} => recordLock[r] = t
      /\ "decision" \in effect[t] => /\ ledgerLock["planning"] = t
                                     /\ NewPlanning(t) \in PlanningRow
                                     /\ planSeq[t] = NextSeq(planning)
      /\ "change" \in effect[t] => /\ ledgerLock["activity"] = t
                                   /\ NewChange(t) \in ActivityRow
                                   /\ NewCreation(t) \in ActivityRow
                                   /\ actSeq[t] = NextSeq(activity)
                                   /\ env[t].work = "unlink" \/ version[r] = env[t].expected
      /\ "creation" \in effect[t] => "change" \in effect[t]
  BY CommitWrites
<1>5. /\ version' = IF effect[t] = {} THEN version ELSE [version EXCEPT ![r] = @ + 1]
      /\ planning' = IF "decision" \in effect[t] THEN planning \cup {NewPlanning(t)} ELSE planning
      /\ activity' = activity \cup (IF "change" \in effect[t] THEN {NewChange(t)} ELSE {})
                              \cup (IF "creation" \in effect[t] THEN {NewCreation(t)} ELSE {})
  BY DEF Commit
<1>13. effect[t] \in SUBSET Entry
  BY DEF SpineInv, TypeOK
<1>6. TypeOK'
  <2>1. receipt' \in [Key -> {Absent} \cup ReceiptRow]
    BY <1>1 DEF SpineInv, TypeOK
  <2>2. version' \in [Record -> Nat]
    BY <1>0, <1>4, <1>5 DEF SpineInv, TypeOK
  <2>3. planning' \subseteq PlanningRow /\ activity' \subseteq ActivityRow
    BY <1>4, <1>5 DEF SpineInv, TypeOK
  <2>4. reply' \in [Tx -> Reply]
    <3>1. [kind |-> "lost"] \in Reply
      BY DEF Reply
    <3>2. [kind |-> CommittedState(t), commandId |-> env[t].commandId] \in Reply
      BY <1>0, CommittedStateType DEF Reply, SpineInv
    <3> QED BY <3>1, <3>2 DEF Commit, SpineInv, TypeOK
  <2>5. pc' \in [Tx -> {"idle", "done"} \cup Active]
    BY <1>3 DEF SpineInv, TypeOK
  <2> QED BY <1>3, <2>1, <2>2, <2>3, <2>4, <2>5, ReleaseLocksType DEF SpineInv, TypeOK, local
<1>7. OpenWorkIsLocked'
  <2> SUFFICES ASSUME NEW u \in Tx, pc'[u] # "done"
               PROVE  (Holds(u) /\ Progress(u))'
    BY DEF OpenWorkIsLocked
  <2>1. u # t /\ pc'[u] = pc[u]
    BY <1>3 DEF SpineInv, TypeOK
  <2>2. Holds(u) /\ Progress(u)
    BY <2>1 DEF SpineInv, OpenWorkIsLocked
  <2>3. env[u].key \in Key /\ env[u].target \in Record
    BY EnvelopeType DEF SpineInv
  <2>4. receiptLock[env[u].key] = u =>
          receiptLock'[env[u].key] = u /\ receipt'[env[u].key] = receipt[env[u].key]
    BY <1>1, <1>3, <2>1, <2>3, OthersKeepLocks DEF SpineInv, TypeOK
  <2>5. receipt[env[u].key] # Absent =>
          receipt'[env[u].key] # Absent /\ receipt'[env[u].key].hash = receipt[env[u].key].hash
    BY <1>0, <1>1, <1>2, <2>3 DEF SpineInv, TypeOK, NewReceipt, ReceiptRow, Absent
  <2>6. recordLock[env[u].target] = u =>
          recordLock'[env[u].target] = u /\ version'[env[u].target] = version[env[u].target]
    BY <1>0, <1>3, <1>4, <1>5, <2>1, <2>3, OthersKeepLocks DEF SpineInv, TypeOK
  <2>7. ledgerLock["planning"] = u => ledgerLock'["planning"] = u /\ planning' = planning
    BY <1>3, <1>4, <1>5, <2>1, OthersKeepLocks DEF Ledger
  <2>8. ledgerLock["activity"] = u => ledgerLock'["activity"] = u /\ activity' = activity
    BY <1>3, <1>4, <1>5, <2>1, OthersKeepLocks DEF Ledger
  <2>9. UNCHANGED local /\ env' = env
    BY <1>3
  <2>10. Progress(u)'
    BY <2>1, <2>2, <2>9 DEF Progress, local
  <2>11. Holds(u)'
    BY <2>1, <2>2, <2>4, <2>5, <2>6, <2>7, <2>8, <2>9 DEF Holds, MayApply, local
  <2> QED BY <2>10, <2>11
<1>8. Numbered(planning)'
  <2>1. CASE "decision" \in effect[t]
    <3>1. planning' = planning \cup {NewPlanning(t)} /\ NewPlanning(t).seq = NextSeq(planning)
      BY <1>4, <1>5, <2>1 DEF NewPlanning
    <3>2. Numbered(planning \cup {NewPlanning(t)})
      BY <3>1, NumberedAppend DEF SpineInv
    <3> QED BY <3>1, <3>2 DEF Numbered
  <2>2. CASE "decision" \notin effect[t]
    <3>1. planning' = planning
      BY <1>5, <2>2
    <3> QED BY <3>1 DEF SpineInv, Numbered
  <2> QED BY <2>1, <2>2
<1>9. Numbered(activity)'
  <2> DEFINE once == activity \cup {NewChange(t)}
             twice == once \cup {NewCreation(t)}
  <2>1. "change" \in effect[t] => NewChange(t).seq = NextSeq(activity) /\ Numbered(once)
    BY <1>4, NumberedAppend DEF SpineInv, NewChange
  <2>2. "change" \in effect[t] => NewCreation(t).seq = NextSeq(once)
    <3>1. NewCreation(t).seq = actSeq[t] + 1
      BY DEF NewCreation
    <3> SUFFICES ASSUME "change" \in effect[t] PROVE NextSeq(once) = NextSeq(activity) + 1
      BY <1>4, <3>1
    <3> QED BY <2>1, NumberedNext DEF SpineInv
  <2>3. "change" \in effect[t] => Numbered(twice)
    BY <2>1, <2>2, NumberedAppend
  <2>4. activity' \in {activity, once, twice}
        /\ (activity' # activity => "change" \in effect[t])
    BY <1>4, <1>5
  <2> QED BY <2>1, <2>3, <2>4 DEF SpineInv, Numbered
<1>10. OneEffectPerKey'
  <2>1. EffectOf(k) = {}
    BY <1>0, <1>2 DEF EffectOf, Absent
  <2>2. (~ \E row \in activity : row.key = k) /\ (~ \E row \in planning : row.key = k)
    <3>1. {row.event : row \in {a \in activity : a.key = k}} = {}
      BY <1>0, <2>1 DEF SpineInv, OneEffectPerKey
    <3>2. ~ \E row \in activity : row.key = k
      BY <3>1
    <3>3. ~ \E row \in planning : row.key = k
      BY <1>0, <2>1 DEF SpineInv, OneEffectPerKey
    <3> QED BY <3>2, <3>3
  <2>3. receipt'[k] = NewReceipt(t)
    BY <1>0, <1>1 DEF SpineInv, TypeOK
  <2>4. \A j \in Key : j # k => receipt'[j] = receipt[j]
    BY <1>1 DEF SpineInv, TypeOK
  <2>5. /\ NewReceipt(t).state = "accepted" <=> outcome[t] = "accepted"
        /\ NewReceipt(t).hash = env[t].hash
        /\ NewReceipt(t).effect = effect[t]
    BY DEF NewReceipt, CommittedState
  <2>6. /\ outcome[t] = "accepted" => effect[t] \in Effects(env[t].work)
        /\ outcome[t] # "accepted" => effect[t] = {}
    BY CommitWrites
  <2>7. /\ NewPlanning(t).key = k /\ NewChange(t).key = k /\ NewCreation(t).key = k
        /\ NewChange(t).event = "change" /\ NewCreation(t).event = "creation"
    BY DEF NewPlanning, NewChange, NewCreation
  <2>8. ASSUME NEW j \in Key
        PROVE  /\ receipt'[j].state = "accepted" =>
                    \E e \in Envelope : e.hash = receipt'[j].hash /\ receipt'[j].effect \in Effects(e.work)
               /\ "decision" \in EffectOf(j)' <=> \E row \in planning' : row.key = j
               /\ EffectOf(j)' \ {"decision"} = {row.event : row \in {a \in activity' : a.key = j}}
               /\ \A a, b \in activity' : a.key = j /\ b.key = j /\ a.event = b.event => a = b
               /\ \A a, b \in planning' : a.key = j /\ b.key = j => a = b
    <3>1. CASE j = k
      <4>1. receipt'[j].state = "accepted" =>
              \E e \in Envelope : e.hash = receipt'[j].hash /\ receipt'[j].effect \in Effects(e.work)
        BY <1>0, <2>3, <2>5, <2>6, <3>1
      <4>6. EffectOf(j)' = effect[t]
        BY <2>3, <2>5, <2>6, <3>1 DEF EffectOf
      <4>2. "decision" \in effect[t] <=> \E row \in planning' : row.key = k
        BY <1>5, <2>2, <2>7
      <4>3. {row.event : row \in {a \in activity' : a.key = k}} = effect[t] \ {"decision"}
        <5>1. {a \in activity' : a.key = k}
                = (IF "change" \in effect[t] THEN {NewChange(t)} ELSE {})
                  \cup (IF "creation" \in effect[t] THEN {NewCreation(t)} ELSE {})
          BY <1>5, <2>2, <2>7
        <5> QED BY <1>13, <2>7, <5>1 DEF Entry
      <4>4. \A a, b \in activity' : a.key = k /\ b.key = k /\ a.event = b.event => a = b
        BY <1>5, <2>2, <2>7
      <4>5. \A a, b \in planning' : a.key = k /\ b.key = k => a = b
        BY <1>5, <2>2, <2>7
      <4> HIDE DEF k
      <4> QED BY <3>1, <4>1, <4>2, <4>3, <4>4, <4>5, <4>6
    <3>2. CASE j # k
      <4>1. receipt'[j] = receipt[j] /\ EffectOf(j)' = EffectOf(j)
        BY <2>4, <3>2 DEF EffectOf
      <4>2. {a \in activity' : a.key = j} = {a \in activity : a.key = j}
        BY <1>5, <2>7, <3>2
      <4>3. {a \in planning' : a.key = j} = {a \in planning : a.key = j}
        BY <1>5, <2>7, <3>2
      <4>4. /\ receipt[j].state = "accepted" =>
                 \E e \in Envelope : e.hash = receipt[j].hash /\ receipt[j].effect \in Effects(e.work)
            /\ "decision" \in EffectOf(j) <=> \E row \in planning : row.key = j
            /\ EffectOf(j) \ {"decision"} = {row.event : row \in {a \in activity : a.key = j}}
            /\ \A a, b \in activity : a.key = j /\ b.key = j /\ a.event = b.event => a = b
            /\ \A a, b \in planning : a.key = j /\ b.key = j => a = b
        BY DEF SpineInv, OneEffectPerKey
      <4>5. EffectOf(j)' \ {"decision"} = {row.event : row \in {a \in activity' : a.key = j}}
        BY <4>1, <4>2, <4>4
      <4>6. \A a, b \in activity' : a.key = j /\ b.key = j /\ a.event = b.event => a = b
        BY <4>2, <4>4
      <4>7. \A a, b \in planning' : a.key = j /\ b.key = j => a = b
        BY <4>3, <4>4
      <4>8. "decision" \in EffectOf(j)' <=> \E row \in planning' : row.key = j
        BY <4>1, <4>3, <4>4
      <4> QED BY <4>1, <4>4, <4>5, <4>6, <4>7, <4>8
    <3> QED BY <3>1, <3>2
  <2> QED BY <2>8 DEF OneEffectPerKey
<1>11. EffectsFollowVersions'
  <2>0. \A row \in Changes : row.target \in Record /\ row.version \in Nat /\ row.seq \in Nat
    BY DEF SpineInv, TypeOK, ActivityRow, Changes
  <2>1. CASE "change" \notin effect[t]
    <3>1. activity' = activity
      BY <1>4, <1>5, <2>1
    <3>2. Changes' = Changes
      BY <3>1 DEF Changes
    <3>3. \A x \in Record : version[x] \in Nat /\ version'[x] >= version[x]
      BY <1>0, <1>5 DEF SpineInv, TypeOK
    <3>4. \A row \in Changes : row.version <= version'[row.target]
      BY <2>0, <3>3, <1>6 DEF SpineInv, EffectsFollowVersions, TypeOK
    <3> QED BY <3>2, <3>4 DEF SpineInv, EffectsFollowVersions
  <2>2. CASE "change" \in effect[t]
    <3> DEFINE new == NewChange(t)
    <3>1. /\ new.seq = NextSeq(activity) /\ new.commandId = env[t].commandId /\ new.key = k
          /\ new.target = r /\ new.version = version[r] + 1
          /\ new.event = "change" /\ NewCreation(t).event = "creation"
      BY <1>4, <2>2 DEF NewChange, NewCreation
    <3> HIDE DEF new
    <3>2. Changes' = Changes \cup {new} /\ version' = [version EXCEPT ![r] = @ + 1]
      BY <1>5, <2>2, <3>1 DEF Changes, new
    <3>3. version \in [Record -> Nat]
      BY DEF SpineInv, TypeOK
    <3>4. \A row \in Changes : row.seq \in 1..(NextSeq(activity) - 1)
      BY DEF SpineInv, Numbered, Seqs, Changes
    <3>5. NextSeq(activity) \in Nat \ {0}
      BY DEF SpineInv, Numbered
    <3>8. \A row \in Changes' : \E e \in Envelope :
            /\ e.commandId = row.commandId /\ e.key = row.key /\ e.target = row.target
            /\ e.work = "unlink" \/ row.version = e.expected + 1
      BY <1>0, <1>4, <2>2, <3>1, <3>2 DEF SpineInv, EffectsFollowVersions
    <3>9. \A row \in Changes' : row.version <= version'[row.target]
      BY <1>0, <2>0, <3>1, <3>2, <3>3 DEF SpineInv, EffectsFollowVersions
    <3>10. \A a, b \in Changes' : a.target = b.target /\ a.seq < b.seq => a.version < b.version
      <4> SUFFICES ASSUME NEW a \in Changes', NEW b \in Changes', a.target = b.target, a.seq < b.seq
                   PROVE  a.version < b.version
        OBVIOUS
      <4>1. CASE a \in Changes /\ b \in Changes
        BY <4>1 DEF SpineInv, EffectsFollowVersions
      <4>2. CASE a \in Changes /\ b = new
        BY <1>0, <2>0, <3>1, <3>3, <4>2 DEF SpineInv, EffectsFollowVersions
      <4>3. CASE a = new /\ b \in Changes
        BY <3>1, <3>4, <3>5, <4>3
      <4>4. CASE a = new /\ b = new
        BY <3>1, <3>5, <4>4
      <4> QED BY <3>2, <4>1, <4>2, <4>3, <4>4
    <3> QED BY <3>8, <3>9, <3>10 DEF EffectsFollowVersions
  <2> QED BY <2>1, <2>2
<1>12. AnswersAgree'
  <2> SUFFICES ASSUME NEW u \in Tx, reply'[u].kind \in {"accepted", "rejected"}
               PROVE  /\ receipt'[env[u].key].state = reply'[u].kind
                      /\ receipt'[env[u].key].commandId = reply'[u].commandId
    BY <1>3 DEF AnswersAgree
  <2>1. CASE u = t
    <3>1. reply'[t] = [kind |-> CommittedState(t), commandId |-> env[t].commandId]
      BY <2>1 DEF Commit, SpineInv, TypeOK
    <3>2. receipt'[k] = NewReceipt(t)
      BY <1>0, <1>1 DEF SpineInv, TypeOK
    <3> QED BY <2>1, <3>1, <3>2 DEF NewReceipt
  <2>2. CASE u # t
    <3>1. reply'[u] = reply[u]
      BY <2>2 DEF Commit, SpineInv, TypeOK
    <3>2. /\ receipt[env[u].key].state = reply[u].kind
          /\ receipt[env[u].key].commandId = reply[u].commandId
      BY <3>1 DEF SpineInv, AnswersAgree
    <3>3. env[u].key # k
      BY <1>2, <3>1, <3>2 DEF Absent
    <3>4. receipt'[env[u].key] = receipt[env[u].key]
      BY <1>1, <3>3, EnvelopeType DEF SpineInv, TypeOK
    <3> QED BY <3>1, <3>2, <3>4
  <2> QED BY <2>1, <2>2
<1> QED BY <1>6, <1>7, <1>8, <1>9, <1>10, <1>11, <1>12 DEF SpineInv

\* A step that changes nothing preserves the invariant.
LEMMA StutterPreserves ==
  ASSUME SpineInv, UNCHANGED vars
  PROVE  SpineInv'
<1>1. UNCHANGED <<tables, locks, pc, env, local, reply>>
  BY DEF vars
<1>2. TypeOK' /\ OpenWorkIsLocked' /\ AnswersAgree'
  BY <1>1 DEF SpineInv, TypeOK, OpenWorkIsLocked, Holds, Progress, MayApply, AnswersAgree, tables, locks, local
<1> QED BY <1>1, <1>2, TablesUnchanged DEF SpineInv

\* Every step preserves the invariant.
LEMMA NextPreserves == SpineInv /\ [Next]_vars => SpineInv'
<1> SUFFICES ASSUME SpineInv, [Next]_vars PROVE SpineInv'
  OBVIOUS
<1>1. CASE UNCHANGED vars
  BY <1>1, StutterPreserves
<1>2. CASE AllServed
  BY <1>2, StutterPreserves DEF AllServed
<1>3. ASSUME NEW t \in Tx, Begin(t) \/ Step(t) \/ Abort(t)
      PROVE  SpineInv'
  <2>1. CASE Begin(t)
    BY <2>1, BeginPreserves
  <2>2. CASE InsertReceipt(t)
    BY <2>2, InsertReceiptPreserves
  <2>3. CASE SelectReceipt(t)
    BY <2>3, SelectReceiptPreserves
  <2>4. CASE LockRecord(t)
    BY <2>4, LockRecordPreserves
  <2>5. CASE AppendPlanning(t)
    BY <2>5, AppendPlanningPreserves
  <2>6. CASE AppendActivity(t)
    BY <2>6, AppendActivityPreserves
  <2>7. CASE FinalizeReceipt(t)
    BY <2>7, FinalizeReceiptPreserves
  <2>8. CASE Commit(t)
    BY <2>8, CommitPreserves
  <2>9. CASE Abort(t)
    BY <2>9, RollbackPreserves DEF Abort
  <2> QED BY <1>3, <2>1, <2>2, <2>3, <2>4, <2>5, <2>6, <2>7, <2>8, <2>9 DEF Step
<1> QED BY <1>1, <1>2, <1>3 DEF Next

\* The inductive invariant holds in every state of every behaviour.
THEOREM SpineInvariant == Spec => []SpineInv
  BY InitSpineInv, NextPreserves, PTL DEF Spec

\* Type correctness of the command spine.
THEOREM SpineTypeCorrect == Spec => []TypeOK
<1>1. SpineInv => TypeOK
  BY DEF SpineInv
<1> QED BY <1>1, SpineInvariant, PTL

\* A retried, duplicated, reserved-ahead or rolled back command has at most one
\* effect per idempotency key, and an effect exactly when its receipt says so.
THEOREM OneEffect == Spec => []OneEffectPerKey
<1>1. SpineInv => OneEffectPerKey
  BY DEF SpineInv
<1> QED BY <1>1, SpineInvariant, PTL

\* Both ledgers are numbered 1, 2, 3, ... in every committed state.
THEOREM LedgersNumbered == Spec => []LedgersGapFree
<1>1. SpineInv => LedgersGapFree
  BY NumberedGapFree DEF SpineInv, LedgersGapFree
<1> QED BY <1>1, SpineInvariant, PTL

\* Effects land on the version they expected, and the ledger orders them so.
THEOREM EffectsOrdered == Spec => []EffectsFollowVersions
<1>1. SpineInv => EffectsFollowVersions
  BY DEF SpineInv
<1> QED BY <1>1, SpineInvariant, PTL

\* All the callers of one key hear the same outcome.
THEOREM CallersAgree == Spec => []AnswersAgree
<1>1. SpineInv => AnswersAgree
  BY DEF SpineInv
<1> QED BY <1>1, SpineInvariant, PTL

\* A step of the system moves receipts forward only.
LEMMA StepAdvances ==
  ASSUME SpineInv, [Next]_vars
  PROVE  [\A k \in Key : ReceiptAdvances(receipt[k], receipt'[k])]_vars
<1> SUFFICES ASSUME NEW k \in Key PROVE ReceiptAdvances(receipt[k], receipt'[k])
  OBVIOUS
<1>1. CASE UNCHANGED receipt
  BY <1>1 DEF ReceiptAdvances
<1>2. ASSUME NEW t \in Tx, Commit(t)
      PROVE  ReceiptAdvances(receipt[k], receipt'[k])
  <2>1. receipt' = [receipt EXCEPT ![env[t].key] = NewReceipt(t)]
    BY <1>2, CommitWrites
  <2>2. CASE k # env[t].key
    BY <2>1, <2>2 DEF ReceiptAdvances, SpineInv, TypeOK
  <2>3. CASE k = env[t].key
    <3>1. receipt'[k] = NewReceipt(t) /\ NewReceipt(t) \in ReceiptRow
      BY <1>2, <2>1, <2>3, CommitWrites DEF SpineInv, TypeOK
    <3>2. \/ receipt[k] = Absent
          \/ /\ receipt[k].state = "reserved"
             /\ receipt[k].commandId = env[t].commandId
             /\ receipt[k].hash = env[t].hash
             /\ CommittedState(t) # "reserved"
      BY <1>2, <2>3, CommitWrites
    <3>3. CommittedState(t) \in {"reserved", "accepted", "rejected"}
      BY CommittedStateType DEF SpineInv
    <3> QED BY <3>1, <3>2, <3>3 DEF ReceiptAdvances, NewReceipt
  <2> QED BY <2>2, <2>3
<1>3. (\A t \in Tx : ~Commit(t)) => UNCHANGED receipt
  BY DEF Next, Step, Begin, InsertReceipt, SelectReceipt, Answer, LockRecord, AppendPlanning,
         AppendActivity, FinalizeReceipt, Abort, Rollback, AllServed, vars, tables
<1> QED BY <1>1, <1>2, <1>3

\* A finalized receipt is never rewritten, and a reservation keeps its identity.
THEOREM ReceiptsAdvanceOnly == Spec => ReceiptsOnlyAdvance
<1>1. SpineInv /\ [Next]_vars => [\A k \in Key : ReceiptAdvances(receipt[k], receipt'[k])]_vars
  BY StepAdvances
<1> QED BY <1>1, SpineInvariant, PTL DEF Spec, ReceiptsOnlyAdvance

============================================================================
