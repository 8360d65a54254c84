---------------------------- MODULE WorkerProofs ----------------------------
(***************************************************************************)
(* Proofs about two things the workers do: TaskDone with its close outbox, *)
(* for any number of tasks, sessions, confirmations, checks and runs of    *)
(* the outbox; and DoctorCadence, the scheduled doctor scan, for all       *)
(* cadences, wake intervals, leases and scan times.                        *)
(***************************************************************************)
EXTENDS TaskDone, DoctorCadence, FiniteSetTheorems, TLAPS

-----------------------------------------------------------------------------
(* Claims of the outbox: a token names the run that may save, the row it   *)
(* names has attempts left, and that run still knows how many.             *)
ClaimsHeld ==
  /\ \A t \in Tasks : entry[t].token # NoWorker => entry[t].state = "processing"
  /\ \A t \in Tasks : entry[t].state = "processing" => entry[t].attempts < MaxAttempts
  /\ \A w \in Workers, t \in Tasks :
       entry[t].token = w /\ batch[w][t] # NotClaimed => batch[w][t] = entry[t].attempts
  /\ \A w \in Workers :
       answer[w] # NoAnswer =>
         answer[w].task \in Tasks /\ batch[w][answer[w].task] # NotClaimed

OutboxInv == OutboxTypeOK /\ ClaimsHeld /\ DeadMeansExhausted

(* What a session in the middle of a Done may rely on. *)
DoneInProgress ==
  \A s \in Sessions : call[s].op \in {"confirm", "commit"} => review[call[s].task] = "approved"

(* Confirmations: one that is unspent has paid for nothing, a Done that    *)
(* has updated its confirmation holds a live one, and holds it alone.      *)
Spending ==
  /\ \A n \in Nonces : conf[n].user # NoUser /\ ~conf[n].consumed => bought[n] = 0
  /\ \A s \in Sessions :
       call[s].op = "commit" =>
         conf[call[s].nonce].user # NoUser /\ ~conf[call[s].nonce].consumed
  /\ \A r, s \in Sessions :
       r # s /\ call[r].op = "commit" /\ call[s].op = "commit" => call[r].nonce # call[s].nonce

IInv ==
  /\ TypeOK
  /\ ClaimsHeld
  /\ DeadMeansExhausted
  /\ DoneHasApproval
  /\ DoneInProgress
  /\ ConfirmationSpentOnce
  /\ Spending
  /\ DoneLeavesIntent

-----------------------------------------------------------------------------
(* The row a run writes when it claims, as the claim leaves it. *)
LEMMA ClaimKeeps ==
  ASSUME NEW w \in Workers, OutboxInv, Claim(w)
  PROVE  OutboxInv'
<1> USE OutboxAssumption
<1>1. PICK S \in SUBSET {t \in Tasks : Claimable(t)} :
        /\ entry' = [t \in Tasks |->
             IF t \in S
               THEN [entry[t] EXCEPT !.state = "processing", !.token = w, !.overdue = FALSE]
             ELSE IF Exhausted(t)
               THEN [entry[t] EXCEPT !.state = "dead", !.token = NoWorker, !.overdue = FALSE]
             ELSE entry[t]]
        /\ batch' = [batch EXCEPT ![w] = [t \in Tasks |-> IF t \in S THEN entry[t].attempts
                                                                     ELSE NotClaimed]]
  BY DEF Claim
<1>2. answer' = answer /\ answer[w] = NoAnswer
  BY DEF Claim
<1>3. \A t \in S : t \in Tasks /\ Claimable(t)
  OBVIOUS
<1>4. ASSUME NEW t \in Tasks
      PROVE  /\ entry'[t] \in Entries
             /\ entry'[t].attempts = entry[t].attempts
             /\ \/ t \in S /\ entry'[t].state = "processing" /\ entry'[t].token = w
                \/ /\ t \notin S /\ Exhausted(t)
                   /\ entry'[t].state = "dead" /\ entry'[t].token = NoWorker
                \/ t \notin S /\ entry'[t] = entry[t]
  <2>0. entry[t] \in Entries
    BY DEF OutboxInv, OutboxTypeOK
  <2>1. CASE t \in S
    <3>1. entry'[t] = [entry[t] EXCEPT !.state = "processing", !.token = w, !.overdue = FALSE]
      BY <2>1, <1>1
    <3> QED
      BY <2>0, <2>1, <3>1 DEF Entries, States
  <2>2. CASE t \notin S /\ Exhausted(t)
    <3>1. entry'[t] = [entry[t] EXCEPT !.state = "dead", !.token = NoWorker, !.overdue = FALSE]
      BY <2>2, <1>1
    <3> QED
      BY <2>0, <2>2, <3>1 DEF Entries, States
  <2>3. CASE t \notin S /\ ~Exhausted(t)
    <3>1. entry'[t] = entry[t]
      BY <2>3, <1>1
    <3> QED
      BY <2>0, <2>3, <3>1
  <2> QED
    BY <2>1, <2>2, <2>3
<1>5. OutboxTypeOK'
  <2>1. entry' \in [Tasks -> Entries]
    <3>1. entry' = [t \in Tasks |-> entry'[t]]
      BY <1>1
    <3> QED
      BY <3>1, <1>4
  <2>2. batch' \in [Workers -> [Tasks -> 0..MaxAttempts]]
    <3> DEFINE taken == [t \in Tasks |-> IF t \in S THEN entry[t].attempts ELSE NotClaimed]
    <3>1. taken \in [Tasks -> 0..MaxAttempts]
      BY DEF OutboxInv, OutboxTypeOK, Entries, NotClaimed
    <3>2. batch' = [batch EXCEPT ![w] = taken]
      BY <1>1
    <3> HIDE DEF taken
    <3> QED
      BY <3>1, <3>2 DEF OutboxInv, OutboxTypeOK
  <2> QED
    BY <1>2, <2>1, <2>2 DEF OutboxInv, OutboxTypeOK
<1>6. ClaimsHeld'
  <2>1. \A t \in Tasks : entry'[t].token # NoWorker => entry'[t].state = "processing"
    BY <1>4 DEF OutboxInv, ClaimsHeld
  <2>2. \A t \in Tasks : entry'[t].state = "processing" => entry'[t].attempts < MaxAttempts
    BY <1>3, <1>4 DEF OutboxInv, ClaimsHeld, Claimable
  <2>3. ASSUME NEW v \in Workers, NEW t \in Tasks, entry'[t].token = v,
               batch'[v][t] # NotClaimed
        PROVE  batch'[v][t] = entry'[t].attempts
    <3>1. CASE t \in S
      BY <3>1, <2>3, <1>1 DEF OutboxInv, OutboxTypeOK, Entries
    <3>2. CASE t \notin S
      <4>1. v # w
        BY <3>2, <2>3, <1>1 DEF OutboxInv, OutboxTypeOK
      <4>2. batch'[v] = batch[v]
        BY <4>1, <1>1 DEF OutboxInv, OutboxTypeOK
      <4>3. entry'[t] = entry[t]
        BY <3>2, <2>3, <1>4
      <4> QED
        BY <2>3, <4>2, <4>3 DEF OutboxInv, ClaimsHeld
    <3> QED
      BY <3>1, <3>2
  <2>4. ASSUME NEW v \in Workers, answer'[v] # NoAnswer
        PROVE  answer'[v].task \in Tasks /\ batch'[v][answer'[v].task] # NotClaimed
    <3>1. v # w
      BY <2>4, <1>2
    <3>2. batch'[v] = batch[v]
      BY <3>1, <1>1 DEF OutboxInv, OutboxTypeOK
    <3> QED
      BY <2>4, <1>2, <3>2 DEF OutboxInv, ClaimsHeld
  <2> QED
    BY <2>1, <2>2, <2>3, <2>4 DEF ClaimsHeld, NotClaimed
<1>7. DeadMeansExhausted'
  <2>1. \A t \in Tasks : entry[t].attempts \in 0..MaxAttempts
    BY DEF OutboxInv, OutboxTypeOK, Entries
  <2> QED
    BY <1>4, <2>1 DEF OutboxInv, DeadMeansExhausted, Exhausted
<1> QED
  BY <1>5, <1>6, <1>7 DEF OutboxInv

(* The run that saves holds the claim it saves under, or writes nothing. *)
LEMMA SaveKeeps ==
  ASSUME NEW w \in Workers, OutboxInv, answer[w] # NoAnswer,
         NEW nextBatch, nextBatch \in [Workers -> [Tasks -> 0..MaxAttempts]],
         \A v \in Workers \ {w} : nextBatch[v] = batch[v],
         \A t \in Tasks : nextBatch[w][t] \in {batch[w][t], NotClaimed},
         entry' = SavedRow(w, answer[w].task),
         batch' = nextBatch,
         answer' = [answer EXCEPT ![w] = NoAnswer]
  PROVE  OutboxInv'
<1> USE OutboxAssumption
<1> DEFINE t0 == answer[w].task
<1>1. t0 \in Tasks /\ batch[w][t0] # NotClaimed /\ batch[w][t0] \in 0..MaxAttempts
  BY DEF OutboxInv, ClaimsHeld, OutboxTypeOK
<1>2. answer[w].closed \in BOOLEAN
  BY DEF OutboxInv, OutboxTypeOK, Answers, NoAnswer
<1>3. answer' \in [Workers -> Answers]
  BY DEF OutboxInv, OutboxTypeOK, Answers
<1>4. ASSUME NEW v \in Workers, answer'[v] # NoAnswer
      PROVE  answer'[v].task \in Tasks /\ batch'[v][answer'[v].task] # NotClaimed
  <2>1. v # w /\ answer'[v] = answer[v]
    BY <1>4 DEF OutboxInv, OutboxTypeOK
  <2>2. batch'[v] = batch[v]
    BY <2>1
  <2> QED
    BY <1>4, <2>1, <2>2 DEF OutboxInv, ClaimsHeld
<1>5. CASE Fenced(w, t0)
  <2> DEFINE saved == Saved(w, t0)
  <2>1. /\ entry[t0] \in Entries /\ entry[t0].token = w /\ w # NoWorker
        /\ entry[t0].state = "processing" /\ entry[t0].attempts < MaxAttempts
        /\ batch[w][t0] = entry[t0].attempts
    BY <1>1, <1>5 DEF Fenced, OutboxInv, OutboxTypeOK, ClaimsHeld
  <2>2. /\ saved.state = IF answer[w].closed THEN "closed"
                       ELSE IF batch[w][t0] + 1 >= MaxAttempts THEN "dead" ELSE "failed"
        /\ saved.attempts = entry[t0].attempts + 1
        /\ saved.token = NoWorker
    BY <2>1 DEF Saved, Entries
  <2>3. entry[t0].attempts + 1 \in 0..MaxAttempts
    BY <2>1 DEF Entries
  <2>4. saved \in Entries
    BY <2>1, <2>2, <2>3, <1>2 DEF Saved, Entries, States
  <2>5. entry' = [entry EXCEPT ![t0] = saved]
    BY <1>5 DEF SavedRow
  <2> HIDE DEF saved
  <2>6. entry' \in [Tasks -> Entries]
    BY <2>4, <2>5, <1>1 DEF OutboxInv, OutboxTypeOK
  <2>7. ASSUME NEW t \in Tasks
        PROVE  \/ t = t0 /\ entry'[t] = saved
               \/ t # t0 /\ entry'[t] = entry[t]
    BY <2>5, <1>1 DEF OutboxInv, OutboxTypeOK
  <2>8. saved.state # "processing" /\ saved.state # "none"
    BY <2>2
  <2>9. saved.state = "dead" => saved.attempts = MaxAttempts
    BY <2>1, <2>2, <2>3 DEF Entries
  <2>10. ClaimsHeld'
    <3>1. \A t \in Tasks : entry'[t].token # NoWorker => entry'[t].state = "processing"
      BY <2>2, <2>7 DEF OutboxInv, ClaimsHeld
    <3>2. \A t \in Tasks : entry'[t].state = "processing" => entry'[t].attempts < MaxAttempts
      BY <2>7, <2>8 DEF OutboxInv, ClaimsHeld
    <3>3. ASSUME NEW v \in Workers, NEW t \in Tasks, entry'[t].token = v,
                 batch'[v][t] # NotClaimed
          PROVE  batch'[v][t] = entry'[t].attempts
      <4>1. t # t0 /\ entry'[t] = entry[t]
        BY <3>3, <2>2, <2>7
      <4>2. batch'[v][t] = batch[v][t]
        BY <3>3
      <4> QED
        BY <3>3, <4>1, <4>2 DEF OutboxInv, ClaimsHeld
    <3> QED
      BY <3>1, <3>2, <3>3, <1>4 DEF ClaimsHeld, NotClaimed
  <2>11. DeadMeansExhausted'
    BY <2>7, <2>9 DEF OutboxInv, DeadMeansExhausted
  <2> QED
    BY <1>3, <2>6, <2>10, <2>11 DEF OutboxInv, OutboxTypeOK
<1>6. CASE ~Fenced(w, t0)
  <2>1. entry' = entry
    BY <1>6 DEF SavedRow
  <2>2. ASSUME NEW v \in Workers, NEW t \in Tasks, entry'[t].token = v,
               batch'[v][t] # NotClaimed
        PROVE  batch'[v][t] = entry'[t].attempts
    <3>1. batch'[v][t] = batch[v][t]
      BY <2>2
    <3> QED
      BY <2>1, <2>2, <3>1 DEF OutboxInv, ClaimsHeld
  <2>3. ClaimsHeld'
    BY <2>1, <2>2, <1>4 DEF OutboxInv, ClaimsHeld, NotClaimed
  <2> QED
    BY <1>3, <2>1, <2>3 DEF OutboxInv, OutboxTypeOK, DeadMeansExhausted
<1> QED
  BY <1>5, <1>6

(* One step of the outbox keeps its invariant, and leaves alone what is    *)
(* settled and what was never enqueued.                                    *)
LEMMA OutboxStep ==
  ASSUME OutboxInv, OutboxNext
  PROVE  /\ OutboxInv'
         /\ \A t \in Tasks : entry[t].state \in Settled => entry'[t] = entry[t]
         /\ \A t \in Tasks : entry[t].state # "none" => entry'[t].state # "none"
<1> USE OutboxAssumption
<1>1. ASSUME NEW w \in Workers, Claim(w)
      PROVE  /\ OutboxInv'
             /\ \A t \in Tasks : entry[t].state \in Settled => entry'[t] = entry[t]
             /\ \A t \in Tasks : entry[t].state # "none" => entry'[t].state # "none"
  <2>1. OutboxInv'
    BY <1>1, ClaimKeeps
  <2>2. PICK S \in SUBSET {t \in Tasks : Claimable(t)} :
          entry' = [t \in Tasks |->
            IF t \in S
              THEN [entry[t] EXCEPT !.state = "processing", !.token = w, !.overdue = FALSE]
            ELSE IF Exhausted(t)
              THEN [entry[t] EXCEPT !.state = "dead", !.token = NoWorker, !.overdue = FALSE]
            ELSE entry[t]]
    BY <1>1 DEF Claim
  <2>3. ASSUME NEW t \in Tasks
        PROVE  /\ entry[t].state \in Settled => entry'[t] = entry[t]
               /\ entry[t].state # "none" => entry'[t].state # "none"
    <3>0. entry[t] \in Entries
      BY DEF OutboxInv, OutboxTypeOK
    <3>1. CASE t \in S
      <4>1. entry'[t] = [entry[t] EXCEPT !.state = "processing", !.token = w, !.overdue = FALSE]
        BY <3>1, <2>2
      <4>2. Claimable(t)
        BY <3>1
      <4> QED
        BY <3>0, <4>1, <4>2 DEF Claimable, Settled, Entries
    <3>2. CASE t \notin S /\ Exhausted(t)
      <4>1. entry'[t] = [entry[t] EXCEPT !.state = "dead", !.token = NoWorker, !.overdue = FALSE]
        BY <3>2, <2>2
      <4> QED
        BY <3>0, <3>2, <4>1 DEF Exhausted, Settled, Entries
    <3>3. CASE t \notin S /\ ~Exhausted(t)
      BY <3>3, <2>2
    <3> QED
      BY <3>1, <3>2, <3>3
  <2> QED
    BY <2>1, <2>3
<1>2. ASSUME NEW w \in Workers, CloseIssue(w)
      PROVE  OutboxInv' /\ entry' = entry
  <2>1. PICK t \in Tasks, closed \in BOOLEAN :
          /\ batch[w][t] # NotClaimed
          /\ answer' = [answer EXCEPT ![w] = [task |-> t, closed |-> closed]]
    BY <1>2 DEF CloseIssue
  <2>2. entry' = entry /\ batch' = batch
    BY <1>2 DEF CloseIssue
  <2>3. answer' \in [Workers -> Answers]
    BY <2>1 DEF OutboxInv, OutboxTypeOK, Answers
  <2>4. ASSUME NEW v \in Workers, answer'[v] # NoAnswer
        PROVE  answer'[v].task \in Tasks /\ batch'[v][answer'[v].task] # NotClaimed
    <3>1. CASE v = w
      BY <3>1, <2>1, <2>2 DEF OutboxInv, OutboxTypeOK
    <3>2. CASE v # w
      BY <3>2, <2>1, <2>2, <2>4 DEF OutboxInv, OutboxTypeOK, ClaimsHeld
    <3> QED
      BY <3>1, <3>2
  <2>5. ClaimsHeld'
    BY <2>2, <2>4 DEF OutboxInv, ClaimsHeld, NotClaimed
  <2> QED
    BY <2>2, <2>3, <2>5 DEF OutboxInv, OutboxTypeOK, DeadMeansExhausted
<1>3. ASSUME NEW w \in Workers, answer[w] # NoAnswer, entry' = SavedRow(w, answer[w].task)
      PROVE  /\ \A t \in Tasks : entry[t].state \in Settled => entry'[t] = entry[t]
             /\ \A t \in Tasks : entry[t].state # "none" => entry'[t].state # "none"
  <2> DEFINE t0 == answer[w].task
  <2>1. t0 \in Tasks
    BY <1>3 DEF OutboxInv, ClaimsHeld
  <2>2. CASE Fenced(w, t0)
    <3>1. entry[t0] \in Entries /\ entry[t0].state = "processing"
      BY <2>1, <2>2 DEF Fenced, OutboxInv, OutboxTypeOK, ClaimsHeld
    <3>2. Saved(w, t0).state # "none"
      BY <3>1 DEF Saved, Entries
    <3>3. entry' = [entry EXCEPT ![t0] = Saved(w, t0)]
      BY <1>3, <2>2 DEF SavedRow
    <3>4. \A t \in Tasks : t # t0 => entry'[t] = entry[t]
      BY <3>3 DEF OutboxInv, OutboxTypeOK
    <3>5. entry'[t0] = Saved(w, t0)
      BY <2>1, <3>3 DEF OutboxInv, OutboxTypeOK
    <3> QED
      BY <3>1, <3>2, <3>4, <3>5 DEF Settled
  <2>3. CASE ~Fenced(w, t0)
    BY <1>3, <2>3 DEF SavedRow
  <2> QED
    BY <2>2, <2>3
<1>4. ASSUME NEW w \in Workers, Save(w)
      PROVE  OutboxInv'
  <2> DEFINE nextBatch == [batch EXCEPT ![w][answer[w].task] = NotClaimed]
  <2>1. answer[w].task \in Tasks
    BY <1>4 DEF Save, OutboxInv, ClaimsHeld
  <2>2. /\ nextBatch \in [Workers -> [Tasks -> 0..MaxAttempts]]
        /\ \A v \in Workers \ {w} : nextBatch[v] = batch[v]
        /\ \A t \in Tasks : nextBatch[w][t] \in {batch[w][t], NotClaimed}
    BY <2>1 DEF OutboxInv, OutboxTypeOK, NotClaimed
  <2>3. batch' = nextBatch
    BY <1>4 DEF Save
  <2> HIDE DEF nextBatch
  <2> QED
    BY <1>4, <2>2, <2>3, SaveKeeps DEF Save
<1>5. ASSUME NEW w \in Workers, RunDies(w)
      PROVE  /\ OutboxInv'
             /\ \/ entry' = entry
                \/ answer[w] # NoAnswer /\ entry' = SavedRow(w, answer[w].task)
  <2> DEFINE nextBatch == [batch EXCEPT ![w] = NoBatch]
  <2>1. /\ nextBatch \in [Workers -> [Tasks -> 0..MaxAttempts]]
        /\ \A v \in Workers \ {w} : nextBatch[v] = batch[v]
        /\ \A t \in Tasks : nextBatch[w][t] = NotClaimed
    BY DEF OutboxInv, OutboxTypeOK, NotClaimed, NoBatch
  <2>2. batch' = nextBatch /\ answer' = [answer EXCEPT ![w] = NoAnswer]
    BY <1>5 DEF RunDies
  <2> HIDE DEF nextBatch
  <2>3. CASE answer[w] # NoAnswer /\ entry' = SavedRow(w, answer[w].task)
    BY <2>1, <2>2, <2>3, SaveKeeps
  <2>4. CASE entry' = entry
    <3>1. ASSUME NEW v \in Workers, NEW t \in Tasks, entry'[t].token = v,
                 batch'[v][t] # NotClaimed
          PROVE  batch'[v][t] = entry'[t].attempts
      <4>1. batch'[v][t] = batch[v][t]
        BY <2>1, <2>2, <3>1
      <4> QED
        BY <2>4, <3>1, <4>1 DEF OutboxInv, ClaimsHeld
    <3>2. answer' \in [Workers -> Answers]
      BY <2>2 DEF OutboxInv, OutboxTypeOK, Answers
    <3>3. ASSUME NEW v \in Workers, answer'[v] # NoAnswer
          PROVE  answer'[v].task \in Tasks /\ batch'[v][answer'[v].task] # NotClaimed
      <4>1. v # w /\ answer'[v] = answer[v]
        BY <2>2, <3>3 DEF OutboxInv, OutboxTypeOK
      <4>2. batch'[v] = batch[v]
        BY <2>1, <2>2, <4>1
      <4> QED
        BY <3>3, <4>1, <4>2 DEF OutboxInv, ClaimsHeld
    <3>4. ClaimsHeld'
      BY <2>4, <3>1, <3>3 DEF OutboxInv, ClaimsHeld, NotClaimed
    <3> QED
      BY <2>1, <2>2, <2>4, <3>2, <3>4 DEF OutboxInv, OutboxTypeOK, DeadMeansExhausted
  <2> QED
    BY <1>5, <2>3, <2>4 DEF RunDies
<1>6. ASSUME NEW t \in Tasks, BackoffEnds(t) \/ ClaimTimesOut(t)
      PROVE  /\ OutboxInv'
             /\ \A u \in Tasks : entry[u].state \in Settled => entry'[u] = entry[u]
             /\ \A u \in Tasks : entry[u].state # "none" => entry'[u].state # "none"
  <2>1. batch' = batch /\ answer' = answer
    BY <1>6 DEF BackoffEnds, ClaimTimesOut
  <2>2. entry[t] \in Entries /\ entry[t].state \notin Settled
    BY <1>6 DEF OutboxInv, OutboxTypeOK, BackoffEnds, ClaimTimesOut, Settled
  <2>3. /\ entry' \in [Tasks -> Entries]
        /\ \A u \in Tasks : u # t => entry'[u] = entry[u]
        /\ entry'[t].state = entry[t].state /\ entry'[t].token = entry[t].token
        /\ entry'[t].attempts = entry[t].attempts
    <3>1. CASE BackoffEnds(t)
      BY <3>1, <2>2 DEF OutboxInv, OutboxTypeOK, BackoffEnds, Entries
    <3>2. CASE ClaimTimesOut(t)
      BY <3>2, <2>2 DEF OutboxInv, OutboxTypeOK, ClaimTimesOut, Entries
    <3> QED
      BY <1>6, <3>1, <3>2
  <2>4. \A u \in Tasks : /\ entry'[u].state = entry[u].state
                         /\ entry'[u].token = entry[u].token
                         /\ entry'[u].attempts = entry[u].attempts
    BY <2>3
  <2>5. ClaimsHeld' /\ DeadMeansExhausted'
    BY <2>1, <2>4 DEF OutboxInv, ClaimsHeld, DeadMeansExhausted, NotClaimed
  <2> QED
    BY <2>1, <2>2, <2>3, <2>4, <2>5 DEF OutboxInv, OutboxTypeOK
<1>7. CASE \E w \in Workers : Claim(w)
  BY <1>7, <1>1
<1>8. CASE \E w \in Workers : CloseIssue(w)
  BY <1>8, <1>2
<1>9. CASE \E w \in Workers : Save(w)
  BY <1>9, <1>3, <1>4 DEF Save
<1>10. CASE \E w \in Workers : RunDies(w)
  BY <1>10, <1>3, <1>5
<1>11. CASE \E t \in Tasks : BackoffEnds(t) \/ ClaimTimesOut(t)
  BY <1>11, <1>6
<1> QED
  BY <1>7, <1>8, <1>9, <1>10, <1>11 DEF OutboxNext

-----------------------------------------------------------------------------
(* The fields a session's call has, by the command it is in the middle of. *)
LEMMA CallShape ==
  ASSUME TypeOK, NEW s \in Sessions
  PROVE  /\ call[s] \in Calls
         /\ call[s].op \in {"confirm", "commit"} =>
              /\ call[s].task \in Tasks /\ call[s].nonce \in Nonces
              /\ call[s].inTime \in BOOLEAN /\ call[s].card \in BOOLEAN
              /\ [call[s] EXCEPT !.op = "commit"] \in Calls
              /\ [call[s] EXCEPT !.op = "commit"].op = "commit"
              /\ [call[s] EXCEPT !.op = "commit"].task = call[s].task
              /\ [call[s] EXCEPT !.op = "commit"].nonce = call[s].nonce
         /\ call[s].op \in {"insertAdd", "add", "toggle"} =>
              /\ call[s].task \in Tasks /\ call[s].check \in Checks
              /\ call[s].state \in CheckStates
         /\ call[s].op = "insertAdd" =>
              /\ [call[s] EXCEPT !.op = "add", !.row = TRUE] \in Calls
              /\ [call[s] EXCEPT !.op = "add", !.row = TRUE].op = "add"
         /\ call[s].op \in {"insertApprove", "approve"} => call[s].task \in Tasks
         /\ call[s].op = "insertApprove" =>
              /\ [call[s] EXCEPT !.op = "approve", !.row = TRUE] \in Calls
              /\ [call[s] EXCEPT !.op = "approve", !.row = TRUE].op = "approve"
<1>1. call[s] \in Calls
  BY DEF TypeOK
<1>2. CASE call[s] = Idle
  BY <1>1, <1>2 DEF Idle
<1>3. CASE call[s] \in [op : {"insertAdd", "add", "toggle"}, task : Tasks, check : Checks,
                        state : CheckStates, row : BOOLEAN]
  BY <1>1, <1>3 DEF Calls
<1>4. CASE call[s] \in [op : {"insertApprove", "approve"}, task : Tasks, row : BOOLEAN]
  BY <1>1, <1>4 DEF Calls
<1>5. CASE call[s] \in [op : {"confirm", "commit"}, task : Tasks, nonce : Nonces,
                        inTime : BOOLEAN, card : BOOLEAN]
  BY <1>1, <1>5 DEF Calls
<1> QED
  BY <1>1, <1>2, <1>3, <1>4, <1>5 DEF Calls

(* Steps about reviews and checks, and rollbacks: they take no approval    *)
(* back and enter no Done.                                                 *)
LEMMA ReviewStep ==
  ASSUME IInv, NEW s \in Sessions,
         UNCHANGED <<done, conf, bought, promised, outboxVars>>,
         call' \in [Sessions -> Calls],
         \A r \in Sessions \ {s} : call'[r] = call[r],
         call'[s].op \notin {"confirm", "commit"},
         review' \in [Tasks -> {"none", "open", "approved"}],
         \A t \in Tasks : review[t] = "approved" => review'[t] = "approved",
         check' \in [Tasks -> [Checks -> CheckStates \union {"none"}]]
  PROVE  IInv'
<1>1. TypeOK'
  BY DEF IInv, TypeOK, OutboxTypeOK, outboxVars
<1>2. ClaimsHeld' /\ DeadMeansExhausted' /\ DoneLeavesIntent' /\ ConfirmationSpentOnce'
  BY DEF IInv, ClaimsHeld, DeadMeansExhausted, DoneLeavesIntent, ConfirmationSpentOnce,
         outboxVars, NotClaimed, NoAnswer
<1>3. DoneHasApproval'
  BY DEF IInv, DoneHasApproval, TypeOK
<1>4. DoneInProgress'
  <2>1. ASSUME NEW r \in Sessions, call'[r].op \in {"confirm", "commit"}
        PROVE  review'[call'[r].task] = "approved"
    <3>1. call'[r] = call[r]
      BY <2>1
    <3>2. call[r].task \in Tasks
      BY <2>1, <3>1, CallShape DEF IInv
    <3> QED
      BY <2>1, <3>1, <3>2 DEF IInv, DoneInProgress
  <2> QED
    BY <2>1 DEF DoneInProgress
<1>5. Spending'
  <2>1. \A r \in Sessions : call'[r].op = "commit" => call'[r] = call[r]
    OBVIOUS
  <2> QED
    BY <2>1 DEF IInv, Spending
<1> QED
  BY <1>1, <1>2, <1>3, <1>4, <1>5 DEF IInv

(* The reads of the commands on reviews and checks. *)
LEMMA QuietReview ==
  ASSUME IInv, NEW s \in Sessions, NEW t \in Tasks,
         EnsureReview(s, t) \/ ApproveSelect(s, t) \/ ApproveRead(s, t)
  PROVE  IInv'
<1>1. call \in [Sessions -> Calls] /\ review \in [Tasks -> {"none", "open", "approved"}]
  BY DEF IInv, TypeOK
<1>2. check \in [Tasks -> [Checks -> CheckStates \union {"none"}]] /\ check' = check
  BY DEF IInv, TypeOK, EnsureReview, ApproveSelect, ApproveRead
<1>3. UNCHANGED <<done, conf, bought, promised, outboxVars>>
  BY DEF EnsureReview, ApproveSelect, ApproveRead
<1>4. CASE EnsureReview(s, t)
  <2>1. call' = call /\ call[s] = Idle
    BY <1>4 DEF EnsureReview
  <2>2. /\ review' \in [Tasks -> {"none", "open", "approved"}]
        /\ \A u \in Tasks : review[u] = "approved" => review'[u] = "approved"
    BY <1>1, <1>4 DEF EnsureReview, Ensured
  <2> QED
    BY <1>1, <1>2, <1>3, <2>1, <2>2, ReviewStep DEF Idle
<1>5. ASSUME NEW op \in {"insertApprove", "approve"},
             Begin(s, [op |-> op, task |-> t, row |-> FALSE]), review' = review
      PROVE  IInv'
  <2> DEFINE d == [op |-> op, task |-> t, row |-> FALSE]
  <2>1. d \in Calls /\ d.op \in {"insertApprove", "approve"}
    BY DEF Calls
  <2>2. call' = [call EXCEPT ![s] = d]
    BY <1>5 DEF Begin
  <2> QED
    BY <1>1, <1>2, <1>3, <1>5, <2>1, <2>2, ReviewStep
<1> QED
  BY <1>4, <1>5 DEF ApproveSelect, ApproveRead

LEMMA QuietCheck ==
  ASSUME IInv, NEW s \in Sessions, NEW t \in Tasks, NEW c \in Checks, NEW v \in CheckStates,
         AddSelect(s, t, c, v) \/ AddRead(s, t, c, v) \/ ToggleRead(s, t, c, v)
  PROVE  IInv'
<1>1. call \in [Sessions -> Calls] /\ review \in [Tasks -> {"none", "open", "approved"}]
  BY DEF IInv, TypeOK
<1>2. check \in [Tasks -> [Checks -> CheckStates \union {"none"}]]
  BY DEF IInv, TypeOK
<1>3. /\ UNCHANGED <<done, conf, bought, promised, outboxVars>>
      /\ review' = review /\ check' = check
  BY DEF AddSelect, AddRead, ToggleRead
<1>4. ASSUME NEW op \in {"insertAdd", "add", "toggle"},
             Begin(s, [op |-> op, task |-> t, check |-> c, state |-> v, row |-> FALSE])
      PROVE  IInv'
  <2> DEFINE d == [op |-> op, task |-> t, check |-> c, state |-> v, row |-> FALSE]
  <2>1. d \in Calls /\ d.op \in {"insertAdd", "add", "toggle"}
    BY DEF Calls
  <2>2. call' = [call EXCEPT ![s] = d]
    BY <1>4 DEF Begin
  <2> QED
    BY <1>1, <1>2, <1>3, <2>1, <2>2, ReviewStep
<1> QED
  BY <1>4 DEF AddSelect, AddRead, ToggleRead

(* The inserts of a review row: they wait, lock and decide. *)
LEMMA InsertKeeps ==
  ASSUME IInv, NEW s \in Sessions, AddInsert(s) \/ ApproveInsert(s)
  PROVE  IInv'
<1>1. call \in [Sessions -> Calls] /\ review \in [Tasks -> {"none", "open", "approved"}]
  BY DEF IInv, TypeOK
<1>2. check \in [Tasks -> [Checks -> CheckStates \union {"none"}]]
  BY DEF IInv, TypeOK
<1>3. /\ UNCHANGED <<done, conf, bought, promised, outboxVars>>
      /\ review' = review /\ check' = check
  BY DEF AddInsert, ApproveInsert
<1>4. PICK d \in Calls : call' = [call EXCEPT ![s] = d] /\ d.op \in {"idle", "add", "approve"}
  <2>1. Idle \in Calls /\ Idle.op = "idle"
    BY DEF Calls, Idle
  <2>2. CASE AddInsert(s)
    <3> DEFINE d == [call[s] EXCEPT !.op = "add", !.row = TRUE]
    <3>1. d \in Calls /\ d.op = "add"
      BY <2>2, CallShape DEF AddInsert, IInv
    <3>2. call' = [call EXCEPT ![s] = d] \/ call' = [call EXCEPT ![s] = Idle]
      BY <2>2 DEF AddInsert, Begin, End
    <3> QED
      BY <2>1, <3>1, <3>2
  <2>3. CASE ApproveInsert(s)
    <3> DEFINE d == [call[s] EXCEPT !.op = "approve", !.row = TRUE]
    <3>1. d \in Calls /\ d.op = "approve"
      BY <2>3, CallShape DEF ApproveInsert, IInv
    <3>2. call' = [call EXCEPT ![s] = d] \/ call' = [call EXCEPT ![s] = Idle]
      BY <2>3 DEF ApproveInsert, Begin, End
    <3> QED
      BY <2>1, <3>1, <3>2
  <2> QED
    BY <2>2, <2>3
<1> QED
  BY <1>1, <1>2, <1>3, <1>4, ReviewStep

(* The writes of the commands on reviews and checks, and rollbacks. *)
LEMMA ReviewWrites ==
  ASSUME IInv, NEW s \in Sessions,
         \/ AddWrite(s) \/ ToggleWrite(s) \/ ApproveWrite(s) \/ EnqueueFails(s) \/ Abort(s)
  PROVE  IInv'
<1>1. call \in [Sessions -> Calls] /\ review \in [Tasks -> {"none", "open", "approved"}]
  BY DEF IInv, TypeOK
<1>2. check \in [Tasks -> [Checks -> CheckStates \union {"none"}]]
  BY DEF IInv, TypeOK
<1>3. /\ call' \in [Sessions -> Calls] /\ call'[s].op \notin {"confirm", "commit"}
      /\ \A r \in Sessions \ {s} : call'[r] = call[r]
  <2>1. call' = [call EXCEPT ![s] = Idle]
    BY DEF AddWrite, ToggleWrite, ApproveWrite, EnqueueFails, Abort, End
  <2>2. Idle \in Calls /\ Idle.op = "idle"
    BY DEF Calls, Idle
  <2> QED
    BY <1>1, <2>1, <2>2
<1>4. UNCHANGED <<done, conf, bought, promised, outboxVars>>
  BY DEF AddWrite, ToggleWrite, ApproveWrite, EnqueueFails, Abort
<1>5. /\ review' \in [Tasks -> {"none", "open", "approved"}]
      /\ \A u \in Tasks : review[u] = "approved" => review'[u] = "approved"
      /\ check' \in [Tasks -> [Checks -> CheckStates \union {"none"}]]
  <2>1. CASE AddWrite(s)
    <3>1. call[s].task \in Tasks /\ call[s].check \in Checks /\ call[s].state \in CheckStates
      BY <2>1, CallShape DEF AddWrite, IInv
    <3>2. review' = [review EXCEPT ![call[s].task] = Ensured(call[s].task)]
      BY <2>1 DEF AddWrite
    <3>3. check' = [check EXCEPT ![call[s].task][call[s].check] =
                      IF @ = "none" THEN call[s].state ELSE @]
      BY <2>1 DEF AddWrite
    <3>4. check' \in [Tasks -> [Checks -> CheckStates \union {"none"}]]
      BY <1>2, <3>1, <3>3
    <3> QED
      BY <1>1, <3>1, <3>2, <3>4 DEF Ensured
  <2>2. CASE ToggleWrite(s)
    <3>1. call[s].task \in Tasks /\ call[s].check \in Checks /\ call[s].state \in CheckStates
      BY <2>2, CallShape DEF ToggleWrite, IInv
    <3>2. review' = [review EXCEPT ![call[s].task] = Reopened(call[s].task)]
      BY <2>2 DEF ToggleWrite
    <3>3. check' = [check EXCEPT ![call[s].task][call[s].check] = call[s].state]
      BY <2>2 DEF ToggleWrite
    <3>4. check' \in [Tasks -> [Checks -> CheckStates \union {"none"}]]
      BY <1>2, <3>1, <3>3
    <3> QED
      BY <1>1, <3>1, <3>2, <3>4 DEF Reopened
  <2>3. CASE ApproveWrite(s)
    <3>1. call[s].task \in Tasks
      BY <2>3, CallShape DEF ApproveWrite, IInv
    <3> QED
      BY <1>1, <1>2, <2>3, <3>1 DEF ApproveWrite
  <2>4. CASE EnqueueFails(s) \/ Abort(s)
    BY <1>1, <1>2, <2>4 DEF EnqueueFails, Abort
  <2> QED
    BY <2>1, <2>2, <2>3, <2>4
<1> QED
  BY <1>3, <1>4, <1>5, ReviewStep

-----------------------------------------------------------------------------
(* Steps on confirmation rows alone: what is left to show is Spending. *)
LEMMA ConfirmationStep ==
  ASSUME IInv, UNCHANGED <<done, review, check, call, promised, outboxVars>>,
         conf' \in [Nonces -> Confirmations],
         bought' \in [Nonces -> Nat],
         \A n \in Nonces : bought'[n] <= 1,
         \A n \in Nonces : conf'[n].user # NoUser /\ ~conf'[n].consumed => bought'[n] = 0,
         \A s \in Sessions :
           call[s].op = "commit" =>
             conf'[call[s].nonce].user # NoUser /\ ~conf'[call[s].nonce].consumed
  PROVE  IInv'
<1>1. TypeOK'
  BY DEF IInv, TypeOK, OutboxTypeOK, outboxVars
<1>2. ClaimsHeld' /\ DeadMeansExhausted' /\ DoneLeavesIntent' /\ ConfirmationSpentOnce'
  BY DEF IInv, ClaimsHeld, DeadMeansExhausted, DoneLeavesIntent, ConfirmationSpentOnce,
         outboxVars, NotClaimed, NoAnswer
<1>3. DoneHasApproval' /\ DoneInProgress'
  BY DEF IInv, DoneHasApproval, DoneInProgress
<1>4. Spending'
  BY DEF IInv, Spending
<1> QED
  BY <1>1, <1>2, <1>3, <1>4 DEF IInv

LEMMA IssueKeeps ==
  ASSUME IInv, NEW s \in Sessions, NEW t \in Tasks, IssueConfirmation(s, t)
  PROVE  IInv'
<1>1. PICK n \in Nonces :
        /\ Unused(n)
        /\ conf' = [conf EXCEPT ![n] = [NoConfirmation EXCEPT !.user = UserOf[s], !.task = t]]
        /\ bought' = [bought EXCEPT ![n] = 0]
  BY DEF IssueConfirmation
<1>2. conf \in [Nonces -> Confirmations] /\ bought \in [Nonces -> Nat]
  BY DEF IInv, TypeOK
<1>3. conf' \in [Nonces -> Confirmations] /\ bought' \in [Nonces -> Nat]
  BY <1>1, <1>2, TaskAssumption DEF Confirmations, NoConfirmation
<1>4. \A m \in Nonces : m # n => conf'[m] = conf[m] /\ bought'[m] = bought[m]
  BY <1>1, <1>2
<1>5. bought'[n] = 0
  BY <1>1, <1>2
<1>6. \A r \in Sessions :
        call[r].op = "commit" => call[r].nonce \in Nonces /\ call[r].nonce # n
  BY <1>1, CallShape DEF Unused, IInv
<1>7. UNCHANGED <<done, review, check, call, promised, outboxVars>>
  BY DEF IssueConfirmation
<1>8. \A m \in Nonces : bought'[m] <= 1
  BY <1>4, <1>5 DEF IInv, ConfirmationSpentOnce
<1>9. \A m \in Nonces : conf'[m].user # NoUser /\ ~conf'[m].consumed => bought'[m] = 0
  BY <1>4, <1>5 DEF IInv, Spending
<1>10. \A r \in Sessions :
         call[r].op = "commit" =>
           conf'[call[r].nonce].user # NoUser /\ ~conf'[call[r].nonce].consumed
  BY <1>4, <1>6 DEF IInv, Spending
<1> QED
  BY <1>3, <1>7, <1>8, <1>9, <1>10, ConfirmationStep

LEMMA ExpireKeeps ==
  ASSUME IInv, NEW n \in Nonces, Expire(n)
  PROVE  IInv'
<1>1. conf \in [Nonces -> Confirmations] /\ conf' = [conf EXCEPT ![n].expired = TRUE]
  BY DEF IInv, TypeOK, Expire
<1>2. conf' \in [Nonces -> Confirmations]
  BY <1>1 DEF Confirmations
<1>3. \A m \in Nonces : conf'[m].user = conf[m].user /\ conf'[m].consumed = conf[m].consumed
  BY <1>1 DEF Confirmations
<1>4. UNCHANGED <<done, review, check, call, bought, promised, outboxVars>>
  BY DEF Expire
<1>5. \A r \in Sessions : call[r].op = "commit" => call[r].nonce \in Nonces
  BY CallShape DEF IInv
<1>6. bought' \in [Nonces -> Nat] /\ \A m \in Nonces : bought'[m] <= 1
  BY <1>4 DEF IInv, TypeOK, ConfirmationSpentOnce
<1>7. \A m \in Nonces : conf'[m].user # NoUser /\ ~conf'[m].consumed => bought'[m] = 0
  BY <1>3, <1>4 DEF IInv, Spending
<1>8. \A r \in Sessions :
        call[r].op = "commit" =>
          conf'[call[r].nonce].user # NoUser /\ ~conf'[call[r].nonce].consumed
  BY <1>3, <1>5 DEF IInv, Spending
<1> QED
  BY <1>2, <1>4, <1>6, <1>7, <1>8, ConfirmationStep

LEMMA CleanupKeeps ==
  ASSUME IInv, Cleanup
  PROVE  IInv'
<1> DEFINE gone == {n \in Nonces : conf[n].consumed \/ conf[n].expired}
<1>1. /\ \A n \in gone, s \in Sessions : n \notin Locks(s)
      /\ conf' = [n \in Nonces |-> IF n \in gone THEN NoConfirmation ELSE conf[n]]
      /\ UNCHANGED <<done, review, check, call, bought, promised, outboxVars>>
  BY DEF Cleanup
<1>2. conf \in [Nonces -> Confirmations] /\ NoConfirmation \in Confirmations
  BY DEF IInv, TypeOK, Confirmations, NoConfirmation
<1>3. NoConfirmation.user = NoUser
  BY DEF NoConfirmation
<1> HIDE DEF gone
<1>4. conf' \in [Nonces -> Confirmations]
  BY <1>1, <1>2
<1>5. \A r \in Sessions :
        call[r].op = "commit" => call[r].nonce \in Nonces /\ call[r].nonce \notin gone
  BY <1>1, CallShape DEF IInv, Locks
<1>6. bought' \in [Nonces -> Nat] /\ \A m \in Nonces : bought'[m] <= 1
  BY <1>1 DEF IInv, TypeOK, ConfirmationSpentOnce
<1>7. \A m \in Nonces : conf'[m].user # NoUser /\ ~conf'[m].consumed => bought'[m] = 0
  BY <1>1, <1>3 DEF IInv, Spending
<1>8. \A r \in Sessions :
        call[r].op = "commit" =>
          conf'[call[r].nonce].user # NoUser /\ ~conf'[call[r].nonce].consumed
  BY <1>1, <1>5 DEF IInv, Spending
<1> QED
  BY <1>1, <1>4, <1>6, <1>7, <1>8, ConfirmationStep

-----------------------------------------------------------------------------
(* The two steps into a Done: only the session's own call changes. *)
LEMMA DoneReadKeeps ==
  ASSUME IInv, NEW s \in Sessions, NEW t \in Tasks, NEW n \in Nonces, NEW card \in BOOLEAN,
         DoneRead(s, t, n, card)
  PROVE  IInv'
<1> DEFINE c == [op |-> "confirm", task |-> t, nonce |-> n,
                 inTime |-> ~conf[n].expired, card |-> card]
<1>1. /\ review[t] = "approved" /\ call' = [call EXCEPT ![s] = c]
      /\ UNCHANGED <<done, review, check, conf, bought, promised, outboxVars>>
  BY DEF DoneRead, Begin
<1>2. c \in Calls /\ c.op = "confirm" /\ c.task = t
  BY DEF Calls, IInv, TypeOK, Confirmations
<1> HIDE DEF c
<1>3. /\ call' \in [Sessions -> Calls] /\ call'[s] = c
      /\ \A r \in Sessions \ {s} : call'[r] = call[r]
  BY <1>1, <1>2 DEF IInv, TypeOK
<1>4. TypeOK'
  BY <1>1, <1>3 DEF IInv, TypeOK, OutboxTypeOK, outboxVars
<1>5. ClaimsHeld' /\ DeadMeansExhausted' /\ DoneLeavesIntent' /\ ConfirmationSpentOnce' /\ DoneHasApproval'
  BY <1>1 DEF IInv, ClaimsHeld, DeadMeansExhausted, DoneLeavesIntent, ConfirmationSpentOnce,
         DoneHasApproval, outboxVars, NotClaimed, NoAnswer
<1>6. DoneInProgress'
  BY <1>1, <1>2, <1>3 DEF IInv, DoneInProgress
<1>7. Spending'
  <2>1. \A r \in Sessions : call'[r].op = "commit" => call'[r] = call[r]
    BY <1>2, <1>3
  <2> QED
    BY <1>1, <2>1 DEF IInv, Spending
<1> QED
  BY <1>4, <1>5, <1>6, <1>7 DEF IInv

LEMMA DoneWriteKeeps ==
  ASSUME IInv, NEW s \in Sessions, DoneWrite(s)
  PROVE  IInv'
<1>1. /\ call[s].op = "confirm" /\ Free(s, call[s].nonce)
      /\ UNCHANGED <<done, review, check, conf, bought, promised, outboxVars>>
  BY DEF DoneWrite
<1>2. CASE Spendable(s)
  <2> DEFINE c == [call[s] EXCEPT !.op = "commit"]
  <2>1. call' = [call EXCEPT ![s] = c]
    BY <1>2 DEF DoneWrite, Begin
  <2>2. /\ c \in Calls /\ c.op = "commit"
        /\ c.task = call[s].task /\ c.nonce = call[s].nonce
    BY <1>1, CallShape DEF IInv
  <2> HIDE DEF c
  <2>3. /\ call' \in [Sessions -> Calls] /\ call'[s] = c
        /\ \A r \in Sessions \ {s} : call'[r] = call[r]
    BY <2>1, <2>2 DEF IInv, TypeOK
  <2>4. TypeOK'
    BY <1>1, <2>3 DEF IInv, TypeOK, OutboxTypeOK, outboxVars
  <2>5. ClaimsHeld' /\ DeadMeansExhausted' /\ DoneLeavesIntent' /\ ConfirmationSpentOnce' /\ DoneHasApproval'
    BY <1>1 DEF IInv, ClaimsHeld, DeadMeansExhausted, DoneLeavesIntent, ConfirmationSpentOnce,
           DoneHasApproval, outboxVars, NotClaimed, NoAnswer
  <2>6. DoneInProgress'
    BY <1>1, <2>2, <2>3 DEF IInv, DoneInProgress
  <2>7. Spending'
    <3>1. conf[c.nonce].user # NoUser /\ ~conf[c.nonce].consumed
      BY <1>2, <2>2, TaskAssumption DEF Spendable
    <3>2. \A r \in Sessions \ {s} : call[r].op = "commit" => call[r].nonce # c.nonce
      BY <1>1, <2>2 DEF Free, Locks
    <3> QED
      BY <1>1, <2>2, <2>3, <3>1, <3>2 DEF IInv, Spending
  <2> QED
    BY <2>4, <2>5, <2>6, <2>7 DEF IInv
<1>3. CASE ~Spendable(s)
  <2>1. call' = [call EXCEPT ![s] = Idle] /\ Idle \in Calls /\ Idle.op = "idle"
    BY <1>3 DEF DoneWrite, End, Calls, Idle
  <2>2. /\ call' \in [Sessions -> Calls] /\ call'[s].op \notin {"confirm", "commit"}
        /\ \A r \in Sessions \ {s} : call'[r] = call[r]
    BY <2>1 DEF IInv, TypeOK
  <2>3. /\ review' \in [Tasks -> {"none", "open", "approved"}] /\ review' = review
        /\ check' \in [Tasks -> [Checks -> CheckStates \union {"none"}]]
    BY <1>1 DEF IInv, TypeOK
  <2> QED
    BY <1>1, <2>2, <2>3, ReviewStep
<1> QED
  BY <1>2, <1>3

(* The commit of a Done: what it writes to the outbox. *)
LEMMA EnqueueKeeps ==
  ASSUME IInv, NEW s \in Sessions, DoneCommit(s)
  PROVE  /\ OutboxInv'
         /\ \A t \in Tasks : entry[t].state # "none" => entry'[t] = entry[t]
         /\ call[s].card /\ call[s].task \in Linked => entry'[call[s].task].state # "none"
<1> USE OutboxAssumption
<1> DEFINE t0 == call[s].task
<1>1. /\ batch' = batch /\ answer' = answer /\ t0 \in Tasks
      /\ entry' = IF call[s].card /\ t0 \in Linked
                    THEN [entry EXCEPT ![t0] = Enqueued(t0)] ELSE entry
  BY CallShape DEF DoneCommit, IInv
<1>2. OutboxInv /\ entry \in [Tasks -> Entries]
  BY DEF IInv, TypeOK, OutboxTypeOK, OutboxInv
<1>3. CASE entry' = entry
  <2>1. OutboxInv'
    BY <1>1, <1>2, <1>3 DEF OutboxInv, OutboxTypeOK, ClaimsHeld, DeadMeansExhausted,
                            NotClaimed, NoAnswer
  <2>2. call[s].card /\ t0 \in Linked => entry'[t0].state # "none"
    <3>1. ASSUME call[s].card, t0 \in Linked, entry[t0].state = "none"
          PROVE  FALSE
      <4>1. entry'[t0] = [Absent EXCEPT !.state = "pending", !.due = TRUE]
        BY <1>1, <1>2, <3>1 DEF Enqueued
      <4>2. entry'[t0].state = "pending"
        BY <4>1 DEF Absent
      <4> QED
        BY <1>3, <3>1, <4>2
    <3> QED
      BY <1>3, <3>1
  <2> QED
    BY <1>3, <2>1, <2>2
<1>4. CASE entry' # entry
  <2> DEFINE new == [Absent EXCEPT !.state = "pending", !.due = TRUE]
  <2>1. entry' = [entry EXCEPT ![t0] = new] /\ entry[t0].state = "none"
    BY <1>1, <1>2, <1>4 DEF Enqueued
  <2>2. /\ new \in Entries /\ new.state = "pending" /\ new.token = NoWorker
    <3>1. Absent \in Entries /\ Absent.token = NoWorker
      BY DEF Absent, Entries, States
    <3> QED
      BY <3>1 DEF Entries, States
  <2> HIDE DEF new
  <2>3. entry' \in [Tasks -> Entries] /\ entry'[t0] = new
    BY <1>1, <1>2, <2>1, <2>2
  <2>4. \A t \in Tasks : t # t0 => entry'[t] = entry[t]
    BY <1>2, <2>1
  <2>5. \A t \in Tasks : entry'[t].token # NoWorker => entry'[t] = entry[t]
    BY <2>2, <2>3, <2>4
  <2>6. \A t \in Tasks : entry'[t].state \in {"processing", "dead"} => entry'[t] = entry[t]
    BY <2>2, <2>3, <2>4
  <2>7. ClaimsHeld'
    <3>1. \A t \in Tasks : entry'[t].token # NoWorker => entry'[t].state = "processing"
      BY <1>2, <2>5 DEF OutboxInv, ClaimsHeld
    <3>2. \A t \in Tasks : entry'[t].state = "processing" => entry'[t].attempts < MaxAttempts
      BY <1>2, <2>6 DEF OutboxInv, ClaimsHeld
    <3>3. \A w \in Workers, t \in Tasks :
            entry'[t].token = w /\ batch[w][t] # NotClaimed => batch[w][t] = entry'[t].attempts
      BY <1>2, <2>5 DEF OutboxInv, ClaimsHeld
    <3> QED
      BY <1>1, <1>2, <3>1, <3>2, <3>3 DEF OutboxInv, ClaimsHeld, NotClaimed, NoAnswer
  <2>8. DeadMeansExhausted'
    BY <1>2, <2>6 DEF OutboxInv, DeadMeansExhausted
  <2>9. OutboxTypeOK'
    BY <1>1, <1>2, <2>3 DEF OutboxInv, OutboxTypeOK
  <2> QED
    BY <2>1, <2>2, <2>3, <2>4, <2>7, <2>8, <2>9 DEF OutboxInv
<1> QED
  BY <1>3, <1>4

(* The commit of a Done: the confirmation is spent by nobody else, the     *)
(* review is still approved, and the intent is there.                      *)
LEMMA DoneCommitKeeps ==
  ASSUME IInv, NEW s \in Sessions, DoneCommit(s)
  PROVE  IInv'
<1> DEFINE t0 == call[s].task
           n0 == call[s].nonce
<1>1. call[s].op = "commit" /\ t0 \in Tasks /\ n0 \in Nonces
  BY CallShape DEF DoneCommit, IInv
<1>2. /\ conf' = [conf EXCEPT ![n0].consumed = TRUE]
      /\ bought' = [bought EXCEPT ![n0] = @ + 1]
      /\ done' = done \union {t0}
      /\ promised' = IF call[s].card /\ t0 \in Linked THEN promised \union {t0} ELSE promised
      /\ call' = [call EXCEPT ![s] = Idle]
      /\ review' = review /\ check' = check
  BY DEF DoneCommit, DoneRows, End
<1>3. OutboxInv'
  BY EnqueueKeeps
<1>4. /\ conf \in [Nonces -> Confirmations] /\ bought \in [Nonces -> Nat]
      /\ call \in [Sessions -> Calls]
  BY DEF IInv, TypeOK
<1>5. conf[n0].user # NoUser /\ ~conf[n0].consumed /\ bought[n0] = 0
  BY <1>1 DEF IInv, Spending
<1>6. /\ conf' \in [Nonces -> Confirmations]
      /\ \A n \in Nonces : n # n0 => conf'[n] = conf[n]
      /\ conf'[n0].consumed = TRUE
  BY <1>1, <1>2, <1>4 DEF Confirmations
<1>7. /\ bought' \in [Nonces -> Nat]
      /\ \A n \in Nonces : n # n0 => bought'[n] = bought[n]
      /\ bought'[n0] = 1
  BY <1>1, <1>2, <1>4, <1>5
<1>8. /\ call' \in [Sessions -> Calls] /\ call'[s].op = "idle"
      /\ \A r \in Sessions \ {s} : call'[r] = call[r]
  <2>1. Idle \in Calls /\ Idle.op = "idle"
    BY DEF Calls, Idle
  <2> QED
    BY <1>2, <1>4, <2>1
<1>9. TypeOK'
  <2>1. promised' \subseteq Linked /\ done' \subseteq Tasks
    BY <1>1, <1>2 DEF IInv, TypeOK
  <2> QED
    BY <1>2, <1>3, <1>6, <1>7, <1>8, <2>1 DEF IInv, TypeOK, OutboxInv
<1>10. DoneHasApproval' /\ DoneInProgress'
  <2>1. review[t0] = "approved"
    BY <1>1 DEF IInv, DoneInProgress
  <2> QED
    BY <1>2, <1>8, <2>1 DEF IInv, DoneHasApproval, DoneInProgress
<1>11. ConfirmationSpentOnce'
  BY <1>7 DEF IInv, ConfirmationSpentOnce
<1>12. Spending'
  <2>1. \A r \in Sessions : call'[r].op = "commit" => r # s /\ call'[r] = call[r]
    BY <1>8
  <2>2. \A r \in Sessions \ {s} : call[r].op = "commit" => call[r].nonce \in Nonces /\ call[r].nonce # n0
    BY <1>1, CallShape DEF IInv, Spending
  <2>3. \A n \in Nonces : conf'[n].user # NoUser /\ ~conf'[n].consumed => bought'[n] = 0
    BY <1>6, <1>7 DEF IInv, Spending
  <2>4. \A r \in Sessions :
          call'[r].op = "commit" =>
            conf'[call'[r].nonce].user # NoUser /\ ~conf'[call'[r].nonce].consumed
    BY <1>6, <2>1, <2>2 DEF IInv, Spending
  <2> QED
    BY <2>1, <2>3, <2>4 DEF IInv, Spending
<1>13. DoneLeavesIntent'
  <2>1. ASSUME NEW t \in promised
        PROVE  entry'[t].state # "none"
    <3>1. t \in Tasks /\ entry[t].state # "none"
      BY <2>1, OutboxAssumption DEF IInv, TypeOK, DoneLeavesIntent
    <3> QED
      BY <3>1, EnqueueKeeps
  <2> QED
    BY <1>2, <2>1, EnqueueKeeps DEF DoneLeavesIntent
<1> QED
  BY <1>3, <1>9, <1>10, <1>11, <1>12, <1>13 DEF IInv, OutboxInv

LEMMA MoveKeeps ==
  ASSUME IInv, NEW t \in Tasks, Move(t)
  PROVE  IInv'
<1>1. /\ done' = done \ {t}
      /\ UNCHANGED <<review, check, conf, call, bought, promised, outboxVars>>
  BY DEF Move
<1> QED
  BY <1>1 DEF IInv, TypeOK, OutboxTypeOK, ClaimsHeld, DeadMeansExhausted, DoneHasApproval,
              DoneInProgress, ConfirmationSpentOnce, Spending, DoneLeavesIntent,
              outboxVars, NotClaimed, NoAnswer

LEMMA OutboxNextKeeps ==
  ASSUME IInv, OutboxNext, UNCHANGED taskVars
  PROVE  IInv'
<1>1. OutboxInv
  BY DEF IInv, TypeOK, OutboxInv
<1>2. UNCHANGED <<done, review, check, conf, call, bought, promised>>
  BY DEF taskVars
<1>3. OutboxInv'
  BY <1>1, OutboxStep
<1>4. TypeOK'
  BY <1>2, <1>3 DEF IInv, TypeOK, OutboxInv
<1>5. DoneLeavesIntent'
  <2>1. ASSUME NEW t \in promised
        PROVE  entry'[t].state # "none"
    <3>1. t \in Tasks /\ entry[t].state # "none"
      BY <2>1, OutboxAssumption DEF IInv, TypeOK, DoneLeavesIntent
    <3> QED
      BY <1>1, <3>1, OutboxStep
  <2> QED
    BY <1>2, <2>1 DEF DoneLeavesIntent
<1>6. DoneHasApproval' /\ DoneInProgress' /\ ConfirmationSpentOnce' /\ Spending'
  BY <1>2 DEF IInv, DoneHasApproval, DoneInProgress, ConfirmationSpentOnce, Spending
<1> QED
  BY <1>3, <1>4, <1>5, <1>6 DEF IInv, OutboxInv

-----------------------------------------------------------------------------
LEMMA InitHolds == Init => IInv
<1> SUFFICES ASSUME Init PROVE IInv
  OBVIOUS
<1> USE OutboxAssumption, TaskAssumption DEF Init, OutboxInit
<1>1. Absent \in Entries /\ NoAnswer \in Answers /\ NoBatch \in [Tasks -> 0..MaxAttempts]
  BY DEF Absent, Entries, States, Answers, NoBatch, NotClaimed
<1>2. OutboxTypeOK
  BY <1>1 DEF OutboxTypeOK
<1>3. NoConfirmation \in Confirmations /\ Idle \in Calls
  BY DEF NoConfirmation, Confirmations, Idle, Calls
<1>4. TypeOK
  BY <1>2, <1>3 DEF TypeOK
<1>5. ClaimsHeld /\ DeadMeansExhausted
  BY DEF ClaimsHeld, DeadMeansExhausted, Absent
<1>6. DoneHasApproval /\ DoneInProgress /\ ConfirmationSpentOnce /\ DoneLeavesIntent
  BY DEF DoneHasApproval, DoneInProgress, ConfirmationSpentOnce, DoneLeavesIntent, Idle
<1>7. Spending
  BY DEF Spending, Idle, NoConfirmation
<1> QED
  BY <1>4, <1>5, <1>6, <1>7 DEF IInv

LEMMA NextKeeps == IInv /\ [Next]_vars => IInv'
<1> SUFFICES ASSUME IInv, [Next]_vars PROVE IInv'
  OBVIOUS
<1>1. ASSUME NEW s \in Sessions, SessionNext(s)
      PROVE  IInv'
  <2>1. CASE \/ AddWrite(s) \/ ToggleWrite(s) \/ ApproveWrite(s) \/ EnqueueFails(s) \/ Abort(s)
    BY <2>1, ReviewWrites
  <2>2. CASE DoneWrite(s)
    BY <2>2, DoneWriteKeeps
  <2>3. CASE DoneCommit(s)
    BY <2>3, DoneCommitKeeps
  <2>4. ASSUME NEW t \in Tasks, EnsureReview(s, t) \/ ApproveSelect(s, t) \/ ApproveRead(s, t)
        PROVE  IInv'
    BY <2>4, QuietReview
  <2>5. ASSUME NEW t \in Tasks, IssueConfirmation(s, t)
        PROVE  IInv'
    BY <2>5, IssueKeeps
  <2>6. ASSUME NEW t \in Tasks, NEW c \in Checks, NEW v \in CheckStates,
               AddSelect(s, t, c, v) \/ AddRead(s, t, c, v) \/ ToggleRead(s, t, c, v)
        PROVE  IInv'
    BY <2>6, QuietCheck
  <2>7. ASSUME NEW t \in Tasks, NEW n \in Nonces, NEW card \in BOOLEAN, DoneRead(s, t, n, card)
        PROVE  IInv'
    BY <2>7, DoneReadKeeps
  <2>8. CASE AddInsert(s) \/ ApproveInsert(s)
    BY <2>8, InsertKeeps
  <2> QED
    BY <1>1, <2>1, <2>2, <2>3, <2>4, <2>5, <2>6, <2>7, <2>8 DEF SessionNext
<1>2. CASE \E t \in Tasks : Move(t)
  BY <1>2, MoveKeeps
<1>3. CASE \E n \in Nonces : Expire(n)
  BY <1>3, ExpireKeeps
<1>4. CASE Cleanup
  BY <1>4, CleanupKeeps
<1>5. CASE OutboxNext /\ UNCHANGED taskVars
  BY <1>5, OutboxNextKeeps
<1>6. CASE UNCHANGED vars
  BY <1>6 DEF vars, taskVars, outboxVars, IInv, TypeOK, OutboxTypeOK, ClaimsHeld,
              DeadMeansExhausted, DoneHasApproval, DoneInProgress, ConfirmationSpentOnce,
              Spending, DoneLeavesIntent, NotClaimed, NoAnswer
<1> QED
  BY <1>1, <1>2, <1>3, <1>4, <1>5, <1>6 DEF Next

-----------------------------------------------------------------------------
(* The invariant that carries the others: claims of the outbox, what a     *)
(* Done in progress relies on, and who may spend a confirmation.           *)
THEOREM DoneInvariant == Spec => []IInv
  BY InitHolds, NextKeeps, PTL DEF Spec

(* Tasks, reviews, checks, confirmations, calls and outbox rows keep their *)
(* types; in particular attempts never passes maxAttempts.                 *)
THEOREM DoneTypeCorrect == Spec => []TypeOK
<1>1. IInv => TypeOK
  BY DEF IInv
<1> QED
  BY <1>1, DoneInvariant, PTL

(* markTaskDone: with any number of concurrent sessions a task in Done has *)
(* an approved review, although the gate reads it without a lock.          *)
THEOREM DoneAlwaysApproved == Spec => []DoneHasApproval
<1>1. IInv => DoneHasApproval
  BY DEF IInv
<1> QED
  BY <1>1, DoneInvariant, PTL

(* markTaskDone, issueDoneConfirmation, cleanupDoneConfirmations: no       *)
(* confirmation ever pays for two Dones.                                   *)
THEOREM ConfirmationsPayOnce == Spec => []ConfirmationSpentOnce
<1>1. IInv => ConfirmationSpentOnce
  BY DEF IInv
<1> QED
  BY <1>1, DoneInvariant, PTL

(* markTaskDoneAndEnqueueIssueClose: Done and the close intent commit      *)
(* together or not at all.                                                 *)
THEOREM DoneAlwaysLeavesIntent == Spec => []DoneLeavesIntent
<1>1. IInv => DoneLeavesIntent
  BY DEF IInv
<1> QED
  BY <1>1, DoneInvariant, PTL

(* processIssueCloseOutbox: an entry is dead only after maxAttempts saved  *)
(* answers, however many runs overlap, die or lose their claims.           *)
THEOREM DeadOnlyWhenExhausted == Spec => []DeadMeansExhausted
<1>1. IInv => DeadMeansExhausted
  BY DEF IInv
<1> QED
  BY <1>1, DoneInvariant, PTL

(* processIssueCloseOutbox and enqueueIssueCloseForTaskTx: no step of any  *)
(* run or session changes an entry that is closed or dead.                 *)
THEOREM SettledStaysSettled == Spec => SettledForGood
<1> DEFINE Kept == \A t \in Tasks : entry[t].state \in Settled => entry'[t] = entry[t]
<1>1. IInv /\ [Next]_vars => [Kept]_outboxVars
  <2> SUFFICES ASSUME IInv, [Next]_vars PROVE Kept
    OBVIOUS
  <2>1. ASSUME NEW s \in Sessions, SessionNext(s)
        PROVE  Kept
    <3>1. CASE DoneCommit(s)
      BY <3>1, EnqueueKeeps DEF Settled
    <3>2. CASE ~DoneCommit(s)
      <4>1. UNCHANGED outboxVars
        BY <2>1, <3>2 DEF SessionNext, AddWrite, ToggleWrite, ApproveWrite, DoneWrite,
             EnqueueFails, Abort, EnsureReview, ApproveSelect, ApproveInsert, ApproveRead,
             IssueConfirmation, AddSelect, AddInsert, AddRead, ToggleRead, DoneRead
      <4> QED
        BY <4>1 DEF outboxVars
    <3> QED
      BY <3>1, <3>2
  <2>2. CASE OutboxNext
    BY <2>2, OutboxStep DEF IInv, TypeOK, OutboxInv
  <2>3. CASE (\E t \in Tasks : Move(t)) \/ (\E n \in Nonces : Expire(n)) \/ Cleanup
    BY <2>3 DEF Move, Expire, Cleanup, outboxVars
  <2>4. CASE UNCHANGED vars
    BY <2>4 DEF vars, outboxVars
  <2> QED
    BY <2>1, <2>2, <2>3, <2>4 DEF Next
<1>2. Spec => [][Kept]_outboxVars
  BY <1>1, DoneInvariant, PTL DEF Spec
<1> QED
  BY <1>2 DEF SettledForGood

-----------------------------------------------------------------------------
(* The time between two runs of the handler: the first wake that is not    *)
(* before the cadence has passed.                                          *)
Period == ((Cadence + WakeInterval - 1) \div WakeInterval) * WakeInterval

(* The scan ends under its lease and before the handler's next run, and at *)
(* the run after that one its cadence is over; ages are told apart for     *)
(* long enough.                                                            *)
ScanEndsInTime ==
  /\ ScanTime < ScanLease
  /\ ScanTime < Period
  /\ ScanCadence + ScanTime <= 2 * Period
  /\ 2 * Period + ScanTime < OldAge

\* n ticks are a whole number of wake intervals.
Wakes(n) == \E m \in Nat : n = m * WakeInterval

(* The handler runs next in h ticks, and not at an earlier wake. *)
RunsIn(h) ==
  /\ h \in 0..Period /\ h >= sleep[worker] /\ Wakes(h - sleep[worker])
  /\ row[job].dueIn <= h
  /\ h > sleep[worker] => row[job].dueIn > h - WakeInterval

(* What the scan and its evidence are, e ticks after the handler last ran: *)
(* the evidence is of that run, or of the run before when the claim of     *)
(* that one came before the cadence was over.                              *)
ScanAfter(e) ==
  \/ /\ scan[worker].phase = "idle"
     /\ lease.token = NoToken \/ lease.left <= 0
     /\ latest.status = "never" => latest.age = OldAge
     /\ latest.status # "never" =>
          \/ latest.age <= e /\ latest.age >= e - ScanTime
          \/ latest.age <= Period + e /\ latest.age >= Period + e - ScanTime
  \/ /\ scan[worker].phase # "idle"
     /\ e <= ScanTime
     /\ lease.token # NoToken /\ lease.token = scan[worker].token
     /\ lease.left = ScanLease - e /\ lease.held = e
     /\ scan[worker].phase = "prepare" => e = 0
     /\ scan[worker].phase = "exec" => scan[worker].left = ScanTime - e
     /\ latest.status = "never" => latest.age = OldAge
     /\ latest.status # "never" => latest.age <= 2 * Period + e

\* What the variables are worth here: no negative dueIn, no age from the future.
JobRows ==
  [exists : BOOLEAN, token : Tokens \cup {NoToken}, leaseLeft : Nat, dueIn : Nat, failures : Nat]
LeaseRows == [token : Tokens \cup {NoToken}, left : Int, held : Int, forced : Int]
Evidence == [status : {"never", "succeeded", "unavailable"}, age : Nat]
ScanStates ==
  [phase : {"idle", "prepare", "exec", "terminate", "publish"}, token : Tokens \cup {NoToken},
   left : Nat, ok : BOOLEAN]

USE DEF JobRows, LeaseRows, Evidence, ScanStates

\* Nothing fails or stops the one worker.
CadenceTypeOK ==
  /\ row \in [{job} -> JobRows]
  /\ pc \in [{worker} -> {"off", "idle", "dispatch", "handle", "ack"}]
  /\ held \in [{worker} -> [{job} -> Tokens \cup {NoToken}]]
  /\ cur \in [{worker} -> {job, NoJob}]
  /\ sleep \in [{worker} -> Nat]
  /\ stopping = [w \in {worker} |-> FALSE]
  /\ lease \in LeaseRows
  /\ latest \in Evidence
  /\ scan \in [{worker} -> ScanStates]

\* The worker holds the live lease of the job.
BatchInHand ==
  /\ row[job].exists /\ row[job].token # NoToken /\ row[job].token = held[worker][job]
  /\ row[job].leaseLeft > 0

(* The inductive invariant: wherever the worker is, its scan and evidence  *)
(* are those of the time since the handler last ran.  In the first period  *)
(* nothing ran yet, and there is no evidence that could be stale.          *)
CadenceInv ==
  /\ CadenceTypeOK
  /\ pc[worker] = "off" => /\ row[job].token = NoToken /\ row[job].dueIn = 0
                           /\ sleep[worker] = 0
                           /\ ScanAfter(Period)
  /\ pc[worker] = "idle" => /\ row[job].token = NoToken /\ row[job].exists
                            /\ \E h \in 0..Period : RunsIn(h) /\ ScanAfter(Period - h)
  /\ pc[worker] \in {"dispatch", "handle"} => BatchInHand /\ ScanAfter(Period)
  /\ pc[worker] = "ack" => BatchInHand /\ ScanAfter(0)
  /\ pc[worker] \in {"handle", "ack"} => cur[worker] = job

\* The multiples of the wake interval are a wake apart.
LEMMA WakesFacts ==
  ASSUME CadenceConstants
  PROVE  /\ Wakes(0)
         /\ \A n \in Nat : Wakes(n) /\ n > 0 => n >= WakeInterval /\ Wakes(n - WakeInterval)
<1>0. WakeInterval \in Nat \ {0}
  BY DEF CadenceConstants
<1>1. Wakes(0)
  <2>1. 0 = 0 * WakeInterval
    BY <1>0
  <2> QED  BY <2>1 DEF Wakes
<1>2. ASSUME NEW n \in Nat, Wakes(n), n > 0
      PROVE  n >= WakeInterval /\ Wakes(n - WakeInterval)
  <2>1. PICK m \in Nat : n = m * WakeInterval
    BY <1>2 DEF Wakes
  <2>2. m # 0
    BY <1>0, <1>2, <2>1
  <2>3. PICK k \in Nat : m = k + 1
    <3>1. m - 1 \in Nat /\ m = (m - 1) + 1
      BY <2>2
    <3> QED  BY <3>1
  <2>4. n = k * WakeInterval + WakeInterval
    BY <1>0, <2>1, <2>3
  <2>5. k * WakeInterval \in Nat
    BY <1>0
  <2>6. n - WakeInterval = k * WakeInterval /\ n >= WakeInterval
    BY <1>0, <2>4, <2>5
  <2> QED  BY <2>6 DEF Wakes
<1> QED
  BY <1>1, <1>2

\* The period is the least multiple of the wake interval that covers the cadence.
LEMMA PeriodFacts ==
  ASSUME CadenceConstants
  PROVE  /\ Period \in Nat /\ Cadence <= Period /\ Period < Cadence + WakeInterval
         /\ WakeInterval <= Period /\ Wakes(Period - WakeInterval)
<1> DEFINE x == Cadence + WakeInterval - 1
           k == x \div WakeInterval
<1>0. WakeInterval \in Nat \ {0} /\ Cadence \in Nat \ {0} /\ x \in Nat
  BY DEF CadenceConstants
<1>1. k \in Nat /\ k * WakeInterval <= x /\ x < k * WakeInterval + WakeInterval
  <2>1. x = WakeInterval * (x \div WakeInterval) + (x % WakeInterval)
    BY <1>0
  <2>2. x % WakeInterval \in 0..(WakeInterval - 1)
    BY <1>0
  <2>3. k \in Nat
    BY <1>0
  <2> HIDE DEF k, x
  <2> QED  BY <1>0, <2>1, <2>2, <2>3 DEF k
<1>2. Period = k * WakeInterval /\ Period \in Nat
  <2>1. Period = k * WakeInterval
    BY DEF Period
  <2>2. k * WakeInterval \in Nat
    <3> HIDE DEF k
    <3> QED  BY <1>0, <1>1
  <2> QED  BY <2>1, <2>2
<1>3. Cadence <= Period /\ Period < Cadence + WakeInterval
  BY <1>0, <1>1, <1>2
<1>4. Wakes(Period)
  BY <1>1, <1>2 DEF Wakes
<1> QED
  BY <1>0, <1>2, <1>3, <1>4, WakesFacts

-----------------------------------------------------------------------------
\* The types of the constants; the one worker reads the database's clock.
LEMMA Types ==
  ASSUME CadenceConstants
  PROVE  /\ {Cadence, Lease, WakeInterval} \subseteq Nat \ {0}
         /\ {ScanLease, ScanCadence, ForceCooldown} \subseteq Nat \ {0}
         /\ ScanTime \in Nat /\ OldAge \in Nat /\ Period \in Nat
         /\ NoSkew[worker] = 0 /\ -NoSkew[worker] = 0
<1>1. NoSkew[worker] = 0
  BY DEF NoSkew
<1>2. \A x \in Int : -x = 0 - x
  OBVIOUS
<1>3. -NoSkew[worker] = 0
  <2>1. NoSkew[worker] \in Int
    BY <1>1
  <2>2. -NoSkew[worker] = 0 - NoSkew[worker]
    BY <1>2, <2>1
  <2>3. 0 - NoSkew[worker] = 0
    BY <1>1
  <2> QED  BY ONLY <2>2, <2>3, Zenon
<1> QED
  BY <1>1, <1>3, PeriodFacts DEF CadenceConstants

\* Nothing has run and there is no evidence yet.
LEMMA CadenceInitial ==
  ASSUME CadenceConstants
  PROVE  CadenceInit => CadenceInv
<1> SUFFICES ASSUME CadenceInit PROVE CadenceInv
  OBVIOUS
<1> USE DEF CadenceInit, Sched!Init, Scan!Init
<1>1. CadenceTypeOK
  BY Types DEF CadenceTypeOK, Sched!NoBatch, Scan!Idle
<1>2. ScanAfter(Period)
  BY DEF ScanAfter, Scan!Idle
<1> QED
  BY <1>1, <1>2 DEF CadenceInv

\* Starting the worker registers the job, due at once.
LEMMA StartKeeps ==
  ASSUME CadenceConstants, CadenceInv, Sched!Start(worker), UNCHANGED scanVars
  PROVE  CadenceInv'
<1> USE DEF Sched!Start
<1>1. /\ pc[worker] = "off" /\ pc' = [pc EXCEPT ![worker] = "idle"]
      /\ sleep' = [sleep EXCEPT ![worker] = 0]
      /\ stopping' = [stopping EXCEPT ![worker] = FALSE]
      /\ UNCHANGED <<held, cur, lease, latest, scan>>
  BY DEF scanVars
<1>2. CadenceTypeOK /\ row[job].token = NoToken /\ row[job].dueIn = 0 /\ ScanAfter(Period)
  BY <1>1 DEF CadenceInv
<1>3. row'[job] = IF ~row[job].exists THEN [row[job] EXCEPT !.exists = TRUE, !.dueIn = 0]
                                      ELSE row[job]
  BY Types
<1>4. CadenceTypeOK'
  <2>1. row' \in [{job} -> JobRows]
    BY <1>2, <1>3 DEF CadenceTypeOK
  <2> QED  BY <1>1, <1>2, <2>1 DEF CadenceTypeOK
<1>5. row'[job].token = NoToken /\ row'[job].exists /\ row'[job].dueIn = 0
  BY <1>2, <1>3 DEF CadenceTypeOK
<1>6. pc'[worker] = "idle" /\ sleep'[worker] = 0
  BY <1>1, <1>2 DEF CadenceTypeOK
<1>7. RunsIn(0)'
  BY <1>5, <1>6, Types, WakesFacts DEF RunsIn, Wakes
<1>8. ScanAfter(Period - 0)'
  BY <1>1, <1>2, Types DEF ScanAfter
<1>9. 0 \in 0..Period
  BY Types
<1> QED
  BY <1>4, <1>5, <1>6, <1>7, <1>8, <1>9 DEF CadenceInv

\* A wake claims the job exactly when it is due.
LEMMA BatchFacts ==
  ASSUME CadenceConstants, CadenceInv, pc[worker] = "idle", NEW S \in Sched!Batches(worker)
  PROVE  S = IF row[job].dueIn <= 0 THEN {job} ELSE {}
<1>1. CadenceTypeOK /\ row[job].token = NoToken /\ row[job].exists
  BY DEF CadenceInv
<1>2. Sched!Due(worker, job) <=> row[job].dueIn <= 0
  BY <1>1, Types DEF Sched!Due
<1>3. Sched!Locked(worker) = {}
  BY DEF Sched!Locked
<1> DEFINE free == {j \in {job} : Sched!Due(worker, j)}
<1>4. S \subseteq free /\ Cardinality(S) = Sched!Smaller(1, Cardinality(free))
  <2>1. PICK skipped \in SUBSET Sched!Locked(worker) :
           /\ S \subseteq free \ skipped
           /\ Cardinality(S) = Sched!Smaller(1, Cardinality(free \ skipped))
    <3>1. \A T : Sched!Cardinality(T) = Cardinality(T)
      BY DEF Sched!Cardinality, Cardinality
    <3> QED  BY <3>1 DEF Sched!Batches
  <2>2. free \ skipped = free
    BY <1>3
  <2> QED  BY <2>1, <2>2
<1>5. CASE row[job].dueIn <= 0
  <2>1. free = {job}
    BY <1>2, <1>5
  <2>2. Cardinality(S) = 1
    BY <1>4, <2>1, FS_Singleton DEF Sched!Smaller
  <2>3. S # {}
    BY <2>2, FS_EmptySet
  <2> QED  BY <1>4, <1>5, <2>1, <2>3
<1>6. CASE ~(row[job].dueIn <= 0)
  BY <1>2, <1>4, <1>6
<1> QED
  BY <1>5, <1>6

\* A wake that finds the job due is the one awaited; an earlier one waits on.
LEMMA WakeKeeps ==
  ASSUME CadenceConstants, CadenceInv, Sched!Wake(worker), UNCHANGED scanVars
  PROVE  CadenceInv'
<1>1. /\ pc[worker] = "idle" /\ sleep[worker] = 0
      /\ UNCHANGED <<cur, stopping, lease, latest, scan>>
  BY DEF Sched!Wake, scanVars
<1>2. CadenceTypeOK /\ row[job].token = NoToken /\ row[job].exists
  BY <1>1 DEF CadenceInv
<1>3. PICK h \in 0..Period : RunsIn(h) /\ ScanAfter(Period - h)
  BY <1>1 DEF CadenceInv
<1>4. PICK S \in Sched!Batches(worker) :
        /\ \A j \in S : Sched!Unused(j) # {}
        /\ row' = Sched!ClaimedRows(worker, S)
        /\ held' = [held EXCEPT ![worker] =
                      [j \in {job} |-> IF j \in S THEN Sched!Fresh(j) ELSE NoToken]]
        /\ IF S = {} THEN Sched!LoopEnds(worker)
                     ELSE pc' = [pc EXCEPT ![worker] = "dispatch"] /\ UNCHANGED sleep
  BY DEF Sched!Wake
<1>5. S = IF row[job].dueIn <= 0 THEN {job} ELSE {}
  BY <1>1, BatchFacts
<1>6. h \in Nat /\ h <= Period /\ Wakes(h) /\ row[job].dueIn <= h /\ row[job].dueIn \in Nat
      /\ (h > 0 => row[job].dueIn > h - WakeInterval)
  <2>1. h - sleep[worker] = h
    BY <1>1, Types
  <2> QED  BY <1>1, <1>2, <1>3, <2>1, Types DEF RunsIn, CadenceTypeOK
<1>7. CASE row[job].dueIn <= 0
  <2>1. S = {job}
    BY <1>5, <1>7
  <2>2. h = 0
    <3>1. h > 0 => h >= WakeInterval
      BY <1>6, WakesFacts
    <3> QED  BY <1>6, <1>7, <3>1, Types
  <2>3. Sched!Fresh(job) \in Tokens /\ Sched!Fresh(job) # NoToken
    <3>1. Sched!Fresh(job) \in Sched!Unused(job)
      BY <1>4, <2>1 DEF Sched!Fresh
    <3> QED  BY <3>1 DEF CadenceConstants, Sched!Unused
  <2>4. row'[job] = [row[job] EXCEPT !.token = Sched!Fresh(job), !.leaseLeft = Lease]
    <3>1. Sched!Larger(0, Lease + NoSkew[worker]) = Lease
      BY Types DEF Sched!Larger
    <3>2. row' = [j \in {job} |-> IF j \in S THEN Sched!Leased(worker, j) ELSE row[j]]
      BY <1>4 DEF Sched!ClaimedRows
    <3>3. row'[job] = Sched!Leased(worker, job)
      BY <3>2, <2>1
    <3> QED  BY <3>1, <3>3 DEF Sched!Leased
  <2>5. row' \in [{job} -> JobRows]
    <3>1. row' = [j \in {job} |-> row'[job]]
      BY <1>4 DEF Sched!ClaimedRows
    <3>2. row'[job] \in JobRows
      <4>1. row[job] \in JobRows /\ Lease \in Nat
        BY <1>2, Types DEF CadenceTypeOK
      <4> QED  BY <2>3, <2>4, <4>1
    <3> QED  BY <3>1, <3>2
  <2>6. held' = [held EXCEPT ![worker] = [j \in {job} |-> Sched!Fresh(j)]]
    BY <1>4, <2>1
  <2>7. pc' = [pc EXCEPT ![worker] = "dispatch"] /\ sleep' = sleep
    BY <1>4, <2>1
  <2>8. CadenceTypeOK'
    BY <1>1, <1>2, <2>3, <2>5, <2>6, <2>7 DEF CadenceTypeOK
  <2>9. pc'[worker] = "dispatch" /\ held'[worker][job] = Sched!Fresh(job)
    BY <1>2, <2>6, <2>7 DEF CadenceTypeOK
  <2>10. BatchInHand'
    BY <1>2, <2>3, <2>4, <2>9, Types DEF BatchInHand, CadenceTypeOK
  <2>11. ScanAfter(Period)'
    <3>1. Period - h = Period
      BY <2>2, Types
    <3>2. ScanAfter(Period)
      BY <1>3, <3>1
    <3> QED  BY <1>1, <3>2 DEF ScanAfter
  <2> QED  BY <2>8, <2>9, <2>10, <2>11 DEF CadenceInv
<1>8. CASE ~(row[job].dueIn <= 0)
  <2>1. S = {}
    BY <1>5, <1>8
  <2>2. row' = row
    BY <1>2, <1>4, <2>1 DEF Sched!ClaimedRows, CadenceTypeOK
  <2>3. pc' = [pc EXCEPT ![worker] = "idle"] /\ sleep' = [sleep EXCEPT ![worker] = WakeInterval]
    BY <1>2, <1>4, <2>1 DEF Sched!LoopEnds, CadenceTypeOK
  <2>4. held' = [held EXCEPT ![worker] = [j \in {job} |-> NoToken]]
    BY <1>4, <2>1
  <2>5. CadenceTypeOK'
    BY <1>1, <1>2, <2>2, <2>3, <2>4, Types DEF CadenceTypeOK
  <2>6. pc'[worker] = "idle" /\ sleep'[worker] = WakeInterval
    BY <1>2, <2>3 DEF CadenceTypeOK
  <2>7. h >= WakeInterval /\ Wakes(h - WakeInterval)
    <3>1. h > 0
      BY <1>6, <1>8
    <3> QED  BY <1>6, <3>1, WakesFacts
  <2>8. RunsIn(h)'
    <3>1. Wakes(h - WakeInterval)'
      BY <2>7 DEF Wakes
    <3> QED  BY <1>6, <2>2, <2>6, <2>7, <3>1, Types DEF RunsIn
  <2>9. ScanAfter(Period - h)'
    BY <1>1, <1>3 DEF ScanAfter
  <2> QED  BY <1>2, <2>2, <2>5, <2>6, <2>8, <2>9 DEF CadenceInv
<1> QED
  BY <1>7, <1>8

\* Dispatching hands the claimed job to its handler.
LEMMA DispatchKeeps ==
  ASSUME CadenceConstants, CadenceInv, Sched!Dispatch(worker), UNCHANGED scanVars
  PROVE  CadenceInv'
<1>1. /\ pc[worker] = "dispatch" /\ pc' = [pc EXCEPT ![worker] = "handle"]
      /\ cur' = [cur EXCEPT ![worker] = job]
      /\ UNCHANGED <<row, held, sleep, stopping, lease, latest, scan>>
  BY DEF Sched!Dispatch, scanVars
<1>2. CadenceTypeOK /\ BatchInHand /\ ScanAfter(Period)
  BY <1>1 DEF CadenceInv
<1>3. CadenceTypeOK' /\ BatchInHand' /\ ScanAfter(Period)'
  BY <1>1, <1>2 DEF CadenceTypeOK, BatchInHand, ScanAfter
<1>4. pc'[worker] = "handle" /\ cur'[worker] = job
  BY <1>1, <1>2 DEF CadenceTypeOK
<1> QED
  BY <1>3, <1>4 DEF CadenceInv

\* The ack comes under its lease; the next run is a period away.
LEMMA AckKeeps ==
  ASSUME CadenceConstants, CadenceInv, Sched!Ack(worker), UNCHANGED scanVars
  PROVE  CadenceInv'
<1>1. pc[worker] = "ack" /\ UNCHANGED <<stopping, lease, latest, scan>>
  BY DEF Sched!Ack, scanVars
<1>2. CadenceTypeOK /\ BatchInHand /\ ScanAfter(0) /\ cur[worker] = job
  BY <1>1 DEF CadenceInv
<1>3. row' = [row EXCEPT ![job] = [row[job] EXCEPT !.token = NoToken, !.leaseLeft = 0,
                                                   !.dueIn = Cadence, !.failures = 0]]
  <2>1. Sched!Fenced(worker, job)
    BY <1>2 DEF BatchInHand, Sched!Fenced
  <2>2. Cadence + NoSkew[worker] = Cadence
    BY Types
  <2> QED  BY <1>2, <2>1, <2>2 DEF Sched!Ack, Sched!AckRow, Sched!Released
<1>4. /\ held' = [held EXCEPT ![worker][job] = NoToken]
      /\ cur' = [cur EXCEPT ![worker] = NoJob]
      /\ pc' = [pc EXCEPT ![worker] = "idle"]
      /\ sleep' = [sleep EXCEPT ![worker] = WakeInterval]
  BY <1>2 DEF Sched!Ack, Sched!NextDelivery, Sched!LoopEnds, CadenceTypeOK
<1>5. row[job] \in JobRows /\ DOMAIN row = {job}
  BY <1>2 DEF CadenceTypeOK
<1>6. row[job].exists
  BY <1>2 DEF BatchInHand
<1>7. row'[job].token = NoToken /\ row'[job].dueIn = Cadence /\ row'[job].exists
  BY <1>3, <1>5, <1>6
<1>8. CadenceTypeOK'
  <2>1. row' \in [{job} -> JobRows]
    BY <1>2, <1>3, <1>5, Types DEF CadenceTypeOK
  <2> QED  BY <1>1, <1>2, <1>4, <2>1, Types DEF CadenceTypeOK
<1>9. pc'[worker] = "idle" /\ sleep'[worker] = WakeInterval
  BY <1>2, <1>4 DEF CadenceTypeOK
<1>10. RunsIn(Period)'
  <2>1. Wakes(Period - WakeInterval)'
    BY PeriodFacts DEF Wakes
  <2>2. Cadence > Period - WakeInterval /\ Cadence <= Period /\ WakeInterval <= Period
    BY PeriodFacts, Types
  <2> QED  BY <1>7, <1>9, <2>1, <2>2, Types DEF RunsIn
<1>11. ScanAfter(Period - Period)'
  <2>1. Period - Period = 0
    BY Types
  <2> QED  BY <1>1, <1>2, <2>1 DEF ScanAfter
<1>12. Period \in 0..Period
  BY Types
<1> QED
  BY <1>7, <1>8, <1>9, <1>10, <1>11, <1>12 DEF CadenceInv

\* The handler finds the last scan over, and its cadence at the second run at
\* the latest: it claims the next scan or leaves the evidence to the next run.
LEMMA HandleKeeps ==
  ASSUME CadenceConstants, ScanEndsInTime, CadenceInv, Handle
  PROVE  CadenceInv'
<1>1. /\ pc[worker] = "handle" /\ pc'[worker] = "ack"
      /\ UNCHANGED <<row, held, cur, sleep, stopping>>
  BY DEF Handle, Sched!Handle
<1>2. pc' = [pc EXCEPT ![worker] = "ack"]
  <2>1. PICK next \in {"ack", "fail"} : pc' = [pc EXCEPT ![worker] = next]
    BY DEF Handle, Sched!Handle
  <2> QED  BY <1>1, <2>1 DEF CadenceInv, CadenceTypeOK
<1>3. CadenceTypeOK /\ BatchInHand /\ ScanAfter(Period) /\ cur[worker] = job
  BY <1>1 DEF CadenceInv
<1>4. /\ ScanTime < Period /\ ScanCadence + ScanTime <= 2 * Period
      /\ 2 * Period + ScanTime < OldAge
      /\ ScanCadence \in Nat \ {0} /\ ScanTime \in Nat /\ Period \in Nat
      /\ OldAge \in Nat /\ ScanLease \in Nat
  BY Types DEF ScanEndsInTime
<1>5. scan[worker].phase = "idle"
  BY <1>3, <1>4 DEF ScanAfter
<1>6. /\ lease.token = NoToken \/ lease.left <= 0
      /\ latest.age \in Nat
      /\ latest.status = "never" => latest.age = OldAge
      /\ latest.status # "never" =>
           \/ latest.age <= Period /\ latest.age >= Period - ScanTime
           \/ latest.age <= Period + Period /\ latest.age >= Period + Period - ScanTime
  BY <1>3, <1>5 DEF ScanAfter, CadenceTypeOK
<1>7. CASE ~(latest.age >= ScanCadence)
  <2>1. ~Scan!Claimable(worker, "scheduled")
    BY <1>6, <1>7, <1>4, Types DEF Scan!Claimable, Scan!CadencePermits
  <2>2. UNCHANGED <<lease, latest, scan>>
    BY <2>1 DEF Handle, Scan!Request, Scan!vars
  <2>3. latest.status # "never" /\ latest.age <= Period /\ latest.age >= Period - ScanTime
    BY <1>4, <1>6, <1>7
  <2>4. /\ latest.age <= Period + 0 /\ latest.age >= Period + 0 - ScanTime
    BY <1>4, <1>6, <2>3
  <2>5. ScanAfter(0)'
    BY <1>5, <1>6, <2>2, <2>3, <2>4 DEF ScanAfter
  <2>6. CadenceTypeOK' /\ BatchInHand'
    BY <1>1, <1>2, <1>3, <2>2 DEF CadenceTypeOK, BatchInHand
  <2> QED
    BY <1>1, <1>3, <2>5, <2>6 DEF CadenceInv
<1>8. CASE latest.age >= ScanCadence
  <2>1. Scan!Claimable(worker, "scheduled")
    BY <1>6, <1>8, <1>4, Types DEF Scan!Claimable, Scan!CadencePermits
  <2>2. /\ Scan!Unused # {} /\ lease' = Scan!Claimed(worker, "scheduled")
        /\ scan' = [scan EXCEPT ![worker] = [phase |-> "prepare", token |-> Scan!Fresh,
                                             left |-> 0, ok |-> FALSE]]
        /\ latest' = latest
    BY <1>5, <2>1 DEF Handle, Scan!Request
  <2>3. Scan!Fresh \in Tokens /\ Scan!Fresh # NoToken
    <3>1. Scan!Fresh \in Scan!Unused
      BY <2>2 DEF Scan!Fresh
    <3> QED  BY <3>1 DEF CadenceConstants, Scan!Unused
  <2>4. lease' = [token |-> Scan!Fresh, left |-> ScanLease, held |-> 0, forced |-> lease.forced]
    <3>1. ScanLease + NoSkew[worker] = ScanLease /\ -NoSkew[worker] = 0
      BY <1>4, Types
    <3> QED  BY <2>2, <3>1 DEF Scan!Claimed
  <2>5. CadenceTypeOK'
    <3>1. lease' \in LeaseRows
      BY <1>3, <1>4, <2>3, <2>4 DEF CadenceTypeOK
    <3>2. scan' \in [{worker} -> ScanStates]
      BY <1>3, <2>2, <2>3 DEF CadenceTypeOK
    <3> QED  BY <1>1, <1>2, <1>3, <2>2, <3>1, <3>2 DEF CadenceTypeOK
  <2>6. ScanAfter(0)'
    <3>1. scan'[worker] = [phase |-> "prepare", token |-> Scan!Fresh, left |-> 0, ok |-> FALSE]
      BY <1>3, <2>2 DEF CadenceTypeOK
    <3>2. latest.status # "never" => latest.age <= 2 * Period + 0
      BY <1>4, <1>6
    <3>3. ScanLease - 0 = ScanLease
      BY <1>4
    <3> QED  BY <1>4, <1>6, <2>2, <2>3, <2>4, <3>1, <3>2, <3>3 DEF ScanAfter
  <2>7. BatchInHand'
    BY <1>1, <1>3 DEF BatchInHand
  <2> QED
    BY <1>1, <1>3, <2>5, <2>6, <2>7 DEF CadenceInv
<1> QED
  BY <1>7, <1>8

\* The steps of the detached scan take no time, and what it publishes is new.
LEMMA ExecuteScan ==
  ASSUME CadenceConstants, ScanEndsInTime, CadenceInv, Execute, NEW e \in 0..Period, ScanAfter(e)
  PROVE  ScanAfter(e)'
<1>1. /\ ScanTime < ScanLease /\ ScanLease \in Nat /\ ScanTime \in Nat /\ e \in Nat
      /\ OldAge \in Nat /\ Period \in Nat /\ e <= Period
  BY Types DEF ScanEndsInTime
<1>2. CadenceTypeOK
  BY DEF CadenceInv
<1>3. scan[worker] \in ScanStates
      /\ DOMAIN scan = {worker}
  BY <1>2 DEF CadenceTypeOK
<1>4. CASE Scan!Exec(worker)
  <2>1. /\ scan[worker].phase = "prepare" /\ UNCHANGED <<lease, latest>>
        /\ scan'[worker] = [scan[worker] EXCEPT !.phase = "exec", !.left = ScanTime]
    BY <1>3, <1>4 DEF Scan!Exec
  <2> QED  BY <1>1, <1>3, <2>1 DEF ScanAfter
<1>5. CASE Scan!ExecEnds(worker)
  <2>1. scan[worker].phase = "exec" /\ UNCHANGED <<lease, latest>>
    BY <1>5 DEF Scan!ExecEnds
  <2>2. scan'[worker].phase = "terminate" /\ scan'[worker].token = scan[worker].token
    BY <1>3, <1>5 DEF Scan!ExecEnds
  <2> QED  BY <1>1, <2>1, <2>2 DEF ScanAfter
<1>7. CASE Scan!Terminated(worker)
  <2>1. scan[worker].phase = "terminate" /\ UNCHANGED <<lease, latest>>
    BY <1>7 DEF Scan!Terminated
  <2>2. scan'[worker].phase = "publish" /\ scan'[worker].token = scan[worker].token
    BY <1>3, <1>7 DEF Scan!Terminated
  <2> QED  BY <1>1, <2>1, <2>2 DEF ScanAfter
<1>6. CASE Scan!Publish(worker)
  <2>1. scan[worker].phase = "publish" /\ scan' = [scan EXCEPT ![worker] = Scan!Idle]
    BY <1>6 DEF Scan!Publish, Scan!Finish
  <2>2. Scan!Fenced(worker)
    BY <1>1, <2>1 DEF ScanAfter, Scan!Fenced
  <2>3. lease' = [lease EXCEPT !.left = 0] /\ latest' = Scan!Published(worker)
    BY <1>6, <2>2 DEF Scan!Publish, Scan!PublishRows
  <2>4. lease'.left <= 0
    BY <1>2, <2>3 DEF CadenceTypeOK
  <2>5. latest'.age = 0 /\ latest'.status # "never"
    <3>1. ~(latest.age < -NoSkew[worker]) /\ -NoSkew[worker] = 0
      BY <1>2, Types DEF CadenceTypeOK
    <3> QED  BY <2>3, <3>1 DEF Scan!Published
  <2>6. scan'[worker].phase = "idle"
    BY <1>3, <2>1 DEF Scan!Idle
  <2>7. e <= ScanTime
    BY <2>1 DEF ScanAfter
  <2>8. latest'.age <= e /\ latest'.age >= e - ScanTime
    BY <1>1, <2>5, <2>7
  <2> QED  BY <2>4, <2>5, <2>6, <2>8 DEF ScanAfter
<1> QED
  BY <1>4, <1>5, <1>6, <1>7 DEF Execute

\* The scan's steps keep the types.
LEMMA ExecuteTypes ==
  ASSUME CadenceConstants, CadenceInv, Execute
  PROVE  CadenceTypeOK'
<1>1. CadenceTypeOK
  BY DEF CadenceInv
<1>2. UNCHANGED <<row, pc, held, cur, sleep, stopping>>
  BY DEF Execute, schedVars
<1>3. lease' \in LeaseRows
  BY <1>1 DEF CadenceTypeOK, Execute, Scan!Exec, Scan!ExecEnds, Scan!Terminated, Scan!Publish,
               Scan!PublishRows
<1>4. latest' \in Evidence
  <2>1. -NoSkew[worker] = 0
    BY Types
  <2> QED
    BY <1>1, <2>1 DEF CadenceTypeOK, Execute, Scan!Exec, Scan!ExecEnds, Scan!Terminated,
                      Scan!Publish, Scan!PublishRows, Scan!Published
<1>5. scan' \in [{worker} -> ScanStates]
  <2> USE <1>1, Types DEF CadenceTypeOK
  <2>1. CASE Scan!Exec(worker)
    BY <2>1 DEF Scan!Exec
  <2>2. CASE Scan!ExecEnds(worker)
    <3>1. PICK ok \in BOOLEAN : scan' = [scan EXCEPT ![worker] =
             [scan[worker] EXCEPT !.phase = "terminate", !.left = 0, !.ok = ok]]
      BY <2>2 DEF Scan!ExecEnds
    <3>2. [scan[worker] EXCEPT !.phase = "terminate", !.left = 0, !.ok = ok]
            \in ScanStates
      OBVIOUS
    <3> QED  BY <3>1, <3>2
  <2>4. CASE Scan!Terminated(worker)
    <3>1. PICK ok \in {scan[worker].ok, FALSE} : scan' = [scan EXCEPT ![worker] =
             [scan[worker] EXCEPT !.phase = "publish", !.left = 0, !.ok = ok]]
      BY <2>4 DEF Scan!Terminated
    <3>2. ok \in BOOLEAN /\ scan[worker] \in ScanStates
      BY Zenon
    <3>3. [scan[worker] EXCEPT !.phase = "publish", !.left = 0, !.ok = ok]
            \in ScanStates
      BY <3>2
    <3> QED  BY <3>1, <3>3
  <2>3. CASE Scan!Publish(worker)
    BY <2>3 DEF Scan!Publish, Scan!Finish, Scan!Idle
  <2> QED  BY <2>1, <2>2, <2>3, <2>4 DEF Execute
<1> QED
  BY <1>1, <1>2, <1>3, <1>4, <1>5 DEF CadenceTypeOK

\* The scan's steps leave the schedule alone.
LEMMA ExecuteKeeps ==
  ASSUME CadenceConstants, ScanEndsInTime, CadenceInv, Execute
  PROVE  CadenceInv'
<1>1. UNCHANGED <<row, pc, held, cur, sleep, stopping>>
  BY DEF Execute, schedVars
<1>2. CadenceTypeOK'
  BY ExecuteTypes
<1>3. 0 \in 0..Period /\ Period \in 0..Period
  BY Types
<1>4. ScanAfter(Period) => ScanAfter(Period)'
  BY <1>3, ExecuteScan
<1>5. ScanAfter(0) => ScanAfter(0)'
  BY <1>3, ExecuteScan
<1>6. ASSUME NEW h \in 0..Period, RunsIn(h), ScanAfter(Period - h)
      PROVE  RunsIn(h)' /\ ScanAfter(Period - h)'
  <2>1. Period - h \in 0..Period
    BY Types
  <2>2. ScanAfter(Period - h)'
    BY <1>6, <2>1, ExecuteScan
  <2> QED  BY <1>1, <1>6, <2>2 DEF RunsIn, Wakes
<1>7. BatchInHand => BatchInHand'
  BY <1>1 DEF BatchInHand
<1> QED
  BY <1>1, <1>2, <1>4, <1>5, <1>6, <1>7 DEF CadenceInv

\* A tick brings the next run nearer and ages the scan with the evidence.
LEMMA TickScan ==
  ASSUME CadenceConstants, ScanEndsInTime, CadenceInv, Tick, NEW e \in Nat, e < Period, ScanAfter(e)
  PROVE  ScanAfter(e + 1)'
<1>1. /\ ScanTime < ScanLease /\ ScanLease \in Nat /\ ScanTime \in Nat /\ Period \in Nat
      /\ OldAge \in Nat /\ 2 * Period + ScanTime < OldAge
  BY Types DEF ScanEndsInTime
<1>2. CadenceTypeOK
  BY DEF CadenceInv
<1>3. scan[worker].phase \notin {"prepare", "terminate", "publish"}
  BY DEF Tick, Due
<1>4. scan[worker].phase = "exec" => scan[worker].left > 0
  BY DEF Tick, Scan!Tick
<1>5. /\ scan'[worker] = [scan[worker] EXCEPT !.left = Scan!Most(0, scan[worker].left - 1)]
      /\ scan[worker] \in ScanStates
  BY <1>2 DEF Tick, Scan!Tick, CadenceTypeOK
<1>6. /\ scan'[worker].phase = scan[worker].phase /\ scan'[worker].token = scan[worker].token
      /\ scan[worker].phase = "exec" => scan'[worker].left = scan[worker].left - 1
  BY <1>4, <1>5 DEF Scan!Most
<1>7. /\ latest'.status = latest.status /\ latest.age \in Nat
      /\ latest'.age = Scan!Least(OldAge, latest.age + 1)
  BY <1>2 DEF Tick, Scan!Tick, CadenceTypeOK
<1>8. latest.status = "never" => (latest.age = OldAge => latest'.age = OldAge)
  BY <1>1, <1>7 DEF Scan!Least
<1>9. latest.age <= 2 * Period => latest'.age = latest.age + 1
  BY <1>1, <1>7 DEF Scan!Least
<1>10. latest'.age <= latest.age + 1
  BY <1>1, <1>7 DEF Scan!Least
<1>11. /\ lease.token = NoToken => lease' = lease
       /\ lease.token # NoToken =>
            /\ lease'.token = lease.token
            /\ lease'.left = Scan!Most(-OldAge, lease.left - 1)
            /\ lease'.held = Scan!Least(OldAge, lease.held + 1)
  BY <1>2 DEF Tick, Scan!Tick, CadenceTypeOK
<1>12. -OldAge \in Int /\ -OldAge < 0 /\ lease.left \in Int
  BY <1>1, <1>2 DEF CadenceTypeOK
<1>13. CASE scan[worker].phase = "idle"
  <2>1. lease'.token = NoToken \/ lease'.left <= 0
    <3>1. CASE lease.token = NoToken
      BY <1>11, <3>1
    <3>2. CASE lease.token # NoToken
      <4>1. lease.left <= 0
        BY <1>13, <3>2 DEF ScanAfter
      <4> QED  BY <1>11, <1>12, <3>2, <4>1 DEF Scan!Most
    <3> QED  BY <3>1, <3>2
  <2>2. latest'.status = "never" => latest'.age = OldAge
    BY <1>7, <1>8, <1>13 DEF ScanAfter
  <2>3. ASSUME latest'.status # "never"
        PROVE  \/ latest'.age <= e + 1 /\ latest'.age >= (e + 1) - ScanTime
               \/ /\ latest'.age <= Period + (e + 1)
                  /\ latest'.age >= Period + (e + 1) - ScanTime
    <3>1. \/ latest.age <= e /\ latest.age >= e - ScanTime
          \/ latest.age <= Period + e /\ latest.age >= Period + e - ScanTime
      BY <1>7, <1>13, <2>3 DEF ScanAfter
    <3>2. latest'.age = latest.age + 1
      BY <1>1, <1>7, <1>9, <3>1
    <3> QED  BY <1>1, <1>7, <3>1, <3>2
  <2> QED  BY <1>6, <1>13, <2>1, <2>2, <2>3 DEF ScanAfter
<1>14. CASE scan[worker].phase = "exec"
  <2>1. /\ e <= ScanTime /\ scan[worker].left = ScanTime - e
        /\ lease.token # NoToken /\ lease.token = scan[worker].token
        /\ lease.left = ScanLease - e /\ lease.held = e
    BY <1>14 DEF ScanAfter
  <2>2. e + 1 <= ScanTime
    BY <1>1, <1>4, <1>14, <2>1
  <2>3. lease'.left = ScanLease - (e + 1)
    BY <1>1, <1>11, <1>12, <2>1, <2>2 DEF Scan!Most
  <2>4. lease'.held = e + 1 /\ lease'.token = lease.token
    BY <1>1, <1>11, <2>1, <2>2 DEF Scan!Least
  <2>5. scan'[worker].left = ScanTime - (e + 1)
    BY <1>1, <1>6, <1>14, <2>1
  <2>6. latest'.status = "never" => latest'.age = OldAge
    BY <1>7, <1>8, <1>14 DEF ScanAfter
  <2>7. ASSUME latest'.status # "never" PROVE latest'.age <= 2 * Period + (e + 1)
    <3>1. latest.age <= 2 * Period + e
      BY <1>7, <1>14, <2>7 DEF ScanAfter
    <3>2. latest'.age \in Int
      BY <1>1, <1>7 DEF Scan!Least
    <3> QED  BY <1>1, <1>7, <1>10, <3>1, <3>2
  <2> QED
    BY <1>6, <1>14, <2>1, <2>2, <2>3, <2>4, <2>5, <2>6, <2>7 DEF ScanAfter
<1> QED
  BY <1>3, <1>5, <1>13, <1>14

\* A tick keeps the types.
LEMMA TickTypes ==
  ASSUME CadenceConstants, CadenceInv, Tick
  PROVE  CadenceTypeOK'
<1>1. CadenceTypeOK
  BY DEF CadenceInv
<1>2. UNCHANGED <<pc, held, cur, stopping>>
  BY DEF Tick, Sched!Tick
<1>3. row' \in [{job} -> JobRows]
  <2>1. row' = [j \in {job} |-> [row[j] EXCEPT !.leaseLeft = Sched!Larger(0, row[j].leaseLeft - 1),
                                               !.dueIn = Sched!Larger(-0, row[j].dueIn - 1)]]
    BY DEF Tick, Sched!Tick
  <2>2. row[job] \in JobRows
    BY <1>1 DEF CadenceTypeOK
  <2>3. Sched!Larger(0, row[job].leaseLeft - 1) \in Nat
    BY <2>2 DEF Sched!Larger
  <2>4. Sched!Larger(-0, row[job].dueIn - 1) \in Nat
    BY <2>2 DEF Sched!Larger
  <2>5. [row[job] EXCEPT !.leaseLeft = Sched!Larger(0, row[job].leaseLeft - 1),
                         !.dueIn = Sched!Larger(-0, row[job].dueIn - 1)]
          \in JobRows
    BY <2>2, <2>3, <2>4
  <2> QED  BY <2>1, <2>5
<1>4. sleep' \in [{worker} -> Nat]
  BY <1>1 DEF Tick, Sched!Tick, Sched!Larger, CadenceTypeOK
<1>5. lease' \in LeaseRows
  <2>1. \A x, y \in Int : Scan!Most(x, y) \in Int /\ Scan!Least(x, y) \in Int
    BY DEF Scan!Most, Scan!Least
  <2>2. lease \in LeaseRows
    BY <1>1 DEF CadenceTypeOK
  <2>3. /\ Scan!Most(-OldAge, lease.left - 1) \in Int
        /\ Scan!Least(OldAge, lease.held + 1) \in Int
        /\ Scan!Least(OldAge, lease.forced + 1) \in Int
    <3>1. OldAge \in Int /\ -OldAge \in Int
      BY Types
    <3>2. lease.left - 1 \in Int /\ lease.held + 1 \in Int /\ lease.forced + 1 \in Int
      BY <2>2
    <3> QED  BY <2>1, <3>1, <3>2
  <2>4. lease' = IF lease.token = NoToken THEN lease
                 ELSE [lease EXCEPT !.left = Scan!Most(-OldAge, lease.left - 1),
                                    !.held = Scan!Least(OldAge, lease.held + 1),
                                    !.forced = Scan!Least(OldAge, lease.forced + 1)]
    BY DEF Tick, Scan!Tick
  <2> QED  BY <2>2, <2>3, <2>4
<1>6. latest' \in Evidence
  BY <1>1, Types DEF Tick, Scan!Tick, Scan!Least, CadenceTypeOK
<1>7. scan' \in [{worker} -> ScanStates]
  BY <1>1 DEF Tick, Scan!Tick, Scan!Most, CadenceTypeOK
<1> QED
  BY <1>1, <1>2, <1>3, <1>4, <1>5, <1>6, <1>7 DEF CadenceTypeOK

\* A tick keeps the invariant: the next run is one tick nearer.
LEMMA TickKeeps ==
  ASSUME CadenceConstants, ScanEndsInTime, CadenceInv, Tick
  PROVE  CadenceInv'
<1>1. CadenceTypeOK /\ CadenceTypeOK'
  BY TickTypes DEF CadenceInv
<1>2. pc[worker] = "idle" /\ sleep[worker] # 0 /\ pc' = pc
  BY DEF Tick, Due, Sched!Tick
<1>3. row[job].token = NoToken /\ row[job].exists
  BY <1>2 DEF CadenceInv
<1>4. PICK h \in 0..Period : RunsIn(h) /\ ScanAfter(Period - h)
  BY <1>2 DEF CadenceInv
<1>5. /\ row'[job].token = NoToken /\ row'[job].exists
      /\ row'[job].dueIn = Sched!Larger(-0, row[job].dueIn - 1)
  BY <1>1, <1>3 DEF Tick, Sched!Tick, CadenceTypeOK
<1>6. sleep'[worker] = sleep[worker] - 1 /\ sleep[worker] \in Nat \ {0}
  BY <1>1, <1>2 DEF Tick, Sched!Tick, Sched!Larger, CadenceTypeOK
<1>7. /\ h \in Nat /\ h <= Period /\ h >= sleep[worker] /\ Wakes(h - sleep[worker])
      /\ row[job].dueIn \in Nat /\ row[job].dueIn <= h
      /\ h > sleep[worker] => row[job].dueIn > h - WakeInterval
  BY <1>1, <1>4, Types DEF RunsIn, CadenceTypeOK
<1> DEFINE g == h - 1
<1>8. g \in 0..Period /\ g \in Nat
  BY <1>6, <1>7, Types
<1>9. /\ row'[job].dueIn <= g /\ row'[job].dueIn >= row[job].dueIn - 1
      /\ row'[job].dueIn \in Nat
  BY <1>1, <1>5, <1>6, <1>7 DEF Sched!Larger, CadenceTypeOK
<1>10. RunsIn(g)'
  <2>1. g - sleep'[worker] = h - sleep[worker] /\ g >= sleep'[worker]
    BY <1>6, <1>7
  <2>2. Wakes(g - sleep[worker])'
    BY <1>7, <2>1 DEF Wakes
  <2>3. g > sleep'[worker] => row'[job].dueIn > g - WakeInterval
    BY <1>6, <1>7, <1>9, Types
  <2> HIDE DEF g
  <2> QED  BY <1>8, <1>9, <2>1, <2>2, <2>3 DEF RunsIn
<1>11. ScanAfter(Period - g)'
  <2>1. Period - h \in Nat /\ Period - h < Period /\ (Period - h) + 1 = Period - g
    BY <1>6, <1>7, Types
  <2>2. ScanAfter((Period - h) + 1)'
    BY <1>4, <2>1, TickScan
  <2> QED  BY <2>1, <2>2
<1> HIDE DEF g
<1> QED
  BY <1>1, <1>2, <1>5, <1>8, <1>10, <1>11 DEF CadenceInv

\* The invariant holds in every reachable state when the times fit.
LEMMA CadenceInvariant ==
  ASSUME CadenceConstants, ScanEndsInTime
  PROVE  CadenceSpec => []CadenceInv
<1>1. CadenceInv /\ [CadenceNext]_cadenceVars => CadenceInv'
  <2> SUFFICES ASSUME CadenceInv, [CadenceNext]_cadenceVars PROVE CadenceInv'
    OBVIOUS
  <2>1. CASE Handle
    BY <2>1, HandleKeeps
  <2>2. CASE Schedule
    BY <2>2, StartKeeps, WakeKeeps, DispatchKeeps, AckKeeps DEF Schedule
  <2>3. CASE Execute
    BY <2>3, ExecuteKeeps
  <2>4. CASE Tick
    BY <2>4, TickKeeps
  <2>5. CASE UNCHANGED cadenceVars
    BY <2>5 DEF cadenceVars, schedVars, scanVars, CadenceInv, CadenceTypeOK, BatchInHand,
                RunsIn, ScanAfter, Wakes
  <2> QED  BY <2>1, <2>2, <2>3, <2>4, <2>5 DEF CadenceNext
<1> QED
  BY <1>1, CadenceInitial, PTL DEF CadenceSpec

(* How old the evidence of a healthy worker gets: when a scan ends under   *)
(* its lease, every second run of the handler at the latest publishes a    *)
(* new one, so that the latest run is never older than two periods and a   *)
(* scan.  With the shipped times that is 630 s and a scan, more than the   *)
(* 600 s after which the Health page calls it stale.                       *)
THEOREM EvidenceAgeBounded ==
  ASSUME CadenceConstants, ScanEndsInTime
  PROVE  CadenceSpec => [](latest.status # "never" => latest.age <= 2 * Period + ScanTime)
<1>1. CadenceInv => (latest.status # "never" => latest.age <= 2 * Period + ScanTime)
  <2> SUFFICES ASSUME CadenceInv, latest.status # "never"
               PROVE  latest.age <= 2 * Period + ScanTime
    OBVIOUS
  <2>1. Period \in Nat /\ ScanTime \in Nat
    BY Types
  <2>2. latest.age \in Nat /\ pc[worker] \in {"off", "idle", "dispatch", "handle", "ack"}
    BY DEF CadenceInv, CadenceTypeOK
  <2>3. \E e \in 0..Period : ScanAfter(e)
    <3>1. 0 \in 0..Period /\ Period \in 0..Period /\ \A h \in 0..Period : Period - h \in 0..Period
      BY <2>1
    <3> QED  BY <2>2, <3>1 DEF CadenceInv
  <2>4. PICK e \in 0..Period : ScanAfter(e)
    BY <2>3
  <2>5. \/ latest.age <= e \/ latest.age <= Period + e
        \/ e <= ScanTime /\ latest.age <= 2 * Period + e
    BY <2>4 DEF ScanAfter
  <2> QED  BY <2>1, <2>2, <2>5
<1> QED
  BY <1>1, CadenceInvariant, PTL
=============================================================================
