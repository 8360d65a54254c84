--------------------------- MODULE ScheduledJobs ---------------------------
(***************************************************************************)
(* The durable worker scheduler: the table platform_scheduled_job with the *)
(* operations of PostgresScheduledJobRepository, and the wake loop of      *)
(* DurableScheduler in every worker process.                               *)
(*                                                                         *)
(* Time is discrete and relative: dueIn and leaseLeft count the ticks of   *)
(* the database clock until next_run_at and dispatch_lease_expires_at.     *)
(* A worker passes its own clock to the repository; Skew[w] is how far     *)
(* that clock runs ahead of the database's.                                *)
(***************************************************************************)
EXTENDS Integers, FiniteSets

CONSTANTS
  Workers,        \* worker processes
  Jobs,           \* rows of platform_scheduled_job of the organization
  Handlers,       \* the jobs the code registers and has a handler for
  Tokens,         \* dispatch_lease_token values
  NoToken,
  NoJob,
  Lease,          \* DISPATCH_LEASE_SECONDS
  Cadence,        \* cadenceSeconds
  Backoff,        \* retryBackoffSeconds
  WakeInterval,   \* wakeIntervalMs
  BatchLimit,     \* batchLimit
  Skew,           \* worker clock minus database clock
  Floor,          \* how long overdue the model still tells apart
  MaxFailures,    \* where consecutive_failures saturates
  MaxFaults       \* bound on crashes, stops and database errors of a behaviour

ASSUME ScheduleAssumption ==
  /\ Handlers \subseteq Jobs
  /\ NoToken \notin Tokens
  /\ NoJob \notin Jobs
  /\ {Lease, Cadence, Backoff, BatchLimit, MaxFailures} \subseteq Nat \ {0}
  /\ {WakeInterval, Floor, MaxFaults} \subseteq Nat
  /\ Skew \in [Workers -> Int]
  /\ \A w \in Workers : -Floor <= Skew[w]

VARIABLES
  row,        \* platform_scheduled_job, one row per job
  pc,         \* where the worker's loop is
  held,       \* held[w][j]: the lease token of j in w's claimed batch
  cur,        \* the job w is dispatching
  sleep,      \* ticks left of the worker's wait
  stopping,   \* DurableScheduler.stopping
  acked,      \* history: the ack of w's current delivery has committed
  stranded,   \* history: jobs whose lease lost its worker to a crash or error
  faults      \* crashes, stops and errors so far

vars == <<row, pc, held, cur, sleep, stopping, acked, stranded, faults>>
workerVars == <<pc, held, cur, sleep, stopping, acked>>

-----------------------------------------------------------------------------
Larger(a, b) == IF a > b THEN a ELSE b
Smaller(a, b) == IF a < b THEN a ELSE b

\* An absent row is told apart by exists; its other fields are then idle.
Rows ==
  [exists : BOOLEAN, token : Tokens \union {NoToken}, leaseLeft : Nat,
   dueIn : Int, failures : 0..MaxFailures]

NoBatch == [j \in Jobs |-> NoToken]

\* Mutant: an expired lease is not taken over.
Due_NeverExpires(w, j) ==
  /\ row[j].exists
  /\ row[j].dueIn <= Skew[w]
  /\ row[j].token = NoToken

\* claimDue's condition on a row.
Due(w, j) ==
  /\ row[j].exists
  /\ row[j].dueIn <= Skew[w]
  /\ row[j].token = NoToken \/ row[j].leaseLeft = 0

\* Rows another worker's ack or fail transaction may hold locked.
Locked(w) == {j \in Jobs : \E v \in Workers \ {w} :
                             cur[v] = j /\ pc[v] \in {"ack", "fail"}}

\* The rows a claim takes: the BatchLimit longest overdue of those it can lock.
Batches(w) ==
  {S \in SUBSET {j \in Jobs : Due(w, j)} :
     \E skipped \in SUBSET Locked(w) :
       LET free == {j \in Jobs : Due(w, j)} \ skipped IN
         /\ S \subseteq free
         /\ Cardinality(S) = Smaller(BatchLimit, Cardinality(free))
         /\ \A i \in S, j \in free \ S : row[i].dueIn <= row[j].dueIn}

\* gen_random_uuid(): a token no row or worker of this job knows.
Unused(j) == {t \in Tokens : row[j].token # t /\ \A w \in Workers : held[w][j] # t}
Fresh(j) == CHOOSE t \in Unused(j) : TRUE

Leased(w, j) == [row[j] EXCEPT !.token = Fresh(j),
                               !.leaseLeft = Larger(0, Lease + Skew[w])]
Released(w, j, delay, failures) ==
  [row[j] EXCEPT !.token = NoToken, !.leaseLeft = 0,
                 !.dueIn = delay + Skew[w], !.failures = failures]

\* Mutant: the fence looks at the expiry and not at whose lease it is.
Fenced_AnyToken(w, j) == row[j].leaseLeft > 0

\* The fence of ack and fail: the token is still the row's, and unexpired.
Fenced(w, j) == row[j].token = held[w][j] /\ row[j].leaseLeft > 0

Init ==
  /\ row = [j \in Jobs |-> [exists |-> j \notin Handlers, token |-> NoToken,
                            leaseLeft |-> 0, dueIn |-> 0, failures |-> 0]]
  /\ pc = [w \in Workers |-> "off"]
  /\ held = [w \in Workers |-> NoBatch]
  /\ cur = [w \in Workers |-> NoJob]
  /\ sleep = [w \in Workers |-> 0]
  /\ stopping = [w \in Workers |-> FALSE]
  /\ acked = [w \in Workers |-> FALSE]
  /\ stranded = {}
  /\ faults = 0

-----------------------------------------------------------------------------
(* main.ts: register the code's jobs, then start the loop.  Registering an *)
(* existing row rewrites its cadence, which is one constant here.          *)
Start(w) ==
  /\ pc[w] = "off"
  /\ row' = [j \in Jobs |->
               IF j \in Handlers /\ ~row[j].exists
               THEN [row[j] EXCEPT !.exists = TRUE, !.dueIn = Skew[w]]
               ELSE row[j]]
  /\ pc' = [pc EXCEPT ![w] = "idle"]
  /\ sleep' = [sleep EXCEPT ![w] = 0]
  /\ stopping' = [stopping EXCEPT ![w] = FALSE]
  /\ UNCHANGED <<held, cur, acked, stranded, faults>>

\* The loop after wake() returned or threw: leave it, or wait.
LoopEnds(w) ==
  /\ pc' = [pc EXCEPT ![w] = IF stopping[w] THEN "off" ELSE "idle"]
  /\ sleep' = [sleep EXCEPT ![w] = WakeInterval]

ClaimedRows(w, S) == [j \in Jobs |-> IF j \in S THEN Leased(w, j) ELSE row[j]]

\* claimDue commits and the worker receives its batch.
Wake(w) ==
  /\ pc[w] = "idle" /\ sleep[w] = 0 /\ ~stopping[w]
  /\ \E S \in Batches(w) :
       /\ \A j \in S : Unused(j) # {}
       /\ row' = ClaimedRows(w, S)
       /\ held' = [held EXCEPT ![w] = [j \in Jobs |-> IF j \in S THEN Fresh(j) ELSE NoToken]]
       /\ stranded' = stranded \ S
       /\ IF S = {} THEN LoopEnds(w)
                    ELSE pc' = [pc EXCEPT ![w] = "dispatch"] /\ UNCHANGED sleep
  /\ UNCHANGED <<cur, stopping, acked, faults>>

\* claimDue throws; its transaction may have committed all the same.
WakeError(w) ==
  /\ pc[w] = "idle" /\ sleep[w] = 0 /\ ~stopping[w]
  /\ faults < MaxFaults /\ faults' = faults + 1
  /\ \E S \in Batches(w) \union {{}} :
       /\ \A j \in S : Unused(j) # {}
       /\ row' = ClaimedRows(w, S)
       /\ stranded' = stranded \union S
  /\ LoopEnds(w)
  /\ UNCHANGED <<held, cur, stopping, acked>>

\* dispatch(job): the batch is drained in the order the database returned it,
\* which is unspecified, and without another look at the lease.
Dispatch(w) ==
  /\ pc[w] = "dispatch"
  /\ \E j \in Jobs :
       /\ held[w][j] # NoToken
       /\ cur' = [cur EXCEPT ![w] = j]
       /\ pc' = [pc EXCEPT ![w] = IF j \in Handlers THEN "handle" ELSE "fail"]
  /\ acked' = [acked EXCEPT ![w] = FALSE]
  /\ UNCHANGED <<row, held, sleep, stopping, stranded, faults>>

\* The handler resolves or throws.
Handle(w) ==
  /\ pc[w] = "handle"
  /\ \E next \in {"ack", "fail"} : pc' = [pc EXCEPT ![w] = next]
  /\ UNCHANGED <<row, held, cur, sleep, stopping, acked, stranded, faults>>

\* Mutant: shutdown ends the loop with the rest of the batch undelivered.
NextDelivery_StopDropsBatch(w) ==
  /\ held' = [held EXCEPT ![w] = IF stopping[w] THEN NoBatch
                                 ELSE [@ EXCEPT ![cur[w]] = NoToken]]
  /\ cur' = [cur EXCEPT ![w] = NoJob]
  /\ IF ~stopping[w] /\ \E j \in Jobs \ {cur[w]} : held[w][j] # NoToken
       THEN pc' = [pc EXCEPT ![w] = "dispatch"] /\ UNCHANGED sleep
       ELSE LoopEnds(w)

\* The delivery is over: the next of the batch, or the end of the wake.
NextDelivery(w) ==
  /\ held' = [held EXCEPT ![w][cur[w]] = NoToken]
  /\ cur' = [cur EXCEPT ![w] = NoJob]
  /\ IF \E j \in Jobs \ {cur[w]} : held[w][j] # NoToken
       THEN pc' = [pc EXCEPT ![w] = "dispatch"] /\ UNCHANGED sleep
       ELSE LoopEnds(w)

AckRow(w) ==
  [row EXCEPT ![cur[w]] = IF Fenced(w, cur[w])
                            THEN Released(w, cur[w], Cadence, 0)
                            ELSE row[cur[w]]]

\* Mutant: a failure is recorded whoever holds the lease now.
FailRow_Unfenced(w) ==
  [row EXCEPT ![cur[w]] =
     Released(w, cur[w], Backoff, Smaller(row[cur[w]].failures + 1, MaxFailures))]

FailRow(w) ==
  [row EXCEPT ![cur[w]] =
     IF Fenced(w, cur[w])
       THEN Released(w, cur[w], Backoff, Smaller(row[cur[w]].failures + 1, MaxFailures))
       ELSE row[cur[w]]]

\* ack returns; a false result is not looked at.
Ack(w) ==
  /\ pc[w] = "ack"
  /\ row' = AckRow(w)
  /\ acked' = [acked EXCEPT ![w] = Fenced(w, cur[w])]
  /\ NextDelivery(w)
  /\ UNCHANGED <<stopping, stranded, faults>>

\* ack throws, before or after its commit: the catch block calls fail.
AckError(w) ==
  /\ pc[w] = "ack"
  /\ faults < MaxFaults /\ faults' = faults + 1
  /\ \E committed \in BOOLEAN :
       /\ row' = IF committed THEN AckRow(w) ELSE row
       /\ acked' = [acked EXCEPT ![w] = committed /\ Fenced(w, cur[w])]
  /\ pc' = [pc EXCEPT ![w] = "fail"]
  /\ UNCHANGED <<held, cur, sleep, stopping, stranded>>

Fail(w) ==
  /\ pc[w] = "fail"
  /\ row' = FailRow(w)
  /\ NextDelivery(w)
  /\ UNCHANGED <<stopping, acked, stranded, faults>>

\* The jobs whose live lease only w knows of.
Orphans(w) == {j \in Jobs : held[w][j] # NoToken /\ row[j].token = held[w][j]}

\* fail throws, before or after its commit: wake() rejects, and the rest of the
\* batch is forgotten with its leases in place.
FailError(w) ==
  /\ pc[w] = "fail"
  /\ faults < MaxFaults /\ faults' = faults + 1
  /\ \E committed \in BOOLEAN : row' = IF committed THEN FailRow(w) ELSE row
  /\ stranded' = stranded \union Orphans(w)
  /\ held' = [held EXCEPT ![w] = NoBatch]
  /\ cur' = [cur EXCEPT ![w] = NoJob]
  /\ LoopEnds(w)
  /\ UNCHANGED <<stopping, acked>>

\* stop(): no further claim; an idle loop ends at once, a wake drains first.
Stop(w) ==
  /\ pc[w] # "off" /\ ~stopping[w]
  /\ faults < MaxFaults /\ faults' = faults + 1
  /\ stopping' = [stopping EXCEPT ![w] = TRUE]
  /\ pc' = [pc EXCEPT ![w] = IF @ = "idle" THEN "off" ELSE @]
  /\ UNCHANGED <<row, held, cur, sleep, acked, stranded>>

\* The process dies.
Crash(w) ==
  /\ pc[w] # "off"
  /\ faults < MaxFaults /\ faults' = faults + 1
  /\ stranded' = stranded \union Orphans(w)
  /\ pc' = [pc EXCEPT ![w] = "off"]
  /\ held' = [held EXCEPT ![w] = NoBatch]
  /\ cur' = [cur EXCEPT ![w] = NoJob]
  /\ UNCHANGED <<row, sleep, stopping, acked>>

\* One tick of every clock.
Tick ==
  /\ row' = [j \in Jobs |-> [row[j] EXCEPT !.leaseLeft = Larger(0, @ - 1),
                                           !.dueIn = Larger(-Floor, @ - 1)]]
  /\ sleep' = [w \in Workers |-> Larger(0, sleep[w] - 1)]
  /\ UNCHANGED <<pc, held, cur, stopping, acked, stranded, faults>>

Step(w) ==
  Start(w) \/ Wake(w) \/ Dispatch(w) \/ Handle(w) \/ Ack(w) \/ Fail(w)

Next ==
  \/ \E w \in Workers :
       \/ Step(w) \/ WakeError(w) \/ AckError(w) \/ FailError(w)
       \/ Stop(w) \/ Crash(w)
  \/ Tick

Spec == Init /\ [][Next]_vars

(* A running process makes progress, time passes, and the container        *)
(* supervisor restarts a worker that exited.                               *)
FairSpec == Spec /\ WF_vars(Tick) /\ \A w \in Workers : WF_vars(Step(w))

-----------------------------------------------------------------------------
TypeOK ==
  /\ row \in [Jobs -> Rows]
  /\ pc \in [Workers -> {"off", "idle", "dispatch", "handle", "ack", "fail"}]
  /\ held \in [Workers -> [Jobs -> Tokens \union {NoToken}]]
  /\ cur \in [Workers -> Jobs \union {NoJob}]
  /\ sleep \in [Workers -> Nat]
  /\ stopping \in [Workers -> BOOLEAN]
  /\ acked \in [Workers -> BOOLEAN]
  /\ stranded \subseteq Jobs
  /\ faults \in 0..MaxFaults

Holds(w, j) == row[j].token # NoToken /\ held[w][j] = row[j].token

(* Every live dispatch lease is still in some worker's batch, unless a     *)
(* crash or a database error took it: a graceful stop drains what it       *)
(* claimed "so it does not strand fresh leases until expiry", and no path  *)
(* through dispatch() forgets a lease it could still settle.               *)
LiveLeaseHasOwner ==
  \A j \in Jobs : row[j].token # NoToken /\ row[j].leaseLeft > 0
                    => j \in stranded \/ \E w \in Workers : Holds(w, j)

(* While a worker's lease is live, only that worker's own ack or fail ends *)
(* it or moves the job's next run: a worker that outlived its own lease    *)
(* and was overtaken changes nothing, whatever the skew of the clocks.     *)
LiveLeaseIsPrivate ==
  [][\A j \in Jobs, v \in Workers :
       Holds(v, j) /\ row[j].leaseLeft > 0 =>
         \/ row'[j].token = row[j].token /\ row'[j].dueIn <= row[j].dueIn
         \/ /\ cur[v] = j /\ pc[v] \in {"ack", "fail"}
            /\ pc'[v] # pc[v]]_vars

(* A delivery whose ack has committed is never also recorded as failed,    *)
(* although a lost answer sends dispatch() into its catch block and fail() *)
(* runs with the same token.                                               *)
AckedNeverFails ==
  [][\A w \in Workers :
       acked[w] /\ pc[w] = "fail" /\ pc'[w] # "fail"
         => row'[cur[w]] = row[cur[w]]]_vars

(* At-least-once delivery for ever: whatever crashed, was stopped or lost  *)
(* its database, every registered job reaches its handler again and again. *)
DeliveredAgain ==
  \A j \in Handlers : []<>(\E w \in Workers : cur[w] = j /\ pc[w] = "handle")

(* "Database time owns due checks": no worker claims a job before          *)
(* next_run_at by the database's clock.                                    *)
DatabaseTimeOwnsDueChecks ==
  [][\A j \in Jobs : row'[j].token \notin {NoToken, row[j].token}
                        => row[j].dueIn <= 0]_vars
=============================================================================
