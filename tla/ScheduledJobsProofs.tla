------------------------ MODULE ScheduledJobsProofs ------------------------
(***************************************************************************)
(* The fence of the dispatch leases, proved for any number of workers and  *)
(* jobs, any clocks and any bounds.                                        *)
(***************************************************************************)
EXTENDS ScheduledJobs, TLAPS

\* A leased row exists, and no row is more overdue than the model tells.
RowShape ==
  \A j \in Jobs : row[j].dueIn >= -Floor /\ (row[j].token # NoToken => row[j].exists)

\* A loop between wakes holds no lease; one that settles holds the lease it settles.
Phases ==
  \A w \in Workers :
    /\ pc[w] \in {"off", "idle"} => \A j \in Jobs : held[w][j] = NoToken
    /\ pc[w] \in {"handle", "ack", "fail"} => cur[w] \in Jobs /\ held[w][cur[w]] # NoToken

\* No two workers hold the same lease of a job.
PrivateTokens ==
  \A j \in Jobs : \A v, w \in Workers :
    held[v][j] # NoToken /\ held[v][j] = held[w][j] => v = w

\* A delivery is not acknowledged before its ack, and one that was has lost its
\* token to the acknowledgement.
AckedLost ==
  \A w \in Workers :
    /\ pc[w] \in {"handle", "ack"} => ~acked[w]
    /\ acked[w] /\ pc[w] = "fail" => row[cur[w]].token # held[w][cur[w]]

SchedInv ==
  TypeOK /\ RowShape /\ Phases /\ PrivateTokens /\ LiveLeaseHasOwner /\ AckedLost

-----------------------------------------------------------------------------
\* gen_random_uuid() gives a token that is nobody's.
LEMMA FreshToken ==
  ASSUME NEW j \in Jobs, Unused(j) # {}
  PROVE  /\ Fresh(j) \in Tokens /\ Fresh(j) # NoToken /\ Fresh(j) # row[j].token
         /\ \A w \in Workers : held[w][j] # Fresh(j)
  <1>1. Fresh(j) \in Unused(j)
    BY DEF Fresh
  <1> QED
    BY <1>1, ScheduleAssumption DEF Unused

\* What a claim writes into a row.
LEMMA LeasedRow ==
  ASSUME TypeOK, NEW w \in Workers, NEW j \in Jobs, Unused(j) # {}
  PROVE  /\ Leased(w, j) \in Rows
         /\ Leased(w, j).token = Fresh(j)
         /\ Leased(w, j).exists = row[j].exists
         /\ Leased(w, j).dueIn = row[j].dueIn
  <1>1. row[j] \in Rows
    BY DEF TypeOK
  <1>2. Larger(0, Lease + Skew[w]) \in Nat
    BY ScheduleAssumption DEF Larger
  <1>3. Fresh(j) \in Tokens
    BY FreshToken
  <1> QED
    BY <1>1, <1>2, <1>3 DEF Leased, Rows

\* What an ack or a fail writes into a row.
LEMMA ReleasedRow ==
  ASSUME TypeOK, NEW w \in Workers, NEW j \in Jobs, NEW delay \in Nat,
         NEW failures \in 0..MaxFailures
  PROVE  /\ Released(w, j, delay, failures) \in Rows
         /\ Released(w, j, delay, failures).token = NoToken
         /\ Released(w, j, delay, failures).leaseLeft = 0
         /\ Released(w, j, delay, failures).dueIn >= -Floor
  <1>1. row[j] \in Rows
    BY DEF TypeOK
  <1>2. delay + Skew[w] \in Int /\ delay + Skew[w] >= -Floor
    BY ScheduleAssumption
  <1> QED
    BY <1>1, <1>2 DEF Released, Rows

\* The rows after a claim of the due jobs S.
LEMMA ClaimFacts ==
  ASSUME SchedInv, NEW w \in Workers, NEW S \in SUBSET Jobs,
         \A j \in S : Due(w, j) /\ Unused(j) # {}
  PROVE  /\ ClaimedRows(w, S) \in [Jobs -> Rows]
         /\ \A j \in Jobs :
              /\ ClaimedRows(w, S)[j].dueIn = row[j].dueIn
              /\ ClaimedRows(w, S)[j].exists = row[j].exists
              /\ j \in S => /\ ClaimedRows(w, S)[j].token = Fresh(j)
                            /\ row[j].exists
                            /\ row[j].token = NoToken \/ row[j].leaseLeft = 0
              /\ j \notin S => ClaimedRows(w, S)[j] = row[j]
  <1>1. ASSUME NEW j \in Jobs
        PROVE  /\ ClaimedRows(w, S)[j] \in Rows
               /\ ClaimedRows(w, S)[j].dueIn = row[j].dueIn
               /\ ClaimedRows(w, S)[j].exists = row[j].exists
               /\ j \in S => /\ ClaimedRows(w, S)[j].token = Fresh(j)
                             /\ row[j].exists
                             /\ row[j].token = NoToken \/ row[j].leaseLeft = 0
               /\ j \notin S => ClaimedRows(w, S)[j] = row[j]
    <2>1. CASE j \in S
      <3>1. ClaimedRows(w, S)[j] = Leased(w, j)
        BY <2>1 DEF ClaimedRows
      <3> QED
        BY <2>1, <3>1, LeasedRow DEF SchedInv, Due
    <2>2. CASE j \notin S
      BY <2>2 DEF ClaimedRows, SchedInv, TypeOK
    <2> QED
      BY <2>1, <2>2
  <1>2. ClaimedRows(w, S) \in [Jobs -> Rows]
    BY <1>1 DEF ClaimedRows
  <1> QED
    BY <1>1, <1>2

\* What a claim takes is due.
LEMMA BatchDue ==
  ASSUME NEW w \in Workers, NEW S \in Batches(w) \union {{}}
  PROVE  S \in SUBSET Jobs /\ \A j \in S : Due(w, j)
  BY DEF Batches

\* What it means for w to settle its current delivery: the row is the old one,
\* or was released under w's fence.
Settles(w, r) ==
  /\ r \in [Jobs -> Rows]
  /\ \A j \in Jobs : r[j].dueIn >= -Floor
  /\ \A j \in Jobs :
       \/ r[j] = row[j] /\ (j = cur[w] => ~Fenced(w, j))
       \/ j = cur[w] /\ Fenced(w, j) /\ r[j].token = NoToken /\ r[j].leaseLeft = 0

\* The row an ack leaves: the old one, or released under the fence.
LEMMA AckSettles ==
  ASSUME SchedInv, NEW w \in Workers, cur[w] \in Jobs
  PROVE  Settles(w, AckRow(w))
  <1>1. Cadence \in Nat /\ 0 \in 0..MaxFailures
    BY ScheduleAssumption
  <1> DEFINE r == Released(w, cur[w], Cadence, 0)
  <1>2. r \in Rows /\ r.token = NoToken /\ r.leaseLeft = 0 /\ r.dueIn >= -Floor
    BY <1>1, ReleasedRow DEF SchedInv
  <1>3. row \in [Jobs -> Rows] /\ \A j \in Jobs : row[j].dueIn >= -Floor
    BY DEF SchedInv, TypeOK, RowShape
  <1> HIDE DEF r
  <1>4. AckRow(w) = [row EXCEPT ![cur[w]] = IF Fenced(w, cur[w]) THEN r ELSE row[cur[w]]]
    BY DEF AckRow, r
  <1> QED
    BY <1>2, <1>3, <1>4 DEF Settles

\* The row a fail leaves, likewise.
LEMMA FailSettles ==
  ASSUME SchedInv, NEW w \in Workers, cur[w] \in Jobs
  PROVE  Settles(w, FailRow(w))
  <1> DEFINE n == Smaller(row[cur[w]].failures + 1, MaxFailures)
  <1>1. row[cur[w]] \in Rows
    BY DEF SchedInv, TypeOK
  <1>2. Backoff \in Nat /\ n \in 0..MaxFailures
    BY <1>1, ScheduleAssumption DEF Smaller, Rows
  <1> HIDE DEF n
  <1> DEFINE r == Released(w, cur[w], Backoff, n)
  <1>3. r \in Rows /\ r.token = NoToken /\ r.leaseLeft = 0 /\ r.dueIn >= -Floor
    BY <1>2, ReleasedRow DEF SchedInv
  <1>4. row \in [Jobs -> Rows] /\ \A j \in Jobs : row[j].dueIn >= -Floor
    BY DEF SchedInv, TypeOK, RowShape
  <1> HIDE DEF r
  <1>5. FailRow(w) = [row EXCEPT ![cur[w]] = IF Fenced(w, cur[w]) THEN r ELSE row[cur[w]]]
    BY DEF FailRow, r, n
  <1> QED
    BY <1>3, <1>4, <1>5 DEF Settles

-----------------------------------------------------------------------------
\* The invariant holds initially.
LEMMA InitSchedInv == Init => SchedInv
  <1> SUFFICES ASSUME Init PROVE SchedInv
    OBVIOUS
  <1>1. TypeOK
    <2>1. row \in [Jobs -> Rows]
      BY ScheduleAssumption DEF Init, Rows
    <2> QED
      BY <2>1, ScheduleAssumption DEF Init, TypeOK, NoBatch
  <1>2. RowShape
    BY ScheduleAssumption DEF Init, RowShape
  <1>3. Phases /\ PrivateTokens /\ LiveLeaseHasOwner /\ AckedLost
    BY DEF Init, Phases, PrivateTokens, LiveLeaseHasOwner, AckedLost, NoBatch
  <1> QED
    BY <1>1, <1>2, <1>3 DEF SchedInv

\* The end of a wake.
LEMMA LoopEndsFacts ==
  ASSUME TypeOK, NEW w \in Workers, LoopEnds(w)
  PROVE  /\ pc'[w] = IF stopping[w] THEN "off" ELSE "idle"
         /\ \A v \in Workers \ {w} : pc'[v] = pc[v]
         /\ pc' \in [Workers -> {"off", "idle", "dispatch", "handle", "ack", "fail"}]
         /\ sleep' \in [Workers -> Nat]
  BY ScheduleAssumption DEF TypeOK, LoopEnds

\* Starting a worker registers missing rows and touches no lease.
LEMMA StartPreserves ==
  ASSUME SchedInv, NEW w \in Workers, Start(w)
  PROVE  SchedInv'
  <1>1. ASSUME NEW j \in Jobs
        PROVE  /\ row'[j] \in Rows /\ row'[j].dueIn >= -Floor
               /\ row'[j].token = row[j].token /\ row'[j].leaseLeft = row[j].leaseLeft
               /\ row[j].exists => row'[j].exists
    <2>1. row[j] \in Rows /\ row[j].dueIn >= -Floor
      BY DEF SchedInv, TypeOK, RowShape
    <2>2. Skew[w] \in Int /\ Skew[w] >= -Floor
      BY ScheduleAssumption
    <2>3. \/ row'[j] = row[j]
          \/ row'[j] = [row[j] EXCEPT !.exists = TRUE, !.dueIn = Skew[w]]
      BY DEF Start
    <2>4. CASE row'[j] = row[j]
      BY <2>1, <2>4
    <2>5. CASE row'[j] = [row[j] EXCEPT !.exists = TRUE, !.dueIn = Skew[w]]
      BY <2>1, <2>2, <2>5 DEF Rows
    <2> QED
      BY <2>3, <2>4, <2>5
  <1>2. TypeOK'
    <2>1. row' \in [Jobs -> Rows]
      BY <1>1 DEF Start
    <2> QED
      BY <2>1 DEF SchedInv, TypeOK, Start
  <1>3. RowShape'
    BY <1>1 DEF SchedInv, RowShape
  <1>4. /\ pc'[w] = "idle" /\ pc[w] = "off" /\ UNCHANGED <<held, cur, acked, stranded>>
        /\ \A v \in Workers \ {w} : pc'[v] = pc[v]
    BY DEF SchedInv, TypeOK, Start
  <1>5. Phases' /\ PrivateTokens'
    BY <1>4 DEF SchedInv, Phases, PrivateTokens
  <1>6. LiveLeaseHasOwner'
    BY <1>1, <1>4 DEF SchedInv, LiveLeaseHasOwner, Holds
  <1>7. AckedLost'
    <2> SUFFICES ASSUME NEW v \in Workers, acked[v], pc'[v] = "fail"
                 PROVE  row'[cur[v]].token # held[v][cur[v]]
      BY <1>4 DEF SchedInv, AckedLost
    <2>1. pc[v] = "fail" /\ cur[v] \in Jobs
      BY <1>4 DEF SchedInv, Phases
    <2> QED
      BY <2>1, <1>1 DEF SchedInv, AckedLost
  <1> QED
    BY <1>2, <1>3, <1>5, <1>6, <1>7 DEF SchedInv

\* A claim hands out leases nobody else can hold.
LEMMA WakePreserves ==
  ASSUME SchedInv, NEW w \in Workers, Wake(w)
  PROVE  SchedInv'
  <1>1. PICK S \in Batches(w) :
          /\ \A j \in S : Unused(j) # {}
          /\ row' = ClaimedRows(w, S)
          /\ held' = [held EXCEPT ![w] = [j \in Jobs |-> IF j \in S THEN Fresh(j) ELSE NoToken]]
          /\ stranded' = stranded \ S
          /\ IF S = {} THEN LoopEnds(w)
                       ELSE pc' = [pc EXCEPT ![w] = "dispatch"] /\ UNCHANGED sleep
    BY DEF Wake
  <1>2. S \in SUBSET Jobs /\ \A j \in S : Due(w, j)
    BY BatchDue
  <1>3. pc[w] = "idle" /\ ~stopping[w] /\ UNCHANGED <<cur, stopping, acked, faults>>
    BY DEF Wake
  <1>4. /\ row' \in [Jobs -> Rows]
        /\ \A j \in Jobs :
             /\ row'[j].dueIn = row[j].dueIn
             /\ row'[j].exists = row[j].exists
             /\ j \in S => /\ row'[j].token = Fresh(j)
                           /\ row[j].exists
                           /\ row[j].token = NoToken \/ row[j].leaseLeft = 0
             /\ j \notin S => row'[j] = row[j]
    BY <1>1, <1>2, ClaimFacts
  <1>5. \A j \in S : /\ Fresh(j) \in Tokens /\ Fresh(j) # NoToken
                     /\ \A v \in Workers : held[v][j] # Fresh(j)
    BY <1>1, <1>2, FreshToken
  <1>6. /\ \A j \in Jobs : held'[w][j] = IF j \in S THEN Fresh(j) ELSE NoToken
        /\ \A v \in Workers \ {w} : held'[v] = held[v]
        /\ held' \in [Workers -> [Jobs -> Tokens \union {NoToken}]]
    BY <1>1, <1>2, <1>5 DEF SchedInv, TypeOK
  <1>7. /\ pc'[w] = IF S = {} THEN "idle" ELSE "dispatch"
        /\ \A v \in Workers \ {w} : pc'[v] = pc[v]
        /\ pc' \in [Workers -> {"off", "idle", "dispatch", "handle", "ack", "fail"}]
        /\ sleep' \in [Workers -> Nat]
    <2>1. CASE S = {}
      <3>1. LoopEnds(w)
        BY <2>1, <1>1
      <3> QED
        BY <3>1, <2>1, <1>3, LoopEndsFacts DEF SchedInv
    <2>2. CASE S # {}
      BY <2>2, <1>1, <1>3 DEF SchedInv, TypeOK
    <2> QED
      BY <2>1, <2>2
  <1>8. TypeOK'
    BY <1>1, <1>3, <1>4, <1>6, <1>7 DEF SchedInv, TypeOK
  <1>9. RowShape'
    BY <1>4, <1>5 DEF SchedInv, RowShape
  <1>10. Phases'
    BY <1>3, <1>6, <1>7 DEF SchedInv, Phases
  <1>11. PrivateTokens'
    BY <1>5, <1>6 DEF SchedInv, PrivateTokens
  <1>12. LiveLeaseHasOwner'
    <2> SUFFICES ASSUME NEW j \in Jobs, row'[j].token # NoToken, row'[j].leaseLeft > 0
                 PROVE  j \in stranded' \/ \E v \in Workers : Holds(v, j)'
      BY DEF LiveLeaseHasOwner
    <2>1. CASE j \in S
      BY <2>1, <1>4, <1>6 DEF Holds
    <2>2. CASE j \notin S
      <3>1. j \in stranded \/ \E v \in Workers : Holds(v, j)
        BY <2>2, <1>4 DEF SchedInv, LiveLeaseHasOwner
      <3>2. CASE j \in stranded
        BY <3>2, <2>2, <1>1
      <3>3. ASSUME NEW v \in Workers, Holds(v, j) PROVE Holds(v, j)'
        <4>1. v # w
          BY <3>3, <1>3 DEF Holds, SchedInv, Phases
        <4> QED
          BY <4>1, <3>3, <2>2, <1>4, <1>6 DEF Holds
      <3> QED
        BY <3>1, <3>2, <3>3
    <2> QED
      BY <2>1, <2>2
  <1>13. AckedLost'
    <2> SUFFICES ASSUME NEW v \in Workers, acked[v], pc'[v] = "fail"
                 PROVE  row'[cur[v]].token # held'[v][cur[v]]
      BY <1>3, <1>7 DEF SchedInv, AckedLost
    <2>1. v # w /\ pc[v] = "fail" /\ cur[v] \in Jobs /\ held'[v] = held[v]
      BY <1>3, <1>6, <1>7 DEF SchedInv, Phases
    <2> QED
      BY <2>1, <1>4, <1>5 DEF SchedInv, AckedLost
  <1> QED
    BY <1>8, <1>9, <1>10, <1>11, <1>12, <1>13 DEF SchedInv

\* A claim whose answer is lost strands the leases it took.
LEMMA WakeErrorPreserves ==
  ASSUME SchedInv, NEW w \in Workers, WakeError(w)
  PROVE  SchedInv'
  <1>1. PICK S \in Batches(w) \union {{}} :
          /\ \A j \in S : Unused(j) # {}
          /\ row' = ClaimedRows(w, S)
          /\ stranded' = stranded \union S
    BY DEF WakeError
  <1>2. S \in SUBSET Jobs /\ \A j \in S : Due(w, j)
    BY BatchDue
  <1>3. pc[w] = "idle" /\ ~stopping[w] /\ UNCHANGED <<held, cur, stopping, acked>>
    BY DEF WakeError
  <1>4. /\ row' \in [Jobs -> Rows]
        /\ \A j \in Jobs :
             /\ row'[j].dueIn = row[j].dueIn
             /\ row'[j].exists = row[j].exists
             /\ j \in S => /\ row'[j].token = Fresh(j)
                           /\ row[j].exists
                           /\ row[j].token = NoToken \/ row[j].leaseLeft = 0
             /\ j \notin S => row'[j] = row[j]
    BY <1>1, <1>2, ClaimFacts
  <1>5. \A j \in S : Fresh(j) # NoToken /\ \A v \in Workers : held[v][j] # Fresh(j)
    BY <1>1, <1>2, FreshToken
  <1>6. /\ pc'[w] = "idle"
        /\ \A v \in Workers \ {w} : pc'[v] = pc[v]
        /\ pc' \in [Workers -> {"off", "idle", "dispatch", "handle", "ack", "fail"}]
        /\ sleep' \in [Workers -> Nat]
    BY <1>3, ScheduleAssumption DEF SchedInv, TypeOK, LoopEnds, WakeError
  <1>7. TypeOK'
    BY <1>1, <1>2, <1>3, <1>4, <1>6, ScheduleAssumption DEF SchedInv, TypeOK, WakeError
  <1>8. RowShape'
    BY <1>4, <1>5 DEF SchedInv, RowShape
  <1>9. Phases' /\ PrivateTokens'
    BY <1>3, <1>6 DEF SchedInv, Phases, PrivateTokens
  <1>10. LiveLeaseHasOwner'
    BY <1>1, <1>3, <1>4 DEF SchedInv, LiveLeaseHasOwner, Holds
  <1>11. AckedLost'
    <2> SUFFICES ASSUME NEW v \in Workers, acked[v], pc'[v] = "fail"
                 PROVE  row'[cur[v]].token # held[v][cur[v]]
      BY <1>3, <1>6 DEF SchedInv, AckedLost
    <2>1. v # w /\ pc[v] = "fail" /\ cur[v] \in Jobs
      BY <1>3, <1>6 DEF SchedInv, Phases
    <2> QED
      BY <2>1, <1>4, <1>5 DEF SchedInv, AckedLost
  <1> QED
    BY <1>7, <1>8, <1>9, <1>10, <1>11 DEF SchedInv

\* Taking a job of the batch in hand changes no lease.
LEMMA DispatchPreserves ==
  ASSUME SchedInv, NEW w \in Workers, Dispatch(w)
  PROVE  SchedInv'
  <1>1. PICK j \in Jobs :
          /\ held[w][j] # NoToken
          /\ cur' = [cur EXCEPT ![w] = j]
          /\ pc' = [pc EXCEPT ![w] = IF j \in Handlers THEN "handle" ELSE "fail"]
    BY DEF Dispatch
  <1>2. /\ UNCHANGED <<row, held, sleep, stopping, stranded, faults>>
        /\ acked' = [acked EXCEPT ![w] = FALSE]
    BY DEF Dispatch
  <1>3. TypeOK'
    BY <1>1, <1>2 DEF SchedInv, TypeOK
  <1>4. RowShape' /\ PrivateTokens' /\ LiveLeaseHasOwner'
    BY <1>2 DEF SchedInv, RowShape, PrivateTokens, LiveLeaseHasOwner, Holds
  <1>5. /\ \A v \in Workers \ {w} : cur'[v] = cur[v] /\ pc'[v] = pc[v] /\ acked'[v] = acked[v]
        /\ cur'[w] = j /\ pc'[w] \in {"handle", "fail"} /\ acked'[w] = FALSE
    BY <1>1, <1>2 DEF SchedInv, TypeOK
  <1>6. Phases'
    BY <1>1, <1>2, <1>5 DEF SchedInv, Phases
  <1>7. AckedLost'
    BY <1>2, <1>5 DEF SchedInv, AckedLost
  <1> QED
    BY <1>3, <1>4, <1>6, <1>7 DEF SchedInv

\* A delivery that reaches the catch block from its handler was not acknowledged.
LEMMA HandlePreserves ==
  ASSUME SchedInv, NEW w \in Workers, Handle(w)
  PROVE  SchedInv'
  <1>1. /\ pc[w] = "handle" /\ UNCHANGED <<row, held, cur, sleep, stopping, acked, stranded, faults>>
        /\ pc' \in [Workers -> {"off", "idle", "dispatch", "handle", "ack", "fail"}]
        /\ pc'[w] \in {"ack", "fail"} /\ \A v \in Workers \ {w} : pc'[v] = pc[v]
    BY DEF SchedInv, TypeOK, Handle
  <1>2. TypeOK' /\ RowShape' /\ PrivateTokens' /\ LiveLeaseHasOwner'
    BY <1>1 DEF SchedInv, TypeOK, RowShape, PrivateTokens, LiveLeaseHasOwner, Holds
  <1>3. Phases'
    BY <1>1 DEF SchedInv, Phases
  <1>4. AckedLost'
    BY <1>1 DEF SchedInv, AckedLost
  <1> QED
    BY <1>2, <1>3, <1>4 DEF SchedInv

\* Where the loop goes after a delivery.
LEMMA NextDeliveryFacts ==
  ASSUME SchedInv, NEW w \in Workers, cur[w] \in Jobs, NextDelivery(w)
  PROVE  /\ held' \in [Workers -> [Jobs -> Tokens \union {NoToken}]]
         /\ \A j \in Jobs : held'[w][j] = IF j = cur[w] THEN NoToken ELSE held[w][j]
         /\ \A v \in Workers \ {w} : held'[v] = held[v] /\ cur'[v] = cur[v] /\ pc'[v] = pc[v]
         /\ cur' \in [Workers -> Jobs \union {NoJob}]
         /\ pc'[w] \in {"dispatch", "idle", "off"}
         /\ pc'[w] # "dispatch" => \A j \in Jobs : held'[w][j] = NoToken
         /\ pc' \in [Workers -> {"off", "idle", "dispatch", "handle", "ack", "fail"}]
         /\ sleep' \in [Workers -> Nat]
  <1>1. /\ held' \in [Workers -> [Jobs -> Tokens \union {NoToken}]]
        /\ \A j \in Jobs : held'[w][j] = IF j = cur[w] THEN NoToken ELSE held[w][j]
        /\ \A v \in Workers \ {w} : held'[v] = held[v] /\ cur'[v] = cur[v]
        /\ cur' \in [Workers -> Jobs \union {NoJob}]
    BY DEF SchedInv, TypeOK, NextDelivery
  <1>2. CASE \E j \in Jobs \ {cur[w]} : held[w][j] # NoToken
    <2>1. pc' = [pc EXCEPT ![w] = "dispatch"] /\ sleep' = sleep
      BY <1>2 DEF NextDelivery
    <2> QED
      BY <1>1, <2>1 DEF SchedInv, TypeOK
  <1>3. CASE ~\E j \in Jobs \ {cur[w]} : held[w][j] # NoToken
    <2>1. LoopEnds(w)
      BY <1>3 DEF NextDelivery
    <2>2. /\ pc'[w] = IF stopping[w] THEN "off" ELSE "idle"
          /\ \A v \in Workers \ {w} : pc'[v] = pc[v]
          /\ pc' \in [Workers -> {"off", "idle", "dispatch", "handle", "ack", "fail"}]
          /\ sleep' \in [Workers -> Nat]
      BY <2>1, LoopEndsFacts DEF SchedInv
    <2> QED
      BY <1>1, <1>3, <2>2
  <1> QED
    BY <1>2, <1>3

\* Settling a delivery and going on to the next keeps the invariant.
LEMMA SettlePreserves ==
  ASSUME SchedInv, NEW w \in Workers, pc[w] \in {"ack", "fail"},
         Settles(w, row'), NextDelivery(w),
         acked' \in [Workers -> BOOLEAN], \A v \in Workers \ {w} : acked'[v] = acked[v],
         UNCHANGED <<stopping, stranded, faults>>
  PROVE  SchedInv'
  <1>1. cur[w] \in Jobs /\ held[w][cur[w]] # NoToken
    BY DEF SchedInv, Phases
  <1>2. /\ held' \in [Workers -> [Jobs -> Tokens \union {NoToken}]]
        /\ \A j \in Jobs : held'[w][j] = IF j = cur[w] THEN NoToken ELSE held[w][j]
        /\ \A v \in Workers \ {w} : held'[v] = held[v] /\ cur'[v] = cur[v] /\ pc'[v] = pc[v]
        /\ cur' \in [Workers -> Jobs \union {NoJob}]
        /\ pc'[w] \in {"dispatch", "idle", "off"}
        /\ pc'[w] # "dispatch" => \A j \in Jobs : held'[w][j] = NoToken
        /\ pc' \in [Workers -> {"off", "idle", "dispatch", "handle", "ack", "fail"}]
        /\ sleep' \in [Workers -> Nat]
    BY <1>1, NextDeliveryFacts
  <1>3. TypeOK'
    BY <1>2 DEF SchedInv, TypeOK, Settles
  <1>4. RowShape'
    BY DEF SchedInv, RowShape, Settles
  <1>5. Phases'
    BY <1>2 DEF SchedInv, Phases
  <1>6. PrivateTokens'
    BY <1>2 DEF SchedInv, PrivateTokens
  <1>7. LiveLeaseHasOwner'
    <2> SUFFICES ASSUME NEW j \in Jobs, row'[j].token # NoToken, row'[j].leaseLeft > 0,
                        j \notin stranded
                 PROVE  \E v \in Workers : Holds(v, j)'
      BY DEF LiveLeaseHasOwner
    <2>1. row'[j] = row[j] /\ (j = cur[w] => ~Fenced(w, j))
      BY DEF Settles
    <2>2. PICK v \in Workers : Holds(v, j)
      BY <2>1 DEF SchedInv, LiveLeaseHasOwner
    <2>3. v = w => j # cur[w]
      BY <2>1, <2>2 DEF Holds, Fenced
    <2>4. held'[v][j] = held[v][j]
      BY <1>2, <2>3
    <2> QED
      BY <2>1, <2>2, <2>4 DEF Holds
  <1>8. AckedLost'
    <2> SUFFICES ASSUME NEW v \in Workers, v # w, pc[v] = "fail", acked[v]
                 PROVE  row'[cur[v]].token # held[v][cur[v]]
      BY <1>2 DEF SchedInv, AckedLost
    <2>1. cur[v] \in Jobs /\ held[v][cur[v]] # NoToken /\ row[cur[v]].token # held[v][cur[v]]
      BY DEF SchedInv, Phases, AckedLost
    <2> QED
      BY <2>1 DEF Settles
  <1> QED
    BY <1>3, <1>4, <1>5, <1>6, <1>7, <1>8 DEF SchedInv

\* An acknowledgement settles the delivery or changes no row.
LEMMA AckPreserves ==
  ASSUME SchedInv, NEW w \in Workers, Ack(w)
  PROVE  SchedInv'
  <1>1. pc[w] = "ack" /\ cur[w] \in Jobs
    BY DEF SchedInv, Phases, Ack
  <1>2. Settles(w, row')
    BY <1>1, AckSettles DEF Ack
  <1>3. Fenced(w, cur[w]) \in BOOLEAN
    BY DEF Fenced
  <1>4. acked' \in [Workers -> BOOLEAN] /\ \A v \in Workers \ {w} : acked'[v] = acked[v]
    BY <1>3 DEF SchedInv, TypeOK, Ack
  <1> QED
    BY <1>1, <1>2, <1>4, SettlePreserves DEF Ack

\* So does a recorded failure.
LEMMA FailPreserves ==
  ASSUME SchedInv, NEW w \in Workers, Fail(w)
  PROVE  SchedInv'
  <1>1. pc[w] = "fail" /\ cur[w] \in Jobs
    BY DEF SchedInv, Phases, Fail
  <1>2. Settles(w, row')
    BY <1>1, FailSettles DEF Fail
  <1>3. acked' \in [Workers -> BOOLEAN] /\ \A v \in Workers \ {w} : acked'[v] = acked[v]
    BY DEF SchedInv, TypeOK, Fail
  <1> QED
    BY <1>1, <1>2, <1>3, SettlePreserves DEF Fail

\* An ack that throws leaves the delivery acknowledged exactly when it committed
\* under the fence, and then the token is gone.
LEMMA AckErrorPreserves ==
  ASSUME SchedInv, NEW w \in Workers, AckError(w)
  PROVE  SchedInv'
  <1>1. /\ pc[w] = "ack" /\ cur[w] \in Jobs /\ held[w][cur[w]] # NoToken
        /\ UNCHANGED <<held, cur, sleep, stopping, stranded>>
        /\ pc' = [pc EXCEPT ![w] = "fail"]
        /\ faults < MaxFaults /\ faults' = faults + 1
    BY DEF SchedInv, Phases, AckError
  <1>2. PICK committed \in BOOLEAN :
          /\ row' = IF committed THEN AckRow(w) ELSE row
          /\ acked' = [acked EXCEPT ![w] = committed /\ Fenced(w, cur[w])]
    BY DEF AckError
  <1>3. Settles(w, AckRow(w))
    BY <1>1, AckSettles
  <1>4. /\ row' \in [Jobs -> Rows] /\ \A j \in Jobs : row'[j].dueIn >= -Floor
        /\ \A j \in Jobs : \/ row'[j] = row[j]
                           \/ row'[j].token = NoToken /\ row'[j].leaseLeft = 0
        /\ committed /\ Fenced(w, cur[w]) => row'[cur[w]].token = NoToken
    <2>1. CASE committed
      <3>1. row' = AckRow(w)
        BY <2>1, <1>2, Zenon
      <3> QED
        BY <3>1, <1>1, <1>3 DEF Settles, Fenced
    <2>2. CASE ~committed
      <3>1. row' = row
        BY <2>2, <1>2, Zenon
      <3> QED
        BY <2>2, <3>1 DEF SchedInv, TypeOK, RowShape
    <2> QED
      BY <2>1, <2>2
  <1>5. (committed /\ Fenced(w, cur[w])) \in BOOLEAN
    BY DEF Fenced
  <1>6. /\ acked' \in [Workers -> BOOLEAN] /\ \A v \in Workers \ {w} : acked'[v] = acked[v]
        /\ acked'[w] = (committed /\ Fenced(w, cur[w]))
    BY <1>2, <1>5 DEF SchedInv, TypeOK
  <1>7. /\ pc' \in [Workers -> {"off", "idle", "dispatch", "handle", "ack", "fail"}]
        /\ pc'[w] = "fail" /\ \A v \in Workers \ {w} : pc'[v] = pc[v]
    BY <1>1 DEF SchedInv, TypeOK
  <1>8. TypeOK'
    BY <1>1, <1>4, <1>6, <1>7, ScheduleAssumption DEF SchedInv, TypeOK
  <1>9. RowShape' /\ Phases' /\ PrivateTokens'
    BY <1>1, <1>4, <1>7 DEF SchedInv, RowShape, Phases, PrivateTokens
  <1>10. LiveLeaseHasOwner'
    BY <1>1, <1>4 DEF SchedInv, LiveLeaseHasOwner, Holds
  <1>11. AckedLost'
    <2> SUFFICES ASSUME NEW v \in Workers, pc'[v] = "fail", acked'[v]
                 PROVE  row'[cur[v]].token # held[v][cur[v]]
      BY <1>1, <1>6, <1>7 DEF SchedInv, AckedLost
    <2>1. CASE v = w
      BY <2>1, <1>1, <1>4, <1>6
    <2>2. CASE v # w
      <3>1. cur[v] \in Jobs /\ held[v][cur[v]] # NoToken /\ row[cur[v]].token # held[v][cur[v]]
        BY <2>2, <1>6, <1>7 DEF SchedInv, Phases, AckedLost
      <3> QED
        BY <3>1, <1>4
    <2> QED
      BY <2>1, <2>2
  <1> QED
    BY <1>8, <1>9, <1>10, <1>11 DEF SchedInv

\* A worker that forgets its batch strands every lease it still owned.
LEMMA ForgetPreserves ==
  ASSUME SchedInv, NEW w \in Workers,
         row' \in [Jobs -> Rows], \A j \in Jobs : row'[j].dueIn >= -Floor,
         \A j \in Jobs : \/ row'[j] = row[j]
                         \/ row'[j].token = NoToken /\ row'[j].leaseLeft = 0,
         stranded' = stranded \union Orphans(w),
         held' = [held EXCEPT ![w] = NoBatch], cur' = [cur EXCEPT ![w] = NoJob],
         pc' \in [Workers -> {"off", "idle", "dispatch", "handle", "ack", "fail"}],
         pc'[w] \in {"off", "idle"}, \A v \in Workers \ {w} : pc'[v] = pc[v],
         sleep' \in [Workers -> Nat], UNCHANGED <<stopping, acked>>,
         faults < MaxFaults, faults' = faults + 1
  PROVE  SchedInv'
  <1>1. /\ held' \in [Workers -> [Jobs -> Tokens \union {NoToken}]]
        /\ \A j \in Jobs : held'[w][j] = NoToken
        /\ \A v \in Workers \ {w} : held'[v] = held[v] /\ cur'[v] = cur[v]
        /\ cur' \in [Workers -> Jobs \union {NoJob}]
    BY DEF SchedInv, TypeOK, NoBatch
  <1>2. TypeOK'
    BY <1>1, ScheduleAssumption DEF SchedInv, TypeOK, Orphans
  <1>3. RowShape'
    BY DEF SchedInv, RowShape
  <1>4. Phases' /\ PrivateTokens'
    BY <1>1 DEF SchedInv, Phases, PrivateTokens
  <1>5. LiveLeaseHasOwner'
    <2> SUFFICES ASSUME NEW j \in Jobs, row'[j].token # NoToken, row'[j].leaseLeft > 0,
                        j \notin stranded'
                 PROVE  \E v \in Workers : Holds(v, j)'
      BY DEF LiveLeaseHasOwner
    <2>1. row'[j] = row[j]
      OBVIOUS
    <2>2. PICK v \in Workers : Holds(v, j)
      BY <2>1 DEF SchedInv, LiveLeaseHasOwner
    <2>3. v # w
      BY <2>2 DEF Holds, Orphans
    <2> QED
      BY <1>1, <2>1, <2>2, <2>3 DEF Holds
  <1>6. AckedLost'
    <2> SUFFICES ASSUME NEW v \in Workers, v # w, pc[v] = "fail", acked[v]
                 PROVE  row'[cur[v]].token # held[v][cur[v]]
      BY <1>1 DEF SchedInv, AckedLost
    <2>1. cur[v] \in Jobs /\ held[v][cur[v]] # NoToken /\ row[cur[v]].token # held[v][cur[v]]
      BY DEF SchedInv, Phases, AckedLost
    <2> QED
      BY <2>1
  <1> QED
    BY <1>2, <1>3, <1>4, <1>5, <1>6 DEF SchedInv

\* A failure report that throws drops the rest of the batch.
LEMMA FailErrorPreserves ==
  ASSUME SchedInv, NEW w \in Workers, FailError(w)
  PROVE  SchedInv'
  <1>1. pc[w] = "fail" /\ cur[w] \in Jobs
    BY DEF SchedInv, Phases, FailError
  <1>2. PICK committed \in BOOLEAN : row' = IF committed THEN FailRow(w) ELSE row
    BY DEF FailError
  <1>3. Settles(w, FailRow(w))
    BY <1>1, FailSettles
  <1>4. /\ row' \in [Jobs -> Rows] /\ \A j \in Jobs : row'[j].dueIn >= -Floor
        /\ \A j \in Jobs : \/ row'[j] = row[j]
                           \/ row'[j].token = NoToken /\ row'[j].leaseLeft = 0
    <2>1. CASE committed
      <3>1. row' = FailRow(w)
        BY <2>1, <1>2, Zenon
      <3> QED
        BY <3>1, <1>3 DEF Settles
    <2>2. CASE ~committed
      <3>1. row' = row
        BY <2>2, <1>2, Zenon
      <3> QED
        BY <3>1 DEF SchedInv, TypeOK, RowShape
    <2> QED
      BY <2>1, <2>2
  <1>5. LoopEnds(w)
    BY DEF FailError
  <1>6. /\ pc'[w] \in {"off", "idle"} /\ \A v \in Workers \ {w} : pc'[v] = pc[v]
        /\ pc' \in [Workers -> {"off", "idle", "dispatch", "handle", "ack", "fail"}]
        /\ sleep' \in [Workers -> Nat]
    BY <1>5, LoopEndsFacts DEF SchedInv
  <1> QED
    BY <1>4, <1>6, ForgetPreserves DEF FailError

\* A dying process drops its whole batch.
LEMMA CrashPreserves ==
  ASSUME SchedInv, NEW w \in Workers, Crash(w)
  PROVE  SchedInv'
  <1>1. /\ row' \in [Jobs -> Rows] /\ \A j \in Jobs : row'[j].dueIn >= -Floor
        /\ \A j \in Jobs : row'[j] = row[j]
    BY DEF SchedInv, TypeOK, RowShape, Crash
  <1>2. /\ pc' \in [Workers -> {"off", "idle", "dispatch", "handle", "ack", "fail"}]
        /\ pc'[w] \in {"off", "idle"} /\ \A v \in Workers \ {w} : pc'[v] = pc[v]
        /\ sleep' \in [Workers -> Nat]
    BY DEF SchedInv, TypeOK, Crash
  <1> QED
    BY <1>1, <1>2, ForgetPreserves DEF Crash

\* stop() only raises a flag; an idle loop that ends holds nothing.
LEMMA StopPreserves ==
  ASSUME SchedInv, NEW w \in Workers, Stop(w)
  PROVE  SchedInv'
  <1>1. /\ pc' \in [Workers -> {"off", "idle", "dispatch", "handle", "ack", "fail"}]
        /\ stopping' \in [Workers -> BOOLEAN]
        /\ pc'[w] = pc[w] \/ (pc[w] = "idle" /\ pc'[w] = "off")
        /\ \A v \in Workers \ {w} : pc'[v] = pc[v]
        /\ UNCHANGED <<row, held, cur, sleep, acked, stranded>>
        /\ faults < MaxFaults /\ faults' = faults + 1
    BY DEF SchedInv, TypeOK, Stop
  <1>2. TypeOK'
    BY <1>1, ScheduleAssumption DEF SchedInv, TypeOK
  <1>3. RowShape' /\ PrivateTokens' /\ LiveLeaseHasOwner'
    BY <1>1 DEF SchedInv, RowShape, PrivateTokens, LiveLeaseHasOwner, Holds
  <1>4. Phases' /\ AckedLost'
    BY <1>1 DEF SchedInv, Phases, AckedLost
  <1> QED
    BY <1>2, <1>3, <1>4 DEF SchedInv

\* What a tick does to a row.
LEMMA TickRow ==
  ASSUME SchedInv, Tick, NEW j \in Jobs
  PROVE  /\ row'[j] \in Rows /\ row'[j].token = row[j].token
         /\ row'[j].exists = row[j].exists /\ row'[j].leaseLeft <= row[j].leaseLeft
         /\ row'[j].dueIn >= -Floor /\ row'[j].dueIn <= row[j].dueIn
  <1>1. row[j] \in Rows /\ row[j].dueIn >= -Floor
    BY DEF SchedInv, TypeOK, RowShape
  <1> DEFINE l == Larger(0, row[j].leaseLeft - 1)
             d == Larger(-Floor, row[j].dueIn - 1)
  <1>2. /\ l \in Nat /\ l <= row[j].leaseLeft
        /\ d \in Int /\ d >= -Floor /\ d <= row[j].dueIn
    BY <1>1, ScheduleAssumption DEF Larger, Rows
  <1>3. row'[j] = [row[j] EXCEPT !.leaseLeft = l, !.dueIn = d]
    BY DEF Tick
  <1> HIDE DEF l, d
  <1> QED
    BY <1>1, <1>2, <1>3 DEF Rows

\* Time only shortens leases and waits.
LEMMA TickPreserves ==
  ASSUME SchedInv, Tick
  PROVE  SchedInv'
  <1>1. UNCHANGED <<pc, held, cur, stopping, acked, stranded, faults>>
    BY DEF Tick
  <1>2. TypeOK'
    <2>1. row' \in [Jobs -> Rows]
      BY TickRow DEF Tick
    <2>2. \A w \in Workers : Larger(0, sleep[w] - 1) \in Nat
      BY DEF SchedInv, TypeOK, Larger
    <2>3. sleep' \in [Workers -> Nat]
      BY <2>2 DEF Tick
    <2> QED
      BY <1>1, <2>1, <2>3 DEF SchedInv, TypeOK
  <1>3. RowShape'
    BY TickRow DEF SchedInv, RowShape
  <1>4. Phases' /\ PrivateTokens'
    BY <1>1 DEF SchedInv, Phases, PrivateTokens
  <1>5. LiveLeaseHasOwner'
    <2> SUFFICES ASSUME NEW j \in Jobs, row'[j].token # NoToken, row'[j].leaseLeft > 0
                 PROVE  j \in stranded \/ \E w \in Workers : Holds(w, j)'
      BY <1>1 DEF LiveLeaseHasOwner
    <2>1. row[j].leaseLeft \in Nat /\ row'[j].leaseLeft \in Nat
      BY TickRow DEF SchedInv, TypeOK, Rows
    <2>2. row[j].token = row'[j].token /\ row[j].leaseLeft > 0
      BY <2>1, TickRow
    <2> QED
      BY <1>1, <2>2 DEF SchedInv, LiveLeaseHasOwner, Holds
  <1>6. AckedLost'
    <2> SUFFICES ASSUME NEW w \in Workers, acked[w], pc[w] = "fail"
                 PROVE  row'[cur[w]].token # held[w][cur[w]]
      BY <1>1 DEF SchedInv, AckedLost
    <2>1. cur[w] \in Jobs
      BY DEF SchedInv, Phases
    <2> QED
      BY <2>1, TickRow DEF SchedInv, AckedLost
  <1> QED
    BY <1>2, <1>3, <1>4, <1>5, <1>6 DEF SchedInv

-----------------------------------------------------------------------------
\* Every step keeps the invariant.
LEMMA NextPreserves == SchedInv /\ [Next]_vars => SchedInv'
  <1> SUFFICES ASSUME SchedInv, [Next]_vars PROVE SchedInv'
    OBVIOUS
  <1>1. ASSUME NEW w \in Workers, Step(w) PROVE SchedInv'
    BY <1>1, StartPreserves, WakePreserves, DispatchPreserves, HandlePreserves,
       AckPreserves, FailPreserves DEF Step
  <1>2. ASSUME NEW w \in Workers,
               WakeError(w) \/ AckError(w) \/ FailError(w) \/ Stop(w) \/ Crash(w)
        PROVE  SchedInv'
    BY <1>2, WakeErrorPreserves, AckErrorPreserves, FailErrorPreserves,
       StopPreserves, CrashPreserves
  <1>3. CASE Tick
    BY <1>3, TickPreserves
  <1>4. CASE UNCHANGED vars
    BY <1>4 DEF vars, SchedInv, TypeOK, RowShape, Phases, PrivateTokens,
                LiveLeaseHasOwner, Holds, AckedLost
  <1> QED
    BY <1>1, <1>2, <1>3, <1>4 DEF Next

(* The invariant that carries the fence: leases are private, a loop        *)
(* between wakes holds none, an acknowledged delivery has lost its token.  *)
THEOREM SchedulerInvariant == Spec => []SchedInv
  BY InitSchedInv, NextPreserves, PTL DEF Spec

(* Rows, batches and loops keep their types; consecutive_failures          *)
(* saturates.                                                              *)
THEOREM SchedulerTypeCorrect == Spec => []TypeOK
  <1>1. SchedInv => TypeOK
    BY DEF SchedInv
  <1> QED
    BY <1>1, SchedulerInvariant, PTL

(* No path through the wake loop forgets a live lease, apart from crashes  *)
(* and database errors.                                                    *)
THEOREM LeasesKeepTheirOwner == Spec => []LiveLeaseHasOwner
  <1>1. SchedInv => LiveLeaseHasOwner
    BY DEF SchedInv
  <1> QED
    BY <1>1, SchedulerInvariant, PTL

\* The step condition of LiveLeaseIsPrivate.
PrivateStep ==
  \A j \in Jobs, v \in Workers :
    Holds(v, j) /\ row[j].leaseLeft > 0 =>
      \/ row'[j].token = row[j].token /\ row'[j].dueIn <= row[j].dueIn
      \/ /\ cur[v] = j /\ pc[v] \in {"ack", "fail"}
         /\ pc'[v] # pc[v]

\* A settlement by w touches no lease that another worker holds.
LEMMA SettleIsPrivate ==
  ASSUME SchedInv, NEW w \in Workers, pc[w] \in {"ack", "fail"}, pc'[w] # pc[w],
         \A j \in Jobs : row'[j] = row[j] \/ (j = cur[w] /\ Fenced(w, j))
  PROVE  PrivateStep
  <1> SUFFICES ASSUME NEW j \in Jobs, NEW v \in Workers, Holds(v, j), row'[j] # row[j]
               PROVE  v = w /\ cur[v] = j
    <2>1. \A j \in Jobs : row[j].dueIn <= row[j].dueIn
      BY DEF SchedInv, TypeOK, Rows
    <2> QED
      BY <2>1 DEF PrivateStep
  <1>1. j = cur[w] /\ Fenced(w, j)
    OBVIOUS
  <1> QED
    BY <1>1 DEF Holds, Fenced, SchedInv, PrivateTokens

\* A claim leaves every live lease alone.
LEMMA ClaimIsPrivate ==
  ASSUME SchedInv, NEW w \in Workers, NEW S \in Batches(w) \union {{}},
         \A j \in S : Unused(j) # {}, row' = ClaimedRows(w, S)
  PROVE  PrivateStep
  <1>1. S \in SUBSET Jobs /\ \A j \in S : Due(w, j)
    BY BatchDue
  <1>2. \A j \in Jobs : /\ j \in S => row[j].token = NoToken \/ row[j].leaseLeft = 0
                        /\ j \notin S => row'[j] = row[j]
    <2>1. \A j \in S : Due(w, j) /\ Unused(j) # {}
      BY <1>1
    <2> QED
      BY <1>1, <2>1, ClaimFacts
  <1>3. \A j \in Jobs : row[j].dueIn <= row[j].dueIn
    BY DEF SchedInv, TypeOK, Rows
  <1> QED
    BY <1>2, <1>3 DEF PrivateStep, Holds

(* A worker that was overtaken changes nothing: only the holder of a live  *)
(* lease ends it or moves the job's next run.                              *)
THEOREM LiveLeasesPrivate == Spec => LiveLeaseIsPrivate
  <1>1. SchedInv /\ [Next]_vars => [PrivateStep]_vars
    <2> SUFFICES ASSUME SchedInv, Next PROVE PrivateStep
      BY DEF vars
    <2>0. \A j \in Jobs : row[j].dueIn <= row[j].dueIn
      BY DEF SchedInv, TypeOK, Rows
    <2>1. ASSUME NEW w \in Workers, Start(w) PROVE PrivateStep
      BY <2>0, <2>1 DEF Start, PrivateStep, Holds, SchedInv, RowShape
    <2>2. ASSUME NEW w \in Workers, Wake(w) \/ WakeError(w) PROVE PrivateStep
      BY <2>2, ClaimIsPrivate DEF Wake, WakeError
    <2>3. ASSUME NEW w \in Workers, Dispatch(w) \/ Handle(w) \/ Stop(w) \/ Crash(w)
          PROVE  PrivateStep
      BY <2>0, <2>3 DEF Dispatch, Handle, Stop, Crash, PrivateStep
    <2>4. ASSUME NEW w \in Workers, Ack(w) PROVE PrivateStep
      <3>1. pc[w] = "ack" /\ cur[w] \in Jobs /\ NextDelivery(w) /\ row' = AckRow(w)
        BY <2>4 DEF Ack, SchedInv, Phases
      <3>2. pc'[w] # pc[w]
        BY <3>1, NextDeliveryFacts
      <3>3. \A j \in Jobs : row'[j] = row[j] \/ (j = cur[w] /\ Fenced(w, j))
        BY <3>1, AckSettles DEF Settles
      <3> QED
        BY <3>1, <3>2, <3>3, SettleIsPrivate
    <2>5. ASSUME NEW w \in Workers, Fail(w) PROVE PrivateStep
      <3>1. pc[w] = "fail" /\ cur[w] \in Jobs /\ NextDelivery(w) /\ row' = FailRow(w)
        BY <2>5 DEF Fail, SchedInv, Phases
      <3>2. pc'[w] # pc[w]
        BY <3>1, NextDeliveryFacts
      <3>3. \A j \in Jobs : row'[j] = row[j] \/ (j = cur[w] /\ Fenced(w, j))
        BY <3>1, FailSettles DEF Settles
      <3> QED
        BY <3>1, <3>2, <3>3, SettleIsPrivate
    <2>6. ASSUME NEW w \in Workers, AckError(w) PROVE PrivateStep
      <3>1. pc[w] = "ack" /\ cur[w] \in Jobs /\ pc'[w] # pc[w]
        BY <2>6 DEF AckError, SchedInv, Phases, TypeOK
      <3>2. row' = AckRow(w) \/ row' = row
        BY <2>6, Zenon DEF AckError
      <3>3. \A j \in Jobs : row'[j] = row[j] \/ (j = cur[w] /\ Fenced(w, j))
        BY <3>1, <3>2, AckSettles DEF Settles
      <3> QED
        BY <3>1, <3>3, SettleIsPrivate
    <2>7. ASSUME NEW w \in Workers, FailError(w) PROVE PrivateStep
      <3>1. pc[w] = "fail" /\ cur[w] \in Jobs /\ LoopEnds(w)
        BY <2>7 DEF FailError, SchedInv, Phases
      <3>2. pc'[w] # pc[w]
        BY <3>1, LoopEndsFacts DEF SchedInv
      <3>3. row' = FailRow(w) \/ row' = row
        BY <2>7, Zenon DEF FailError
      <3>4. \A j \in Jobs : row'[j] = row[j] \/ (j = cur[w] /\ Fenced(w, j))
        BY <3>1, <3>3, FailSettles DEF Settles
      <3> QED
        BY <3>1, <3>2, <3>4, SettleIsPrivate
    <2>8. CASE Tick
      BY <2>8, TickRow DEF PrivateStep
    <2> QED
      BY <2>1, <2>2, <2>3, <2>4, <2>5, <2>6, <2>7, <2>8 DEF Next, Step
  <1>2. Spec => [][PrivateStep]_vars
    BY <1>1, SchedulerInvariant, PTL DEF Spec
  <1> QED
    BY <1>2 DEF LiveLeaseIsPrivate, PrivateStep

\* The step condition of AckedNeverFails.
HonestStep ==
  \A w \in Workers : acked[w] /\ pc[w] = "fail" /\ pc'[w] # "fail"
                       => row'[cur[w]] = row[cur[w]]

(* An acknowledged delivery is never also recorded as failed: its token    *)
(* went with the acknowledgement, and no later lease has the same one.     *)
THEOREM AckedDeliveriesStayAcked == Spec => AckedNeverFails
  <1>1. SchedInv /\ [Next]_vars => [HonestStep]_vars
    <2> SUFFICES ASSUME SchedInv, Next, NEW w \in Workers,
                        acked[w], pc[w] = "fail", pc'[w] # "fail"
                 PROVE  row'[cur[w]] = row[cur[w]]
      BY DEF HonestStep
    <2>1. cur[w] \in Jobs /\ ~Fenced(w, cur[w])
      BY DEF SchedInv, Phases, AckedLost, Fenced
    <2>2. row \in [Jobs -> Rows]
      BY DEF SchedInv, TypeOK
    <2>3. FailRow(w)[cur[w]] = row[cur[w]]
      BY <2>1, FailSettles DEF Settles
    <2>4. CASE Fail(w)
      BY <2>3, <2>4 DEF Fail
    <2>5. CASE FailError(w)
      <3>1. row' = FailRow(w) \/ row' = row
        BY <2>5, Zenon DEF FailError
      <3> QED
        BY <2>3, <3>1
    <2>6. CASE Crash(w) \/ Stop(w)
      BY <2>6 DEF Crash, Stop
    <2>7. ASSUME NEW v \in Workers, v # w,
                 Step(v) \/ WakeError(v) \/ AckError(v) \/ FailError(v) \/ Stop(v) \/ Crash(v)
          PROVE  FALSE
      <3>1. \A x \in {"off", "idle", "dispatch", "handle", "ack", "fail"} :
              pc' = [pc EXCEPT ![v] = x] => pc'[w] = pc[w]
        BY <2>7 DEF SchedInv, TypeOK
      <3>2. CASE LoopEnds(v)
        BY <3>2, <2>7, LoopEndsFacts DEF SchedInv
      <3>3. CASE Start(v) \/ Dispatch(v) \/ Handle(v) \/ AckError(v) \/ Stop(v) \/ Crash(v)
        BY <3>3, <2>7 DEF Start, Dispatch, Handle, AckError, Stop, Crash, SchedInv, TypeOK
      <3>4. CASE Wake(v)
        <4>1. LoopEnds(v) \/ pc' = [pc EXCEPT ![v] = "dispatch"]
          BY <3>4 DEF Wake
        <4> QED
          BY <4>1, <3>1, <3>2
      <3>5. CASE WakeError(v) \/ FailError(v)
        BY <3>5, <3>2 DEF WakeError, FailError
      <3>6. CASE Ack(v) \/ Fail(v)
        <4>1. LoopEnds(v) \/ pc' = [pc EXCEPT ![v] = "dispatch"]
          BY <3>6 DEF Ack, Fail, NextDelivery
        <4> QED
          BY <4>1, <3>1, <3>2
      <3> QED
        BY <2>7, <3>3, <3>4, <3>5, <3>6 DEF Step
    <2>8. CASE Tick
      BY <2>8 DEF Tick
    <2>9. CASE Start(w) \/ Wake(w) \/ Dispatch(w) \/ Handle(w) \/ Ack(w)
               \/ WakeError(w) \/ AckError(w)
      BY <2>9 DEF Start, Wake, Dispatch, Handle, Ack, WakeError, AckError
    <2> QED
      BY <2>4, <2>5, <2>6, <2>7, <2>8, <2>9 DEF Next, Step
  <1>2. Spec => [][HonestStep]_vars
    BY <1>1, SchedulerInvariant, PTL DEF Spec
  <1> QED
    BY <1>2 DEF AckedNeverFails, HonestStep
=============================================================================
