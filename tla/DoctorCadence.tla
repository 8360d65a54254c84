--------------------------- MODULE DoctorCadence ---------------------------
(***************************************************************************)
(* The scheduler and the doctor scan of one healthy worker put together:   *)
(* the registered handler of the job openclaw.doctor-scan is               *)
(* doctorScanPort.tick, whose scan goes on after the handler returned.     *)
(* No call fails and every timer fires on time.                            *)
(***************************************************************************)
EXTENDS Integers

CONSTANTS
  worker, job,
  Tokens, NoToken, NoJob,
  Cadence, Lease, WakeInterval,                    \* the scheduler's times
  ScanLease, ScanCadence, ForceCooldown, ScanTime, \* the scan's times
  StaleAfter,                                      \* SCAN_STALE_AFTER_MS
  OldAge                                           \* ages from here on are not told apart

\* What the constants are.
CadenceConstants ==
  /\ NoToken \notin Tokens /\ NoJob # job
  /\ {Cadence, Lease, WakeInterval} \subseteq Nat \ {0}
  /\ {ScanLease, ScanCadence, ForceCooldown} \subseteq Nat \ {0}
  /\ {ScanTime, StaleAfter, OldAge} \subseteq Nat

VARIABLES
  row, pc, held, cur, sleep, stopping, acked, stranded,  \* as in ScheduledJobs
  lease, latest, scan, doctors, passed,                  \* as in DoctorScan
  faults

schedVars == <<row, pc, held, cur, sleep, stopping, acked, stranded>>
scanVars == <<lease, latest, scan, doctors, passed>>
cadenceVars == <<schedVars, scanVars, faults>>

NoSkew == [w \in {worker} |-> 0]

Sched == INSTANCE ScheduledJobs WITH
           Workers <- {worker}, Jobs <- {job}, Handlers <- {job},
           Backoff <- 1, BatchLimit <- 1, Skew <- NoSkew, Floor <- 0,
           MaxFailures <- 1, MaxFaults <- 0
Scan == INSTANCE DoctorScan WITH
          Workers <- {worker}, PrepLimit <- 0, ExecLimit <- ScanTime, TermLimit <- 0,
          Skew <- NoSkew, MaxFaults <- 0

CadenceInit == Sched!Init /\ Scan!Init

\* The handler: tick() requests a scheduled scan and resolves whatever the claim said.
Handle ==
  /\ Sched!Handle(worker)
  /\ pc'[worker] = "ack"
  /\ Scan!Request(worker, "scheduled")

Schedule ==
  /\ Sched!Start(worker) \/ Sched!Wake(worker) \/ Sched!Dispatch(worker) \/ Sched!Ack(worker)
  /\ UNCHANGED scanVars

Execute ==
  /\ \/ Scan!Exec(worker) \/ Scan!ExecEnds(worker)
     \/ Scan!Terminated(worker) \/ Scan!Publish(worker)
  /\ UNCHANGED schedVars

\* Nothing that can be done now is put off.
Due ==
  \/ pc[worker] # "idle" \/ sleep[worker] = 0
  \/ scan[worker].phase \in {"prepare", "terminate", "publish"}

Tick ==
  /\ ~Due
  /\ Sched!Tick
  /\ Scan!Tick

CadenceNext == Handle \/ Schedule \/ Execute \/ Tick

CadenceSpec == CadenceInit /\ [][CadenceNext]_cadenceVars

-----------------------------------------------------------------------------
(* "Freshness is 10 minutes: two missed five-minute windows": with every   *)
(* window served, the Health page never calls the latest success stale.    *)
NeverStale == latest.status = "succeeded" => latest.age <= StaleAfter
=============================================================================
