----------------------------- MODULE DoctorScan -----------------------------
(***************************************************************************)
(* The durable doctor scan: the scan lease and the evidence of             *)
(* PostgresDoctorScanRepository, the orchestrator that claims, executes    *)
(* detached and publishes, and the bounded Docker exec it runs.  The       *)
(* doctor is a process of the gateway's container: it starts with the exec *)
(* and lives on when the worker dies or its termination is not confirmed.  *)
(*                                                                         *)
(* Times are ticks relative to the database clock, as in ScheduledJobs: a  *)
(* claim is decided and stamped by the worker's clock, which runs Skew[w]  *)
(* ahead; the publication fence reads the database's now().                *)
(***************************************************************************)
EXTENDS Integers, FiniteSets

CONSTANTS
  Workers,        \* worker processes
  Tokens,         \* lease_token values
  NoToken,
  ScanLease,      \* DEFAULT_LEASE_DURATION_MS
  ScanCadence,    \* DEFAULT_CADENCE_MS
  ForceCooldown,  \* FORCE_COOLDOWN_MS
  PrepLimit,      \* longest time the Docker calls before the exec take
  ExecLimit,      \* doctorScanHardTimeoutMs
  TermLimit,      \* longest time terminateDoctorScan and the calls after it take
  Skew,           \* worker clock minus database clock
  OldAge,         \* ages from here on are not told apart
  MaxFaults       \* bound on crashes and failing database or Docker calls

Kinds == {"scheduled", "force"}

ASSUME ScanAssumption ==
  /\ NoToken \notin Tokens
  /\ {ScanLease, ScanCadence, ForceCooldown} \subseteq Nat \ {0}
  /\ {PrepLimit, ExecLimit, TermLimit, OldAge, MaxFaults} \subseteq Nat
  /\ Skew \in [Workers -> Int]
  /\ \A w \in Workers : /\ ScanLease + Skew[w] > 0
                        /\ OldAge + Skew[w] >= ScanCadence
                        /\ OldAge + Skew[w] >= ForceCooldown

VARIABLES
  lease,      \* platform_doctor_scan_lease
  latest,     \* the newest completed_at of platform_doctor_scan_run
  scan,       \* scan[w]: the detached executeScan of worker w; inFlight while not idle
  doctors,    \* the doctors that run in the container, by the token of their scan
  passed,     \* history: a later claim was granted while w was scanning
  faults      \* crashes and errors so far

vars == <<lease, latest, scan, doctors, passed, faults>>

-----------------------------------------------------------------------------
Least(a, b) == IF a < b THEN a ELSE b
Most(a, b) == IF a > b THEN a ELSE b

Idle == [phase |-> "idle", token |-> NoToken, left |-> 0, ok |-> FALSE]
Scans ==
  [phase : {"idle", "prepare", "exec", "terminate", "publish"},
   token : Tokens \union {NoToken}, left : Nat, ok : BOOLEAN]

\* left: ticks to lease_expires_at; held: ticks since lease_acquired_at;
\* forced: ticks since last_force_requested_at, OldAge when it is null.
Leases ==
  [token : Tokens \union {NoToken}, left : Int, held : Int, forced : Int]

Init ==
  /\ lease = [token |-> NoToken, left |-> 0, held |-> 0, forced |-> OldAge]
  /\ latest = [status |-> "never", age |-> OldAge]
  /\ scan = [w \in Workers |-> Idle]
  /\ doctors = {}
  /\ passed = [w \in Workers |-> FALSE]
  /\ faults = 0

\* The cadence check of a scheduled claim: no run completed within it.
CadencePermits(w) == latest.age + Skew[w] >= ScanCadence
CooldownPermits(w) == lease.forced + Skew[w] >= ForceCooldown

\* claim: insert when there is no lease row, else the conditional upsert.
Claimable(w, kind) ==
  /\ lease.token = NoToken \/ lease.left <= Skew[w]
  /\ IF kind = "force" THEN CooldownPermits(w) ELSE CadencePermits(w)

Unused ==
  {t \in Tokens \ doctors : lease.token # t /\ \A w \in Workers : scan[w].token # t}
Fresh == CHOOSE t \in Unused : TRUE

\* The lease row a granted claim writes.
Claimed(w, kind) ==
  [token |-> Fresh, left |-> ScanLease + Skew[w], held |-> -Skew[w],
   forced |-> IF kind = "force" THEN -Skew[w] ELSE lease.forced]

-----------------------------------------------------------------------------
\* startIfClaimed: a scan in flight in this process answers without a claim,
\* a refused claim starts nothing, a granted one detaches executeScan.
Request(w, kind) ==
  IF scan[w].phase = "idle" /\ Claimable(w, kind)
    THEN /\ Unused # {}
         /\ lease' = Claimed(w, kind)
         /\ scan' = [scan EXCEPT ![w] = [phase |-> "prepare", token |-> Fresh,
                                         left |-> PrepLimit, ok |-> FALSE]]
         /\ passed' = [v \in Workers |-> v # w /\ (passed[v] \/ scan[v].phase # "idle")]
         /\ UNCHANGED <<latest, doctors, faults>>
    ELSE UNCHANGED vars

\* The claim throws after its commit: the lease stays, nobody scans.
ClaimError(w, kind) ==
  /\ scan[w].phase = "idle" /\ Claimable(w, kind) /\ Unused # {}
  /\ faults < MaxFaults /\ faults' = faults + 1
  /\ lease' = Claimed(w, kind)
  /\ passed' = [v \in Workers |-> passed[v] \/ scan[v].phase # "idle"]
  /\ UNCHANGED <<latest, scan, doctors>>

\* The container is found and the exec created; its start request starts the
\* doctor, and with it the hard timeout.
Exec(w) ==
  /\ scan[w].phase = "prepare"
  /\ scan' = [scan EXCEPT ![w].phase = "exec", ![w].left = ExecLimit]
  /\ doctors' = doctors \union {scan[w].token}
  /\ UNCHANGED <<lease, latest, passed, faults>>

\* A Docker call before the exec fails: the result is "unavailable".
PrepareFails(w) ==
  /\ scan[w].phase = "prepare"
  /\ faults < MaxFaults /\ faults' = faults + 1
  /\ scan' = [scan EXCEPT ![w].phase = "publish", ![w].left = 0]
  /\ UNCHANGED <<lease, latest, doctors, passed>>

\* Mutant: a failed read is reported at once.
ExecEnds_NoTermination(w) ==
  /\ scan[w].phase = "exec"
  /\ \E ok \in BOOLEAN :
       scan' = [scan EXCEPT ![w].phase = IF ok THEN "terminate" ELSE "publish",
                            ![w].left = TermLimit, ![w].ok = ok]
  /\ UNCHANGED <<lease, latest, doctors, passed, faults>>

\* The output has been read to its end (ok), or the start request, the bounds
\* or the hard timeout stopped the reading.  The doctor may still run.
ExecEnds(w) ==
  /\ scan[w].phase = "exec"
  /\ \E ok \in BOOLEAN :
       scan' = [scan EXCEPT ![w].phase = "terminate", ![w].left = TermLimit, ![w].ok = ok]
  /\ UNCHANGED <<lease, latest, doctors, passed, faults>>

\* The cleanup exec ended with 0 and Docker says that the doctor has stopped.
\* The exit code and the output may still make the result "unavailable".
Terminated(w) ==
  /\ scan[w].phase = "terminate"
  /\ \E ok \in {scan[w].ok, FALSE} :
       scan' = [scan EXCEPT ![w].phase = "publish", ![w].left = 0, ![w].ok = ok]
  /\ doctors' = doctors \ {scan[w].token}
  /\ UNCHANGED <<lease, latest, passed, faults>>

\* Mutant: the answer of terminateDoctorScan is not looked at.
Unconfirmed_Trusted(w) ==
  /\ scan[w].phase = "terminate"
  /\ faults < MaxFaults /\ faults' = faults + 1
  /\ scan' = [scan EXCEPT ![w].phase = "publish", ![w].left = 0]
  /\ UNCHANGED <<lease, latest, doctors, passed>>

\* A Docker call of the termination fails, the cleanup exec fails or its
\* deadline passes: the result is "unavailable", the doctor may live on.
Unconfirmed(w) ==
  /\ scan[w].phase = "terminate"
  /\ faults < MaxFaults /\ faults' = faults + 1
  /\ scan' = [scan EXCEPT ![w].phase = "publish", ![w].left = 0, ![w].ok = FALSE]
  /\ UNCHANGED <<lease, latest, doctors, passed>>

\* A doctor ends, by itself or by a cleanup that was started; no time limit in
\* the container makes it.
DoctorExits(t) ==
  /\ doctors' = doctors \ {t}
  /\ UNCHANGED <<lease, latest, scan, passed, faults>>

\* Mutant: the publication is fenced by the expiry alone.
Fenced_AnyToken(w) == lease.left > 0 /\ lease.held >= 0

\* publish's guarded update: token and expiry, and the check constraint
\* lease_expires_at > lease_acquired_at on the expiry it writes.
Fenced(w) == lease.token = scan[w].token /\ lease.left > 0 /\ lease.held >= 0

\* The run is stamped with the worker's clock; readLatest goes by that stamp.
Published(w) ==
  IF latest.age < -Skew[w]
    THEN latest
    ELSE [status |-> IF scan[w].ok THEN "succeeded" ELSE "unavailable", age |-> -Skew[w]]

PublishRows(w) ==
  IF Fenced(w) THEN /\ lease' = [lease EXCEPT !.left = 0]
                    /\ latest' = Published(w)
               ELSE UNCHANGED <<lease, latest>>

Finish(w) ==
  /\ scan' = [scan EXCEPT ![w] = Idle]
  /\ passed' = [passed EXCEPT ![w] = FALSE]

Publish(w) ==
  /\ scan[w].phase = "publish"
  /\ PublishRows(w)
  /\ Finish(w)
  /\ UNCHANGED <<doctors, faults>>

\* publish throws before its commit, and the error is swallowed.
PublishError(w) ==
  /\ scan[w].phase = "publish"
  /\ faults < MaxFaults /\ faults' = faults + 1
  /\ Finish(w)
  /\ UNCHANGED <<lease, latest, doctors>>

\* The worker dies and comes back with an empty inFlight set; the doctor is
\* not its child and goes on.
Crash(w) ==
  /\ scan[w].phase # "idle"
  /\ faults < MaxFaults /\ faults' = faults + 1
  /\ Finish(w)
  /\ UNCHANGED <<lease, latest, doctors>>

\* One tick of every clock; a deadline that has come is met first.
Tick ==
  /\ \A w \in Workers : scan[w].phase \in {"prepare", "exec", "terminate"} => scan[w].left > 0
  /\ lease' = IF lease.token = NoToken THEN lease
              ELSE [lease EXCEPT !.left = Most(-OldAge, @ - 1),
                                 !.held = Least(OldAge, @ + 1),
                                 !.forced = Least(OldAge, @ + 1)]
  /\ latest' = [latest EXCEPT !.age = Least(OldAge, @ + 1)]
  /\ scan' = [w \in Workers |-> [scan[w] EXCEPT !.left = Most(0, @ - 1)]]
  /\ UNCHANGED <<doctors, passed, faults>>

Next ==
  \/ \E w \in Workers :
       \/ \E kind \in Kinds : Request(w, kind) \/ ClaimError(w, kind)
       \/ Exec(w) \/ PrepareFails(w) \/ ExecEnds(w) \/ Terminated(w) \/ Unconfirmed(w)
       \/ Publish(w) \/ PublishError(w) \/ Crash(w)
  \/ \E t \in doctors : DoctorExits(t)
  \/ Tick

Spec == Init /\ [][Next]_vars

-----------------------------------------------------------------------------
TypeOK ==
  /\ lease \in Leases
  /\ latest \in [status : {"never", "succeeded", "unavailable"}, age : Int]
  /\ scan \in [Workers -> Scans]
  /\ doctors \subseteq Tokens
  /\ passed \in [Workers -> BOOLEAN]
  /\ faults \in 0..MaxFaults

(* "A late, fenced-out worker must not publish stale results": once a      *)
(* later claim has been granted, a worker's publication writes neither     *)
(* evidence nor the lease, even when it comes while the newer lease lives. *)
LateWorkerNeverPublishes ==
  [][\A w \in Workers :
       passed[w] /\ scan[w].phase = "publish" /\ scan'[w].phase = "idle"
         => UNCHANGED <<lease, latest>>]_vars

(* "No result (including success) returns until Docker positively confirms *)
(* the doctor exec stopped": a success is published only of a doctor that  *)
(* does not run any more, whatever the workers and the container do before *)
(* the publication.                                                        *)
SucceededMeansStopped ==
  \A w \in Workers :
    scan[w].phase = "publish" /\ scan[w].ok => scan[w].token \notin doctors

\* The doctors whose scan still watches them.
Watched == {scan[w].token : w \in {v \in Workers : scan[v].phase \in {"exec", "terminate"}}}

(* Doctors are left to themselves by failures only: there are never more   *)
(* doctors without a scan that reads or terminates them than there were    *)
(* crashes and failed Docker calls, however reads, timeouts, terminations, *)
(* expiring leases and claims of several workers follow each other.        *)
LeftBehindByFaults == Cardinality(doctors \ Watched) <= faults

-----------------------------------------------------------------------------
\* What ADR-021 says and the code does not ensure; see the README.

(* "It never starts a second exec": two workers' doctors never run at the  *)
(* same time.                                                              *)
OneExecAtATime ==
  \A v, w \in Workers : scan[v].phase = "exec" /\ scan[w].phase = "exec" => v = w

(* "The child-termination deadline must precede lease expiry": as long as  *)
(* a worker reads or ends its doctor, it owns a lease the database calls   *)
(* live.                                                                   *)
ExecEndsUnderLease ==
  \A w \in Workers : scan[w].phase \in {"exec", "terminate"}
                       => lease.token = scan[w].token /\ lease.left > 0

(* "in_progress: a valid lease owns a scan": readLatest and ensureFresh    *)
(* report a scan in progress whichever worker runs it.                     *)
InProgress(w) == scan[w].phase # "idle"
InProgressEverywhere ==
  \A v, w \in Workers :
    InProgress(v) /\ lease.token = scan[v].token /\ lease.left > 0 => InProgress(w)
=============================================================================
