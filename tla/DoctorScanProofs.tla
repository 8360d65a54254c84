-------------------------- MODULE DoctorScanProofs --------------------------
(***************************************************************************)
(* The scan lease proved for any number of workers and any clocks: the     *)
(* publication fence, and what becomes of the doctors in the container,    *)
(* whose limits may be longer than the lease, as the shipped ones are.     *)
(***************************************************************************)
EXTENDS DoctorScan, FiniteSetTheorems, TLAPS

\* A scan in flight has a token of its own.
OwnTokens ==
  /\ \A w \in Workers : scan[w].phase # "idle" <=> scan[w].token # NoToken
  /\ \A v, w \in Workers :
       scan[v].token # NoToken /\ scan[v].token = scan[w].token => v = w

\* A scan that was passed by a later claim has lost the lease for good.
PassedLost ==
  \A w \in Workers : passed[w] => scan[w].phase # "idle" /\ scan[w].token # lease.token

ScanInv == TypeOK /\ OwnTokens /\ PassedLost

-----------------------------------------------------------------------------
\* randomUUID() gives a token that is nobody's.
LEMMA FreshToken ==
  ASSUME Unused # {}
  PROVE  /\ Fresh \in Tokens /\ Fresh # NoToken /\ Fresh # lease.token
         /\ \A w \in Workers : scan[w].token # Fresh
  <1>1. Fresh \in Unused
    BY DEF Fresh
  <1> QED
    BY <1>1, ScanAssumption DEF Unused

\* What a granted claim writes is a lease row.
LEMMA ClaimedLease ==
  ASSUME TypeOK, NEW w \in Workers, NEW kind \in Kinds, Unused # {}
  PROVE  /\ Claimed(w, kind) \in Leases
         /\ Claimed(w, kind).token = Fresh
         /\ Claimed(w, kind).left = ScanLease + Skew[w]
  BY FreshToken, ScanAssumption DEF TypeOK, Claimed, Leases

\* The invariant holds initially.
LEMMA InitScanInv == Init => ScanInv
  <1> SUFFICES ASSUME Init PROVE ScanInv
    OBVIOUS
  <1>1. Idle \in Scans /\ Idle.phase = "idle" /\ Idle.token = NoToken
    BY DEF Idle, Scans
  <1>2. scan \in [Workers -> Scans] /\ \A w \in Workers : scan[w] = Idle
    BY <1>1 DEF Init
  <1>3. TypeOK
    BY <1>2, ScanAssumption DEF Init, TypeOK, Leases
  <1>4. OwnTokens
    BY <1>1, <1>2 DEF OwnTokens
  <1>5. PassedLost
    BY DEF Init, PassedLost
  <1> QED
    BY <1>3, <1>4, <1>5 DEF ScanInv

\* A request that is granted passes every scan in flight elsewhere.
LEMMA RequestPreserves ==
  ASSUME ScanInv, NEW w \in Workers, NEW kind \in Kinds, Request(w, kind)
  PROVE  ScanInv'
  <1>1. CASE scan[w].phase = "idle" /\ Claimable(w, kind)
    <2> DEFINE new == [phase |-> "prepare", token |-> Fresh, left |-> PrepLimit, ok |-> FALSE]
    <2>1. /\ Unused # {} /\ lease' = Claimed(w, kind)
          /\ scan' = [scan EXCEPT ![w] = new]
          /\ passed' = [v \in Workers |-> v # w /\ (passed[v] \/ scan[v].phase # "idle")]
          /\ UNCHANGED <<latest, doctors, faults>>
      BY <1>1 DEF Request
    <2>2. /\ Fresh \in Tokens /\ Fresh # NoToken /\ Fresh # lease.token
          /\ \A v \in Workers : scan[v].token # Fresh
      BY <2>1, FreshToken
    <2>3. lease' \in Leases /\ lease'.token = Fresh
      BY <2>1, ClaimedLease DEF ScanInv
    <2>4. new \in Scans /\ new.phase = "prepare" /\ new.token = Fresh
      BY <2>2, ScanAssumption DEF Scans
    <2> HIDE DEF new
    <2>5. /\ scan' \in [Workers -> Scans] /\ scan'[w] = new
          /\ \A v \in Workers \ {w} : scan'[v] = scan[v]
      BY <2>1, <2>4 DEF ScanInv, TypeOK
    <2>6. \A v \in Workers : (v # w /\ (passed[v] \/ scan[v].phase # "idle")) \in BOOLEAN
      OBVIOUS
    <2>7. passed' \in [Workers -> BOOLEAN]
      BY <2>1, <2>6, Zenon
    <2>8. TypeOK'
      BY <2>1, <2>3, <2>5, <2>7 DEF ScanInv, TypeOK
    <2>9. OwnTokens'
      BY <2>2, <2>4, <2>5 DEF ScanInv, OwnTokens
    <2>10. PassedLost'
      <3> SUFFICES ASSUME NEW v \in Workers, passed'[v]
                   PROVE  scan'[v].phase # "idle" /\ scan'[v].token # lease'.token
        BY DEF PassedLost
      <3>1. v # w /\ (passed[v] \/ scan[v].phase # "idle")
        BY <2>1, Zenon
      <3>2. scan'[v] = scan[v] /\ scan[v].phase # "idle"
        BY <3>1, <2>5 DEF ScanInv, PassedLost
      <3> QED
        BY <3>2, <2>2, <2>3
    <2> QED
      BY <2>8, <2>9, <2>10 DEF ScanInv
  <1>2. CASE ~(scan[w].phase = "idle" /\ Claimable(w, kind))
    BY <1>2 DEF Request, vars, ScanInv, TypeOK, OwnTokens, PassedLost
  <1> QED
    BY <1>1, <1>2

\* A claim whose answer is lost passes every scan in flight.
LEMMA ClaimErrorPreserves ==
  ASSUME ScanInv, NEW w \in Workers, NEW kind \in Kinds, ClaimError(w, kind)
  PROVE  ScanInv'
  <1>1. /\ Unused # {} /\ lease' = Claimed(w, kind) /\ UNCHANGED <<latest, scan, doctors>>
        /\ passed' = [v \in Workers |-> passed[v] \/ scan[v].phase # "idle"]
        /\ faults < MaxFaults /\ faults' = faults + 1
    BY DEF ClaimError
  <1>2. \A v \in Workers : scan[v].token # Fresh
    BY <1>1, FreshToken
  <1>3. lease' \in Leases /\ lease'.token = Fresh
    BY <1>1, ClaimedLease DEF ScanInv
  <1>4. \A v \in Workers : (passed[v] \/ scan[v].phase # "idle") \in BOOLEAN
    OBVIOUS
  <1>5. passed' \in [Workers -> BOOLEAN]
    BY <1>1, <1>4, Zenon
  <1>6. TypeOK'
    BY <1>1, <1>3, <1>5, ScanAssumption DEF ScanInv, TypeOK
  <1>7. OwnTokens'
    BY <1>1 DEF ScanInv, OwnTokens
  <1>8. PassedLost'
    <2> SUFFICES ASSUME NEW v \in Workers, passed'[v]
                 PROVE  scan[v].phase # "idle" /\ scan[v].token # lease'.token
      BY <1>1 DEF PassedLost
    <2>1. passed[v] \/ scan[v].phase # "idle"
      BY <1>1, Zenon
    <2> QED
      BY <2>1, <1>2, <1>3 DEF ScanInv, PassedLost
  <1> QED
    BY <1>6, <1>7, <1>8 DEF ScanInv

\* A scan that moves on to its next phase keeps its token.
LEMMA AdvancePreserves ==
  ASSUME ScanInv, NEW w \in Workers,
         scan[w].phase # "idle",
         scan' \in [Workers -> Scans],
         scan'[w].phase # "idle", scan'[w].token = scan[w].token,
         \A v \in Workers \ {w} : scan'[v] = scan[v],
         UNCHANGED <<lease, latest, passed>>,
         doctors' \subseteq Tokens, faults' \in 0..MaxFaults
  PROVE  ScanInv'
  <1>1. TypeOK'
    BY DEF ScanInv, TypeOK
  <1>2. \A v \in Workers : /\ scan'[v].token = scan[v].token
                           /\ scan'[v].phase # "idle" <=> scan[v].phase # "idle"
    OBVIOUS
  <1>3. OwnTokens'
    BY <1>2 DEF ScanInv, OwnTokens
  <1>4. PassedLost'
    BY <1>2 DEF ScanInv, PassedLost
  <1> QED
    BY <1>1, <1>3, <1>4 DEF ScanInv

\* What the steps of a scan in flight have in common.
LEMMA PhaseSteps ==
  ASSUME ScanInv, NEW w \in Workers,
         Exec(w) \/ PrepareFails(w) \/ ExecEnds(w) \/ Terminated(w) \/ Unconfirmed(w)
  PROVE  /\ scan[w].phase \in {"prepare", "exec", "terminate"}
         /\ scan' \in [Workers -> Scans]
         /\ scan'[w].phase # "idle" /\ scan'[w].token = scan[w].token
         /\ \A v \in Workers \ {w} : scan'[v] = scan[v]
         /\ UNCHANGED <<lease, latest, passed>>
         /\ faults' = faults \/ (faults < MaxFaults /\ faults' = faults + 1)
         /\ scan[w].token \in Tokens
  <1>0. scan \in [Workers -> Scans] /\ scan[w] \in Scans
    BY DEF ScanInv, TypeOK
  <1>1. CASE Exec(w)
    <2>1. /\ scan[w].phase = "prepare" /\ UNCHANGED <<lease, latest, passed, faults>>
          /\ scan' = [scan EXCEPT ![w].phase = "exec", ![w].left = ExecLimit]
      BY <1>1 DEF Exec
    <2> QED
      BY <2>1, <1>0, ScanAssumption DEF Scans, ScanInv, OwnTokens
  <1>2. CASE PrepareFails(w)
    <2>1. /\ scan[w].phase = "prepare" /\ UNCHANGED <<lease, latest, passed>>
          /\ faults < MaxFaults /\ faults' = faults + 1
          /\ scan' = [scan EXCEPT ![w].phase = "publish", ![w].left = 0]
      BY <1>2 DEF PrepareFails
    <2> QED
      BY <2>1, <1>0 DEF Scans, ScanInv, OwnTokens
  <1>3. CASE ExecEnds(w)
    <2>1. PICK ok \in BOOLEAN :
            scan' = [scan EXCEPT ![w].phase = "terminate", ![w].left = TermLimit, ![w].ok = ok]
      BY <1>3 DEF ExecEnds
    <2>2. scan[w].phase = "exec" /\ UNCHANGED <<lease, latest, passed, faults>>
      BY <1>3 DEF ExecEnds
    <2> QED
      BY <2>1, <2>2, <1>0, ScanAssumption DEF Scans, ScanInv, OwnTokens
  <1>4. CASE Terminated(w)
    <2>1. PICK ok \in {scan[w].ok, FALSE} :
            scan' = [scan EXCEPT ![w].phase = "publish", ![w].left = 0, ![w].ok = ok]
      BY <1>4 DEF Terminated
    <2>2. scan[w].phase = "terminate" /\ UNCHANGED <<lease, latest, passed, faults>>
      BY <1>4 DEF Terminated
    <2>3. ok \in BOOLEAN
      BY <1>0, Zenon DEF Scans
    <2> QED
      BY <2>1, <2>2, <2>3, <1>0 DEF Scans, ScanInv, OwnTokens
  <1>5. CASE Unconfirmed(w)
    <2>1. /\ scan[w].phase = "terminate" /\ UNCHANGED <<lease, latest, passed>>
          /\ faults < MaxFaults /\ faults' = faults + 1
          /\ scan' = [scan EXCEPT ![w].phase = "publish", ![w].left = 0, ![w].ok = FALSE]
      BY <1>5 DEF Unconfirmed
    <2> QED
      BY <2>1, <1>0 DEF Scans, ScanInv, OwnTokens
  <1> QED
    BY <1>1, <1>2, <1>3, <1>4, <1>5

\* The steps of a scan in flight only advance the worker's own scan.
LEMMA PhasesPreserve ==
  ASSUME ScanInv, NEW w \in Workers,
         Exec(w) \/ PrepareFails(w) \/ ExecEnds(w) \/ Terminated(w) \/ Unconfirmed(w)
  PROVE  ScanInv'
  <1>1. faults' \in 0..MaxFaults
    <2>1. faults \in 0..MaxFaults /\ MaxFaults \in Nat
      BY ScanAssumption DEF ScanInv, TypeOK
    <2>2. faults' = faults \/ (faults < MaxFaults /\ faults' = faults + 1)
      BY PhaseSteps
    <2> QED
      BY <2>1, <2>2
  <1>2. doctors' \subseteq Tokens
    <2>1. doctors \subseteq Tokens /\ scan[w].token \in Tokens
      BY PhaseSteps DEF ScanInv, TypeOK
    <2>2. doctors' \subseteq doctors \union {scan[w].token}
      BY DEF Exec, PrepareFails, ExecEnds, Terminated, Unconfirmed
    <2> QED
      BY <2>1, <2>2
  <1>3. scan[w].phase # "idle"
    BY PhaseSteps
  <1> QED
    BY <1>1, <1>2, <1>3, PhaseSteps, AdvancePreserves

\* A worker that is done gives up its token and is no longer passed.
LEMMA FinishPreserves ==
  ASSUME ScanInv, NEW w \in Workers, Finish(w),
         lease' \in Leases, lease'.token = lease.token,
         latest' \in [status : {"never", "succeeded", "unavailable"}, age : Int],
         doctors' = doctors, faults' \in 0..MaxFaults
  PROVE  ScanInv'
  <1>1. Idle \in Scans /\ Idle.phase = "idle" /\ Idle.token = NoToken
    BY DEF Idle, Scans
  <1>2. /\ scan' \in [Workers -> Scans] /\ scan'[w] = Idle
        /\ \A v \in Workers \ {w} : scan'[v] = scan[v]
    BY <1>1 DEF Finish, ScanInv, TypeOK
  <1>3. /\ passed' \in [Workers -> BOOLEAN] /\ ~passed'[w]
        /\ \A v \in Workers \ {w} : passed'[v] = passed[v]
    BY Zenon DEF Finish, ScanInv, TypeOK
  <1>4. TypeOK'
    BY <1>2, <1>3 DEF ScanInv, TypeOK
  <1>5. OwnTokens'
    BY <1>1, <1>2 DEF ScanInv, OwnTokens
  <1>6. PassedLost'
    BY <1>2, <1>3 DEF ScanInv, PassedLost
  <1> QED
    BY <1>4, <1>5, <1>6 DEF ScanInv

\* What a publication writes, and that it never changes the token.
LEMMA PublishedRows ==
  ASSUME ScanInv, NEW w \in Workers, PublishRows(w)
  PROVE  /\ lease' \in Leases /\ lease'.token = lease.token
         /\ latest' \in [status : {"never", "succeeded", "unavailable"}, age : Int]
  <1>0. /\ lease \in Leases /\ scan[w] \in Scans
        /\ latest \in [status : {"never", "succeeded", "unavailable"}, age : Int]
        /\ -Skew[w] \in Int
    BY ScanAssumption DEF ScanInv, TypeOK
  <1>1. CASE Fenced(w)
    <2>1. lease' = [lease EXCEPT !.left = 0] /\ latest' = Published(w)
      BY <1>1 DEF PublishRows
    <2>2. lease' \in Leases /\ lease'.token = lease.token
      BY <2>1, <1>0 DEF Leases
    <2>3. CASE latest.age < -Skew[w]
      BY <2>1, <2>2, <2>3, <1>0 DEF Published
    <2>4. CASE ~(latest.age < -Skew[w])
      <3>1. latest' = [status |-> IF scan[w].ok THEN "succeeded" ELSE "unavailable",
                       age |-> -Skew[w]]
        BY <2>1, <2>4 DEF Published
      <3>2. (IF scan[w].ok THEN "succeeded" ELSE "unavailable")
              \in {"never", "succeeded", "unavailable"}
        BY Zenon
      <3> QED
        BY <3>1, <3>2, <2>2, <1>0
    <2> QED
      BY <2>3, <2>4
  <1>2. CASE ~Fenced(w)
    BY <1>2, <1>0 DEF PublishRows
  <1> QED
    BY <1>1, <1>2

\* Publish, PublishError and Crash end the worker's scan.
LEMMA EndsPreserve ==
  ASSUME ScanInv, NEW w \in Workers, Publish(w) \/ PublishError(w) \/ Crash(w)
  PROVE  ScanInv'
  <1>0. /\ lease \in Leases /\ faults \in 0..MaxFaults
        /\ latest \in [status : {"never", "succeeded", "unavailable"}, age : Int]
    BY DEF ScanInv, TypeOK
  <1>1. CASE Publish(w)
    <2>1. PublishRows(w) /\ Finish(w) /\ UNCHANGED <<doctors, faults>>
      BY <1>1 DEF Publish
    <2> QED
      BY <2>1, <1>0, PublishedRows, FinishPreserves
  <1>2. CASE PublishError(w) \/ Crash(w)
    <2>1. /\ Finish(w) /\ UNCHANGED <<lease, latest, doctors>>
          /\ faults < MaxFaults /\ faults' = faults + 1
      BY <1>2 DEF PublishError, Crash
    <2>2. faults' \in 0..MaxFaults
      BY <2>1, <1>0, ScanAssumption
    <2> QED
      BY <2>1, <2>2, <1>0, FinishPreserves
  <1> QED
    BY <1>1, <1>2

\* Time changes neither tokens nor phases.
LEMMA TickRows ==
  ASSUME ScanInv, Tick
  PROVE  /\ lease' \in Leases /\ lease'.token = lease.token
         /\ latest' \in [status : {"never", "succeeded", "unavailable"}, age : Int]
         /\ scan' \in [Workers -> Scans]
         /\ \A w \in Workers : /\ scan'[w].phase = scan[w].phase
                               /\ scan'[w].token = scan[w].token
                               /\ scan'[w].ok = scan[w].ok
  <1>0. /\ lease \in Leases /\ scan \in [Workers -> Scans] /\ OldAge \in Nat
        /\ latest \in [status : {"never", "succeeded", "unavailable"}, age : Int]
    BY ScanAssumption DEF ScanInv, TypeOK
  <1>1. \A a, b \in Int : Most(a, b) \in Int /\ Least(a, b) \in Int
    BY DEF Most, Least
  <1>2. \A n \in Nat : Most(0, n - 1) \in Nat
    BY DEF Most
  <1>3. lease' \in Leases /\ lease'.token = lease.token
    <2>1. CASE lease.token = NoToken
      BY <2>1, <1>0 DEF Tick
    <2>2. CASE lease.token # NoToken
      <3>1. lease' = [lease EXCEPT !.left = Most(-OldAge, lease.left - 1),
                                   !.held = Least(OldAge, lease.held + 1),
                                   !.forced = Least(OldAge, lease.forced + 1)]
        BY <2>2, <1>0 DEF Tick, Leases
      <3>2. /\ Most(-OldAge, lease.left - 1) \in Int
            /\ Least(OldAge, lease.held + 1) \in Int
            /\ Least(OldAge, lease.forced + 1) \in Int
        BY <1>0 DEF Leases, Most, Least
      <3> QED
        BY <3>1, <3>2, <1>0 DEF Leases
    <2> QED
      BY <2>1, <2>2
  <1>4. latest' \in [status : {"never", "succeeded", "unavailable"}, age : Int]
    <2>1. Least(OldAge, latest.age + 1) \in Int
      BY <1>0, <1>1
    <2> QED
      BY <2>1, <1>0 DEF Tick
  <1>5. \A w \in Workers :
          /\ [scan[w] EXCEPT !.left = Most(0, @ - 1)] \in Scans
          /\ [scan[w] EXCEPT !.left = Most(0, @ - 1)].phase = scan[w].phase
          /\ [scan[w] EXCEPT !.left = Most(0, @ - 1)].token = scan[w].token
          /\ [scan[w] EXCEPT !.left = Most(0, @ - 1)].ok = scan[w].ok
    <2> SUFFICES ASSUME NEW w \in Workers
                 PROVE  /\ [scan[w] EXCEPT !.left = Most(0, @ - 1)] \in Scans
                        /\ [scan[w] EXCEPT !.left = Most(0, @ - 1)].phase = scan[w].phase
                        /\ [scan[w] EXCEPT !.left = Most(0, @ - 1)].token = scan[w].token
                        /\ [scan[w] EXCEPT !.left = Most(0, @ - 1)].ok = scan[w].ok
      OBVIOUS
    <2>1. scan[w] \in Scans /\ Most(0, scan[w].left - 1) \in Nat
      BY <1>0, <1>2 DEF Scans
    <2> QED
      BY <2>1 DEF Scans
  <1>6. scan' = [w \in Workers |-> [scan[w] EXCEPT !.left = Most(0, @ - 1)]]
    BY DEF Tick
  <1> QED
    BY <1>3, <1>4, <1>5, <1>6

\* A tick preserves the invariant.
LEMMA TickPreserves == ASSUME ScanInv, Tick PROVE ScanInv'
  <1>1. UNCHANGED <<doctors, passed, faults>>
    BY DEF Tick
  <1>2. TypeOK'
    BY <1>1, TickRows DEF ScanInv, TypeOK
  <1>3. OwnTokens'
    BY TickRows DEF ScanInv, OwnTokens
  <1>4. PassedLost'
    BY <1>1, TickRows DEF ScanInv, PassedLost
  <1> QED
    BY <1>2, <1>3, <1>4 DEF ScanInv

\* Every step preserves the invariant.
LEMMA ScanNextPreserves == ASSUME ScanInv, [Next]_vars PROVE ScanInv'
  <1>1. ASSUME NEW w \in Workers, NEW kind \in Kinds, Request(w, kind) PROVE ScanInv'
    BY <1>1, RequestPreserves
  <1>2. ASSUME NEW w \in Workers, NEW kind \in Kinds, ClaimError(w, kind) PROVE ScanInv'
    BY <1>2, ClaimErrorPreserves
  <1>3. ASSUME NEW w \in Workers,
               Exec(w) \/ PrepareFails(w) \/ ExecEnds(w) \/ Terminated(w) \/ Unconfirmed(w)
        PROVE  ScanInv'
    BY <1>3, PhasesPreserve
  <1>4. ASSUME NEW w \in Workers, Publish(w) \/ PublishError(w) \/ Crash(w) PROVE ScanInv'
    BY <1>4, EndsPreserve
  <1>5. CASE Tick
    BY <1>5, TickPreserves
  <1>6. CASE UNCHANGED vars
    BY <1>6 DEF vars, ScanInv, TypeOK, OwnTokens, PassedLost
  <1>7. ASSUME NEW t \in doctors, DoctorExits(t) PROVE ScanInv'
    BY <1>7 DEF DoctorExits, ScanInv, TypeOK, OwnTokens, PassedLost
  <1> QED
    BY <1>1, <1>2, <1>3, <1>4, <1>5, <1>6, <1>7 DEF Next

(* The inductive invariant of the scan lease: every scan in flight has a   *)
(* token nobody else has, and one a later claim passed has lost the lease. *)
THEOREM ScanInvariant == Spec => []ScanInv
  <1>1. Init => ScanInv
    BY InitScanInv
  <1>2. ScanInv /\ [Next]_vars => ScanInv'
    BY ScanNextPreserves
  <1> QED
    BY <1>1, <1>2, PTL DEF Spec

(* The lease row, the evidence and the scans in flight keep their types.   *)
THEOREM ScanTypeCorrect == Spec => []TypeOK
  <1>1. ScanInv => TypeOK
    BY DEF ScanInv
  <1> QED
    BY <1>1, ScanInvariant, PTL

(* A late worker never publishes, with any clocks and any timing: the      *)
(* fence of publish needs a token that a passed scan no longer has.        *)
THEOREM LateWorkersFenced == Spec => LateWorkerNeverPublishes
  <1>1. ScanInv /\ [Next]_vars
          => [\A w \in Workers :
                passed[w] /\ scan[w].phase = "publish" /\ scan'[w].phase = "idle"
                  => UNCHANGED <<lease, latest>>]_vars
    <2> SUFFICES ASSUME ScanInv, Next, NEW w \in Workers,
                        passed[w], scan[w].phase = "publish", scan'[w].phase = "idle"
                 PROVE  UNCHANGED <<lease, latest>>
      BY DEF vars
    <2>0. scan \in [Workers -> Scans] /\ scan[w].token # lease.token
      BY DEF ScanInv, TypeOK, PassedLost
    <2>2. ASSUME NEW v \in Workers, NEW kind \in Kinds, Request(v, kind)
          PROVE  UNCHANGED <<lease, latest>>
      BY <2>0, <2>2 DEF Request, vars
    <2>3. ASSUME NEW v \in Workers, NEW kind \in Kinds, ClaimError(v, kind)
          PROVE  UNCHANGED <<lease, latest>>
      BY <2>3 DEF ClaimError
    <2>4. ASSUME NEW v \in Workers,
                 \/ Exec(v) \/ PrepareFails(v) \/ ExecEnds(v) \/ Terminated(v) \/ Unconfirmed(v)
                 \/ PublishError(v) \/ Crash(v)
          PROVE  UNCHANGED <<lease, latest>>
      BY <2>4 DEF Exec, PrepareFails, ExecEnds, Terminated, Unconfirmed, PublishError, Crash
    <2>7. ASSUME NEW t \in doctors, DoctorExits(t) PROVE UNCHANGED <<lease, latest>>
      BY <2>7 DEF DoctorExits
    <2>5. ASSUME NEW v \in Workers, Publish(v)
          PROVE  UNCHANGED <<lease, latest>>
      <3>1. CASE v = w
        BY <3>1, <2>0, <2>5 DEF Publish, PublishRows, Fenced
      <3>2. CASE v # w
        BY <3>2, <2>0, <2>5 DEF Publish, Finish
      <3> QED
        BY <3>1, <3>2
    <2>6. ASSUME Tick PROVE FALSE
      BY <2>6, TickRows
    <2> QED
      BY <2>2, <2>3, <2>4, <2>5, <2>6, <2>7 DEF Next
  <1> QED
    BY <1>1, ScanInvariant, PTL DEF Spec, LateWorkerNeverPublishes

-----------------------------------------------------------------------------
\* Nothing is a success before it was read.
NotYetRead == \A w \in Workers : scan[w].phase \in {"prepare", "exec"} => ~scan[w].ok

\* The doctors of the container: finitely many, those of a success stopped, and
\* those nobody watches no more than the faults.
DoctorInv == IsFiniteSet(doctors) /\ NotYetRead /\ SucceededMeansStopped /\ LeftBehindByFaults

\* The unwatched doctors are a finite set that a step enlarges by at most one.
LEMMA CountLeftBehind ==
  ASSUME TypeOK, IsFiniteSet(doctors), LeftBehindByFaults, NEW t,
         IsFiniteSet(doctors'),
         \/ faults' = faults /\ doctors' \ Watched' \subseteq doctors \ Watched
         \/ faults' = faults + 1 /\ doctors' \ Watched' \subseteq (doctors \ Watched) \union {t}
  PROVE  LeftBehindByFaults'
  <1> DEFINE L == doctors \ Watched
             M == doctors' \ Watched'
  <1>1. IsFiniteSet(L) /\ Cardinality(L) \in Nat
    BY FS_Subset, FS_CardinalityType
  <1>2. IsFiniteSet(M) /\ Cardinality(M) \in Nat
    BY FS_Subset, FS_CardinalityType
  <1>3. Cardinality(L) <= faults /\ faults \in Nat
    BY DEF LeftBehindByFaults, TypeOK
  <1>4. IsFiniteSet(L \union {t}) /\ Cardinality(L \union {t}) \in Nat
        /\ Cardinality(L \union {t}) <= Cardinality(L) + 1
    <2>1. /\ IsFiniteSet(L \union {t})
          /\ Cardinality(L \union {t}) = IF t \in L THEN Cardinality(L) ELSE Cardinality(L) + 1
      BY <1>1, FS_AddElement
    <2>2. CASE t \in L
      BY <2>1, <2>2, <1>1
    <2>3. CASE t \notin L
      BY <2>1, <2>3, <1>1
    <2> QED
      BY <2>2, <2>3
  <1>5. CASE faults' = faults /\ M \subseteq L
    <2>1. Cardinality(M) <= Cardinality(L)
      BY <1>1, <1>5, FS_Subset
    <2>2. Cardinality(M) <= faults'
      BY <2>1, <1>1, <1>2, <1>3, <1>5
    <2> QED
      BY <2>2 DEF LeftBehindByFaults
  <1>6. CASE faults' = faults + 1 /\ M \subseteq L \union {t}
    <2>1. Cardinality(M) <= Cardinality(L \union {t})
      BY <1>4, <1>6, FS_Subset
    <2>2. Cardinality(M) <= faults'
      BY <2>1, <1>1, <1>2, <1>3, <1>4, <1>6
    <2> QED
      BY <2>2 DEF LeftBehindByFaults
  <1> QED
    BY <1>5, <1>6

\* A doctor is watched by the scan that started it.
LEMMA WatchedBy ==
  \A t : t \in Watched <=>
    \E w \in Workers : scan[w].phase \in {"exec", "terminate"} /\ scan[w].token = t
  BY DEF Watched

\* The same of the next state.
LEMMA WatchedByNext ==
  \A t : t \in Watched' <=>
    \E w \in Workers : scan'[w].phase \in {"exec", "terminate"} /\ scan'[w].token = t
  BY DEF Watched

\* A granted claim starts no doctor and ends none.
LEMMA RequestDoctors ==
  ASSUME ScanInv, DoctorInv, NEW w \in Workers, NEW kind \in Kinds, Request(w, kind)
  PROVE  DoctorInv'
  <1>1. CASE scan[w].phase = "idle" /\ Claimable(w, kind)
    <2>1. /\ UNCHANGED <<doctors, faults>>
          /\ scan' = [scan EXCEPT ![w] = [phase |-> "prepare", token |-> Fresh,
                                          left |-> PrepLimit, ok |-> FALSE]]
      BY <1>1 DEF Request
    <2>2. /\ scan'[w].phase = "prepare" /\ ~scan'[w].ok
          /\ \A v \in Workers \ {w} : scan'[v] = scan[v]
      BY <2>1 DEF ScanInv, TypeOK
    <2>3. SucceededMeansStopped' /\ NotYetRead'
      BY <2>1, <2>2 DEF DoctorInv, SucceededMeansStopped, NotYetRead
    <2>4. doctors' \ Watched' \subseteq doctors \ Watched
      BY <1>1, <2>1, <2>2, WatchedBy, WatchedByNext
    <2>5. LeftBehindByFaults'
      BY <2>1, <2>4, CountLeftBehind DEF DoctorInv, ScanInv
    <2> QED
      BY <2>1, <2>3, <2>5 DEF DoctorInv
  <1>2. CASE ~(scan[w].phase = "idle" /\ Claimable(w, kind))
    BY <1>2 DEF Request, vars, DoctorInv, NotYetRead, SucceededMeansStopped, LeftBehindByFaults, Watched
  <1> QED
    BY <1>1, <1>2

\* The steps of a scan: the exec starts a doctor and watches it, and only a
\* failed Docker call leaves one behind.
LEMMA PhaseDoctors ==
  ASSUME ScanInv, DoctorInv, NEW w \in Workers,
         Exec(w) \/ PrepareFails(w) \/ ExecEnds(w) \/ Terminated(w) \/ Unconfirmed(w)
  PROVE  DoctorInv'
  <1> DEFINE t == scan[w].token
  <1>0. /\ scan \in [Workers -> Scans] /\ scan[w] \in Scans
        /\ scan'[w].token = scan[w].token
        /\ \A v \in Workers \ {w} : scan'[v] = scan[v] /\ scan[v].phase = "publish" => scan[v].token # t
    BY PhaseSteps DEF ScanInv, TypeOK, OwnTokens
  <1>1. CASE Exec(w)
    <2>1. /\ scan[w].phase = "prepare" /\ faults' = faults
          /\ doctors' = doctors \union {t}
          /\ scan' = [scan EXCEPT ![w].phase = "exec", ![w].left = ExecLimit]
      BY <1>1 DEF Exec
    <2>2. scan'[w].phase = "exec" /\ scan'[w].ok = scan[w].ok
      BY <2>1, <1>0 DEF Scans
    <2>3. IsFiniteSet(doctors')
      BY <2>1, FS_AddElement DEF DoctorInv
    <2>4. SucceededMeansStopped' /\ NotYetRead'
      BY <1>0, <2>1, <2>2, PhaseSteps DEF DoctorInv, SucceededMeansStopped, NotYetRead
    <2>5. doctors' \ Watched' \subseteq doctors \ Watched
      BY <1>0, <2>1, <2>2, PhaseSteps, WatchedBy, WatchedByNext
    <2>6. LeftBehindByFaults'
      BY <2>1, <2>3, <2>5, CountLeftBehind DEF DoctorInv, ScanInv
    <2> QED
      BY <2>3, <2>4, <2>6 DEF DoctorInv
  <1>2. CASE PrepareFails(w)
    <2>1. /\ scan[w].phase = "prepare" /\ faults' = faults + 1 /\ doctors' = doctors
          /\ scan' = [scan EXCEPT ![w].phase = "publish", ![w].left = 0]
      BY <1>2 DEF PrepareFails
    <2>2. scan'[w].phase = "publish" /\ scan'[w].ok = scan[w].ok
      BY <2>1, <1>0 DEF Scans
    <2>3. ~scan[w].ok
      BY <2>1 DEF DoctorInv, NotYetRead
    <2>4. SucceededMeansStopped' /\ NotYetRead'
      BY <1>0, <2>1, <2>2, <2>3, PhaseSteps DEF DoctorInv, SucceededMeansStopped, NotYetRead
    <2>5. doctors' \ Watched' \subseteq (doctors \ Watched) \union {t}
      BY <1>0, <2>1, <2>2, PhaseSteps, WatchedBy, WatchedByNext
    <2>6. LeftBehindByFaults'
      BY <2>1, <2>5, CountLeftBehind DEF DoctorInv, ScanInv
    <2> QED
      BY <2>1, <2>4, <2>6 DEF DoctorInv
  <1>3. CASE ExecEnds(w)
    <2>1. scan[w].phase = "exec" /\ UNCHANGED <<doctors, faults>>
      BY <1>3 DEF ExecEnds
    <2>2. scan'[w].phase = "terminate"
      <3>1. PICK ok \in BOOLEAN :
              scan' = [scan EXCEPT ![w].phase = "terminate", ![w].left = TermLimit, ![w].ok = ok]
        BY <1>3 DEF ExecEnds
      <3> QED
        BY <3>1, <1>0 DEF Scans
    <2>3. SucceededMeansStopped' /\ NotYetRead'
      BY <1>0, <2>1, <2>2, PhaseSteps DEF DoctorInv, SucceededMeansStopped, NotYetRead
    <2>4. doctors' \ Watched' \subseteq doctors \ Watched
      BY <1>0, <2>1, <2>2, PhaseSteps, WatchedBy, WatchedByNext
    <2>5. LeftBehindByFaults'
      BY <2>1, <2>4, CountLeftBehind DEF DoctorInv, ScanInv
    <2> QED
      BY <2>1, <2>3, <2>5 DEF DoctorInv
  <1>4. CASE Terminated(w)
    <2>1. scan[w].phase = "terminate" /\ faults' = faults /\ doctors' = doctors \ {t}
      BY <1>4 DEF Terminated
    <2>2. scan'[w].phase = "publish"
      BY <1>0, <1>4 DEF Terminated, Scans
    <2>3. IsFiniteSet(doctors')
      BY <2>1, FS_Subset DEF DoctorInv
    <2>4. SucceededMeansStopped' /\ NotYetRead'
      BY <1>0, <2>1, <2>2, PhaseSteps DEF DoctorInv, SucceededMeansStopped, NotYetRead
    <2>5. doctors' \ Watched' \subseteq doctors \ Watched
      BY <1>0, <2>1, <2>2, PhaseSteps, WatchedBy, WatchedByNext
    <2>6. LeftBehindByFaults'
      BY <2>1, <2>3, <2>5, CountLeftBehind DEF DoctorInv, ScanInv
    <2> QED
      BY <2>3, <2>4, <2>6 DEF DoctorInv
  <1>5. CASE Unconfirmed(w)
    <2>1. /\ scan[w].phase = "terminate" /\ faults' = faults + 1 /\ doctors' = doctors
          /\ scan' = [scan EXCEPT ![w].phase = "publish", ![w].left = 0, ![w].ok = FALSE]
      BY <1>5 DEF Unconfirmed
    <2>2. scan'[w].phase = "publish" /\ ~scan'[w].ok
      BY <2>1, <1>0 DEF Scans
    <2>3. SucceededMeansStopped' /\ NotYetRead'
      BY <1>0, <2>1, <2>2, PhaseSteps DEF DoctorInv, SucceededMeansStopped, NotYetRead
    <2>4. doctors' \ Watched' \subseteq (doctors \ Watched) \union {t}
      BY <1>0, <2>1, <2>2, PhaseSteps, WatchedBy, WatchedByNext
    <2>5. LeftBehindByFaults'
      BY <2>1, <2>4, CountLeftBehind DEF DoctorInv, ScanInv
    <2> QED
      BY <2>1, <2>3, <2>5 DEF DoctorInv
  <1> QED
    BY <1>1, <1>2, <1>3, <1>4, <1>5

\* A scan that ends after its publication leaves no doctor behind; one that ends
\* with its worker leaves at most its own.
LEMMA EndDoctors ==
  ASSUME ScanInv, DoctorInv, NEW w \in Workers, Publish(w) \/ PublishError(w) \/ Crash(w)
  PROVE  DoctorInv'
  <1>1. /\ doctors' = doctors /\ scan'[w] = Idle
        /\ \A v \in Workers \ {w} : scan'[v] = scan[v]
    BY DEF Publish, PublishError, Crash, Finish, ScanInv, TypeOK
  <1>2. Idle.phase = "idle"
    BY DEF Idle
  <1>3. SucceededMeansStopped' /\ NotYetRead'
    BY <1>1, <1>2 DEF DoctorInv, SucceededMeansStopped, NotYetRead
  <1>4. CASE Publish(w)
    <2>1. scan[w].phase = "publish" /\ faults' = faults
      BY <1>4 DEF Publish
    <2>2. doctors' \ Watched' \subseteq doctors \ Watched
      BY <1>1, <1>2, <2>1, WatchedBy, WatchedByNext
    <2>3. LeftBehindByFaults'
      BY <1>1, <2>1, <2>2, CountLeftBehind DEF DoctorInv, ScanInv
    <2> QED
      BY <1>1, <1>3, <2>3 DEF DoctorInv
  <1>5. CASE PublishError(w) \/ Crash(w)
    <2>1. faults' = faults + 1
      BY <1>5 DEF PublishError, Crash
    <2>2. doctors' \ Watched' \subseteq (doctors \ Watched) \union {scan[w].token}
      BY <1>1, <1>2, WatchedBy, WatchedByNext
    <2>3. LeftBehindByFaults'
      BY <1>1, <2>1, <2>2, CountLeftBehind DEF DoctorInv, ScanInv
    <2> QED
      BY <1>1, <1>3, <2>3 DEF DoctorInv
  <1> QED
    BY <1>4, <1>5

\* Every step preserves what is known of the doctors.
LEMMA DoctorNextPreserves == ASSUME ScanInv, DoctorInv, [Next]_vars PROVE DoctorInv'
  <1>1. ASSUME NEW w \in Workers, NEW kind \in Kinds, Request(w, kind) PROVE DoctorInv'
    BY <1>1, RequestDoctors
  <1>2. ASSUME NEW w \in Workers, NEW kind \in Kinds, ClaimError(w, kind) PROVE DoctorInv'
    <2>1. UNCHANGED <<scan, doctors>> /\ faults' = faults + 1
      BY <1>2 DEF ClaimError
    <2>2. doctors' \ Watched' \subseteq (doctors \ Watched) \union {Fresh}
      BY <2>1 DEF Watched
    <2>3. LeftBehindByFaults'
      BY <2>1, <2>2, CountLeftBehind DEF DoctorInv, ScanInv
    <2> QED
      BY <2>1, <2>3 DEF DoctorInv, SucceededMeansStopped, NotYetRead
  <1>3. ASSUME NEW w \in Workers,
               Exec(w) \/ PrepareFails(w) \/ ExecEnds(w) \/ Terminated(w) \/ Unconfirmed(w)
        PROVE  DoctorInv'
    BY <1>3, PhaseDoctors
  <1>4. ASSUME NEW w \in Workers, Publish(w) \/ PublishError(w) \/ Crash(w) PROVE DoctorInv'
    BY <1>4, EndDoctors
  <1>5. ASSUME NEW t \in doctors, DoctorExits(t) PROVE DoctorInv'
    <2>1. doctors' = doctors \ {t} /\ UNCHANGED <<scan, faults>>
      BY <1>5 DEF DoctorExits
    <2>2. IsFiniteSet(doctors')
      BY <2>1, FS_Subset DEF DoctorInv
    <2>3. doctors' \ Watched' \subseteq doctors \ Watched
      BY <2>1 DEF Watched
    <2>4. LeftBehindByFaults'
      BY <2>1, <2>2, <2>3, CountLeftBehind DEF DoctorInv, ScanInv
    <2> QED
      BY <2>1, <2>2, <2>4 DEF DoctorInv, SucceededMeansStopped, NotYetRead
  <1>6. CASE Tick
    <2>1. UNCHANGED <<doctors, faults>>
      BY <1>6 DEF Tick
    <2>2. SucceededMeansStopped' /\ NotYetRead'
      BY <1>6, <2>1, TickRows DEF DoctorInv, SucceededMeansStopped, NotYetRead
    <2>3. doctors' \ Watched' \subseteq doctors \ Watched
      BY <1>6, <2>1, TickRows, WatchedBy, WatchedByNext
    <2>4. LeftBehindByFaults'
      BY <2>1, <2>3, CountLeftBehind DEF DoctorInv, ScanInv
    <2> QED
      BY <2>1, <2>2, <2>4 DEF DoctorInv
  <1>7. CASE UNCHANGED vars
    BY <1>7 DEF vars, DoctorInv, NotYetRead, SucceededMeansStopped, LeftBehindByFaults, Watched
  <1> QED
    BY <1>1, <1>2, <1>3, <1>4, <1>5, <1>6, <1>7 DEF Next

\* What holds of the doctors in every reachable state.
LEMMA DoctorInvariant == Spec => []DoctorInv
  <1>1. Init => DoctorInv
    <2> SUFFICES ASSUME Init PROVE DoctorInv
      OBVIOUS
    <2>1. IsFiniteSet(doctors) /\ doctors = {}
      BY FS_EmptySet DEF Init
    <2>2. Cardinality(doctors \ Watched) = 0 /\ faults = 0
      <3>1. doctors \ Watched = {}
        BY <2>1
      <3> QED
        BY <3>1, FS_EmptySet DEF Init
    <2> QED
      BY <2>1, <2>2 DEF Init, Idle, DoctorInv, NotYetRead, SucceededMeansStopped, LeftBehindByFaults
  <1>2. ScanInv /\ DoctorInv /\ [Next]_vars => DoctorInv'
    BY DoctorNextPreserves
  <1> QED
    BY <1>1, <1>2, ScanInvariant, PTL DEF Spec

(* A success is never published of a doctor that still runs, with any      *)
(* workers, clocks and time limits: terminateDoctorScan stands between the *)
(* end of the reading and every result that is ok.                         *)
THEOREM SuccessesAreStopped == Spec => []SucceededMeansStopped
  <1>1. DoctorInv => SucceededMeansStopped
    BY DEF DoctorInv
  <1> QED
    BY <1>1, DoctorInvariant, PTL

(* A doctor that nobody watches any more was left behind by a crash or a   *)
(* failed Docker call, one by each at most; timeouts and lost leases alone *)
(* leave none.                                                             *)
THEOREM OnlyFaultsLeaveDoctors == Spec => []LeftBehindByFaults
  <1>1. DoctorInv => LeftBehindByFaults
    BY DEF DoctorInv
  <1> QED
    BY <1>1, DoctorInvariant, PTL
=============================================================================
