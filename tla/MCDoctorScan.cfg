\* One tick is 15 s: lease 30 s, two Docker calls of 15 s before the exec,
\* hard timeout 20 s, a termination that outlasts the lease.  The cadence is scaled down.
SPECIFICATION Spec
CONSTANTS
  w1 = w1
  w2 = w2
  Workers <- MCWorkers
  Tokens = {1, 2, 3, 4, 5}
  NoToken = NoToken
  ScanLease = 2
  ScanCadence = 3
  ForceCooldown = 2
  PrepLimit = 2
  ExecLimit = 2
  TermLimit = 3
  Skew <- MCSkew
  OldAge = 3
  MaxFaults = 2
INVARIANTS SucceededMeansStopped LeftBehindByFaults
PROPERTIES LateWorkerNeverPublishes
