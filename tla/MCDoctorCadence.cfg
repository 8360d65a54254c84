\* One tick is five seconds; the doctor takes at most its hard timeout, 20 s.
SPECIFICATION CadenceSpec
CONSTANTS
  worker = worker
  job = job
  Tokens = {1, 2}
  NoToken = NoToken
  NoJob = NoJob
  Cadence = 60
  Lease = 12
  WakeInterval = 9
  ScanLease = 6
  ScanCadence = 60
  ForceCooldown = 6
  ScanTime = 4
  StaleAfter = 120
  OldAge = 140
INVARIANTS NeverStale
