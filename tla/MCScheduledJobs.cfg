SPECIFICATION FairSpec
CONSTANTS
  w1 = w1
  w2 = w2
  doctor = doctor
  orphan = orphan
  Workers <- MCWorkers
  Jobs <- MCJobs
  Handlers <- MCHandlers
  Tokens = {1, 2, 3}
  NoToken = NoToken
  NoJob = NoJob
  Lease = 1
  Cadence = 2
  Backoff = 1
  WakeInterval = 1
  BatchLimit = 2
  Skew <- MCSkew
  Floor = 0
  MaxFailures = 1
  MaxFaults = 1
INVARIANTS LiveLeaseHasOwner
PROPERTIES DeliveredAgain LiveLeaseIsPrivate AckedNeverFails
