SPECIFICATION MCSpec
CONSTANTS
  t1 = t1
  t2 = t2
  key = key
  Clients = {1}
  NoClient = NoClient
  Sockets = {k1, k2}
  NoSocket = NoSocket
  Asleep = Asleep
  Streams <- MCStreams
  Queries = {q1}
  Keys <- MCKeys
  KeyOf <- MCKeyOf
  MaxTries = 2
INVARIANTS StreamHasSocket FinalIsOwn IdleTimerSet
PROPERTIES EveryCallReturns
CHECK_DEADLOCK FALSE
