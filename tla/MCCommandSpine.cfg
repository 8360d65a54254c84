SPECIFICATION MCSpec
CONSTANTS
  t1 = t1  t2 = t2  t3 = t3
  NoTx = NoTx
  Tx <- MCTx
  Key = {"k1", "k2", "k3", "k4"}
  Hash = {"h1", "h2", "h3", "h4", "h5", "h6", "h7"}
  CommandId = {"c1", "c2", "c3", "c4", "c5", "c6", "c7", "c8"}
  Record = {"r1", "r2"}
  Envelope <- MCEnvelope
INVARIANTS OneEffectPerKey LedgersGapFree EffectsFollowVersions AnswersAgree
PROPERTIES EveryCallEnds
