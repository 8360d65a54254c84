SPECIFICATION Spec
CONSTANTS
  s1 = s1
  s2 = s2
  u1 = u1
  t1 = t1
  Tasks <- MCTasks
  Linked <- MCTasks
  Workers = {w1, w2}
  NoTask = NoTask
  NoWorker = NoWorker
  MaxAttempts = 2
  BatchLimit = 1
  Sessions <- MCSessions
  Users = {u1}
  UserOf <- MCUserOf
  NoUser = NoUser
  Checks = {c1}
  Nonces = {n1}
INVARIANTS DoneHasApproval ConfirmationSpentOnce DoneLeavesIntent
PROPERTIES SettledForGood
