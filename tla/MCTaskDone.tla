----------------------------- MODULE MCTaskDone -----------------------------
(* Instances of TaskDone: two sessions that may present one confirmation.  *)
EXTENDS TaskDone

CONSTANTS s1, s2, u1, t1

MCSessions == {s1, s2}
MCUserOf == [s \in MCSessions |-> u1]
MCTasks == {t1}
=============================================================================
