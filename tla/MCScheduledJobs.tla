-------------------------- MODULE MCScheduledJobs --------------------------
(* Instances of ScheduledJobs: two workers, one job of the code and one    *)
(* row an older release left behind, whose handler no longer exists.       *)
EXTENDS ScheduledJobs

CONSTANTS w1, w2, doctor, orphan

MCWorkers == {w1, w2}
MCJobs == {doctor, orphan}
MCHandlers == {doctor}

\* The second worker's clock runs one tick ahead.
MCSkew == [w \in MCWorkers |-> IF w = w1 THEN 0 ELSE 1]
=============================================================================
