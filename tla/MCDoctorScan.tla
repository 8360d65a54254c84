---------------------------- MODULE MCDoctorScan ----------------------------
(* An instance of DoctorScan: two workers whose clocks differ by one tick. *)
EXTENDS DoctorScan

CONSTANTS w1, w2

MCWorkers == {w1, w2}
MCSkew == [w \in MCWorkers |-> IF w = w1 THEN 0 ELSE 1]
=============================================================================
