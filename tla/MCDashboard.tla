---------------------------- MODULE MCDashboard ----------------------------
(* A small instance of Dashboard and Maintenance: all jobs are of one      *)
(* queue and have one tag.                                                 *)
EXTENDS Dashboard, TLC

MCQueueOf == [j \in Jobs |-> "q"]
MCTagOf == [j \in Jobs |-> "t"]

(* Replicas differ in name only.                                           *)
MCSymmetry == Permutations(Replicas)

=============================================================================
