---------------------------- MODULE MCJobPipeline ----------------------------
(* Small instances of JobPipeline for TLC.                                 *)
EXTENDS JobPipeline, TLC

(* Workers differ in name only.  For the runs without liveness.            *)
MCSymmetry == Permutations(Workers)

=============================================================================
