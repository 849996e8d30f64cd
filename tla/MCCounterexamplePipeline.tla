---------------------- MODULE MCCounterexamplePipeline ----------------------
(* Instances of CounterexamplePipeline for TLC. *)
EXTENDS CounterexamplePipeline, TLC

JobSymmetry == Permutations(Jobs)

=============================================================================
