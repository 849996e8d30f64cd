---------------------- MODULE MCGenerationCoordinator ----------------------
(* Instances of GenerationCoordinator for TLC. *)
EXTENDS GenerationCoordinator

\* Every kind but a valid answer: for the turns, it ends a slot like an answer
\* that is still malformed after its repair.
NeverValid == {"malformed", "charged", "infra"}

=============================================================================
