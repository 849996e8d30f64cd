-------------------------- MODULE MCEvaluatorPool --------------------------
(* A small evaluator pool: two workers, a candidate panel and a baseline. *)
EXTENDS EvaluatorPool

MCCases == 1..2

=============================================================================
