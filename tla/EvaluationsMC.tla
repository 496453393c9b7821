---------------------------- MODULE EvaluationsMC ----------------------------
(* Instances of Evaluations for TLC.                                       *)
EXTENDS Evaluations, TLC

\* Calls and keys are interchangeable.
Symmetric == Permutations(Requests) \cup Permutations(Evals)

=============================================================================
