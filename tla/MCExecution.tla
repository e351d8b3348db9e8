---------------------------- MODULE MCExecution ----------------------------
(***************************************************************************)
(* TLC instances of Execution.  Tasks, ids and keys are interchangeable,   *)
(* so the runs that check safety identify states up to their permutation.  *)
(***************************************************************************)
EXTENDS Execution, TLC

Symmetry == Permutations(Task) \cup Permutations(Id) \cup Permutations(Key)

=============================================================================
