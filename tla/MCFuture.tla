------------------------------ MODULE MCFuture -------------------------------
(* Instances of Future for model checking.                                 *)
EXTENDS Future, TLC

Symmetry == Permutations(Promises) \cup Permutations(Children)

=============================================================================
