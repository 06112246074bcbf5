------------------------------ MODULE MCRunLog ------------------------------
(* RunLog on a small instance: model values for the writers.               *)
EXTENDS RunLogInv, TLC

CONSTANTS o1, o2, c1

(* Writers of one kind are interchangeable.                                *)
Symmetry == Permutations(Orchestrators) \cup Permutations(Clients)

=============================================================================
