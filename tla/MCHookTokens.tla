---------------------------- MODULE MCHookTokens ----------------------------
(* HookTokens on a small instance: model values for runs and calls.        *)
EXTENDS HookTokens, TLC

CONSTANTS r1, r2, r3, p1, p2, p3

(* Calls are interchangeable.                                              *)
Symmetry == Permutations(Procs)

=============================================================================
