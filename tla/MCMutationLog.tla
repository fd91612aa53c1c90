----------------------------- MODULE MCMutationLog -----------------------------
(* MutationLog on a small instance: a change of each of two projects, pushed alone, *)
(* together or twice; a batch may also be empty or too large.                      *)
EXTENDS MutationLog, TLC

CONSTANTS a, b, x, y

OneEach == [change \in Change |-> IF change = x THEN a ELSE b]
RequestSymmetry == Permutations(Request)
===============================================================================
