------------------------------ MODULE MCAutosync ------------------------------
(* Autosync on a small instance: model values for the processes, and the       *)
(* permutations of the processes for the safety run.                           *)
EXTENDS Autosync, TLC

Symmetry == Permutations(Proc)
===============================================================================
