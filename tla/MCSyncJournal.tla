----------------------------- MODULE MCSyncJournal -----------------------------
(* SyncJournal on a small instance: every observation and prompt belongs to the  *)
(* one session.                                                                  *)
EXTENDS SyncJournal, TLC

CONSTANTS s

OneSession == [e \in Fresh |-> s]
Symmetry == Permutations(Project) \cup Permutations(Worker)
===============================================================================
