----------------------------- MODULE MCReplication -----------------------------
(* Replication on a small instance: a session of one project that is ended with a *)
(* summary, by x, and ended again without one, by y.                              *)
EXTENDS Replication, TLC

CONSTANTS a, x, y, summary, ended

OneProject == [c \in Change |-> a]
SetBoth == [c \in Change |-> Field]
CarryWhatIsThere == [c \in Change |-> IF c = x THEN Field ELSE {ended}]
Symmetry == Permutations(Device) \cup Permutations(Request)

\* No guard and no property of these runs reads the history held of a request.
WithoutHeld ==
    <<paused, rows, visible, [r \in Request |-> [handler[r] EXCEPT !.held = {}]], deviceVars>>
===============================================================================
