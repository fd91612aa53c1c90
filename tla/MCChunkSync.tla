------------------------------- MODULE MCChunkSync -------------------------------
(* ChunkSync on a small instance: one session with one observation.             *)
EXTENDS ChunkSync

CONSTANTS s

OneSession == [o \in Observation |-> s]

\* The chunks of the first and of the second row alone have the same id.
ShortId(c) == IF c.rows \in {{1}, {2}} THEN {} ELSE {c}
===============================================================================
