------------------------------- MODULE MCChunkStore -------------------------------
(* ChunkStore on a small instance: a chunk that brings two sessions, and two of one *)
(* id, one that needs one of them, and one that needs the other and brings it too.  *)
EXTENDS ChunkStore, TLC

CONSTANTS s, t

Chunks == {[sessions |-> {s, t}, needs |-> {}],
           [sessions |-> {}, needs |-> {s}],
           [sessions |-> {t}, needs |-> {t}]}
ShortId(c) == c.needs = {}
Symmetry == Permutations(Request) \cup Permutations(Reader)
===============================================================================
