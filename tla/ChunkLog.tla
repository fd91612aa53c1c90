------------------------------- MODULE ChunkLog -------------------------------
(***************************************************************************)
(* What the server promises to those who push chunks of a project and to   *)
(* those who read its manifest: chunks come into the manifest one by one,  *)
(* whole and for good, no two with the same id, every session a chunk      *)
(* refers to came with it or with one listed before it, and a chunk that   *)
(* was confirmed is in the manifest.  A chunk that was refused may be      *)
(* there too.  Where in the manifest a chunk comes in is not promised.     *)
(***************************************************************************)
EXTENDS Manifest

CONSTANTS
    Request,    \* pushes in flight
    Nothing     \* no chunk

VARIABLES
    stored,     \* the manifest
    push        \* per request: its chunk and whether it is answered

logVars == <<stored, push>>

Stored == DOMAIN stored

Free == [at |-> "free", chunk |-> Nothing]

LogInit == stored = Empty /\ push = [r \in Request |-> Free]

Offer(r, chunk) ==
    /\ push[r].at = "free"
    /\ push' = [push EXCEPT ![r] = [at |-> "open", chunk |-> chunk]]
    /\ UNCHANGED stored

\* The request goes on, or fails after all.
Accept(r) ==
    /\ push[r].at = "open"
    /\ IdOf(push[r].chunk) \notin Ids(Stored)
    /\ \E earlier \in Beginnings(stored) :
        /\ push[r].chunk.needs \subseteq push[r].chunk.sessions \cup SessionsIn(earlier)
        /\ stored' = Placed(stored, push[r].chunk, earlier)
    /\ \E at \in {"open", "refused"} : push' = [push EXCEPT ![r].at = at]

Confirm(r) ==
    /\ push[r].at = "open"
    /\ push[r].chunk \in Stored
    /\ push' = [push EXCEPT ![r].at = "ok"]
    /\ UNCHANGED stored

\* One request fails, or all of them with their server.
Refuse(R) ==
    /\ \A r \in R : push[r].at # "free"
    /\ push' = [r \in Request |-> IF r \in R THEN [push[r] EXCEPT !.at = "refused"] ELSE push[r]]
    /\ UNCHANGED stored

Leave(r) ==
    /\ push[r].at \in {"ok", "refused"}
    /\ push' = [push EXCEPT ![r] = Free]
    /\ UNCHANGED stored

LogNext ==
    \/ \E r \in Request : Offer(r, push'[r].chunk) \/ Accept(r) \/ Confirm(r) \/ Leave(r)
    \/ \E R \in SUBSET Request : Refuse(R)

LogSpec == LogInit /\ [][LogNext]_logVars
===============================================================================
