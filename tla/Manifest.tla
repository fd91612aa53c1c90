------------------------------- MODULE Manifest -------------------------------
(***************************************************************************)
(* The manifest of the chunks of a project, as a function from each chunk  *)
(* it lists to the chunks listed before it.  It is ordered by created_at,  *)
(* the time at which the INSERT of a chunk began: a chunk whose INSERT     *)
(* commits late comes in before others that are listed already.            *)
(*                                                                         *)
(* A chunk is a record with at least the sessions it brings and the        *)
(* sessions it needs.  Its id is 8 hex digits of the hash of its payload:  *)
(* equal chunks have the same id, and so may different ones.               *)
(***************************************************************************)
CONSTANT IdOf(_)

Ids(chunks) == {IdOf(c) : c \in chunks}

SessionsIn(chunks) == UNION {c.sessions : c \in chunks}

Empty == [c \in {} |-> {}]

\* Every chunk knows those before it, and no two have the same id.
IsManifest(list) ==
    /\ \A c \in DOMAIN list : c \notin list[c] /\ list[c] \subseteq DOMAIN list
    /\ \A c \in DOMAIN list : \A d \in list[c] : list[d] \subseteq list[c]
    /\ \A c, d \in DOMAIN list : c = d \/ c \in list[d] \/ d \in list[c]
    /\ \A c, d \in DOMAIN list : IdOf(c) = IdOf(d) => c = d

\* The places where one more may come in, by what is before it.
Beginnings(list) == {S \in SUBSET DOMAIN list : \A c \in S : list[c] \subseteq S}

Placed(list, new, earlier) ==
    [c \in DOMAIN list \cup {new} |->
        IF c = new THEN earlier
        ELSE IF c \in earlier THEN list[c] ELSE list[c] \cup {new}]
===============================================================================
