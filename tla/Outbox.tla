-------------------------------- MODULE Outbox --------------------------------
(***************************************************************************)
(* What the journal of a machine promises, without its pushers, batches    *)
(* and acknowledgements: rows are filed under projects, some of them are   *)
(* owed to the server, and the server is handed rows of one project at a   *)
(* time.  A row stops being owed only because the server has it or because *)
(* its project is no longer to be synced, and no row of a project is       *)
(* delivered before an earlier one that is still owed.                     *)
(***************************************************************************)
EXTENDS Naturals, Sequences

CONSTANT Project

VARIABLES
    rows,       \* the project of each row, in the order they were written
    owed,       \* rows the server is still to get
    delivered   \* rows the server has accepted, once at least

vars == <<rows, owed, delivered>>

TypeOK ==
    /\ rows \in Seq(Project)
    /\ owed \subseteq DOMAIN rows /\ delivered \subseteq DOMAIN rows

Init == rows = <<>> /\ owed = {} /\ delivered = {}

\* Rows are added behind the others; they and rows nobody was to get may become owed.
Write ==
    /\ rows' \in Seq(Project)
    /\ Len(rows) <= Len(rows')
    /\ \A i \in DOMAIN rows : rows'[i] = rows[i]
    /\ owed \subseteq owed' /\ owed' \subseteq DOMAIN rows'
    /\ UNCHANGED delivered

InOrder(S) ==
    \A j \in S : \A i \in owed : i < j /\ rows[i] = rows[j] => i \in S \cup delivered

Deliver ==
    /\ delivered \subseteq delivered' /\ delivered' \subseteq DOMAIN rows
    /\ \E p \in Project : \A i \in delivered' \ delivered : rows[i] = p
    /\ InOrder(delivered' \ delivered)
    /\ UNCHANGED <<rows, owed>>

Settle ==
    /\ owed' \subseteq owed /\ owed \ owed' \subseteq delivered
    /\ UNCHANGED <<rows, delivered>>

Release(p) ==
    /\ owed' = {i \in owed : rows[i] # p}
    /\ UNCHANGED <<rows, delivered>>

Next == Write \/ Deliver \/ Settle \/ \E p \in Project : Release(p)

Spec == Init /\ [][Next]_vars
===============================================================================
