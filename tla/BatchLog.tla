------------------------------- MODULE BatchLog -------------------------------
(***************************************************************************)
(* What the server's mutation log promises, without handlers, inserts and  *)
(* transactions: a submitted batch either appears in the log at one        *)
(* stroke, whole, in its own order, at positions nobody has, or never      *)
(* does.  Positions may be left out, and need not grow from one batch to   *)
(* the next.                                                               *)
(***************************************************************************)
EXTENDS Naturals, Sequences, Functions

CONSTANTS Change, Request, Position

VARIABLES
    open,   \* the batch each request has submitted, <<>> for none
    log     \* what readers see: a change at each position taken

vars == <<open, log>>

Init == open = [r \in Request |-> <<>>] /\ log = <<>>

Submit(r) ==
    /\ open[r] = <<>>
    /\ open'[r] \in Seq(Change) \ {<<>>}
    /\ open' = [open EXCEPT ![r] = open'[r]]
    /\ UNCHANGED log

Publish(r) ==
    /\ open[r] # <<>>
    /\ \E at \in [DOMAIN open[r] -> Position \ DOMAIN log] :
        /\ \A m, n \in DOMAIN at : m < n => at[m] < at[n]
        /\ log' = [i \in DOMAIN log \cup Range(at) |->
                        IF i \in DOMAIN log THEN log[i]
                        ELSE open[r][CHOOSE n \in DOMAIN at : at[n] = i]]
    /\ open' = [open EXCEPT ![r] = <<>>]

Refuse(r) ==
    /\ open' = [open EXCEPT ![r] = <<>>]
    /\ UNCHANGED log

Next == \E r \in Request : Submit(r) \/ Publish(r) \/ Refuse(r)

Spec == Init /\ [][Next]_vars
===============================================================================
