------------------------------ MODULE Settlement ------------------------------
(***************************************************************************)
(* What selling tickets promises, without reservations, locks or retries:  *)
(* every purchase ends at most once, with its tickets or with a refund due, *)
(* and the sold count is the number of tickets issued.  Ticketing           *)
(* implements it.                                                           *)
(***************************************************************************)
EXTENDS Naturals

CONSTANTS Purchase, Quantity(_)

VARIABLES outcome, sold

Init ==
    /\ outcome = [p \in Purchase |-> "open"]
    /\ sold = 0

\* The tickets of p are issued, by its payment or for nothing.
Issue(p) ==
    /\ outcome[p] = "open"
    /\ outcome' = [outcome EXCEPT ![p] = "issued"]
    /\ sold' = sold + Quantity(p)

\* The money of p was received and has to be returned.
Refund(p) ==
    /\ outcome[p] = "open"
    /\ outcome' = [outcome EXCEPT ![p] = "refund"]
    /\ UNCHANGED sold

Next == \E p \in Purchase : Issue(p) \/ Refund(p)

Spec == Init /\ [][Next]_<<outcome, sold>>
=============================================================================
