------------------------- MODULE MCAlertDetection -------------------------
(* Instances of AlertDetection.                                            *)
EXTENDS AlertDetection

CONSTANTS o1, o2, o3, w1, w2

MCRegistered == <<"operation_amount_uma", "aggregate_amount_uma", "structuring_detection">>

\* Yesterday, today and tomorrow, when the run begins.
MCDates == -1..1

\* A bound: with a third operation all are of the first day, no day passes and the client is
\* not changed.
Third ==
    Len(operations) = 3 =>
        now = 0 /\ changes = 0 /\ \A i \in DOMAIN operations : operations[i].date = 0

Symmetry == Permutations(Workers) \cup Permutations(Operations)
=============================================================================
