--------------------------- MODULE MCDispatchWake ---------------------------
(***************************************************************************)
(* Instances of DispatchWake for TLC.                                      *)
(***************************************************************************)
EXTENDS DispatchWake

CONSTANTS a, b, c, main, other

OneQueue == [id \in Ids |-> main]
TwoQueues == [id \in Ids |-> IF id = c THEN other ELSE main]
MainLimit == [q \in Queues |-> IF q = main THEN 1 ELSE 2]

\* Downloads of one queue are interchangeable where no liveness is checked.
IdSymmetry == Permutations(Ids)
=============================================================================
