-------------------------- MODULE MCDownloadQueue --------------------------
(***************************************************************************)
(* Instances of DownloadQueue for TLC: aria2 downloads a and b, media      *)
(* download m, queues main and other.                                      *)
(***************************************************************************)
EXTENDS DownloadQueue

CONSTANTS a, b, m, main, other

OneQueue == [id \in Ids |-> main]
TwoQueues == [id \in Ids |-> IF id = b THEN other ELSE main]

NoOverride == [q \in Queues |-> 0]
MainOverride == [q \in Queues |-> IF q = main THEN 1 ELSE 0]
NoLimits == {}
EitherLimits == {NoOverride, MainOverride}
=============================================================================
