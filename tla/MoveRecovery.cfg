\* The journals as this code writes and reads them.
SPECIFICATION Spec
\* A move may be over for good.
CHECK_DEADLOCK FALSE
CONSTANTS
  Files = {"f1", "f2"}
  Readers = {"snake_case"}
  MaxMoves = 2
  MaxStops = 2
  MaxFaults = 1
INVARIANTS
  CommittedMoveIsFinished
