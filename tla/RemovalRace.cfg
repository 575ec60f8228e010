\* A completion may be applied between the renderer's flush and its request.
SPECIFICATION Spec
\* The removal ends.
CHECK_DEADLOCK FALSE
CONSTANTS
  LateEvents = TRUE
  MaxStops = 1
  MaxJobFaults = 1
INVARIANTS
  CompletedPayloadIsKept
