\* Two downloads of one queue share a slot; pauses at every stage, holds, renewals, daemon outages.
SPECIFICATION Spec
\* Every download may have ended.
CHECK_DEADLOCK FALSE
CONSTANTS
  a = a
  b = b
  c = c
  main = main
  other = other
  Dispatcher = Dispatcher
  Ids = {a, b}
  Queues = {main}
  QueueOf <- OneQueue
  Slots = 1
  Limits <- MainLimit
  PausesAt = {"pending", "dispatching", "running", "resuming"}
  Outages = {"hold", "renewal", "daemon"}
INVARIANTS
  SlotsAreAccounted
PROPERTIES
  EligibleTaskIsAdmitted
  WaitingResumeIsServed
