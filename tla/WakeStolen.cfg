\* A resume waits for its full queue while another queue has room.
SPECIFICATION Spec
\* Every download may have ended.
CHECK_DEADLOCK FALSE
CONSTANTS
  a = a
  b = b
  c = c
  main = main
  other = other
  Dispatcher = Dispatcher
  Ids = {a, b, c}
  Queues = {main, other}
  QueueOf <- TwoQueues
  Slots = 2
  Limits <- MainLimit
  PausesAt = {"running"}
  Outages = {}
PROPERTIES
  EligibleTaskIsAdmitted
