\* System actions, exit requests, holds and cancellations between the steps of a dispatch.
SPECIFICATION Spec
\* All generations may be used up and every download finished.
CHECK_DEADLOCK FALSE
CONSTANTS
  a = a
  b = b
  m = m
  main = main
  other = other
  Ids = {a, m}
  AriaIds = {a}
  Queues = {main}
  QueueOf <- OneQueue
  Generations = {1}
  Resumers = {1}
  InitialCapacity = 1
  Capacities = {1}
  InitialLimits <- NoOverride
  LimitMaps <- NoLimits
  Features = {"system", "force", "shutdown", "holds", "cancel"}
PROPERTIES
  ShutdownStaysQuiet
  SystemActionIsFenced
