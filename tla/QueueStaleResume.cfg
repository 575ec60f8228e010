\* Two resume workers of one download, a limit of one for its queue.
SPECIFICATION Spec
\* All generations may be used up and every download finished.
CHECK_DEADLOCK FALSE
CONSTANTS
  a = a
  b = b
  m = m
  main = main
  other = other
  Ids = {a, b}
  AriaIds = {a, b}
  Queues = {main}
  QueueOf <- OneQueue
  Generations = {1}
  Resumers = {1, 2}
  InitialCapacity = 2
  Capacities = {2}
  InitialLimits <- MainOverride
  LimitMaps <- NoLimits
  Features = {}
PROPERTIES
  QueueLimitRespected
