\* Durable removals among the workers and commands of two generations.
SPECIFICATION Spec
\* All generations may be used up and every download finished.
CHECK_DEADLOCK FALSE
CONSTANTS
  a = a
  b = b
  m = m
  main = main
  other = other
  Ids = {a, m}
  AriaIds = {a}
  Queues = {main}
  QueueOf <- OneQueue
  Generations = {1, 2}
  Resumers = {1}
  InitialCapacity = 1
  Capacities = {1}
  InitialLimits <- NoOverride
  LimitMaps <- NoLimits
  Features = {"remove"}
INVARIANTS
  OneRunnerPerDownload
  RegistrationIsCarried
PROPERTIES
  RemovalIsFenced
