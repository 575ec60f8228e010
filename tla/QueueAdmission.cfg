\* Three downloads of two queues under a changing global limit and changing overrides.
SPECIFICATION Spec
\* All generations may be used up and every download finished.
CHECK_DEADLOCK FALSE
CONSTANTS
  a = a
  b = b
  m = m
  main = main
  other = other
  Ids = {a, b, m}
  AriaIds = {a, b}
  Queues = {main, other}
  QueueOf <- TwoQueues
  Generations = {1}
  Resumers = {1}
  InitialCapacity = 2
  Capacities = {1, 2}
  InitialLimits <- MainOverride
  LimitMaps <- EitherLimits
  Features = {"resize", "limits"}
INVARIANTS
  TypeOK
PROPERTIES
  TargetRespected
  QueueLimitRespected
