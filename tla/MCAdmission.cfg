CONSTANTS
  Configs <- SomeConfigs
  Costs = {0, 1, 2, 3}
  MaxDepth = 2
  MaxTime = 6
  Producers = {p1, p2}
  Works = {w1, w2, w3}
  Runtimes = {r1, r2}
  NoRuntime = NoRuntime
  Capacity = 2
  IdSpan = 4
  OrderMax = 4
  CounterMax = 1
  MaxQueueIds = 1
  Malformed = FALSE
  MaxDiscipline = 0
SPECIFICATION AdmissionSpec
INVARIANTS
  CountsExact
  DrainedExactlyOnce
  RateConformance
PROPERTIES
  ImplementsContract
  WakesExactly
