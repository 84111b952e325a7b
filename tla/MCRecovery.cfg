CONSTANTS
  Items = {i1, i2, i3, i4}
  Cap = 3
  SampleWindow = 4
  MinSamples = 2
  ThresholdNum = 2
  ThresholdDen = 3
  CoolDown = 3
  Producers = {p1}
  Works = {w1, w2}
  Runtimes = {r1}
  NoRuntime = NoRuntime
  Capacity = 2
  IdSpan = 3
  OrderMax = 2
  CounterMax = 1
  MaxQueueIds = 1
  Malformed = TRUE
  MaxDiscipline = 3
SPECIFICATION RecoverySpec
PROPERTIES
  OpenMeansOpen
  OpenIsProbed
  CloseEventuallyReported
