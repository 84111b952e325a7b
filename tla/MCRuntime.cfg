CONSTANTS
  Works = {w1, w2}
  Ticks = {t1, t2}
  Producers = {p1}
  Capacity = 2
  MaxInFlight = 2
  Interval = 1
  MaxTime = 2
  RuntimeEvents = TRUE
SPECIFICATION Spec
SYMMETRY Symmetry
INVARIANTS
  NothingLost
  ReportedBeforeReturned
PROPERTIES
  ShutdownOrderly
