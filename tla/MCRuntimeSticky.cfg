CONSTANTS
  Works = {w1}
  Ticks = {t1}
  Producers = {p1}
  Capacity = 1
  MaxInFlight = 1
  Interval = 1
  MaxTime = 1
  RuntimeEvents = TRUE
SPECIFICATION FairSpec
PROPERTIES
  StickyShutdown
