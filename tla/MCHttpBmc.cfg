SPECIFICATION HttpBmcFairSpec
CONSTANTS
  a = a
  b = b
  T1 = T1
  T2 = T2
  Tasks = {1, 2, 3}
  Urls = {a, b}
  Types = {T1, T2}
  Limit = 2
  Capacity = 1
  MaxVersion <- MCMaxVersion
  MaxCredentials = 1
  Offered <- MCOffered
  Absent = Absent
INVARIANTS
  GetIsCurrent
  FreshCredentials
PROPERTIES
  EveryCallEnds
