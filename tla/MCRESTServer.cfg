SPECIFICATION Spec
CONSTANTS
  Clients = {c1, c2}
  Slots = {s1, s2}
  k1 = k1
  k2 = k2
  v1 = v1
  v2 = v2
  Keys <- TheKeys
  Values = {v1, v2}
  Requests <- SomeRequests
  None = None
  NotString = NotString
INVARIANT TypeOK
PROPERTIES ImplementsDictionary CallsReturn
CHECK_DEADLOCK FALSE
