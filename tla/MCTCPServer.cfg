SPECIFICATION FairServerSpec
CONSTANTS
  Clients = {c1, c2, c3}
  Threads = {t1, t2}
  Owner = owner
  Faults = {"listen", "thread", "accept", "application"}
INVARIANTS
  ServerTypeOK
  SerialStart
  SafeToDestroy
PROPERTIES
  ClientsServed
  JoinReturns
CHECK_DEADLOCK FALSE
