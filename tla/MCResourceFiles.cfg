SPECIFICATION Spec
CONSTANTS
  d1 = d1  d2 = d2
  Threads = {t1, t2}
  Resources = {r1, r2}
  Keys = {k1}
  Data = {d1, d2}
  Crc <- CrcOf
  Faults = {"mkdir", "open", "rename", "remove"}
  None = None
  Torn = Torn
INVARIANTS
  TypeOK
PROPERTIES
  SavesItsResource
  ImplementsStore
