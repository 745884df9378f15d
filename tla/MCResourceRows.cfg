SPECIFICATION Spec
CONSTANTS
  d1 = d1  d2 = d2
  Resources = {r1}
  Keys = {k1, k2}
  Shapes <- Wide
  Data = {d1, d2}
  Crc <- CrcOf
  Faults = {"open", "busy"}
  MaxRows = 3
  None = None
  Broken = Broken
SYMMETRY KeysAlike
INVARIANTS
  TypeOK
  SkipsWhatIsThere
PROPERTY
  ImplementsSnapshots
