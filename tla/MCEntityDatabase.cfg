SPECIFICATION DatabaseSpec
CONSTANTS
  Entities = {e1, e2}
  Paths = {p1, p2}
  Faults = {e1, "insert", "ResourcePersister", "EntityLoader", "ResourceLoader"}
  Nowhere = Nowhere
  Broken = Broken
SYMMETRY Alike
INVARIANTS
  DatabaseTypeOK
  LoaderFindsOurs
