SPECIFICATION EntityFilesSpec
CONSTANTS
  Roots = {r1, r2}
  Members = {1}
  SaveFaults = {"save", "json"}
  Unsaved = Unsaved
SYMMETRY Alike
INVARIANT
  EntityFilesTypeOK
PROPERTIES
  LoadsWhatWasSaved
  LazyLoadsWhatWasSaved
