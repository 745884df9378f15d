SPECIFICATION Spec
CONSTANTS
  Objects = {o1, o2, o3}
  Names = {n1, n2}
  Segments = {s1, s2, s3, s4, s5}
  None = None
  Free = Free
  Abandoned = Abandoned
SYMMETRY Symmetry
INVARIANTS TypeOK OwnerHasItsName UnsizedExplained
PROPERTY ImplementsOwnership
CHECK_DEADLOCK FALSE
