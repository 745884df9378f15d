SPECIFICATION FairSpec
CONSTANTS
  Messages = {m1, m2}
  NumThreads = 2
  SizeChoices <- AnySizes
INVARIANTS
  TypeOK
  DeliveredInOrder
PROPERTIES
  OutgoingDrains
  WrittenArrives
CHECK_DEADLOCK FALSE
