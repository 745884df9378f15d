SPECIFICATION Spec
CONSTANTS
  ch1 = ch1  ch2 = ch2  e1 = e1  e2 = e2  c1 = c1  c2 = c2  k1 = k1
  Channels = {ch1, ch2}
  Emitters = {e1, e2}
  Consumers = {c1, c2}
  EmitterKeys = {k1}
  NumConsumerKeys = 2
  Signature <- SignatureOf
  MaxSlots = 2
  None = None
INVARIANTS
  TypeOK
  Wired
PROPERTIES
  EveryRegisteredHears
  NoCallAfterRelease
