SPECIFICATION Spec
CONSTANTS
  Topic = {t1, t2}
  Chan = {c1, c2, c3}
  Publisher = {p1, p2}
  NoTopic = NoTopic
  NoChan = NoChan
  BufferCap = 1
  MaxPublish = 1
SYMMETRY Symmetric
INVARIANTS TypeOK RegistryExact PanicNeedsOverlap
PROPERTIES UndisturbedPublishExact ImplementsContract
CHECK_DEADLOCK FALSE
