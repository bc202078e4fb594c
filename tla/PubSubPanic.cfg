SPECIFICATION Spec
CONSTANTS
  Topic = {t1}
  Chan = {c1, c2, c3}
  Publisher = {p1}
  NoTopic = NoTopic
  NoChan = NoChan
  BufferCap = 1
  MaxPublish = 1
SYMMETRY Symmetric
INVARIANTS PublishNeverPanics
CHECK_DEADLOCK FALSE
