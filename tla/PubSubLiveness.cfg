SPECIFICATION FairSpec
CONSTANTS
  Topic = {t1}
  Chan = {c1, c2}
  Publisher = {p1, p2}
  NoTopic = NoTopic
  NoChan = NoChan
  BufferCap = 1
  MaxPublish = 1
PROPERTIES PublishReturns
CHECK_DEADLOCK FALSE
