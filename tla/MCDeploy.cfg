\* Two deploys of two apps each, one browser, channels shorter than the log.
SPECIFICATION FairSpec
CONSTANTS
  None = None
  Deployers = {d1, d2}
  Viewers = {v1}
  Queue = 2
  Messages = 1
  ChCap = 1
  Ring = 2
  SubCap = 1
  d1 = d1
  d2 = d2
  v1 = v1
INVARIANTS TypeOK OneDeploy FinishesOwn NoGap
PROPERTIES LinesInOrder SlotFreed StreamsEnd
