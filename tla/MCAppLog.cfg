\* An app that is restarted, deleted and made anew, and one browser.
SPECIFICATION LogFairSpec
CONSTANTS
  None = None
  Procs = {p1,p2}
  Buffers = {b1,b2}
  Viewers = {v1}
  PipeCap = 1
  MaxLines = 3
  Ring = 2
  SubCap = 1
  p1 = p1
  p2 = p2
  b1 = b1
  b2 = b2
  v1 = v1
INVARIANTS OutputKept OneBuffer StreamNoGap
PROPERTIES OutputDrains
