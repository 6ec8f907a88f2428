\* One part per behaviour; see the README for the sizes.  An extraction ends,
\* and a plan is made once.
SPECIFICATION PartsSpec
CONSTANTS
  None = None
  Apps = {a1}
  Pingers = {p1, p2}
  Sweeps = {s1}
  Pullers = {k1}
  Viewers = {v1, v2}
  Cap = 2
  Messages = 3
  Names = {"x", "y"}
  Images <- TwoLayers
  Others <- OneLayer
  Retries = 1
  NoToken = NoToken
  BinDirs = 2
  Keys = {"PATH", "Path", "HOME", "LD_LIBRARY_PATH"}
  NoArg = NoArg
  Word = 16
  MaxTicks = 3
  Steps = 2
  Tokens = {t1, t2}
  Browsers = {b1, b2}
  TTL = 2
  MaxTime = 4
  a1 = a1
  p1 = p1
  p2 = p2
  s1 = s1
  k1 = k1
  v1 = v1
  v2 = v2
  t1 = t1
  t2 = t2
  b1 = b1
  b2 = b2
INVARIANTS
  OneLivePinger ExtractedOnTop RunsImageProgram NothingOfHost
  PercentIsExact ValidIsRecent
PROPERTIES
  DownIsNoticed ViewersEnd
CHECK_DEADLOCK FALSE
