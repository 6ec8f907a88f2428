\* One pull that nobody watches, more messages than room.
SPECIFICATION FairSpec
CONSTANTS
  None = None
  Apps = {a1}
  Pullers = {k1}
  Viewers = {}
  Cap = 2
  Messages = 3
  a1 = a1
  k1 = k1
PROPERTY PullEnds
