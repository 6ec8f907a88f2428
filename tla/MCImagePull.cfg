\* Two pulls at a time, perhaps of the same app, more messages than room.
SPECIFICATION Spec
CONSTANTS
  None = None
  Apps = {a1, a2}
  Pullers = {k1, k2}
  Viewers = {v1}
  Cap = 2
  Messages = 3
  a1 = a1
  a2 = a2
  k1 = k1
  k2 = k2
  v1 = v1
SYMMETRY Sym
INVARIANTS TypeOK PullingBacked RegisteredOpen ClosedOnce
PROPERTY CompleteMeansWritten
