\* One app; starts, pulls and deploys race for it and its row.
SPECIFICATION Spec
CONSTANTS
  None = None
  Apps = {a1}
  Reqs = {r1, r2}
  Procs = {p1, p2}
  ChrootEnabled = TRUE
  Deaf = {a1}
  Asked = {"deploy", "pull", "pullall", "start"}
  a1 = a1
  r1 = r1
  r2 = r2
  p1 = p1
  p2 = p2
SYMMETRY Sym
INVARIANTS EveryInstanceTracked StopNotReportedAsCrash RunningBacked
PROPERTY OneInstance
