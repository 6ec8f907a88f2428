\* Rootfs-prefix mode, a program that ignores signals.
SPECIFICATION FairSpec
CONSTANTS
  None = None
  Apps = {a1}
  Reqs = {r1, r2}
  Procs = {p1}
  ChrootEnabled = FALSE
  Deaf = {a1}
  Asked = {"restart", "delete"}
  a1 = a1
  r1 = r1
  r2 = r2
  p1 = p1
INVARIANT TypeOK
PROPERTIES RequestsFinish RunningCorrected ForceKilled SlotReleased
