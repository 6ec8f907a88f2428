\* Boots, auto-starts and crashes around a client, in rootfs-prefix mode, with
\* a program that ignores signals.
SPECIFICATION BootFairSpec
CONSTANTS
  None = None
  Main = m
  Apps = {a1}
  Reqs = {m, r1}
  Procs = {p1}
  ChrootEnabled = FALSE
  Deaf = {a1}
  Asked = {"restart", "delete"}
  a1 = a1
  m = m
  r1 = r1
  p1 = p1
INVARIANT MarksBacked
PROPERTY BootFinishes
