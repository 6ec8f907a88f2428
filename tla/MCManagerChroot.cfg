\* Chroot mode, a program that ignores signals.
SPECIFICATION FairSpec
CONSTANTS
  None = None
  Apps = {a1}
  Reqs = {r1}
  Procs = {p1}
  ChrootEnabled = TRUE
  Deaf = {a1}
  Asked = {"restart"}
  a1 = a1
  r1 = r1
  p1 = p1
PROPERTY StopForceKills
