\* One restart at a time.
SPECIFICATION Spec
CONSTANTS
  None = None
  Apps = {a1}
  Reqs = {r1}
  Procs = {p1, p2}
  ChrootEnabled = TRUE
  Deaf = {a1}
  Asked = {"restart"}
  a1 = a1
  r1 = r1
  p1 = p1
  p2 = p2
PROPERTY RestartNotRefused
