\* A pull, and the edit form.
SPECIFICATION StoreSpec
CONSTANTS
  None = None
  Absent = Absent
  Apps = {a1}
  Reqs = {r1, r2}
  Asked = {"edit", "pull"}
  a1 = a1
  r1 = r1
  r2 = r2
PROPERTY OverrideKept
