\* Two calls at a time about one app, and crashes.
SPECIFICATION StoreFairSpec
CONSTANTS
  None = None
  Absent = Absent
  Apps = {a1}
  Reqs = {r1, r2}
  Asked = {"edit", "delete", "import", "list", "pull", "prune", "start"}
  a1 = a1
  r1 = r1
  r2 = r2
INVARIANTS EnvMatches RootfsAsPulled
PROPERTIES ImportKeepsRows CallsAreAtomic CallsReturn
