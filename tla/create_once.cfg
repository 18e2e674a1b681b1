SPECIFICATION Spec
CONSTANTS
  None = None
  Procs = {p1, p2}
  Instances = {i1, i2}
  Ops = {"create", "start", "state", "kill"}
  MaxAborts = 1
INVARIANTS CreateOnce CreateOkMeansCreated
PROPERTIES StatusNeverRegresses
