SPECIFICATION Spec
CONSTANTS
  None = None
  Procs = {p1}
  Instances = {i1}
  Ops = {"create", "delete"}
  MaxAborts = 0
INVARIANT DeletedMeansStopped
