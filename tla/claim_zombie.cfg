SPECIFICATION Spec
CONSTANTS
  None = None
  Procs = {p1}
  Instances = {i1}
  Ops = {"create", "state"}
  MaxAborts = 0
INVARIANT RunningMeansStarted
