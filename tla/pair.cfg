SPECIFICATION Spec
CONSTANTS
  None = None
  Procs = {p1, p2}
  Instances = {i1}
  Ops = {"create", "start", "state", "kill", "term", "signal", "delete", "force", "exec"}
  MaxAborts = 0
INVARIANTS TypeOK NoRunBeforeStart StartAcknowledgedOnce StartOkMeansStarted KillOkMeansDead
SYMMETRY Symmetry
