SPECIFICATION LiveSpec
CONSTANTS
  None = None
  Procs = {p1, p2}
  Instances = {i1}
  Ops = {"create", "start", "force"}
  MaxAborts = 1
PROPERTIES CommandsReturn EventuallyDeleted
