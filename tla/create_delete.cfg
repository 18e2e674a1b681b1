SPECIFICATION Spec
CONSTANTS
  None = None
  Procs = {p1, p2}
  Instances = {i1, i2}
  Ops = {"create", "force"}
  MaxAborts = 1
PROPERTIES ImplementsOCI
SYMMETRY Symmetry
