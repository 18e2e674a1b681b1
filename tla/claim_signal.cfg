SPECIFICATION Spec
CONSTANTS
  None = None
  Procs = {p1}
  Instances = {i1}
  Ops = {"create", "signal"}
  MaxAborts = 0
PROPERTY SentSignalIsSuccess
