SPECIFICATION Spec
CONSTANTS
  Names <- AllNames
  Longer <- TheLonger
  Rootfs <- TheRootfs
  MaxLinks = 3
  Inputs <- AllInputs
  Flags = {"seccomp", "cgroup-devices"}
  Trimmed <- TrimmedArchs
  Namespaces = {"net", "user", "uts"}
  Nil = Nil
  Blank = Blank
  Invalid = Invalid
  path = path
  MaxCreates = 2
INVARIANTS ConfigureTypeOK MountsAsInContainer MadeInRootfs ExecSharesNamespaces  FlagsByPrecedence SeccompAsSpecified PidFileWhole TempMeansDied
