CONSTANTS
  p1 = p1
  p2 = p2
  a = a
  b = b
  s1 = s1
  s2 = s2
  None = None
  Procs <- OneProc
  Names <- TwoNames
  Legacy <- NoLegacy
  Subnets <- TwoSubnets
  Commands <- PullAndImport
  CrossDevice = {FALSE}
  MaxCmds = 2
  MaxFaults = 0
  MaxKills = 0
SPECIFICATION Spec
INVARIANT SnapshotBacked
CHECK_DEADLOCK FALSE
