CONSTANTS
  p1 = p1
  p2 = p2
  a = a
  b = b
  s1 = s1
  s2 = s2
  None = None
  Procs <- TwoProcs
  Names <- TwoNames
  Legacy <- OneLegacy
  Subnets <- TwoSubnets
  Commands <- AllCommands
  CrossDevice = {TRUE, FALSE}
  MaxCmds = 3
  MaxFaults = 1
  MaxKills = 1
SPECIFICATION Spec
SYMMETRY Symmetric
INVARIANTS SubnetsDistinct NothingStranded ImagesSound MigrateSound
CHECK_DEADLOCK FALSE
