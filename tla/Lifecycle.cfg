CONSTANTS
  c1 = c1
  c2 = c2
  Nobody = Nobody
  Scenes = {"alone", "race"}
  Clients <- TwoClients
  Commands <- AllCommands
  Monitor = FALSE
  MayFail <- Operations
  Events <- Outside
  MaxCmds = 5
  MaxFaults = 2
  MaxEvents = 1
SPECIFICATION MCSpec
INVARIANTS NeverUnattended AloneSound LockDiscipline
CHECK_DEADLOCK FALSE
SYMMETRY ClientSymmetry
