CONSTANTS
  c1 = c1
  c2 = c2
  Nobody = Nobody
  Scenes = {"race"}
  Clients <- TwoClients
  Commands <- Running
  Monitor = FALSE
  MayFail <- NoFaults
  Events <- NoEvents
  MaxCmds = 3
  MaxFaults = 0
  MaxEvents = 0
SPECIFICATION MCSpec
INVARIANT AtRest
CHECK_DEADLOCK FALSE

