CONSTANTS
  a = a
  b = b
  c1 = c1
  c2 = c2
  DNS = DNS
  HTTP = HTTP
  Nobody = Nobody
  Domains <- TwoDomains
  Entries <- TwoPlain
  Clients <- TwoClients
  Commands <- ApiCommands
  Declared <- FileB
  InitFile <- FileA
  MaxCmds = 3
  MaxFaults = 1
  MaxBoots = 1
SPECIFICATION Spec
INVARIANT NoSilentDrift
PROPERTY StoreSpec
CHECK_DEADLOCK FALSE
SYMMETRY ClientSymmetry
