CONSTANTS
  a = a
  b = b
  c1 = c1
  c2 = c2
  DNS = DNS
  HTTP = HTTP
  Nobody = Nobody
  Domains <- TwoDomains
  Entries <- TwoPlain
  Clients <- TwoClients
  Commands <- ReloadCommands
  Declared <- FileB
  InitFile <- FileA
  MaxCmds = 3
  MaxFaults = 0
  MaxBoots = 0
SPECIFICATION Spec
INVARIANT LiveChanges
CHECK_DEADLOCK FALSE
