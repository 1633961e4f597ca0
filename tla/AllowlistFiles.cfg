CONSTANTS
  a = a
  b = b
  c1 = c1
  c2 = c2
  DNS = DNS
  HTTP = HTTP
  Nobody = Nobody
  Domains <- OneDomain
  Entries <- OneWithWild
  Clients <- TwoClients
  Commands <- FileCommands
  Declared <- FileWildA
  InitFile <- FileA
  MaxCmds = 2
  MaxFaults = 1
  MaxBoots = 0
SPECIFICATION FairSpec
PROPERTY FileEditsSound
PROPERTY EventuallyInSync
CHECK_DEADLOCK FALSE
