CONSTANTS
  h1 = h1  h2 = h2  p1 = p1  p2 = p2
  Helpers <- TwoHelpers
  Ops <- AllOps
  Policies <- TwoPolicies
  Hosts <- AllHosts
  MayFail <- Commands
  Events <- Host
  MaxRequests = 3
  MaxFaults = 2
  MaxEvents = 1
SPECIFICATION MCSpec
SYMMETRY HelperSymmetry
INVARIANTS DenyInForce AppliesSound LeavesNothing
CHECK_DEADLOCK FALSE
