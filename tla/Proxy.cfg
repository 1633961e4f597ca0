SPECIFICATION FairSpec
CHECK_DEADLOCK FALSE
CONSTANTS
  c1 = c1
  c2 = c2
  Conns <- TwoConns
  Hosts <- SomeHosts
  Allowed <- SomeAllowed
  Literal <- SomeLiteral
  Rebound <- SomeRebound
  Exempt <- SomeExempt
  MaxConns = 2
  MayMITM = {TRUE, FALSE}
INVARIANTS SlotsExact SessionsSound ReturnsDrained
PROPERTY ShutdownCompletes
