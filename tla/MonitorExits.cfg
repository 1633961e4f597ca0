CONSTANTS
  Parts = {"mon"}
  Nobody = Nobody
  c1 = c1
  c2 = c2
  q1 = q1
  Ext = Ext
SPECIFICATION Spec
PROPERTY MonitorExits
CHECK_DEADLOCK FALSE
