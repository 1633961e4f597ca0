CONSTANTS
  Parts = {"life", "dns", "log", "mon", "helper", "vfkit", "image"}
  Nobody = Nobody
  c1 = c1
  c2 = c2
  q1 = q1
  Ext = Ext
SPECIFICATION Spec
PROPERTIES EverythingEnds WatchersCatchUp
CHECK_DEADLOCK FALSE
