SPECIFICATION Spec
CONSTANTS
  o = o
  a = a
  Node = {o, a}
  Origin = o
  None = None
  KGossip = 1
  MaxAge = 1
  MaxTime = 2
  MaxStacked = 3
  MaxRestarts = 1
INVARIANTS
  TypeOK
  HandledOnce
  EachWayOnce
  HandledUnlessMerged
PROPERTIES
  EventSpreads
CHECK_DEADLOCK FALSE
