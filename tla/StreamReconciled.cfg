\* A history of two events and one client that may lose its connection.
SPECIFICATION Spec
CONSTANTS
  Capacity = 2
  MaxHandlers = 2
  MaxNews = 3
  MaxDrops = 1
  Viewers = {}
INVARIANTS
  StreamIsReconciled
CHECK_DEADLOCK FALSE
