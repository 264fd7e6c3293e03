CONSTANTS
  Worker = worker
  Stoppers = {r1}
  Closers = {r1}
  Janitors = {j1}
  Watchers = {1, 2}
  None = None
  Tries = 2
  MaxRefusals = 1
SPECIFICATION Spec
INVARIANTS
  WipedIsNeverUsed
  OneWatcher
  LocksAreOrdered
  ReaderIsNeverForgotten
  ClearedIsTrue
  SettledOrRecorded
CHECK_DEADLOCK FALSE
