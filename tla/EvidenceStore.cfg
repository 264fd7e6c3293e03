\* Two evidence items and a clock long enough for one TTL to pass after the
\* other item was stored; four timer generations.
CONSTANTS
  Evidence = {e1, e2}
  Ttl = 2
  MaxTime = 4
  MaxGeneration = 4
SPECIFICATION Spec
INVARIANTS
  TimerCoversDeadlines
  AnswersSayWhatHappened
PROPERTIES
  ImplementsHandoff
  MemoryIsFreed
\* When the clock has stopped and every item is settled nothing is left to do.
CHECK_DEADLOCK FALSE
