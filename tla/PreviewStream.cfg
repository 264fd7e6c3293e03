\* A history of two events; two are published before and as many as three after the
\* search ended; one client that may lose its connection, or two viewers.
SPECIFICATION Spec
CONSTANTS
  Capacity = 2
  MaxHandlers = 2
  MaxNews = 2
  MaxDrops = 1
  Viewers = {v1, v2}
INVARIANTS
  NothingIsSkipped
  NoFrameOutlivesTheSearch
  ViewersAreCounted
PROPERTIES
  StoryReachesTheClient
  StreamsEnd
\* When the search is over and the client has stopped watching nothing is left to do.
CHECK_DEADLOCK FALSE
