SPECIFICATION PlayingSpec
CONSTANTS
  d1 = d1
  t1 = t1
  e1 = e1
  e2 = e2
  e3 = e3
  RtThread = {d1}
  Device = {d1}
  Event = {e1, e2}
  QueueSize = 1
  UserAsync = FALSE
PROPERTIES StopReturns  AsyncInEventsRun AsyncSelfEventsRun
