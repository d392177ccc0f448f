SPECIFICATION Spec
CONSTANTS
  d1 = d1
  t1 = t1
  e1 = e1
  e2 = e2
  e3 = e3
  RtThread = {d1}
  Device = {d1}
  Event = {e1, e2, e3}
  QueueSize = 2
  UserAsync = FALSE
SYMMETRY EventSymmetry
INVARIANTS TypeOK PushesGoToTheBack StopDrainsAsyncEvents
PROPERTIES LanesSpec HandoffWaitsForAsync
