SPECIFICATION Spec

CONSTANTS
  Project = Project
  x = x
  y = y
  w = w
  None = None
  Documents = {d1}
  Bodies = {x, y, w}
  BodiesOf <- Payloads
  WriteBody = w
  Operations = {o1, o2, o3}
  Threads = {t1, t2}

SYMMETRY Symmetries

INVARIANTS
  TypeOK
  NoLostUpdate
  ReportedCounter
  AppliedUnderGrant
  ToldItsOwn
  RemovedHasNoGrant
  GateRetries

PROPERTIES
  AtMostOnce
