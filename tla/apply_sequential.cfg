SPECIFICATION Spec

CONSTANTS
  a = a
  b = b
  x = x
  y = y
  p = p
  q = q
  Absent = Absent
  NoThread = NoThread
  NoRequest = NoRequest
  Paths = {a, b}
  Contents = {x, y}
  Proposals = {p, q}
  Threads = {t1}
  Operations = {o1, o2, o3, o4}
  Changes <- TwoChanges
  Files0 <- OneFile
  MaxEdits = 2
  MaxFaults = 1
  MaxCrashes = 1

SYMMETRY OperationSymmetry

INVARIANTS
  TypeOK
  RecoveryOffered

PROPERTIES
  WriteAheadJournal
  RollbackMeansBase
  Lifecycle

\* A server nobody sends a request to stops, and so does one that has used
\* up its operation ids.
CHECK_DEADLOCK FALSE
