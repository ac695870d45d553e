SPECIFICATION FairSpec

CONSTANTS
  a = a
  b = b
  x = x
  y = y
  p = p
  q = q
  Absent = Absent
  NoThread = NoThread
  NoRequest = NoRequest
  Paths = {a, b}
  Contents = {x, y}
  Proposals = {p, q}
  Threads = {t1, t2}
  Operations = {o1, o2, o3}
  Changes <- TwoChanges
  Files0 <- OneFile
  MaxEdits = 1
  MaxFaults = 1
  MaxCrashes = 0

PROPERTIES
  NeverOverwritesEdit
  CommitMeansResult
  RequestsReturn

\* A server nobody sends a request to stops, and so does one that has used
\* up its operation ids.
CHECK_DEADLOCK FALSE
