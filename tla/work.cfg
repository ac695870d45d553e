SPECIFICATION Spec

CONSTANTS
  NoMessage = NoMessage
  Requests = {r1}
  Threads = {t1, t2}
  MaxOperations = 6
  MaxBoots = 2

SYMMETRY Symmetries

\* The operation ids are bounded, so the system may stop.
CHECK_DEADLOCK FALSE

INVARIANTS
  CredentialsHold

PROPERTIES
  ReportsAreCurrent
