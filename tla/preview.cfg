SPECIFICATION MCSpec
CONSTANTS
  None = None
  NoPost = NoPost
  Processes = {p1, p2}
  Rounds = {r1, r2}
  Bindings = {x, y}
  Posts = {s1, s2}
  Forms <- SomeForms
  MaxCalls = 3
  MaxSleeps = 1
  MaxMoves = 1
SYMMETRY Symmetries
CHECK_DEADLOCK FALSE
INVARIANTS HistoryAgrees
PROPERTIES HistoryIsKept DecisionIsTheUsers
