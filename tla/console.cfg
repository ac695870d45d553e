SPECIFICATION Spec
CONSTANTS
  Refs = {r1}
  None = None
  MaxEdits = 2
  MaxFaults = 1
  MaxStops = 1
  MaxTicks = 1
  MaxReviews = 1
INVARIANTS ServedIsTrue
PROPERTIES OnlyReviewedIsWritten
CHECK_DEADLOCK FALSE
