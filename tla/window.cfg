SPECIFICATION FairSpec
CONSTANTS
  MaxEdits = 2
  Theirs = {o1}
  MaxCanvases = 2
  MaxAsks = 4
  Slots = 2
  MaxTimeouts = 1
  None = None
INVARIANT DraftIsKept
PROPERTY EditsAreSettled
CHECK_DEADLOCK FALSE
