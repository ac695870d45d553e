SPECIFICATION SpecAll

CONSTANTS
  Canvases = {c1, c2}
  Clients = {w1, w2}
  Components = {"card"}
  Names = {"A", "B"}
  BoardIds = {101, 102}
  Fresh = 3
  Looks = {0, 1}
  NewName = "A"
  NewBoards <- StartBoards
  Batches <- SomeBatches
  Surfaces <- SomeSurfaces
  MaxBatch = 3
  UndoLimit = 2
  MaxBoards = 2
  MaxNodes = 4
  MaxInstances = 3
  MaxWrites = 3
  MaxPublishes = 2
  None = None
  Selections = {s1}
  Requests = {r1}
  MaxSnapshots = 2
  MaxBuilds = 2
  MaxPairs = 0
  MaxWatched = 1
  MaxReleases = 1
  MaxWindows = 1
  MaxOpen = 1

SYMMETRY Symmetries

INVARIANTS
  ConsentIsInformed

PROPERTIES
  UndoIsExact

CHECK_DEADLOCK FALSE
