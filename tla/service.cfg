\* Archives, upgrades of the database, folders of projects, starts and stops of the
\* service with its clients, and every route of one that runs.
SPECIFICATION MCSpec
CONSTANTS
  zip = zip
  safe = safe
  home = home
  q1 = q1
  app = app
  App = App
  away = away
  Blobs = {b1, b2}
  Threads = {t1, t2}
  Places = {zip, safe}
  Directories = {home}
  Requests <- SomeRequests
  MaxAttempts = 2
  MaxStops = 1
  MaxWrites = 2
  Releases = {1, 2, 4}
  Latest = 4
  MaxStarts = 5
  Projects = {b1, b2}
  Paths = {app, App, away}
  Normalized <- Spelling
  Folders = {d1, d2}
  Clerks = {t1, t2}
  MaxMoves = 2
  MaxJobs = 5
  Boots = {b1, b2}
  PortPairs <- SomePorts
  Callers = {t1, t2}
  Sampled <- SomeCalls
  Tasks = {q1}
  MaxCalls = 2
  None = None
SYMMETRY Symmetries
INVARIANT UpgradeIsSafe
PROPERTIES ArchivesHold FoldersAreTheirs OnlyItsOwn
CHECK_DEADLOCK FALSE
