\* Archives that are replaced: the staging name of one is removed by another.
SPECIFICATION Spec
CONSTANTS
  zip = zip
  Blobs = {b1}
  Threads = {t1, t2}
  Places = {zip}
  Directories = {home}
  Requests <- BothOverwrite
  MaxAttempts = 3
  MaxStops = 1
  MaxWrites = 1
  None = None
INVARIANT SealedIsWhole
CHECK_DEADLOCK FALSE
