\* A run that is captured, bound, judged, delivered and taken over by the workbench;
\* and two components, with those created later, that are published, copied, imported
\* into another project, archived and deleted.
SPECIFICATION MCSpec
CONSTANTS
  a1 = a1
  c1 = c1
  op1 = op1
  p1 = p1
  q1 = q1
  Artifacts = {a1}
  Criteria = {c1}
  Rounds = {1, 2}
  Viewports <- TwoViewports
  Reports <- SomeReports
  Roles = {"owner-verified"}
  Operations = {op1}
  Deliveries = {1, 2}
  Assets = {1, 2, 3, 4}
  Projects = {p1, q1}
  Instances = {i}
  Clients = {c}
  Shelf <- SmallShelf
  Contents <- SomeContents
  Tokens <- SomeTokens
  Category <- OneCategory
  Says <- SomeSays
  Texts = {sound, circular}
  sound = sound
  circular = circular
  Filed = {sound}
  MaxRevisions = 2
  MaxWrites = 5
  None = None
INVARIANTS EvidenceIsPaired PassIsEarned DeliveredIsWhole VerifiedWasJudged BackflowsOnce
           ReferencesHold
\* A run that used up its allowance of steps, and writes, stops.
CHECK_DEADLOCK FALSE
