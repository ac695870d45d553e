CONSTANTS
  f1 = f1
  f2 = f2
  v1 = v1
  v2 = v2
  c1 = c1
  t1 = t1
  x1 = x1
  d1 = d1
  d2 = d2
  a1 = a1
  Fields = {f1, f2}
  Values = {v1, v2}
  DecisionIds = {1, 2, 3, 4, 5, 6}
  MaxPromotions = 6
  None = None
  Torn = Torn
  Canonical = "DESIGN.md"
  Stitch = ".stitch/DESIGN.md"
  Texts = {t1}
  Components = {x1}
  MaxVersion = 2
  Nothing = Nothing
  Findings = {d1, d2}
  Criteria = {c1}
  Artifacts = {a1}
  ProductFields = {f1}
  CriterionFields = {f2}
SPECIFICATION MCSpec
SYMMETRY Symmetry
INVARIANTS TwoRounds StatusAgrees
PROPERTY BaselineIsKept
\* A run that used up its allowance of steps stops.
CHECK_DEADLOCK FALSE
