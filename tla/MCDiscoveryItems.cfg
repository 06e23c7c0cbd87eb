SPECIFICATION Spec
CONSTANTS
  i1 = i1
  i2 = i2
  f1 = f1
  f2 = f2
  c1 = c1
  c2 = c2
  scored = scored
  suppressed = suppressed
  None = None
  Item <- TwoItems
  Feed <- TwoFeeds
  Call <- TwoCalls
  Single <- SingleCall
  Outcome <- TwoOutcomes
  Limit = 2
  Threshold = 1
SYMMETRY Symmetry
INVARIANTS
  TypeOK
  ScoreBacksStatus
  BriefIsUnique
  BriefIsLatest
  ResultTellsWrites
