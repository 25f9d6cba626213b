SPECIFICATION Spec
CONSTANTS
  f1 = f1
  f2 = f2
  d1 = d1
  Dirs <- TwoDirs
  NModels = 2
  Dimensions = {1}
  ModelOf <- DimensionThenFacts
  Time <- DocumentIsLatest
  Docs = {d1}
  Callers = {c1}
  Main = main
  NoThread = none
  OneTick = {}
  MaxVersion <- OrderRewritten
  MaxFailures = 1
  MaxRestarts = 1
INVARIANTS
  OneRefreshAtATime
  SuccessCoversBacklog
  StagesInOrder
CHECK_DEADLOCK FALSE
