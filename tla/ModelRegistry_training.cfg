SPECIFICATION Spec
CONSTANTS
  Trainers = {t1}
  Operators = {o1}
  Nobody = nobody
  MaxVersions = 3
  Scores = {0, 1, 2}
  Unscored = unscored
  Directions = {"higher_better", "lower_better", "always"}
  MinPercent = 10
  StrayRequests = FALSE
  MaxCalls = 2
  MaxCrashes = 2
INVARIANT OneActiveUnlessCrashed
PROPERTIES
  PromotionImproves
  RollbackIsSafe
CHECK_DEADLOCK FALSE
