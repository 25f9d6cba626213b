SPECIFICATION FairSpec
CONSTANTS
  Watched <- Two
  Initial = 1
  Mult = 2
  Longest = 3
  MaxEvents = 2
  MaxRejections = 2
  MaxBreaks = 1
  MaxCrashes = 1
  TornSaves = TRUE
INVARIANTS
  TokenNeverAheadOfRaw
  ReplaysAreCrashes
PROPERTIES
  EveryStreamRecovers
  IsCheckpointedFeed
