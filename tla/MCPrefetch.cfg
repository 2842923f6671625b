SPECIFICATION FairSpec
CONSTANTS
  Words = 3
  NumReqs = 2
  Mems <- MCMems
INVARIANTS TypeOK Fits TracksBus HoldsRequest FreshOnly
PROPERTIES StreamSpec Delivers
