SPECIFICATION FairSpec
CONSTANTS
  N = 3
  Project = {2}
  LateHandIn = TRUE
  MaxEvents = 3
INVARIANT UnfinishedIsListed
