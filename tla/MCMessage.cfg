\* The queue has served everybody, or is closed.
SPECIFICATION MessageSpec
CONSTANTS
  N = 3
  Project = {2}
  LateHandIn = FALSE
  MaxEvents = 3
  r1 = r1
  r2 = r2
  r3 = r3
  Request = {r1, r2, r3}
  NoRequest = NoRequest
  Priority <- MCPriority
  MaxSize = 2
INVARIANTS EffectsOnce UnfinishedIsListed QueueIsExact
PROPERTIES UnfinishedComesBack ImplementsUndertaking NothingIsStuck ImplementsService
CHECK_DEADLOCK FALSE
