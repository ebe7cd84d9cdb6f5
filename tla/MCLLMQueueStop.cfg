SPECIFICATION QueueFairSpec
CONSTANTS
  r1 = r1
  r2 = r2
  r3 = r3
  Request = {r1, r2, r3}
  NoRequest = NoRequest
  Priority <- MCPriority
  MaxSize = 1
CHECK_DEADLOCK FALSE
PROPERTY StopReturns
