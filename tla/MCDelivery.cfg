SPECIFICATION FairSpec
CONSTANTS
  N = 2
  Producer = {w1}
  Resumer = {w2}
  NoWorker = NoWorker
  Payload = {a, b}
  NoPayload = NoPayload
  MaxAttempts = 2
  MaxEvents = 3
CHECK_DEADLOCK FALSE
INVARIANTS WholeAndOneText RepeatsAreExplained
PROPERTIES SettledOnce ImplementsOutbox
