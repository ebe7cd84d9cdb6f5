\* The user may press a button before the sender has recorded the delivery.
SPECIFICATION Spec
CONSTANTS
  Row = {r1, r2}
  Task = {}
  Worker = {w1}
  NoRow = NoRow
  NoTask = NoTask
  NoWorker = NoWorker
  MaxAttempts = 2
  MaxSnooze = 2
  MaxOcc = 1
  Rules = {FALSE, TRUE}
  EarlyTaps = TRUE
  MaxCreated = 1
  MaxEvents = 1
INVARIANT SeriesContinues
CHECK_DEADLOCK FALSE
