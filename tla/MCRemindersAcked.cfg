\* Buttons are used only after the sender has recorded the delivery.
SPECIFICATION FairSpec
CONSTANTS
  Row = {r1, r2}
  Task = {}
  Worker = {w1, w2}
  NoRow = NoRow
  NoTask = NoTask
  NoWorker = NoWorker
  MaxAttempts = 2
  MaxSnooze = 2
  MaxOcc = 1
  Rules = {FALSE, TRUE}
  EarlyTaps = FALSE
  MaxCreated = 1
  MaxEvents = 4
INVARIANTS SeriesContinues SnoozeKept
PROPERTIES DueIsSettled ImplementsAlarms
CHECK_DEADLOCK FALSE
