SPECIFICATION Spec
CONSTANTS
  Row = {r1, r2}
  Task = {t1, t2}
  Worker = {w1, w2}
  NoRow = NoRow
  NoTask = NoTask
  NoWorker = NoWorker
  MaxAttempts = 2
  MaxSnooze = 1
  MaxOcc = 2
  Rules = {FALSE, TRUE}
  EarlyTaps = TRUE
  MaxCreated = 1
  MaxEvents = 2
SYMMETRY Symmetric
INVARIANTS SingleBranch RepeatsAreExplained OnlyInFlightArrivesLate
PROPERTY SenderRespectsOwner
CHECK_DEADLOCK FALSE
