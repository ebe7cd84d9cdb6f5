\* The process dies once.
SPECIFICATION Spec
CONSTANTS
  Chrono = {c1, c2}
  Voice = {v1}
  Project = {p1}
  Day = {d1}
  NoToken = NoToken
  Expiring = FALSE
  MaxEvents = 1
INVARIANT RecoveredIsConfirmable
CHECK_DEADLOCK FALSE
