\* No dialogue runs out of time and nothing fails.
SPECIFICATION Spec
CONSTANTS
  Chrono = {c1, c2}
  Voice = {v1}
  Project = {p1}
  Day = {d1}
  NoToken = NoToken
  Expiring = FALSE
  MaxEvents = 0
INVARIANT FlagsAreCaches
CHECK_DEADLOCK FALSE
