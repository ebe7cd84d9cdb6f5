SPECIFICATION Spec
CONSTANTS
  Chrono = {c1, c2}
  Voice = {v1}
  Project = {p1}
  Day = {d1}
  NoToken = NoToken
  Expiring = TRUE
  MaxEvents = 2
SYMMETRY Symmetric
CHECK_DEADLOCK FALSE
INVARIANTS FlagAndRowAgree NothingOrphaned
PROPERTIES OnlyItsOwner AnsweredOnce
