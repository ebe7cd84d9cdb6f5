SPECIFICATION Spec
CONSTANTS
    t1 = t1
    t2 = t2
    t3 = t3
    p1 = p1
    r1 = r1
    r2 = r2
    None = None
    Task = {t1, t2, t3}
    Project = {p1}
    Trip = {r1, r2}
    MaxButtons = 1
SYMMETRY Symmetric
CONSTRAINT Apart
CHECK_DEADLOCK FALSE
INVARIANTS OneFrogOneTrip SeriesNeverForks ClosedProjectIsQuiet
PROPERTIES LateButtonsAreHarmless
