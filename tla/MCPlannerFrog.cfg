SPECIFICATION Spec
CONSTANTS
    t1 = t1
    t2 = t2
    t3 = t3
    p1 = p1
    r1 = r1
    r2 = r2
    None = None
    Task = {t1, t2}
    Project = {p1}
    Trip = {r1}
    MaxButtons = 1
CHECK_DEADLOCK FALSE
PROPERTIES FrogButtonTellsTheTruth
