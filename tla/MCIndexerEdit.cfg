\* By hand: the vector of the old text beside the new one.
SPECIFICATION IndexSpec
CONSTANTS
    Limit = 2
    Text = {t1, t2}
    None = None
INVARIANT VectorMatchesText
CHECK_DEADLOCK FALSE
