\* The lifecycle of a submitted draft: the code can leave it where it is.
SPECIFICATION AttentiveSpec
CONSTANTS
    e1 = e1
    e2 = e2
    p1 = p1
    p2 = p2
    Entries = {e1}
    Pages = {p1}
    Capacity = 2
    MaxLeases = 1
PROPERTIES
    SubmittedMovesOn
CHECK_DEADLOCK FALSE
