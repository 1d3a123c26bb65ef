SPECIFICATION Spec
CONSTANTS
    p1 = p1
    p2 = p2
    Callers = {p1, p2}
    MaxSize = 3
    MaxCopies = 2
    Overlap = {{"resize", "stat"}}
SYMMETRY Symmetry
PROPERTY NeverShrinks
