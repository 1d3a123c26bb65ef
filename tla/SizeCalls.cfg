SPECIFICATION Spec
CONSTANTS
    p1 = p1
    p2 = p2
    Callers = {p1, p2}
    MaxSize = 3
    MaxCopies = 2
    Overlap = {{"stat"}, {"stat", "clone"}, {"stat", "set"}, {"stat", "unset"}, {"clone", "set"}, {"clone", "unset"}}
SYMMETRY Symmetry
INVARIANTS
    TypeOK
    RowAgrees
    ClonesSized
    Guaranteed
    KeysAgree
PROPERTY NeverShrinks
