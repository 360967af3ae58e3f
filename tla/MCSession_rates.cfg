CONSTANTS
    c1 = c1
    c2 = c2
    Callers = {c1}
    Menu <- MCFullMenu
    MaxLate = 0
    MaxBytes = 0
SPECIFICATION Spec
INVARIANTS NilMeansDone
