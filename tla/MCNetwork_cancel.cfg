CONSTANTS
    v1 = v1
    v2 = v2
    VMs = {v1}
    Forced = {}
    MayFail = FALSE
    MayCrash = FALSE
SPECIFICATION Spec
INVARIANTS AddUndone
