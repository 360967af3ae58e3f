CONSTANTS
    v1 = v1
    v2 = v2
    VMs = {v1, v2}
    Forced = {v2}
    MayFail = TRUE
    MayCrash = TRUE
    m1 = m1
    m2 = m2
    Machines = {m1, m2}
    Handlers <- MCHandlers
    DefaultList <- MCDefault
    Spare = 0
    OnNew <- MCOnNew
    Slack = 1
    MaxLen = 2
SPECIFICATION NeighboursSpec
SYMMETRY Symm
INVARIANTS TypeOK NoLeak GivenKept ParentKept NetworkInNamespace NoOverlay
PROPERTIES Independent
