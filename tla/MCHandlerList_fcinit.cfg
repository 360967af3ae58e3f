CONSTANTS
    m1 = m1
    m2 = m2
    Machines = {m1, m2}
    Handlers <- MCHandlers
    DefaultList <- MCDefault
    Spare = 1
    OnNew <- MCNothing
    Slack = 1
    MaxLen = 2
SPECIFICATION ListSpec
SYMMETRY Symm
PROPERTIES Independent
