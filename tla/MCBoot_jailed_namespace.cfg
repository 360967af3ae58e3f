CONSTANTS
    m1 = m1
    m2 = m2
    Machines = {m1}
    Configs <- MCDefaultNetNS
    CniResults <- MCCniResults
SPECIFICATION Spec
CHECK_DEADLOCK FALSE
INVARIANTS RunsWithItsTap
