CONSTANTS
    m1 = m1
    m2 = m2
    Machines = {m1, m2}
    Configs <- MCConfigs
    CniResults <- MCCniResults
SYMMETRY Symm
SPECIFICATION Spec
CHECK_DEADLOCK FALSE
INVARIANTS GuestStartedLast SnapshotIntoFresh PathsInChroot OwnFirecracker OwnTap BootArgsAgree CommandAgrees
