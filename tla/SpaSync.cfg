CONSTANTS
    Units = {0, 1, 2, 3, 4, 5, 6, 7, 8, 9}
    Files = {f1}
    Workloads <- MCWorkloads
SPECIFICATION Spec
INVARIANTS
    UberblocksIntact
    SpaceMapExact
    LogsClaimable
    Converges
CHECK_DEADLOCK FALSE
