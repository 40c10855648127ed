CONSTANTS
    m1 = m1
    m2 = m2
    d1 = d1
    mirror = mirror
    single = single
    Leaves = {m1, m2, d1}
    Tops = {mirror, single}
    TopOf <- MCTopOf
    SPA_DVAS_PER_BP = 1
    VDEV_LABELS = 2
    VDEV_UBERBLOCK_COUNT = 2
    Workloads <- MCWorkloads
SPECIFICATION Spec
INVARIANTS
    LastGroupFound
    ConfigReadable
SYMMETRY MCSymmetry
CHECK_DEADLOCK FALSE
