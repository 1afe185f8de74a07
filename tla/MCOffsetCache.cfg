SPECIFICATION Spec
CONSTANTS
    w1 = w1
    w2 = w2
    w3 = w3
    b1 = b1
    b2 = b2
    o1 = o1
    o2 = o2
    None = None
    Procs = {w1, w2, w3}
    Builds = {b1, b2}
    Offsets = {o1, o2}
    Inodes = {1, 2, 3, 4}
    MaxStores = 4
SYMMETRY Interchangeable
CHECK_DEADLOCK FALSE
PROPERTIES StoreKeeps CrashKeeps
