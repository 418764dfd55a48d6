CONSTANTS
    Thread = {t1, t2}
    Inode = {f1, f2, f3, f4}
    None = None
    MAX_ENTRIES = 2
    MaxLogged = 3
SPECIFICATION Spec
INVARIANT LogAlwaysWhole
SYMMETRY Symmetric
CHECK_DEADLOCK FALSE
