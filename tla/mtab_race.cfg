\* Two tool processes (each a shfsmount or a shfsumount) on two mount
\* points, mounts stacked up to two deep, starting from an mtab that
\* matches the kernel; no call of update_mtab fails (with CanFail = TRUE
\* the shortest trace is a failed addmntent that leaves the lock).
CONSTANTS
    Procs = {p1, p2}
    Dirs = {d1, d2}
    MaxStack = 2
    CanFail = FALSE
    NoProc = NoProc
SPECIFICATION Spec
INVARIANT MtabTracksMounts
CHECK_DEADLOCK FALSE
