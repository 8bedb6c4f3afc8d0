\* Two threads, each with its own struct file on one inode, a pool of two
\* windows: releases and flushes without shfs_mutex against the other
\* thread's readpage, release and listing.
CONSTANTS
    Threads = {t1, t2}
    NULL = NULL
    NoOwner = NoOwner
    POOL = 2
    MaxCalls = 6
SPECIFICATION Spec
INVARIANT NoUseAfterFree
CHECK_DEADLOCK FALSE
