CONSTANTS
    Threads = {t1, t2}
    Entries = {"readpage", "slow_read", "getattr", "d_revalidate", "readdir", "lookup", "mkdir", "setattr", "flush", "release"}
    Stale = {FALSE, TRUE}
    CanSignal = TRUE
    MaxEntries = 3
    NoOwner = NoOwner
SPECIFICATION Spec
INVARIANT NoSelfWait
