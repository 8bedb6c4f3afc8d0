CONSTANTS
    Threads = {t1, t2}
    Entries = {"getattr", "d_revalidate", "readdir", "lookup", "mkdir", "setattr", "flush", "release"}
    Stale = {FALSE}
    CanSignal = TRUE
    MaxEntries = 4
    NoOwner = NoOwner

SPECIFICATION Spec
INVARIANT NoSelfWait IdleHoldsNothing
PROPERTY UnlockOwned
CHECK_DEADLOCK FALSE
