\* Reads and partial-page writes; remote I/O may fail.  Reads are checked
\* for as long as the file has not been written.
CONSTANTS
    PAGE = 2
    FCSIZE = 4
    NPAGES = 3
    NOFF = 10
    MaxCalls = 5
    MaxOpen = 2
    CanFail = TRUE
    CanWrite = TRUE
    NoData = NoData
    InitContent <- MC_InitContent
SPECIFICATION Spec
INVARIANT TypeOK WindowWithinCapacity DirtyWindowHoldsWrites ReadsOfUnwrittenFile HDIsGcd
