\* Every operation and every error code the shell may give (spec 4.2), with
\* replies delivered whole: does each call return what its final reply
\* means, as RemoteCall says?
CONSTANTS
    Ops = {"cmd", "read", "write", "readlink", "statfs", "ls"}
    Cnt = 2
    MaxCalls = 2
    Errs = {500, 501, 502, 503}
    PayloadNL = FALSE
    PartialDelivery = FALSE
    PingSeq = 5
    PingLines = 2
SPECIFICATION Spec
PROPERTY ImplementsRemoteCall
CHECK_DEADLOCK FALSE
