\* Every operation, every error code (502 included, as a first or a final
\* reply), replies delivered whole: the client never takes another call's
\* reply, and its bookkeeping stays in range.  Deadlock is not checked: the
\* model stops when the calls are used up, and where the session hangs (the
\* question of run ss_hang).
CONSTANTS
    Ops = {"cmd", "read", "write", "readlink", "statfs", "ls"}
    Cnt = 2
    MaxCalls = 3
    Errs = {500, 501, 502, 503}
    PayloadNL = FALSE
    PartialDelivery = FALSE
    PingSeq = 5
    PingLines = 2
SPECIFICATION Spec
INVARIANT ReplyBelongsToCall TypeOK
CHECK_DEADLOCK FALSE
