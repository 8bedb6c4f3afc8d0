\* s_read payloads that may hold newlines, handed over by the socket in
\* pieces: sock_read returns count after one short do_sync_read.
CONSTANTS
    Ops = {"cmd", "read"}
    Cnt = 2
    MaxCalls = 2
    Errs = {}
    PayloadNL = TRUE
    PartialDelivery = TRUE
    PingSeq = 5
    PingLines = 2
SPECIFICATION Spec
INVARIANT ReplyBelongsToCall
CHECK_DEADLOCK FALSE
