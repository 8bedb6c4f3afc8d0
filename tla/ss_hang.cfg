\* A write refused with ENOSPC, then any call: shell_write counts its data
\* as garbage, so the next call first pads and pings in clear_garbage.
CONSTANTS
    Ops = {"cmd", "write"}
    Cnt = 2
    MaxCalls = 2
    Errs = {502}
    PayloadNL = FALSE
    PartialDelivery = FALSE
    PingSeq = 5
    PingLines = 2
SPECIFICATION Spec
PROPERTY CallsReturn
CHECK_DEADLOCK FALSE
