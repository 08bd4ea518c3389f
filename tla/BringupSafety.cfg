\* The whole bring-up against any firmware that serves requests in order, with
\* indications, malformed messages, unanswered requests and a removed port.
CONSTANTS
    NoArg = NoArg
    U32Max = U32Max
    ProbeTimeout = 1
    ReadyTimeout = 2
    ResponseTimeout = 1
    IpWait = 1
    IpInterval = 1
    DefaultRoute = TRUE
    WriteResolv = TRUE
    Locks = {TRUE, FALSE}
    EarlyModeRsp = TRUE
    Faults = {"frame", "payload", "echo"}
    MaxReq = 40
    MaxNoise = 1
SPECIFICATION Spec
INVARIANTS TypeOK NoServiceMeansNone SuccessMeansUp HostFollowsModem ServedInOrder
CHECK_DEADLOCK FALSE
