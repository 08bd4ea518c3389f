\* That the bring-up ends or waits where it may, under fairness of the program
\* alone: the firmware may report the mode early, late or never.
CONSTANTS
    NoArg = NoArg
    U32Max = U32Max
    ProbeTimeout = 1
    ReadyTimeout = 2
    ResponseTimeout = 1
    IpWait = 1
    IpInterval = 1
    DefaultRoute = FALSE
    WriteResolv = FALSE
    Locks = {TRUE}
    EarlyModeRsp = TRUE
    Faults = {"payload"}
    MaxReq = 40
    MaxNoise = 1
SPECIFICATION FairSpec
PROPERTIES Ends PermissionWakes ModeReportWakes
CHECK_DEADLOCK FALSE
