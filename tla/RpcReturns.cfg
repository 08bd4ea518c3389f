\* Termination of execute: one request per behaviour is enough, any noise.
CONSTANTS
    Cmds = {1}
    Inds = {108}
    NoArg = NoArg
    Args = {0, 1, NoArg}
    Timeouts = {2}
    Faults = {"frame", "payload", "echo"}
    MaxReq = 1
    Costs = {1}
    MaxNoise = 2
    ResetOn = "open"
SPECIFICATION FairSpec
PROPERTY ExecuteReturns
