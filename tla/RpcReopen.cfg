\* A driver that resets the channel only when its last handle is closed.
CONSTANTS
    Cmds = {1}
    Inds = {108}
    NoArg = NoArg
    Args = {0, 1, NoArg}
    Timeouts = {1}
    Faults = {}
    MaxReq = 2
    Costs = {1}
    MaxNoise = 0
    ResetOn = "last_close"
SPECIFICATION Spec
PROPERTY CleanSlate
