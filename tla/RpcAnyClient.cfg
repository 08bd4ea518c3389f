\* Any client over any firmware, the driver resetting the channel at every open.
CONSTANTS
    Cmds = {1}
    Inds = {108}
    NoArg = NoArg
    Args = {0, 1, NoArg}
    Timeouts = {1}
    Faults = {"frame", "payload", "echo"}
    MaxReq = 2
    Costs = {1}
    MaxNoise = 2
    ResetOn = "open"
SPECIFICATION Spec
INVARIANTS TypeOK Correlated FlagFollowsFirmware
PROPERTIES ImplementsCalls
