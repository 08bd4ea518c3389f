\* Indications arriving just before the deadline keep an execute waiting.
CONSTANTS
    Cmds = {1}
    Inds = {108}
    NoArg = NoArg
    Args = {0, 1, NoArg}
    Timeouts = {2}
    Faults = {}
    MaxReq = 2
    Costs = {1}
    MaxNoise = 1
    ResetOn = "open"
SPECIFICATION Spec
INVARIANT FailsAfterTimeout
