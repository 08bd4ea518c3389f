\* The same transport, asked for the plain statement of correlation: one timeout
\* and the next response answers the wrong request.
CONSTANTS
    Cmds = {1}
    Inds = {108}
    NoArg = NoArg
    Args = {0, 1, NoArg}
    Timeouts = {1}
    Faults = {}
    MaxReq = 2
    Costs = {1}
    MaxNoise = 0
    ResetOn = "open"
SPECIFICATION Spec
INVARIANT AnswersItsRequest
