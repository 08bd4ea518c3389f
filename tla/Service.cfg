\* The unit through failing runs, changing conditions and suspends.
CONSTANTS
    MaxSuspends = 3
    MaxChanges = 2
SPECIFICATION Spec
INVARIANTS TypeOK ActiveMeansConnected
PROPERTIES Settles ExitTwoIsFinal
CHECK_DEADLOCK FALSE
