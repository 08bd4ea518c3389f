\* A network that refuses the attach, with a modem that works throughout.
CONSTANTS
    MaxSuspends = 0
    MaxChanges = 0
SPECIFICATION Spec
PROPERTIES NetworkFaultIsFinal
CHECK_DEADLOCK FALSE
