\* Every request and answer through both decoders, whole, cut, or with one byte
\* changed.
CONSTANTS
    IntWidth = 2
    UsizeWidth = 3
    Paths = {0, 23, 24}
    Apns = {0, 7, 101}
    Lengths = {0, 1, 127, 128, 255, 256, 257, 258, 514}
    Altered = {0, 1, 2, 3, 64, 85, 87, 127, 128, 129, 130, 131, 132, 143, 255}
    MaxAltered = 16
SPECIFICATION Spec
INVARIANTS TypeOK RoundTrip AddressIsIPv4 ServersComplete
PROPERTIES Forward TakesItsCount
CHECK_DEADLOCK FALSE
