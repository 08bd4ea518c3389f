\* Frames of the shortest and the longest length accepted and of one too long, in
\* pieces of any size, some of them with a wrong length, too short, too long or in
\* range; a reset drops whole frames.
CONSTANTS
    LengthBytes = 2
    MinTotal = 3
    MaxTotal = 4
    ReadBufLen = 2
    FrameLengths = {3, 4, 5}
    SaidLengths = {2, 3, 4, 5}
    WholeFrames = TRUE
    SaidBy <- MCSaidBy
    MaxBytes = 11
SPECIFICATION Spec
INVARIANTS TypeOK InSync ReturnsFrames BufferBounded NoFrameRefused
PROPERTIES ErrorSticks
