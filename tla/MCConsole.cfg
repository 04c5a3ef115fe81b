SPECIFICATION MCSpec
CONSTANTS
    Calls <- MCCalls
    Capacity = 12
    Formats <- MCFormats
    Ints <- MCInts
    Unsigneds <- MCUnsigneds
INVARIANTS
    InsideArrays
    PrintsTheLine
    NumbersReadBack
    BufferHolds
    PrintsTheFormat
PROPERTIES
    ConsoleEnds
CHECK_DEADLOCK FALSE
