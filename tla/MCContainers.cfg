SPECIFICATION ContainersSpec
CONSTANTS
    Cells = {m, n, o}
    Objects = {a, b, c}
    Dead = Dead
    Nothing = Nothing
    Hollow = Hollow
    Program = Program
    Raw = Raw
    Stale = Stale
    None = None
    Choices = {p, q}
    Lazies = {l, k}
    TypeList <- MCTypeList
    Slots = {0, 1, 2}
    Refs = {r, s}
    Byte = 2
    SizeOfT = 2
    Released = {0}
    Converts = {}
    Chains <- MCChains
    Tries <- MCTries
    MaxAlive = 2
INVARIANTS
    TypeOK
    NeverReleasedTwice
    LiveAreHeld
    HeldApart
    StorageFits
    OneHandler
PROPERTIES
    HandsOver
SYMMETRY MCSymmetry
CHECK_DEADLOCK FALSE
