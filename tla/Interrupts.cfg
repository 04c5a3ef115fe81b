SPECIFICATION Spec
CONSTANTS
  Reg = {"x0", "x1", "x19"}
  Kept = {"x19"}
  Val = {0, 1}
  Places = 2
  Frequency = 2000
  MaxTime = 5
INVARIANTS
  TicksCountTime
  AllEnded
PROPERTIES
  HandlersAreInvisible
  HaltIsFinal
  TicksAreServed
