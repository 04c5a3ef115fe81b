SPECIFICATION Spec
CONSTANT
  Addresses <- MCAddresses
INVARIANTS
  ReadsBack
  HardwareAgrees
