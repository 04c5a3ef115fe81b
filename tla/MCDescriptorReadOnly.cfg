SPECIFICATION Spec
CONSTANT
  Addresses <- MCAddresses
INVARIANT
  PermissionsAsDocumented
