SPECIFICATION Spec
CONSTANTS
  Names <- SomeNames
  Offered <- NestedGrants
  Items <- AskedItems
  Ttys <- OneTty
  Missing <- GoneDirectories
  Tokens <- TwoTokens
  MaxShots = 2
  MaxSpent = 2
INVARIANTS TypeOK PrivilegeEarned ShotsExact OpensAsGranted
CHECK_DEADLOCK FALSE
