SPECIFICATION Spec
CONSTANTS
  MaxKeys = 1
  MaxFailures = 1
INVARIANT RenewOnlyWhenDue
