SPECIFICATION Spec
INVARIANT TypeOK
INVARIANT FailureStays
PROPERTY SameAnswer
