SPECIFICATION Spec
CONSTANTS
    IdModulus = 4
    WordModulus = 8
    Documents <- SomeDocuments
INVARIANT HeaderChecked
CHECK_DEADLOCK FALSE
