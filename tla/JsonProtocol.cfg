SPECIFICATION Spec
CONSTANTS
    IdModulus = 4
    WordModulus = 8
    Documents <- SomeDocuments
INVARIANTS Classified Faithful IdEchoed
CHECK_DEADLOCK FALSE
