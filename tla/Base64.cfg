SPECIFICATION FairSpec
CONSTANTS
    Bytes <- SampleBytes
    Sextets <- SampleSextets
    Pad = Pad
    Invalid = Invalid
    NoData = NoData
    MaxBytes = 4
    MaxChars = 5
INVARIANTS TypeOK BitsConserved EncodedRight DecodedRight ThrowsExactly DataSurvives
PROPERTY Terminates
CHECK_DEADLOCK FALSE
