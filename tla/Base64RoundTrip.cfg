SPECIFICATION Spec
CONSTANTS
    Bytes <- SampleBytes
    Sextets <- SampleSextets
    Pad = Pad
    Invalid = Invalid
    NoData = NoData
    MaxBytes = 4
    MaxChars = 5
INVARIANT RoundTrip
CHECK_DEADLOCK FALSE
