CONSTANTS
    WordBits = 15
    HalfBits = 8
    Values <- MCValues
    UnknownFields <- MCUnknownFields
    RawTypes <- MCRawTypes
    Alphabet <- MCAlphabet
    MaxLen = 5
SPECIFICATION Spec
CHECK_DEADLOCK FALSE
INVARIANTS RoundTrip SignBytesBind NeverPanics AcceptedIsStable
