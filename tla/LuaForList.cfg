SPECIFICATION Spec
CONSTANTS
    MaxIndexRK = 3
    MaxStack = 30
    FieldsPerFlush = 3
    MaxCCalls = 8
    MaxCalls = 20
    BasicCI = 8
    MaxCStack = 8000
    MaxTagLoop = 3
    MaxCaptures = 4
    HashOf <- Hash
    MatchOf <- Match
    ExpandOf <- Expand
    Collation <- Strings
    Chunks <- MCForList
INVARIANT
    AssertionsHold
