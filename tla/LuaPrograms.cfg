SPECIFICATION Spec
CONSTANTS
    MaxIndexRK = 3
    MaxStack = 30
    FieldsPerFlush = 3
    MaxCCalls = 16
    MaxCalls = 40
    BasicCI = 8
    MaxCStack = 8000
    MaxTagLoop = 3
    MaxCaptures = 4
    HashOf <- Hash
    MatchOf <- Match
    ExpandOf <- Expand
    Collation <- Strings
    Chunks <- MCChunks
INVARIANTS
    CodeMeansProgram
    CodeVerifies
    UpvaluesLive
    AbsenceTrue
    TablesSound
    CallsNest
PROPERTIES
    DeadStaysDead
    Terminates
