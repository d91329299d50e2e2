SPECIFICATION ReadingSpec
CONSTANTS
    MaxHeaderBytes = 7
    MaxBodyBytes = 3
    MaxHeaderCount = 2
    Chunk = 3
    Endless = Endless
    Base = 3
    SizeMax = 7
    Letter = Letter
    Streams <- MCStreams
    Aliases <- MCAliases
    WebRoot <- MCWebRoot
    Tree <- MCTree
    Characters <- MCCharacters
    CodeUnits <- MCCodeUnits
    MaxFields = 2
    MaxString = 1
    MaxSpaces = 1
    Null = Null
    BadDigits = BadDigits
INVARIANTS ReturnedWhole SegmentsDoNotMatter FieldsAsWritten
PROPERTY ReadEnds
CHECK_DEADLOCK FALSE
