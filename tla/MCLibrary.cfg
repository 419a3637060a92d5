SPECIFICATION Spec
CONSTANTS
    Buffers = {b1, b2}
    MaxBytes = 4
    MaxChunks = 3
    Strs = {s1, s2, s3, s4}
    Shared = {d1, d2}
    Width = 2
    NoBuffer = NoBuffer
    NoStr = NoStr
    MaxLost = 1
    BLOCK_SIZE = 3
    MaxZipped = 7
    MaxPiece = 4
    NoBlock = NoBlock
    Symbols <- SomeSymbols
    MaxText <- SomeLengths
    nullstr = nullstr
    IntBits = 10
    LowerOf <- Lowered
    UpperOf <- Uppered
    Space <- Spaces
    SchemeChars <- Scheming
    UsesRelative <- Schemes
    UsesNetloc <- Schemes
    MaxPort = 400
    Order <- Ordered
    LegalChars <- Legal
    PatternChars <- Matching
    OctalOf <- Octals
    Date = "date"
    Reserved <- Attributes
    BlockSize = 4
    CountSize = 2
    CountBits = 3
INVARIANTS
    SizeIsTotal
    MergeMakesPrefix
    CountIsExact
    GZipDelivers
    SplitsAgree
    FormatFits
    UrlsKeepTheirParts
    RequestsAreRead
    CookiesAreKept
    BytesAreKept
    DigestsAgree
PROPERTIES
    ConsumeIsExact
    ImplementsByteQueue
CHECK_DEADLOCK FALSE
