SPECIFICATION ClientSpec
CONSTANTS
    None = None
    IPC = IPC
    Absent = Absent
    Targets <- MCTargets
    Listens = {139, 445}
    Tids = {0, 1}
    Uids = {1}
    Invocations <- MCInvocations
    Matches <- MCMatches
    Domains <- MCDomains
    Names <- MCNames
    Kids <- MCKids
    Specials = {"pipe"}
    MaxLinks = 2
    HardErrors = TRUE
    Second = 2
    Interval = 1
    Limits = {0, 1, 2}
    Deltas = {0, 1, 2}
    Word = 256
    MaxTime = 8
    MaxTotal = 8
    MaxSteps = 1
    Texts <- MCTexts
    OutSizes = {0, 2, 3, 5, 8}
    FileModes <- MCFileModes
    MaxLength = 4
    Block = 2
    MaxCalls = 3
    Kilo = 4
    IntRange = 256
    Arguments <- MCArguments
    Addresses <- MCAddresses
    Escapes <- MCEscapes
    Numbers <- MCNumbers
    MaxBuffer = 65535
    Requests <- MCRequests
INVARIANT
    LimitAsDocumented
CHECK_DEADLOCK FALSE
