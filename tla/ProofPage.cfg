\* Two subjects, a log of up to five rows, two checks, one fault.
SPECIFICATION FairSpec
CONSTANTS
    s1 = s1
    s2 = s2
    Subjects  = {s1, s2}
    Pasted   <- MCPasted
    ErasedAs  = {"lower"}
    k1 = k1
    k2 = k2
    Signers   = {k1}
    Known     = {k1}
    Demo      <- MCDemo
    Elsewhere <- MCElsewhere
    None      = None
    MaxErased = 1
    MaxLog    = 5
    MaxChecks = 2
    MaxFaults = 1
INVARIANTS
    TypeOK
    VerdictIsOfTheRoute
    HonestServerPasses
    TransparencyIsSound
    TrustedFactsWereSigned
PROPERTIES
    DownloadVerifiesOffline
    EveryCheckEnds
\* The reader may stop asking.
CHECK_DEADLOCK FALSE
