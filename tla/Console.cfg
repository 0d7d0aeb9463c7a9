\* Two overlapping flows, up to two memories and one fault, as the session.
SPECIFICATION FairSpec
CONSTANTS
    Slots    <- MCSlots
    Sessions <- MCSessions
    MaxPolls  = 1
    None      = None
INVARIANTS
    TypeOK
    ErasureIsShownWhole
    GoneMeansErased
    ActsOnWhatIsShown
    LiveResultIsOurs
    RunningIsUnderWay
PROPERTIES
    FlowsEnd
