\* Two pages and one slot.
SPECIFICATION FairSpec
CONSTANTS
    Pages     = {p1, p2}
    MaxSubs   = 1
    Buffer    = 1
    Nobody    = Nobody
    MaxLog    = 2
    MaxFaults = 1
    MaxResets = 0
INVARIANTS
    SlotsAreHeld
PROPERTIES
    PublishEnds
    RowsArrive
