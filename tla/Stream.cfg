\* Two pages, channels of one row, every loss.
SPECIFICATION Spec
CONSTANTS
    Pages     = {p1, p2}
    MaxSubs   = 2
    Buffer    = 1
    Nobody    = Nobody
    MaxLog    = 2
    MaxFaults = 1
    MaxResets = 1
SYMMETRY Symmetry
INVARIANTS
    TypeOK
    NothingElseMissed
    SlotsAreHeld
