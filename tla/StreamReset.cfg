\* A console is reset while its stream goes on.
SPECIFICATION Spec
CONSTANTS
    Pages     = {p1, p2}
    MaxSubs   = 2
    Buffer    = 2
    Nobody    = Nobody
    MaxLog    = 2
    MaxFaults = 0
    MaxResets = 1
INVARIANT LiveShowsHistory
