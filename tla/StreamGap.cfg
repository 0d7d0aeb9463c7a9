\* A row commits between a page's snapshot and the start of a changefeed.
SPECIFICATION Spec
CONSTANTS
    Pages     = {p1, p2}
    MaxSubs   = 2
    Buffer    = 2
    Nobody    = Nobody
    MaxLog    = 2
    MaxFaults = 0
    MaxResets = 0
INVARIANT LiveMeansCurrent
