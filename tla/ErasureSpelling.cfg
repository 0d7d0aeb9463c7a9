\* An erasure requested under the upper-case spelling of the UUID.
SPECIFICATION Spec
CONSTANTS
    Subjects  = {s1, s2}
    Erasers   = {e1, e2}
    Ingesters = {i1, i2}
    NoKey     = NoKey
    MaxRetries = 1
SYMMETRY Symmetry
INVARIANT SubjectHashIsOfTheUUID
CHECK_DEADLOCK FALSE
