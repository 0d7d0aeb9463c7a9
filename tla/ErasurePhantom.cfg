\* A failed transaction whose closure ran to its end is answered as an erasure.
SPECIFICATION Spec
CONSTANTS
    Subjects  = {s1, s2}
    Erasers   = {e1, e2}
    Ingesters = {i1, i2}
    NoKey     = NoKey
    MaxRetries = 1
SYMMETRY Symmetry
INVARIANT SuccessMeansErased
CHECK_DEADLOCK FALSE
