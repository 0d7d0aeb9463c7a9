\* Two subjects; two erasures and two ingests that may hit the same subject.
SPECIFICATION Spec
CONSTANTS
    Subjects  = {s1, s2}
    Erasers   = {e1, e2}
    Ingesters = {i1, i2}
    NoKey     = NoKey
    MaxRetries = 1
SYMMETRY Symmetry
INVARIANTS
    TypeOK
    ChainIntact
    LogMatchesRecords
    WholeOrNoise
    AadPrecedesErasure
    RefusalsEraseNothing
PROPERTY
    ImplementsErasureSpec
\* A run of finitely many requests ends when all are answered.
CHECK_DEADLOCK FALSE
