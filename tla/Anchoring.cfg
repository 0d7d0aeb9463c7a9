\* One subject with imported key material and one without, both reconcilers.
SPECIFICATION Spec
CONSTANTS
    Subjects  = {s1, s2}
    Imported  = {s1}
    Sweepers  = {cron}
    Boot      = boot
    NoProof   = NoProof
    MaxFaults = 1
INVARIANTS
    TypeOK
    TreeCoversErasure
    NeverOverclaims
    RecordedIsAnchored
