\* One erasure, four faults, a boot pass and a scheduled sweep.
SPECIFICATION FairSpec
CONSTANTS
    Subjects  = {s1}
    Imported  = {s1}
    Sweepers  = {cron}
    Boot      = boot
    NoProof   = NoProof
    MaxFaults = 4
PROPERTY EveryErasureGetsAProof
