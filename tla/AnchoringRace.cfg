\* A handler and a sweep anchor the same erasure.
SPECIFICATION Spec
CONSTANTS
    Subjects  = {s1, s2}
    Imported  = {s1}
    Sweepers  = {cron}
    Boot      = boot
    NoProof   = NoProof
    MaxFaults = 1
INVARIANT ServingCopyIsTheAnchor
