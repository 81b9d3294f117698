SPECIFICATION FairSpec
CONSTANTS
    Rec = {r1, r2}
    MaxJobs = 1
INVARIANTS JobsAccounted ReadyShowsAll FailureHidesNothing WorkDirsOwned
PROPERTIES JobsEnd
