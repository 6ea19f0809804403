SPECIFICATION FairSpec
CONSTANTS
    MaxVersion = 2
    PagesOf <- MCTwoPages
    ChanCap = 1
    MaxErrors = 1
    Faults = {"copy", "lost", "apply", "verify", "drift", "kill"}
INVARIANT EveryCycleRecorded
PROPERTY AnnouncedIsLive
PROPERTY CycleEnds
