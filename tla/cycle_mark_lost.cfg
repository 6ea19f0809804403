SPECIFICATION Spec
CONSTANTS
    MaxVersion = 2
    PagesOf <- MCTwoPages
    ChanCap = 1
    MaxErrors = 2
    Faults = {"mark"}
INVARIANT EveryCycleRecorded
