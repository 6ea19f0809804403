SPECIFICATION CrashSpec
CONSTANTS
    MaxVersion = 2
    PagesOf <- MCTwoPages
    ChanCap = 1
    MaxErrors = 1
    Faults = {"copy", "apply", "verify", "mark", "note"}
PROPERTY AnnouncedIsLive
