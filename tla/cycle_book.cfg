SPECIFICATION Spec
CONSTANTS
    MaxVersion = 3
    PagesOf <- MCPagesOf
    ChanCap = 1
    MaxErrors = 2
    Faults = {"copy", "lost", "apply", "verify", "mark", "note", "kill"}
INVARIANT TypeOK
INVARIANT ToldNotAhead
PROPERTY BookRefined
