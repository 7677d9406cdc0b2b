\* Connecting while the loader starts.
SPECIFICATION FairSpec
CONSTANTS
    MaxChanges = 0
    MaxRestarts = 0
    MaxWrites = 0
    Stopping = FALSE
    MaxLosses = 0
PROPERTIES
    ConnectLoads
