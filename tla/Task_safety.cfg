SPECIFICATION FairSpec
CONSTANTS
    Threads = {0, 1}
    MaxCalls = 4
INVARIANTS OneRunner ListsAgree ScheduledIsListed HandledByOwner
PROPERTIES ScheduledRuns
