SPECIFICATION Spec
CONSTANTS
    Threads = {0, 1}
    MaxCalls = 3
INVARIANT AssertionsHold
