SPECIFICATION FairSpecQueue
CONSTANTS
    capacity = 2
    SLEEPINESS_TRIGGER = 1
    burst = 2
    Packets = 5
INVARIANTS TypeOKQueue SlotsApart InOrder NotesRight NoLostWakeup
PROPERTIES QueueDrains
CHECK_DEADLOCK FALSE
