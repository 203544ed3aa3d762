\* A read may get the method only: three, four or seven characters.
SPECIFICATION HttpSpec
CONSTANTS
    Asks <- SomeAsks
    Replies <- SomeReplies
    Reads = {1}
    MaxAsked = 2
    MaxTimers = 4
INVARIANT RequestsWait
CHECK_DEADLOCK FALSE
