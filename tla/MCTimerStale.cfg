\* An off-loop delTimer whose timer expires before the closure that deletes it
\* runs: the address may be another timer's by then.
SPECIFICATION TimersSpec
CONSTANTS
    Slots = {s1, s2}
    Delays = {1000, 2000}
    Step = 1000
    MaxTime = 2000
    MaxTimers = 3
    MaxTasks = 2
    NoTimer = NoTimer
INVARIANT RearmedIsKept
CHECK_DEADLOCK FALSE
