\* Two callers and the loop itself dispatch three tasks through a pipe that two bytes
\* fill and that breaks once.  The queues: three tasks, one of them from another.
SPECIFICATION LoopsSpec
CONSTANTS
    Callers = {c1, c2}
    LoopThread = loop
    Tasks = {t1, t2, t3}
    PipeCap = 2
    ReadSize = 1
    MaxFailures = 1
    Jobs = {"i", "j", "k"}
    FollowUps <- OneFollows
INVARIANTS TypeOK NoLostWakeup ExactlyOnce
PROPERTIES ImplementsTaskService JoinReturns QueuesServe
CHECK_DEADLOCK FALSE
