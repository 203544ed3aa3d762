\* Two threads send while the loop flushes and replies.
SPECIFICATION FairSpec
CONSTANTS
    Msgs = {m1, m2}
    MsgLen = 2
    Capacity = 3
    Room = 1
    Loop = Loop
    Others = {t1, t2}
    Free = Free
    Refused = Refused
    MaxTasks = 4
    Calls <- SendAndReply
PROPERTY EverythingSent
CHECK_DEADLOCK FALSE
