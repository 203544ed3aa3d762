\* Two messages of two bytes, a ring buffer for one and a half, a socket for half
\* of one: partial sends, a full socket, a full ring buffer; two other threads.
SPECIFICATION Spec
CONSTANTS
    Msgs = {m1, m2}
    MsgLen = 2
    Capacity = 3
    Room = 1
    Loop = Loop
    Others = {t1, t2}
    Free = Free
    Refused = Refused
    MaxTasks = 2
    Calls <- AnyThread
INVARIANTS BytesInOrder SendersSafe
CHECK_DEADLOCK FALSE
