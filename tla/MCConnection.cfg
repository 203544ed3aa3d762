\* Two messages of three bytes through a socket that takes two: full and partial
\* sends, and a full socket; one other thread writes; the peer sends one message.
SPECIFICATION Spec
CONSTANTS
    Msgs = {m1, m2}
    MsgLen = 3
    Room = 2
    MaxIn = 1
    Callers = {c1}
    ClientMode = FALSE
    Calls <- SessionCalls
    Nobody = Nobody
INVARIANTS BytesInOrder OneGoodbye AfterWriteSends
PROPERTY UsesOpenSocket
CHECK_DEADLOCK FALSE
