\* Nobody closes, the peer stays: what is lost when the send buffer fills up.
SPECIFICATION Spec
CONSTANTS
    Msgs = {m1, m2}
    MsgLen = 2
    Room = 2
    MaxIn = 1
    Callers = {}
    ClientMode = FALSE
    Calls <- WriteCalls
    Nobody = Nobody
INVARIANT KeepsUnsent
CHECK_DEADLOCK FALSE
