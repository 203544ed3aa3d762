\* The client's side: the socket may be polled before it is connected.
SPECIFICATION Spec
CONSTANTS
    Msgs = {m1, m2}
    MsgLen = 2
    Room = 1
    MaxIn = 1
    Callers = {c1}
    ClientMode = TRUE
    Calls <- ClientCalls
    Nobody = Nobody
INVARIANT ClientSound
CHECK_DEADLOCK FALSE
