\* All writes on the loop, as the sessions of this repository make them.
SPECIFICATION FairSpec
CONSTANTS
    Msgs = {m1, m2}
    MsgLen = 2
    Room = 2
    MaxIn = 2
    Callers = {}
    ClientMode = FALSE
    Calls <- ReplyCalls
    Nobody = Nobody
PROPERTIES EverythingSent ClosedInTheEnd
CHECK_DEADLOCK FALSE
