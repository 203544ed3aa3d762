---------------------------- MODULE MCEventLoop ----------------------------
(***************************************************************************)
(* The event loop, and the two task queues of src/util, which share no     *)
(* state with it: `part' says which of them runs.                          *)
(***************************************************************************)
EXTENDS EventLoop, Queues

VARIABLE part

allVars == <<part, vars, queuesVars>>

\* a task that another one dispatches while it runs
OneFollows == [j \in {"k"} |-> "i"]

LoopsInit == part \in {"loop", "queues"} /\ Init /\ QueuesInit

LoopPart == part = "loop" /\ Next /\ UNCHANGED <<part, queuesVars>>
QueuesPart == part = "queues" /\ QueuesNext /\ UNCHANGED <<part, vars>>

LoopsNext == LoopPart \/ QueuesPart

\* each part's own fairness, where that part runs
InLoop(A) == part = "loop" /\ A /\ UNCHANGED <<part, queuesVars>>
InQueues(A) == part = "queues" /\ A /\ UNCHANGED <<part, vars>>

LoopsFairness ==
    /\ WF_allVars(InLoop(Boot))
    /\ \A c \in Threads : WF_allVars(InLoop(Wake(c)))
    /\ WF_allVars(InLoop(LoopTurn))
    /\ SF_allVars(\E evs \in SUBSET Sources : "pipe" \in evs /\ InLoop(EpollWait(evs)))
    /\ WF_allVars(InQueues(QueueThread))
    /\ WF_allVars(InQueues(StopReturns))
    /\ WF_allVars(InQueues(Runner))

LoopsSpec == LoopsInit /\ [][LoopsNext]_allVars /\ LoopsFairness

=============================================================================
