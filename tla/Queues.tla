------------------------------- MODULE Queues -------------------------------
(***************************************************************************)
(* The task queues of src/util: DispatchQueue, whose own thread runs one   *)
(* task after another, and LoopQueue, whose tasks are run by whoever calls *)
(* runOnce.  Each step of a thread is one critical section or one task.    *)
(***************************************************************************)
EXTENDS Naturals, Sequences, SequencesExt

CONSTANTS
    Jobs,              \* tasks, each dispatched once
    FollowUps          \* tasks that are dispatched by another one while it runs: a
                       \* function from them to it

ASSUME QueuesAssumption ==
    DOMAIN FollowUps \subseteq Jobs /\ \A j \in DOMAIN FollowUps : FollowUps[j] \in Jobs

VARIABLES
    dq,                \* the dispatch queue: its members, and its thread's place
    lq,                \* the loop queue: its member, and what runOnce took
    given,             \* history: the tasks given to each, in order
    ran                \* history: the tasks each began, in order

queuesVars == <<dq, lq, given, ran>>

Queue == {"dispatch", "loop"}
NotGiven(q, j) == ~Contains(given[q], j)

\* a task may be given to a queue by any thread, or, if another's, while that runs
MayGive(q, j, running) ==
    /\ NotGiven(q, j)
    /\ j \in DOMAIN FollowUps => FollowUps[j] = running

Gives(q, j) == given' = [given EXCEPT ![q] = Append(@, j)]
Runs(q, j) == ran' = [ran EXCEPT ![q] = Append(@, j)]

-----------------------------------------------------------------------------
(* DispatchQueue                                                           *)

\* dispatch: under the mutex; the notification comes after it, and a waiting thread
\* looks every ten milliseconds anyway
DispatchTask ==
    /\ \E j \in Jobs : /\ MayGive("dispatch", j, dq.task) /\ Gives("dispatch", j)
                       /\ dq' = [dq EXCEPT !.tasks = Append(@, j)]
    /\ UNCHANGED <<lq, ran>>

\* stop, up to the join
StopQueue ==
    /\ ~dq._stop
    /\ dq' = [dq EXCEPT !._stop = TRUE]
    /\ UNCHANGED <<lq, given, ran>>

\* join returns
StopReturns ==
    /\ dq._stop /\ dq.at = "ended" /\ ~dq.joined
    /\ dq' = [dq EXCEPT !.joined = TRUE]
    /\ UNCHANGED <<lq, given, ran>>

\* the head of runloop's while
LoopHead ==
    /\ dq.at = "head"
    /\ dq' = [dq EXCEPT !.at = IF dq._stop THEN "ended" ELSE "waiting"]
    /\ UNCHANGED <<lq, given, ran>>

\* mutant of LoopWakes: _stop is not looked at when there are no tasks
LoopWakesSleeps ==
    /\ dq.at = "waiting" /\ dq.tasks # <<>>
    /\ IF dq._stop THEN dq' = [dq EXCEPT !.at = "ended"] /\ UNCHANGED ran
       ELSE /\ dq' = [dq EXCEPT !.at = "running", !.task = Head(dq.tasks), !.tasks = Tail(@)]
            /\ Runs("dispatch", Head(dq.tasks))
    /\ UNCHANGED <<lq, given>>

\* wait_for has returned, with a task or without: the rest of the critical section
LoopWakes ==
    /\ dq.at = "waiting"
    /\ IF dq._stop THEN dq' = [dq EXCEPT !.at = "ended"] /\ UNCHANGED ran
       ELSE IF dq.tasks = <<>> THEN dq' = [dq EXCEPT !.at = "head"] /\ UNCHANGED ran
       ELSE /\ dq' = [dq EXCEPT !.at = "running", !.task = Head(dq.tasks), !.tasks = Tail(@)]
            /\ Runs("dispatch", Head(dq.tasks))
    /\ UNCHANGED <<lq, given>>

TaskEnds ==
    /\ dq.at = "running"
    /\ dq' = [dq EXCEPT !.at = "head", !.task = "none"]
    /\ UNCHANGED <<lq, given, ran>>

-----------------------------------------------------------------------------
(* LoopQueue: `batch' is what runOnce took and has still to run.           *)

Aync ==
    /\ \E j \in Jobs : /\ MayGive("loop", j, lq.task) /\ Gives("loop", j)
                       /\ lq' = [lq EXCEPT !.tasks = Append(@, j)]
    /\ UNCHANGED <<dq, ran>>

\* runOnce empties the queue under the mutex, and runs what it took without it
RunOnce ==
    /\ lq.batch = <<>> /\ lq.task = "none" /\ lq.tasks # <<>>
    /\ lq' = [lq EXCEPT !.batch = lq.tasks, !.tasks = <<>>, !.seen = Len(given["loop"])]
    /\ UNCHANGED <<dq, given, ran>>

RunOnceTask ==
    /\ lq.batch # <<>> /\ lq.task = "none"
    /\ lq' = [lq EXCEPT !.batch = Tail(@), !.task = Head(lq.batch)]
    /\ Runs("loop", Head(lq.batch))
    /\ UNCHANGED <<dq, given>>

RunOnceTaskEnds ==
    /\ lq.task # "none"
    /\ lq' = [lq EXCEPT !.task = "none"]
    /\ UNCHANGED <<dq, given, ran>>

-----------------------------------------------------------------------------
QueuesInit ==
    /\ dq = [tasks |-> <<>>, _stop |-> FALSE, at |-> "head", task |-> "none", joined |-> FALSE]
    /\ lq = [tasks |-> <<>>, batch |-> <<>>, task |-> "none", seen |-> 0]
    /\ given = [q \in Queue |-> <<>>] /\ ran = [q \in Queue |-> <<>>]

QueueThread == LoopHead \/ LoopWakes \/ TaskEnds
Runner == RunOnce \/ RunOnceTask \/ RunOnceTaskEnds
QueuesNext == DispatchTask \/ StopQueue \/ StopReturns \/ QueueThread \/ Aync \/ Runner

\* The queue's thread and the one that calls stop go on; so does the caller of
\* runOnce, again and again.
QueuesFairness == WF_queuesVars(QueueThread) /\ WF_queuesVars(StopReturns) /\ WF_queuesVars(Runner)

QueuesSpec == QueuesInit /\ [][QueuesNext]_queuesVars /\ QueuesFairness

\* Tasks begin in the order they were given in, each once, and a task that another
\* one gives to a loop queue waits for the next round: a round runs what was there
\* when it began.
QueuesInOrder ==
    /\ \A q \in Queue : IsPrefix(ran[q], given[q])
    /\ lq.task # "none" => Len(ran["loop"]) <= lq.seen

\* Every task that is given is run some time, unless the queue is stopped first, and
\* stopping a queue returns, although nobody notifies its thread then.
QueuesGoOn ==
    /\ \A j \in Jobs : Contains(given["dispatch"], j) ~> Contains(ran["dispatch"], j) \/ dq._stop
    /\ \A j \in Jobs : Contains(given["loop"], j) ~> Contains(ran["loop"], j)
    /\ dq._stop ~> dq.joined

\* Both queues run what they are given: once, in order, and some time.
QueuesServe == []QueuesInOrder /\ QueuesGoOn

=============================================================================
