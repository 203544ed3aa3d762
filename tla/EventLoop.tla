----------------------------- MODULE EventLoop -----------------------------
(***************************************************************************)
(* EventThread's task queue, its wake-up pipe (PipeWrap) and its loop.     *)
(*                                                                         *)
(* dispatch() pushes a closure under _taskMutex and then, outside the      *)
(* mutex, writes one byte to a non-blocking pipe whose read end the loop   *)
(* polls.  The loop drains the pipe, swaps the queue out under the mutex   *)
(* and runs what it took.  A push, a write, a read and a swap are separate *)
(* steps here, so that callers interleave with the loop between any two.   *)
(***************************************************************************)
EXTENDS Naturals, Sequences, FiniteSets

CONSTANTS
    Callers,         \* threads other than the loop that call dispatch
    LoopThread,      \* the loop's own thread, which may call it too
    Tasks,           \* closures, each dispatched at most once
    PipeCap,         \* bytes the pipe holds before write says EAGAIN
    ReadSize,        \* bytes one read takes at most (sizeof(buf) in onPipeEvent)
    MaxFailures      \* bound on the pipe failures the environment causes

ASSUME ThreadsAssumption == LoopThread \notin Callers
ASSUME PipeAssumption == PipeCap \in Nat \ {0} /\ ReadSize \in Nat \ {0}
ASSUME FailuresAssumption == MaxFailures \in Nat

Threads == Callers \cup {LoopThread}

VARIABLES
    taskQueue,       \* _taskQueue, guarded by _taskMutex
    tmp,             \* onPipeEvent's local list, what is left of it to run
    pipeBytes,       \* bytes in the pipe
    pipeState,       \* "open"; "broken" (read says 0 or an error); "closed"
    polled,          \* the pipe's read end is in _event_map and in the epoll set
    batch,           \* events epoll_wait returned that are still to be handled
    boot,            \* how far the constructor got: "created", "mapped", "ready"
    loopPc,          \* where the loop thread is
    threadPc,        \* [Threads -> {"idle", "wake"}]: between push and pipe write
    threadCancel,    \* _threadCancel
    fresh,           \* history: tasks nobody dispatched yet
    executed,        \* history: tasks run, in order
    failures         \* history: pipe failures so far, for the bound

vars == <<taskQueue, tmp, pipeBytes, pipeState, polled, batch, boot, loopPc,
          threadPc, threadCancel, fresh, executed, failures>>

queueVars == <<taskQueue, tmp, fresh, executed>>
pipeVars == <<pipeBytes, pipeState, polled, failures>>
ctlVars == <<batch, boot, threadPc, threadCancel>>

Sources == {"pipe", "other"}     \* what epoll reports: the pipe, or any other fd

\* where the loop thread runs callbacks of its users: timers, fd handlers, tasks
UserCode == {"timers", "handler", "task"}

LoopPcs == {"top", "wait", "events", "drain", "reopen", "swap", "run", "exited"}
               \cup UserCode

TypeOK ==
    /\ taskQueue \in Seq(Tasks)
    /\ tmp \in Seq(Tasks)
    /\ pipeBytes \in 0..PipeCap
    /\ pipeState \in {"open", "broken", "closed"}
    /\ polled \in BOOLEAN
    /\ batch \in SUBSET Sources
    /\ boot \in {"created", "mapped", "ready"}
    /\ loopPc \in LoopPcs
    /\ threadPc \in [Threads -> {"idle", "wake"}]
    /\ threadCancel \in BOOLEAN
    /\ fresh \in SUBSET Tasks
    /\ executed \in Seq(Tasks)
    /\ failures \in 0..MaxFailures

\* The constructor has started the thread and not touched the pipe yet.
Init ==
    /\ taskQueue = <<>>
    /\ tmp = <<>>
    /\ pipeBytes = 0
    /\ pipeState = "open"
    /\ polled = FALSE
    /\ batch = {}
    /\ boot = "created"
    /\ loopPc = "top"
    /\ threadPc = [c \in Threads |-> "idle"]
    /\ threadCancel = FALSE
    /\ fresh = Tasks
    /\ executed = <<>>
    /\ failures = 0

-----------------------------------------------------------------------------
(* The constructor: the new thread already loops while addPipeEvent first  *)
(* puts the pipe in _event_map and then in the epoll set.                  *)

MapPipe ==
    /\ boot = "created"
    /\ boot' = "mapped"
    /\ UNCHANGED <<queueVars, pipeVars, loopPc, batch, threadPc, threadCancel>>

RegisterPipe ==
    /\ boot = "mapped"
    /\ boot' = "ready"
    /\ polled' = TRUE
    /\ UNCHANGED <<queueVars, pipeBytes, pipeState, failures, loopPc, batch,
                   threadPc, threadCancel>>

-----------------------------------------------------------------------------
(* dispatch(task, insertFront, tryNoQueue).                                *)

\* c may call dispatch: the loop thread only from a callback, anybody else
\* from the return of the constructor until the loop has gone
MayDispatch(c) ==
    /\ boot = "ready"
    /\ threadPc[c] = "idle"
    /\ IF c = LoopThread THEN loopPc \in UserCode ELSE loopPc # "exited"

Push(c, t, front) ==
    /\ MayDispatch(c)
    /\ t \in fresh
    /\ fresh' = fresh \ {t}
    /\ taskQueue' = IF front THEN <<t>> \o taskQueue ELSE Append(taskQueue, t)
    /\ threadPc' = [threadPc EXCEPT ![c] = "wake"]
    /\ UNCHANGED <<tmp, executed, pipeVars, batch, boot, loopPc, threadCancel>>

\* mutant of Wake: the pipe has no limit
WakeUnbounded(c) ==
    /\ threadPc[c] = "wake"
    /\ threadPc' = [threadPc EXCEPT ![c] = "idle"]
    /\ pipeBytes' = pipeBytes + 1
    /\ UNCHANGED <<queueVars, pipeState, polled, failures, batch, boot, loopPc,
                   threadCancel>>

\* _pipe.write("", 1): a full pipe (EAGAIN) or a dead one loses the byte
Wake(c) ==
    /\ threadPc[c] = "wake"
    /\ threadPc' = [threadPc EXCEPT ![c] = "idle"]
    /\ pipeBytes' = IF pipeState = "open" /\ pipeBytes < PipeCap
                    THEN pipeBytes + 1 ELSE pipeBytes
    /\ UNCHANGED <<queueVars, pipeState, polled, failures, batch, boot, loopPc,
                   threadCancel>>

\* tryNoQueue on the loop's thread: the task runs inside its caller
RunInline(t) ==
    /\ MayDispatch(LoopThread)
    /\ t \in fresh
    /\ fresh' = fresh \ {t}
    /\ executed' = Append(executed, t)
    /\ UNCHANGED <<taskQueue, tmp, pipeVars, ctlVars, loopPc>>

-----------------------------------------------------------------------------
(* runloop and loopOnce.  The loop goes on only when the callback it is in *)
(* is not itself inside dispatch.                                          *)

Readable == polled /\ (pipeBytes > 0 \/ pipeState = "broken")

At(pc) == loopPc = pc /\ threadPc[LoopThread] = "idle"

\* while (!_threadCancel): an empty _event_map sleeps and tries again
LoopTop ==
    /\ At("top")
    /\ loopPc' = IF threadCancel THEN "exited"
                 ELSE IF boot = "created" THEN "top" ELSE "timers"
    /\ UNCHANGED <<queueVars, pipeVars, ctlVars>>

TimersDone ==
    /\ At("timers")
    /\ loopPc' = "wait"
    /\ UNCHANGED <<queueVars, pipeVars, ctlVars>>

\* mutant of EpollWait: no timeout, so the loop sleeps until some fd is ready
EpollWaitForever(evs) ==
    /\ At("wait")
    /\ "pipe" \in evs => Readable
    /\ evs # {}
    /\ batch' = evs
    /\ loopPc' = "events"
    /\ UNCHANGED <<queueVars, pipeVars, boot, threadPc, threadCancel>>

\* epoll_wait returns some of the ready fds (at most 10), or nothing at its
\* timeout when none is ready
EpollWait(evs) ==
    /\ At("wait")
    /\ "pipe" \in evs => Readable
    /\ evs = {} => ~Readable
    /\ batch' = evs
    /\ loopPc' = "events"
    /\ UNCHANGED <<queueVars, pipeVars, boot, threadPc, threadCancel>>

NextEvent(ev) ==
    /\ At("events")
    /\ ev \in batch
    /\ batch' = batch \ {ev}
    /\ loopPc' = IF ev = "pipe" THEN "drain" ELSE "handler"
    /\ UNCHANGED <<queueVars, pipeVars, boot, threadPc, threadCancel>>

BatchDone ==
    /\ At("events")
    /\ batch = {}
    /\ loopPc' = "top"
    /\ UNCHANGED <<queueVars, pipeVars, ctlVars>>

HandlerDone ==
    /\ At("handler")
    /\ loopPc' = "events"
    /\ UNCHANGED <<queueVars, pipeVars, ctlVars>>

-----------------------------------------------------------------------------
(* onPipeEvent.                                                            *)

\* read() returned data: read again
DrainSome ==
    /\ At("drain")
    /\ pipeBytes > 0
    /\ pipeBytes' = IF pipeBytes > ReadSize THEN pipeBytes - ReadSize ELSE 0
    /\ UNCHANGED <<queueVars, pipeState, polled, failures, ctlVars, loopPc>>

\* read() says EAGAIN
DrainEmpty ==
    /\ At("drain")
    /\ pipeBytes = 0
    /\ pipeState = "open"
    /\ loopPc' = "swap"
    /\ UNCHANGED <<queueVars, pipeVars, ctlVars>>

\* read() says 0 or another error: removeEvents, and reOpen closes both ends
DrainBroken ==
    /\ At("drain")
    /\ pipeBytes = 0
    /\ pipeState = "broken"
    /\ pipeState' = "closed"
    /\ polled' = FALSE
    /\ loopPc' = "reopen"
    /\ UNCHANGED <<queueVars, pipeBytes, failures, ctlVars>>

\* mutant of Reopen: addPipeEvent forgotten
ReopenUnpolled ==
    /\ At("reopen")
    /\ pipeState' = "open"
    /\ loopPc' = "swap"
    /\ UNCHANGED <<queueVars, pipeBytes, polled, failures, ctlVars>>

\* pipe() and addPipeEvent
Reopen ==
    /\ At("reopen")
    /\ pipeState' = "open"
    /\ polled' = TRUE
    /\ loopPc' = "swap"
    /\ UNCHANGED <<queueVars, pipeBytes, failures, ctlVars>>

\* mutant of SwapQueue: the queue is copied, not swapped
CopyQueue ==
    /\ At("swap")
    /\ tmp' = taskQueue
    /\ loopPc' = "run"
    /\ UNCHANGED <<taskQueue, fresh, executed, pipeVars, ctlVars>>

SwapQueue ==
    /\ At("swap")
    /\ tmp' = taskQueue
    /\ taskQueue' = <<>>
    /\ loopPc' = "run"
    /\ UNCHANGED <<fresh, executed, pipeVars, ctlVars>>

\* mutant of RunTask: the newest first
RunNewest ==
    /\ At("run")
    /\ tmp # <<>>
    /\ executed' = Append(executed, tmp[Len(tmp)])
    /\ tmp' = SubSeq(tmp, 1, Len(tmp) - 1)
    /\ loopPc' = "task"
    /\ UNCHANGED <<taskQueue, fresh, pipeVars, ctlVars>>

\* for (auto& task : tmp) task(): what the task does to the queue is the loop
\* thread's own Push
RunTask ==
    /\ At("run")
    /\ tmp # <<>>
    /\ executed' = Append(executed, Head(tmp))
    /\ tmp' = Tail(tmp)
    /\ loopPc' = "task"
    /\ UNCHANGED <<taskQueue, fresh, pipeVars, ctlVars>>

TaskReturns ==
    /\ At("task")
    /\ loopPc' = "run"
    /\ UNCHANGED <<queueVars, pipeVars, ctlVars>>

TasksDone ==
    /\ At("run")
    /\ tmp = <<>>
    /\ loopPc' = "events"
    /\ UNCHANGED <<queueVars, pipeVars, ctlVars>>

-----------------------------------------------------------------------------
(* The owner and the environment.                                          *)

\* ~EventThread sets the flag and joins; nothing wakes the loop
Cancel ==
    /\ boot = "ready"
    /\ ~threadCancel
    /\ threadCancel' = TRUE
    /\ UNCHANGED <<queueVars, pipeVars, batch, boot, threadPc, loopPc>>

\* the pipe's write end is lost to the process: reads will say 0
PipeFails ==
    /\ pipeState = "open"
    /\ boot = "ready"
    /\ failures < MaxFailures
    /\ failures' = failures + 1
    /\ pipeState' = "broken"
    /\ UNCHANGED <<queueVars, pipeBytes, polled, ctlVars, loopPc>>

-----------------------------------------------------------------------------

Boot == MapPipe \/ RegisterPipe

Dispatch == \E c \in Threads, t \in Tasks, front \in BOOLEAN : Push(c, t, front)

OnPipeEvent ==
    \/ DrainSome \/ DrainEmpty \/ DrainBroken \/ Reopen
    \/ SwapQueue \/ RunTask \/ TaskReturns \/ TasksDone

\* the steps the loop takes by itself, without an event on a user's fd
LoopTurn ==
    \/ LoopTop \/ TimersDone \/ BatchDone \/ HandlerDone
    \/ \E evs \in SUBSET {"pipe"} : EpollWait(evs)
    \/ \E ev \in Sources : NextEvent(ev)
    \/ OnPipeEvent

LoopStep ==
    \/ LoopTurn
    \/ \E evs \in SUBSET Sources : EpollWait(evs)

Next ==
    \/ Boot
    \/ Dispatch
    \/ \E c \in Threads : Wake(c)
    \/ \E t \in Tasks : RunInline(t)
    \/ LoopStep
    \/ Cancel
    \/ PipeFails

\* Threads are scheduled, epoll_wait times out when nothing is ready, and epoll
\* serves a ready fd that it keeps leaving out of its batches of ten: its ready
\* list is a queue.  Nothing is assumed of callers, of users' fds, of the owner.
Fairness ==
    /\ WF_vars(Boot)
    /\ \A c \in Threads : WF_vars(Wake(c))
    /\ WF_vars(LoopTurn)
    /\ SF_vars(\E evs \in SUBSET Sources : "pipe" \in evs /\ EpollWait(evs))

Safety == Init /\ [][Next]_vars
Spec == Safety /\ Fairness

-----------------------------------------------------------------------------
(* Properties.                                                             *)

\* The loop is between noticing the pipe and taking the queue.
AboutToSwap == loopPc \in {"drain", "reopen", "swap"}

\* No lost wake-up: whenever a task waits in the queue, the byte that will
\* bring the loop to it is in the pipe and polled, or is about to be written,
\* or the loop is on its way to the swap.  A full pipe dropping a byte, a
\* push racing the swap, and a pipe replaced under the writers are all cases.
NoLostWakeup ==
    taskQueue # <<>> =>
        \/ Readable
        \/ \E c \in Threads : threadPc[c] = "wake"
        \/ AboutToSwap

\* Every dispatched task is in exactly one place: run, in the list the loop
\* took, or still queued; no interleaving of pushes and swaps, from either end
\* of the queue, loses or repeats one.
Everything == executed \o tmp \o taskQueue

Injective(s) == \A i, j \in DOMAIN s : s[i] = s[j] => i = j

ElementsOf(s) == {s[i] : i \in DOMAIN s}

ExactlyOnce == Injective(Everything) /\ ElementsOf(Everything) = Tasks \ fresh

\* The inductive invariant behind NoLostWakeup: the pipe is polled from the end
\* of the constructor on, except while the loop itself replaces it, and nobody
\* queues or writes before that.
PipeRegistered ==
    /\ boot # "ready" => taskQueue = <<>> /\ pipeState = "open"
    /\ boot = "ready" => (polled <=> pipeState # "closed")
    /\ pipeState = "closed" => loopPc = "reopen"

\* The inductive invariant behind ExactlyOnce and the refinement: the swap
\* finds onPipeEvent's list empty.
BatchRunsOut == tmp # <<>> => loopPc \in {"run", "task"}

\* What has been taken runs before what has not.
Promise == INSTANCE TaskService
               WITH pending <- tmp \o taskQueue,
                    stopped <- loopPc = "exited"

\* The loop with its pipe implements the abstract service: FIFO order, no loss,
\* no repetition, and every task runs unless the loop is cancelled first.
ImplementsTaskService == Promise!ASpec

\* ~EventThread's join returns: the loop notices the flag although nothing
\* wakes it, because epoll_wait always has a timeout.
JoinReturns == threadCancel ~> loopPc = "exited"

=============================================================================
