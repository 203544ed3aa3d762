---------------------------- MODULE TimerManager ----------------------------
(***************************************************************************)
(* TimerManager's queue of raw Timer pointers, with the two ways           *)
(* EventThread offers to reach it: from the loop's own thread, at once,    *)
(* and from any other thread, through a closure the loop runs later (the   *)
(* closures are TaskService's: first come, first served).                  *)
(*                                                                         *)
(* A timer is an object at a heap address.  Addresses are reused; the      *)
(* model gives every object an id of its own, which the code has not.      *)
(* Clients keep to what C++ demands of them: a timer has one owner, which  *)
(* asks for its deletion at most once, with the address of an object that  *)
(* is alive when it asks.                                                  *)
(***************************************************************************)
EXTENDS Integers, Sequences, FiniteSets

CONSTANTS
    Slots,           \* heap addresses a Timer can have
    Delays,          \* milliseconds clients ask for, and callbacks return
    Step,            \* how far the clock advances at a time
    MaxTime,         \* bound on the clock
    MaxTimers,       \* bound on the timers ever created
    MaxTasks,        \* bound on the closures in flight
    NoTimer          \* no timer's callback is running

ASSUME DelaysAssumption == Delays \subseteq Nat \ {0}
ASSUME ClockAssumption == Step \in Nat \ {0} /\ MaxTime \in Nat
ASSUME TimersAssumption == MaxTimers \in Nat /\ MaxTasks \in Nat
ASSUME SlotsAssumption == NoTimer \notin Slots

VARIABLES
    now,             \* getCurrentMillisecs
    alive,           \* addresses that hold a Timer
    queue,           \* _queue; what is on top is any element of least expire
    expire,          \* Timer::expire
    strong,          \* Timer::_strongTask is not null
    tasks,           \* closures dispatched and not run: <<"add" or "del", slot>>
    loopPc,          \* "user", "pass", "callback", "sleep"
    passNow,         \* processAllTimeout's local now
    firing,          \* the timer processAllTimeout has popped and is calling
    wakeAt,          \* when epoll_wait gives up waiting
    id,              \* history: which object is, or was last, at an address
    births,          \* history: objects created so far
    due,             \* history: the earliest time an object may fire
    asked,           \* history: ids whose owner asked for their deletion
    rearmed,         \* history: ids whose last callback returned a delay
    fired            \* history: ids fired in this pass

timerVars == <<now, alive, queue, expire, strong, tasks, loopPc, passNow, firing,
               wakeAt, id, births, due, asked, rearmed, fired>>

heapVars == <<alive, queue, expire, strong, id, births, due>>
passVars == <<passNow, firing, wakeAt, fired>>
askVars == <<asked, rearmed>>

LoopPcs == {"user", "pass", "callback", "sleep"}

TimersTypeOK ==
    /\ now \in 0..MaxTime
    /\ alive \in SUBSET Slots
    /\ queue \in SUBSET Slots
    /\ expire \in [Slots -> Nat]
    /\ strong \in [Slots -> BOOLEAN]
    /\ tasks \in Seq({"add", "del"} \X Slots)
    /\ loopPc \in LoopPcs
    /\ passNow \in 0..MaxTime
    /\ firing \in Slots \cup {NoTimer}
    /\ wakeAt \in Nat
    /\ id \in [Slots -> 0..MaxTimers]
    /\ births \in 0..MaxTimers
    /\ due \in [Slots -> Nat]
    /\ asked \in SUBSET (0..MaxTimers)
    /\ rearmed \in SUBSET (0..MaxTimers)
    /\ fired \in SUBSET (0..MaxTimers)

TimersInit ==
    /\ now = 0
    /\ alive = {}
    /\ queue = {}
    /\ expire = [s \in Slots |-> 0]
    /\ strong = [s \in Slots |-> FALSE]
    /\ tasks = <<>>
    /\ loopPc = "user"
    /\ passNow = 0
    /\ firing = NoTimer
    /\ wakeAt = 0
    /\ id = [s \in Slots |-> 0]
    /\ births = 0
    /\ due = [s \in Slots |-> 0]
    /\ asked = {}
    /\ rearmed = {}
    /\ fired = {}

\* user code runs on the loop's thread: tasks and fd handlers, and timers
OnLoop == loopPc \in {"user", "callback"}

-----------------------------------------------------------------------------
(* Creating and deleting timers.                                           *)

\* new Timer(e, ...): any free address, an id never used before
NewTimer(s, e, d) ==
    /\ s \in Slots \ alive
    /\ births < MaxTimers
    /\ births' = births + 1
    /\ id' = [id EXCEPT ![s] = births + 1]
    /\ alive' = alive \cup {s}
    /\ expire' = [expire EXCEPT ![s] = e]
    /\ strong' = [strong EXCEPT ![s] = TRUE]
    /\ due' = [due EXCEPT ![s] = d]

\* addTimer on the loop's thread
AddInLoop(s, ms) ==
    /\ OnLoop
    /\ NewTimer(s, now + ms, now + ms)
    /\ queue' = queue \cup {s}
    /\ UNCHANGED <<now, tasks, loopPc, passVars, askVars>>

\* addTimer elsewhere: the object is made at once, its expiry is ms itself and
\* not a time ms from now, and the loop queues it later
AddOffLoop(s, ms) ==
    /\ Len(tasks) < MaxTasks
    /\ NewTimer(s, ms, 0)
    /\ tasks' = Append(tasks, <<"add", s>>)
    /\ UNCHANGED <<now, queue, loopPc, passVars, askVars>>

\* TimerManager::delTimer: rebuild the queue without s; delete s if it was there
RemoveTimer(s) ==
    /\ queue' = queue \ {s}
    /\ alive' = IF s \in queue THEN alive \ {s} ELSE alive

\* s is a live timer whose owner has not asked for its deletion
Owned(s) == s \in alive /\ id[s] \notin asked

\* delTimer on the loop's thread.  The timer may be the one whose callback makes
\* the call, which the queue does not hold.
DelInLoop(s) ==
    /\ OnLoop
    /\ Owned(s)
    /\ RemoveTimer(s)
    /\ asked' = asked \cup {id[s]}
    /\ UNCHANGED <<now, expire, strong, id, births, due, tasks, loopPc, passVars,
                   rearmed>>

\* delTimer elsewhere: cancel() at once, the rest by the loop
DelOffLoop(s) ==
    /\ Len(tasks) < MaxTasks
    /\ Owned(s)
    /\ strong' = [strong EXCEPT ![s] = FALSE]
    /\ tasks' = Append(tasks, <<"del", s>>)
    /\ asked' = asked \cup {id[s]}
    /\ UNCHANGED <<now, alive, queue, expire, id, births, due, loopPc, passVars,
                   rearmed>>

\* the loop runs the oldest closure
RunTask ==
    /\ loopPc = "user"
    /\ tasks # <<>>
    /\ tasks' = Tail(tasks)
    /\ LET op == Head(tasks)[1]
           s == Head(tasks)[2]
       IN  \/ op = "add" /\ queue' = queue \cup {s} /\ UNCHANGED alive
           \/ op = "del" /\ RemoveTimer(s)
    /\ UNCHANGED <<now, expire, strong, id, births, due, loopPc, passVars, askVars>>

-----------------------------------------------------------------------------
(* processAllTimeout and the wait that follows it.                         *)

Top(s) == s \in queue /\ \A r \in queue : expire[s] <= expire[r]

StartPass ==
    /\ loopPc = "user"
    /\ passNow' = now
    /\ fired' = {}
    /\ loopPc' = "pass"
    /\ UNCHANGED <<now, heapVars, tasks, firing, wakeAt, askVars>>

\* active(): a cancelled timer has nothing to call, says 0 and is deleted
PopDue(s) ==
    /\ loopPc = "pass"
    /\ Top(s)
    /\ expire[s] <= passNow
    /\ queue' = queue \ {s}
    /\ IF strong[s]
       THEN /\ firing' = s
            /\ loopPc' = "callback"
            /\ UNCHANGED <<alive, fired>>
       ELSE /\ alive' = alive \ {s}
            /\ fired' = fired \cup {id[s]}
            /\ UNCHANGED <<firing, loopPc>>
    /\ UNCHANGED <<now, expire, strong, id, births, due, tasks, passNow, wakeAt,
                   askVars>>

\* the callback returned ms > 0: the timer goes back, counted from the time the
\* pass began
Rearm(ms) ==
    /\ loopPc = "callback"
    /\ loopPc' = "pass"
    /\ expire' = [expire EXCEPT ![firing] = passNow + ms]
    /\ queue' = queue \cup {firing}
    /\ due' = [due EXCEPT ![firing] = passNow + ms]
    /\ rearmed' = rearmed \cup {id[firing]}
    /\ fired' = fired \cup {id[firing]}
    /\ firing' = NoTimer
    /\ UNCHANGED <<now, alive, strong, id, births, tasks, passNow, wakeAt, asked>>

\* mutant of Expired: a one-shot timer is not deleted
ExpiredLeaks ==
    /\ loopPc = "callback"
    /\ loopPc' = "pass"
    /\ rearmed' = rearmed \ {id[firing]}
    /\ fired' = fired \cup {id[firing]}
    /\ firing' = NoTimer
    /\ UNCHANGED <<now, alive, queue, expire, strong, id, births, due, tasks,
                   passNow, wakeAt, asked>>

\* the callback returned 0 (or less)
Expired ==
    /\ loopPc = "callback"
    /\ loopPc' = "pass"
    /\ alive' = alive \ {firing}
    /\ rearmed' = rearmed \ {id[firing]}
    /\ fired' = fired \cup {id[firing]}
    /\ firing' = NoTimer
    /\ UNCHANGED <<now, queue, expire, strong, id, births, due, tasks, passNow,
                   wakeAt, asked>>

\* mutant of NextDelay: 0 is returned once something has fired
NextDelayForgets(s) == IF fired = {} THEN expire[s] - passNow ELSE 0

\* what processAllTimeout returns, s being on top and not due
NextDelay(s) == expire[s] - passNow

\* loopOnce: nextDelay ? nextDelay / 1000 : 10000
PollTimeout(nextDelay) == IF nextDelay # 0 THEN nextDelay \div 1000 ELSE 10000

PassEnds ==
    /\ loopPc = "pass"
    /\ loopPc' = "sleep"
    /\ \/ queue = {} /\ wakeAt' = now + PollTimeout(0)
       \/ \E s \in queue : /\ Top(s)
                           /\ expire[s] > passNow
                           /\ wakeAt' = now + PollTimeout(NextDelay(s))
    /\ UNCHANGED <<now, heapVars, tasks, passNow, firing, fired, askVars>>

\* an fd is ready, the pipe's included, or the timeout has come
Wakes ==
    /\ loopPc = "sleep"
    /\ loopPc' = "user"
    /\ UNCHANGED <<now, heapVars, tasks, passVars, askVars>>

Tick ==
    /\ now + Step <= MaxTime
    /\ loopPc = "sleep" => now < wakeAt
    /\ now' = now + Step
    /\ UNCHANGED <<heapVars, tasks, loopPc, passVars, askVars>>

TimersNext ==
    \/ \E s \in Slots, ms \in Delays : AddInLoop(s, ms) \/ AddOffLoop(s, ms)
    \/ \E s \in Slots : DelInLoop(s) \/ DelOffLoop(s) \/ PopDue(s)
    \/ RunTask
    \/ StartPass
    \/ \E ms \in Delays : Rearm(ms)
    \/ Expired
    \/ PassEnds
    \/ Wakes
    \/ Tick

TimersSpec == TimersInit /\ [][TimersNext]_timerVars

-----------------------------------------------------------------------------
(* Properties.                                                             *)

InFlight(s) == {i \in DOMAIN tasks : tasks[i] = <<"add", s>>}

\* Every Timer object is in exactly one place, and every place holds only live
\* objects: the queue, the call in progress, or one closure on its way to the
\* loop.  Nothing is deleted twice, used after deletion by the loop, or leaked,
\* whatever callbacks delete and however closures and expiries interleave.
HeapSound ==
    /\ queue \subseteq alive
    /\ loopPc = "callback" => firing \in alive \ queue
    /\ \A s \in Slots : InFlight(s) # {} =>
          /\ s \in alive \ queue
          /\ s # firing
          /\ \A i, j \in InFlight(s) : i = j
    /\ \A s \in alive : s \in queue \/ s = firing \/ InFlight(s) # {}

\* A callback runs no earlier than the delay it was given, from the loop, or
\* that it returned itself; and only once in a pass, however late the pass is.
NeverEarly ==
    loopPc = "callback" => due[firing] <= passNow /\ id[firing] \notin fired

\* The loop does not sleep through an expiry: it is not asleep for longer than what was
\* left, when the pass began, until the first expiry in the queue.  So a timer is late
\* by no more than the callbacks of the pass took.
SleepsInTime ==
    loopPc = "sleep" => \A s \in queue : wakeAt - now <= expire[s] - passNow

\* Timers are called neither too early nor, because of the loop's sleep, too late.
TimersOnTime == TimersTypeOK /\ NeverEarly /\ SleepsInTime

\* What TimerManager.h says of a callback: it returns the next trigger timeout,
\* and 0 means don't trigger again.  So a timer that asked for another trigger
\* is kept, unless its owner asked for its deletion.
RearmedIsKept ==
    \A n \in rearmed \ asked : \E s \in alive : id[s] = n

=============================================================================
