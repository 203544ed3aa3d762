---------------------------- MODULE TaskService ----------------------------
(***************************************************************************)
(* What an event loop promises to the code that hands it closures:         *)
(* EventThread::dispatch seen from outside, with no pipe, no mutex and no  *)
(* poll.  Tasks wait in `pending'; the loop runs the first one.  A task    *)
(* submitted at the back runs after everything pending; a task submitted   *)
(* at the front runs before some of it; a task submitted from the loop     *)
(* itself may run at once.  Nothing is lost, nothing runs twice, and while *)
(* the service is not stopped every pending task runs.                     *)
(***************************************************************************)
EXTENDS Naturals, Sequences

CONSTANT Tasks       \* closures, each submitted at most once

VARIABLES
    fresh,           \* tasks not submitted yet
    pending,         \* submitted, not yet run, in the order they will run
    executed,        \* the tasks run so far, in order
    stopped          \* the service has been shut down

avars == <<fresh, pending, executed, stopped>>

AInit ==
    /\ fresh = Tasks
    /\ pending = <<>>
    /\ executed = <<>>
    /\ stopped = FALSE

Submit(t) ==
    /\ t \in fresh
    /\ fresh' = fresh \ {t}

InsertAfter(s, k, t) == SubSeq(s, 1, k) \o <<t>> \o SubSeq(s, k + 1, Len(s))

SubmitBack(t) ==
    /\ Submit(t)
    /\ pending' = Append(pending, t)
    /\ UNCHANGED <<executed, stopped>>

SubmitFront(t) ==
    /\ Submit(t)
    /\ \E k \in 0..Len(pending) : pending' = InsertAfter(pending, k, t)
    /\ UNCHANGED <<executed, stopped>>

RunInline(t) ==
    /\ ~stopped
    /\ Submit(t)
    /\ executed' = Append(executed, t)
    /\ UNCHANGED <<pending, stopped>>

Execute ==
    /\ ~stopped
    /\ pending # <<>>
    /\ executed' = Append(executed, Head(pending))
    /\ pending' = Tail(pending)
    /\ UNCHANGED <<fresh, stopped>>

Stop ==
    /\ ~stopped
    /\ stopped' = TRUE
    /\ UNCHANGED <<fresh, pending, executed>>

ANext ==
    \/ \E t \in Tasks : SubmitBack(t) \/ SubmitFront(t) \/ RunInline(t)
    \/ Execute
    \/ Stop

\* the safety half, which the proofs use, and the whole promise
ASafety == AInit /\ [][ANext]_avars
ASpec == ASafety /\ WF_avars(Execute)

=============================================================================
