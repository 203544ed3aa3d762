-------------------------- MODULE EventLoopProofs --------------------------
(***************************************************************************)
(* Proofs about the loops that run tasks.  EventLoop: for any number of    *)
(* threads and tasks and any pipe capacity.  Queues, at the end: for any   *)
(* tasks, and any that dispatch others.  They share no state.              *)
(***************************************************************************)
EXTENDS EventLoop, Queues, SequenceTheorems, TLAPS


\* The variables keep their types in every step, whichever thread takes it.
THEOREM TypeCorrect == Spec => []TypeOK
<1>1. Init => TypeOK
  <2> SUFFICES ASSUME Init PROVE TypeOK
    OBVIOUS
  <2>1. /\ taskQueue \in Seq(Tasks) /\ tmp \in Seq(Tasks)
        /\ executed \in Seq(Tasks) /\ fresh \in SUBSET Tasks
    BY DEF Init
  <2>2. pipeBytes \in 0..PipeCap /\ failures \in 0..MaxFailures
    BY PipeAssumption, FailuresAssumption DEF Init
  <2>3. /\ polled \in BOOLEAN /\ threadCancel \in BOOLEAN
        /\ pipeState \in {"open", "broken", "closed"}
        /\ batch \in SUBSET Sources
        /\ boot \in {"created", "mapped", "ready"}
        /\ loopPc \in LoopPcs
    BY DEF Init, LoopPcs, UserCode
  <2>4. threadPc \in [Threads -> {"idle", "wake"}]
    BY DEF Init
  <2> QED
    BY <2>1, <2>2, <2>3, <2>4 DEF TypeOK
<1>2. TypeOK /\ [Next]_vars => TypeOK'
  <2> SUFFICES ASSUME TypeOK, [Next]_vars PROVE TypeOK'
    OBVIOUS
  <2> USE DEF TypeOK, queueVars, pipeVars, ctlVars, LoopPcs, UserCode, At, Sources
  <2>1. CASE Boot
    BY <2>1 DEF Boot, MapPipe, RegisterPipe
  <2>2. CASE Dispatch
    BY <2>2 DEF Dispatch, Push
  <2>3. CASE \E c \in Threads : Wake(c)
    BY <2>3, PipeAssumption DEF Wake
  <2>4. CASE \E t \in Tasks : RunInline(t)
    BY <2>4 DEF RunInline
  <2>5. CASE LoopTop \/ TimersDone \/ BatchDone \/ HandlerDone
    BY <2>5 DEF LoopTop, TimersDone, BatchDone, HandlerDone
  <2>6. CASE \E evs \in SUBSET Sources : EpollWait(evs)
    BY <2>6 DEF EpollWait
  <2>7. CASE \E ev \in Sources : NextEvent(ev)
    BY <2>7 DEF NextEvent
  <2>8. CASE OnPipeEvent
    <3>1. CASE DrainSome
      BY <3>1, PipeAssumption DEF DrainSome
    <3>2. CASE DrainEmpty
      BY <3>2 DEF DrainEmpty
    <3>3. CASE DrainBroken
      BY <3>3 DEF DrainBroken
    <3>4. CASE Reopen
      BY <3>4 DEF Reopen
    <3>5. CASE SwapQueue
      BY <3>5 DEF SwapQueue
    <3>6. CASE RunTask
      BY <3>6 DEF RunTask
    <3>7. CASE TaskReturns \/ TasksDone
      BY <3>7 DEF TaskReturns, TasksDone
    <3> QED
      BY <2>8, <3>1, <3>2, <3>3, <3>4, <3>5, <3>6, <3>7 DEF OnPipeEvent
  <2>9. CASE Cancel
    BY <2>9 DEF Cancel
  <2>11. CASE PipeFails
    BY <2>11, FailuresAssumption DEF PipeFails
  <2>10. CASE UNCHANGED vars
    BY <2>10 DEF vars
  <2> QED
    BY <2>1, <2>2, <2>3, <2>4, <2>5, <2>6, <2>7, <2>8, <2>9, <2>10, <2>11
    DEF Next, LoopStep, LoopTurn, Sources
<1> QED
  BY <1>1, <1>2, PTL DEF Spec, Safety

-----------------------------------------------------------------------------

\* What no step of a loop or of a caller changes unless it is about the pipe:
\* the steps that leave the queue, the pipe and the pending writes alone keep
\* NoLostWakeup as long as they do not take the loop away from the swap.
WakeInv == PipeRegistered /\ NoLostWakeup

\* dispatch() never leaves a task behind in a queue the loop will not look at:
\* in every reachable state a non-empty _taskQueue comes with a polled byte, a
\* writer about to write one, or a loop on its way to the swap.
THEOREM WakeupNeverLost == Spec => []NoLostWakeup
<1>1. Init => WakeInv
  BY DEF Init, WakeInv, PipeRegistered, NoLostWakeup
<1>2. TypeOK /\ WakeInv /\ [Next]_vars => WakeInv'
  <2> SUFFICES ASSUME TypeOK, WakeInv, [Next]_vars PROVE WakeInv'
    OBVIOUS
  <2> USE DEF TypeOK, WakeInv, PipeRegistered, NoLostWakeup, AboutToSwap,
              Readable, At, queueVars, pipeVars, ctlVars, LoopPcs, UserCode
  <2>1. CASE MapPipe
    BY <2>1 DEF MapPipe
  <2>2. CASE RegisterPipe
    BY <2>2 DEF RegisterPipe
  <2>3. ASSUME NEW c \in Threads, NEW t \in Tasks, NEW front \in BOOLEAN,
               Push(c, t, front)
        PROVE  WakeInv'
    BY <2>3 DEF Push, MayDispatch
  <2>4. ASSUME NEW c \in Threads, Wake(c) PROVE WakeInv'
    BY <2>4, PipeAssumption DEF Wake
  <2>5. ASSUME NEW t \in Tasks, RunInline(t) PROVE WakeInv'
    BY <2>5 DEF RunInline
  <2>6. CASE LoopTop
    BY <2>6 DEF LoopTop
  <2>7. CASE TimersDone \/ BatchDone \/ HandlerDone
    BY <2>7 DEF TimersDone, BatchDone, HandlerDone
  <2>8. ASSUME NEW evs \in SUBSET Sources, EpollWait(evs) PROVE WakeInv'
    BY <2>8 DEF EpollWait
  <2>9. ASSUME NEW ev \in Sources, NextEvent(ev) PROVE WakeInv'
    BY <2>9 DEF NextEvent
  <2>10. CASE DrainSome
    BY <2>10, PipeAssumption DEF DrainSome
  <2>11. CASE DrainEmpty
    BY <2>11 DEF DrainEmpty
  <2>12. CASE DrainBroken
    BY <2>12 DEF DrainBroken
  <2>13. CASE Reopen
    BY <2>13 DEF Reopen
  <2>14. CASE SwapQueue
    BY <2>14 DEF SwapQueue
  <2>15. CASE RunTask \/ TaskReturns \/ TasksDone
    BY <2>15 DEF RunTask, TaskReturns, TasksDone
  <2>16. CASE Cancel
    BY <2>16 DEF Cancel
  <2>17. CASE PipeFails
    BY <2>17 DEF PipeFails
  <2>18. CASE UNCHANGED vars
    BY <2>18 DEF vars
  <2> QED
    BY <2>1, <2>2, <2>3, <2>4, <2>5, <2>6, <2>7, <2>8, <2>9, <2>10, <2>11,
       <2>12, <2>13, <2>14, <2>15, <2>16, <2>17, <2>18
    DEF Next, Boot, Dispatch, LoopStep, LoopTurn, OnPipeEvent, Sources
<1>3. WakeInv => NoLostWakeup
  BY DEF WakeInv
<1> QED
  BY <1>1, <1>2, <1>3, TypeCorrect, PTL DEF Spec, Safety

-----------------------------------------------------------------------------
(* Sequences with an element put in the middle.                            *)

\* A new element, put anywhere in a sequence without repetitions, leaves no
\* repetition and adds only itself.
LEMMA InsertFresh ==
  ASSUME NEW S, NEW a \in Seq(S), NEW b \in Seq(S), NEW t \in S,
         Injective(a \o b), t \notin ElementsOf(a \o b)
  PROVE  /\ Injective(a \o <<t>> \o b)
         /\ ElementsOf(a \o <<t>> \o b) = ElementsOf(a \o b) \cup {t}
<1> DEFINE old == a \o b
           new == a \o <<t>> \o b
           \* where position i of the new sequence comes from
           From(i) == IF i <= Len(a) THEN i ELSE i - 1
<1>1. /\ old \in Seq(S)
      /\ Len(a) \in Nat /\ Len(b) \in Nat
      /\ DOMAIN old = 1..(Len(a) + Len(b))
      /\ \A i \in DOMAIN old :
            old[i] = IF i <= Len(a) THEN a[i] ELSE b[i - Len(a)]
  BY ConcatProperties, LenProperties
<1>2. /\ <<t>> \in Seq(S) /\ Len(<<t>>) = 1 /\ <<t>>[1] = t
      /\ a \o <<t>> \in Seq(S)
      /\ Len(a \o <<t>>) = Len(a) + 1
      /\ \A i \in 1..(Len(a) + 1) :
            (a \o <<t>>)[i] = IF i <= Len(a) THEN a[i] ELSE t
  BY <1>1, ConcatProperties, LenProperties
<1>3. /\ DOMAIN new = 1..(Len(a) + 1 + Len(b))
      /\ \A i \in DOMAIN new :
            new[i] = IF i <= Len(a) THEN a[i]
                     ELSE IF i = Len(a) + 1 THEN t ELSE b[i - Len(a) - 1]
  <2>1. new \in Seq(S) /\ Len(new) = Len(a) + 1 + Len(b)
    BY <1>1, <1>2, ConcatProperties
  <2>2. \A i \in 1..(Len(a) + 1 + Len(b)) :
           new[i] = IF i <= Len(a) + 1 THEN (a \o <<t>>)[i] ELSE b[i - (Len(a) + 1)]
    BY <1>1, <1>2, ConcatProperties
  <2>3. \A i \in 1..(Len(a) + 1 + Len(b)) : i <= Len(a) + 1 => i \in 1..(Len(a) + 1)
    BY <1>1
  <2>4. \A i \in 1..(Len(a) + 1 + Len(b)) :
           /\ i - (Len(a) + 1) = i - Len(a) - 1
           /\ i > Len(a) + 1 <=> ~(i <= Len(a)) /\ i # Len(a) + 1
    BY <1>1
  <2> HIDE DEF new
  <2>5. DOMAIN new = 1..(Len(a) + 1 + Len(b))
    BY <2>1, LenProperties
  <2> QED
    BY <1>1, <1>2, <2>2, <2>3, <2>4, <2>5
<1>4. \A i \in DOMAIN new : i # Len(a) + 1 =>
         From(i) \in DOMAIN old /\ new[i] = old[From(i)]
  BY <1>1, <1>3, SMTT(20)
<1>5. \A j \in DOMAIN old : \E i \in DOMAIN new : i # Len(a) + 1 /\ From(i) = j
  <2>1. ASSUME NEW j \in DOMAIN old
        PROVE  \E i \in DOMAIN new : i # Len(a) + 1 /\ From(i) = j
    <3>1. CASE j <= Len(a)
      BY <3>1, <1>1, <1>3
    <3>2. CASE j > Len(a)
      <4>1. /\ j + 1 \in DOMAIN new
            /\ j + 1 # Len(a) + 1
            /\ From(j + 1) = j
        BY <3>2, <1>1, <1>3
      <4> QED
        BY <4>1
    <3> QED
      BY <3>1, <3>2, <1>1
  <2> QED
    BY <2>1
<1>6. new[Len(a) + 1] = t /\ Len(a) + 1 \in DOMAIN new
  BY <1>1, <1>3
<1>7. \A i \in DOMAIN old : old[i] # t
  BY DEF ElementsOf
<1>8. \A i, j \in DOMAIN new :
         i # Len(a) + 1 /\ j # Len(a) + 1 /\ From(i) = From(j) => i = j
  BY <1>1, <1>3
<1> HIDE DEF old, new, From
<1>9. Injective(new)
  BY <1>4, <1>6, <1>7, <1>8 DEF Injective, old
<1>10. ElementsOf(new) = ElementsOf(old) \cup {t}
  <2>1. ASSUME NEW i \in DOMAIN new PROVE new[i] \in ElementsOf(old) \cup {t}
    BY <1>4, <1>6 DEF ElementsOf
  <2>2. ASSUME NEW j \in DOMAIN old PROVE old[j] \in ElementsOf(new)
    BY <1>4, <1>5 DEF ElementsOf
  <2>3. t \in ElementsOf(new)
    BY <1>6 DEF ElementsOf
  <2> QED
    BY <2>1, <2>2, <2>3 DEF ElementsOf
<1> QED
  BY <1>9, <1>10 DEF old, new

-----------------------------------------------------------------------------

\* ExactlyOnce is kept because a step either moves the boundaries inside
\* Everything or inserts a fresh task, and because the swap moves the queue into
\* a list that BatchRunsOut says is empty.
OnceInv == BatchRunsOut /\ ExactlyOnce

\* Both conjuncts hold throughout.
LEMMA OnceInvariant == Spec => []OnceInv
<1>1. Init => OnceInv
  <2> SUFFICES ASSUME Init PROVE OnceInv
    OBVIOUS
  <2>1. BatchRunsOut
    BY DEF Init, BatchRunsOut
  <2>2. Everything = <<>>
    BY DEF Init, Everything
  <2>3. Injective(Everything) /\ ElementsOf(Everything) = {}
    BY <2>2 DEF Injective, ElementsOf
  <2> QED
    BY <2>1, <2>3 DEF Init, OnceInv, ExactlyOnce
<1>2. TypeOK /\ OnceInv /\ [Next]_vars => OnceInv'
  <2> SUFFICES ASSUME TypeOK, OnceInv, [Next]_vars PROVE OnceInv'
    OBVIOUS
  <2> USE DEF At, queueVars, pipeVars, ctlVars
  <2>1. taskQueue \in Seq(Tasks) /\ tmp \in Seq(Tasks) /\ executed \in Seq(Tasks)
    BY DEF TypeOK
  <2>2. \* a new task, somewhere in the sequence
        ASSUME NEW t \in Tasks, NEW a \in Seq(Tasks), NEW b \in Seq(Tasks),
               Everything = a \o b, Everything' = a \o <<t>> \o b,
               t \in fresh, fresh' = fresh \ {t}
        PROVE  ExactlyOnce'
    <3>1. Injective(a \o b) /\ ElementsOf(a \o b) = Tasks \ fresh
      BY <2>2 DEF OnceInv, ExactlyOnce
    <3>2. /\ Injective(a \o <<t>> \o b)
          /\ ElementsOf(a \o <<t>> \o b) = ElementsOf(a \o b) \cup {t}
      BY <3>1, <2>2, InsertFresh
    <3>3. ElementsOf(Everything') = Tasks \ fresh'
      BY <3>1, <3>2, <2>2
    <3> QED
      BY <3>2, <3>3, <2>2 DEF ExactlyOnce, Injective, ElementsOf
  <2>3. \* the same sequence, with its boundaries elsewhere
        ASSUME Everything' = Everything, fresh' = fresh PROVE ExactlyOnce'
    BY <2>3 DEF OnceInv, ExactlyOnce, Injective, ElementsOf
  <2>4. ASSUME NEW c \in Threads, NEW t \in Tasks, NEW front \in BOOLEAN,
               Push(c, t, front)
        PROVE  OnceInv'
    <3>1. BatchRunsOut'
      BY <2>4 DEF Push, OnceInv, BatchRunsOut
    <3>2. CASE front
      <4>1. Everything' = (executed \o tmp) \o (<<t>> \o taskQueue)
        BY <2>4, <3>2 DEF Push, Everything
      <4>2. executed \o tmp \in Seq(Tasks) /\ <<t>> \in Seq(Tasks)
        BY <2>1, ConcatProperties
      <4>3. Everything' = (executed \o tmp) \o <<t>> \o taskQueue
        BY <4>1, <4>2, <2>1, ConcatAssociative, SMTT(20)
      <4> QED
        BY <4>2, <4>3, <3>1, <2>1, <2>2, <2>4 DEF Push, Everything, OnceInv
    <3>3. CASE ~front
      <4>1. Everything' = Everything \o <<t>>
        BY <2>4, <3>3, <2>1, AppendIsConcat, ConcatAssociative, ConcatProperties, SMTT(20)
        DEF Push, Everything
      <4>2. Everything \in Seq(Tasks) /\ <<>> \in Seq(Tasks)
        BY <2>1, ConcatProperties DEF Everything
      <4>3. Everything' = Everything \o <<t>> \o <<>> /\ Everything = Everything \o <<>>
        BY <4>1, <4>2, ConcatEmptySeq, ConcatProperties
      <4> QED
        BY <4>2, <4>3, <3>1, <2>2, <2>4 DEF Push, OnceInv
    <3> QED
      BY <3>2, <3>3
  <2>5. ASSUME NEW t \in Tasks, RunInline(t) PROVE OnceInv'
    <3>1. BatchRunsOut'
      BY <2>5 DEF RunInline, OnceInv, BatchRunsOut
    <3>2. Everything' = executed \o <<t>> \o tmp \o taskQueue
      BY <2>5, <2>1, AppendIsConcat DEF RunInline, Everything
    <3>3. executed \o <<t>> \in Seq(Tasks) /\ tmp \o taskQueue \in Seq(Tasks)
      BY <2>1, ConcatProperties
    <3>4. Everything' = executed \o <<t>> \o (tmp \o taskQueue)
      <4> DEFINE ext == executed \o <<t>>
      <4>1. ext \in Seq(Tasks) /\ Everything' = (ext \o tmp) \o taskQueue
        BY <3>2, <3>3
      <4> HIDE DEF ext
      <4>2. (ext \o tmp) \o taskQueue = ext \o (tmp \o taskQueue)
        BY <4>1, <2>1, ConcatAssociative, SMTT(20)
      <4> QED
        BY <4>1, <4>2 DEF ext
    <3>5. Everything = executed \o (tmp \o taskQueue)
      BY <2>1, ConcatAssociative, SMTT(20) DEF Everything
    <3> QED
      BY <3>1, <3>3, <3>4, <3>5, <2>1, <2>2, <2>5 DEF RunInline, OnceInv
  <2>6. CASE SwapQueue
    <3>1. tmp = <<>> /\ tmp' = taskQueue /\ taskQueue' = <<>> /\ executed' = executed
      BY <2>6 DEF SwapQueue, OnceInv, BatchRunsOut
    <3>2. Everything' = executed \o taskQueue /\ Everything = executed \o taskQueue
      BY <3>1, <2>1, ConcatEmptySeq, ConcatProperties DEF Everything
    <3> QED
      BY <3>1, <3>2, <2>3, <2>6 DEF SwapQueue, OnceInv, BatchRunsOut
  <2>7. CASE RunTask
    <3>1. Head(tmp) \in Tasks /\ Tail(tmp) \in Seq(Tasks) /\ <<Head(tmp)>> \o Tail(tmp) = tmp
      BY <2>7, <2>1 DEF RunTask
    <3>2. Append(executed, Head(tmp)) \o Tail(tmp) = executed \o tmp
      <4>1. Append(executed, Head(tmp)) = executed \o <<Head(tmp)>>
        BY <3>1, <2>1, AppendIsConcat
      <4>2. <<Head(tmp)>> \in Seq(Tasks)
        BY <3>1
      <4>3. (executed \o <<Head(tmp)>>) \o Tail(tmp)
              = executed \o (<<Head(tmp)>> \o Tail(tmp))
        BY <4>2, <3>1, <2>1, ConcatAssociative, SMTT(20)
      <4> QED
        BY <4>1, <4>3, <3>1
    <3>3. Everything' = Everything
      BY <3>2, <2>7 DEF RunTask, Everything
    <3> QED
      BY <3>3, <2>3, <2>7 DEF RunTask, OnceInv, BatchRunsOut
  <2>8. CASE TaskReturns \/ TasksDone
    BY <2>8, <2>3 DEF TaskReturns, TasksDone, OnceInv, BatchRunsOut, Everything
  <2>9. CASE LoopTop \/ TimersDone \/ BatchDone \/ HandlerDone
    BY <2>9, <2>3
    DEF LoopTop, TimersDone, BatchDone, HandlerDone, OnceInv, BatchRunsOut, Everything
  <2>10. CASE DrainSome \/ DrainEmpty \/ DrainBroken \/ Reopen
    BY <2>10, <2>3
    DEF DrainSome, DrainEmpty, DrainBroken, Reopen, OnceInv, BatchRunsOut, Everything
  <2>11. ASSUME NEW evs \in SUBSET Sources, EpollWait(evs) PROVE OnceInv'
    BY <2>11, <2>3 DEF EpollWait, OnceInv, BatchRunsOut, Everything
  <2>12. ASSUME NEW ev \in Sources, NextEvent(ev) PROVE OnceInv'
    BY <2>12, <2>3 DEF NextEvent, OnceInv, BatchRunsOut, Everything
  <2>13. ASSUME NEW c \in Threads, Wake(c) PROVE OnceInv'
    BY <2>13, <2>3 DEF Wake, OnceInv, BatchRunsOut, Everything
  <2>14. CASE MapPipe \/ RegisterPipe \/ Cancel \/ PipeFails
    BY <2>14, <2>3
    DEF MapPipe, RegisterPipe, Cancel, PipeFails, OnceInv, BatchRunsOut, Everything
  <2>15. CASE UNCHANGED vars
    BY <2>15, <2>3 DEF vars, OnceInv, BatchRunsOut, Everything
  <2> QED
    BY <2>4, <2>5, <2>6, <2>7, <2>8, <2>9, <2>10, <2>11, <2>12, <2>13, <2>14, <2>15
    DEF Next, Boot, Dispatch, LoopStep, LoopTurn, OnPipeEvent, Sources
<1> QED
  BY <1>1, <1>2, TypeCorrect, PTL DEF Spec, Safety

\* dispatch() neither loses nor repeats a task: each is in exactly one of the
\* queue, the list the loop took and the history of what ran.
THEOREM TasksRunExactlyOnce == Spec => []ExactlyOnce
<1>1. OnceInv => ExactlyOnce
  BY DEF OnceInv
<1> QED
  BY <1>1, OnceInvariant, PTL

-----------------------------------------------------------------------------

\* Cutting a concatenation where its two parts meet gives them back.
LEMMA CutConcat ==
  ASSUME NEW S, NEW a \in Seq(S), NEW b \in Seq(S)
  PROVE  /\ Len(a) \in 0..Len(a \o b)
         /\ SubSeq(a \o b, 1, Len(a)) = a
         /\ SubSeq(a \o b, Len(a) + 1, Len(a \o b)) = b
<1>1. /\ a \o b \in Seq(S) /\ Len(a \o b) = Len(a) + Len(b)
      /\ Len(a) \in Nat /\ Len(b) \in Nat
      /\ \A i \in 1..(Len(a) + Len(b)) :
            (a \o b)[i] = IF i <= Len(a) THEN a[i] ELSE b[i - Len(a)]
  BY ConcatProperties, LenProperties
<1> DEFINE c == a \o b
<1> HIDE DEF c
<1>2. SubSeq(c, 1, Len(a)) = a
  <2>1. \A i \in 1..Len(a) : c[i] = a[i] /\ a[i] \in S
    BY <1>1, ElementOfSeq DEF c
  <2>2. /\ SubSeq(c, 1, Len(a)) \in Seq(S) /\ Len(SubSeq(c, 1, Len(a))) = Len(a)
        /\ \A i \in 1..Len(a) : SubSeq(c, 1, Len(a))[i] = c[i]
    BY <1>1, <2>1, SubSeqProperties
  <2> QED
    BY <2>1, <2>2, SeqEqual
<1>3. SubSeq(c, Len(a) + 1, Len(a) + Len(b)) = b
  <2> DEFINE m == Len(a) + 1
             n == Len(a) + Len(b)
  <2>1. \A i \in m..n : c[i] = b[i - Len(a)] /\ i - Len(a) \in 1..Len(b)
    BY <1>1 DEF c
  <2>2. \A i \in m..n : c[i] \in S
    BY <2>1, ElementOfSeq
  <2>3. /\ SubSeq(c, m, n) \in Seq(S) /\ Len(SubSeq(c, m, n)) = Len(b)
        /\ \A i \in 1..Len(b) : SubSeq(c, m, n)[i] = c[m + i - 1]
    BY <1>1, <2>2, SubSeqProperties
  <2>4. \A i \in 1..Len(b) : c[m + i - 1] = b[i]
    BY <1>1, <2>1
  <2> QED
    BY <2>3, <2>4, SeqEqual
<1> QED
  BY <1>1, <1>2, <1>3 DEF c

\* Every behaviour of the loop, its pipe and its callers is, seen through
\* tmp \o taskQueue, a behaviour of the task service: first come, first served
\* but for tasks put in front, each run once, none after the loop has exited.
THEOREM LoopImplementsTaskService == Spec => Promise!ASafety
<1> DEFINE queued == tmp \o taskQueue
<1>1. Init => Promise!AInit
  BY ConcatEmptySeq, EmptySeq DEF Init, Promise!AInit
<1>2. TypeOK /\ BatchRunsOut /\ [Next]_vars => [Promise!ANext]_(Promise!avars)
  <2> SUFFICES ASSUME TypeOK, BatchRunsOut, [Next]_vars
               PROVE  Promise!ANext \/ UNCHANGED Promise!avars
    OBVIOUS
  <2> USE DEF At, queueVars, pipeVars, ctlVars
  <2>1. taskQueue \in Seq(Tasks) /\ tmp \in Seq(Tasks) /\ executed \in Seq(Tasks)
    BY DEF TypeOK
  <2>2. ASSUME NEW c \in Threads, NEW t \in Tasks, Push(c, t, TRUE)
        PROVE  Promise!SubmitFront(t)
    <3>1. queued' = tmp \o (<<t>> \o taskQueue)
      BY <2>2 DEF Push
    <3>2. queued' = tmp \o <<t>> \o taskQueue
      <4>1. <<t>> \in Seq(Tasks)
        OBVIOUS
      <4> QED
        BY <3>1, <4>1, <2>1, ConcatAssociative, SMTT(20)
    <3>3. Promise!InsertAfter(queued, Len(tmp), t) = tmp \o <<t>> \o taskQueue
      <4>1. /\ SubSeq(queued, 1, Len(tmp)) = tmp
            /\ SubSeq(queued, Len(tmp) + 1, Len(queued)) = taskQueue
        BY <2>1, CutConcat
      <4> HIDE DEF queued
      <4> QED
        BY <4>1 DEF Promise!InsertAfter
    <3>4. Len(tmp) \in 0..Len(queued)
      BY <2>1, CutConcat
    <3> QED
      BY <2>2, <3>2, <3>3, <3>4 DEF Push, Promise!SubmitFront, Promise!Submit
  <2>3. ASSUME NEW c \in Threads, NEW t \in Tasks, Push(c, t, FALSE)
        PROVE  Promise!SubmitBack(t)
    <3>1. queued' = tmp \o (taskQueue \o <<t>>)
      BY <2>3, <2>1, AppendIsConcat DEF Push
    <3>2. queued' = queued \o <<t>>
      <4>1. <<t>> \in Seq(Tasks)
        OBVIOUS
      <4> QED
        BY <3>1, <4>1, <2>1, ConcatAssociative
    <3>3. queued' = Append(queued, t)
      <4>1. queued \in Seq(Tasks)
        BY <2>1, ConcatProperties
      <4> HIDE DEF queued
      <4> QED
        BY <3>2, <4>1, AppendIsConcat
    <3> QED
      BY <2>3, <3>3 DEF Push, Promise!SubmitBack, Promise!Submit
  <2>4. ASSUME NEW t \in Tasks, RunInline(t) PROVE Promise!RunInline(t)
    BY <2>4 DEF RunInline, MayDispatch, UserCode, Promise!RunInline, Promise!Submit
  <2>5. CASE RunTask
    <3>1. /\ Head(tmp) \in Tasks /\ Tail(tmp) \in Seq(Tasks)
          /\ tmp = <<Head(tmp)>> \o Tail(tmp)
      BY <2>5, <2>1 DEF RunTask
    <3>2. queued = <<Head(tmp)>> \o (Tail(tmp) \o taskQueue)
      <4>1. <<Head(tmp)>> \in Seq(Tasks)
        BY <3>1
      <4>2. (<<Head(tmp)>> \o Tail(tmp)) \o taskQueue
              = <<Head(tmp)>> \o (Tail(tmp) \o taskQueue)
        BY <3>1, <4>1, <2>1, ConcatAssociative
      <4> QED
        BY <3>1, <4>2
    <3>3. /\ queued # <<>> /\ Head(queued) = Head(tmp)
          /\ Tail(queued) = Tail(tmp) \o taskQueue
      <4> DEFINE rest == Tail(tmp) \o taskQueue
                 first == Head(tmp)
      <4>1. rest \in Seq(Tasks) /\ first \in Tasks /\ queued = <<first>> \o rest
        BY <3>1, <3>2, <2>1, ConcatProperties
      <4> HIDE DEF rest, first, queued
      <4>2. queued # <<>> /\ Head(queued) = first /\ Tail(queued) = rest
        BY <4>1
      <4> QED
        BY <4>2 DEF rest, first
    <3> QED
      BY <2>5, <3>3 DEF RunTask, Promise!ANext, Promise!Execute
  <2>6. CASE LoopTop
    BY <2>6 DEF LoopTop, Promise!ANext, Promise!Stop, Promise!avars
  <2>7. CASE SwapQueue
    <3>1. tmp = <<>> /\ queued' = taskQueue \o <<>>
      BY <2>7 DEF SwapQueue, BatchRunsOut
    <3>2. queued' = queued
      BY <3>1, <2>1, ConcatEmptySeq
    <3> QED
      BY <3>2, <2>7 DEF SwapQueue, Promise!avars
  <2>8. CASE TimersDone \/ BatchDone \/ HandlerDone \/ TaskReturns \/ TasksDone
    BY <2>8
    DEF TimersDone, BatchDone, HandlerDone, TaskReturns, TasksDone, Promise!avars
  <2>9. CASE DrainSome \/ DrainEmpty \/ DrainBroken \/ Reopen
    BY <2>9 DEF DrainSome, DrainEmpty, DrainBroken, Reopen, Promise!avars
  <2>10. ASSUME NEW evs \in SUBSET Sources, EpollWait(evs)
         PROVE  UNCHANGED Promise!avars
    BY <2>10 DEF EpollWait, Promise!avars
  <2>11. ASSUME NEW ev \in Sources, NextEvent(ev) PROVE UNCHANGED Promise!avars
    BY <2>11 DEF NextEvent, Promise!avars
  <2>12. ASSUME NEW c \in Threads, Wake(c) PROVE UNCHANGED Promise!avars
    BY <2>12 DEF Wake, Promise!avars
  <2>13. CASE MapPipe \/ RegisterPipe \/ Cancel \/ PipeFails
    BY <2>13 DEF MapPipe, RegisterPipe, Cancel, PipeFails, Promise!avars
  <2>14. CASE UNCHANGED vars
    BY <2>14 DEF vars, Promise!avars
  <2>15. ASSUME NEW c \in Threads, NEW t \in Tasks, NEW front \in BOOLEAN,
                Push(c, t, front)
         PROVE  Promise!ANext
    BY <2>15, <2>2, <2>3 DEF Promise!ANext
  <2>16. ASSUME NEW t \in Tasks, RunInline(t) PROVE Promise!ANext
    BY <2>16, <2>4 DEF Promise!ANext
  <2> QED
    BY <2>15, <2>16, <2>5, <2>6, <2>7, <2>8, <2>9, <2>10, <2>11, <2>12, <2>13, <2>14
    DEF Next, Boot, Dispatch, LoopStep, LoopTurn, OnPipeEvent, Sources
<1>3. OnceInv => BatchRunsOut
  BY DEF OnceInv
<1> QED
  BY <1>1, <1>2, <1>3, TypeCorrect, OnceInvariant, PTL
  DEF Spec, Safety, Promise!ASafety

-----------------------------------------------------------------------------
(* Queues: both queues run what they are given, in order and once, and a   *)
(* round of a loop queue runs what was there when it began.  First, the    *)
(* sequences of tasks, and two sums of lengths.                            *)

LEMMA Sums == \A a, b \in Nat : a <= a + b /\ a + b = (a + 1) + (b - 1)
OBVIOUS

LEMMA Associative == \A p, q, r \in Seq(Jobs) : (p \o q) \o r = p \o (q \o r)
BY ConcatAssociative, SMTT(20)

\* A task at the end goes to the end of what is behind.
LEMMA AppendBehind ==
  ASSUME NEW p \in Seq(Jobs), NEW q \in Seq(Jobs), NEW j \in Jobs
  PROVE  Append(p \o q, j) = p \o Append(q, j)
<1>1. <<j>> \in Seq(Jobs) /\ p \o q \in Seq(Jobs)
  BY ConcatProperties
<1>2. Append(p \o q, j) = (p \o q) \o <<j>> /\ Append(q, j) = q \o <<j>>
  BY <1>1, AppendIsConcat
<1>3. (p \o q) \o <<j>> = p \o (q \o <<j>>)
  BY <1>1, Associative
<1> QED
  BY <1>2, <1>3

\* The first task behind becomes the last one before.
LEMMA HeadMoves ==
  ASSUME NEW p \in Seq(Jobs), NEW q \in Seq(Jobs), q # <<>>
  PROVE  /\ Head(q) \in Jobs /\ Tail(q) \in Seq(Jobs) /\ Len(Tail(q)) = Len(q) - 1
         /\ Append(p, Head(q)) \in Seq(Jobs) /\ Len(Append(p, Head(q))) = Len(p) + 1
         /\ Append(p, Head(q)) \o Tail(q) = p \o q
<1>1. /\ Head(q) \in Jobs /\ Tail(q) \in Seq(Jobs) /\ Len(Tail(q)) = Len(q) - 1
      /\ <<Head(q)>> \o Tail(q) = q
  BY HeadTailProperties, ConcatProperties
<1>2. Append(p, Head(q)) \in Seq(Jobs) /\ Len(Append(p, Head(q))) = Len(p) + 1
  BY <1>1, AppendProperties
<1>3. Append(p, Head(q)) = p \o <<Head(q)>> /\ <<Head(q)>> \in Seq(Jobs)
  BY <1>1, AppendIsConcat
<1>4. (p \o <<Head(q)>>) \o Tail(q) = p \o (<<Head(q)>> \o Tail(q))
  BY <1>1, <1>3, Associative
<1> QED
  BY <1>1, <1>2, <1>3, <1>4

\* What comes first is a prefix.
LEMMA FirstIsPrefix ==
  ASSUME NEW p \in Seq(Jobs), NEW q \in Seq(Jobs)
  PROVE  IsPrefix(p, p \o q)
<1> DEFINE all == p \o q
<1>1. /\ all \in Seq(Jobs) /\ Len(all) = Len(p) + Len(q)
      /\ \A i \in 1..(Len(p) + Len(q)) : all[i] = IF i <= Len(p) THEN p[i] ELSE q[i - Len(p)]
  BY ConcatProperties
<1>2. Len(p) \in Nat /\ Len(q) \in Nat
  BY LenProperties
<1> HIDE DEF all
<1>3. \A i \in 1..Len(p) : p[i] \in Jobs /\ all[i] = p[i]
  BY <1>1, <1>2, ElementOfSeq
<1>4. /\ SubSeq(p, 1, Len(p)) \in Seq(Jobs) /\ Len(SubSeq(p, 1, Len(p))) = Len(p)
      /\ \A i \in 1..Len(p) : SubSeq(p, 1, Len(p))[i] = p[i]
  BY <1>2, <1>3, SubSeqProperties
<1>5. /\ SubSeq(all, 1, Len(p)) \in Seq(Jobs) /\ Len(SubSeq(all, 1, Len(p))) = Len(p)
      /\ \A i \in 1..Len(p) : SubSeq(all, 1, Len(p))[i] = all[i]
  BY <1>1, <1>2, <1>3, SubSeqProperties
<1>6. SubSeq(p, 1, Len(p)) = SubSeq(all, 1, Len(p))
  BY <1>3, <1>4, <1>5, SeqEqual
<1>7. Len(p) <= Len(all)
  BY <1>1, <1>2
<1> QED
  BY <1>6, <1>7 DEF IsPrefix, all

-----------------------------------------------------------------------------
(* The invariant: what was given to a queue is what it began, then what it *)
(* took, then what waits.                                                  *)

QueuesTypeOK ==
    /\ dq \in [tasks : Seq(Jobs), _stop : BOOLEAN, at : {"head", "waiting", "running", "ended"},
               task : Jobs \cup {"none"}, joined : BOOLEAN]
    /\ lq \in [tasks : Seq(Jobs), batch : Seq(Jobs), task : Jobs \cup {"none"}, seen : Nat]
    /\ given \in [Queue -> Seq(Jobs)] /\ ran \in [Queue -> Seq(Jobs)]

DispatchAccounts == given["dispatch"] = ran["dispatch"] \o dq.tasks

LoopAccounts == given["loop"] = ran["loop"] \o (lq.batch \o lq.tasks)

\* in a round: what it began and what it has still to run is what it saw
RoundAccounts ==
    lq.task # "none" \/ lq.batch # <<>> => lq.seen = Len(ran["loop"]) + Len(lq.batch)

QueuesInv == QueuesTypeOK /\ DispatchAccounts /\ LoopAccounts /\ RoundAccounts

LEMMA InitQueuesInv == QueuesInit => QueuesInv
<1>1. <<>> \in Seq(Jobs) /\ <<>> \o <<>> = <<>>
  BY EmptySeq, ConcatEmptySeq
<1> QED
  BY <1>1 DEF QueuesInit, QueuesInv, QueuesTypeOK, DispatchAccounts, LoopAccounts, RoundAccounts,
              Queue

\* a task is given to the dispatch queue
LEMMA DispatchTaskKeeps ==
  ASSUME QueuesInv, DispatchTask
  PROVE  QueuesInv'
<1>1. PICK j \in Jobs : /\ Gives("dispatch", j)
                        /\ dq' = [dq EXCEPT !.tasks = Append(@, j)] /\ UNCHANGED <<lq, ran>>
  BY DEF DispatchTask
<1>2. /\ ran["dispatch"] \in Seq(Jobs) /\ dq.tasks \in Seq(Jobs) /\ given["dispatch"] \in Seq(Jobs)
      /\ given["loop"] \in Seq(Jobs)
  BY DEF QueuesInv, QueuesTypeOK, Queue
<1>3. Append(dq.tasks, j) \in Seq(Jobs) /\ Append(given["dispatch"], j) \in Seq(Jobs)
  BY <1>2, AppendProperties
<1>4. Append(given["dispatch"], j) = ran["dispatch"] \o Append(dq.tasks, j)
  <2>1. given["dispatch"] = ran["dispatch"] \o dq.tasks
    BY DEF QueuesInv, DispatchAccounts
  <2>2. Append(ran["dispatch"] \o dq.tasks, j) = ran["dispatch"] \o Append(dq.tasks, j)
    BY <1>2, AppendBehind, Zenon
  <2> QED
    BY <2>1, <2>2, Zenon
<1>5. QueuesTypeOK'
  BY <1>1, <1>3 DEF Gives, QueuesInv, QueuesTypeOK, Queue
<1>6. /\ given'["dispatch"] = Append(given["dispatch"], j) /\ given'["loop"] = given["loop"]
      /\ dq'.tasks = Append(dq.tasks, j)
  BY <1>1 DEF Gives, QueuesInv, QueuesTypeOK, Queue
<1> QED
  BY <1>1, <1>4, <1>5, <1>6 DEF QueuesInv, DispatchAccounts, LoopAccounts, RoundAccounts

\* its thread wakes
LEMMA LoopWakesKeeps ==
  ASSUME QueuesInv, LoopWakes
  PROVE  QueuesInv'
<1>1. /\ ran["dispatch"] \in Seq(Jobs) /\ dq.tasks \in Seq(Jobs) /\ ran["loop"] \in Seq(Jobs)
      /\ UNCHANGED <<lq, given>>
  BY DEF QueuesInv, QueuesTypeOK, Queue, LoopWakes
<1>2. CASE dq._stop \/ dq.tasks = <<>>
  <2>1. QueuesTypeOK' /\ dq'.tasks = dq.tasks /\ ran' = ran
    BY <1>1, <1>2 DEF LoopWakes, QueuesInv, QueuesTypeOK
  <2> QED
    BY <1>1, <2>1 DEF QueuesInv, DispatchAccounts, LoopAccounts, RoundAccounts
<1>3. CASE ~dq._stop /\ dq.tasks # <<>>
  <2>1. /\ Head(dq.tasks) \in Jobs /\ Tail(dq.tasks) \in Seq(Jobs)
        /\ Append(ran["dispatch"], Head(dq.tasks)) \in Seq(Jobs)
        /\ Append(ran["dispatch"], Head(dq.tasks)) \o Tail(dq.tasks) = ran["dispatch"] \o dq.tasks
    BY <1>1, <1>3, HeadMoves
  <2>2. /\ dq' = [dq EXCEPT !.at = "running", !.task = Head(dq.tasks), !.tasks = Tail(@)]
        /\ ran' = [ran EXCEPT !["dispatch"] = Append(@, Head(dq.tasks))]
    BY <1>3 DEF LoopWakes, Runs
  <2>3. QueuesTypeOK'
    BY <1>1, <2>1, <2>2 DEF QueuesInv, QueuesTypeOK, Queue
  <2>4. /\ dq'.tasks = Tail(dq.tasks) /\ ran'["loop"] = ran["loop"]
        /\ ran'["dispatch"] = Append(ran["dispatch"], Head(dq.tasks))
    BY <2>2 DEF QueuesInv, QueuesTypeOK, Queue
  <2> QED
    BY <1>1, <2>1, <2>3, <2>4 DEF QueuesInv, DispatchAccounts, LoopAccounts, RoundAccounts
<1> QED
  BY <1>2, <1>3

\* a task is given to the loop queue
LEMMA AyncKeeps ==
  ASSUME QueuesInv, Aync
  PROVE  QueuesInv'
<1>1. PICK j \in Jobs : /\ Gives("loop", j)
                        /\ lq' = [lq EXCEPT !.tasks = Append(@, j)] /\ UNCHANGED <<dq, ran>>
  BY DEF Aync
<1>2. /\ ran["loop"] \in Seq(Jobs) /\ lq.tasks \in Seq(Jobs) /\ lq.batch \in Seq(Jobs)
      /\ given["loop"] \in Seq(Jobs) /\ given["dispatch"] \in Seq(Jobs)
  BY DEF QueuesInv, QueuesTypeOK, Queue
<1>3. /\ Append(lq.tasks, j) \in Seq(Jobs) /\ Append(given["loop"], j) \in Seq(Jobs)
      /\ lq.batch \o lq.tasks \in Seq(Jobs)
  BY <1>2, AppendProperties, ConcatProperties
<1>4. Append(given["loop"], j) = ran["loop"] \o (lq.batch \o Append(lq.tasks, j))
  <2>1. Append(given["loop"], j) = ran["loop"] \o Append(lq.batch \o lq.tasks, j)
    <3>1. given["loop"] = ran["loop"] \o (lq.batch \o lq.tasks)
      BY DEF QueuesInv, LoopAccounts
    <3>2. Append(ran["loop"] \o (lq.batch \o lq.tasks), j)
            = ran["loop"] \o Append(lq.batch \o lq.tasks, j)
      BY <1>2, <1>3, AppendBehind, ZenonT(40)
    <3> QED
      BY <3>1, <3>2, Zenon
  <2>2. Append(lq.batch \o lq.tasks, j) = lq.batch \o Append(lq.tasks, j)
    BY <1>2, AppendBehind, Zenon
  <2> QED
    BY <2>1, <2>2, Zenon
<1>5. QueuesTypeOK'
  BY <1>1, <1>3 DEF Gives, QueuesInv, QueuesTypeOK, Queue
<1>6. /\ given'["loop"] = Append(given["loop"], j) /\ given'["dispatch"] = given["dispatch"]
      /\ lq'.tasks = Append(lq.tasks, j) /\ lq'.batch = lq.batch /\ lq'.task = lq.task
      /\ lq'.seen = lq.seen
  BY <1>1 DEF Gives, QueuesInv, QueuesTypeOK, Queue
<1> QED
  BY <1>1, <1>4, <1>5, <1>6 DEF QueuesInv, DispatchAccounts, LoopAccounts, RoundAccounts

\* a round begins
LEMMA RunOnceKeeps ==
  ASSUME QueuesInv, RunOnce
  PROVE  QueuesInv'
<1>1. /\ ran["loop"] \in Seq(Jobs) /\ lq.tasks \in Seq(Jobs) /\ lq.batch = <<>>
      /\ given["loop"] \in Seq(Jobs) /\ UNCHANGED <<dq, given, ran>>
  BY DEF QueuesInv, QueuesTypeOK, Queue, RunOnce
<1>2. lq.batch \o lq.tasks = lq.tasks /\ lq.tasks \o <<>> = lq.tasks /\ <<>> \in Seq(Jobs)
  BY <1>1, ConcatEmptySeq, EmptySeq
<1>3. Len(given["loop"]) = Len(ran["loop"]) + Len(lq.tasks) /\ Len(given["loop"]) \in Nat
  <2>1. given["loop"] = ran["loop"] \o lq.tasks
    BY <1>1, <1>2 DEF QueuesInv, LoopAccounts
  <2>2. Len(ran["loop"] \o lq.tasks) = Len(ran["loop"]) + Len(lq.tasks)
    BY <1>1, ConcatProperties
  <2>3. Len(given["loop"]) \in Nat
    BY <1>1, LenProperties
  <2> QED
    BY <2>1, <2>2, <2>3, Zenon
<1>4. QueuesTypeOK'
  BY <1>1, <1>2, <1>3 DEF RunOnce, QueuesInv, QueuesTypeOK
<1>5. lq'.batch = lq.tasks /\ lq'.tasks = <<>> /\ lq'.seen = Len(given["loop"])
  BY DEF RunOnce, QueuesInv, QueuesTypeOK
<1> QED
  BY <1>1, <1>2, <1>3, <1>4, <1>5
     DEF QueuesInv, DispatchAccounts, LoopAccounts, RoundAccounts

\* its next task begins
LEMMA RunOnceTaskKeeps ==
  ASSUME QueuesInv, RunOnceTask
  PROVE  QueuesInv'
<1>1. /\ ran["loop"] \in Seq(Jobs) /\ lq.tasks \in Seq(Jobs) /\ lq.batch \in Seq(Jobs)
      /\ lq.batch # <<>> /\ ran["dispatch"] \in Seq(Jobs) /\ UNCHANGED <<dq, given>>
      /\ lq' = [lq EXCEPT !.batch = Tail(@), !.task = Head(lq.batch)]
      /\ ran' = [ran EXCEPT !["loop"] = Append(@, Head(lq.batch))]
  BY DEF QueuesInv, QueuesTypeOK, Queue, RunOnceTask, Runs
<1> DEFINE begun == Append(ran["loop"], Head(lq.batch))  left == Tail(lq.batch)
<1>2. /\ Head(lq.batch) \in Jobs /\ left \in Seq(Jobs) /\ Len(left) = Len(lq.batch) - 1
      /\ begun \in Seq(Jobs) /\ Len(begun) = Len(ran["loop"]) + 1
      /\ begun \o left = ran["loop"] \o lq.batch
  BY <1>1, HeadMoves
<1>3. QueuesTypeOK'
  BY <1>1, <1>2 DEF QueuesInv, QueuesTypeOK, Queue
<1>4. /\ lq'.batch = left /\ lq'.tasks = lq.tasks /\ lq'.seen = lq.seen
      /\ ran'["loop"] = begun /\ ran'["dispatch"] = ran["dispatch"]
  BY <1>1 DEF QueuesInv, QueuesTypeOK, Queue
<1> HIDE DEF begun, left
<1>5. begun \o (left \o lq.tasks) = ran["loop"] \o (lq.batch \o lq.tasks)
  <2>1. begun \o (left \o lq.tasks) = (begun \o left) \o lq.tasks
    BY <1>1, <1>2, Associative, ZenonT(40)
  <2>2. (ran["loop"] \o lq.batch) \o lq.tasks = ran["loop"] \o (lq.batch \o lq.tasks)
    BY <1>1, Associative, ZenonT(40)
  <2> QED
    BY <1>2, <2>1, <2>2
<1>6. lq.seen = Len(begun) + Len(left)
  <2>1. lq.seen = Len(ran["loop"]) + Len(lq.batch)
    BY <1>1 DEF QueuesInv, RoundAccounts
  <2>2. Len(ran["loop"]) \in Nat /\ Len(lq.batch) \in Nat
    BY <1>1, LenProperties
  <2>3. Len(begun) = Len(ran["loop"]) + 1 /\ Len(left) = Len(lq.batch) - 1
    BY <1>2, Zenon
  <2>4. Len(ran["loop"]) + Len(lq.batch) = (Len(ran["loop"]) + 1) + (Len(lq.batch) - 1)
    BY <2>2, Sums, Zenon
  <2> QED
    BY <2>1, <2>3, <2>4, Zenon
<1> QED
  BY <1>1, <1>3, <1>4, <1>5, <1>6 DEF QueuesInv, DispatchAccounts, LoopAccounts, RoundAccounts

LEMMA StepKeepsQueuesInv == QueuesInv /\ [QueuesNext]_queuesVars => QueuesInv'
<1> SUFFICES ASSUME QueuesInv, [QueuesNext]_queuesVars PROVE QueuesInv'
  OBVIOUS
<1>1. CASE StopQueue \/ StopReturns \/ LoopHead \/ TaskEnds
  <2>1. QueuesTypeOK' /\ dq'.tasks = dq.tasks /\ UNCHANGED <<lq, given, ran>>
    BY <1>1 DEF StopQueue, StopReturns, LoopHead, TaskEnds, QueuesInv, QueuesTypeOK
  <2> QED
    BY <2>1 DEF QueuesInv, DispatchAccounts, LoopAccounts, RoundAccounts
<1>2. CASE RunOnceTaskEnds
  <2>1. /\ QueuesTypeOK' /\ lq'.tasks = lq.tasks /\ lq'.batch = lq.batch /\ lq'.seen = lq.seen
        /\ lq.task # "none" /\ UNCHANGED <<dq, given, ran>>
    BY <1>2 DEF RunOnceTaskEnds, QueuesInv, QueuesTypeOK
  <2> QED
    BY <2>1 DEF QueuesInv, DispatchAccounts, LoopAccounts, RoundAccounts
<1>3. CASE UNCHANGED queuesVars
  BY <1>3 DEF queuesVars, QueuesInv, QueuesTypeOK, DispatchAccounts, LoopAccounts, RoundAccounts
<1> QED
  BY <1>1, <1>2, <1>3, DispatchTaskKeeps, LoopWakesKeeps, AyncKeeps, RunOnceKeeps,
     RunOnceTaskKeeps DEF QueuesNext, QueueThread, Runner

-----------------------------------------------------------------------------
(* The theorem.                                                            *)

LEMMA InvGivesOrder == QueuesInv => QueuesInOrder
<1> SUFFICES ASSUME QueuesInv PROVE QueuesInOrder
  OBVIOUS
<1>1. /\ ran["dispatch"] \in Seq(Jobs) /\ ran["loop"] \in Seq(Jobs) /\ dq.tasks \in Seq(Jobs)
      /\ lq.batch \in Seq(Jobs) /\ lq.tasks \in Seq(Jobs) /\ lq.batch \o lq.tasks \in Seq(Jobs)
  BY ConcatProperties DEF QueuesInv, QueuesTypeOK, Queue
<1>2. IsPrefix(ran["dispatch"], given["dispatch"]) /\ IsPrefix(ran["loop"], given["loop"])
  BY <1>1, FirstIsPrefix DEF QueuesInv, DispatchAccounts, LoopAccounts
<1>3. lq.task # "none" => Len(ran["loop"]) <= lq.seen
  <2> SUFFICES ASSUME lq.task # "none" PROVE Len(ran["loop"]) <= lq.seen
    OBVIOUS
  <2>1. Len(ran["loop"]) \in Nat /\ Len(lq.batch) \in Nat
    BY <1>1, LenProperties
  <2>2. lq.seen = Len(ran["loop"]) + Len(lq.batch)
    BY DEF QueuesInv, RoundAccounts
  <2>3. Len(ran["loop"]) <= Len(ran["loop"]) + Len(lq.batch)
    BY <2>1, Sums, Zenon
  <2> QED
    BY <2>2, <2>3, Zenon
<1> QED
  BY <1>2, <1>3 DEF QueuesInOrder, Queue

\* Both queues begin their tasks in the order they were given in, each once, and
\* a round of a loop queue runs no task that came after it began.
THEOREM QueuesStayInOrder == QueuesSpec => []QueuesInOrder
<1>1. QueuesInit => QueuesInv
  BY InitQueuesInv
<1>2. QueuesInv /\ [QueuesNext]_queuesVars => QueuesInv'
  BY StepKeepsQueuesInv
<1>3. QueuesInv => QueuesInOrder
  BY InvGivesOrder
<1> QED
  BY <1>1, <1>2, <1>3, PTL DEF QueuesSpec

=============================================================================
