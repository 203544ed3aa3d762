----------------------------- MODULE UtilProofs -----------------------------
(***************************************************************************)
(* Proofs about src/util: TimerManager, for any heap, any delays and any   *)
(* number of timers and closures in flight; LogFiles, for any number and   *)
(* size of files, any lines, and any renames that fail; DailyLog, for any  *)
(* calendar and any number of days kept; RingBuffer, for any bytes, any    *)
(* capacity and any lengths.                                               *)
(***************************************************************************)
EXTENDS TimerManager, LogFiles, DailyLog, RingBuffer, WellFoundedInduction, FiniteSetTheorems,
        SequenceTheorems, TLAPS

-----------------------------------------------------------------------------
(* TimerManager.                                                           *)

\* What HeapSound needs of the types.
HeapTypes ==
    /\ alive \in SUBSET Slots
    /\ queue \in SUBSET Slots
    /\ tasks \in Seq({"add", "del"} \X Slots)
    /\ firing \in Slots \cup {NoTimer}
    /\ loopPc \in LoopPcs

\* HeapSound with the shape it keeps step by step: no timer is being called
\* except in a callback.
HeapInv ==
    /\ HeapTypes
    /\ HeapSound
    /\ loopPc # "callback" => firing = NoTimer

\* Appending a closure adds it to those in flight, and only it.
LEMMA InFlightAppend ==
  ASSUME NEW s \in Slots, NEW r \in Slots, NEW op \in {"add", "del"}, HeapTypes,
         tasks' = Append(tasks, <<op, r>>)
  PROVE  InFlight(s)' = IF op = "add" /\ s = r
                        THEN InFlight(s) \cup {Len(tasks) + 1} ELSE InFlight(s)
<1>1. /\ DOMAIN tasks = 1..Len(tasks) /\ Len(tasks) \in Nat
      /\ DOMAIN tasks' = 1..(Len(tasks) + 1)
      /\ \A i \in 1..Len(tasks) : tasks'[i] = tasks[i]
      /\ tasks'[Len(tasks) + 1] = <<op, r>>
  BY AppendProperties, LenProperties DEF HeapTypes
<1>2. <<op, r>> = <<"add", s>> <=> op = "add" /\ s = r
  OBVIOUS
<1> QED
  BY <1>1, <1>2 DEF InFlight

\* Running the oldest closure moves the others up by one.
LEMMA InFlightTail ==
  ASSUME NEW s \in Slots, HeapTypes, tasks # <<>>, tasks' = Tail(tasks)
  PROVE  /\ \A i \in InFlight(s)' : i + 1 \in InFlight(s)
         /\ \A i \in InFlight(s) : i = 1 \/ i - 1 \in InFlight(s)'
         /\ 1 \in InFlight(s) <=> Head(tasks) = <<"add", s>>
         /\ InFlight(s) \subseteq Nat \ {0} /\ InFlight(s)' \subseteq Nat \ {0}
<1>1. /\ Len(tasks) \in Nat \ {0} /\ DOMAIN tasks = 1..Len(tasks)
      /\ DOMAIN tasks' = 1..(Len(tasks) - 1)
      /\ \A i \in 1..(Len(tasks) - 1) : tasks'[i] = tasks[i + 1]
      /\ Head(tasks) = tasks[1]
  BY EmptySeq, HeadTailProperties, LenProperties DEF HeapTypes
<1> QED
  BY <1>1 DEF InFlight

\* Each step of the manager, of its clients and of the loop keeps HeapInv.
LEMMA StepKeepsHeap ==
  ASSUME HeapInv, [TimersNext]_timerVars
  PROVE  HeapInv'
<1> USE SlotsAssumption
    DEF HeapInv, HeapTypes, HeapSound, LoopPcs, heapVars, passVars, askVars
<1>1. ASSUME tasks' = tasks PROVE \A s \in Slots : InFlight(s)' = InFlight(s)
  BY <1>1 DEF InFlight
<1>2. ASSUME NEW s \in Slots, NEW ms \in Delays, AddInLoop(s, ms) PROVE HeapInv'
  BY <1>1, <1>2 DEF AddInLoop, NewTimer, OnLoop
<1>3. ASSUME NEW s \in Slots, NEW ms \in Delays, AddOffLoop(s, ms) PROVE HeapInv'
  <2>1. \A r \in Slots : InFlight(r)' = IF r = s THEN InFlight(r) \cup {Len(tasks) + 1}
                                        ELSE InFlight(r)
    BY <1>3, InFlightAppend DEF AddOffLoop
  <2>2. InFlight(s) = {}
    BY <1>3 DEF AddOffLoop, NewTimer
  <2>3. tasks' \in Seq({"add", "del"} \X Slots)
    BY <1>3 DEF AddOffLoop
  <2>4. /\ s \notin alive /\ alive' = alive \cup {s}
        /\ queue' = queue /\ firing' = firing /\ loopPc' = loopPc
    BY <1>3 DEF AddOffLoop, NewTimer
  <2>5. s # firing
    BY <2>4
  <2>6. InFlight(s)' = {Len(tasks) + 1}
    BY <2>1, <2>2
  <2>7. \A r \in Slots \ {s} : InFlight(r)' = InFlight(r)
    BY <2>1
  <2>8. \A r \in Slots : InFlight(r)' # {} =>
           /\ r \in alive' \ queue'
           /\ r # firing'
           /\ \A i, j \in InFlight(r)' : i = j
    BY <2>4, <2>5, <2>6, <2>7
  <2>9. \A r \in alive' : r \in queue' \/ r = firing' \/ InFlight(r)' # {}
    BY <2>4, <2>6, <2>7
  <2> QED
    BY <2>3, <2>4, <2>8, <2>9
<1>4. ASSUME NEW s \in Slots, DelInLoop(s) PROVE HeapInv'
  BY <1>1, <1>4 DEF DelInLoop, RemoveTimer, OnLoop, Owned
<1>5. ASSUME NEW s \in Slots, DelOffLoop(s) PROVE HeapInv'
  <2>1. \A r \in Slots : InFlight(r)' = InFlight(r)
    BY <1>5, InFlightAppend DEF DelOffLoop
  <2>2. tasks' \in Seq({"add", "del"} \X Slots)
    BY <1>5 DEF DelOffLoop
  <2> QED
    BY <1>5, <2>1, <2>2 DEF DelOffLoop
<1>6. ASSUME NEW s \in Slots, PopDue(s) PROVE HeapInv'
  BY <1>1, <1>6 DEF PopDue, Top
<1>7. CASE RunTask
  <2>0. /\ Head(tasks) \in {"add", "del"} \X Slots
        /\ tasks' \in Seq({"add", "del"} \X Slots)
    BY <1>7, HeadTailProperties DEF RunTask
  <2> PICK op \in {"add", "del"}, r \in Slots : Head(tasks) = <<op, r>>
    BY <2>0
  <2>1. /\ op \in {"add", "del"} /\ r \in Slots /\ Head(tasks) = <<op, r>>
        /\ tasks' \in Seq({"add", "del"} \X Slots)
    BY <2>0
  <2>2. \A s \in Slots :
           /\ \A i \in InFlight(s)' : i + 1 \in InFlight(s)
           /\ \A i \in InFlight(s) : i = 1 \/ i - 1 \in InFlight(s)'
           /\ 1 \in InFlight(s) <=> Head(tasks) = <<"add", s>>
           /\ InFlight(s) \subseteq Nat \ {0} /\ InFlight(s)' \subseteq Nat \ {0}
    BY <1>7, InFlightTail DEF RunTask
  <2>3. \A s \in Slots :
           /\ InFlight(s)' # {} => InFlight(s) # {}
           /\ (\A i, j \in InFlight(s) : i = j) => \A i, j \in InFlight(s)' : i = j
    BY <2>2
  <2>4. CASE op = "add"
    <3>1. InFlight(r) # {} /\ InFlight(r)' = {}
      <4>1. 1 \in InFlight(r)
        BY <2>1, <2>2, <2>4
      <4>2. \A i \in InFlight(r) : i = 1
        BY <2>1, <4>1
      <4>3. ASSUME NEW i \in InFlight(r)' PROVE FALSE
        <5>1. i \in Nat \ {0} /\ i + 1 \in InFlight(r)
          BY <2>1, <2>2, <4>3
        <5>2. i + 1 = 1
          BY <4>2, <5>1
        <5> QED
          BY <5>1, <5>2
      <4> QED
        BY <4>1, <4>3
    <3>2. queue' = queue \cup {r} /\ alive' = alive
      BY <1>7, <2>4 DEF RunTask
    <3>3. \A s \in Slots : s # r /\ InFlight(s) # {} => InFlight(s)' # {}
      BY <2>1, <2>2
    <3>4. r \in alive \ queue /\ loopPc = "user" /\ loopPc' = loopPc /\ firing' = firing
      BY <1>7, <3>1, <2>1 DEF RunTask
    <3>5. ASSUME NEW s \in Slots, InFlight(s)' # {}
          PROVE  /\ s \in alive' \ queue'
                 /\ s # firing'
                 /\ \A i, j \in InFlight(s)' : i = j
      <4>1. s # r /\ InFlight(s) # {}
        BY <2>3, <3>1, <3>5
      <4>2. \A i, j \in InFlight(s) : i = j
        BY <4>1
      <4> QED
        BY <2>3, <3>2, <3>4, <4>1, <4>2
    <3>6. \A s \in alive' : s \in queue' \/ s = firing' \/ InFlight(s)' # {}
      BY <3>2, <3>3, <3>4
    <3> QED
      BY <2>1, <3>2, <3>4, <3>5, <3>6
  <2>5. CASE op = "del"
    <3>1. queue' = queue \ {r} /\ alive' = IF r \in queue THEN alive \ {r} ELSE alive
      BY <1>7, <2>5 DEF RunTask, RemoveTimer
    <3>2. \A s \in Slots : InFlight(s) # {} => InFlight(s)' # {}
      BY <2>1, <2>2, <2>5
    <3> QED
      BY <1>7, <2>1, <2>3, <3>1, <3>2 DEF RunTask
  <2> QED
    BY <2>1, <2>4, <2>5
<1>8. ASSUME NEW ms \in Delays, Rearm(ms) PROVE HeapInv'
  BY <1>1, <1>8 DEF Rearm
<1>9. CASE Expired
  BY <1>1, <1>9 DEF Expired
<1>10. CASE StartPass \/ PassEnds \/ Wakes \/ Tick
  BY <1>1, <1>10 DEF StartPass, PassEnds, Wakes, Tick
<1>11. CASE UNCHANGED timerVars
  BY <1>1, <1>11 DEF timerVars
<1> QED
  BY <1>2, <1>3, <1>4, <1>5, <1>6, <1>7, <1>8, <1>9, <1>10, <1>11 DEF TimersNext

\* The manager, its clients on and off the loop, and the loop never delete a
\* timer twice, hold a dead one, or forget a live one.
THEOREM HeapStaysSound == TimersSpec => []HeapSound
<1>1. TimersInit => HeapInv
  BY DEF TimersInit, HeapInv, HeapTypes, HeapSound, InFlight, LoopPcs
<1>2. HeapInv /\ [TimersNext]_timerVars => HeapInv'
  BY StepKeepsHeap
<1>3. HeapInv => HeapSound
  BY DEF HeapInv
<1> QED
  BY <1>1, <1>2, <1>3, PTL DEF TimersSpec

-----------------------------------------------------------------------------
(* Timers are on time.  That none is called twice in a pass rests on the   *)
(* history of objects: an address says nothing, as it is used again.       *)

\* TimersTypeOK but for what HeapTypes and TimeInv give.
ValueTypes ==
    /\ now \in 0..MaxTime
    /\ expire \in [Slots -> Nat] /\ due \in [Slots -> Nat]
    /\ strong \in [Slots -> BOOLEAN]
    /\ passNow \in 0..MaxTime
    /\ wakeAt \in Nat
    /\ id \in [Slots -> 0..MaxTimers]
    /\ births \in 0..MaxTimers
    /\ asked \in SUBSET (0..MaxTimers)
    /\ rearmed \in SUBSET (0..MaxTimers)
    /\ fired \in SUBSET (0..births)

\* Objects that live at the same time are different ones.
IdInv ==
    /\ \A s \in alive : id[s] \in 1..births
    /\ \A r, s \in alive : id[r] = id[s] => r = s

\* A timer expires when it is due or later; one that has fired in this pass and lives
\* on expires after the pass began.
TimeInv ==
    /\ \A s \in Slots : due[s] <= expire[s]
    /\ \A s \in alive : s # firing /\ id[s] \in fired /\ loopPc \in {"pass", "callback"}
                           => expire[s] > passNow
    /\ NeverEarly

\* The history of what has fired grows within its type.
LEMMA FiredGrows ==
  ASSUME ValueTypes, NEW n \in 1..births
  PROVE  /\ fired \cup {n} \in SUBSET (0..births)
         /\ rearmed \cup {n} \in SUBSET (0..MaxTimers)
<1>1. births \in Nat /\ births <= MaxTimers /\ MaxTimers \in Nat
  BY TimersAssumption DEF ValueTypes
<1>2. n \in 0..births /\ n \in 0..MaxTimers
  BY <1>1
<1> QED
  BY <1>2 DEF ValueTypes

LEMMA NewTimerKeepsTime ==
  ASSUME HeapInv, ValueTypes, IdInv, TimeInv,
         NEW s \in Slots, NEW e \in Nat, NEW d \in Nat, d <= e, NewTimer(s, e, d),
         UNCHANGED <<now, loopPc, passVars, askVars>>
  PROVE  ValueTypes' /\ IdInv' /\ TimeInv'
<1>1. /\ s \notin alive /\ alive' = alive \cup {s}
      /\ births' = births + 1 /\ births + 1 \in 0..MaxTimers
      /\ id' = [id EXCEPT ![s] = births + 1]
      /\ expire' = [expire EXCEPT ![s] = e] /\ due' = [due EXCEPT ![s] = d]
      /\ strong' = [strong EXCEPT ![s] = TRUE]
  BY TimersAssumption DEF NewTimer, ValueTypes
<1>2. births \in Nat /\ fired \in SUBSET (0..births) /\ births + 1 \notin fired
  BY DEF ValueTypes
<1>3. ValueTypes'
  BY <1>1, <1>2 DEF ValueTypes, passVars, askVars
<1>4. /\ id'[s] = births + 1
      /\ \A r \in alive : id'[r] = id[r] /\ expire'[r] = expire[r] /\ r # s
      /\ \A r \in Slots : due'[r] <= expire'[r]
  BY <1>1 DEF ValueTypes, TimeInv, HeapInv, HeapTypes
<1>5. IdInv'
  BY <1>1, <1>2, <1>4 DEF IdInv
<1>6. NeverEarly'
  <2>1. loopPc = "callback" => firing \in alive /\ due'[firing] = due[firing]
    BY <1>1 DEF HeapInv, HeapTypes, HeapSound, ValueTypes
  <2> QED
    BY <1>4, <2>1 DEF TimeInv, NeverEarly, passVars
<1> QED
  BY <1>1, <1>2, <1>3, <1>4, <1>5, <1>6 DEF TimeInv, passVars

\* Deleting, on the loop or off it.
LEMMA DeleteKeepsTime ==
  ASSUME HeapInv, ValueTypes, IdInv, TimeInv, alive' \subseteq alive,
         strong' \in [Slots -> BOOLEAN], asked' \in SUBSET (0..MaxTimers),
         UNCHANGED <<now, expire, due, id, births, loopPc, passVars, rearmed>>
  PROVE  ValueTypes' /\ IdInv' /\ TimeInv'
<1>1. ValueTypes'
  BY DEF ValueTypes, passVars
<1>2. IdInv'
  BY DEF IdInv
<1>3. TimeInv'
  BY DEF TimeInv, NeverEarly, passVars
<1> QED
  BY <1>1, <1>2, <1>3

LEMMA PopKeepsTime ==
  ASSUME HeapInv, ValueTypes, IdInv, TimeInv, NEW s \in Slots, PopDue(s)
  PROVE  ValueTypes' /\ IdInv' /\ TimeInv'
<1>1. /\ s \in queue /\ s \in alive /\ s # firing /\ firing = NoTimer /\ loopPc = "pass"
      /\ expire[s] <= passNow
      /\ UNCHANGED <<now, expire, strong, id, births, due, tasks, passNow, wakeAt, askVars>>
  BY SlotsAssumption DEF PopDue, Top, HeapInv, HeapSound
<1>2. id[s] \in 1..births /\ id[s] \notin fired /\ due[s] <= passNow
  <2>1. due[s] <= expire[s] /\ due[s] \in Nat /\ expire[s] \in Nat /\ passNow \in Nat
    BY DEF TimeInv, ValueTypes
  <2>2. id[s] \in fired => expire[s] > passNow
    BY <1>1 DEF TimeInv
  <2> QED
    BY <1>1, <2>1, <2>2 DEF IdInv
<1>3. CASE strong[s]
  <2>1. firing' = s /\ loopPc' = "callback" /\ UNCHANGED <<alive, fired>>
    BY <1>3 DEF PopDue
  <2>2. ValueTypes' /\ IdInv'
    BY <1>1, <2>1 DEF ValueTypes, IdInv, askVars
  <2>3. NeverEarly'
    BY <1>1, <1>2, <2>1 DEF NeverEarly
  <2>4. ASSUME NEW r \in alive, r # s, id[r] \in fired PROVE expire[r] > passNow
    <3>1. r # firing
      BY <1>1, <2>4, SlotsAssumption DEF HeapInv, HeapTypes
    <3> QED
      BY <1>1, <2>4, <3>1 DEF TimeInv
  <2> QED
    BY <1>1, <2>1, <2>2, <2>3, <2>4 DEF TimeInv
<1>4. CASE ~strong[s]
  <2>1. /\ alive' = alive \ {s} /\ fired' = fired \cup {id[s]}
        /\ UNCHANGED <<firing, loopPc>>
    BY <1>4 DEF PopDue
  <2>2. ValueTypes'
    <3>1. fired' \in SUBSET (0..births)
      BY <1>2, <2>1, FiredGrows
    <3> QED
      BY <1>1, <3>1 DEF ValueTypes, askVars
  <2>3. IdInv' /\ \A r \in alive' : id[r] # id[s]
    BY <1>1, <2>1 DEF IdInv
  <2>4. TimeInv'
    BY <1>1, <2>1, <2>3 DEF TimeInv, NeverEarly
  <2> QED
    BY <2>2, <2>3, <2>4
<1> QED
  BY <1>3, <1>4

LEMMA RearmKeepsTime ==
  ASSUME HeapInv, ValueTypes, IdInv, TimeInv, NEW ms \in Delays, Rearm(ms)
  PROVE  ValueTypes' /\ IdInv' /\ TimeInv'
<1>1. /\ firing \in alive /\ firing \in Slots /\ loopPc = "callback" /\ loopPc' = "pass"
      /\ expire' = [expire EXCEPT ![firing] = passNow + ms]
      /\ due' = [due EXCEPT ![firing] = passNow + ms]
      /\ rearmed' = rearmed \cup {id[firing]} /\ fired' = fired \cup {id[firing]}
      /\ UNCHANGED <<now, alive, strong, id, births, tasks, passNow, wakeAt, asked>>
  BY DEF Rearm, HeapInv, HeapSound, HeapTypes
<1>2. ms \in Nat /\ ms > 0 /\ passNow \in Nat /\ passNow + ms \in Nat /\ passNow + ms > passNow
  BY DelaysAssumption DEF ValueTypes
<1>3. id[firing] \in 1..births
  BY <1>1 DEF IdInv
<1>4. ValueTypes'
  <2>1. fired' \in SUBSET (0..births) /\ rearmed' \in SUBSET (0..MaxTimers)
    BY <1>1, <1>3, FiredGrows
  <2>2. expire' \in [Slots -> Nat] /\ due' \in [Slots -> Nat]
    BY <1>1, <1>2 DEF ValueTypes
  <2> QED
    BY <1>1, <2>1, <2>2 DEF ValueTypes
<1>5. IdInv'
  BY <1>1 DEF IdInv
<1>6. \A s \in Slots : due'[s] <= expire'[s]
  BY <1>1, <1>2 DEF TimeInv, ValueTypes
<1>7. ASSUME NEW s \in alive, id[s] \in fired' PROVE expire'[s] > passNow
  <2>1. CASE s = firing
    BY <1>1, <1>2, <2>1 DEF ValueTypes
  <2>2. CASE s # firing
    <3>1. id[s] # id[firing]
      BY <1>1, <2>2 DEF IdInv
    <3>2. expire'[s] = expire[s] /\ id[s] \in fired
      BY <1>1, <1>7, <2>2, <3>1 DEF ValueTypes
    <3> QED
      BY <1>1, <2>2, <3>2 DEF TimeInv
  <2> QED
    BY <2>1, <2>2
<1>8. NeverEarly'
  BY <1>1 DEF NeverEarly
<1> QED
  BY <1>1, <1>4, <1>5, <1>6, <1>7, <1>8 DEF TimeInv

LEMMA ExpiredKeepsTime ==
  ASSUME HeapInv, ValueTypes, IdInv, TimeInv, Expired
  PROVE  ValueTypes' /\ IdInv' /\ TimeInv'
<1>1. /\ firing \in alive /\ loopPc = "callback" /\ loopPc' = "pass"
      /\ alive' = alive \ {firing}
      /\ rearmed' = rearmed \ {id[firing]} /\ fired' = fired \cup {id[firing]}
      /\ UNCHANGED <<now, queue, expire, strong, id, births, due, tasks, passNow, wakeAt, asked>>
  BY DEF Expired, HeapInv, HeapSound
<1>2. id[firing] \in 1..births /\ \A s \in alive' : id[s] # id[firing] /\ s # firing
  BY <1>1 DEF IdInv
<1>3. ValueTypes'
  <2>1. fired' \in SUBSET (0..births)
    BY <1>1, <1>2, FiredGrows
  <2> QED
    BY <1>1, <2>1 DEF ValueTypes
<1>4. IdInv'
  BY <1>1 DEF IdInv
<1>5. TimeInv'
  BY <1>1, <1>2 DEF TimeInv, NeverEarly
<1> QED
  BY <1>3, <1>4, <1>5

LEMMA StepKeepsTime ==
  ASSUME HeapInv, ValueTypes, IdInv, TimeInv, [TimersNext]_timerVars
  PROVE  ValueTypes' /\ IdInv' /\ TimeInv'
<1>1. ASSUME NEW s \in Slots, NEW ms \in Delays, AddInLoop(s, ms) \/ AddOffLoop(s, ms)
      PROVE  ValueTypes' /\ IdInv' /\ TimeInv'
  <2>1. ms \in Nat /\ now + ms \in Nat /\ now + ms <= now + ms /\ 0 <= ms
    BY DelaysAssumption DEF ValueTypes
  <2>2. CASE AddInLoop(s, ms)
    <3>1. NewTimer(s, now + ms, now + ms) /\ UNCHANGED <<now, loopPc, passVars, askVars>>
      BY <2>2 DEF AddInLoop
    <3> QED
      BY <2>1, <3>1, NewTimerKeepsTime
  <2>3. CASE AddOffLoop(s, ms)
    <3>1. NewTimer(s, ms, 0) /\ UNCHANGED <<now, loopPc, passVars, askVars>>
      BY <2>3 DEF AddOffLoop
    <3> QED
      BY <2>1, <3>1, NewTimerKeepsTime
  <2> QED
    BY <1>1, <2>2, <2>3
<1>2. ASSUME NEW s \in Slots, DelInLoop(s) \/ DelOffLoop(s)
      PROVE  ValueTypes' /\ IdInv' /\ TimeInv'
  <2>1. asked' = asked \cup {id[s]} /\ strong' \in [Slots -> BOOLEAN]
    BY <1>2 DEF DelInLoop, DelOffLoop, ValueTypes
  <2>2. asked' \in SUBSET (0..MaxTimers)
    BY <2>1 DEF ValueTypes
  <2>3. /\ alive' \subseteq alive
        /\ UNCHANGED <<now, expire, due, id, births, loopPc, passVars, rearmed>>
    BY <1>2 DEF DelInLoop, DelOffLoop, RemoveTimer
  <2> QED
    BY <2>1, <2>2, <2>3, DeleteKeepsTime
<1>3. CASE RunTask
  <2>1. alive' \subseteq alive
    BY <1>3 DEF RunTask, RemoveTimer
  <2> QED
    BY <1>3, <2>1, DeleteKeepsTime DEF RunTask, askVars, ValueTypes
<1>4. CASE StartPass
  BY <1>4 DEF StartPass, heapVars, askVars, ValueTypes, IdInv, TimeInv, NeverEarly
<1>5. CASE PassEnds
  <2>1. wakeAt' \in Nat
    <3>1. CASE wakeAt' = now + PollTimeout(0)
      BY <3>1 DEF PollTimeout, ValueTypes
    <3>2. ASSUME NEW s \in queue, expire[s] > passNow, wakeAt' = now + PollTimeout(NextDelay(s))
          PROVE  wakeAt' \in Nat
      <4>1. expire[s] - passNow \in Nat \ {0} /\ now \in Nat
        BY <3>2 DEF ValueTypes, HeapInv, HeapTypes
      <4>2. (expire[s] - passNow) \div 1000 \in Nat
        BY <4>1
      <4> QED
        BY <3>2, <4>1, <4>2 DEF PollTimeout, NextDelay
    <3> QED
      BY <1>5, <3>1, <3>2 DEF PassEnds
  <2>2. /\ UNCHANGED <<now, heapVars, passNow, firing, fired, askVars>>
        /\ loopPc' = "sleep"
    BY <1>5 DEF PassEnds
  <2> QED
    BY <2>1, <2>2 DEF heapVars, askVars, ValueTypes, IdInv, TimeInv, NeverEarly
<1>6. CASE Wakes
  BY <1>6 DEF Wakes, heapVars, passVars, askVars, ValueTypes, IdInv, TimeInv, NeverEarly
<1>7. CASE Tick
  <2>1. now' \in 0..MaxTime
    BY <1>7, ClockAssumption DEF Tick, ValueTypes
  <2> QED
    BY <1>7, <2>1 DEF Tick, heapVars, passVars, askVars, ValueTypes, IdInv, TimeInv, NeverEarly
<1>8. CASE UNCHANGED timerVars
  BY <1>8 DEF timerVars, ValueTypes, IdInv, TimeInv, NeverEarly
<1> QED
  BY <1>1, <1>2, <1>3, <1>4, <1>5, <1>6, <1>7, <1>8, PopKeepsTime, RearmKeepsTime,
     ExpiredKeepsTime DEF TimersNext

\* The loop's sleep: what is left of it when it begins is set by the earliest timer,
\* and time only shortens it, as the queue is left alone.
LEMMA StepKeepsSleep ==
  ASSUME HeapInv, ValueTypes, SleepsInTime, [TimersNext]_timerVars
  PROVE  SleepsInTime'
<1>1. ASSUME loopPc' # "sleep" PROVE SleepsInTime'
  BY <1>1 DEF SleepsInTime
<1>2. ASSUME queue' = queue, \A s \in queue : expire'[s] = expire[s],
             UNCHANGED <<loopPc, wakeAt, passNow>>, now <= now', now' \in Nat
      PROVE  SleepsInTime'
  BY <1>2 DEF SleepsInTime, ValueTypes, HeapInv, HeapTypes
<1>3. CASE PassEnds
  <2>1. /\ UNCHANGED <<now, queue, expire, passNow>>
        /\ \/ queue = {}
           \/ \E s \in queue : Top(s) /\ expire[s] > passNow
                               /\ wakeAt' = now + PollTimeout(NextDelay(s))
    BY <1>3 DEF PassEnds, heapVars
  <2>2. ASSUME NEW s \in queue, Top(s), expire[s] > passNow,
               wakeAt' = now + PollTimeout(NextDelay(s)), NEW r \in queue
        PROVE  wakeAt' - now <= expire[r] - passNow
    <3>1. expire[s] \in Nat /\ expire[r] \in Nat /\ passNow \in Nat /\ now \in Nat
          /\ expire[s] <= expire[r]
      BY <2>2 DEF Top, ValueTypes, HeapInv, HeapTypes
    <3>2. (expire[s] - passNow) \div 1000 <= expire[s] - passNow
          /\ (expire[s] - passNow) \div 1000 \in Nat
      BY <2>2, <3>1
    <3>3. wakeAt' = now + (expire[s] - passNow) \div 1000
      BY <2>2, <3>1 DEF PollTimeout, NextDelay
    <3> QED
      BY <3>1, <3>2, <3>3
  <2> QED
    BY <2>1, <2>2 DEF SleepsInTime
<1>4. CASE Tick
  BY <1>2, <1>4, ClockAssumption DEF Tick, heapVars, passVars, ValueTypes
<1>5. ASSUME NEW s \in Slots, NEW ms \in Delays, AddOffLoop(s, ms) PROVE SleepsInTime'
  <2>1. s \notin queue /\ expire' = [expire EXCEPT ![s] = ms]
        /\ UNCHANGED <<now, queue, loopPc, passVars>>
    BY <1>5 DEF AddOffLoop, NewTimer, HeapInv, HeapSound
  <2>2. \A r \in queue : expire'[r] = expire[r]
    BY <2>1 DEF ValueTypes, HeapInv, HeapTypes
  <2> QED
    BY <1>2, <2>1, <2>2 DEF passVars, ValueTypes
<1>6. ASSUME NEW s \in Slots, DelOffLoop(s) PROVE SleepsInTime'
  BY <1>2, <1>6 DEF DelOffLoop, passVars, ValueTypes
<1>7. CASE UNCHANGED timerVars
  BY <1>2, <1>7 DEF timerVars, ValueTypes
<1>8. ASSUME NEW s \in Slots, NEW ms \in Delays, AddInLoop(s, ms) \/ Rearm(ms)
      PROVE  loopPc' # "sleep"
  BY <1>8 DEF AddInLoop, OnLoop, Rearm
<1>9. ASSUME NEW s \in Slots, DelInLoop(s) \/ PopDue(s) PROVE loopPc' # "sleep"
  BY <1>9 DEF DelInLoop, OnLoop, PopDue
<1>10. RunTask \/ StartPass \/ Expired \/ Wakes => loopPc' # "sleep"
  BY DEF RunTask, StartPass, Expired, Wakes
<1>11. ASSUME NEW ms \in Delays, Rearm(ms) PROVE loopPc' # "sleep"
  BY <1>11 DEF Rearm
<1> QED
  BY <1>1, <1>3, <1>4, <1>5, <1>6, <1>7, <1>8, <1>9, <1>10, <1>11 DEF TimersNext

\* Whatever callbacks delete and add, however late the loop is and however closures and
\* expiries interleave, no timer is called early or twice in a pass, and none is late by
\* more than the pass before the sleep took.
THEOREM TimersStayOnTime == TimersSpec => []TimersOnTime
<1> DEFINE Inv == HeapInv /\ ValueTypes /\ IdInv /\ TimeInv /\ SleepsInTime
<1>1. TimersInit => Inv
  <2> SUFFICES ASSUME TimersInit PROVE Inv
    OBVIOUS
  <2>1. HeapInv
    BY DEF TimersInit, HeapInv, HeapTypes, HeapSound, InFlight, LoopPcs
  <2>2. ValueTypes
    BY ClockAssumption, TimersAssumption DEF TimersInit, ValueTypes
  <2>3. IdInv /\ TimeInv /\ SleepsInTime
    BY DEF TimersInit, IdInv, TimeInv, NeverEarly, SleepsInTime
  <2> QED
    BY <2>1, <2>2, <2>3
<1>2. Inv /\ [TimersNext]_timerVars => Inv'
  BY StepKeepsHeap, StepKeepsTime, StepKeepsSleep
<1>3. Inv => TimersOnTime
  <2> SUFFICES ASSUME Inv PROVE TimersOnTime
    OBVIOUS
  <2>1. fired \in SUBSET (0..MaxTimers)
    BY TimersAssumption DEF ValueTypes
  <2>2. TimersTypeOK
    BY <2>1 DEF HeapInv, HeapTypes, ValueTypes, TimersTypeOK
  <2> QED
    BY <2>2 DEF TimeInv, TimersOnTime
<1> HIDE DEF Inv
<1> QED
  BY <1>1, <1>2, <1>3, PTL DEF TimersSpec

-----------------------------------------------------------------------------
(* Recursive functions.  The prover knows nothing of the value of          *)
(* f[i \in 0..n] == ... but that it is a CHOOSE: that there is such a      *)
(* function is proved here, once, for a step given as a function.          *)

LEMMA LeastOf ==
  ASSUME NEW T \in SUBSET Nat, T # {}
  PROVE  \E n \in T : \A m \in T : n <= m
<1>1. PICK n \in T : \A m \in T : <<m, n>> \notin OpToRel(<, Nat)
  BY NatLessThanWellFounded, WFMin
<1>2. \A m \in T : ~(m < n)
  BY <1>1 DEF OpToRel
<1> QED
  BY <1>2

\* Induction up to n, over a set.
LEMMA UpTo ==
  ASSUME NEW n \in Nat, NEW T, 0 \in T, \A i \in 1..n : i - 1 \in T => i \in T
  PROVE  \A i \in 0..n : i \in T
<1> DEFINE Out == {i \in 0..n : i \notin T}
<1> SUFFICES ASSUME Out # {} PROVE FALSE
  OBVIOUS
<1>1. Out \in SUBSET Nat
  OBVIOUS
<1>2. PICK i \in Out : \A j \in Out : i <= j
  BY <1>1, LeastOf
<1>3. i \in 0..n /\ i \notin T
  OBVIOUS
<1>4. i \in 1..n /\ i - 1 \in 0..n /\ i - 1 \notin Out
  BY <1>2, <1>3
<1>5. i - 1 \in T
  BY <1>4
<1> QED
  BY <1>3, <1>4, <1>5

Steps(n, S) == [1..n -> [S -> S]]

Iterates(g, n, S, base, step) ==
    g \in [0..n -> S] /\ g[0] = base /\ \A i \in 1..n : g[i] = step[i][g[i - 1]]

\* A step from S to S can be taken any number of times, beginning in S.
LEMMA Iterated ==
  ASSUME NEW n \in Nat, NEW S, NEW base \in S, NEW step \in Steps(n, S)
  PROVE  \E g : Iterates(g, n, S, base, step)
<1> USE DEF Steps
<1> DEFINE Is(i, g) == g \in [0..i -> S] /\ g[0] = base /\ \A j \in 1..i : g[j] = step[j][g[j - 1]]
           T == {i \in 0..n : \E g : Is(i, g)}
<1>1. 0 \in T
  <2>1. Is(0, [j \in 0..0 |-> base])
    OBVIOUS
  <2> HIDE DEF Is
  <2> QED
    BY <2>1
<1>2. ASSUME NEW i \in 1..n, i - 1 \in T PROVE i \in T
  <2>1. PICK g : Is(i - 1, g)
    BY <1>2
  <2> DEFINE h == [j \in 0..i |-> IF j = i THEN step[i][g[i - 1]] ELSE g[j]]
  <2>2. step[i][g[i - 1]] \in S
    <3>1. i - 1 \in 0..(i - 1) /\ step[i] \in [S -> S] /\ g[i - 1] \in S
      BY <2>1
    <3> QED
      BY <3>1
  <2>3. \A j \in 0..i : j = i \/ j \in 0..(i - 1)
    OBVIOUS
  <2>4. h \in [0..i -> S]
    BY <2>1, <2>2, <2>3
  <2>5. h[0] = base /\ \A j \in 1..i : h[j] = step[j][h[j - 1]]
    BY <2>1, <2>3
  <2>6. Is(i, h)
    BY <2>4, <2>5
  <2> HIDE DEF Is, h
  <2> QED
    BY <2>6
<1> HIDE DEF T
<1>3. \A i \in 1..n : i - 1 \in T => i \in T
  BY <1>2
<1>4. \A i \in 0..n : i \in T
  BY <1>1, <1>3, UpTo
<1> QED
  BY <1>4 DEF T, Iterates

-----------------------------------------------------------------------------
(* LogFiles.                                                               *)

Names == {<<i>> : i \in Nat} \cup {<<i, j>> : i \in Nat, j \in Nat}
Files == UNION {[D -> Seq(Nat)] : D \in SUBSET Names}
Rotations == [files : Files, dropped : SUBSET Nat, removed : SUBSET (Names \X BOOLEAN), failed : BOOLEAN]

\* line l is in one file, or in one that was removed
Placed(fs, gone, l) ==
    IF l \in gone THEN \A n \in DOMAIN fs : ~Contains(fs[n], l)
    ELSE \E n \in DOMAIN fs : \A m \in DOMAIN fs : Contains(fs[m], l) <=> m = n

LEMMA FilesAre ==
  ASSUME NEW fs
  PROVE  fs \in Files <=> /\ fs = [n \in DOMAIN fs |-> fs[n]] /\ DOMAIN fs \subseteq Names
                          /\ \A n \in DOMAIN fs : fs[n] \in Seq(Nat)
<1>1. ASSUME fs \in Files
      PROVE  /\ fs = [n \in DOMAIN fs |-> fs[n]] /\ DOMAIN fs \subseteq Names
             /\ \A n \in DOMAIN fs : fs[n] \in Seq(Nat)
  BY <1>1 DEF Files
<1>2. ASSUME /\ fs = [n \in DOMAIN fs |-> fs[n]] /\ DOMAIN fs \subseteq Names
             /\ \A n \in DOMAIN fs : fs[n] \in Seq(Nat)
      PROVE  fs \in Files
  <2>1. DOMAIN fs \in SUBSET Names /\ fs \in [DOMAIN fs -> Seq(Nat)]
    BY <1>2
  <2> QED
    BY <2>1 DEF Files
<1> QED
  BY <1>1, <1>2

\* the place of a file among the names it may get
LEMMA NameFound ==
  ASSUME NEW i \in Nat, NEW held
  PROVE  /\ NameFor(i, held) \in 0..11
         /\ NameFor(i, held) # 0 =>
              /\ NamesFor(i)[NameFor(i, held)] \in Names \ {<<i>>}
              /\ NamesFor(i)[NameFor(i, held)] \in Range(NamesFor(i))
         /\ held = Free => NameFor(i, held) = 1 /\ NamesFor(i)[1] = <<i + 1>>
         /\ Range(NamesFor(i)) \subseteq Names \ {<<i>>}
         /\ \A n \in Range(NamesFor(i)) : n = <<i + 1>> \/ Len(n) = 2
<1> DEFINE at == {k \in 1..Len(NamesFor(i)) : NamesFor(i)[k] \notin held.taken}
<1>1. NameFor(i, held) = IF <<i>> \in held.stuck THEN 0 ELSE IF at # {} THEN Min(at) ELSE 0
  BY DEF NameFor, SelectInSeq
<1>2. Len(NamesFor(i)) = 11
  BY DEF NamesFor
<1>3. at \subseteq 1..11 /\ (held = Free => at = 1..11 /\ <<i>> \notin held.stuck)
  BY <1>2 DEF Free
<1> HIDE DEF at
<1>4. at # {} => Min(at) \in at /\ \A k \in at : Min(at) <= k
  <2>1. ASSUME at # {} PROVE \E n \in at : \A m \in at : n <= m
    BY <1>3, <2>1, LeastOf
  <2> QED
    BY <2>1 DEF Min
<1>5. \A k \in 1..11 : /\ NamesFor(i)[k] \in Names \ {<<i>>}
                       /\ NamesFor(i)[k] = <<i + 1>> \/ Len(NamesFor(i)[k]) = 2
  <2> SUFFICES ASSUME NEW k \in 1..11
               PROVE  /\ NamesFor(i)[k] \in Names \ {<<i>>}
                      /\ NamesFor(i)[k] = <<i + 1>> \/ Len(NamesFor(i)[k]) = 2
    OBVIOUS
  <2>1. CASE k = 1
    <3>1. NamesFor(i)[k] = <<i + 1>> /\ i + 1 \in Nat /\ i + 1 # i
      BY <2>1 DEF NamesFor
    <3> QED
      BY <3>1 DEF Names
  <2>2. CASE k # 1
    <3>1. NamesFor(i)[k] = <<i, k - 2>> /\ k - 2 \in Nat
      BY <2>2 DEF NamesFor
    <3>2. <<i, k - 2>> # <<i>>
      OBVIOUS
    <3> QED
      BY <3>1, <3>2 DEF Names
  <2> QED
    BY <2>1, <2>2
<1>6. NamesFor(i)[1] = <<i + 1>>
  BY DEF NamesFor
<1>7. NameFor(i, held) \in 0..11 /\ (NameFor(i, held) # 0 => NameFor(i, held) \in 1..11)
  <2>1. CASE at = {}
    BY <1>1, <2>1
  <2>2. CASE at # {}
    <3>1. Min(at) \in 1..11
      BY <1>3, <1>4, <2>2
    <3> QED
      BY <1>1, <2>2, <3>1
  <2> QED
    BY <2>1, <2>2
<1>8. held = Free => NameFor(i, held) = 1
  <2>1. CASE held = Free
    <3>1. at = 1..11 /\ <<i>> \notin held.stuck
      BY <1>3, <2>1
    <3>2. NameFor(i, held) = Min(at) /\ Min(at) \in 1..11 /\ Min(at) <= 1
      BY <1>1, <1>4, <3>1
    <3> QED
      BY <3>2
  <2> QED
    BY <2>1
<1>10. \A k \in 1..11 : NamesFor(i)[k] \in Range(NamesFor(i))
  BY DEF NamesFor, Range
<1>9. \A n \in Range(NamesFor(i)) : \E k \in 1..11 : n = NamesFor(i)[k]
  BY DEF NamesFor, Range
<1> QED
  BY <1>5, <1>6, <1>7, <1>8, <1>9, <1>10

LEMMA ClearedIs ==
  ASSUME NEW r \in Rotations, NEW names \in SUBSET Names, NEW givenUp \in BOOLEAN
  PROVE  LET c == Cleared(r, names, givenUp) IN
         /\ c \in Rotations /\ c.failed = givenUp
         /\ DOMAIN c.files = DOMAIN r.files \ names
         /\ \A n \in DOMAIN r.files \ names : c.files[n] = r.files[n]
         /\ c.dropped = r.dropped \cup UNION {Range(r.files[n]) : n \in names \cap DOMAIN r.files}
         /\ \A gone \in c.removed : gone \in r.removed \/ gone[1] \in names \cap DOMAIN r.files
<1> DEFINE cut == names \cap DOMAIN r.files
           fs == [n \in DOMAIN r.files \ cut |-> r.files[n]]
           lost == UNION {Range(r.files[n]) : n \in cut}
           more == {<<n, givenUp>> : n \in {m \in cut : r.files[m] # <<>>}}
<1>1. /\ r.files \in Files /\ r.dropped \in SUBSET Nat /\ r.removed \in SUBSET (Names \X BOOLEAN)
  BY DEF Rotations
<1>2. DOMAIN r.files \subseteq Names /\ \A n \in DOMAIN r.files : r.files[n] \in Seq(Nat)
  BY <1>1, FilesAre
<1>3. /\ DOMAIN fs = DOMAIN r.files \ names /\ fs = [n \in DOMAIN fs |-> fs[n]]
      /\ \A n \in DOMAIN r.files \ names : fs[n] = r.files[n]
  OBVIOUS
<1>4. lost \in SUBSET Nat
  <2>1. \A n \in DOMAIN r.files : Range(r.files[n]) \subseteq Nat
    BY <1>2 DEF Range
  <2> QED
    BY <2>1
<1>5. more \in SUBSET (Names \X BOOLEAN) /\ \A gone \in more : gone[1] \in cut
  OBVIOUS
<1>6. Cleared(r, names, givenUp)
        = [files |-> fs, dropped |-> r.dropped \cup lost, removed |-> r.removed \cup more, failed |-> givenUp]
  BY DEF Cleared
<1> HIDE DEF fs, lost, more
<1>7. fs \in Files
  BY <1>2, <1>3, FilesAre
<1>8. Cleared(r, names, givenUp) \in Rotations
  <2>1. r.dropped \cup lost \in SUBSET Nat /\ r.removed \cup more \in SUBSET (Names \X BOOLEAN)
    BY <1>1, <1>4, <1>5
  <2> HIDE DEF Files
  <2> QED
    BY <1>6, <1>7, <2>1 DEF Rotations
<1> QED
  BY <1>3, <1>5, <1>6, <1>8 DEF lost

LEMMA MovedIs ==
  ASSUME NEW r \in Rotations, NEW src \in DOMAIN r.files, NEW dst \in Names \ {src}
  PROVE  LET m == Moved(r, src, dst) IN
         /\ m \in Rotations /\ ~m.failed
         /\ DOMAIN m.files = (DOMAIN r.files \ {src}) \cup {dst}
         /\ m.files[dst] = r.files[src]
         /\ \A n \in DOMAIN r.files \ {src, dst} : m.files[n] = r.files[n]
         /\ m.dropped = r.dropped \cup IF dst \in DOMAIN r.files THEN Range(r.files[dst]) ELSE {}
         /\ \A gone \in m.removed : gone \in r.removed \/ gone[1] \in {dst} \cap DOMAIN r.files
<1> DEFINE c == Cleared(r, {dst}, FALSE)
           fs == Renamed(c.files, src, dst)
<1>0. {dst} \in SUBSET Names /\ FALSE \in BOOLEAN
  OBVIOUS
<1>1. /\ c \in Rotations /\ c.failed = FALSE /\ DOMAIN c.files = DOMAIN r.files \ {dst}
      /\ \A n \in DOMAIN r.files \ {dst} : c.files[n] = r.files[n]
      /\ c.dropped = r.dropped \cup UNION {Range(r.files[n]) : n \in {dst} \cap DOMAIN r.files}
      /\ \A gone \in c.removed : gone \in r.removed \/ gone[1] \in {dst} \cap DOMAIN r.files
  BY <1>0, ClearedIs
<1>2. Moved(r, src, dst) = [c EXCEPT !.files = fs]
  BY DEF Moved
<1> HIDE DEF c
<1>3. UNION {Range(r.files[n]) : n \in {dst} \cap DOMAIN r.files}
        = IF dst \in DOMAIN r.files THEN Range(r.files[dst]) ELSE {}
  <2>1. CASE dst \in DOMAIN r.files
    <3>1. {dst} \cap DOMAIN r.files = {dst}
      BY <2>1
    <3> QED
      BY <2>1, <3>1
  <2>2. CASE dst \notin DOMAIN r.files
    BY <2>2
  <2> QED
    BY <2>1, <2>2
<1>4. /\ DOMAIN c.files \subseteq Names /\ \A n \in DOMAIN c.files : c.files[n] \in Seq(Nat)
      /\ src \in DOMAIN c.files /\ c.files[src] = r.files[src]
  BY <1>1, FilesAre DEF Rotations
<1>5. /\ DOMAIN fs = (DOMAIN c.files \ {src}) \cup {dst} /\ fs[dst] = c.files[src]
      /\ \A n \in DOMAIN c.files \ {src, dst} : fs[n] = c.files[n]
      /\ fs = [n \in DOMAIN fs |-> fs[n]]
  BY DEF Renamed
<1> HIDE DEF fs
<1>6. fs \in Files
  BY <1>4, <1>5, FilesAre
<1>7. Moved(r, src, dst) \in Rotations
  <2> HIDE DEF Files
  <2> QED
    BY <1>1, <1>2, <1>6 DEF Rotations
<1>8. Moved(r, src, dst).files = fs /\ Moved(r, src, dst).dropped = c.dropped
      /\ Moved(r, src, dst).removed = c.removed /\ Moved(r, src, dst).failed = c.failed
  BY <1>1, <1>2 DEF Rotations
<1> QED
  BY <1>1, <1>3, <1>4, <1>5, <1>7, <1>8

\* What one move does: nothing; or the names it wanted are cleared; or one file gets a
\* name and what had it is removed.
LEMMA MovesOne ==
  ASSUME NEW r \in Rotations, NEW i \in Nat, NEW held
  PROVE  \/ MoveFile(r, i, held) = r /\ (r.failed \/ <<i>> \notin DOMAIN r.files)
         \/ \E names \in SUBSET Range(NamesFor(i)) :
              ~r.failed /\ names \subseteq Names /\ MoveFile(r, i, held) = Cleared(r, names, TRUE)
         \/ \E dst \in Names \ {<<i>>} :
              /\ dst \in Range(NamesFor(i)) /\ ~r.failed
              /\ <<i>> \in DOMAIN r.files /\ MoveFile(r, i, held) = Moved(r, <<i>>, dst)
<1> DEFINE k == NameFor(i, held)
<1>1. k # 0 => NamesFor(i)[k] \in Names \ {<<i>>} /\ NamesFor(i)[k] \in Range(NamesFor(i))
  BY NameFound
<1>2. Range(NamesFor(i)) \subseteq Names
  BY NameFound
<1> QED
  BY <1>1, <1>2 DEF MoveFile, There

LEMMA MoveFileType ==
  ASSUME NEW r \in Rotations, NEW i \in Nat, NEW held
  PROVE  MoveFile(r, i, held) \in Rotations
<1>1. \A names \in SUBSET Names : Cleared(r, names, TRUE) \in Rotations
  BY ClearedIs
<1>2. \A dst \in Names \ {<<i>>} : <<i>> \in DOMAIN r.files => Moved(r, <<i>>, dst) \in Rotations
  BY MovedIs
<1>3. CASE MoveFile(r, i, held) = r
  BY <1>3
<1>4. CASE \E names : names \subseteq Names /\ MoveFile(r, i, held) = Cleared(r, names, TRUE)
  BY <1>1, <1>4
<1>5. CASE \E dst \in Names \ {<<i>>} :
              <<i>> \in DOMAIN r.files /\ MoveFile(r, i, held) = Moved(r, <<i>>, dst)
  BY <1>2, <1>5
<1> QED
  BY <1>3, <1>4, <1>5, MovesOne

\* A rotation is KeptFiles moves.
LEMMA RotatedIs ==
  ASSUME NEW fs \in Files, NEW held
  PROVE  \E moved \in [0..KeptFiles -> Rotations] :
            /\ moved[0] = [files |-> fs, dropped |-> {}, removed |-> {}, failed |-> FALSE]
            /\ \A k \in 1..KeptFiles : moved[k] = MoveFile(moved[k - 1], KeptFiles - k, held)
            /\ Rotated(fs, held) = moved[KeptFiles]
<1> DEFINE base == [files |-> fs, dropped |-> {}, removed |-> {}, failed |-> FALSE]
           step == [k \in 1..KeptFiles |-> [r \in Rotations |-> MoveFile(r, KeptFiles - k, held)]]
           Is(g) == g = [k \in 0..KeptFiles |->
                           IF k = 0 THEN base ELSE MoveFile(g[k - 1], KeptFiles - k, held)]
           all == CHOOSE g : Is(g)
<1>0. KeptFiles \in Nat
  BY LogsAssumption
<1>1. base \in Rotations
  BY DEF Rotations
<1>2. step \in Steps(KeptFiles, Rotations)
  <2>1. \A k \in 1..KeptFiles : KeptFiles - k \in Nat
    BY <1>0
  <2>2. \A k \in 1..KeptFiles, r \in Rotations : MoveFile(r, KeptFiles - k, held) \in Rotations
    BY <2>1, MoveFileType
  <2> QED
    BY <2>2 DEF Steps
<1>3. \A k \in 1..KeptFiles, r \in Rotations : step[k][r] = MoveFile(r, KeptFiles - k, held)
  OBVIOUS
<1> HIDE DEF base, step
<1>4. PICK g : Iterates(g, KeptFiles, Rotations, base, step)
  BY <1>0, <1>1, <1>2, Iterated
<1>5. /\ g \in [0..KeptFiles -> Rotations] /\ g[0] = base
      /\ \A k \in 1..KeptFiles : g[k] = step[k][g[k - 1]]
  BY <1>4 DEF Iterates
<1>6. \A k \in 0..KeptFiles : k # 0 => k \in 1..KeptFiles /\ k - 1 \in 0..KeptFiles
  BY <1>0
<1>7. \A k \in 0..KeptFiles :
         g[k] = IF k = 0 THEN base ELSE MoveFile(g[k - 1], KeptFiles - k, held)
  BY <1>3, <1>5, <1>6
<1>8. Is(g)
  <2>1. g = [k \in 0..KeptFiles |-> g[k]]
    BY <1>5
  <2> QED
    BY <1>7, <2>1
<1>9. Is(all)
  <2> HIDE DEF Is
  <2> QED
    BY <1>8
<1>10. Rotated(fs, held) = all[KeptFiles]
  BY DEF Rotated, base
<1> HIDE DEF all
<1>11. /\ DOMAIN all = 0..KeptFiles /\ all[0] = base
       /\ \A k \in 1..KeptFiles : all[k] = MoveFile(all[k - 1], KeptFiles - k, held)
  BY <1>0, <1>9
<1>12. \A k \in 0..KeptFiles : all[k] \in Rotations
  <2> DEFINE T == {k \in 0..KeptFiles : all[k] \in Rotations}
  <2>1. 0 \in T
    BY <1>0, <1>1, <1>11
  <2>2. ASSUME NEW k \in 1..KeptFiles, k - 1 \in T PROVE k \in T
    <3>1. KeptFiles - k \in Nat /\ all[k - 1] \in Rotations
      BY <1>0, <2>2
    <3>2. all[k] \in Rotations
      BY <1>11, <3>1, MoveFileType
    <3> QED
      BY <3>2
  <2> HIDE DEF T
  <2>3. \A k \in 0..KeptFiles : k \in T
    BY <1>0, <2>1, <2>2, UpTo
  <2> QED
    BY <2>3 DEF T
<1>13. all \in [0..KeptFiles -> Rotations]
  BY <1>9, <1>11, <1>12
<1> QED
  BY <1>10, <1>11, <1>13 DEF base

\* A move puts no file elsewhere than it was but under another name ...
LEMMA MoveKeepsFiles ==
  ASSUME NEW r \in Rotations, NEW i \in Nat, NEW held, NEW n \in DOMAIN MoveFile(r, i, held).files
  PROVE  \E m \in DOMAIN r.files : MoveFile(r, i, held).files[n] = r.files[m]
<1>1. ASSUME NEW names \in SUBSET Names, NEW k \in DOMAIN Cleared(r, names, TRUE).files
      PROVE  k \in DOMAIN r.files /\ Cleared(r, names, TRUE).files[k] = r.files[k]
  <2>1. /\ DOMAIN Cleared(r, names, TRUE).files = DOMAIN r.files \ names
        /\ \A f \in DOMAIN r.files \ names : Cleared(r, names, TRUE).files[f] = r.files[f]
    BY ClearedIs
  <2> QED
    BY <1>1, <2>1
<1>2. CASE \E dst \in Names \ {<<i>>} :
              <<i>> \in DOMAIN r.files /\ MoveFile(r, i, held) = Moved(r, <<i>>, dst)
  BY <1>2, MovedIs
<1> QED
  BY <1>1, <1>2, MovesOne

\* ... removes only files that were there ...
LEMMA MoveDrops ==
  ASSUME NEW r \in Rotations, NEW i \in Nat, NEW held, NEW l \in MoveFile(r, i, held).dropped,
         l \notin r.dropped
  PROVE  \E m \in DOMAIN r.files : l \in Range(r.files[m])
<1>1. ASSUME NEW names \in SUBSET Names, l \in Cleared(r, names, TRUE).dropped
      PROVE  \E m \in DOMAIN r.files : l \in Range(r.files[m])
  <2>1. Cleared(r, names, TRUE).dropped
          = r.dropped \cup UNION {Range(r.files[n]) : n \in names \cap DOMAIN r.files}
    BY ClearedIs
  <2> QED
    BY <1>1, <2>1
<1>2. CASE \E dst \in Names \ {<<i>>} :
              <<i>> \in DOMAIN r.files /\ MoveFile(r, i, held) = Moved(r, <<i>>, dst)
  BY <1>2, MovedIs
<1> QED
  BY <1>1, <1>2, MovesOne

LEMMA ClearedKeepsLine ==
  ASSUME NEW r \in Rotations, NEW names \in SUBSET Names, NEW gone, NEW l,
         Placed(r.files, gone \cup r.dropped, l)
  PROVE  Placed(Cleared(r, names, TRUE).files, gone \cup Cleared(r, names, TRUE).dropped, l)
<1> DEFINE c == Cleared(r, names, TRUE)
<1>1. /\ DOMAIN c.files = DOMAIN r.files \ names
      /\ \A n \in DOMAIN r.files \ names : c.files[n] = r.files[n]
      /\ c.dropped = r.dropped \cup UNION {Range(r.files[n]) : n \in names \cap DOMAIN r.files}
  BY ClearedIs
<1> HIDE DEF c
<1>2. \A n \in DOMAIN r.files : l \in Range(r.files[n]) <=> Contains(r.files[n], l)
  <2>1. \A n \in DOMAIN r.files : r.files[n] \in Seq(Nat)
    BY FilesAre DEF Rotations
  <2> QED
    BY <2>1 DEF Range, Contains
<1>3. CASE l \in gone \cup r.dropped
  BY <1>1, <1>3 DEF Placed, c
<1>4. CASE l \notin gone \cup r.dropped
  <2>1. PICK k \in DOMAIN r.files : \A j \in DOMAIN r.files : Contains(r.files[j], l) <=> j = k
    BY <1>4 DEF Placed
  <2>2. CASE k \in names
    <3>1. l \in c.dropped
      BY <1>1, <1>2, <2>1, <2>2
    <3>2. \A n \in DOMAIN c.files : ~Contains(c.files[n], l)
      BY <1>1, <2>1, <2>2
    <3> QED
      BY <3>1, <3>2 DEF Placed, c
  <2>3. CASE k \notin names
    <3>1. l \notin gone \cup c.dropped
      BY <1>1, <1>2, <1>4, <2>1, <2>3
    <3>2. k \in DOMAIN c.files /\ \A n \in DOMAIN c.files : Contains(c.files[n], l) <=> n = k
      BY <1>1, <2>1, <2>3
    <3> QED
      BY <3>1, <3>2 DEF Placed, c
  <2> QED
    BY <2>2, <2>3
<1> QED
  BY <1>3, <1>4

\* ... and loses no line.
LEMMA MoveKeepsLine ==
  ASSUME NEW r \in Rotations, NEW i \in Nat, NEW held, NEW gone, NEW l,
         Placed(r.files, gone \cup r.dropped, l)
  PROVE  Placed(MoveFile(r, i, held).files, gone \cup MoveFile(r, i, held).dropped, l)
<1>1. CASE MoveFile(r, i, held) = r
  BY <1>1
<1>2. ASSUME NEW names \in SUBSET Names, MoveFile(r, i, held) = Cleared(r, names, TRUE)
      PROVE  Placed(MoveFile(r, i, held).files, gone \cup MoveFile(r, i, held).dropped, l)
  BY <1>2, ClearedKeepsLine
<1>3. ASSUME NEW dst \in Names \ {<<i>>}, <<i>> \in DOMAIN r.files,
             MoveFile(r, i, held) = Moved(r, <<i>>, dst)
      PROVE  Placed(MoveFile(r, i, held).files, gone \cup MoveFile(r, i, held).dropped, l)
  <2> DEFINE m == Moved(r, <<i>>, dst)
             all == gone \cup r.dropped
  <2>1. /\ DOMAIN m.files = (DOMAIN r.files \ {<<i>>}) \cup {dst}
        /\ m.files[dst] = r.files[<<i>>]
        /\ \A n \in DOMAIN r.files \ {<<i>>, dst} : m.files[n] = r.files[n]
        /\ m.dropped = r.dropped \cup IF dst \in DOMAIN r.files THEN Range(r.files[dst]) ELSE {}
    BY <1>3, MovedIs
  <2>2. dst \in DOMAIN r.files => (l \in Range(r.files[dst]) <=> Contains(r.files[dst], l))
    <3>1. dst \in DOMAIN r.files => r.files[dst] \in Seq(Nat)
      BY FilesAre DEF Rotations
    <3> QED
      BY <3>1 DEF Range, Contains
  <2>3. \A n \in DOMAIN m.files :
           \E k \in DOMAIN r.files : /\ m.files[n] = r.files[k] /\ k # dst
                                     /\ n = dst <=> k = <<i>>
                                     /\ n # dst => n = k
    BY <1>3, <2>1
  <2> HIDE DEF m
  <2>4. CASE l \in all
    <3>1. \A n \in DOMAIN m.files : ~Contains(m.files[n], l)
      BY <2>3, <2>4 DEF Placed
    <3> QED
      BY <1>3, <2>1, <2>4, <3>1 DEF Placed, m
  <2>5. CASE l \notin all
    <3>1. PICK k \in DOMAIN r.files : \A j \in DOMAIN r.files : Contains(r.files[j], l) <=> j = k
      BY <2>5 DEF Placed
    <3>2. CASE k = dst
      <4>1. l \in m.dropped
        BY <2>1, <2>2, <3>1, <3>2
      <4>2. \A n \in DOMAIN m.files : ~Contains(m.files[n], l)
        BY <2>3, <3>1, <3>2
      <4> QED
        BY <1>3, <4>1, <4>2 DEF Placed, m
    <3>3. CASE k # dst
      <4>1. l \notin gone \cup m.dropped
        BY <2>1, <2>2, <2>5, <3>1, <3>3
      <4>2. CASE k = <<i>>
        <5>1. \A n \in DOMAIN m.files : Contains(m.files[n], l) <=> n = dst
          BY <2>3, <3>1, <4>2
        <5> QED
          BY <1>3, <2>1, <4>1, <5>1 DEF Placed, m
      <4>3. CASE k # <<i>>
        <5>1. k \in DOMAIN m.files /\ \A n \in DOMAIN m.files : Contains(m.files[n], l) <=> n = k
          BY <2>1, <2>3, <3>1, <3>3, <4>3
        <5> QED
          BY <1>3, <4>1, <5>1 DEF Placed, m
      <4> QED
        BY <4>2, <4>3
    <3> QED
      BY <3>2, <3>3
  <2> QED
    BY <2>4, <2>5
<1> QED
  BY <1>1, <1>2, <1>3, MovesOne

\* A file is removed for its age only: after a move the file's name is free, so that the
\* next one is not moved over it, or the rotation is given up.
LEMMA MoveRemoves ==
  ASSUME NEW r \in Rotations, NEW i \in 0..(KeptFiles - 1), NEW held,
         ~r.failed => <<i + 1>> \notin DOMAIN r.files \/ i + 1 = KeptFiles,
         \A x \in r.removed : x[1] = <<KeptFiles>> \/ Len(x[1]) = 2
  PROVE  LET m == MoveFile(r, i, held) IN
         /\ ~m.failed => <<i>> \notin DOMAIN m.files
         /\ \A x \in m.removed : x[1] = <<KeptFiles>> \/ Len(x[1]) = 2
<1> DEFINE m == MoveFile(r, i, held)
<1>0. i \in Nat
  BY LogsAssumption
<1>1. ASSUME NEW n \in Range(NamesFor(i)), n \in DOMAIN r.files, ~r.failed
      PROVE  n = <<KeptFiles>> \/ Len(n) = 2
  <2>1. n = <<i + 1>> \/ Len(n) = 2
    BY <1>0, NameFound
  <2> QED
    BY <1>1, <2>1
<1>2. CASE m = r /\ (r.failed \/ <<i>> \notin DOMAIN r.files)
  BY <1>2
<1>3. ASSUME NEW names \in SUBSET Range(NamesFor(i)), names \subseteq Names, ~r.failed,
             m = Cleared(r, names, TRUE)
      PROVE  m.failed /\ \A x \in m.removed : x[1] = <<KeptFiles>> \/ Len(x[1]) = 2
  <2> DEFINE c == Cleared(r, names, TRUE)
  <2>1. names \in SUBSET Names
    BY <1>3
  <2>2. c.failed = TRUE /\ \A x \in c.removed : x \in r.removed \/ x[1] \in names \cap DOMAIN r.files
    BY <2>1, ClearedIs
  <2> QED
    BY <1>1, <1>3, <2>2
<1>4. ASSUME NEW dst \in Names \ {<<i>>}, dst \in Range(NamesFor(i)), ~r.failed, <<i>> \in DOMAIN r.files,
             m = Moved(r, <<i>>, dst)
      PROVE  /\ <<i>> \notin DOMAIN m.files
             /\ \A x \in m.removed : x[1] = <<KeptFiles>> \/ Len(x[1]) = 2
  <2>1. /\ DOMAIN m.files = (DOMAIN r.files \ {<<i>>}) \cup {dst}
        /\ \A x \in m.removed : x \in r.removed \/ x[1] \in {dst} \cap DOMAIN r.files
    BY <1>4, MovedIs
  <2> QED
    BY <1>1, <1>4, <2>1
<1> HIDE DEF m
<1> QED
  BY <1>0, <1>2, <1>3, <1>4, MovesOne DEF m

\* A rotation neither changes a file nor loses a line.
LEMMA RotatedKeeps ==
  ASSUME NEW fs \in Files, NEW held
  PROVE  /\ Rotated(fs, held) \in Rotations
         /\ \A n \in DOMAIN Rotated(fs, held).files :
               \E m \in DOMAIN fs : Rotated(fs, held).files[n] = fs[m]
         /\ \A l \in Rotated(fs, held).dropped : \E m \in DOMAIN fs : l \in Range(fs[m])
         /\ \A gone, l : Placed(fs, gone, l) =>
               Placed(Rotated(fs, held).files, gone \cup Rotated(fs, held).dropped, l)
         /\ \A x \in Rotated(fs, held).removed : x[1] = <<KeptFiles>> \/ Len(x[1]) = 2
<1> DEFINE Keeps(r) == /\ \A n \in DOMAIN r.files : \E m \in DOMAIN fs : r.files[n] = fs[m]
                       /\ \A l \in r.dropped : \E m \in DOMAIN fs : l \in Range(fs[m])
                       /\ \A gone, l : Placed(fs, gone, l) => Placed(r.files, gone \cup r.dropped, l)
<1>1. PICK moved \in [0..KeptFiles -> Rotations] :
         /\ moved[0] = [files |-> fs, dropped |-> {}, removed |-> {}, failed |-> FALSE]
         /\ \A k \in 1..KeptFiles : moved[k] = MoveFile(moved[k - 1], KeptFiles - k, held)
         /\ Rotated(fs, held) = moved[KeptFiles]
  BY RotatedIs
<1> DEFINE Old(r) == \A x \in r.removed : x[1] = <<KeptFiles>> \/ Len(x[1]) = 2
           T == {k \in 0..KeptFiles : /\ Keeps(moved[k]) /\ Old(moved[k])
                                      /\ ~moved[k].failed => <<KeptFiles - k>> \notin DOMAIN moved[k].files \/ k = 0}
<1>2. KeptFiles \in Nat
  BY LogsAssumption
<1>3. 0 \in T
  <2>1. moved[0].files = fs /\ moved[0].dropped = {} /\ \A gone : gone \cup moved[0].dropped = gone
    BY <1>1
  <2>2. ASSUME NEW gone, NEW l, Placed(fs, gone, l)
        PROVE  Placed(moved[0].files, gone \cup moved[0].dropped, l)
    <3>1. gone \cup moved[0].dropped = gone
      BY <2>1
    <3> QED
      BY <2>1, <2>2, <3>1
  <2>3. Keeps(moved[0])
    <3>1. \A n \in DOMAIN moved[0].files : \E m \in DOMAIN fs : moved[0].files[n] = fs[m]
      BY <2>1
    <3>2. \A l \in moved[0].dropped : \E m \in DOMAIN fs : l \in Range(fs[m])
      BY <2>1
    <3> QED
      BY <2>2, <3>1, <3>2
  <2>4. Old(moved[0])
    BY <1>1
  <2> HIDE DEF Keeps, Old
  <2> QED
    BY <1>2, <2>3, <2>4
<1>4. ASSUME NEW k \in 1..KeptFiles, k - 1 \in T PROVE k \in T
  <2>1. KeptFiles - k \in Nat /\ moved[k - 1] \in Rotations /\ k \in 0..KeptFiles
    BY <1>2
  <2>2. Keeps(moved[k - 1])
    BY <1>4
  <2>3. moved[k] = MoveFile(moved[k - 1], KeptFiles - k, held)
    BY <1>1
  <2>4. \A n \in DOMAIN moved[k].files : \E m \in DOMAIN fs : moved[k].files[n] = fs[m]
    BY <2>1, <2>2, <2>3, MoveKeepsFiles
  <2>5. \A gone, l : Placed(fs, gone, l) => Placed(moved[k].files, gone \cup moved[k].dropped, l)
    BY <2>1, <2>2, <2>3, MoveKeepsLine
  <2>6. \A l \in moved[k].dropped : \E m \in DOMAIN fs : l \in Range(fs[m])
    BY <2>1, <2>2, <2>3, MoveDrops
  <2> DEFINE i == KeptFiles - k
  <2>7. i \in 0..(KeptFiles - 1) /\ i + 1 = KeptFiles - (k - 1) /\ (k - 1 = 0 => i + 1 = KeptFiles)
    BY <1>2
  <2>8. /\ Old(moved[k - 1])
        /\ ~moved[k - 1].failed => <<i + 1>> \notin DOMAIN moved[k - 1].files \/ i + 1 = KeptFiles
    BY <1>4, <2>7
  <2> HIDE DEF i
  <2>9. (~moved[k].failed => <<i>> \notin DOMAIN moved[k].files) /\ Old(moved[k])
    BY <2>1, <2>3, <2>7, <2>8, MoveRemoves DEF i
  <2>10. Keeps(moved[k])
    BY <2>4, <2>5, <2>6
  <2> HIDE DEF Keeps, Old
  <2> QED
    BY <2>1, <2>9, <2>10 DEF i
<1> HIDE DEF T
<1>5. \A k \in 0..KeptFiles : k \in T
  BY <1>2, <1>3, <1>4, UpTo
<1>6. Keeps(moved[KeptFiles]) /\ Old(moved[KeptFiles])
  <2>1. KeptFiles \in T
    BY <1>2, <1>5
  <2> HIDE DEF Keeps, Old
  <2> QED
    BY <2>1 DEF T
<1>7. moved[KeptFiles] \in Rotations
  BY <1>2
<1> QED
  BY <1>1, <1>6, <1>7

-----------------------------------------------------------------------------
(* The order of the files, as long as no rename fails.                     *)

\* a line in a file is newer than any in a file of a higher name or in one removed
Aged(fs, gone) ==
    /\ \A m, n \in DOMAIN fs : m[1] < n[1] => \A i \in Range(fs[m]), j \in Range(fs[n]) : i > j
    /\ \A n \in DOMAIN fs : \A l \in gone, i \in Range(fs[n]) : l < i

\* the names there are: from the first to the last without a gap, and all of them once
\* a line is gone
Shaped(fs, gone, first) ==
    \E top \in 0..KeptFiles :
        DOMAIN fs = {<<m>> : m \in first..top} /\ (gone # {} => top = KeptFiles)

\* the names during a rotation that found files up to `top' and has moved those from i
PresentAt(top, i, m) ==
    \/ m < i /\ m <= top
    \/ m > i /\ m <= top + 1
    \/ i = KeptFiles /\ m = KeptFiles /\ top = KeptFiles

Rotating(r, gone, top, i) ==
    /\ ~r.failed
    /\ DOMAIN r.files = {<<m>> : m \in {k \in 0..KeptFiles : PresentAt(top, i, k)}}
    /\ Aged(r.files, gone \cup r.dropped)
    /\ r.dropped # {} => top = KeptFiles

LEMMA MoveInOrder ==
  ASSUME NEW r \in Rotations, NEW gone, NEW top \in 0..KeptFiles, NEW i \in 0..(KeptFiles - 1),
         Rotating(r, gone, top, i + 1)
  PROVE  Rotating(MoveFile(r, i, Free), gone, top, i)
<1> DEFINE m == MoveFile(r, i, Free)
           src == <<i>>
           dst == <<i + 1>>
           at(j) == {k \in 0..KeptFiles : PresentAt(top, j, k)}
<1>0. KeptFiles \in Nat \ {0} /\ i \in Nat /\ i + 1 \in 0..KeptFiles
  BY LogsAssumption
<1>1. ~r.failed /\ DOMAIN r.files = {<<k>> : k \in at(i + 1)}
  BY DEF Rotating
<1>2. src \in DOMAIN r.files <=> i <= top
  BY <1>0, <1>1 DEF PresentAt
<1>3. dst \in DOMAIN r.files <=> i + 1 = KeptFiles /\ top = KeptFiles
  BY <1>0, <1>1 DEF PresentAt
<1>4. CASE i > top
  <2>0. src \notin DOMAIN r.files
    BY <1>0, <1>2, <1>4
  <2>1. m = r
    BY <2>0 DEF MoveFile, There
  <2>2. at(i) = at(i + 1)
    BY <1>0, <1>4 DEF PresentAt
  <2> QED
    BY <1>1, <2>1, <2>2 DEF Rotating
<1>5. CASE i <= top
  <2>1. m = Moved(r, src, dst)
    <3>1. NameFor(i, Free) = 1 /\ NamesFor(i)[1] = dst
      BY <1>0, NameFound
    <3> QED
      BY <1>1, <1>2, <1>5, <3>1 DEF MoveFile, There
  <2>2. dst \in Names \ {src}
    BY <1>0 DEF Names
  <2>3. /\ DOMAIN m.files = (DOMAIN r.files \ {src}) \cup {dst}
        /\ ~m.failed /\ m.files[dst] = r.files[src]
        /\ \A n \in DOMAIN r.files \ {src, dst} : m.files[n] = r.files[n]
        /\ m.dropped = r.dropped \cup IF dst \in DOMAIN r.files THEN Range(r.files[dst]) ELSE {}
    BY <1>2, <1>5, <2>1, <2>2, MovedIs
  <2> HIDE DEF m
  <2>4. DOMAIN m.files = {<<k>> : k \in at(i)}
    <3>1. at(i) = (at(i + 1) \ {i}) \cup {i + 1}
      BY <1>0, <1>5 DEF PresentAt
    <3>2. {<<k>> : k \in (at(i + 1) \ {i}) \cup {i + 1}} = ({<<k>> : k \in at(i + 1)} \ {src}) \cup {dst}
      OBVIOUS
    <3> HIDE DEF at
    <3> QED
      BY <1>1, <2>3, <3>1, <3>2
  \* where a file was, and what lies between it and the others
  <2>5. \A n \in DOMAIN m.files :
           \E k \in DOMAIN r.files :
              /\ m.files[n] = r.files[k] /\ (n = dst => k = src) /\ (n # dst => k = n)
              /\ k # dst
    BY <1>2, <1>5, <2>3
  <2>6. \A n \in DOMAIN r.files : n = dst \/ n = src \/ n[1] < i \/ n[1] > i + 1
    BY <1>0, <1>1 DEF PresentAt
  <2>7. \A n, k \in DOMAIN m.files : n[1] < k[1] => \A x \in Range(m.files[n]), y \in Range(m.files[k]) : x > y
    <3> SUFFICES ASSUME NEW n \in DOMAIN m.files, NEW k \in DOMAIN m.files, n[1] < k[1]
                 PROVE  \A x \in Range(m.files[n]), y \in Range(m.files[k]) : x > y
      OBVIOUS
    <3>1. PICK a \in DOMAIN r.files :
             m.files[n] = r.files[a] /\ (n = dst => a = src) /\ (n # dst => a = n) /\ a # dst
      BY <2>5
    <3>2. PICK b \in DOMAIN r.files :
             m.files[k] = r.files[b] /\ (k = dst => b = src) /\ (k # dst => b = k) /\ b # dst
      BY <2>5
    <3>3. a[1] < b[1]
      <4>1. src[1] = i /\ dst[1] = i + 1 /\ a[1] \in Nat /\ b[1] \in Nat
        BY <1>0, <1>1
      <4>2. n # src /\ k # src
        BY <1>0, <2>3
      <4>3. CASE n = dst
        BY <1>0, <3>1, <3>2, <4>1, <4>3
      <4>4. CASE n # dst /\ k = dst
        <5>1. a = n /\ b = src /\ a # src /\ a # dst
          BY <3>1, <3>2, <4>2, <4>4
        <5>2. a[1] < i \/ a[1] > i + 1
          BY <2>6, <5>1
        <5> QED
          BY <1>0, <4>1, <4>4, <5>1, <5>2
      <4>5. CASE n # dst /\ k # dst
        BY <3>1, <3>2, <4>5
      <4> QED
        BY <4>3, <4>4, <4>5
    <3> QED
      BY <3>1, <3>2, <3>3 DEF Rotating, Aged
  <2>8. \A n \in DOMAIN m.files : \A l \in gone \cup m.dropped, x \in Range(m.files[n]) : l < x
    <3> SUFFICES ASSUME NEW n \in DOMAIN m.files, NEW l \in gone \cup m.dropped,
                        NEW x \in Range(m.files[n])
                 PROVE  l < x
      OBVIOUS
    <3>1. PICK a \in DOMAIN r.files : m.files[n] = r.files[a] /\ a # dst
      BY <2>5
    <3>2. CASE l \in gone \cup r.dropped
      BY <3>1, <3>2 DEF Rotating, Aged
    <3>3. CASE l \notin gone \cup r.dropped
      <4>1. dst \in DOMAIN r.files /\ l \in Range(r.files[dst])
        BY <2>3, <3>3
      <4>2. a[1] < dst[1]
        BY <1>0, <1>1, <1>3, <3>1, <4>1
      <4> QED
        BY <3>1, <4>1, <4>2 DEF Rotating, Aged
    <3> QED
      BY <3>2, <3>3
  <2>9. m.dropped # {} => top = KeptFiles
    BY <1>3, <2>3 DEF Rotating
  <2> QED
    BY <1>1, <2>3, <2>4, <2>7, <2>8, <2>9 DEF Rotating, Aged, m
<1> QED
  BY <1>0, <1>4, <1>5

\* A rotation that nothing refuses gives each file the next name, and removes the last.
LEMMA RotatedInOrder ==
  ASSUME NEW fs \in Files, NEW gone, Aged(fs, gone), Shaped(fs, gone, 0), << 0 >> \in DOMAIN fs
  PROVE  /\ Aged(Rotated(fs, Free).files, gone \cup Rotated(fs, Free).dropped)
         /\ Shaped(Rotated(fs, Free).files, gone \cup Rotated(fs, Free).dropped, 1)
<1>0. KeptFiles \in Nat \ {0}
  BY LogsAssumption
<1>1. PICK top \in 0..KeptFiles :
         DOMAIN fs = {<<m>> : m \in 0..top} /\ (gone # {} => top = KeptFiles)
  BY DEF Shaped
<1>2. PICK moved \in [0..KeptFiles -> Rotations] :
         /\ moved[0] = [files |-> fs, dropped |-> {}, removed |-> {}, failed |-> FALSE]
         /\ \A k \in 1..KeptFiles : moved[k] = MoveFile(moved[k - 1], KeptFiles - k, Free)
         /\ Rotated(fs, Free) = moved[KeptFiles]
  BY RotatedIs
<1> DEFINE T == {k \in 0..KeptFiles : Rotating(moved[k], gone, top, KeptFiles - k)}
<1>3. 0 \in T
  <2>1. moved[0].files = fs /\ moved[0].dropped = {} /\ ~moved[0].failed
    BY <1>2
  <2>2. {k \in 0..KeptFiles : PresentAt(top, KeptFiles, k)} = 0..top
    BY <1>0 DEF PresentAt
  <2>3. Aged(moved[0].files, gone \cup moved[0].dropped)
    <3>1. gone \cup {} = gone
      OBVIOUS
    <3> QED
      BY <2>1, <3>1
  <2>4. Rotating(moved[0], gone, top, KeptFiles)
    BY <1>1, <2>1, <2>2, <2>3 DEF Rotating
  <2>5. KeptFiles - 0 = KeptFiles /\ 0 \in 0..KeptFiles
    BY <1>0
  <2> QED
    BY <2>4, <2>5
<1>4. ASSUME NEW k \in 1..KeptFiles, k - 1 \in T PROVE k \in T
  <2> DEFINE i == KeptFiles - k
  <2>1. i \in 0..(KeptFiles - 1) /\ KeptFiles - (k - 1) = i + 1 /\ k - 1 \in 0..KeptFiles
        /\ k \in 0..KeptFiles
    BY <1>0
  <2>2. Rotating(moved[k - 1], gone, top, i + 1)
    BY <1>4, <2>1
  <2>3. moved[k] = MoveFile(moved[k - 1], i, Free)
    BY <1>2
  <2>4. moved[k - 1] \in Rotations
    BY <1>2, <2>1
  <2> HIDE DEF i
  <2>5. Rotating(moved[k], gone, top, i)
    BY <2>1, <2>2, <2>3, <2>4, MoveInOrder
  <2> QED
    BY <2>1, <2>5 DEF i
<1> HIDE DEF T
<1>5. \A k \in 0..KeptFiles : k \in T
  BY <1>0, <1>3, <1>4, UpTo
<1>6. Rotating(Rotated(fs, Free), gone, top, 0)
  <2>1. KeptFiles \in T /\ KeptFiles - KeptFiles = 0
    BY <1>0, <1>5
  <2> QED
    BY <1>2, <2>1 DEF T
<1>7. PICK last \in 0..KeptFiles :
         /\ {k \in 0..KeptFiles : PresentAt(top, 0, k)} = 1..last
         /\ top = KeptFiles => last = KeptFiles
  <2>1. CASE top = KeptFiles
    <3>1. {k \in 0..KeptFiles : PresentAt(top, 0, k)} = 1..KeptFiles
      BY <1>0, <2>1 DEF PresentAt
    <3> QED
      BY <1>0, <3>1
  <2>2. CASE top # KeptFiles
    <3>1. {k \in 0..KeptFiles : PresentAt(top, 0, k)} = 1..(top + 1) /\ top + 1 \in 0..KeptFiles
      BY <1>0, <2>2 DEF PresentAt
    <3> QED
      BY <2>2, <3>1
  <2> QED
    BY <2>1, <2>2
<1> QED
  BY <1>0, <1>1, <1>6, <1>7 DEF Rotating, Shaped

-----------------------------------------------------------------------------
(* The sizes of files.                                                     *)

Total(sizes, file, sum) ==
    sum = [i \in 0..Len(file) |-> IF i = 0 THEN 0 ELSE sum[i - 1] + sizes[file[i]]]

\* the lines of a file that is one of those written
FileOf(n) == {file \in Seq(1..n) : \A i \in 1..(Len(file) - 1) : file[i] < file[i + 1]}

LEMMA SumIs ==
  ASSUME NEW sizes \in Seq(Nat), NEW file \in Seq(1..Len(sizes))
  PROVE  \E sum \in [0..Len(file) -> Nat] :
            /\ sum[0] = 0 /\ \A i \in 1..Len(file) : sum[i] = sum[i - 1] + sizes[file[i]]
            /\ SizeOfFile(sizes, file) = sum[Len(file)]
<1> DEFINE n == Len(file)
           step == [i \in 1..n |-> [x \in Nat |-> x + sizes[file[i]]]]
           sum == CHOOSE g : Total(sizes, file, g)
<1>1. n \in Nat /\ \A i \in 1..n : sizes[file[i]] \in Nat
  OBVIOUS
<1>2. step \in Steps(n, Nat)
  <2> HIDE DEF n
  <2>1. ASSUME NEW i \in 1..n, NEW x \in Nat PROVE x + sizes[file[i]] \in Nat
    <3>1. sizes[file[i]] \in Nat
      BY <1>1
    <3> QED
      BY <3>1
  <2>2. step \in [1..n -> [Nat -> Nat]]
    BY <2>1
  <2> QED
    BY <2>2 DEF Steps
<1>3. \A i \in 1..n, x \in Nat : step[i][x] = x + sizes[file[i]]
  OBVIOUS
<1> HIDE DEF step, n
<1>4. PICK g : Iterates(g, n, Nat, 0, step)
  BY <1>1, <1>2, Iterated
<1>5. g \in [0..n -> Nat] /\ g[0] = 0 /\ \A i \in 1..n : g[i] = step[i][g[i - 1]]
  BY <1>4 DEF Iterates
<1>6. Total(sizes, file, g)
  <2>1. \A i \in 0..n : i # 0 => i \in 1..n /\ i - 1 \in 0..n
    BY <1>1
  <2>2. \A i \in 0..n : g[i] = IF i = 0 THEN 0 ELSE g[i - 1] + sizes[file[i]]
    BY <1>3, <1>5, <2>1
  <2>3. g = [i \in 0..n |-> g[i]]
    BY <1>5
  <2> QED
    BY <2>2, <2>3 DEF Total, n
<1>7. Total(sizes, file, sum)
  BY <1>6
<1>8. SizeOfFile(sizes, file) = sum[n]
  BY DEF SizeOfFile, Total, n
<1> HIDE DEF sum
<1>9. /\ DOMAIN sum = 0..n /\ sum[0] = 0 /\ sum = [i \in 0..n |-> sum[i]]
      /\ \A i \in 1..n : sum[i] = sum[i - 1] + sizes[file[i]]
  <2>1. sum = [i \in 0..n |-> IF i = 0 THEN 0 ELSE sum[i - 1] + sizes[file[i]]]
    BY <1>7 DEF Total, n
  <2>2. DOMAIN sum = 0..n /\ sum = [i \in 0..n |-> sum[i]]
    BY <2>1
  <2>3. \A i \in 0..n : sum[i] = IF i = 0 THEN 0 ELSE sum[i - 1] + sizes[file[i]]
    BY <2>1
  <2>4. \A i \in 1..n : i \in 0..n /\ i # 0
    BY <1>1
  <2>5. 0 \in 0..n
    BY <1>1
  <2>6. \A i \in 1..n : sum[i] = sum[i - 1] + sizes[file[i]]
    BY <2>3, <2>4
  <2>7. sum[0] = 0
    BY <2>3, <2>5
  <2> QED
    BY <2>2, <2>6, <2>7
<1>10. \A i \in 0..n : sum[i] \in Nat
  <2> DEFINE T == {i \in 0..n : sum[i] \in Nat}
  <2>1. 0 \in T
    BY <1>1, <1>9
  <2>2. ASSUME NEW i \in 1..n, i - 1 \in T PROVE i \in T
    <3>1. sum[i] = sum[i - 1] + sizes[file[i]] /\ sizes[file[i]] \in Nat /\ sum[i - 1] \in Nat
      BY <1>1, <1>9, <2>2
    <3>2. sum[i] \in Nat
      <4>1. \A x, y \in Nat : x + y \in Nat
        OBVIOUS
      <4> QED
        BY <3>1, <4>1, Zenon
    <3>3. i \in 0..n
      BY <1>1
    <3> QED
      BY <3>2, <3>3
  <2> HIDE DEF T
  <2>3. \A i \in 0..n : i \in T
    BY <1>1, <2>1, <2>2, UpTo
  <2> QED
    BY <2>3 DEF T
<1> QED
  BY <1>7, <1>8, <1>9, <1>10 DEF n

\* A line written to a file makes it larger by its size, and no other file.
LEMMA SizesGrow ==
  ASSUME NEW sizes \in Seq(Nat), NEW file \in Seq(1..Len(sizes)), NEW size \in Nat
  PROVE  LET more == Append(sizes, size) IN
         /\ SizeOfFile(more, file) = SizeOfFile(sizes, file)
         /\ SizeOfFile(more, Append(file, Len(sizes) + 1)) = SizeOfFile(sizes, file) + size
         /\ SizeOfFile(sizes, <<>>) = 0
         /\ SizeOfFile(sizes, file) \in Nat
<1> DEFINE n == Len(file)
           more == Append(sizes, size)
           longer == Append(file, Len(sizes) + 1)
<1>1. n \in Nat /\ \A i \in 1..n : file[i] \in 1..Len(sizes)
  OBVIOUS
<1>2. more \in Seq(Nat) /\ Len(more) = Len(sizes) + 1 /\ more[Len(sizes) + 1] = size
      /\ \A l \in 1..Len(sizes) : more[l] = sizes[l]
  OBVIOUS
<1>3. file \in Seq(1..Len(more)) /\ longer \in Seq(1..Len(more)) /\ Len(longer) = n + 1
      /\ longer[n + 1] = Len(sizes) + 1 /\ \A i \in 1..n : longer[i] = file[i]
  BY <1>1, <1>2
<1> HIDE DEF more, longer
<1>4. PICK a \in [0..n -> Nat] :
         /\ a[0] = 0 /\ \A i \in 1..n : a[i] = a[i - 1] + sizes[file[i]]
         /\ SizeOfFile(sizes, file) = a[n]
  BY SumIs
<1>5. PICK b \in [0..n -> Nat] :
         /\ b[0] = 0 /\ \A i \in 1..n : b[i] = b[i - 1] + more[file[i]]
         /\ SizeOfFile(more, file) = b[n]
  BY <1>2, <1>3, SumIs
<1>6. PICK c \in [0..Len(longer) -> Nat] :
         /\ c[0] = 0 /\ \A i \in 1..Len(longer) : c[i] = c[i - 1] + more[longer[i]]
         /\ SizeOfFile(more, longer) = c[Len(longer)]
  BY <1>2, <1>3, SumIs
<1>7. ASSUME NEW i \in 1..n
      PROVE  /\ a[i] = a[i - 1] + sizes[file[i]]
             /\ b[i] = b[i - 1] + sizes[file[i]]
             /\ c[i] = c[i - 1] + sizes[file[i]]
  <2>1. i \in 1..(n + 1) /\ more[longer[i]] = sizes[file[i]] /\ more[file[i]] = sizes[file[i]]
    <3>1. file[i] \in 1..Len(sizes) /\ longer[i] = file[i] /\ i \in 1..(n + 1)
      BY <1>1, <1>3
    <3>2. more[file[i]] = sizes[file[i]]
      BY <1>2, <3>1
    <3> QED
      BY <3>1, <3>2
  <2>2. c[i] = c[i - 1] + more[longer[i]]
    BY <1>3, <1>6, <2>1
  <2> QED
    BY <1>4, <1>5, <2>1, <2>2
<1>8. a[0] = 0 /\ b[0] = 0 /\ c[0] = 0 /\ c[n + 1] = c[n] + size
  <2>1. n + 1 \in 1..Len(longer) /\ (n + 1) - 1 = n /\ more[longer[n + 1]] = size
    BY <1>1, <1>2, <1>3
  <2>2. c[n + 1] = c[(n + 1) - 1] + more[longer[n + 1]]
    BY <1>6, <2>1
  <2> QED
    BY <1>4, <1>5, <1>6, <2>1, <2>2
<1> DEFINE T == {i \in 0..n : a[i] = b[i] /\ a[i] = c[i]}
<1>9. 0 \in T
  BY <1>1, <1>8
<1>10. ASSUME NEW i \in 1..n, i - 1 \in T PROVE i \in T
  BY <1>1, <1>7, <1>10
<1> HIDE DEF T
<1>11. \A i \in 0..n : i \in T
  BY <1>1, <1>9, <1>10, UpTo
<1>12. a[n] = b[n] /\ a[n] = c[n] /\ a[n] \in Nat
  BY <1>1, <1>11 DEF T
<1>13. SizeOfFile(sizes, <<>>) = 0
  <2>1. <<>> \in Seq(1..Len(sizes)) /\ Len(<<>>) = 0
    OBVIOUS
  <2>2. PICK e \in [0..Len(<<>>) -> Nat] :
           e[0] = 0 /\ SizeOfFile(sizes, <<>>) = e[Len(<<>>)]
    BY <2>1, SumIs
  <2> QED
    BY <2>1, <2>2
<1> QED
  BY <1>3, <1>4, <1>5, <1>6, <1>8, <1>12, <1>13 DEF more, longer

-----------------------------------------------------------------------------
(* The invariant.                                                          *)

\* The files, of n lines, and what is gone.
Written(fs, gone, n) ==
    /\ fs \in Files /\ gone \in SUBSET (1..n)
    /\ \A f \in DOMAIN fs : fs[f] \in FileOf(n)
    /\ \A l \in 1..n : Placed(fs, gone, l)

Room == FileLimit - 1

\* no file has more than twice the room and a line
Small(fs, sizes) ==
    \A f \in DOMAIN fs :
        \E size \in LineSizes \cup {0} : SizeOfFile(sizes, fs[f]) <= 2 * Room + size

LogInv ==
    /\ lines \in Seq(LineSizes) /\ current \in Nat /\ isOpen \in BOOLEAN /\ refusals \in Nat
    /\ Written(files, dropped, Len(lines))
    /\ isOpen => <<0>> \in DOMAIN files
    /\ OthersStay
    /\ refusals = 0 =>
         /\ isOpen /\ current <= Room
         /\ Aged(files, dropped) /\ Shaped(files, dropped, 0)
         /\ Small(files, lines)
         /\ SizeOfFile(lines, files[<<0>>]) <= Room + current

LEMMA SizesAreNat == Seq(LineSizes) \subseteq Seq(Nat) /\ FileLimit \in Nat \ {0} /\ Room \in Nat
<1>1. ASSUME NEW s \in Seq(LineSizes) PROVE s \in Seq(Nat)
  <2>1. Len(s) \in Nat /\ s \in [1..Len(s) -> LineSizes]
    OBVIOUS
  <2>2. s \in [1..Len(s) -> Nat]
    BY <2>1, LogsAssumption
  <2> QED
    BY <2>1, <2>2
<1> QED
  BY <1>1, LogsAssumption DEF Room

\* openFile adds an empty file, or none.
LEMMA OpenedIs ==
  ASSUME NEW fs \in Files, NEW opens \in BOOLEAN
  PROVE  LET o == Opened(fs, opens) IN
         /\ o \in Files
         /\ \A n \in DOMAIN fs : n \in DOMAIN o /\ o[n] = fs[n]
         /\ \A n \in DOMAIN o : n \in DOMAIN fs \/ (opens /\ n = << 0 >> /\ o[n] = <<>>)
         /\ opens => << 0 >> \in DOMAIN o
<1>1. CASE opens /\ <<0>> \notin DOMAIN fs
  <2> DEFINE o == [n \in DOMAIN fs \cup {<<0>>} |-> IF n = <<0>> THEN <<>> ELSE fs[n]]
  <2>1. Opened(fs, opens) = o
    BY <1>1 DEF Opened, There
  <2>2. /\ <<0>> \in Names /\ DOMAIN fs \subseteq Names /\ <<>> \in Seq(Nat)
        /\ \A n \in DOMAIN fs : fs[n] \in Seq(Nat)
    BY FilesAre DEF Names
  <2>3. DOMAIN o = DOMAIN fs \cup {<<0>>} /\ o[<<0>>] = <<>> /\ \A n \in DOMAIN fs : o[n] = fs[n]
    BY <1>1
  <2>4. o = [n \in DOMAIN o |-> o[n]]
    OBVIOUS
  <2> HIDE DEF o
  <2>5. \A n \in DOMAIN o : o[n] \in Seq(Nat)
    BY <2>2, <2>3
  <2>6. DOMAIN o \subseteq Names
    BY <2>2, <2>3
  <2>7. o \in Files
    BY <2>4, <2>5, <2>6, FilesAre
  <2>8. \A n \in DOMAIN o : n \in DOMAIN fs \/ (n = <<0>> /\ o[n] = <<>>)
    BY <2>3
  <2>9. <<0>> \in DOMAIN o /\ \A n \in DOMAIN fs : n \in DOMAIN o
    BY <2>3
  <2> QED
    BY <1>1, <2>1, <2>3, <2>7, <2>8, <2>9
<1>2. CASE ~(opens /\ <<0>> \notin DOMAIN fs)
  <2>1. Opened(fs, opens) = fs
    BY <1>2 DEF Opened, There
  <2> QED
    BY <1>2, <2>1
<1> QED
  BY <1>1, <1>2

LEMMA OpenedWritten ==
  ASSUME NEW fs, NEW gone, NEW n \in Nat, Written(fs, gone, n), NEW opens \in BOOLEAN
  PROVE  Written(Opened(fs, opens), gone, n)
<1> DEFINE o == Opened(fs, opens)
<1>1. /\ fs \in Files /\ gone \in SUBSET (1..n) /\ \A f \in DOMAIN fs : fs[f] \in FileOf(n)
      /\ \A l \in 1..n : Placed(fs, gone, l)
  BY DEF Written
<1>2. /\ o \in Files
      /\ \A f \in DOMAIN fs : f \in DOMAIN o /\ o[f] = fs[f]
      /\ \A f \in DOMAIN o : f \in DOMAIN fs \/ o[f] = <<>>
  BY <1>1, OpenedIs
<1> HIDE DEF o
<1>3. <<>> \in FileOf(n)
  BY DEF FileOf
<1>4. \A f \in DOMAIN o : o[f] \in FileOf(n)
  BY <1>1, <1>2, <1>3
<1>5. \A l : ~Contains(<<>>, l)
  BY DEF Contains
<1>6. ASSUME NEW l \in 1..n PROVE Placed(o, gone, l)
  <2>1. \A f \in DOMAIN o : Contains(o[f], l) => f \in DOMAIN fs
    BY <1>2, <1>5
  <2>2. Placed(fs, gone, l)
    BY <1>1
  <2>3. CASE l \in gone
    BY <1>2, <2>1, <2>2, <2>3 DEF Placed
  <2>4. CASE l \notin gone
    <3>1. PICK k \in DOMAIN fs : \A m \in DOMAIN fs : Contains(fs[m], l) <=> m = k
      BY <2>2, <2>4 DEF Placed
    <3>2. k \in DOMAIN o /\ \A m \in DOMAIN o : Contains(o[m], l) <=> m = k
      BY <1>2, <2>1, <3>1
    <3> QED
      BY <2>4, <3>2 DEF Placed
  <2> QED
    BY <2>3, <2>4
<1> QED
  BY <1>1, <1>2, <1>4, <1>6 DEF Written, o

\* Opening the first file keeps the others in order.
LEMMA OpenedInOrder ==
  ASSUME NEW fs \in Files, NEW gone, Aged(fs, gone), NEW first \in {0, 1}, Shaped(fs, gone, first)
  PROVE  Aged(Opened(fs, TRUE), gone) /\ Shaped(Opened(fs, TRUE), gone, 0)
<1> DEFINE o == Opened(fs, TRUE)
<1>1. /\ o \in Files
      /\ \A f \in DOMAIN fs : f \in DOMAIN o /\ o[f] = fs[f]
      /\ \A f \in DOMAIN o : f \in DOMAIN fs \/ (f = <<0>> /\ o[f] = <<>>)
      /\ <<0>> \in DOMAIN o
  BY OpenedIs
<1> HIDE DEF o
<1>2. PICK top \in 0..KeptFiles :
         DOMAIN fs = {<<m>> : m \in first..top} /\ (gone # {} => top = KeptFiles)
  BY DEF Shaped
<1>3. DOMAIN o = {<<m>> : m \in 0..top}
  <2>1. KeptFiles \in Nat
    BY LogsAssumption
  <2>2. \A m \in 0..top : m = 0 \/ m \in first..top
    BY <2>1
  <2>3. first..top \subseteq 0..top /\ 0 \in 0..top
    BY <2>1
  <2>4. \A m \in 0..top : <<m>> \in DOMAIN o
    BY <1>1, <1>2, <2>2
  <2>5. \A f \in DOMAIN o : f \in {<<m>> : m \in 0..top}
    BY <1>1, <1>2, <2>3
  <2> QED
    BY <2>4, <2>5
<1>4. Range(<<>>) = {}
  BY DEF Range
<1>5. Aged(o, gone)
  BY <1>1, <1>4 DEF Aged
<1> QED
  BY <1>2, <1>3, <1>5 DEF Shaped, o

\* A rotation keeps what was written.
LEMMA RotatedWritten ==
  ASSUME NEW fs, NEW gone, NEW n \in Nat, Written(fs, gone, n), NEW held
  PROVE  LET r == Rotated(fs, held) IN
         r \in Rotations /\ Written(r.files, gone \cup r.dropped, n)
<1> DEFINE r == Rotated(fs, held)
<1>1. /\ fs \in Files /\ gone \in SUBSET (1..n) /\ \A f \in DOMAIN fs : fs[f] \in FileOf(n)
      /\ \A l \in 1..n : Placed(fs, gone, l)
  BY DEF Written
<1>2. /\ r \in Rotations
      /\ \A f \in DOMAIN r.files : \E m \in DOMAIN fs : r.files[f] = fs[m]
      /\ \A l \in r.dropped : \E m \in DOMAIN fs : l \in Range(fs[m])
      /\ \A l : Placed(fs, gone, l) => Placed(r.files, gone \cup r.dropped, l)
  <2>1. fs \in Files
    BY <1>1
  <2> QED
    BY <2>1, RotatedKeeps
<1>3. r.dropped \in SUBSET (1..n)
  <2>1. \A f \in DOMAIN fs : fs[f] \in Seq(1..n)
    BY <1>1 DEF FileOf
  <2>2. \A f \in DOMAIN fs : Range(fs[f]) \subseteq 1..n
    BY <2>1 DEF Range
  <2> QED
    BY <1>2, <2>2
<1> HIDE DEF r
<1>4. r.files \in Files
  BY <1>2 DEF Rotations
<1> QED
  BY <1>1, <1>2, <1>3, <1>4 DEF Written, r

\* What a step that rotates the files fs leaves, when it is given `gone' and `sizes'.
LEMMA RotateKeeps ==
  ASSUME LogInv, NEW fs, lines' \in Seq(LineSizes), NEW opens \in BOOLEAN, NEW held,
         Written(fs, dropped, Len(lines')),
         refusals = 0 => << 0 >> \in DOMAIN fs /\ Aged(fs, dropped) /\ Shaped(fs, dropped, 0)
                         /\ Small(fs, lines'),
         refusals' = IF held # Free \/ ~opens THEN refusals + 1 ELSE refusals,
         files' = Opened(Rotated(fs, held).files, opens),
         dropped' = dropped \cup Rotated(fs, held).dropped,
         removed' = removed \cup Rotated(fs, held).removed,
         isOpen' = opens, current' = 0
  PROVE  LogInv'
<1> DEFINE r == Rotated(fs, held)
<1>1. Len(lines') \in Nat /\ fs \in Files
  BY DEF Written
<1>2. r \in Rotations /\ Written(r.files, dropped \cup r.dropped, Len(lines'))
  BY <1>1, RotatedWritten
<1>3. r.files \in Files
  BY <1>2 DEF Written
<1>4. Written(files', dropped', Len(lines'))
  BY <1>1, <1>2, OpenedWritten
<1>5. isOpen' => <<0>> \in DOMAIN files'
  BY <1>3, OpenedIs
<1>6. refusals' \in Nat /\ (refusals' = 0 => refusals = 0 /\ held = Free /\ opens)
  BY DEF LogInv
<1>7. ASSUME refusals' = 0
      PROVE  /\ Aged(files', dropped') /\ Shaped(files', dropped', 0) /\ Small(files', lines')
             /\ SizeOfFile(lines', files'[<<0>>]) <= Room + current'
  <2>1. refusals = 0 /\ held = Free /\ opens = TRUE
    BY <1>6, <1>7
  <2>2. Aged(r.files, dropped') /\ Shaped(r.files, dropped', 1)
    BY <1>1, <2>1, RotatedInOrder
  <2>3. files' = Opened(r.files, TRUE)
    BY <2>1
  <2>4. Aged(files', dropped') /\ Shaped(files', dropped', 0)
    BY <1>3, <2>2, <2>3, OpenedInOrder
  <2>5. /\ \A n \in DOMAIN files' : n \in DOMAIN r.files \/ (n = <<0>> /\ files'[n] = <<>>)
        /\ \A n \in DOMAIN r.files : files'[n] = r.files[n]
        /\ <<0>> \in DOMAIN files'
    <3>1. /\ \A n \in DOMAIN r.files : n \in DOMAIN files' /\ files'[n] = r.files[n]
          /\ \A n \in DOMAIN files' : n \in DOMAIN r.files \/ (opens /\ n = <<0>> /\ files'[n] = <<>>)
          /\ opens => <<0>> \in DOMAIN files'
      BY <1>3, OpenedIs
    <3> QED
      BY <2>1, <3>1
  <2>6. SizeOfFile(lines', <<>>) = 0
    <3>1. lines' \in Seq(Nat) /\ <<>> \in Seq(1..Len(lines'))
      BY SizesAreNat
    <3> QED
      BY <3>1, SizesGrow
  <2>7. <<0>> \notin DOMAIN r.files
    BY <2>2 DEF Shaped
  <2>8. Small(files', lines')
    <3> SUFFICES ASSUME NEW n \in DOMAIN files'
                 PROVE  \E size \in LineSizes \cup {0} :
                           SizeOfFile(lines', files'[n]) <= 2 * Room + size
      BY DEF Small
    <3>1. CASE n \in DOMAIN r.files
      <4>1. PICK m \in DOMAIN fs : r.files[n] = fs[m]
        <5>1. fs \in Files
          BY <1>1
        <5> QED
          BY <3>1, <5>1, RotatedKeeps
      <4> QED
        BY <2>1, <2>5, <3>1, <4>1 DEF Small
    <3>2. CASE files'[n] = <<>>
      <4>1. 0 \in LineSizes \cup {0} /\ 0 <= 2 * Room + 0
        BY SizesAreNat
      <4> QED
        BY <2>6, <3>2, <4>1
    <3> QED
      BY <2>5, <3>1, <3>2
  <2>9. SizeOfFile(lines', files'[<<0>>]) <= Room + current'
    BY <2>5, <2>6, <2>7, SizesAreNat
  <2> QED
    BY <2>4, <2>8, <2>9
<1>8. current' \in Nat /\ current' <= Room /\ isOpen' \in BOOLEAN
  BY SizesAreNat
<1>9. OthersStay'
  BY <1>1, RotatedKeeps DEF LogInv, OthersStay
<1> QED
  BY <1>4, <1>5, <1>6, <1>7, <1>8, <1>9 DEF LogInv

LEMMA LogInit ==
  ASSUME RotateInit
  PROVE  LogInv
<1>1. DOMAIN files = {<<0>>} /\ files[<<0>>] = <<>> /\ files = [n \in DOMAIN files |-> files[n]]
  BY DEF RotateInit
<1>2. lines = <<>> /\ dropped = {} /\ current = 0 /\ isOpen = TRUE /\ refusals = 0
  BY DEF RotateInit
<1>3. files \in Files
  <2>1. <<0>> \in Names /\ <<>> \in Seq(Nat)
    BY DEF Names
  <2> QED
    BY <1>1, <2>1, FilesAre
<1>4. Written(files, dropped, Len(lines))
  <2>1. <<>> \in FileOf(0) /\ Len(lines) = 0 /\ 1..0 = {}
    BY <1>2 DEF FileOf
  <2> QED
    BY <1>1, <1>2, <1>3, <2>1 DEF Written
<1>5. Range(<<>>) = {}
  BY DEF Range
<1>6. Aged(files, dropped)
  BY <1>1, <1>2, <1>5 DEF Aged
<1>7. Shaped(files, dropped, 0)
  <2>1. 0 \in 0..KeptFiles /\ 0..0 = {0}
    BY LogsAssumption
  <2> QED
    BY <1>1, <1>2, <2>1 DEF Shaped
<1>8. SizeOfFile(lines, <<>>) = 0
  <2>1. lines \in Seq(Nat) /\ <<>> \in Seq(1..Len(lines)) /\ 0 \in Nat
    BY <1>2
  <2> QED
    BY <2>1, SizesGrow
<1>9. Small(files, lines) /\ SizeOfFile(lines, files[<<0>>]) <= Room + current
  <2>1. 0 \in LineSizes \cup {0} /\ 0 <= 2 * Room + 0 /\ 0 <= Room + 0
    BY SizesAreNat
  <2>2. \A f \in DOMAIN files : SizeOfFile(lines, files[f]) = 0
    BY <1>1, <1>8
  <2>3. <<0>> \in DOMAIN files
    BY <1>1
  <2>4. Small(files, lines)
    BY <2>1, <2>2 DEF Small
  <2> QED
    BY <1>2, <2>1, <2>2, <2>3, <2>4
<1>10. OthersStay
  BY DEF RotateInit, OthersStay
<1> QED
  BY <1>1, <1>2, <1>4, <1>6, <1>7, <1>9, <1>10, SizesAreNat DEF LogInv

LEMMA RestartKeepsLog ==
  ASSUME LogInv, Restart
  PROVE  LogInv'
<1>1. lines' = lines /\ Written(files, dropped, Len(lines)) /\ files \in Files /\ Len(lines) \in Nat
  BY DEF LogInv, Restart, Written
<1>2. CASE SizeLeft >= FileLimit
  <2>1. Rotate(files)
    BY <1>2 DEF Restart
  <2>2. PICK held \in Holds, opens \in BOOLEAN :
           /\ refusals' = IF held # Free \/ ~opens THEN refusals + 1 ELSE refusals
           /\ files' = Opened(Rotated(files, held).files, opens)
           /\ dropped' = dropped \cup Rotated(files, held).dropped
           /\ removed' = removed \cup Rotated(files, held).removed
           /\ isOpen' = opens /\ current' = 0
    BY <2>1 DEF Rotate
  <2>3. refusals = 0 => <<0>> \in DOMAIN files /\ Aged(files, dropped) /\ Shaped(files, dropped, 0)
                        /\ Small(files, lines')
    BY <1>1 DEF LogInv
  <2>4. lines' \in Seq(LineSizes) /\ Written(files, dropped, Len(lines'))
    BY <1>1 DEF LogInv
  <2> QED
    BY <2>2, <2>3, <2>4, RotateKeeps
<1>3. CASE ~(SizeLeft >= FileLimit)
  <2>1. /\ files' = Opened(files, TRUE) /\ isOpen' = TRUE /\ current' = 0
        /\ dropped' = dropped /\ refusals' = refusals /\ removed' = removed
    BY <1>3 DEF Restart
  <2>2. Written(files', dropped', Len(lines'))
    BY <1>1, <2>1, OpenedWritten
  <2>3. /\ <<0>> \in DOMAIN files' /\ \A n \in DOMAIN files : files'[n] = files[n]
        /\ \A n \in DOMAIN files' : n \in DOMAIN files \/ (n = <<0>> /\ files'[n] = <<>>)
    BY <1>1, <2>1, OpenedIs
  <2>4. ASSUME refusals = 0
        PROVE  /\ Aged(files', dropped') /\ Shaped(files', dropped', 0) /\ Small(files', lines')
               /\ SizeOfFile(lines', files'[<<0>>]) <= Room + current'
    <3>1. Aged(files, dropped) /\ Shaped(files, dropped, 0) /\ Small(files, lines) /\ <<0>> \in DOMAIN files
      BY <2>4 DEF LogInv
    <3>2. Aged(files', dropped') /\ Shaped(files', dropped', 0)
      BY <1>1, <2>1, <3>1, OpenedInOrder
    <3>3. Small(files', lines')
      BY <1>1, <2>3, <3>1 DEF Small
    <3>4. SizeOfFile(lines, files[<<0>>]) < FileLimit
      <4>1. files[<<0>>] \in Seq(1..Len(lines)) /\ lines \in Seq(Nat)
        BY <3>1, SizesAreNat DEF LogInv, Written, FileOf
      <4>2. SizeOfFile(lines, files[<<0>>]) \in Nat
        BY <4>1, SizesGrow
      <4>3. SizeLeft = SizeOfFile(lines, files[<<0>>])
        BY <3>1 DEF SizeLeft, There
      <4> QED
        BY <1>3, <4>2, <4>3, SizesAreNat
    <3>5. SizeOfFile(lines, files[<<0>>]) \in Nat
      <4>1. files[<<0>>] \in Seq(1..Len(lines)) /\ lines \in Seq(Nat)
        BY <3>1, SizesAreNat DEF LogInv, Written, FileOf
      <4> QED
        BY <4>1, SizesGrow
    <3>6. SizeOfFile(lines, files[<<0>>]) <= Room + 0
      BY <3>4, <3>5, SizesAreNat DEF Room
    <3>7. SizeOfFile(lines', files'[<<0>>]) = SizeOfFile(lines, files[<<0>>]) /\ current' = 0
      BY <1>1, <2>1, <2>3, <3>1
    <3> QED
      BY <3>2, <3>3, <3>6, <3>7
  <2>5. current' \in Nat /\ current' <= Room /\ isOpen' /\ isOpen' \in BOOLEAN
    BY <2>1, SizesAreNat
  <2>6. lines' \in Seq(LineSizes) /\ refusals' \in Nat /\ refusals' = refusals
    BY <1>1, <2>1 DEF LogInv
  <2>7. OthersStay'
    BY <2>1 DEF LogInv, OthersStay
  <2> QED
    BY <2>2, <2>3, <2>4, <2>5, <2>6, <2>7 DEF LogInv
<1> QED
  BY <1>2, <1>3

LEMMA WriteKeepsLog ==
  ASSUME LogInv, WriteLine
  PROVE  LogInv'
<1> DEFINE line == Len(lines) + 1
           written == [files EXCEPT ![<<0>>] = Append(@, line)]
<1>0. /\ lines \in Seq(LineSizes) /\ lines \in Seq(Nat) /\ Len(lines) \in Nat
      /\ files \in Files /\ dropped \in SUBSET (1..Len(lines)) /\ current \in Nat
      /\ \A f \in DOMAIN files : files[f] \in FileOf(Len(lines))
      /\ \A l \in 1..Len(lines) : Placed(files, dropped, l)
  BY SizesAreNat DEF LogInv, Written
<1>1. PICK size \in LineSizes :
         /\ lines' = Append(lines, size)
         /\ IF ~isOpen
            THEN dropped' = dropped \cup {line} /\ UNCHANGED <<files, current, isOpen, removed, refusals>>
            ELSE IF current + size >= FileLimit THEN Rotate(written)
            ELSE /\ files' = written /\ current' = current + size
                 /\ UNCHANGED <<isOpen, dropped, removed, refusals>>
  BY DEF WriteLine
<1>2. size \in Nat \ {0}
  BY LogsAssumption
<1>3. lines' \in Seq(LineSizes) /\ Len(lines') = line
  BY <1>0, <1>1
<1>4. \A f \in DOMAIN files : files[f] \in FileOf(line) /\ ~Contains(files[f], line)
  <2> SUFFICES ASSUME NEW f \in DOMAIN files
               PROVE  files[f] \in FileOf(line) /\ ~Contains(files[f], line)
    OBVIOUS
  <2>1. files[f] \in Seq(1..Len(lines)) /\ Len(files[f]) \in Nat
    BY <1>0 DEF FileOf
  <2>2. 1..Len(lines) \subseteq 1..line /\ line \notin 1..Len(lines)
    BY <1>0
  <2>3. files[f] \in Seq(1..line)
    BY <2>1, <2>2
  <2>4. \A i \in 1..Len(files[f]) : files[f][i] \in 1..Len(lines)
    BY <2>1
  <2> QED
    BY <1>0, <2>2, <2>3, <2>4 DEF FileOf, Contains
<1> HIDE DEF written
<1>5. CASE ~isOpen
  <2>1. dropped' = dropped \cup {line} /\ files' = files /\ current' = current
        /\ isOpen' = isOpen /\ refusals' = refusals /\ removed' = removed
    BY <1>1, <1>5
  <2>2. dropped' \in SUBSET (1..line)
    <3>1. line \in 1..line /\ 1..Len(lines) \subseteq 1..line
      BY <1>0
    <3> QED
      BY <1>0, <2>1, <3>1
  <2>3. \A l \in 1..line : Placed(files', dropped', l)
    <3>1. \A l \in 1..line : l = line \/ l \in 1..Len(lines)
      BY <1>0
    <3>2. Placed(files', dropped', line)
      BY <1>4, <2>1 DEF Placed
    <3>3. ASSUME NEW l \in 1..Len(lines) PROVE Placed(files', dropped', l)
      <4>1. Placed(files, dropped, l) /\ l # line
        BY <1>0
      <4>2. l \in dropped' <=> l \in dropped
        BY <2>1, <4>1
      <4> QED
        BY <2>1, <4>1, <4>2 DEF Placed
    <3> QED
      BY <3>1, <3>2, <3>3
  <2>4. Written(files', dropped', Len(lines'))
    BY <1>0, <1>3, <1>4, <2>1, <2>2, <2>3 DEF Written
  <2>5. refusals' # 0 /\ isOpen' \in BOOLEAN /\ current' \in Nat /\ refusals' \in Nat /\ ~isOpen'
    BY <1>5, <2>1 DEF LogInv
  <2>6. OthersStay'
    BY <2>1 DEF LogInv, OthersStay
  <2> QED
    BY <1>3, <2>4, <2>5, <2>6 DEF LogInv
<1>6. CASE isOpen
  <2> DEFINE first == files[<<0>>]
             longer == Append(first, line)
  <2>1. <<0>> \in DOMAIN files
    BY <1>6 DEF LogInv
  <2>2. /\ written = [f \in DOMAIN written |-> written[f]] /\ DOMAIN written = DOMAIN files
        /\ written[<<0>>] = longer /\ \A f \in DOMAIN files \ {<<0>>} : written[f] = files[f]
    BY <2>1, <1>0, FilesAre DEF written
  <2>3. first \in FileOf(Len(lines)) /\ first \in Seq(1..Len(lines)) /\ Len(first) \in Nat
    BY <1>0, <2>1 DEF FileOf
  <2>4. /\ longer \in FileOf(line) /\ longer \in Seq(Nat)
        /\ Len(longer) = Len(first) + 1 /\ longer[Len(first) + 1] = line
        /\ \A i \in 1..Len(first) : longer[i] = first[i]
    <3>1. /\ Len(longer) = Len(first) + 1 /\ longer[Len(first) + 1] = line
          /\ \A i \in 1..Len(first) : longer[i] = first[i]
      BY <2>3
    <3>2. longer \in Seq(1..line) /\ longer \in Seq(Nat)
      <4>1. first \in Seq(1..line) /\ first \in Seq(Nat) /\ line \in 1..line
        BY <1>0, <2>3
      <4> QED
        BY <4>1, AppendProperties
    <3>3. ASSUME NEW i \in 1..(Len(longer) - 1) PROVE longer[i] < longer[i + 1]
      <4>1. i \in 1..Len(first) /\ first[i] \in 1..Len(lines)
        BY <2>3, <3>1
      <4>2. CASE i = Len(first)
        BY <1>0, <3>1, <4>1, <4>2
      <4>3. CASE i # Len(first)
        <5>1. i \in 1..(Len(first) - 1) /\ i + 1 \in 1..Len(first)
          BY <2>3, <4>1, <4>3
        <5> QED
          BY <2>3, <3>1, <4>1, <5>1 DEF FileOf
      <4> QED
        BY <4>2, <4>3
    <3> QED
      BY <3>1, <3>2, <3>3 DEF FileOf
  <2> HIDE DEF longer, first
  <2>5. \A l : Contains(longer, l) <=> Contains(first, l) \/ l = line
    <3> SUFFICES ASSUME NEW l PROVE Contains(longer, l) <=> Contains(first, l) \/ l = line
      OBVIOUS
    <3>1. 1..Len(longer) = 1..Len(first) \cup {Len(first) + 1}
      BY <2>3, <2>4
    <3>2. Contains(longer, l) <=> \E i \in 1..Len(first) \cup {Len(first) + 1} : longer[i] = l
      BY <3>1 DEF Contains
    <3> QED
      BY <2>4, <3>2 DEF Contains
  <2>6. written \in Files
    <3>1. \A f \in DOMAIN written : written[f] \in Seq(Nat)
      BY <1>0, <2>2, <2>4, FilesAre
    <3>2. DOMAIN written \subseteq Names
      BY <1>0, <2>2, FilesAre
    <3>3. written = [f \in DOMAIN written |-> written[f]]
      BY <2>2
    <3> QED
      BY <3>1, <3>2, <3>3, FilesAre
  <2>7. \A l \in 1..line : Placed(written, dropped, l)
    <3>1. \A l \in 1..line : l = line \/ l \in 1..Len(lines)
      BY <1>0
    <3>2. Placed(written, dropped, line)
      <4>1. line \notin dropped
        BY <1>0
      <4>2. \A f \in DOMAIN written : Contains(written[f], line) <=> f = <<0>>
        BY <1>4, <2>1, <2>2, <2>5
      <4> QED
        BY <2>1, <2>2, <4>1, <4>2 DEF Placed
    <3>3. ASSUME NEW l \in 1..Len(lines) PROVE Placed(written, dropped, l)
      <4>1. Placed(files, dropped, l) /\ l # line
        BY <1>0
      <4>2. \A f \in DOMAIN files : Contains(written[f], l) <=> Contains(files[f], l)
        BY <2>1, <2>2, <2>5, <4>1 DEF first
      <4> QED
        BY <2>2, <4>1, <4>2 DEF Placed
    <3> QED
      BY <3>1, <3>2, <3>3
  <2>8. Written(written, dropped, Len(lines'))
    <3>1. \A f \in DOMAIN written : written[f] \in FileOf(line)
      BY <1>4, <2>2, <2>4
    <3>2. dropped \in SUBSET (1..line)
      BY <1>0
    <3> QED
      BY <1>3, <2>6, <2>7, <3>1, <3>2 DEF Written
  <2>9. ASSUME refusals = 0
        PROVE  /\ Aged(written, dropped) /\ Shaped(written, dropped, 0) /\ Small(written, lines')
               /\ SizeOfFile(lines', written[<<0>>]) = SizeOfFile(lines, first) + size
               /\ SizeOfFile(lines, first) \in Nat /\ SizeOfFile(lines, first) <= Room + current
    <3>1. /\ Aged(files, dropped) /\ Shaped(files, dropped, 0) /\ Small(files, lines)
          /\ SizeOfFile(lines, first) <= Room + current /\ current <= Room
      BY <2>9 DEF LogInv, first
    <3>2. Shaped(written, dropped, 0)
      BY <2>2, <3>1 DEF Shaped
    <3>3. /\ Range(longer) = Range(first) \cup {line}
          /\ \A f \in DOMAIN files : Range(files[f]) \subseteq 1..Len(lines)
      <4>1. \A f \in DOMAIN files : files[f] \in Seq(1..Len(lines))
        BY <1>0 DEF FileOf
      <4>2. \A f \in DOMAIN files : Range(files[f]) \subseteq 1..Len(lines)
        BY <4>1 DEF Range
      <4>3. DOMAIN longer = 1..(Len(first) + 1) /\ DOMAIN first = 1..Len(first)
        BY <2>3, <2>4 DEF FileOf
      <4>4. Range(longer) = Range(first) \cup {line}
        BY <2>3, <2>4, <4>3 DEF Range
      <4> QED
        BY <4>2, <4>4
    <3>4. Aged(written, dropped)
      <4>1. \A f \in DOMAIN files : f[1] \in Nat /\ (f # <<0>> => f[1] # 0)
        BY <3>1 DEF Shaped
      <4>2. ASSUME NEW m \in DOMAIN written, NEW n \in DOMAIN written, m[1] < n[1],
                   NEW i \in Range(written[m]), NEW j \in Range(written[n])
            PROVE  i > j
        <5>1. n # <<0>> /\ j \in Range(files[n]) /\ j \in 1..Len(lines)
          BY <2>2, <3>3, <4>1, <4>2
        <5>2. i \in Range(files[m]) \/ i = line
          BY <2>1, <2>2, <3>3 DEF first
        <5> QED
          BY <1>0, <2>2, <3>1, <4>2, <5>1, <5>2 DEF Aged
      <4>3. ASSUME NEW n \in DOMAIN written, NEW l \in dropped, NEW i \in Range(written[n])
            PROVE  l < i
        <5>1. i \in Range(files[n]) \/ i = line
          BY <2>1, <2>2, <3>3 DEF first
        <5>2. l \in 1..Len(lines)
          BY <1>0
        <5> QED
          BY <1>0, <2>2, <3>1, <5>1, <5>2 DEF Aged
      <4> QED
        BY <4>2, <4>3 DEF Aged
    <3>5. \A f \in DOMAIN files : SizeOfFile(lines', files[f]) = SizeOfFile(lines, files[f])
      <4>1. \A f \in DOMAIN files : files[f] \in Seq(1..Len(lines))
        BY <1>0 DEF FileOf
      <4> QED
        BY <1>0, <1>1, <1>2, <4>1, SizesGrow
    <3>6. /\ SizeOfFile(lines', longer) = SizeOfFile(lines, first) + size
          /\ SizeOfFile(lines, first) \in Nat
      BY <1>0, <1>1, <1>2, <2>3, SizesGrow DEF longer
    <3>7. Small(written, lines')
      <4> SUFFICES ASSUME NEW f \in DOMAIN written
                   PROVE  \E s \in LineSizes \cup {0} : SizeOfFile(lines', written[f]) <= 2 * Room + s
        BY DEF Small
      <4>1. CASE f = <<0>>
        <5>1. SizeOfFile(lines', written[f]) <= 2 * Room + size
          BY <1>0, <1>2, <2>2, <3>1, <3>6, <4>1, SizesAreNat
        <5> QED
          BY <5>1
      <4>2. CASE f # <<0>>
        BY <2>2, <3>1, <3>5, <4>2 DEF Small
      <4> QED
        BY <4>1, <4>2
    <3> QED
      BY <2>2, <3>1, <3>2, <3>4, <3>6, <3>7
  <2>10. CASE current + size >= FileLimit
    <3>1. Rotate(written)
      BY <1>1, <1>6, <2>10
    <3>2. PICK held \in Holds, opens \in BOOLEAN :
             /\ refusals' = IF held # Free \/ ~opens THEN refusals + 1 ELSE refusals
             /\ files' = Opened(Rotated(written, held).files, opens)
             /\ dropped' = dropped \cup Rotated(written, held).dropped
             /\ removed' = removed \cup Rotated(written, held).removed
             /\ isOpen' = opens /\ current' = 0
      BY <3>1 DEF Rotate
    <3>3. refusals = 0 => <<0>> \in DOMAIN written /\ Aged(written, dropped)
                          /\ Shaped(written, dropped, 0) /\ Small(written, lines')
      BY <2>1, <2>2, <2>9
    <3> QED
      BY <1>3, <2>8, <3>2, <3>3, RotateKeeps
  <2>11. CASE ~(current + size >= FileLimit)
    <3>1. /\ files' = written /\ current' = current + size
          /\ isOpen' = isOpen /\ dropped' = dropped /\ refusals' = refusals /\ removed' = removed
      BY <1>1, <1>6, <2>11
    <3>2. current' \in Nat /\ current' <= Room
      BY <1>0, <1>2, <2>11, <3>1, SizesAreNat DEF Room
    <3>3. refusals = 0 => SizeOfFile(lines', written[<<0>>]) <= Room + current'
      BY <1>0, <1>2, <2>9, <3>1, SizesAreNat
    <3>4. Written(files', dropped', Len(lines')) /\ isOpen' /\ <<0>> \in DOMAIN files'
      BY <1>6, <2>1, <2>2, <2>8, <3>1
    <3>5. refusals' \in Nat /\ isOpen' \in BOOLEAN
      BY <3>1 DEF LogInv
    <3>6. OthersStay'
      BY <3>1 DEF LogInv, OthersStay
    <3> QED
      BY <1>3, <2>9, <3>1, <3>2, <3>3, <3>4, <3>5, <3>6 DEF LogInv
  <2> QED
    BY <2>10, <2>11
<1>7. isOpen \in BOOLEAN
  BY DEF LogInv
<1> QED
  BY <1>5, <1>6, <1>7

LEMMA LogInvKept ==
  ASSUME LogInv, [RotateNext]_rotateVars
  PROVE  LogInv'
<1>1. CASE UNCHANGED rotateVars
  BY <1>1 DEF LogInv, rotateVars, OthersStay
<1> QED
  BY <1>1, RestartKeepsLog, WriteKeepsLog DEF RotateNext

LEMMA LogInvSays ==
  ASSUME LogInv
  PROVE  LinesKept
<1>1. \A f \in DOMAIN files : files[f] \in FileOf(Len(lines))
  BY DEF LogInv, Written
<1>2. DOMAIN lines = 1..Len(lines)
  BY DEF LogInv
<1>3. LinesOnce
  <2>1. ASSUME NEW l \in DOMAIN lines
        PROVE  Cardinality({n \in DOMAIN files : Contains(files[n], l)}) = IF l \in dropped THEN 0 ELSE 1
    <3> DEFINE at == {n \in DOMAIN files : Contains(files[n], l)}
    <3>1. Placed(files, dropped, l)
      BY <1>2 DEF LogInv, Written
    <3>2. CASE l \in dropped
      <4>1. at = {}
        BY <3>1, <3>2 DEF Placed
      <4> QED
        BY <3>2, <4>1, FS_EmptySet
    <3>3. CASE l \notin dropped
      <4>1. PICK n \in DOMAIN files : \A m \in DOMAIN files : Contains(files[m], l) <=> m = n
        BY <3>1, <3>3 DEF Placed
      <4>2. at = {n}
        BY <4>1
      <4> QED
        BY <3>3, <4>2, FS_Singleton
    <3> QED
      BY <3>2, <3>3
  <2> QED
    BY <1>1, <2>1 DEF LinesOnce, FileOf
<1>4. FilesInOrder
  <2> SUFFICES ASSUME refusals = 0
               PROVE  /\ Aged(files, dropped) /\ DOMAIN files \subseteq {<<i>> : i \in 0..KeptFiles}
                      /\ dropped # {} => \A i \in 1..KeptFiles : There(files, <<i>>)
    BY DEF FilesInOrder, Aged
  <2>1. Aged(files, dropped) /\ Shaped(files, dropped, 0)
    BY DEF LogInv
  <2>2. PICK top \in 0..KeptFiles :
           DOMAIN files = {<<m>> : m \in 0..top} /\ (dropped # {} => top = KeptFiles)
    BY <2>1 DEF Shaped
  <2>3. KeptFiles \in Nat
    BY LogsAssumption
  <2>4. 0..top \subseteq 0..KeptFiles /\ 1..KeptFiles \subseteq 0..KeptFiles
    BY <2>3
  <2> QED
    BY <2>1, <2>2, <2>4 DEF There
<1>5. FilesBounded
  BY DEF LogInv, FilesBounded, Small, Room
<1> QED
  BY <1>3, <1>4, <1>5 DEF LinesKept, LogInv

THEOREM LinesStayKept == RotateSpec => []LinesKept
<1>1. LogInv /\ [RotateNext]_rotateVars => LogInv'
  BY LogInvKept
<1> QED
  BY <1>1, LogInit, LogInvSays, PTL DEF RotateSpec

-----------------------------------------------------------------------------
(* DailyLog.                                                               *)

Totals(g) == g = [d \in 0..Len(Calendar) |-> IF d = 0 THEN 0 ELSE g[d - 1] + Calendar[d]]

LEMMA HoursAre ==
  /\ Hours \in [0..Len(Calendar) -> Nat] /\ Hours[0] = 0
  /\ \A d \in Days : Calendar[d] \in {23, 24, 25} /\ Hours[d] = Hours[d - 1] + Calendar[d]
<1> DEFINE n == Len(Calendar)
           step == [d \in 1..n |-> [x \in Nat |-> x + Calendar[d]]]
<1>1. n \in Nat /\ \A d \in 1..n : Calendar[d] \in {23, 24, 25} /\ Calendar[d] \in Nat
  BY DailyAssumption
<1>2. step \in Steps(n, Nat)
  <2> HIDE DEF n
  <2>1. ASSUME NEW d \in 1..n, NEW x \in Nat PROVE x + Calendar[d] \in Nat
    <3>1. Calendar[d] \in Nat
      BY <1>1
    <3> QED
      BY <3>1
  <2>2. step \in [1..n -> [Nat -> Nat]]
    BY <2>1
  <2> QED
    BY <2>2 DEF Steps
<1>3. \A d \in 1..n, x \in Nat : step[d][x] = x + Calendar[d]
  OBVIOUS
<1> HIDE DEF step, n
<1>4. PICK g : Iterates(g, n, Nat, 0, step)
  BY <1>1, <1>2, Iterated
<1>5. g \in [0..n -> Nat] /\ g[0] = 0 /\ \A d \in 1..n : g[d] = step[d][g[d - 1]]
  BY <1>4 DEF Iterates
<1>6. Totals(g)
  <2>1. \A d \in 0..n : d # 0 => d \in 1..n /\ d - 1 \in 0..n
    BY <1>1
  <2>2. \A d \in 0..n : g[d] = IF d = 0 THEN 0 ELSE g[d - 1] + Calendar[d]
    BY <1>3, <1>5, <2>1
  <2>3. g = [d \in 0..n |-> g[d]]
    BY <1>5
  <2> QED
    BY <2>2, <2>3 DEF Totals, n
<1>7. Hours = CHOOSE h : Totals(h)
  BY DEF Hours, Totals
<1>8. Totals(Hours)
  <2> HIDE DEF Totals
  <2> QED
    BY <1>6, <1>7
<1>9. /\ DOMAIN Hours = 0..n /\ Hours[0] = 0 /\ Hours = [d \in 0..n |-> Hours[d]]
      /\ \A d \in 1..n : Hours[d] = Hours[d - 1] + Calendar[d]
  BY <1>1, <1>8 DEF Totals, n
<1> DEFINE T == {d \in 0..n : Hours[d] \in Nat}
<1>10. 0 \in T
  BY <1>1, <1>9
<1>11. ASSUME NEW d \in 1..n, d - 1 \in T PROVE d \in T
  <2>1. Hours[d] = Hours[d - 1] + Calendar[d] /\ Calendar[d] \in Nat /\ Hours[d - 1] \in Nat
    BY <1>1, <1>9, <1>11
  <2> QED
    BY <1>1, <2>1
<1> HIDE DEF T
<1>12. \A d \in 0..n : d \in T
  BY <1>1, <1>10, <1>11, UpTo
<1>13. Hours \in [0..n -> Nat]
  BY <1>9, <1>12 DEF T
<1> QED
  BY <1>1, <1>9, <1>13 DEF n, Days

\* a time of a day
During(t, d) == d \in Days /\ Midnight(d) <= t /\ t < Midnight(d) + Calendar[d]

LEMMA CalendarIs ==
  /\ Len(Calendar) \in Nat \ {0} /\ 1 \in Days /\ Midnight(1) = 0
  /\ \A d \in Days : Midnight(d) \in Nat /\ Calendar[d] \in {23, 24, 25} /\ d \in Nat
  /\ \A d, e \in Days :
        /\ d < e => Midnight(d) + Calendar[d] <= Midnight(e)
        /\ d <= e => Midnight(e) - Midnight(d) - 24 * (e - d) \in -21..21
        /\ e = d + 1 => Midnight(e) = Midnight(d) + Calendar[d]
<1>1. Len(Calendar) \in Nat \ {0}
  BY DailyAssumption
<1>2. Days = 1..Len(Calendar)
  BY DEF Days
<1>3. ASSUME NEW d \in Days PROVE Midnight(d) \in Nat /\ Calendar[d] \in {23, 24, 25} /\ d \in Nat
  <2>1. d - 1 \in 0..Len(Calendar)
    BY <1>1, <1>2
  <2> QED
    BY <1>2, <2>1, HoursAre DEF Midnight
<1>4. ASSUME NEW d \in Days, NEW e \in Days, e = d + 1 PROVE Midnight(e) = Midnight(d) + Calendar[d]
  <2>1. e - 1 = d
    BY <1>2, <1>4
  <2> QED
    BY <2>1, HoursAre DEF Midnight
<1>5. \A d, e \in Days : d <= e => Midnight(e) - Midnight(d) - 24 * (e - d) \in -21..21
  BY CalendarAssumption
<1>6. ASSUME NEW d \in Days, NEW e \in Days, d < e PROVE Midnight(d) + Calendar[d] <= Midnight(e)
  <2>1. CASE e = d + 1
    BY <1>3, <1>4, <2>1
  <2>2. CASE e # d + 1
    <3>1. d + 1 \in Days /\ d + 1 <= e /\ e - (d + 1) >= 1 /\ e - (d + 1) \in Nat
      BY <1>1, <1>2, <1>6, <2>2
    <3>2. Midnight(d + 1) = Midnight(d) + Calendar[d]
      BY <1>4, <3>1
    <3>3. Midnight(e) - Midnight(d + 1) - 24 * (e - (d + 1)) \in -22..22
      BY <1>5, <3>1
    <3>4. Midnight(e) - Midnight(d + 1) >= 0
      BY <1>3, <3>1, <3>3
    <3> QED
      BY <1>3, <3>1, <3>2, <3>4
  <2> QED
    BY <2>1, <2>2
<1>7. 1 \in Days /\ Midnight(1) = 0
  BY <1>1, <1>2, HoursAre DEF Midnight
<1> QED
  BY <1>1, <1>3, <1>4, <1>5, <1>6, <1>7

\* A time of a day is of that day and no other ...
LEMMA DayOfIs ==
  ASSUME NEW t \in Int, NEW d, During(t, d)
  PROVE  DayOf(t) = d
<1>1. t >= 0
  BY CalendarIs DEF During
<1>2. ASSUME NEW e \in Days, Midnight(e) <= t, t < Midnight(e) + Calendar[e] PROVE e = d
  <2>1. d \in Days /\ Midnight(d) <= t /\ t < Midnight(d) + Calendar[d]
    BY DEF During
  <2>2. d < e \/ e < d \/ e = d
    BY <2>1, CalendarIs
  <2>3. /\ Midnight(d) \in Nat /\ Midnight(e) \in Nat
        /\ d < e => Midnight(d) + Calendar[d] <= Midnight(e)
        /\ e < d => Midnight(e) + Calendar[e] <= Midnight(d)
        /\ Calendar[d] \in Nat /\ Calendar[e] \in Nat
    <3>1. \A x \in Days : Midnight(x) \in Nat /\ Calendar[x] \in Nat
      BY CalendarIs
    <3>2. \A x, y \in Days : x < y => Midnight(x) + Calendar[x] <= Midnight(y)
      BY CalendarIs
    <3> QED
      BY <2>1, <3>1, <3>2
  <2> QED
    BY <1>2, <2>1, <2>2, <2>3
<1>3. DayOf(t) = CHOOSE e \in Days : Midnight(e) <= t /\ t < Midnight(e) + Calendar[e]
  BY <1>1 DEF DayOf
<1> QED
  BY <1>2, <1>3 DEF During

\* ... and a time before a day is of a day before.
LEMMA DayBefore ==
  ASSUME NEW d \in Days, NEW t \in Nat, t < Midnight(d)
  PROVE  \E e \in Days : e < d /\ During(t, e)
<1> DEFINE n == Len(Calendar)
           T == {i \in 0..n : i \in Days /\ t < Midnight(i) => \E e \in Days : e < i /\ During(t, e)}
<1>1. n \in Nat /\ Days = 1..n
  BY CalendarIs DEF Days
<1>2. 0 \in T
  BY <1>1
<1>3. ASSUME NEW i \in 1..n, i - 1 \in T PROVE i \in T
  <2> SUFFICES ASSUME t < Midnight(i) PROVE \E e \in Days : e < i /\ During(t, e)
    BY <1>1
  <2>1. i # 1 /\ i - 1 \in Days
    BY <1>1, CalendarIs
  <2>2. Midnight(i) = Midnight(i - 1) + Calendar[i - 1] /\ i \in Days
    BY <1>1, <2>1, CalendarIs
  <2>3. CASE t < Midnight(i - 1)
    <3>1. PICK e \in Days : e < i - 1 /\ During(t, e)
      BY <1>3, <2>1, <2>3
    <3> QED
      BY <1>1, <3>1
  <2>4. CASE ~(t < Midnight(i - 1))
    <3>1. During(t, i - 1) /\ i - 1 < i
      BY <1>1, <2>1, <2>2, <2>4, CalendarIs DEF During
    <3> QED
      BY <2>1, <3>1
  <2> QED
    BY <2>3, <2>4
<1> HIDE DEF T
<1>4. \A i \in 0..n : i \in T
  BY <1>1, <1>2, <1>3, UpTo
<1> QED
  BY <1>1, <1>4 DEF T

\* What is taken for the beginning of a day is within an hour of it.
LEMMA BeganIs ==
  ASSUME NEW t \in Int, NEW today, During(t, today)
  PROVE  /\ DayOf(t) = today /\ Began(t) \in Int
         /\ Began(t) - Midnight(today) \in -1..1
         /\ Began(t) - Midnight(today) = 1 => Calendar[today] = 25
<1>1. DayOf(t) = today
  BY DayOfIs
<1>2. today \in Days /\ Midnight(today) \in Nat /\ Calendar[today] \in {23, 24, 25}
  BY CalendarIs DEF During
<1>3. Began(t) = Midnight(today)
           + (IF t < Midnight(today) + ChangeHour THEN 0 ELSE Calendar[today] - 24)
  BY <1>1 DEF Began
<1> QED
  BY <1>1, <1>2, <1>3

\* What deleteOld removes is none of the last days, and of the nine before them at least
\* the days that are not short.
LEMMA DeletedAre ==
  ASSUME NEW t \in Int, NEW today, During(t, today)
  PROVE  /\ \A d \in DeletedDays(t) : d \in Days => d <= today - KeptDays
         /\ \A d \in Days : d \in (today - KeptDays - 9)..(today - KeptDays - 1) =>
               Short(d) \/ d \in DeletedDays(t)
<1>1. today \in Days /\ today \in Nat /\ Midnight(today) \in Nat /\ KeptDays \in Nat \ {0}
  BY CalendarIs, DailyAssumption DEF During
<1> DEFINE begun == Began(t)
<1>2. DayOf(t) = today /\ begun \in Int /\ begun - Midnight(today) \in -1..1
  BY BeganIs
<1>5. DeletedDays(t) = {DayOf(begun - 24 * (KeptDays + i)) : i \in 0..9}
  BY DEF DeletedDays
<1> HIDE DEF begun
<1>3. ASSUME NEW d \in DeletedDays(t), d \in Days PROVE d <= today - KeptDays
  <2>1. PICK i \in 0..9 : d = DayOf(begun - 24 * (KeptDays + i))
    BY <1>5
  <2> DEFINE back == begun - 24 * (KeptDays + i)
  <2>2. back \in Int /\ back < Midnight(today)
    BY <1>1, <1>2
  <2>3. back >= 0
    <3>1. ~(back < 0)
      BY <1>3, <2>1, CalendarIs DEF DayOf, Days
    <3> QED
      BY <2>2, <3>1
  <2> HIDE DEF back
  <2>4. PICK e \in Days : e < today /\ During(back, e)
    BY <1>1, <2>2, <2>3, DayBefore
  <2>5. d = e
    BY <2>1, <2>2, <2>4, DayOfIs DEF back
  <2>6. Midnight(today) - Midnight(d) - 24 * (today - d) \in -22..22 /\ Midnight(d) \in Nat /\ d \in Nat
    BY <1>1, <2>4, <2>5, CalendarIs
  <2>7. Midnight(d) <= begun - 24 * (KeptDays + i)
    BY <2>4, <2>5 DEF During, back
  <2> QED
    BY <1>1, <1>2, <2>6, <2>7
<1>4. ASSUME NEW d \in Days, d \in (today - KeptDays - 9)..(today - KeptDays - 1), ~Short(d)
      PROVE  d \in DeletedDays(t)
  <2> DEFINE off == begun - Midnight(d)
             more == off - 24 * (today - d)
             i == IF more >= 0 THEN today - d - KeptDays ELSE today - d - KeptDays - 1
             back == begun - 24 * (KeptDays + i)
  <2>1. Midnight(d) \in Nat /\ d \in Nat /\ Calendar[d] \in {24, 25}
    BY <1>4, CalendarIs DEF Short
  <2>2. d <= today
    BY <1>1, <1>4, <2>1
  <2>3. more \in -22..22
    <3>1. Midnight(today) - Midnight(d) - 24 * (today - d) \in -21..21
      BY <1>1, <2>2, CalendarIs
    <3> QED
      BY <1>1, <1>2, <2>1, <3>1
  <2>4. i \in 0..9
    BY <1>1, <1>4, <2>1
  <2>5. back = Midnight(d) + (IF more >= 0 THEN more ELSE 24 + more) /\ back \in Int
    BY <1>1, <1>2, <2>1
  <2>6. Midnight(d) <= back /\ back < Midnight(d) + Calendar[d]
    BY <2>1, <2>3, <2>5
  <2> HIDE DEF i, back
  <2>7. During(back, d)
    BY <2>6 DEF During
  <2>8. DayOf(back) = d
    BY <2>5, <2>7, DayOfIs
  <2> QED
    BY <1>5, <2>4, <2>8 DEF back
<1> QED
  BY <1>3, <1>4

-----------------------------------------------------------------------------
(* The invariant.                                                          *)

\* from where a file of day d is to be left, by the hour at which it was opened
RotatesFrom(d) == Midnight(d) + 23 .. Midnight(d) + (IF Calendar[d] = 25 THEN 25 ELSE 24)

\* The file that is open is of a day that has begun, and is to be left about a day after
\* that day's beginning.
DailyInv ==
    /\ clock \in Nat /\ \E d \in Days : During(clock, d)
    /\ days \subseteq Days /\ openDay \in Days /\ openDay \in days
    /\ Midnight(openDay) <= clock /\ nextRotate \in RotatesFrom(openDay)
    /\ told.at \in Int /\ told.at <= clock

LEMMA DayNow ==
  ASSUME DailyInv
  PROVE  /\ DayOf(clock) \in Days /\ During(clock, DayOf(clock))
         /\ NextRotateTime(clock) \in RotatesFrom(DayOf(clock))
         /\ Midnight(DayOf(clock)) <= clock
<1>1. PICK d \in Days : During(clock, d)
  BY DEF DailyInv
<1>2. DayOf(clock) = d /\ clock \in Int
  BY <1>1, DayOfIs DEF DailyInv
<1>3. NextRotateTime(clock) \in RotatesFrom(d)
  <2>1. /\ Began(clock) \in Int /\ Began(clock) - Midnight(d) \in -1..1
        /\ Began(clock) - Midnight(d) = 1 => Calendar[d] = 25
    BY <1>1, <1>2, BeganIs
  <2>2. Midnight(d) \in Nat
    BY <1>1, CalendarIs DEF During
  <2> QED
    BY <2>1, <2>2 DEF NextRotateTime, RotatesFrom
<1> QED
  BY <1>1, <1>2, <1>3 DEF During

LEMMA DailyInitInv ==
  ASSUME DailyInit
  PROVE  DailyInv
<1>1. During(0, 1)
  BY CalendarIs DEF During
<1>2. DayOf(0) = 1
  BY <1>1, DayOfIs
<1>3. /\ Began(0) \in Int /\ Began(0) - Midnight(1) \in -1..1
      /\ Began(0) - Midnight(1) = 1 => Calendar[1] = 25
  BY <1>1, BeganIs
<1>4. NextRotateTime(0) \in RotatesFrom(1)
  BY <1>3, CalendarIs DEF NextRotateTime, RotatesFrom
<1> QED
  BY <1>1, <1>2, <1>4, CalendarIs DEF DailyInit, DailyInv

LEMMA RestartKeepsDays ==
  ASSUME DailyInv, DailyRestart
  PROVE  DailyInv' /\ LinesInTheirDay'
<1>1. /\ clock' = clock /\ days' = days \cup {DayOf(clock)} /\ openDay' = DayOf(clock)
      /\ nextRotate' = NextRotateTime(clock) /\ told'.at = -1
  BY DEF DailyRestart
<1>2. DailyInv'
  BY <1>1, DayNow DEF DailyInv
<1> QED
  BY <1>1, <1>2 DEF LinesInTheirDay, DailyInv

LEMMA PassKeepsDays ==
  ASSUME DailyInv, Pass
  PROVE  DailyInv' /\ LinesInTheirDay'
<1> DEFINE later == {t \in Times : t > clock}
<1>1. \A t \in Times : t \in Nat /\ \E d \in Days : During(t, d)
  <2> SUFFICES ASSUME NEW d \in Days, NEW h \in Moments, h < Calendar[d]
               PROVE  Midnight(d) + h \in Nat /\ During(Midnight(d) + h, d)
    BY DEF Times
  <2>1. Midnight(d) \in Nat /\ Calendar[d] \in {23, 24, 25} /\ h \in 0..24
    BY CalendarIs, DailyAssumption
  <2> QED
    BY <2>1 DEF During
<1>2. later \in SUBSET Nat /\ later # {}
  BY <1>1 DEF Pass
<1>3. clock' = Min(later)
  BY DEF Pass
<1> HIDE DEF later
<1>4. Min(later) \in later
  <2>1. \E n \in later : \A m \in later : n <= m
    BY <1>2, LeastOf
  <2> QED
    BY <2>1 DEF Min
<1>5. clock' \in Nat /\ clock' > clock /\ \E d \in Days : During(clock', d)
  BY <1>1, <1>3, <1>4 DEF later
<1>6. days' = days /\ openDay' = openDay /\ nextRotate' = nextRotate /\ told' = told
  BY DEF Pass
<1>7. DailyInv'
  <2>1. Midnight(openDay) \in Nat
    BY CalendarIs DEF DailyInv
  <2> QED
    BY <1>5, <1>6, <2>1 DEF DailyInv
<1>8. told'.at # clock'
  BY <1>5, <1>6 DEF DailyInv
<1> QED
  BY <1>7, <1>8 DEF LinesInTheirDay

LEMMA WriteKeepsDays ==
  ASSUME DailyInv, DailyWrite
  PROVE  DailyInv' /\ LinesInTheirDay' /\ OldFilesGo
<1> DEFINE today == DayOf(clock)
<1>1. /\ today \in Days /\ During(clock, today) /\ NextRotateTime(clock) \in RotatesFrom(today)
      /\ Midnight(today) <= clock /\ Midnight(today) \in Nat /\ today \in Nat
      /\ clock \in Nat /\ openDay \in Days /\ Midnight(openDay) \in Nat /\ days \subseteq Days
      /\ Midnight(openDay) <= clock /\ openDay \in Nat /\ KeptDays \in Nat \ {0}
  BY DayNow, CalendarIs, DailyAssumption DEF DailyInv
<1> HIDE DEF today
<1>2. clock' = clock /\ told'.at = clock
  BY DEF DailyWrite
<1>3. CASE clock >= nextRotate
  <2>1. /\ openDay' = today /\ nextRotate' = NextRotateTime(clock)
        /\ days' = (days \cup {today}) \ DeletedDays(clock)
    BY <1>3 DEF DailyWrite, today
  <2>2. \A d \in DeletedDays(clock) : d \in Days => d <= today - KeptDays
    BY <1>1, DeletedAre
  <2>3. today \notin DeletedDays(clock)
    BY <1>1, <2>2
  <2>4. DailyInv'
    <3>1. \E d \in Days : During(clock', d)
      BY <1>1, <1>2
    <3>2. days' \subseteq Days /\ openDay' \in days'
      BY <1>1, <2>1, <2>3
    <3> QED
      BY <1>1, <1>2, <2>1, <3>1, <3>2 DEF DailyInv
  <2>5. LinesInTheirDay'
    BY <1>2, <2>1, <2>3 DEF LinesInTheirDay, today
  <2>6. days \cap ((today - KeptDays + 1)..today) \subseteq days'
    <3> SUFFICES ASSUME NEW d \in days, d \in (today - KeptDays + 1)..today PROVE d \in days'
      OBVIOUS
    <3>1. ~(d <= today - KeptDays) /\ d \in Days
      BY <1>1
    <3> QED
      BY <2>1, <2>2, <3>1
  <2>7. ASSUME NEW d \in days', d \in (today - KeptDays - 9)..(today - KeptDays - 1) PROVE Short(d)
    <3>1. d \in Days /\ d \notin DeletedDays(clock)
      BY <1>1, <2>1
    <3> QED
      BY <1>1, <2>7, <3>1, DeletedAre
  <2> QED
    BY <2>4, <2>5, <2>6, <2>7 DEF OldFilesGo, today
<1>4. CASE ~(clock >= nextRotate)
  <2>1. openDay' = openDay /\ nextRotate' = nextRotate /\ days' = days \cup {openDay}
    BY <1>4 DEF DailyWrite
  <2>2. DailyInv'
    BY <1>1, <1>2, <2>1 DEF DailyInv
  <2>3. clock < Midnight(openDay) + (IF Calendar[openDay] = 25 THEN 25 ELSE 24)
    BY <1>1, <1>4 DEF DailyInv, RotatesFrom
  <2>4. \/ openDay = today
        \/ openDay = today - 1 /\ Short(openDay) /\ clock = Midnight(today)
    <3>1. CASE today < openDay
      <4>1. clock < Midnight(today) + Calendar[today]
        BY <1>1 DEF During
      <4>2. Midnight(today) + Calendar[today] <= Midnight(openDay) /\ Calendar[today] \in Nat
        BY <1>1, <3>1, CalendarIs
      <4> QED
        BY <1>1, <4>1, <4>2
    <3>2. CASE openDay < today
      <4>1. Midnight(openDay) + Calendar[openDay] <= Midnight(today) /\ Calendar[openDay] \in {23, 24, 25}
        BY <1>1, <3>2, CalendarIs
      <4>2. Calendar[openDay] = 23 /\ clock = Midnight(openDay) + 23 /\ clock = Midnight(today)
        BY <1>1, <2>3, <4>1
      <4>3. openDay + 1 \in Days
        BY <1>1, <3>2 DEF Days
      <4>4. openDay + 1 = today
        <5>1. Midnight(openDay + 1) = clock /\ Calendar[openDay + 1] \in {23, 24, 25}
          BY <1>1, <4>2, <4>3, CalendarIs
        <5>2. During(clock, openDay + 1)
          BY <1>1, <4>3, <5>1 DEF During
        <5> QED
          BY <1>1, <5>2, DayOfIs DEF today
      <4> QED
        BY <1>1, <4>2, <4>4 DEF Short
    <3> QED
      BY <1>1, <3>1, <3>2
  <2>5. LinesInTheirDay'
    BY <1>2, <2>1, <2>4 DEF LinesInTheirDay, today
  <2> QED
    BY <1>4, <2>2, <2>5 DEF OldFilesGo
<1>5. nextRotate \in Int
  BY <1>1, CalendarIs DEF DailyInv, RotatesFrom
<1> QED
  BY <1>3, <1>4

THEOREM DaysStayKept == DailySpec => DaysKept
<1>1. ASSUME DailyInv, DailyNext PROVE DailyInv' /\ LinesInTheirDay' /\ OldFilesGo
  <2>1. CASE DailyWrite
    BY <1>1, <2>1, WriteKeepsDays
  <2>2. CASE ~DailyWrite
    BY <1>1, <2>2, RestartKeepsDays, PassKeepsDays DEF DailyNext, OldFilesGo
  <2> QED
    BY <2>1, <2>2
<1>2. DailyInv /\ [DailyNext]_dailyVars => DailyInv'
  <2>1. DailyInv /\ UNCHANGED dailyVars => DailyInv'
    BY DEF DailyInv, dailyVars
  <2> QED
    BY <1>1, <2>1
<1>3. DailyInv /\ [DailyNext]_dailyVars => [LinesInTheirDay' /\ OldFilesGo]_dailyVars
  BY <1>1
<1>4. DailySpec => []DailyInv
  BY <1>2, DailyInitInv, PTL DEF DailySpec
<1> QED
  BY <1>3, <1>4, PTL DEF DailySpec, DaysKept

-----------------------------------------------------------------------------
(* RingBuffer.                                                             *)

\* The pointers' part of RingTypeOK, with the invariant that ties them together.
RingShape ==
    /\ mem \in [Cells -> Bytes]
    /\ valid \in Cells
    /\ validTail \in 0..Capacity
    /\ validLen \in 0..Capacity
    /\ PointersAgree

\* A function on 1..n is a sequence of length n.
LEMMA FunctionIsSeq ==
  ASSUME NEW S, NEW n \in Nat, NEW f, f \in [1..n -> S]
  PROVE  f \in Seq(S) /\ Len(f) = n
<1>1. f \in Seq(S)
  OBVIOUS
<1>2. DOMAIN f = 1..Len(f) /\ DOMAIN f = 1..n /\ Len(f) \in Nat
  BY <1>1
<1> QED
  BY <1>1, <1>2

\* The three cases of PointersAgree.
LEMMA ThreeShapes ==
  ASSUME RingShape
  PROVE  \/ validTail = valid + validLen
         \/ validTail = valid + validLen - Capacity
         \/ validTail = Capacity /\ valid = 0 /\ validLen = 0
BY CapacityAssumption DEF RingShape, PointersAgree, Cells

\* The i-th byte lies in the array.
LEMMA CellInArray ==
  ASSUME RingShape, NEW i \in 1..validLen
  PROVE  CellOf(i) \in Cells /\ mem[CellOf(i)] \in Bytes
BY CapacityAssumption DEF RingShape, CellOf, Cells


\* What the buffer holds is a sequence of validLen bytes.
LEMMA ContentIsSeq ==
  ASSUME RingShape
  PROVE  /\ Stored \in Seq(Bytes)
         /\ Len(Stored) = validLen
         /\ \A i \in 1..validLen : Stored[i] = mem[CellOf(i)]
<1>1. validLen \in Nat
  BY CapacityAssumption DEF RingShape
<1>2. Stored \in [1..validLen -> Bytes]
  BY CellInArray DEF Stored
<1>3. \A i \in 1..validLen : Stored[i] = mem[CellOf(i)]
  BY DEF Stored
<1> HIDE DEF Stored
<1> QED
  BY <1>1, <1>2, <1>3, FunctionIsSeq

\* The same of the state after a step.
LEMMA NextContentIsSeq ==
  ASSUME RingShape'
  PROVE  /\ Stored' \in Seq(Bytes)
         /\ Len(Stored') = validLen'
         /\ \A i \in 1..validLen' : Stored'[i] = mem'[CellOf(i)']
<1>1. validLen' \in Nat
  BY CapacityAssumption DEF RingShape
<1>2. \A i \in 1..validLen' : mem'[CellOf(i)'] \in Bytes
  <2>1. mem' \in [Cells -> Bytes]
    BY DEF RingShape, Cells
  <2>2. valid' \in 0..(Capacity - 1) /\ validLen' \in 0..Capacity
    BY DEF RingShape, Cells
  <2>3. \A i \in 1..validLen' : CellOf(i)' \in Cells
    <3> TAKE i \in 1..validLen'
    <3>1. PICK v \in 0..(Capacity - 1), len \in 0..Capacity : v = valid' /\ len = validLen'
      BY <2>2
    <3>2. i \in 1..len /\ CellOf(i)' = IF v + i - 1 < Capacity THEN v + i - 1 ELSE v + i - 1 - Capacity
      BY <3>1 DEF CellOf
    <3>3. (IF v + i - 1 < Capacity THEN v + i - 1 ELSE v + i - 1 - Capacity) \in Cells
      BY <3>2, CapacityAssumption DEF Cells
    <3> QED
      BY <3>2, <3>3
  <2> QED
    BY <2>1, <2>3
<1>3. Stored' \in [1..validLen' -> Bytes]
  BY <1>2 DEF Stored
<1>4. \A i \in 1..validLen' : Stored'[i] = mem'[CellOf(i)']
  BY DEF Stored
<1> HIDE DEF Stored
<1> QED
  BY <1>1, <1>3, <1>4, FunctionIsSeq

\* Copying n bytes out of the array, from a place where there are n.
LEMMA CutIsSeq ==
  ASSUME RingShape, NEW at \in Nat, NEW n \in Nat, at + n <= Capacity
  PROVE  /\ CopyOut(mem, at, n) \in Seq(Bytes)
         /\ Len(CopyOut(mem, at, n)) = n
         /\ \A i \in 1..n : CopyOut(mem, at, n)[i] = mem[at + i - 1]
<1>1. \A i \in 1..n : mem[at + i - 1] \in Bytes
  BY CapacityAssumption DEF RingShape, Cells
<1>2. CopyOut(mem, at, n) \in [1..n -> Bytes]
  BY <1>1 DEF CopyOut
<1>3. \A i \in 1..n : CopyOut(mem, at, n)[i] = mem[at + i - 1]
  BY DEF CopyOut
<1> HIDE DEF CopyOut
<1> QED
  BY <1>2, <1>3, FunctionIsSeq

\* read and peek, in one piece or two, yield the first bytes of the content.
LEMMA FrontIsPrefix ==
  ASSUME RingShape, NEW n \in 0..validLen
  PROVE  /\ FirstBytes(n) \in Seq(Bytes)
         /\ FirstBytes(n) = SubSeq(Stored, 1, n)
<1>1. n \in Nat /\ validLen \in Nat /\ valid \in Nat /\ Capacity \in Nat
      /\ valid < Capacity /\ n <= validLen /\ validLen <= Capacity
  BY CapacityAssumption DEF RingShape, Cells
<1>2. /\ FirstBytes(n) \in Seq(Bytes) /\ Len(FirstBytes(n)) = n
      /\ \A i \in 1..n : FirstBytes(n)[i] = mem[CellOf(i)]
  <2>1. CASE valid + n > Capacity
    <3> DEFINE len1 == Capacity - valid
               len2 == n - len1
               one == CopyOut(mem, valid, len1)
               two == CopyOut(mem, 0, len2)
    <3>1. len1 \in Nat /\ len2 \in Nat /\ 0 \in Nat /\ len1 + len2 = n
          /\ valid + len1 <= Capacity /\ 0 + len2 <= Capacity
      BY <1>1, <2>1
    <3>2. \A i \in 1..n : IF i <= len1 THEN i \in 1..len1 /\ CellOf(i) = valid + i - 1
                          ELSE i - len1 \in 1..len2 /\ CellOf(i) = 0 + (i - len1) - 1
      BY <1>1, <2>1 DEF CellOf
    <3>3. FirstBytes(n) = one \o two
      BY <2>1 DEF FirstBytes
    <3> HIDE DEF len1, len2
    <3>4. /\ one \in Seq(Bytes) /\ Len(one) = len1
          /\ \A i \in 1..len1 : one[i] = mem[valid + i - 1]
      BY <1>1, <3>1, CutIsSeq
    <3>5. /\ two \in Seq(Bytes) /\ Len(two) = len2
          /\ \A i \in 1..len2 : two[i] = mem[0 + i - 1]
      BY <1>1, <3>1, CutIsSeq
    <3> HIDE DEF one, two
    <3>6. /\ one \o two \in Seq(Bytes) /\ Len(one \o two) = n
          /\ \A i \in 1..n : (one \o two)[i] = IF i <= len1 THEN one[i] ELSE two[i - len1]
      BY <3>1, <3>4, <3>5, ConcatProperties, ZenonT(40)
    <3>7. \A i \in 1..n : (one \o two)[i] = mem[CellOf(i)]
      <4> TAKE i \in 1..n
      <4>1. CASE i <= len1
        BY <4>1, <3>2, <3>4, <3>6
      <4>2. CASE ~(i <= len1)
        <5>1. i - len1 \in 1..len2 /\ CellOf(i) = 0 + (i - len1) - 1
          BY <4>2, <3>2
        <5>2. two[i - len1] = mem[0 + (i - len1) - 1]
          BY <5>1, <3>5
        <5> QED
          BY <4>2, <5>1, <5>2, <3>6
      <4> QED
        BY <4>1, <4>2
    <3> QED
      BY <3>3, <3>6, <3>7
  <2>2. CASE ~(valid + n > Capacity)
    <3>1. \A i \in 1..n : CellOf(i) = valid + i - 1
      BY <2>2, <1>1 DEF CellOf
    <3>2. FirstBytes(n) = CopyOut(mem, valid, n) /\ valid + n <= Capacity
      BY <2>2, <1>1 DEF FirstBytes
    <3>3. /\ CopyOut(mem, valid, n) \in Seq(Bytes) /\ Len(CopyOut(mem, valid, n)) = n
          /\ \A i \in 1..n : CopyOut(mem, valid, n)[i] = mem[valid + i - 1]
      BY <3>2, <1>1, CutIsSeq
    <3> QED
      BY <3>1, <3>2, <3>3
  <2> QED
    BY <2>1, <2>2
<1>3. /\ SubSeq(Stored, 1, n) \in Seq(Bytes) /\ Len(SubSeq(Stored, 1, n)) = n
      /\ \A i \in 1..n : SubSeq(Stored, 1, n)[i] = mem[CellOf(i)]
  <2>1. /\ Stored \in Seq(Bytes) /\ Len(Stored) = validLen
        /\ \A i \in 1..n : i \in 1..validLen /\ Stored[i] = mem[CellOf(i)]
    BY <1>1, ContentIsSeq
  <2>2. 1 \in 1..(Len(Stored) + 1) /\ n \in 0..Len(Stored)
    BY <1>1, <2>1
  <2> HIDE DEF Stored
  <2> QED
    BY <2>1, <2>2, <1>1, SubSeqProperties
<1> QED
  BY <1>2, <1>3, SeqEqual

-----------------------------------------------------------------------------
(* How each operation changes the content.                                 *)

\* read and consume: the front n bytes are gone, wherever the pointer wraps.
LEMMA AdvanceDropsFront ==
  ASSUME RingShape, NEW n \in 0..validLen,
         valid' = Advance(n), validLen' = validLen - n, UNCHANGED <<mem, validTail>>
  PROVE  RingShape' /\ Stored' = SubSeq(Stored, n + 1, validLen)
<1>1. n \in Nat /\ validLen \in Nat /\ valid \in Nat /\ Capacity \in Nat
      /\ valid < Capacity /\ n <= validLen /\ validLen <= Capacity
  BY CapacityAssumption DEF RingShape, Cells
<1>2. RingShape'
  <2>1. valid' \in Cells /\ validLen' \in 0..Capacity
    BY <1>1 DEF Advance, Cells
  <2>2. PointersAgree'
    BY <1>1, ThreeShapes DEF RingShape, Advance, PointersAgree
  <2> QED
    BY <2>1, <2>2 DEF RingShape, Cells
<1>3. \A i \in 1..validLen' : CellOf(i)' = CellOf(n + i)
  BY <1>1 DEF CellOf, Advance
<1>4. /\ Stored' \in Seq(Bytes) /\ Len(Stored') = validLen - n
      /\ \A i \in 1..(validLen - n) : Stored'[i] = mem[CellOf(n + i)]
  <2>1. /\ Stored' \in Seq(Bytes) /\ Len(Stored') = validLen'
        /\ \A i \in 1..validLen' : Stored'[i] = mem'[CellOf(i)']
    BY <1>2, NextContentIsSeq
  <2> HIDE DEF Stored
  <2> QED
    BY <2>1, <1>3
<1>5. /\ SubSeq(Stored, n + 1, validLen) \in Seq(Bytes)
      /\ Len(SubSeq(Stored, n + 1, validLen)) = validLen - n
      /\ \A i \in 1..(validLen - n) : SubSeq(Stored, n + 1, validLen)[i] = mem[CellOf(n + i)]
  <2>1. \A i \in (n + 1)..validLen : Stored[i] \in Bytes /\ Stored[i] = mem[CellOf(i)]
    <3>1. \A i \in (n + 1)..validLen : i \in 1..validLen
      BY <1>1
    <3> QED
      BY <3>1, ContentIsSeq, CellInArray
  <2> HIDE DEF Stored
  <2>2. /\ SubSeq(Stored, n + 1, validLen) \in Seq(Bytes)
        /\ Len(SubSeq(Stored, n + 1, validLen)) = IF n + 1 <= validLen THEN validLen - (n + 1) + 1 ELSE 0
        /\ \A i \in 1..(validLen - (n + 1) + 1) :
              SubSeq(Stored, n + 1, validLen)[i] = Stored[(n + 1) + i - 1]
    BY <2>1, <1>1, SubSeqProperties
  <2>3. \A i \in 1..(validLen - n) : (n + 1) + i - 1 = n + i /\ n + i \in (n + 1)..validLen
    BY <1>1
  <2>4. validLen - (n + 1) + 1 = validLen - n
    BY <1>1
  <2> QED
    BY <2>1, <2>2, <2>3, <2>4, <1>1
<1>6. Stored' = SubSeq(Stored, n + 1, validLen)
  <2> HIDE DEF Stored
  <2> QED
    BY <1>4, <1>5, SeqEqual
<1> QED
  BY <1>2, <1>6

\* firstSegment yields some of the front, and something if there is anything.
LEMMA SegmentIsFront ==
  ASSUME RingShape
  PROVE  /\ SegmentSize \in 0..validLen
         /\ SegmentSize = 0 => validLen = 0
         /\ CopyOut(mem, valid, SegmentSize) = FirstBytes(SegmentSize)
<1>1. validLen \in Nat /\ valid \in Nat /\ Capacity \in Nat /\ validTail \in Nat
      /\ valid < Capacity /\ validLen <= Capacity /\ validTail <= Capacity
  BY CapacityAssumption DEF RingShape, Cells
<1> QED
  BY <1>1, ThreeShapes DEF SegmentSize, FirstBytes

\* write: the data follows the content, wherever the tail wraps.
LEMMA WriteAppends ==
  ASSUME RingShape, NEW len \in Nat, NEW data \in [1..len -> Bytes],
         len <= Capacity - validLen, Write(data)
  PROVE  RingShape' /\ result' = data /\ Stored' = Stored \o data
<1>1. validLen \in Nat /\ valid \in Nat /\ Capacity \in Nat /\ validTail \in Nat
      /\ valid < Capacity /\ validLen <= Capacity /\ validTail <= Capacity
  BY CapacityAssumption DEF RingShape, Cells
<1>2. data \in Seq(Bytes) /\ Len(data) = len /\ DOMAIN data = 1..len
  BY FunctionIsSeq
<1>3. /\ validLen' = validLen + len
      /\ valid' = valid
      /\ result' = data
      /\ validTail' = IF validTail + len > Capacity THEN len - (Capacity - validTail)
                      ELSE validTail + len
  BY <1>1, <1>2 DEF Write
\* where the cell of the written part stands in the data, and which cells are not written
<1> DEFINE Stocked(c) == c >= validTail /\ c < validTail + len
           Wrapped(c) == validTail + len > Capacity /\ c < validTail + len - Capacity
<1>4. /\ mem' \in [Cells -> Bytes]
      /\ \A c \in Cells : mem'[c] = IF Wrapped(c) THEN data[c + (Capacity - validTail) + 1]
                                    ELSE IF Stocked(c) THEN data[c - validTail + 1]
                                    ELSE mem[c]
  <2>1. CASE validTail + len > Capacity
    <3>1. mem' = CopyIn(CopyIn(mem, validTail, data, 0, Capacity - validTail), 0, data,
                      Capacity - validTail, len - (Capacity - validTail))
      BY <2>1, <1>1, <1>2 DEF Write
    <3>2. \A c \in Cells : mem'[c] = IF Wrapped(c) THEN data[c + (Capacity - validTail) + 1]
                                     ELSE IF Stocked(c) THEN data[c - validTail + 1]
                                     ELSE mem[c]
      BY <3>1, <2>1, <1>1 DEF CopyIn, Cells
    <3>3. \A c \in Cells : mem'[c] \in Bytes
      BY <3>2, <2>1, <1>1 DEF RingShape, Cells
    <3> QED
      BY <3>1, <3>2, <3>3 DEF CopyIn
  <2>2. CASE ~(validTail + len > Capacity)
    <3>1. mem' = CopyIn(mem, validTail, data, 0, len)
      BY <2>2, <1>1, <1>2 DEF Write
    <3>2. \A c \in Cells : mem'[c] = IF Wrapped(c) THEN data[c + (Capacity - validTail) + 1]
                                     ELSE IF Stocked(c) THEN data[c - validTail + 1]
                                     ELSE mem[c]
      BY <3>1, <2>2, <1>1 DEF CopyIn, Cells
    <3>3. \A c \in Cells : mem'[c] \in Bytes
      BY <3>2, <2>2, <1>1 DEF RingShape, Cells
    <3> QED
      BY <3>1, <3>2, <3>3 DEF CopyIn
  <2> QED
    BY <2>1, <2>2
<1>5. RingShape'
  <2>1. validTail' \in 0..Capacity /\ validLen' \in 0..Capacity
    BY <1>1, <1>3
  <2>2. PointersAgree'
    BY <1>1, <1>3, ThreeShapes DEF PointersAgree
  <2> QED
    BY <1>3, <1>4, <2>1, <2>2 DEF RingShape, Cells
<1>6. /\ Stored' \in Seq(Bytes) /\ Len(Stored') = validLen + len
      /\ \A i \in 1..(validLen + len) : Stored'[i] = mem'[CellOf(i)]
  <2>1. \A i \in 1..validLen' : CellOf(i)' = CellOf(i)
    BY <1>3 DEF CellOf
  <2>2. /\ Stored' \in Seq(Bytes) /\ Len(Stored') = validLen'
        /\ \A i \in 1..validLen' : Stored'[i] = mem'[CellOf(i)']
    BY <1>5, NextContentIsSeq
  <2> HIDE DEF Stored
  <2> QED
    BY <2>1, <2>2, <1>3
<1>7. /\ Stored \o data \in Seq(Bytes) /\ Len(Stored \o data) = validLen + len
      /\ \A i \in 1..(validLen + len) :
            (Stored \o data)[i] = IF i <= validLen THEN mem[CellOf(i)] ELSE data[i - validLen]
  <2>1. Stored \in Seq(Bytes) /\ Len(Stored) = validLen
        /\ \A i \in 1..validLen : Stored[i] = mem[CellOf(i)]
    BY ContentIsSeq
  <2> HIDE DEF Stored
  <2>2. /\ Stored \o data \in Seq(Bytes) /\ Len(Stored \o data) = validLen + len
        /\ \A i \in 1..(validLen + len) :
            (Stored \o data)[i] = IF i <= validLen THEN Stored[i] ELSE data[i - validLen]
    BY <2>1, <1>2, ConcatProperties
  <2> QED
    BY <2>1, <2>2, <1>1
<1>8. \A i \in 1..(validLen + len) :
        mem'[CellOf(i)] = IF i <= validLen THEN mem[CellOf(i)] ELSE data[i - validLen]
  <2> TAKE i \in 1..(validLen + len)
  <2>1. CellOf(i) \in Cells
    BY <1>1 DEF CellOf, Cells
  <2>2. CASE i <= validLen
    <3>1. ~Wrapped(CellOf(i)) /\ ~Stocked(CellOf(i))
      BY <2>2, <1>1, ThreeShapes DEF CellOf
    <3> QED
      BY <3>1, <2>1, <2>2, <1>4
  <2>3. CASE ~(i <= validLen)
    <3>1. CASE Wrapped(CellOf(i))
      <4>1. CellOf(i) + (Capacity - validTail) + 1 = i - validLen
        BY <3>1, <2>3, <1>1, ThreeShapes DEF CellOf
      <4> QED
        BY <4>1, <3>1, <2>1, <2>3, <1>4
    <3>2. CASE ~Wrapped(CellOf(i))
      <4>1. Stocked(CellOf(i)) /\ CellOf(i) - validTail + 1 = i - validLen
        BY <3>2, <2>3, <1>1, ThreeShapes DEF CellOf
      <4> QED
        BY <4>1, <3>2, <2>1, <2>3, <1>4
    <3> QED
      BY <3>1, <3>2
  <2> QED
    BY <2>2, <2>3
<1>9. Stored' = Stored \o data
  <2> HIDE DEF Stored
  <2> QED
    BY <1>6, <1>7, <1>8, SeqEqual
<1> QED
  BY <1>3, <1>5, <1>9

-----------------------------------------------------------------------------
(* The invariant, and the refinement.                                      *)

LEMMA InitRingShape == RingInit => RingShape /\ Stored = <<>> /\ result = <<>>
<1> SUFFICES ASSUME RingInit PROVE RingShape /\ Stored = <<>> /\ result = <<>>
  OBVIOUS
<1>1. RingShape
  BY CapacityAssumption DEF RingInit, RingShape, PointersAgree, Cells
<1>2. Stored = <<>>
  <2>1. Stored \in Seq(Bytes) /\ Len(Stored) = 0
    BY <1>1, ContentIsSeq DEF RingInit
  <2> HIDE DEF Stored
  <2> QED
    BY <2>1, EmptySeq
<1> QED
  BY <1>1, <1>2 DEF RingInit

\* A length the caller asks for, cut down to what there is.
LEMMA ClampIsShorter ==
  ASSUME RingShape, NEW len \in Nat
  PROVE  Clamp(len) \in 0..validLen /\ Clamp(len) = Fifo!Shorter(len, validLen)
BY CapacityAssumption DEF RingShape, Clamp, Fifo!Shorter

LEMMA SameCells ==
  ASSUME UNCHANGED <<mem, valid, validLen>>
  PROVE  Stored' = Stored
BY DEF Stored, CellOf

\* Every step keeps the shape and is a step of the abstract buffer.
LEMMA StepIsFifoStep ==
  ASSUME RingShape, RingNext
  PROVE  /\ RingShape'
         /\ Fifo!FifoNext
         /\ result' \in Seq(Bytes) \cup {Refused, result}
<1>1. /\ Stored \in Seq(Bytes) /\ Len(Stored) = validLen
      /\ validLen \in Nat /\ Capacity \in Nat /\ validLen <= Capacity
  BY ContentIsSeq, CapacityAssumption DEF RingShape
<1>2. ASSUME NEW n \in 0..MaxCall, NEW data \in [1..n -> Bytes], Write(data)
      PROVE  RingShape' /\ Fifo!FifoNext /\ result' \in Seq(Bytes) \cup {Refused, result}
  <2>1. n \in Nat /\ data \in Seq(Bytes) /\ Len(data) = n
    BY MaxCallAssumption, FunctionIsSeq
  <2>2. CASE n <= Capacity - validLen
    <3>1. RingShape' /\ result' = data /\ Stored' = Stored \o data
      BY <2>1, <2>2, <1>2, WriteAppends
    <3>2. Len(Stored) + Len(data) <= Capacity
      BY <1>1, <2>1, <2>2
    <3> HIDE DEF Stored
    <3>3. Fifo!Put(data)
      BY <3>1, <3>2 DEF Fifo!Put
    <3> QED
      BY <1>2, <2>1, <3>1, <3>3 DEF Fifo!FifoNext
  <2>3. CASE ~(n <= Capacity - validLen)
    <3>1. result' = Refused /\ UNCHANGED <<mem, valid, validTail, validLen>>
      BY <1>1, <1>2, <2>1, <2>3 DEF Write
    <3>2. Stored' = Stored
      BY <3>1, SameCells
    <3>3. ~(Len(Stored) + Len(data) <= Capacity)
      BY <1>1, <2>1, <2>3
    <3>4. RingShape'
      BY <3>1 DEF RingShape, PointersAgree, Cells
    <3> HIDE DEF Stored
    <3>5. Fifo!Put(data)
      BY <3>1, <3>2, <3>3 DEF Fifo!Put
    <3> QED
      BY <1>2, <2>1, <3>1, <3>4, <3>5 DEF Fifo!FifoNext
  <2> QED
    BY <2>2, <2>3
<1>3. ASSUME NEW len \in 0..MaxCall
      PROVE  /\ len \in Nat /\ Clamp(len) \in 0..validLen
             /\ FirstBytes(Clamp(len)) \in Seq(Bytes)
             /\ FirstBytes(Clamp(len)) = Fifo!Prefix(Stored, len)
             /\ SubSeq(Stored, Clamp(len) + 1, validLen) = Fifo!Rest(Stored, len)
  <2>1. len \in Nat /\ Clamp(len) \in 0..validLen /\ Clamp(len) = Fifo!Shorter(len, validLen)
    BY MaxCallAssumption, ClampIsShorter
  <2>2. FirstBytes(Clamp(len)) \in Seq(Bytes) /\ FirstBytes(Clamp(len)) = SubSeq(Stored, 1, Clamp(len))
    BY <2>1, FrontIsPrefix
  <2> HIDE DEF Stored
  <2> QED
    BY <1>1, <2>1, <2>2 DEF Fifo!Prefix, Fifo!Rest
<1>4. ASSUME NEW len \in 0..MaxCall, Read(len)
      PROVE  RingShape' /\ Fifo!FifoNext /\ result' \in Seq(Bytes) \cup {Refused, result}
  <2>1. RingShape' /\ Stored' = SubSeq(Stored, Clamp(len) + 1, validLen)
    BY <1>3, <1>4, AdvanceDropsFront DEF Read
  <2>2. result' = FirstBytes(Clamp(len))
    BY <1>4 DEF Read
  <2> HIDE DEF Stored
  <2>3. Fifo!Get(len)
    BY <1>3, <2>1, <2>2 DEF Fifo!Get
  <2> QED
    BY <1>3, <2>1, <2>2, <2>3 DEF Fifo!FifoNext
<1>5. ASSUME NEW len \in 0..MaxCall, Peek(len)
      PROVE  RingShape' /\ Fifo!FifoNext /\ result' \in Seq(Bytes) \cup {Refused, result}
  <2>1. result' = FirstBytes(Clamp(len)) /\ UNCHANGED <<mem, valid, validTail, validLen>>
    BY <1>5 DEF Peek
  <2>2. RingShape' /\ Stored' = Stored
    BY <2>1, SameCells DEF RingShape, PointersAgree, Cells
  <2> HIDE DEF Stored
  <2>3. Fifo!Look(len)
    BY <1>3, <2>1, <2>2 DEF Fifo!Look
  <2> QED
    BY <1>3, <2>1, <2>2, <2>3 DEF Fifo!FifoNext
<1>6. ASSUME NEW len \in 0..MaxCall, Consume(len)
      PROVE  RingShape' /\ Fifo!FifoNext /\ result' \in Seq(Bytes) \cup {Refused, result}
  <2>1. RingShape' /\ Stored' = SubSeq(Stored, Clamp(len) + 1, validLen)
    BY <1>3, <1>6, AdvanceDropsFront DEF Consume
  <2>2. result' = result
    BY <1>6 DEF Consume
  <2> HIDE DEF Stored
  <2>3. Fifo!Drop(len)
    BY <1>3, <2>1, <2>2 DEF Fifo!Drop
  <2> QED
    BY <1>3, <2>1, <2>2, <2>3 DEF Fifo!FifoNext
<1>7. ASSUME FirstSegment
      PROVE  RingShape' /\ Fifo!FifoNext /\ result' \in Seq(Bytes) \cup {Refused, result}
  <2>1. result' = CopyOut(mem, valid, SegmentSize) /\ UNCHANGED <<mem, valid, validTail, validLen>>
    BY <1>7 DEF FirstSegment
  <2>2. RingShape' /\ Stored' = Stored
    BY <2>1, SameCells DEF RingShape, PointersAgree, Cells
  <2>3. PICK n \in 0..validLen : (n = 0 => validLen = 0) /\ result' = FirstBytes(n)
    BY <2>1, SegmentIsFront
  <2>4. result' \in Seq(Bytes) /\ result' = SubSeq(Stored, 1, n)
    BY <2>3, FrontIsPrefix
  <2> HIDE DEF Stored
  <2>5. n \in 0..Len(Stored) /\ Fifo!Shorter(n, Len(Stored)) = n
    BY <1>1, <2>3 DEF Fifo!Shorter
  <2>6. result' = Fifo!Prefix(Stored, n)
    BY <2>4, <2>5 DEF Fifo!Prefix
  <2>7. n = 0 => Stored = <<>>
    BY <1>1, <2>3, EmptySeq
  <2>8. Fifo!Front
    BY <2>2, <2>5, <2>6, <2>7 DEF Fifo!Front
  <2> QED
    BY <2>2, <2>4, <2>8 DEF Fifo!FifoNext
<1> QED
  BY <1>2, <1>4, <1>5, <1>6, <1>7 DEF RingNext

\* The pointers stay inside the array and agree with the length: every memcpy of
\* the ring is within bounds, whatever the lengths of the calls.
THEOREM PointersNeverDisagree == RingSpec => [](RingTypeOK /\ PointersAgree)
<1> DEFINE IInv == RingShape /\ result \in Seq(Bytes) \cup {Refused}
<1>1. RingInit => IInv
  BY InitRingShape, EmptySeq
<1>2. IInv /\ [RingNext]_ringVars => IInv'
  <2> SUFFICES ASSUME IInv, [RingNext]_ringVars PROVE IInv'
    OBVIOUS
  <2>1. CASE RingNext
    BY <2>1, StepIsFifoStep
  <2>2. CASE UNCHANGED ringVars
    BY <2>2 DEF ringVars, RingShape, PointersAgree, Cells
  <2> QED
    BY <2>1, <2>2
<1>3. IInv => RingTypeOK /\ PointersAgree
  BY DEF RingTypeOK, RingShape
<1> QED
  BY <1>1, <1>2, <1>3, PTL DEF RingSpec

\* The ring buffer is a bounded first-in first-out buffer: for every capacity,
\* bytes come out once, in order and unchanged, and a write that does not fit
\* changes nothing.
THEOREM RingBufferIsFifo == RingSpec => ImplementsFifo
<1>1. RingInit => Fifo!FifoInit
  BY InitRingShape DEF Fifo!FifoInit
<1>2. RingInit => RingShape
  BY InitRingShape
<1>3. RingShape /\ [RingNext]_ringVars => RingShape' /\ [Fifo!FifoNext]_(Fifo!fifoVars)
  <2> SUFFICES ASSUME RingShape, [RingNext]_ringVars PROVE RingShape' /\ [Fifo!FifoNext]_(Fifo!fifoVars)
    OBVIOUS
  <2>1. CASE RingNext
    BY <2>1, StepIsFifoStep
  <2>2. CASE UNCHANGED ringVars
    <3>1. RingShape' /\ Stored' = Stored /\ result' = result
      BY <2>2, SameCells DEF ringVars, RingShape, PointersAgree, Cells
    <3> QED
      BY <3>1 DEF Fifo!fifoVars
  <2> QED
    BY <2>1, <2>2
<1> QED
  BY <1>1, <1>2, <1>3, PTL DEF RingSpec, ImplementsFifo

=============================================================================
