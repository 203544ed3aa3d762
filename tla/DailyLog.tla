------------------------------ MODULE DailyLog ------------------------------
(***************************************************************************)
(* src/util/DailyFileLog.h: a log with one file a day, and a number of     *)
(* days for which files are kept.  Time is in hours, and local: a day has  *)
(* 24 of them but for the one or two a year on which the clocks change.    *)
(***************************************************************************)
EXTENDS Integers, Sequences, FiniteSetsExt

CONSTANTS
    KeptDays,          \* _maxFiles
    Calendar,          \* the hours of each day; the first is day 1
    ChangeHour,        \* how many hours into a day the clocks change, if they do
    Moments            \* hours of a day at which something may happen

ASSUME DailyAssumption ==
    /\ KeptDays \in Nat \ {0} /\ Calendar \in Seq({23, 24, 25}) \ {<<>>}
    /\ ChangeHour \in Nat /\ Moments \subseteq 0..24

VARIABLES
    clock,             \* time(NULL)
    days,              \* the days there is a file of
    openDay,           \* the day of the file that is open
    nextRotate,        \* _nextRotateTime
    told               \* the last write: its time, and whether it began a new file

dailyVars == <<clock, days, openDay, nextRotate, told>>

Days == 1..Len(Calendar)

\* the hours of the first days
Hours[d \in 0..Len(Calendar)] == IF d = 0 THEN 0 ELSE Hours[d - 1] + Calendar[d]

\* a day's first moment, and the day of a time (0 for the past)
Midnight(d) == Hours[d - 1]
DayOf(t) == IF t < 0 THEN 0 ELSE CHOOSE d \in Days : Midnight(d) <= t /\ t < Midnight(d) + Calendar[d]

\* The clocks go forward and back in turn: days have 24 hours each but for less than a day
\* over any number of them.
ASSUME CalendarAssumption ==
    \A d, e \in Days : d <= e => Midnight(e) - Midnight(d) - 24 * (e - d) \in -21..21

\* What mktime makes of the day's first moment with the tm_isdst of t: an hour before it
\* where the clocks have gone forward since, and an hour after where they have gone back.
Began(t) ==
    LET d == DayOf(t)
    IN  Midnight(d) + (IF t < Midnight(d) + ChangeHour THEN 0 ELSE Calendar[d] - 24)

NextRotateTime(t) == Began(t) + 24

\* deleteOld: ten times a day's worth of seconds back
DeletedDays(t) == {DayOf(Began(t) - 24 * (KeptDays + i)) : i \in 0..9}

-----------------------------------------------------------------------------
\* the constructor opens the file of the day, and removes nothing
DailyInit ==
    /\ clock = 0 /\ days = {1} /\ openDay = 1
    /\ nextRotate = NextRotateTime(0)
    /\ told = [at |-> 0, began |-> FALSE]

DailyRestart ==
    /\ days' = days \cup {DayOf(clock)} /\ openDay' = DayOf(clock)
    /\ nextRotate' = NextRotateTime(clock)
    /\ told' = [at |-> -1, began |-> FALSE]
    /\ UNCHANGED clock

Times == UNION {{Midnight(d) + h : h \in {m \in Moments : m < Calendar[d]}} : d \in Days}

Pass ==
    /\ \E t \in Times : t > clock
    /\ clock' = Min({t \in Times : t > clock})
    /\ UNCHANGED <<days, openDay, nextRotate, told>>

\* mutant of DailyWrite: the next time is a day after the last one
DailyWriteStep ==
    LET rotated == clock >= nextRotate
        today == DayOf(clock)
    IN  /\ openDay' = IF rotated THEN today ELSE openDay
        /\ nextRotate' = IF rotated THEN nextRotate + 24 ELSE nextRotate
        /\ days' = (days \cup {openDay'}) \ (IF rotated THEN DeletedDays(clock) ELSE {})
        /\ told' = [at |-> clock, began |-> rotated]
        /\ UNCHANGED clock

\* write: a line goes to the file that is open, after a new one was opened at the
\* time set for it; then old files are removed
DailyWrite ==
    LET rotated == clock >= nextRotate
        today == DayOf(clock)
    IN  /\ openDay' = IF rotated THEN today ELSE openDay
        /\ nextRotate' = IF rotated THEN NextRotateTime(clock) ELSE nextRotate
        /\ days' = (days \cup {openDay'}) \ (IF rotated THEN DeletedDays(clock) ELSE {})
        /\ told' = [at |-> clock, began |-> rotated]
        /\ UNCHANGED clock

DailyNext == DailyRestart \/ Pass \/ DailyWrite
DailySpec == DailyInit /\ [][DailyNext]_dailyVars

Short(d) == d \in Days /\ Calendar[d] = 23

\* A line is in the file of the day it was written on, and that file is there; only
\* in the first hour after a short day, which ends before the time set for the next
\* file, is it in that day's.
LinesInTheirDay ==
    told.at = clock =>
        /\ openDay \in days
        /\ \/ openDay = DayOf(clock)
           \/ openDay = DayOf(clock) - 1 /\ Short(openDay) /\ clock = Midnight(DayOf(clock))

\* Beginning a new file leaves the files of the last days that are kept, and removes
\* those of the nine days before, but for a short day's, which steps of 24 hours back pass
\* over (now and on every later day).
OldFilesGo ==
    LET today == DayOf(clock)
    IN  DailyWrite /\ clock >= nextRotate =>
          /\ days \cap ((today - KeptDays + 1)..today) \subseteq days'
          /\ \A d \in days' : d \in (today - KeptDays - 9)..(today - KeptDays - 1) => Short(d)

\* Days begin and end for lines and for files alike.
DaysKept == [][LinesInTheirDay' /\ OldFilesGo]_dailyVars

=============================================================================
