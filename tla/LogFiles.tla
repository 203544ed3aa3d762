------------------------------ MODULE LogFiles ------------------------------
(***************************************************************************)
(* RotateFileLog.h: the log that starts a file anew when it is large, and  *)
(* keeps the older ones under numbered names.  A line is a number, in the  *)
(* order written, and a size.                                              *)
(***************************************************************************)
EXTENDS Integers, Sequences, FiniteSets, SequencesExt

CONSTANTS
    KeptFiles,         \* _maxFiles of the rotating log
    FileLimit,         \* _maxSize of the rotating log
    LineSizes,         \* sizes of lines
    MaxLines,          \* bound on the lines written
    MaxRestarts,       \* bound on the program's restarts
    MaxRefusals        \* bound on the renames that fail

ASSUME LogsAssumption ==
    /\ KeptFiles \in Nat \ {0} /\ FileLimit \in Nat \ {0}
    /\ LineSizes \subseteq Nat \ {0}
    /\ {MaxLines, MaxRestarts, MaxRefusals} \subseteq Nat

VARIABLES
    files,             \* the files there are: sequences of lines by their index, or
                       \* <<index, j>> when a file could not take its next name
    current,           \* _curSize
    isOpen,            \* _fp is not null
    lines,             \* history: sizes of the lines written, in order
    dropped,           \* history: lines that are in no file any more
    removed,           \* history: names of files removed with their lines, and whether the
                       \* rotation that did it was given up then
    restarts, refusals

rotateVars == <<files, current, isOpen, lines, dropped, removed, restarts, refusals>>

\* the size of a file, of lines of the sizes `sizes'
SizeOfFile(sizes, file) ==
    LET sum[i \in 0..Len(file)] == IF i = 0 THEN 0 ELSE sum[i - 1] + sizes[file[i]]
    IN  sum[Len(file)]
There(fs, name) == name \in DOMAIN fs
Renamed(fs, src, dst) == [n \in (DOMAIN fs \ {src}) \cup {dst} |-> IF n = dst THEN fs[src] ELSE fs[n]]

-----------------------------------------------------------------------------
(* rotate: from the oldest file to the newest, each takes the next name,   *)
(* or one of ten others.  What has a name is removed before each try.      *)
(* `held' says which files cannot be renamed, and which names can neither  *)
(* be given nor removed; r holds what the rotation has done so far.        *)

NamesFor(i) == [k \in 1..11 |-> IF k = 1 THEN <<i + 1>> ELSE <<i, k - 2>>]

\* the place of the name that file i gets
NameFor(i, held) ==
    IF <<i>> \in held.stuck THEN 0 ELSE SelectInSeq(NamesFor(i), LAMBDA n : n \notin held.taken)

\* the files of some names are removed
Cleared(r, names, givenUp) ==
    LET gone == names \cap DOMAIN r.files
    IN  [files |-> [n \in DOMAIN r.files \ gone |-> r.files[n]],
         dropped |-> r.dropped \cup UNION {Range(r.files[n]) : n \in gone},
         removed |-> r.removed \cup {<<n, givenUp>> : n \in {m \in gone : r.files[m] # <<>>}},
         failed |-> givenUp]

Moved(r, src, dst) == [Cleared(r, {dst}, FALSE) EXCEPT !.files = Renamed(@, src, dst)]

\* mutant of MoveFile: a file that cannot be moved is removed
MoveFileLoses(r, i, held) ==
    LET k == NameFor(i, held)
    IN  IF r.failed \/ ~There(r.files, <<i>>) THEN r
        ELSE IF k = 0 THEN [Cleared(r, {<<i>>}, FALSE) EXCEPT !.failed = TRUE]
        ELSE Moved(r, <<i>>, NamesFor(i)[k])

\* A file that finds no name ends the rotation, but all of its names that could be
\* removed have been.
MoveFile(r, i, held) ==
    LET k == NameFor(i, held)
    IN  IF r.failed \/ ~There(r.files, <<i>>) THEN r
        ELSE IF k = 0 THEN Cleared(r, Range(NamesFor(i)) \ held.taken, TRUE)
        ELSE Moved(r, <<i>>, NamesFor(i)[k])

Rotated(fs, held) ==
    LET moved[k \in 0..KeptFiles] ==
            IF k = 0 THEN [files |-> fs, dropped |-> {}, removed |-> {}, failed |-> FALSE]
            ELSE MoveFile(moved[k - 1], KeptFiles - k, held)
    IN  moved[KeptFiles]

\* Nothing is held, or a file's next name, or all of its names, or the file itself.
Free == [stuck |-> {}, taken |-> {}]
Holds ==
    {Free} \cup UNION {{[stuck |-> {}, taken |-> {<<i + 1>>}], [stuck |-> {}, taken |-> Range(NamesFor(i))],
                        [stuck |-> {<<i>>}, taken |-> {<<i>>}]} : i \in 0..(KeptFiles - 1)}

\* openFile, which makes the directory and tries five times, or fails for good
Opened(fs, opens) ==
    IF opens /\ ~There(fs, <<0>>) THEN [n \in DOMAIN fs \cup {<<0>>} |-> IF n = <<0>> THEN <<>> ELSE fs[n]]
    ELSE fs

\* rotate, of the files fs
Rotate(fs) ==
    \E held \in Holds, opens \in BOOLEAN :
        LET r == Rotated(fs, held)
        IN  /\ held # Free \/ ~opens => refusals < MaxRefusals
            /\ refusals' = IF held # Free \/ ~opens THEN refusals + 1 ELSE refusals
            /\ files' = Opened(r.files, opens)
            /\ dropped' = dropped \cup r.dropped /\ removed' = removed \cup r.removed
            /\ isOpen' = opens /\ current' = 0

-----------------------------------------------------------------------------
(* The constructor, with the size of the file an earlier run left: what    *)
(* is not rotated is appended to, and counted from zero.                   *)

SizeLeft == IF There(files, <<0>>) THEN SizeOfFile(lines, files[<<0>>]) ELSE 0

Restart ==
    /\ restarts < MaxRestarts /\ restarts' = restarts + 1
    /\ IF SizeLeft >= FileLimit THEN Rotate(files)
       ELSE /\ files' = Opened(files, TRUE) /\ isOpen' = TRUE /\ current' = 0
            /\ UNCHANGED <<dropped, removed, refusals>>
    /\ UNCHANGED lines

\* write, under the mutex
WriteLine ==
    /\ Len(lines) < MaxLines
    /\ \E size \in LineSizes :
         LET line == Len(lines) + 1
             written == [files EXCEPT ![<<0>>] = Append(@, line)]
         IN  /\ lines' = Append(lines, size)
             /\ IF ~isOpen
                THEN dropped' = dropped \cup {line} /\ UNCHANGED <<files, current, isOpen, removed, refusals>>
                ELSE IF current + size >= FileLimit THEN Rotate(written)
                ELSE /\ files' = written /\ current' = current + size
                     /\ UNCHANGED <<isOpen, dropped, removed, refusals>>
    /\ UNCHANGED restarts

RotateInit ==
    /\ files = [n \in {<<0>>} |-> <<>>] /\ current = 0 /\ isOpen = TRUE
    /\ lines = <<>> /\ dropped = {} /\ removed = {} /\ restarts = 0 /\ refusals = 0

RotateNext == Restart \/ WriteLine
RotateSpec == RotateInit /\ [][RotateNext]_rotateVars

\* Whatever renames fail, every line is in one file, or was in a file that was removed,
\* or came when no file could be opened; within a file lines are in the order they were
\* written in.
LinesOnce ==
    /\ \A l \in DOMAIN lines :
          Cardinality({n \in DOMAIN files : Contains(files[n], l)}) = IF l \in dropped THEN 0 ELSE 1
    /\ \A n \in DOMAIN files : \A i \in 1..(Len(files[n]) - 1) : files[n][i] < files[n][i + 1]

\* Also when renames fail, the only files that are ever removed are the one of the
\* last index and those that could not take their next name before: a file is not moved
\* over one that has stayed.
OthersStay == \A gone \in removed : gone[1] = <<KeptFiles>> \/ Len(gone[1]) = 2

\* A rotation that is given up removes no file in that move: "cancel rotating to avoid
\* lossing log".
CancelLosesNothing == \A gone \in removed : ~gone[2]

\* As long as no rename fails, the files are in the order of their names: a line in
\* a file is newer than any line in a file of a higher index, only the oldest lines
\* are gone, and none before there are as many files as are kept.
FilesInOrder ==
    refusals = 0 =>
        /\ \A m, n \in DOMAIN files :
              m[1] < n[1] => \A i \in Range(files[m]), j \in Range(files[n]) : i > j
        /\ \A l \in dropped, n \in DOMAIN files : \A i \in Range(files[n]) : l < i
        /\ DOMAIN files \subseteq {<<i>> : i \in 0..KeptFiles}
        /\ dropped # {} => \A i \in 1..KeptFiles : There(files, <<i>>)

\* A file stops growing soon after its limit, however often the program starts anew:
\* a program that finds a file below the limit counts from zero, and so adds the
\* limit and a line to it at most.
FilesBounded ==
    refusals = 0 =>
        \A n \in DOMAIN files :
            \E size \in LineSizes \cup {0} :
                SizeOfFile(lines, files[n]) <= 2 * (FileLimit - 1) + size

\* What is known of the files together: every line once, in order, in files that are
\* rotated in time and removed by their age alone, through renames that fail and
\* programs that start anew.
LinesKept == LinesOnce /\ OthersStay /\ FilesInOrder /\ FilesBounded

=============================================================================
