----------------------------- MODULE ByteQueue -----------------------------
(***************************************************************************)
(* What Buffer.h promises: bytes that are put at the end, taken from the   *)
(* front, taken back from the end, or put before the front.  Nothing is    *)
(* said of where they lie in memory.  A call that asks for more than there *)
(* is does what a call for nothing does.                                   *)
(***************************************************************************)
EXTENDS Naturals, Sequences

VARIABLES
    content,         \* the readable bytes, oldest first
    given,           \* the bytes of the last call that put some, and was not refused
    taken            \* what the last retrieveAsString returned

queueVars == <<content, given, taken>>

QueueInit == content = <<>> /\ given = <<>> /\ taken = <<>>

First(n) == SubSeq(content, 1, n)
After(n) == SubSeq(content, n + 1, Len(content))

Enqueue == content' = content \o given' /\ UNCHANGED taken

Push == content' = given' \o content /\ UNCHANGED taken

Discard(n) == content' = After(n) /\ UNCHANGED <<given, taken>>

Take(n) == content' = After(n) /\ taken' = First(n) /\ UNCHANGED given

Withdraw(n) == content' = First(n) /\ UNCHANGED <<given, taken>>

QueueNext ==
    \/ Enqueue \/ Push
    \/ \E n \in 0..Len(content) : Discard(n) \/ Take(n) \/ Withdraw(n)

QueueSpec == QueueInit /\ [][QueueNext]_queueVars

=============================================================================
