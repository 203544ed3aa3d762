---------------------------- MODULE BoundedFifo ----------------------------
(***************************************************************************)
(* What RingBuffer.h promises: a first-in first-out buffer of at most      *)
(* Capacity bytes.  `result' is what the last call returned: the bytes it  *)
(* copied or pointed at, or Refused.                                       *)
(***************************************************************************)
EXTENDS Naturals, Sequences

CONSTANTS Bytes, Capacity, MaxLen, Refused

VARIABLES content, result

fifoVars == <<content, result>>

Shorter(m, n) == IF m < n THEN m ELSE n

Prefix(s, n) == SubSeq(s, 1, Shorter(n, Len(s)))
Rest(s, n) == SubSeq(s, Shorter(n, Len(s)) + 1, Len(s))

FifoInit == content = <<>> /\ result = <<>>

\* all of the data, or none of it
Put(data) ==
    IF Len(content) + Len(data) <= Capacity
    THEN content' = content \o data /\ result' = data
    ELSE result' = Refused /\ UNCHANGED content

Get(n) == result' = Prefix(content, n) /\ content' = Rest(content, n)

Look(n) == result' = Prefix(content, n) /\ UNCHANGED content

Drop(n) == content' = Rest(content, n) /\ UNCHANGED result

\* some of the front, not nothing unless there is nothing
Front ==
    /\ \E n \in 0..Len(content) :
          /\ n = 0 => content = <<>>
          /\ result' = Prefix(content, n)
    /\ UNCHANGED content

FifoNext ==
    \/ \E n \in 0..MaxLen : \E data \in [1..n -> Bytes] : Put(data)
    \/ \E n \in 0..MaxLen : Get(n) \/ Look(n) \/ Drop(n)
    \/ Front

FifoSpec == FifoInit /\ [][FifoNext]_fifoVars

=============================================================================
