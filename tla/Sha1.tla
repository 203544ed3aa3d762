-------------------------------- MODULE Sha1 --------------------------------
(***************************************************************************)
(* src/util/sha1.cpp: a digest computed over pieces of a message.  A word  *)
(* of 32 bits is a pair of halves.  Messages are shorter than 2^29 octets, *)
(* so Length_High stays 0 and Length_Low, here in octets, does not wrap.   *)
(***************************************************************************)
EXTENDS Integers, Sequences, SequencesExt
LOCAL INSTANCE Bitwise

Half == 65536
Word(high, low) == <<high, low>>

WordXor(v, w) == Word(v[1] ^^ w[1], v[2] ^^ w[2])
WordAnd(v, w) == Word(v[1] & w[1], v[2] & w[2])
WordOr(v, w) == Word(v[1] | w[1], v[2] | w[2])
WordNot(v) == Word(Half - 1 - v[1], Half - 1 - v[2])
WordAdd(v, w) == Word((v[1] + w[1] + ((v[2] + w[2]) \div Half)) % Half, (v[2] + w[2]) % Half)

CircularShift(bits, w) ==
    LET v == IF bits >= 16 THEN Word(w[2], w[1]) ELSE w
        p == 2^(bits % 16)
    IN  Word(((v[1] * p) % Half) + ((v[2] * p) \div Half), ((v[2] * p) % Half) + ((v[1] * p) \div Half))

-----------------------------------------------------------------------------
(* ProcessMessageBlock                                                     *)

H0 == <<Word(26437, 8961), Word(61389, 43913), Word(39098, 56574), Word(4146, 21622), Word(50130, 57840)>>

K(t) == CASE t < 20 -> Word(23170, 31129)
          [] t \in 20..39 -> Word(28377, 60321)
          [] t \in 40..59 -> Word(36635, 48348)
          [] t > 59 -> Word(51810, 49622)

Mixed(t, B, C, D) ==
    CASE t < 20 -> WordOr(WordAnd(B, C), WordAnd(WordNot(B), D))
      [] t \in 40..59 -> WordOr(WordAnd(B, C), WordOr(WordAnd(B, D), WordAnd(C, D)))
      [] t \in 20..39 \/ t > 59 -> WordXor(B, WordXor(C, D))

\* the words of a block, then one more word at a time up to 80
Widened[W \in Seq(Seq(Nat))] ==
    IF Len(W) = 80 THEN W
    ELSE LET t == Len(W) + 1
         IN  Widened[Append(W, CircularShift(1, WordXor(WordXor(W[t - 3], W[t - 8]), WordXor(W[t - 14], W[t - 16]))))]

WordsOf(block) ==
    Widened[[t \in 1..16 |-> Word(256 * block[4 * t - 3] + block[4 * t - 2],
                                  256 * block[4 * t - 1] + block[4 * t])]]

ProcessMessageBlock(H, block) ==
    LET W == WordsOf(block)
        round[t \in 0..80, v \in Seq(Seq(Nat))] ==
            IF t = 80 THEN v
            ELSE LET temp == WordAdd(WordAdd(CircularShift(5, v[1]), Mixed(t, v[2], v[3], v[4])),
                                 WordAdd(v[5], WordAdd(W[t + 1], K(t))))
                 IN  round[t + 1, <<temp, v[1], CircularShift(30, v[2]), v[3], v[4]>>]
        last == round[0, H]
    IN  [i \in 1..5 |-> WordAdd(H[i], last[i])]

-----------------------------------------------------------------------------
(* The object.  `processed' keeps the blocks that went into H.             *)

CONSTANTS
    PieceSizes,        \* sizes of what is given to Input
    MaxMessage         \* bound on the octets given

VARIABLES
    sha,               \* the members of the object, with the blocks processed
    message,           \* history: what was given to Input
    digests            \* history: what Result returned, <<>> for false

sha1Vars == <<sha, message, digests>>

Reset == [block |-> <<>>, length |-> 0, processed |-> <<>>, Computed |-> FALSE, Corrupted |-> FALSE]

Digest(blocks) ==
    LET over[i \in 0..Len(blocks)] == IF i = 0 THEN H0 ELSE ProcessMessageBlock(over[i - 1], blocks[i])
    IN  over[Len(blocks)]

Zeros(n) == [i \in 1..n |-> 0]

\* the octets of a message, which begins with "abc"
Octet(n) == (96 + n) % 256

\* Input: every full block is processed at once
Take(s, octets) ==
    LET all == s.block \o octets
        full == Len(all) \div 64
    IN  [s EXCEPT !.block = SubSeq(all, 64 * full + 1, Len(all)),
                  !.length = @ + Len(octets),
                  !.processed = @ \o [b \in 1..full |-> SubSeq(all, 64 * b - 63, 64 * b)]]

LengthOctets(n) == Zeros(4) \o <<0, (n \div 8192) % 256, (n \div 32) % 256, 8 * (n % 32)>>

\* mutant of PadMessage: 56 octets are thought to leave room for the length
PadMessageTight(s) ==
    IF Len(s.block) > 56
    THEN Append(Append(s.processed, s.block \o <<128>> \o Zeros(63 - Len(s.block))),
                Zeros(56) \o LengthOctets(s.length))
    ELSE Append(s.processed, SubSeq(s.block \o <<128>> \o Zeros(55 - Len(s.block)), 1, 56)
                             \o LengthOctets(s.length))

\* PadMessage: a block of more than 55 octets has no room left for the length
PadMessage(s) ==
    IF Len(s.block) > 55
    THEN Append(Append(s.processed, s.block \o <<128>> \o Zeros(63 - Len(s.block))),
                Zeros(56) \o LengthOctets(s.length))
    ELSE Append(s.processed, s.block \o <<128>> \o Zeros(55 - Len(s.block)) \o LengthOctets(s.length))

Sha1Init == sha = Reset /\ message = <<>> /\ digests = <<>>

Input ==
    \E n \in PieceSizes :
        LET octets == [i \in 1..n |-> Octet(Len(message) + i)]
        IN  /\ Len(message) + n <= MaxMessage
            /\ message' = message \o octets
            /\ sha' = IF n = 0 THEN sha
                      ELSE IF sha.Computed \/ sha.Corrupted THEN [sha EXCEPT !.Corrupted = TRUE]
                      ELSE Take(sha, octets)
            /\ UNCHANGED digests

Result ==
    /\ Len(digests) < 3
    /\ sha' = IF sha.Corrupted \/ sha.Computed THEN sha
              ELSE [sha EXCEPT !.processed = PadMessage(sha), !.block = <<>>, !.Computed = TRUE]
    /\ digests' = Append(digests, IF sha.Corrupted THEN <<>> ELSE <<sha'.processed>>)
    /\ UNCHANGED message

Sha1Next == Input \/ Result
Sha1Spec == Sha1Init /\ [][Sha1Next]_sha1Vars

-----------------------------------------------------------------------------
(* What is padded, by the standard (FIPS 180-4, 5.1.1).                    *)

Padded(octets) ==
    LET zeros == CHOOSE k \in 0..63 : (Len(octets) + 1 + k + 8) % 64 = 0
        all == octets \o <<128>> \o Zeros(zeros) \o LengthOctets(Len(octets))
    IN  [b \in 1..(Len(all) \div 64) |-> SubSeq(all, 64 * b - 63, 64 * b)]

\* However the message was cut into pieces, a digest is that of the padded message:
\* of everything given to Input so far, or there is no digest.
DigestsWholeMessage ==
    \A i \in DOMAIN digests :
        digests[i] # <<>> =>
            /\ i = Len(digests) /\ ~sha.Corrupted => digests[i] = <<Padded(message)>>
            /\ i > 1 => digests[i] = digests[i - 1]

\* The digest of the standard's example, "abc", is the published one, however it was
\* given to Input.
KnownDigest ==
    message = <<97, 98, 99>> /\ digests # <<>> /\ ~sha.Corrupted =>
        Digest(digests[1][1]) =
            <<Word(43417, 15926), Word(18182, 33130), Word(47678, 9585), Word(30800, 49772),
              Word(40144, 55453)>>

\* Both halves of a digest: what is hashed, and how.
DigestsRight == DigestsWholeMessage /\ KnownDigest

=============================================================================
