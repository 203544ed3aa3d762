--------------------------- MODULE ProtocolProofs ---------------------------
(***************************************************************************)
(* Proofs about what two ends of a connection do to each other: SSLWrapper,*)
(* for any texts, any records that a read gets, and any order in which the *)
(* ends run; HttpExchange, for any requests, handlers and reads; NetBuffer,*)
(* for any messages and any pieces the network cuts them into; HPackTable, *)
(* for any headers, in any order of additions and limits.                  *)
(***************************************************************************)
EXTENDS SSLWrapper, HttpExchange, NetBuffer, HPackTable, WellFoundedInduction,
        FiniteSetTheorems, SequenceTheorems, TLAPS

-----------------------------------------------------------------------------
LEMMA LeastOf ==
  ASSUME NEW T \in SUBSET Nat, T # {}
  PROVE  \E n \in T : \A m \in T : n <= m
<1>1. PICK n \in T : \A m \in T : <<m, n>> \notin OpToRel(<, Nat)
  BY NatLessThanWellFounded, WFMin
<1>2. \A m \in T : ~(m < n)
  BY <1>1 DEF OpToRel
<1> QED
  BY <1>2

\* Induction up to n, over a set.
LEMMA UpTo ==
  ASSUME NEW n \in Nat, NEW T, 0 \in T, \A i \in 1..n : i - 1 \in T => i \in T
  PROVE  \A i \in 0..n : i \in T
<1> DEFINE Out == {i \in 0..n : i \notin T}
<1> SUFFICES ASSUME Out # {} PROVE FALSE
  OBVIOUS
<1>1. Out \in SUBSET Nat
  OBVIOUS
<1>2. PICK i \in Out : \A j \in Out : i <= j
  BY <1>1, LeastOf
<1>3. i \in 0..n /\ i \notin T
  OBVIOUS
<1>4. i \in 1..n /\ i - 1 \in 0..n /\ i - 1 \notin Out
  BY <1>2, <1>3
<1>5. i - 1 \in T
  BY <1>4
<1> QED
  BY <1>3, <1>4, <1>5


-----------------------------------------------------------------------------
(* SSLWrapper.                                                             *)

Steps == {"start", "waits", "done"}
Records == {"hello", "server", "finished"} \cup {<<text>> : text \in Texts}

Wrapper ==
    [role : Roles, step : Steps, ret : {"ok", "want_read"}, rbio : Seq(Records), wbio : Seq(Records),
     handshakeFinished : BOOLEAN, sendBuffer : Seq(Texts), decrypted : Seq(Texts), sent : Seq(Records),
     enabled : BOOLEAN, written : Nat]

\* A wrapper between two calls: nothing is left in a BIO, or to be sent.
Resting == {w \in Wrapper : w.rbio = <<>> /\ w.wbio = <<>> /\ w.sent = <<>>}

\* texts as records, and records as the texts they hold
Sealed(texts) == [i \in DOMAIN texts |-> <<texts[i]>>]
Read(records) == [i \in DOMAIN records |-> records[i][1]]

-----------------------------------------------------------------------------
LEMMA FunctionIsSeq ==
  ASSUME NEW S, NEW n \in Nat, NEW f, f \in [1..n -> S]
  PROVE  f \in Seq(S) /\ Len(f) = n
<1>1. f \in Seq(S)
  OBVIOUS
<1>2. DOMAIN f = 1..Len(f) /\ DOMAIN f = 1..n /\ Len(f) \in Nat
  BY <1>1
<1>3. Len(f) = n
  BY <1>2
<1> QED
  BY <1>1, <1>3

LEMMA SealedIs ==
  ASSUME NEW s \in Seq(Texts)
  PROVE  /\ Sealed(s) \in Seq(Records) /\ Len(Sealed(s)) = Len(s)
         /\ \A i \in 1..Len(s) : Sealed(s)[i] = <<s[i]>>
         /\ Read(Sealed(s)) = s
<1>1. Len(s) \in Nat /\ DOMAIN s = 1..Len(s) /\ \A i \in 1..Len(s) : s[i] \in Texts
  BY LenProperties
<1>2. \A i \in 1..Len(s) : <<s[i]>> \in Records
  BY <1>1 DEF Records
<1>3. Sealed(s) \in [1..Len(s) -> Records] /\ \A i \in 1..Len(s) : Sealed(s)[i] = <<s[i]>>
  BY <1>1, <1>2 DEF Sealed
<1>4. Sealed(s) \in Seq(Records) /\ Len(Sealed(s)) = Len(s)
  BY <1>1, <1>3, FunctionIsSeq
<1>5. Read(Sealed(s)) = [i \in 1..Len(s) |-> s[i]]
  BY <1>3 DEF Read
<1>6. s = [i \in 1..Len(s) |-> s[i]]
  BY <1>1
<1> QED
  BY <1>3, <1>4, <1>5, <1>6

LEMMA SealedConcat ==
  ASSUME NEW s \in Seq(Texts), NEW t \in Seq(Texts)
  PROVE  Sealed(s \o t) = Sealed(s) \o Sealed(t)
<1> DEFINE all == Sealed(s \o t)
           parts == Sealed(s) \o Sealed(t)
<1>1. /\ s \o t \in Seq(Texts) /\ Len(s \o t) = Len(s) + Len(t)
      /\ \A i \in 1..(Len(s) + Len(t)) : (s \o t)[i] = IF i <= Len(s) THEN s[i] ELSE t[i - Len(s)]
  BY ConcatProperties
<1>2. /\ all \in Seq(Records) /\ Len(all) = Len(s) + Len(t)
      /\ \A i \in 1..(Len(s) + Len(t)) : all[i] = <<(s \o t)[i]>>
  BY <1>1, SealedIs
<1>3. /\ Sealed(s) \in Seq(Records) /\ Len(Sealed(s)) = Len(s)
      /\ \A i \in 1..Len(s) : Sealed(s)[i] = <<s[i]>>
  BY SealedIs
<1>4. /\ Sealed(t) \in Seq(Records) /\ Len(Sealed(t)) = Len(t)
      /\ \A i \in 1..Len(t) : Sealed(t)[i] = <<t[i]>>
  BY SealedIs
<1>5. /\ parts \in Seq(Records) /\ Len(parts) = Len(s) + Len(t)
      /\ \A i \in 1..(Len(s) + Len(t)) :
            parts[i] = IF i <= Len(s) THEN Sealed(s)[i] ELSE Sealed(t)[i - Len(s)]
  <2> DEFINE p == Sealed(s)
             q == Sealed(t)
  <2>1. p \in Seq(Records) /\ q \in Seq(Records) /\ Len(p) = Len(s) /\ Len(q) = Len(t)
    BY <1>3, <1>4
  <2> HIDE DEF p, q
  <2>2. /\ p \o q \in Seq(Records) /\ Len(p \o q) = Len(p) + Len(q)
        /\ \A i \in 1..(Len(p) + Len(q)) : (p \o q)[i] = IF i <= Len(p) THEN p[i] ELSE q[i - Len(p)]
    BY <2>1, ConcatProperties
  <2> QED
    BY <2>1, <2>2 DEF p, q
<1>6. Len(s) \in Nat /\ Len(t) \in Nat
  BY LenProperties
<1> HIDE DEF all, parts
<1>7. ASSUME NEW i \in 1..(Len(s) + Len(t)) PROVE all[i] = parts[i]
  <2>0. all[i] = <<(s \o t)[i]>>
    BY <1>2
  <2>1. CASE i <= Len(s)
    <3>1. i \in 1..Len(s) /\ (s \o t)[i] = s[i] /\ parts[i] = Sealed(s)[i]
      BY <2>1, <1>1, <1>5, <1>6
    <3> QED
      BY <2>0, <3>1, <1>3
  <2>2. CASE i > Len(s)
    <3>1. /\ i - Len(s) \in 1..Len(t) /\ (s \o t)[i] = t[i - Len(s)]
          /\ parts[i] = Sealed(t)[i - Len(s)]
      BY <2>2, <1>1, <1>5, <1>6
    <3>2. Sealed(t)[i - Len(s)] = <<t[i - Len(s)]>>
      BY <3>1, <1>4
    <3> QED
      BY <2>0, <3>1, <3>2
  <2> QED
    BY <2>1, <2>2, <1>6
<1>8. all = parts
  BY <1>2, <1>5, <1>7, SeqEqual
<1> QED
  BY <1>8 DEF all, parts

\* A read of some records reads the texts they hold, and leaves the others'.
LEMMA SealedCut ==
  ASSUME NEW s \in Seq(Texts), NEW k \in Nat, k <= Len(s)
  PROVE  LET a == SubSeq(s, 1, k)  b == SubSeq(s, k + 1, Len(s)) IN
         /\ a \in Seq(Texts) /\ b \in Seq(Texts) /\ s = a \o b /\ Len(a) = k
         /\ SubSeq(Sealed(s), 1, k) = Sealed(a)
         /\ SubSeq(Sealed(s), k + 1, Len(s)) = Sealed(b)
<1> DEFINE a == SubSeq(s, 1, k)
           b == SubSeq(s, k + 1, Len(s))
<1>1. Len(s) \in Nat
  BY LenProperties
<1>2. a \in Seq(Texts) /\ b \in Seq(Texts) /\ Len(a) = k
  BY <1>1, SubSeqProperties
<1>3. a \o b = SubSeq(s, 1, Len(s)) /\ SubSeq(s, 1, Len(s)) = s
  <2>1. 1 \in 1..(Len(s) + 1) /\ k \in (1 - 1)..Len(s) /\ Len(s) \in k..Len(s)
    BY <1>1
  <2> QED
    BY <2>1, ConcatAdjacentSubSeq, SubSeqFull
<1>4. /\ Sealed(s) \in Seq(Records) /\ Len(Sealed(s)) = Len(s)
      /\ \A i \in 1..Len(s) : Sealed(s)[i] = <<s[i]>>
  BY SealedIs
<1>5. /\ Len(b) = Len(s) - k
      /\ \A i \in 1..k : a[i] = s[i]
      /\ \A i \in 1..(Len(s) - k) : b[i] = s[k + i]
  BY <1>1, SubSeqProperties
<1>6. /\ Sealed(a) \in Seq(Records) /\ Len(Sealed(a)) = k
      /\ \A i \in 1..k : Sealed(a)[i] = <<a[i]>>
  BY <1>2, SealedIs
<1>7. /\ Sealed(b) \in Seq(Records) /\ Len(Sealed(b)) = Len(s) - k
      /\ \A i \in 1..(Len(s) - k) : Sealed(b)[i] = <<b[i]>>
  BY <1>2, <1>5, SealedIs
<1> DEFINE first == SubSeq(Sealed(s), 1, k)
           rest == SubSeq(Sealed(s), k + 1, Len(s))
<1>8. /\ first \in Seq(Records) /\ Len(first) = k
      /\ \A i \in 1..k : first[i] = Sealed(s)[i]
  BY <1>1, <1>4, SubSeqProperties
<1>9. /\ rest \in Seq(Records) /\ Len(rest) = Len(s) - k
      /\ \A i \in 1..(Len(s) - k) : rest[i] = Sealed(s)[k + i]
  BY <1>1, <1>4, SubSeqProperties
<1> HIDE DEF first, rest, a, b
<1>10. ASSUME NEW i \in 1..k PROVE first[i] = Sealed(a)[i]
  <2>1. i \in 1..Len(s)
    BY <1>1
  <2> QED
    BY <2>1, <1>4, <1>5, <1>6, <1>8
<1>11. ASSUME NEW i \in 1..(Len(s) - k) PROVE rest[i] = Sealed(b)[i]
  <2>1. k + i \in 1..Len(s)
    BY <1>1
  <2> QED
    BY <2>1, <1>4, <1>5, <1>7, <1>9
<1>12. first = Sealed(a)
  BY <1>6, <1>8, <1>10, SeqEqual
<1>13. rest = Sealed(b)
  BY <1>7, <1>9, <1>11, SeqEqual
<1> QED
  BY <1>2, <1>3, <1>12, <1>13 DEF first, rest, a, b

-----------------------------------------------------------------------------
(* What the wrapper's calls do.                                            *)

LEMMA TextsAssociate ==
  ASSUME NEW s \in Seq(Texts), NEW t \in Seq(Texts), NEW u \in Seq(Texts)
  PROVE  (s \o t) \o u = s \o (t \o u)
BY ConcatAssociative

LEMMA EmptyConcat ==
  /\ \A x : /\ <<>> \o <<x>> = <<x>> /\ Append(<<>>, x) = <<x>> /\ <<>> \o <<>> = <<>>
           /\ <<x>> # <<>> /\ Head(<<x>>) = x /\ Tail(<<x>>) = <<>>
  /\ \A S : \A s \in Seq(S) : <<>> \o s = s /\ s \o <<>> = s
BY ConcatEmptySeq

LEMMA NothingToSend ==
  ASSUME NEW w \in Wrapper, w.wbio = <<>>
  PROVE  HandleOut(w) = w
<1>1. w.sent \o w.wbio = w.sent
  BY EmptyConcat DEF Wrapper
<1> QED
  BY <1>1 DEF HandleOut, Wrapper

\* before the other end's flight has come, a handshake only asks for more
LEMMA HandshakeWaits ==
  ASSUME NEW w \in Resting, ~w.handshakeFinished, w.step # "done",
         w.role = "client" => w.step = "waits"
  PROVE  DoHandshake(w) = [w EXCEPT !.ret = "want_read"]
<1> DEFINE asks == [w EXCEPT !.ret = "want_read"]
<1>1. SSLDoHandshake(w) = asks
  BY DEF SSLDoHandshake, Heads, Resting, Wrapper, Roles, Steps
<1>2. asks \in Wrapper /\ asks.wbio = <<>> /\ asks.ret = "want_read"
  BY DEF Resting, Wrapper
<1> HIDE DEF asks
<1>3. HandleOut(asks) = asks
  BY <1>2, NothingToSend
<1> QED
  BY <1>1, <1>2, <1>3 DEF DoHandshake, HandleSSLError, asks

\* a client begins
LEMMA ClientBegins ==
  ASSUME NEW w \in Resting, ~w.handshakeFinished, w.step = "start", w.role = "client"
  PROVE  DoHandshake(w) = [w EXCEPT !.ret = "want_read", !.step = "waits", !.sent = <<"hello">>]
<1> DEFINE asks == [w EXCEPT !.ret = "want_read", !.step = "waits", !.wbio = <<"hello">>]
<1>0. w.wbio = <<>> /\ w.sent = <<>> /\ Append(w.wbio, "hello") = <<"hello">>
  BY EmptyConcat DEF Resting, Wrapper
<1>1. SSLDoHandshake(w) = asks
  BY <1>0 DEF SSLDoHandshake, Flight, Resting, Wrapper, Roles, Steps
<1>2. HandleOut(asks) = [w EXCEPT !.ret = "want_read", !.step = "waits", !.sent = <<"hello">>]
  <2>1. asks.sent = <<>> /\ asks.wbio = <<"hello">> /\ asks.sent \o asks.wbio = <<"hello">>
    BY <1>0, EmptyConcat DEF Resting, Wrapper
  <2> QED
    BY <2>1, <1>0 DEF HandleOut, Resting, Wrapper
<1>3. asks.ret = "want_read"
  BY DEF Resting, Wrapper
<1> HIDE DEF asks
<1> QED
  BY <1>1, <1>2, <1>3 DEF DoHandshake, HandleSSLError

\* a server answers the client's first flight
LEMMA ServerAnswers ==
  ASSUME NEW w \in Resting, ~w.handshakeFinished, w.step = "start", w.role = "server"
  PROVE  OnRecvEncrypted(w, <<"hello">>) =
            [w EXCEPT !.ret = "want_read", !.step = "waits", !.sent = <<"server">>]
<1> DEFINE fed == [w EXCEPT !.rbio = <<"hello">>]
           answers == [w EXCEPT !.ret = "want_read", !.step = "waits", !.wbio = <<"server">>]
           gone == [w EXCEPT !.ret = "want_read", !.step = "waits", !.sent = <<"server">>]
<1>1. w.rbio = <<>> /\ w.wbio = <<>> /\ w.sent = <<>> /\ w.rbio \o <<"hello">> = <<"hello">>
  BY EmptyConcat DEF Resting
<1>2. [w EXCEPT !.rbio = @ \o <<"hello">>] = fed
  BY <1>1 DEF Resting, Wrapper
<1>3. SSLDoHandshake(fed) = answers
  <2>0. fed.wbio = <<>> /\ fed.rbio = <<"hello">>
    BY <1>1 DEF Resting, Wrapper
  <2>1. Append(fed.wbio, "server") = <<"server">> /\ Tail(fed.rbio) = <<>> /\ Heads(fed, "hello")
    BY <2>0, EmptyConcat DEF Heads
  <2>2. Flight(Taken(fed), "server") = [w EXCEPT !.wbio = <<"server">>]
    BY <2>1, <1>1 DEF Flight, Taken, Resting, Wrapper
  <2> QED
    BY <2>1, <2>2 DEF SSLDoHandshake, Resting, Wrapper
<1>4. HandleOut(answers) = gone
  <2>1. answers.sent \o answers.wbio = <<"server">>
    BY <1>1, EmptyConcat DEF Resting, Wrapper
  <2> QED
    BY <2>1, <1>1 DEF HandleOut, Resting, Wrapper
<1>5. fed.step = "start" /\ ~fed.handshakeFinished /\ answers.ret = "want_read"
  BY DEF Resting, Wrapper
<1>6. DoHandshake(fed) = gone
  <2> HIDE DEF fed, answers, gone
  <2> QED
    BY <1>3, <1>4, <1>5 DEF DoHandshake, HandleSSLError
<1>7. gone \in Wrapper /\ gone.wbio = <<>> /\ ~gone.handshakeFinished
  <2>1. <<"server">> \in Seq(Records)
    BY DEF Records
  <2> QED
    BY <2>1, <1>1 DEF Resting, Wrapper, Steps
<1> HIDE DEF fed, gone
<1>8. HandleOut(gone) = gone
  BY <1>7, NothingToSend
<1>9. OnRecvEncrypted(w, <<"hello">>) = gone
  BY <1>2, <1>5, <1>6, <1>7, <1>8 DEF OnRecvEncrypted, SSLInitFinished
<1> QED
  BY <1>9 DEF gone

\* the end of a handshake, and of what came with its last flight
LEMMA FlushAndRead ==
  ASSUME NEW w \in Wrapper
  PROVE  ReadAll(SendCached(w, w.sendBuffer)) =
            [w EXCEPT !.sent = (@ \o w.wbio) \o Sealed(w.sendBuffer), !.wbio = <<>>,
                      !.sendBuffer = <<>>, !.decrypted = @ \o Read(w.rbio), !.rbio = <<>>,
                      !.ret = "want_read"]
<1> DEFINE flushed == SendCached(w, w.sendBuffer)
           read == [flushed EXCEPT !.decrypted = @ \o Read(flushed.rbio), !.rbio = <<>>,
                                   !.ret = "want_read"]
<1>0. /\ w.sendBuffer \in Seq(Texts) /\ Sealed(w.sendBuffer) \in Seq(Records)
      /\ w.sent \in Seq(Records) /\ w.wbio \in Seq(Records) /\ w.sent \o w.wbio \in Seq(Records)
  BY SealedIs, ConcatProperties DEF Wrapper
<1>1. ReadAll(flushed) = HandleOut(read)
  <2> HIDE DEF flushed
  <2>1. [i \in DOMAIN flushed.rbio |-> flushed.rbio[i][1]] = Read(flushed.rbio)
    BY DEF Read
  <2> DEFINE r == [flushed EXCEPT !.decrypted = @ \o Read(flushed.rbio), !.rbio = <<>>,
                                  !.ret = "want_read"]
  <2>2. r.ret = "want_read"
    OBVIOUS
  <2>3. ReadAll(flushed) = HandleSSLError(r)
    BY <2>1 DEF ReadAll
  <2> QED
    BY <2>2, <2>3 DEF HandleSSLError
<1>2. CASE w.sendBuffer = <<>>
  <2>1. flushed = w
    BY <1>2 DEF SendCached
  <2>2. Sealed(w.sendBuffer) = <<>>
    BY <1>2 DEF Sealed
  <2>3. (w.sent \o w.wbio) \o Sealed(w.sendBuffer) = w.sent \o w.wbio
    BY <2>2, <1>0, EmptyConcat
  <2>4. HandleOut(read) = [w EXCEPT !.sent = @ \o w.wbio, !.wbio = <<>>,
                                    !.decrypted = @ \o Read(w.rbio), !.rbio = <<>>,
                                    !.ret = "want_read"]
    BY <2>1 DEF HandleOut, Wrapper
  <2> QED
    BY <1>1, <1>2, <2>3, <2>4, ZenonT(40) DEF Wrapper
<1>3. CASE w.sendBuffer # <<>>
  <2> DEFINE sent == (w.sent \o w.wbio) \o Sealed(w.sendBuffer)
             all == [w EXCEPT !.sent = sent, !.wbio = <<>>,
                      !.sendBuffer = <<>>, !.decrypted = @ \o Read(w.rbio), !.rbio = <<>>,
                      !.ret = "want_read"]
  <2>1. flushed = [w EXCEPT !.sent = sent, !.wbio = <<>>, !.sendBuffer = <<>>]
    BY <1>3 DEF SendCached, Sealed
  <2>2. sent \in Seq(Records) /\ sent \o <<>> = sent
    BY <1>0, ConcatProperties, EmptyConcat
  <2> HIDE DEF sent, flushed
  <2>3. read = all
    BY <2>1 DEF Wrapper
  <2> HIDE DEF read
  <2>4. all.wbio = <<>> /\ all.sent = sent
    BY DEF Wrapper
  <2>5. HandleOut(all) = all
    BY <2>2, <2>4 DEF HandleOut, Wrapper
  <2> QED
    BY <1>1, <2>3, <2>5 DEF sent, flushed
<1> QED
  BY <1>2, <1>3

\* what SSL_do_handshake makes of records, and what becomes of that when it was the end
Shaken(w, records) == SSLDoHandshake([w EXCEPT !.rbio = records])
Flushed(t) ==
    [t EXCEPT !.handshakeFinished = TRUE, !.sent = (@ \o t.wbio) \o Sealed(t.sendBuffer),
              !.wbio = <<>>, !.sendBuffer = <<>>, !.decrypted = @ \o Read(t.rbio),
              !.rbio = <<>>, !.ret = "want_read"]

LEMMA HandshakeEnds ==
  ASSUME NEW w \in Resting, NEW records \in Seq(Records), ~w.handshakeFinished, w.step # "done",
         Shaken(w, records) \in Wrapper, Shaken(w, records).ret = "ok"
  PROVE  OnRecvEncrypted(w, records) = Flushed(Shaken(w, records))
<1> DEFINE fed == [w EXCEPT !.rbio = records]
           t == Shaken(w, records)
           ended == [t EXCEPT !.handshakeFinished = TRUE]
           flushed == SendCached(ended, ended.sendBuffer)
           read == Flushed(t)
<1>0. t \in Wrapper /\ t.ret = "ok" /\ SSLDoHandshake(fed) = t
  BY DEF Shaken
<1> HIDE DEF t
<1>1. [w EXCEPT !.rbio = @ \o records] = fed
  BY EmptyConcat DEF Resting, Wrapper
<1>2. fed.step # "done" /\ ~fed.handshakeFinished
  BY DEF Resting, Wrapper
<1>3. ended \in Wrapper /\ ended.handshakeFinished /\ ended.sendBuffer = t.sendBuffer
  BY <1>0 DEF Wrapper
<1>4. DoHandshake(fed) = flushed
  <2> HIDE DEF fed
  <2> QED
    BY <1>0, <1>2, <1>3 DEF DoHandshake
<1>5. flushed.handshakeFinished
  BY <1>3 DEF SendCached, Wrapper
<1>6. ReadAll(flushed) = read
  <2>1. ReadAll(flushed) =
            [ended EXCEPT !.sent = (@ \o ended.wbio) \o Sealed(ended.sendBuffer), !.wbio = <<>>,
                      !.sendBuffer = <<>>, !.decrypted = @ \o Read(ended.rbio), !.rbio = <<>>,
                      !.ret = "want_read"]
    BY <1>3, FlushAndRead
  <2> QED
    BY <2>1, <1>0 DEF Wrapper, Flushed
<1>7. HandleOut(read) = read
  <2>1. (t.sent \o t.wbio) \o Sealed(t.sendBuffer) \in Seq(Records)
    BY <1>0, SealedIs, ConcatProperties DEF Wrapper
  <2>2. read.wbio = <<>> /\ read.sent \o <<>> = read.sent
    BY <2>1, <1>0, EmptyConcat DEF Wrapper, Flushed
  <2> QED
    BY <2>2, <1>0 DEF HandleOut, Wrapper, Flushed
<1> HIDE DEF fed, flushed, read
<1>8. OnRecvEncrypted(w, records) = read
  BY <1>1, <1>2, <1>4, <1>5, <1>6, <1>7 DEF OnRecvEncrypted, SSLInitFinished
<1> QED
  BY <1>8 DEF read, t

LEMMA ClientFinishes ==
  ASSUME NEW w \in Resting, ~w.handshakeFinished, w.step = "waits", w.role = "client"
  PROVE  OnRecvEncrypted(w, <<"server">>) =
            [w EXCEPT !.ret = "want_read", !.step = "done", !.handshakeFinished = TRUE,
                      !.sendBuffer = <<>>, !.sent = <<"finished">> \o Sealed(w.sendBuffer)]
<1> DEFINE fed == [w EXCEPT !.rbio = <<"server">>]
           t == [w EXCEPT !.wbio = <<"finished">>, !.step = "done", !.ret = "ok"]
<1>1. w.rbio = <<>> /\ w.wbio = <<>> /\ w.sent = <<>> /\ w.decrypted \in Seq(Texts)
  BY DEF Resting, Wrapper
<1>2. <<"server">> \in Seq(Records) /\ <<"finished">> \in Seq(Records)
  BY DEF Records
<1>3. SSLDoHandshake(fed) = t
  <2>0. fed.wbio = <<>> /\ fed.rbio = <<"server">> /\ fed.role = "client" /\ fed.step = "waits"
    BY <1>1 DEF Resting, Wrapper
  <2>1. Append(fed.wbio, "finished") = <<"finished">> /\ Tail(fed.rbio) = <<>> /\ Heads(fed, "server")
    BY <2>0, EmptyConcat DEF Heads
  <2>2. [Flight(Taken(fed), "finished") EXCEPT !.step = "done", !.ret = "ok"] = t
    BY <2>1, <1>1 DEF Flight, Taken, Resting, Wrapper
  <2> HIDE DEF fed, t
  <2> QED
    BY <2>0, <2>1, <2>2 DEF SSLDoHandshake
<1>4. t \in Wrapper /\ t.ret = "ok"
  BY <1>1, <1>2 DEF Resting, Wrapper, Steps
<1>5. OnRecvEncrypted(w, <<"server">>) = Flushed(t)
  <2>1. Shaken(w, <<"server">>) = t
    BY <1>3 DEF Shaken
  <2> HIDE DEF t, fed
  <2> QED
    BY <2>1, <1>2, <1>4, HandshakeEnds
<1>6. /\ t.sent \o t.wbio = <<"finished">>
      /\ t.decrypted \o Read(t.rbio) = w.decrypted
      /\ t.sendBuffer = w.sendBuffer
  <2>1. t.sent = <<>> /\ t.wbio = <<"finished">> /\ t.rbio = <<>> /\ t.decrypted = w.decrypted
        /\ t.sendBuffer = w.sendBuffer
    BY <1>1 DEF Resting, Wrapper
  <2>2. Read(t.rbio) = <<>>
    BY <2>1 DEF Read
  <2> QED
    BY <2>1, <2>2, <1>1, EmptyConcat
<1>7. Flushed(t) = [w EXCEPT !.ret = "want_read", !.step = "done", !.handshakeFinished = TRUE,
                      !.sendBuffer = <<>>, !.sent = <<"finished">> \o Sealed(w.sendBuffer)]
  <2>1. Flushed(t) = [t EXCEPT !.handshakeFinished = TRUE, !.sent = <<"finished">> \o Sealed(w.sendBuffer),
                               !.wbio = <<>>, !.sendBuffer = <<>>, !.decrypted = w.decrypted,
                               !.rbio = <<>>, !.ret = "want_read"]
    BY <1>6 DEF Flushed
  <2> QED
    BY <2>1, <1>1, ZenonT(40) DEF Resting, Wrapper
<1> QED
  BY <1>5, <1>7

LEMMA ServerFinishes ==
  ASSUME NEW w \in Resting, ~w.handshakeFinished, w.step = "waits", w.role = "server",
         NEW s \in Seq(Texts)
  PROVE  OnRecvEncrypted(w, <<"finished">> \o Sealed(s)) =
            [w EXCEPT !.ret = "want_read", !.step = "done", !.handshakeFinished = TRUE,
                      !.sendBuffer = <<>>, !.sent = Sealed(w.sendBuffer),
                      !.decrypted = @ \o s]
<1> DEFINE records == <<"finished">> \o Sealed(s)
           fed == [w EXCEPT !.rbio = records]
           t == [w EXCEPT !.rbio = Sealed(s), !.step = "done", !.ret = "ok"]
<1>1. /\ w.rbio = <<>> /\ w.wbio = <<>> /\ w.sent = <<>> /\ w.decrypted \in Seq(Texts)
      /\ w.sendBuffer \in Seq(Texts)
  BY DEF Resting, Wrapper
<1>2. /\ <<"finished">> \in Seq(Records) /\ Sealed(s) \in Seq(Records) /\ records \in Seq(Records)
      /\ Read(Sealed(s)) = s
  BY SealedIs, ConcatProperties DEF Records
<1>3. records # <<>> /\ Head(records) = "finished" /\ Tail(records) = Sealed(s)
  BY <1>2
<1>4. SSLDoHandshake(fed) = t
  <2>0. fed.rbio = records /\ fed.role = "server" /\ fed.step = "waits"
    BY <1>1 DEF Resting, Wrapper
  <2>1. Heads(fed, "finished") /\ Tail(fed.rbio) = Sealed(s)
    BY <2>0, <1>3 DEF Heads
  <2>2. [Taken(fed) EXCEPT !.step = "done", !.ret = "ok"] = t
    BY <2>1, <1>1 DEF Taken, Resting, Wrapper
  <2> HIDE DEF fed, t
  <2> QED
    BY <2>0, <2>1, <2>2 DEF SSLDoHandshake
<1>5. t \in Wrapper /\ t.ret = "ok"
  BY <1>1, <1>2 DEF Resting, Wrapper, Steps
<1>6. OnRecvEncrypted(w, records) = Flushed(t)
  <2>1. Shaken(w, records) = t
    BY <1>4 DEF Shaken
  <2> HIDE DEF t, fed, records
  <2> QED
    BY <2>1, <1>2, <1>5, HandshakeEnds
<1>7. /\ (t.sent \o t.wbio) \o Sealed(t.sendBuffer) = Sealed(w.sendBuffer)
      /\ t.decrypted \o Read(t.rbio) = w.decrypted \o s
  <2>1. t.sent = <<>> /\ t.wbio = <<>> /\ t.rbio = Sealed(s) /\ t.decrypted = w.decrypted
        /\ t.sendBuffer = w.sendBuffer
    BY <1>1 DEF Resting, Wrapper
  <2>2. Sealed(w.sendBuffer) \in Seq(Records) /\ <<>> \o <<>> = <<>>
    BY <1>1, SealedIs, EmptyConcat
  <2>3. (t.sent \o t.wbio) \o Sealed(t.sendBuffer) = Sealed(w.sendBuffer)
    BY <2>1, <2>2, EmptyConcat
  <2> QED
    BY <2>1, <2>3, <1>2
<1> HIDE DEF records
<1>8. Flushed(t) = [w EXCEPT !.ret = "want_read", !.step = "done", !.handshakeFinished = TRUE,
                      !.sendBuffer = <<>>, !.sent = Sealed(w.sendBuffer), !.decrypted = @ \o s]
  BY <1>1, <1>7, ZenonT(40) DEF Resting, Wrapper, Flushed
<1> QED
  BY <1>6, <1>8 DEF records

\* after the handshake
LEMMA DoneReads ==
  ASSUME NEW w \in Resting, w.handshakeFinished, w.step = "done", NEW s \in Seq(Texts)
  PROVE  OnRecvEncrypted(w, Sealed(s)) = [w EXCEPT !.ret = "want_read", !.decrypted = @ \o s]
<1> DEFINE fed == [w EXCEPT !.rbio = Sealed(s)]
           read == [w EXCEPT !.ret = "want_read", !.decrypted = @ \o s]
<1>1. w.rbio = <<>> /\ w.wbio = <<>> /\ w.sent = <<>>
  BY DEF Resting, Wrapper
<1>2. Sealed(s) \in Seq(Records) /\ Read(Sealed(s)) = s /\ <<>> \o Sealed(s) = Sealed(s)
  BY SealedIs, EmptyConcat
<1>3. [w EXCEPT !.rbio = @ \o Sealed(s)] = fed
  BY <1>1, <1>2 DEF Resting, Wrapper
<1>4. fed.step = "done" /\ fed.handshakeFinished /\ fed.rbio = Sealed(s)
  BY DEF Resting, Wrapper
<1>5. [fed EXCEPT !.decrypted = @ \o Read(fed.rbio), !.rbio = <<>>, !.ret = "want_read"] = read
  BY <1>1, <1>2 DEF Resting, Wrapper
<1>6. HandleOut(read) = read /\ read.ret = "want_read"
  <2>1. read.wbio = <<>> /\ read.sent = <<>> /\ read.ret = "want_read"
    BY <1>1 DEF Resting, Wrapper
  <2>2. read.sent \o read.wbio = <<>>
    BY <2>1, EmptyConcat
  <2>3. [read EXCEPT !.sent = <<>>, !.wbio = <<>>] = read
    BY <2>1 DEF Resting, Wrapper
  <2> QED
    BY <2>1, <2>2, <2>3 DEF HandleOut
<1> HIDE DEF fed, read
<1>7. ReadAll(fed) = read
  BY <1>5, <1>6 DEF ReadAll, HandleSSLError, Read
<1>8. OnRecvEncrypted(w, Sealed(s)) = read
  BY <1>3, <1>4, <1>6, <1>7 DEF OnRecvEncrypted, SSLInitFinished
<1> QED
  BY <1>8 DEF read

LEMMA DoneWrites ==
  ASSUME NEW w \in Resting, w.handshakeFinished, NEW text
  PROVE  SendUnencrypted(w, text) = [w EXCEPT !.sent = << <<text>> >>]
<1>1. w.wbio = <<>> /\ w.sent = <<>>
  BY DEF Resting, Wrapper
<1>2. Append(w.wbio, <<text>>) = << <<text>> >>
  BY <1>1, EmptyConcat
<1> DEFINE sealed == [w EXCEPT !.wbio = << <<text>> >>]
<1>3. SSLWrite(w, text) = sealed
  BY <1>2 DEF SSLWrite, Flight
<1>4. sealed.sent \o sealed.wbio = << <<text>> >>
  BY <1>1, EmptyConcat DEF Resting, Wrapper
<1>5. HandleOut(sealed) = [w EXCEPT !.sent = << <<text>> >>]
  BY <1>1, <1>4 DEF HandleOut, Resting, Wrapper
<1> QED
  BY <1>3, <1>5 DEF SendUnencrypted

-----------------------------------------------------------------------------
(* What holds between two calls.                                           *)

\* what r's user has written
Written(r) == SubSeq(Plaintexts[r], 1, ends[r].written)

\* the wrapper knows when the engine is done
Knows(w) == w.handshakeFinished <=> w.step = "done"

TlsTypes ==
    /\ ends \in [Roles -> Resting] /\ stream \in [Roles -> Seq(Records)]
    /\ \A r \in Roles :
          ends[r].role = r /\ ends[r].written <= Len(Plaintexts[r]) /\ Knows(ends[r])

\* Until the handshake ends all that was written is in the cache.
Cached(r) ==
    IF ends[r].step = "done" THEN ends[r].sendBuffer = <<>>
    ELSE ends[r].sendBuffer = Written(r) /\ ends[r].decrypted = <<>>

\* What was read and what is on its way to r are together what the other end wrote.
Flows(r) ==
    \E coming \in Seq(Texts) :
        stream[r] = Sealed(coming) /\ ends[r].decrypted \o coming = Written(Peer(r))

\* One flight at a time is on its way; behind the last come records.
Phases ==
    LET steps == <<ends["client"].step, ends["server"].step>> IN
    \/ /\ steps = <<"start", "start">> /\ ~ends["client"].enabled
       /\ stream["client"] = <<>> /\ stream["server"] = <<>>
    \/ /\ steps = <<"waits", "start">>
       /\ stream["client"] = <<>> /\ stream["server"] = <<"hello">>
    \/ /\ steps = <<"waits", "waits">>
       /\ stream["client"] = <<"server">> /\ stream["server"] = <<>>
    \/ /\ steps = <<"done", "waits">>
       /\ stream["client"] = <<>> /\ ends["client"].decrypted = <<>>
       /\ stream["server"] = <<"finished">> \o Sealed(Written("client"))
    \/ steps = <<"done", "done">> /\ \A r \in Roles : Flows(r)

TlsInv == TlsTypes /\ (\A r \in Roles : Cached(r)) /\ Phases

LEMMA PeerIs ==
  /\ Peer("client") = "server" /\ Peer("server") = "client"
  /\ \A r \in Roles : Peer(r) \in Roles /\ Peer(r) # r /\ Peer(Peer(r)) = r
                      /\ \A q \in Roles : q # r => q = Peer(r)
BY DEF Peer, Roles

LEMMA WrittenIs ==
  ASSUME TlsTypes, NEW r \in Roles
  PROVE  /\ Written(r) \in Seq(Texts) /\ Len(Written(r)) = ends[r].written /\ ends[r].written \in Nat
         /\ ends[r].written < Len(Plaintexts[r]) =>
               /\ Plaintexts[r][ends[r].written + 1] \in Texts
               /\ SubSeq(Plaintexts[r], 1, ends[r].written + 1) =
                     Written(r) \o <<Plaintexts[r][ends[r].written + 1]>>
<1> DEFINE q == Plaintexts[r]
           n == ends[r].written
<1>1. q \in Seq(Texts) /\ Len(q) \in Nat /\ n \in Nat /\ n <= Len(q)
  BY TlsAssumption, LenProperties DEF TlsTypes, Resting, Wrapper
<1> HIDE DEF q, n
<1>2. SubSeq(q, 1, n) \in Seq(Texts) /\ Len(SubSeq(q, 1, n)) = n
  BY <1>1, SubSeqProperties
<1>3. ASSUME n < Len(q)
      PROVE  q[n + 1] \in Texts /\ SubSeq(q, 1, n + 1) = SubSeq(q, 1, n) \o <<q[n + 1]>>
  <2>1. 1 \in 1..Len(q) /\ n + 1 \in 1..Len(q) /\ (n + 1) - 1 = n
    BY <1>1, <1>3
  <2>2. SubSeq(q, 1, n + 1) = SubSeq(q, 1, (n + 1) - 1) \o <<q[n + 1]>>
    BY <1>1, <2>1, SubSeqRecursiveSecond
  <2> QED
    BY <1>1, <2>1, <2>2
<1> QED
  BY <1>1, <1>2, <1>3 DEF q, n, Written

\* a wrapper of r after a call, but for what the call sends
Fits(r, w) ==
    /\ w \in Wrapper /\ w.rbio = <<>> /\ w.wbio = <<>>
    /\ w.role = r /\ w.written <= Len(Plaintexts[r]) /\ Knows(w)

AtRest(w) == [w EXCEPT !.sent = <<>>]

\* what a step changes, by which the end r comes to be w
Became(r, w, rest) ==
    /\ ends'[r] = AtRest(w) /\ ends'[Peer(r)] = ends[Peer(r)]
    /\ stream'[r] = rest[r] /\ stream'[Peer(r)] = rest[Peer(r)] \o w.sent

\* a step of one end
LEMMA BecomesIs ==
  ASSUME TlsTypes, NEW r \in Roles, NEW w, Fits(r, w), NEW rest,
         rest \in [Roles -> Seq(Records)], Becomes(r, w, rest)
  PROVE  TlsTypes' /\ Became(r, w, rest)
<1> USE DEF Fits, AtRest, Became
<1> DEFINE now == [w EXCEPT !.sent = <<>>]
<1>1. now \in Resting
  BY DEF Resting, Wrapper
<1>2. now.role = w.role /\ now.written = w.written /\ now.step = w.step
      /\ Knows(now)
  BY DEF Wrapper, Knows
<1>3. ends' = [ends EXCEPT ![r] = now] /\ stream' = [rest EXCEPT ![Peer(r)] = @ \o w.sent]
  BY DEF Becomes
<1>4. rest[Peer(r)] \o w.sent \in Seq(Records)
  BY PeerIs, ConcatProperties DEF Wrapper
<1> HIDE DEF now
<1>5. /\ ends' \in [Roles -> Resting] /\ ends'[r] = now
      /\ \A q \in Roles : q # r => ends'[q] = ends[q]
  BY <1>1, <1>3 DEF TlsTypes
<1>6. /\ stream' \in [Roles -> Seq(Records)] /\ stream'[r] = rest[r]
      /\ stream'[Peer(r)] = rest[Peer(r)] \o w.sent
  BY <1>3, <1>4, PeerIs
<1>7. ASSUME NEW q \in Roles
      PROVE  ends'[q].role = q /\ ends'[q].written <= Len(Plaintexts[q]) /\ Knows(ends[q])'
  <2>1. CASE q = r
    BY <2>1, <1>2, <1>5 DEF Knows
  <2>2. CASE q # r
    BY <2>2, <1>5 DEF TlsTypes, Knows
  <2> QED
    BY <2>1, <2>2
<1> QED
  BY <1>5, <1>6, <1>7, PeerIs DEF TlsTypes, now

\* A step that only notes what the last call returned, or that TLS is enabled.
LEMMA QuietStep ==
  ASSUME TlsInv, NEW r \in Roles, NEW w \in Resting, Becomes(r, w, stream),
         \E ret \in {"ok", "want_read"} : w = [ends[r] EXCEPT !.enabled = TRUE, !.ret = ret],
         r = "client" => ends[r].step # "start"
  PROVE  TlsInv'
<1>1. ends[r] \in Resting /\ stream \in [Roles -> Seq(Records)]
  BY DEF TlsInv, TlsTypes
<1>2. /\ w \in Wrapper /\ w.rbio = <<>> /\ w.wbio = <<>> /\ w.sent = <<>>
      /\ w.role = ends[r].role /\ w.written = ends[r].written /\ w.step = ends[r].step
      /\ w.handshakeFinished = ends[r].handshakeFinished
      /\ w.decrypted = ends[r].decrypted /\ w.sendBuffer = ends[r].sendBuffer
  BY <1>1 DEF Resting, Wrapper
<1>4. /\ w.role = r /\ w.written <= Len(Plaintexts[r])
      /\ Knows(w)
  BY <1>2 DEF TlsInv, TlsTypes, Knows
<1>5. /\ TlsTypes' /\ ends'[r] = AtRest(w) /\ ends'[Peer(r)] = ends[Peer(r)]
      /\ stream'[r] = stream[r] /\ stream'[Peer(r)] = stream[Peer(r)] \o w.sent
  <2>1. TlsTypes
    BY DEF TlsInv
  <2>2. Fits(r, w)
    BY <1>2, <1>4 DEF Fits
  <2>3. TlsTypes' /\ Became(r, w, stream)
    BY <2>1, <2>2, <1>1, BecomesIs
  <2> QED
    BY <2>3 DEF Became
<1>6. stream'[Peer(r)] = stream[Peer(r)]
  BY <1>1, <1>2, <1>5, EmptyConcat, PeerIs
<1>7. \A q \in Roles :
         /\ ends'[q].step = ends[q].step /\ ends'[q].written = ends[q].written
         /\ ends'[q].decrypted = ends[q].decrypted /\ ends'[q].sendBuffer = ends[q].sendBuffer
         /\ stream'[q] = stream[q]
  <2>0. AtRest(w) = w
    BY <1>2 DEF Wrapper, AtRest
  <2>1. ends'[r] = w
    BY <2>0, <1>5
  <2> QED
    BY <2>1, <1>2, <1>5, <1>6, PeerIs
<1>8. \A q \in Roles : Written(q)' = Written(q)
  BY <1>7 DEF Written
<1>9. \A q \in Roles : Cached(q)'
  BY <1>7, <1>8 DEF Cached, TlsInv
<1>10. ends'["client"].enabled = ends["client"].enabled \/ ends["client"].step # "start"
  BY <1>5, PeerIs DEF Roles
<1>11. Phases'
  <2>1. \A q \in Roles : Flows(q) => Flows(q)'
    BY <1>7, <1>8, PeerIs DEF Flows
  <2>2. \A q \in Roles : /\ ends'[q].step = ends[q].step /\ stream'[q] = stream[q]
                         /\ ends'[q].decrypted = ends[q].decrypted
    BY <1>7
  <2>3. "client" \in Roles /\ "server" \in Roles
    BY DEF Roles
  <2>4. Written("client")' = Written("client")
    BY <1>8, <2>3
  <2> QED
    BY <1>10, <2>1, <2>2, <2>3, <2>4 DEF Phases, TlsInv
<1> QED
  BY <1>5, <1>9, <1>11 DEF TlsInv

LEMMA EnableKeeps ==
  ASSUME TlsInv, NEW r \in Roles, EnableTls(r)
  PROVE  TlsInv'
<1> DEFINE w == [ends[r] EXCEPT !.enabled = TRUE]
<1>1. ends[r] \in Resting /\ stream \in [Roles -> Seq(Records)]
  BY DEF TlsInv, TlsTypes
<1>2. /\ w \in Resting /\ w.role = r /\ w.step = ends[r].step
      /\ Knows(w)
      /\ w = [ends[r] EXCEPT !.enabled = TRUE, !.ret = ends[r].ret]
      /\ [w EXCEPT !.ret = "want_read"] = [ends[r] EXCEPT !.enabled = TRUE, !.ret = "want_read"]
      /\ ends[r].ret \in {"ok", "want_read"}
  BY <1>1 DEF Resting, Wrapper, TlsInv, TlsTypes, Knows
<1>3. Becomes(r, StartHandshake(w), stream)
  BY DEF EnableTls
<1>4. CASE r = "server" \/ w.step = "done"
  <2>1. StartHandshake(w) = w
    BY <1>2, <1>4 DEF StartHandshake, SSLInitFinished
  <2>2. r = "client" => ends[r].step # "start"
    BY <1>2, <1>4
  <2> HIDE DEF w
  <2>3. Becomes(r, w, stream)
    BY <1>3, <2>1
  <2> QED
    BY <1>2, <2>2, <2>3, QuietStep
<1>5. CASE r = "client" /\ w.step = "waits"
  <2>1. StartHandshake(w) = [w EXCEPT !.ret = "want_read"]
    <3> HIDE DEF w
    <3>1. DoHandshake(w) = [w EXCEPT !.ret = "want_read"]
      BY <1>2, <1>5, HandshakeWaits DEF Knows
    <3> QED
      BY <3>1, <1>2, <1>5 DEF StartHandshake, SSLInitFinished
  <2>2. ends[r].step # "start"
    BY <1>2, <1>5
  <2> HIDE DEF w
  <2> DEFINE n == [w EXCEPT !.ret = "want_read"]
  <2>3. Becomes(r, n, stream) /\ n = [ends[r] EXCEPT !.enabled = TRUE, !.ret = "want_read"]
    BY <1>2, <1>3, <2>1
  <2>4. n \in Resting
    BY <1>2 DEF Resting, Wrapper
  <2> HIDE DEF n
  <2> QED
    BY <2>2, <2>3, <2>4, QuietStep
<1>6. CASE r = "client" /\ w.step = "start"
  <2> DEFINE n == [w EXCEPT !.ret = "want_read", !.step = "waits", !.sent = <<"hello">>]
  <2>1. StartHandshake(w) = n
    <3> HIDE DEF w
    <3>1. DoHandshake(w) = n
      BY <1>2, <1>6, ClientBegins DEF Knows
    <3> QED
      BY <3>1, <1>2, <1>6 DEF StartHandshake, SSLInitFinished
  <2>2. <<"hello">> \in Seq(Records)
    BY DEF Records
  <2>3. /\ n \in Wrapper /\ n.rbio = <<>> /\ n.wbio = <<>> /\ n.sent = <<"hello">>
        /\ n.role = r /\ n.written = ends[r].written /\ n.step = "waits"
        /\ ~n.handshakeFinished
        /\ n.decrypted = ends[r].decrypted /\ n.sendBuffer = ends[r].sendBuffer
    BY <1>1, <1>2, <1>6, <2>2 DEF Resting, Wrapper, Steps, Knows
  <2> HIDE DEF n, w
  <2>4. n.written <= Len(Plaintexts[r])
    BY <2>3 DEF TlsInv, TlsTypes
  <2>5. /\ TlsTypes' /\ ends'[r] = AtRest(n) /\ ends'[Peer(r)] = ends[Peer(r)]
        /\ stream'[r] = stream[r] /\ stream'[Peer(r)] = stream[Peer(r)] \o n.sent
    <3>1. TlsTypes
      BY DEF TlsInv
    <3>2. Becomes(r, n, stream)
      BY <1>3, <2>1
    <3>3. Fits(r, n)
      BY <2>3, <2>4 DEF Fits, Knows
    <3>4. TlsTypes' /\ Became(r, n, stream)
      BY <3>1, <3>2, <3>3, <1>1, BecomesIs
    <3> QED
      BY <3>4 DEF Became
  <2>6. /\ ends'["client"].step = "waits" /\ ends'["client"].written = ends["client"].written
        /\ ends'["client"].decrypted = ends["client"].decrypted
        /\ ends'["client"].sendBuffer = ends["client"].sendBuffer
        /\ ends'["server"] = ends["server"]
    BY <2>3, <2>5, <1>6, PeerIs DEF Wrapper, AtRest
  <2>7. /\ ends["client"].step = "start" /\ ends["server"].step = "start"
        /\ stream["client"] = <<>> /\ stream["server"] = <<>>
    BY <1>2, <1>6 DEF TlsInv, Phases
  <2>8. stream'["client"] = <<>> /\ stream'["server"] = <<"hello">>
    BY <1>6, <2>3, <2>5, <2>7, PeerIs, EmptyConcat
  <2>9. Phases'
    BY <2>6, <2>7, <2>8 DEF Phases
  <2>10. Cached("client") /\ Cached("server")
    BY DEF TlsInv, Roles
  <2>11. Cached("client")' /\ Cached("server")'
    BY <2>6, <2>7, <2>10 DEF Cached, Written
  <2> QED
    BY <2>5, <2>9, <2>11 DEF TlsInv, Roles
<1>7. w.step \in Steps
  BY <1>2 DEF Resting, Wrapper
<1> QED
  BY <1>4, <1>5, <1>6, <1>7 DEF Roles, Steps

\* what r's user writes next
NextText(r) == Plaintexts[r][ends[r].written + 1]

\* What both forms of a write do to the state.
LEMMA WriteEffect ==
  ASSUME TlsInv, NEW r \in Roles, WriteTls(r), NEW n, Fits(r, n), Becomes(r, n, stream),
         n.written = ends[r].written + 1, n.step = ends[r].step, n.decrypted = ends[r].decrypted
  PROVE  /\ TlsTypes' /\ ends'[Peer(r)] = ends[Peer(r)]
         /\ ends'[r].step = ends[r].step /\ ends'[r].decrypted = ends[r].decrypted
         /\ ends'[r].sendBuffer = n.sendBuffer
         /\ stream'[r] = stream[r] /\ stream'[Peer(r)] = stream[Peer(r)] \o n.sent
         /\ Written(r)' = Written(r) \o <<NextText(r)>> /\ Written(Peer(r))' = Written(Peer(r))
<1> DEFINE text == NextText(r)
           q == Peer(r)
<1>1. TlsTypes /\ stream \in [Roles -> Seq(Records)]
  BY DEF TlsInv, TlsTypes
<1>2. /\ TlsTypes' /\ ends'[r] = AtRest(n) /\ ends'[Peer(r)] = ends[Peer(r)]
      /\ stream'[r] = stream[r] /\ stream'[Peer(r)] = stream[Peer(r)] \o n.sent
  <2>1. TlsTypes' /\ Became(r, n, stream)
    BY <1>1, BecomesIs
  <2> QED
    BY <2>1 DEF Became
<1>3. /\ AtRest(n).written = n.written /\ AtRest(n).step = n.step
      /\ AtRest(n).decrypted = n.decrypted /\ AtRest(n).sendBuffer = n.sendBuffer
  BY DEF AtRest, Fits, Wrapper
<1>4. ends[r].written < Len(Plaintexts[r])
  BY DEF WriteTls
<1>5. text \in Texts /\ SubSeq(Plaintexts[r], 1, ends[r].written + 1) = Written(r) \o <<text>>
  BY <1>1, <1>4, WrittenIs DEF NextText
<1>6. Written(r)' = SubSeq(Plaintexts[r], 1, ends[r].written + 1)
  BY <1>2, <1>3 DEF Written
<1>7. Written(q)' = Written(q)
  BY <1>2 DEF Written
<1> QED
  BY <1>2, <1>3, <1>5, <1>6, <1>7

LEMMA OneText ==
  ASSUME NEW text \in Texts
  PROVE  /\ <<text>> \in Seq(Texts) /\ << <<text>> >> \in Seq(Records)
         /\ Sealed(<<text>>) = << <<text>> >>
<1>1. <<text>> \in Seq(Texts) /\ DOMAIN <<text>> = 1..1 /\ <<text>>[1] = text
  OBVIOUS
<1>2. Sealed(<<text>>) = << <<text>> >>
  <2>1. Sealed(<<text>>) = [i \in 1..1 |-> <<text>>]
    BY <1>1 DEF Sealed
  <2> QED
    BY <2>1
<1>3. Sealed(<<text>>) \in Seq(Records)
  BY <1>1, SealedIs
<1> QED
  BY <1>1, <1>2, <1>3

LEMMA SealedOne ==
  ASSUME NEW s \in Seq(Texts), NEW text \in Texts
  PROVE  Sealed(s \o <<text>>) = Sealed(s) \o << <<text>> >>
<1>1. <<text>> \in Seq(Texts) /\ Sealed(<<text>>) = << <<text>> >>
  BY OneText
<1>2. Sealed(s \o <<text>>) = Sealed(s) \o Sealed(<<text>>)
  BY <1>1, SealedConcat
<1> QED
  BY <1>1, <1>2

LEMMA WriteKeeps ==
  ASSUME TlsInv, NEW r \in Roles, WriteTls(r)
  PROVE  TlsInv'
<1> DEFINE text == NextText(r)
           w == [ends[r] EXCEPT !.written = @ + 1]
           q == Peer(r)
<1>1. TlsTypes /\ ends[r] \in Resting /\ q \in Roles /\ q # r /\ \A p \in Roles : p = r \/ p = q
  BY PeerIs DEF TlsInv, TlsTypes
<1>2. Becomes(r, SendUnencrypted(w, text), stream) /\ ends[r].written < Len(Plaintexts[r])
      /\ ends[r].enabled
  BY DEF WriteTls, NextText
<1>3. /\ w \in Resting /\ w.role = r /\ w.step = ends[r].step /\ Knows(w) /\ w.written = ends[r].written + 1
      /\ w.decrypted = ends[r].decrypted /\ w.sendBuffer = ends[r].sendBuffer
      /\ w.written <= Len(Plaintexts[r])
  <2>1. ends[r].role = r /\ Knows(ends[r]) /\ ends[r].written \in Nat
    BY <1>1 DEF TlsTypes, Resting, Wrapper
  <2>2. Len(Plaintexts[r]) \in Nat
    BY TlsAssumption, LenProperties
  <2>3. ends[r].written + 1 \in Nat /\ ends[r].written + 1 <= Len(Plaintexts[r])
    BY <1>2, <2>1, <2>2
  <2>4. /\ w.role = r /\ w.step = ends[r].step /\ w.written = ends[r].written + 1
        /\ w.decrypted = ends[r].decrypted /\ w.sendBuffer = ends[r].sendBuffer
        /\ Knows(w)
    BY <1>1, <2>1 DEF Resting, Wrapper, Knows
  <2>5. w \in Resting
    BY <1>1, <2>3 DEF Resting, Wrapper
  <2> HIDE DEF w
  <2> QED
    BY <2>3, <2>4, <2>5
<1>4. text \in Texts
  BY <1>1, <1>2, WrittenIs DEF NextText
<1>5. Cached(r) /\ Cached(q) /\ Phases
  BY <1>1 DEF TlsInv
<1>6. Written(r) \in Seq(Texts)
  BY <1>1, WrittenIs
<1> HIDE DEF text
<1>7. CASE ends[r].step = "done"
  <2> DEFINE n == [w EXCEPT !.sent = << <<text>> >>]
  <2>1. SendUnencrypted(w, text) = n
    <3> HIDE DEF w
    <3> QED
      BY <1>3, <1>7, DoneWrites DEF Knows
  <2>2. << <<text>> >> \in Seq(Records)
    BY <1>4, OneText
  <2>3. /\ Fits(r, n) /\ n.written = ends[r].written + 1 /\ n.step = ends[r].step
        /\ n.decrypted = ends[r].decrypted /\ n.sent = << <<text>> >>
        /\ n.sendBuffer = ends[r].sendBuffer
    <3> HIDE DEF w
    <3> QED
      BY <1>3, <2>2 DEF Resting, Wrapper, Fits, Knows
  <2> HIDE DEF n, w
  <2>4. Becomes(r, n, stream)
    BY <1>2, <2>1
  <2>5. /\ TlsTypes' /\ ends'[q] = ends[q]
        /\ ends'[r].step = ends[r].step /\ ends'[r].decrypted = ends[r].decrypted
        /\ ends'[r].sendBuffer = n.sendBuffer
        /\ stream'[r] = stream[r] /\ stream'[q] = stream[q] \o n.sent
        /\ Written(r)' = Written(r) \o <<text>> /\ Written(q)' = Written(q)
    BY <2>3, <2>4, WriteEffect DEF text
  <2>6. Cached(r)' /\ Cached(q)'
    BY <1>5, <1>7, <2>3, <2>5 DEF Cached
  <2>7. CASE r = "client" /\ ends[q].step = "waits"
    <3>1. /\ q = "server" /\ stream[r] = <<>>
          /\ stream[q] = <<"finished">> \o Sealed(Written(r)) /\ ends[r].decrypted = <<>>
      BY <1>5, <1>7, <2>7, PeerIs DEF Phases
    <3>2. /\ Sealed(Written(r)) \in Seq(Records) /\ <<"finished">> \in Seq(Records)
          /\ << <<text>> >> \in Seq(Records)
      BY <1>6, <2>2, SealedIs DEF Records
    <3>3. (<<"finished">> \o Sealed(Written(r))) \o << <<text>> >>
             = <<"finished">> \o (Sealed(Written(r)) \o << <<text>> >>)
      BY <3>2, ConcatAssociative
    <3>4. stream'[q] = <<"finished">> \o Sealed(Written(r) \o <<text>>)
      BY <1>4, <1>6, <2>3, <2>5, <3>1, <3>3, SealedOne
    <3>5. Phases'
      BY <1>7, <2>5, <2>7, <3>1, <3>4 DEF Phases
    <3> QED
      BY <1>1, <2>5, <2>6, <3>5 DEF TlsInv
  <2>8. CASE ends[q].step = "done"
    <3>1. Flows(r) /\ Flows(q)
      BY <1>1, <1>5, <1>7, <2>8, PeerIs DEF Phases, Roles
    <3>2. Flows(r)'
      BY <3>1, <2>5 DEF Flows
    <3>3. PICK coming \in Seq(Texts) :
             stream[q] = Sealed(coming) /\ ends[q].decrypted \o coming = Written(r)
      BY <3>1, PeerIs DEF Flows
    <3>4. /\ coming \o <<text>> \in Seq(Texts) /\ <<text>> \in Seq(Texts)
          /\ stream'[q] = Sealed(coming \o <<text>>)
      BY <1>4, <2>3, <2>5, <3>3, OneText, SealedOne, ConcatProperties
    <3>5. ends[q].decrypted \in Seq(Texts)
      BY <1>1 DEF TlsTypes, Resting, Wrapper
    <3>6. ends'[q].decrypted \o (coming \o <<text>>) = Written(r)'
      <4>1. (ends[q].decrypted \o coming) \o <<text>> = ends[q].decrypted \o (coming \o <<text>>)
        <5> DEFINE one == <<text>>
                   had == ends[q].decrypted
        <5>1. had \in Seq(Texts) /\ coming \in Seq(Texts) /\ one \in Seq(Texts)
          BY <3>4, <3>5
        <5> HIDE DEF one, had
        <5>2. (had \o coming) \o one = had \o (coming \o one)
          BY <5>1, TextsAssociate, Zenon
        <5> QED
          BY <5>2 DEF one, had
      <4> QED
        BY <4>1, <2>5, <3>3
    <3>7. Peer(q) = r
      BY PeerIs
    <3>8. Flows(q)'
      BY <3>4, <3>6, <3>7 DEF Flows
    <3>9. Phases'
      BY <1>1, <1>7, <2>5, <2>8, <3>2, <3>8, PeerIs DEF Phases, Roles
    <3> QED
      BY <1>1, <2>5, <2>6, <3>9 DEF TlsInv
  <2> QED
    BY <1>5, <1>7, <2>7, <2>8, PeerIs DEF Phases, Roles
<1>8. CASE ends[r].step # "done"
  <2> DEFINE kept == [w EXCEPT !.sendBuffer = Append(@, text)]
             n == [kept EXCEPT !.ret = "want_read"]
  <2>1. r = "client" => ends[r].step = "waits"
    BY <1>2, <1>5, <1>8 DEF Phases
  <2>2. Append(w.sendBuffer, text) \in Seq(Texts) /\ Append(w.sendBuffer, text) = w.sendBuffer \o <<text>>
    <3>1. w.sendBuffer \in Seq(Texts)
      BY <1>3 DEF Resting, Wrapper
    <3> QED
      BY <3>1, <1>4, AppendProperties, AppendIsConcat, SMTT(20)
  <2>3. kept \in Resting /\ kept.role = r /\ kept.step = ends[r].step /\ ~kept.handshakeFinished
    <3> HIDE DEF w
    <3> QED
      BY <1>3, <1>8, <2>2 DEF Resting, Wrapper, Knows
  <2>4. SendUnencrypted(w, text) = n
    <3>1. ~w.handshakeFinished
      BY <1>3, <1>8 DEF Knows
    <3> HIDE DEF w
    <3>2. SendUnencrypted(w, text) = DoHandshake(kept)
      BY <3>1 DEF SendUnencrypted
    <3> HIDE DEF kept
    <3> QED
      BY <1>8, <2>1, <2>3, <3>2, HandshakeWaits
  <2>5. /\ Fits(r, n) /\ n.written = ends[r].written + 1 /\ n.step = ends[r].step
        /\ n.decrypted = ends[r].decrypted /\ n.sent = <<>>
        /\ n.sendBuffer = ends[r].sendBuffer \o <<text>>
    <3> HIDE DEF w
    <3> QED
      BY <1>3, <2>2 DEF Resting, Wrapper, Fits, Knows
  <2> HIDE DEF n, w, kept
  <2>6. Becomes(r, n, stream)
    BY <1>2, <2>4
  <2>7. /\ TlsTypes' /\ ends'[q] = ends[q]
        /\ ends'[r].step = ends[r].step /\ ends'[r].decrypted = ends[r].decrypted
        /\ ends'[r].sendBuffer = n.sendBuffer
        /\ stream'[r] = stream[r] /\ stream'[q] = stream[q] \o n.sent
        /\ Written(r)' = Written(r) \o <<text>> /\ Written(q)' = Written(q)
    BY <2>5, <2>6, WriteEffect DEF text
  <2>8. stream'[q] = stream[q]
    BY <1>1, <2>5, <2>7, EmptyConcat DEF TlsTypes
  <2>9. Cached(r)' /\ Cached(q)'
    BY <1>5, <1>8, <2>5, <2>7 DEF Cached
  <2>10. Phases'
    BY <1>1, <1>2, <1>5, <1>8, <2>1, <2>7, <2>8, PeerIs, SMTT(20) DEF Phases, Roles
  <2> QED
    BY <1>1, <2>7, <2>9, <2>10 DEF TlsInv
<1> QED
  BY <1>7, <1>8

\* What a read does to the state, when m is the wrapper that has read and left what is
\* not yet read.
LEMMA ReadEffect ==
  ASSUME TlsInv, NEW r \in Roles, NEW m, Fits(r, m), m.written = ends[r].written,
         NEW left, left \in Seq(Records), Becomes(r, m, [stream EXCEPT ![r] = left])
  PROVE  /\ TlsTypes' /\ ends'[Peer(r)] = ends[Peer(r)]
         /\ ends'[r].step = m.step /\ ends'[r].decrypted = m.decrypted
         /\ ends'[r].sendBuffer = m.sendBuffer
         /\ stream'[r] = left /\ stream'[Peer(r)] = stream[Peer(r)] \o m.sent
         /\ Written(r)' = Written(r) /\ Written(Peer(r))' = Written(Peer(r))
<1> DEFINE rest == [stream EXCEPT ![r] = left]
<1>1. TlsTypes /\ stream \in [Roles -> Seq(Records)]
  BY DEF TlsInv, TlsTypes
<1>2. rest \in [Roles -> Seq(Records)] /\ rest[r] = left /\ rest[Peer(r)] = stream[Peer(r)]
  BY <1>1, PeerIs
<1> HIDE DEF rest
<1>3. Becomes(r, m, rest)
  BY DEF rest
<1>4. /\ TlsTypes' /\ ends'[r] = AtRest(m) /\ ends'[Peer(r)] = ends[Peer(r)]
      /\ stream'[r] = rest[r] /\ stream'[Peer(r)] = rest[Peer(r)] \o m.sent
  <2>1. TlsTypes' /\ Became(r, m, rest)
    BY <1>1, <1>2, <1>3, BecomesIs
  <2> QED
    BY <2>1 DEF Became
<1>5. /\ AtRest(m).written = m.written /\ AtRest(m).step = m.step
      /\ AtRest(m).decrypted = m.decrypted /\ AtRest(m).sendBuffer = m.sendBuffer
  BY DEF AtRest, Fits, Wrapper
<1>6. Written(r)' = Written(r) /\ Written(Peer(r))' = Written(Peer(r))
  BY <1>4, <1>5 DEF Written
<1> QED
  BY <1>2, <1>4, <1>5, <1>6

\* the last flight of the handshake, and the records behind it
LEMMA FirstOne ==
  ASSUME NEW s \in Seq(Records), "finished" \in Records, NEW n \in Nat \ {0},
         NEW all, all = <<"finished">> \o s, n <= Len(all)
  PROVE  /\ Len(all) = Len(s) + 1 /\ n - 1 \in Nat /\ n - 1 <= Len(s)
         /\ SubSeq(all, 1, n) = <<"finished">> \o SubSeq(s, 1, n - 1)
         /\ SubSeq(all, n + 1, Len(all)) = SubSeq(s, (n - 1) + 1, Len(s))
<1> DEFINE first == SubSeq(all, 1, n)
           begin == SubSeq(s, 1, n - 1)
           begun == <<"finished">> \o begin
           left == SubSeq(all, n + 1, Len(all))
           tail == SubSeq(s, (n - 1) + 1, Len(s))
<1>1. Len(s) \in Nat /\ \A i \in 1..Len(s) : s[i] \in Records
  BY LenProperties
<1>2. <<"finished">> \in Seq(Records) /\ Len(<<"finished">>) = 1 /\ <<"finished">>[1] = "finished"
  OBVIOUS
<1>3. /\ all \in Seq(Records) /\ Len(all) = 1 + Len(s) /\ all[1] = "finished"
      /\ \A i \in 1..Len(s) : all[i + 1] = s[i]
  <2>1. /\ all \in Seq(Records) /\ Len(all) = 1 + Len(s)
        /\ \A i \in 1..(1 + Len(s)) : all[i] = IF i <= 1 THEN <<"finished">>[i] ELSE s[i - 1]
    BY <1>2, ConcatProperties
  <2> QED
    BY <2>1, <1>1, <1>2
<1>4. n - 1 \in Nat /\ n - 1 <= Len(s) /\ \A i \in 1..(1 + Len(s)) : all[i] \in Records
  BY <1>1, <1>3
<1>5. first \in Seq(Records) /\ Len(first) = n /\ \A i \in 1..n : first[i] = all[i]
  BY <1>1, <1>3, <1>4, SubSeqProperties
<1>6. begin \in Seq(Records) /\ Len(begin) = n - 1 /\ \A i \in 1..(n - 1) : begin[i] = s[i]
  BY <1>1, <1>4, SubSeqProperties
<1> HIDE DEF begin, first
<1>7. /\ begun \in Seq(Records) /\ Len(begun) = n
      /\ \A i \in 1..n : begun[i] = IF i <= 1 THEN "finished" ELSE begin[i - 1]
  <2>1. /\ begun \in Seq(Records) /\ Len(begun) = Len(<<"finished">>) + Len(begin)
        /\ \A i \in 1..(Len(<<"finished">>) + Len(begin)) :
              begun[i] = IF i <= Len(<<"finished">>) THEN <<"finished">>[i]
                         ELSE begin[i - Len(<<"finished">>)]
    BY <1>2, <1>6, ConcatProperties
  <2>2. Len(<<"finished">>) + Len(begin) = n
    BY <1>2, <1>4, <1>6
  <2> HIDE DEF begun
  <2> QED
    BY <2>1, <2>2, <1>2
<1>8. first = begun
  <2> HIDE DEF begun
  <2>1. ASSUME NEW i \in 1..n PROVE first[i] = begun[i]
    <3>1. CASE i = 1
      BY <3>1, <1>3, <1>5, <1>7
    <3>2. CASE i > 1
      <4>1. i - 1 \in 1..(n - 1) /\ i - 1 \in 1..Len(s) /\ (i - 1) + 1 = i
        BY <3>2, <1>1, <1>4
      <4>2. all[i] = s[i - 1]
        BY <4>1, <1>3
      <4>3. begun[i] = begin[i - 1] /\ first[i] = all[i] /\ begin[i - 1] = s[i - 1]
        BY <3>2, <4>1, <1>5, <1>6, <1>7
      <4> QED
        BY <4>2, <4>3
    <3> QED
      BY <3>1, <3>2
  <2> QED
    BY <2>1, <1>5, <1>7, SeqEqual
<1>9. /\ left \in Seq(Records) /\ Len(left) = Len(s) + 1 - n
      /\ \A i \in 1..(Len(s) + 1 - n) : left[i] = all[n + i]
  BY <1>1, <1>3, <1>4, SubSeqProperties
<1>10. /\ tail \in Seq(Records) /\ Len(tail) = Len(s) + 1 - n
       /\ \A i \in 1..(Len(s) + 1 - n) : tail[i] = s[(n - 1) + i]
  BY <1>1, <1>4, SubSeqProperties
<1>11. left = tail
  <2> HIDE DEF left, tail
  <2>1. ASSUME NEW i \in 1..(Len(s) + 1 - n) PROVE left[i] = tail[i]
    <3>1. (n - 1) + i \in 1..Len(s) /\ ((n - 1) + i) + 1 = n + i
      BY <1>1, <1>4
    <3>2. all[n + i] = s[(n - 1) + i]
      BY <3>1, <1>3
    <3> QED
      BY <3>2, <1>9, <1>10
  <2> QED
    BY <2>1, <1>9, <1>10, SeqEqual
<1> QED
  BY <1>3, <1>4, <1>8, <1>11, <1>1 DEF first, begin, begun, left, tail

\* what a read hands to the wrapper, and what it leaves
Got(r, n) == SubSeq(stream[r], 1, n)
Left(r, n) == SubSeq(stream[r], n + 1, Len(stream[r]))

\* While one flight is on its way, a read gets it.
LEMMA OneFlight ==
  ASSUME NEW x, NEW n \in Nat \ {0}, n <= Len(<<x>>)
  PROVE  SubSeq(<<x>>, 1, n) = <<x>> /\ SubSeq(<<x>>, n + 1, Len(<<x>>)) = <<>>
<1>1. n = 1 /\ Len(<<x>>) = 1
  OBVIOUS
<1>2. SubSeq(<<x>>, 1, 1) = <<x>> /\ SubSeq(<<x>>, 2, 1) = <<>>
  <2>1. <<x>> \in Seq({x})
    OBVIOUS
  <2>2. SubSeq(<<x>>, 1, Len(<<x>>)) = <<x>>
    BY <2>1, SubSeqFull
  <2> QED
    BY <1>1, <2>2, SubSeqEmpty
<1> QED
  BY <1>1, <1>2

LEMMA ReadHello ==
  ASSUME TlsInv, NEW r \in Roles, NEW n \in Nat \ {0}, n <= Len(stream[r]),
         Becomes(r, OnRecvEncrypted(ends[r], Got(r, n)), [stream EXCEPT ![r] = Left(r, n)]),
         ends["client"].step = "waits", ends["server"].step = "start"
  PROVE  TlsInv'
<1>1. /\ TlsTypes /\ ends[r] \in Resting /\ ends[r].role = r /\ Knows(ends[r])
      /\ ends[r].written <= Len(Plaintexts[r])
      /\ Cached("client") /\ Cached("server")
  BY DEF TlsInv, TlsTypes, Roles
<1>2. stream["client"] = <<>> /\ stream["server"] = <<"hello">>
  BY DEF TlsInv, Phases
<1>3. r = "server" /\ Peer(r) = "client"
  BY <1>2, PeerIs DEF Roles
<1>4. Got(r, n) = <<"hello">> /\ Left(r, n) = <<>>
  BY <1>2, <1>3, OneFlight DEF Got, Left
<1> DEFINE w == ends[r]
           m == [w EXCEPT !.ret = "want_read", !.step = "waits", !.sent = <<"server">>]
<1>5. OnRecvEncrypted(w, <<"hello">>) = m
  <2> HIDE DEF w
  <2> QED
    BY <1>1, <1>3, ServerAnswers DEF Knows, w
<1>6. <<"server">> \in Seq(Records) /\ <<>> \in Seq(Records)
  BY DEF Records
<1>7. /\ Fits(r, m) /\ m.written = ends[r].written /\ m.step = "waits"
      /\ m.decrypted = ends[r].decrypted /\ m.sendBuffer = ends[r].sendBuffer
      /\ m.sent = <<"server">>
  BY <1>1, <1>3, <1>6 DEF Fits, Knows, Resting, Wrapper, Steps
<1>8. Becomes(r, m, [stream EXCEPT ![r] = <<>>])
  BY <1>4, <1>5
<1> HIDE DEF m, w
<1>9. /\ TlsTypes' /\ ends'["client"] = ends["client"]
      /\ ends'["server"].step = "waits" /\ ends'["server"].decrypted = ends["server"].decrypted
      /\ ends'["server"].sendBuffer = ends["server"].sendBuffer
      /\ stream'["server"] = <<>> /\ stream'["client"] = <<>> \o <<"server">>
      /\ Written("server")' = Written("server") /\ Written("client")' = Written("client")
  <2>1. /\ TlsTypes' /\ ends'[Peer(r)] = ends[Peer(r)]
        /\ ends'[r].step = m.step /\ ends'[r].decrypted = m.decrypted
        /\ ends'[r].sendBuffer = m.sendBuffer
        /\ stream'[r] = <<>> /\ stream'[Peer(r)] = stream[Peer(r)] \o m.sent
        /\ Written(r)' = Written(r) /\ Written(Peer(r))' = Written(Peer(r))
    BY <1>6, <1>7, <1>8, ReadEffect
  <2> QED
    BY <2>1, <1>2, <1>3, <1>7
<1>10. Cached("client")' /\ Cached("server")'
  BY <1>1, <1>9 DEF Cached
<1>11. Phases'
  BY <1>9, EmptyConcat DEF Phases
<1> QED
  BY <1>9, <1>10, <1>11 DEF TlsInv, Roles

LEMMA ReadServer ==
  ASSUME TlsInv, NEW r \in Roles, NEW n \in Nat \ {0}, n <= Len(stream[r]),
         Becomes(r, OnRecvEncrypted(ends[r], Got(r, n)), [stream EXCEPT ![r] = Left(r, n)]),
         ends["client"].step = "waits", ends["server"].step = "waits"
  PROVE  TlsInv'
<1>1. /\ TlsTypes /\ ends[r] \in Resting /\ ends[r].role = r /\ Knows(ends[r])
      /\ ends[r].written <= Len(Plaintexts[r])
      /\ Cached("client") /\ Cached("server")
  BY DEF TlsInv, TlsTypes, Roles
<1>2. stream["server"] = <<>> /\ stream["client"] = <<"server">>
  BY DEF TlsInv, Phases
<1>3. r = "client" /\ Peer(r) = "server"
  BY <1>2, PeerIs DEF Roles
<1>4. Got(r, n) = <<"server">> /\ Left(r, n) = <<>>
  BY <1>2, <1>3, OneFlight DEF Got, Left
<1> DEFINE w == ends[r]
           m == [w EXCEPT !.ret = "want_read", !.step = "done", !.handshakeFinished = TRUE,
                      !.sendBuffer = <<>>, !.sent = <<"finished">> \o Sealed(w.sendBuffer)]
<1>5. OnRecvEncrypted(w, <<"server">>) = m
  <2> HIDE DEF w
  <2> QED
    BY <1>1, <1>3, ClientFinishes DEF Knows, w
<1>6. /\ <<"finished">> \in Seq(Records) /\ <<>> \in Seq(Records) /\ <<>> \in Seq(Texts)
      /\ w.sendBuffer \in Seq(Texts)
  BY <1>1 DEF Records, Resting, Wrapper
<1>7. <<"finished">> \o Sealed(w.sendBuffer) \in Seq(Records)
  BY <1>6, SealedIs, ConcatProperties
<1>8. w.sendBuffer = Written(r)
  BY <1>1, <1>3 DEF Cached
<1>9. /\ Fits(r, m) /\ m.written = ends[r].written /\ m.step = "done"
      /\ m.decrypted = ends[r].decrypted /\ m.sendBuffer = <<>>
      /\ m.sent = <<"finished">> \o Sealed(Written(r))
  <2> DEFINE sent == <<"finished">> \o Sealed(w.sendBuffer)
  <2>1. sent \in Seq(Records) /\ sent = <<"finished">> \o Sealed(Written(r))
    BY <1>7, <1>8
  <2> HIDE DEF sent
  <2>2. /\ m.written = w.written /\ m.step = "done" /\ m.decrypted = w.decrypted
        /\ m.sendBuffer = <<>> /\ m.sent = sent /\ m.handshakeFinished = TRUE
        /\ m.role = r /\ m.rbio = <<>> /\ m.wbio = <<>>
    BY <1>1 DEF Resting, Wrapper, sent
  <2>3. m \in Wrapper
    BY <2>1, <1>1, <1>6 DEF Resting, Wrapper, Steps, sent
  <2> HIDE DEF m
  <2> QED
    BY <2>1, <2>2, <2>3, <1>1 DEF Fits, Knows
<1>10. Becomes(r, m, [stream EXCEPT ![r] = <<>>])
  BY <1>4, <1>5
<1> HIDE DEF m, w
<1>11. /\ TlsTypes' /\ ends'["server"] = ends["server"]
       /\ ends'["client"].step = "done" /\ ends'["client"].sendBuffer = <<>>
       /\ ends'["client"].decrypted = <<>>
       /\ stream'["client"] = <<>>
       /\ stream'["server"] = <<>> \o (<<"finished">> \o Sealed(Written("client")))
       /\ Written("server")' = Written("server") /\ Written("client")' = Written("client")
  <2>1. /\ TlsTypes' /\ ends'[Peer(r)] = ends[Peer(r)]
        /\ ends'[r].step = m.step /\ ends'[r].decrypted = m.decrypted
        /\ ends'[r].sendBuffer = m.sendBuffer
        /\ stream'[r] = <<>> /\ stream'[Peer(r)] = stream[Peer(r)] \o m.sent
        /\ Written(r)' = Written(r) /\ Written(Peer(r))' = Written(Peer(r))
    BY <1>6, <1>9, <1>10, ReadEffect
  <2> QED
    BY <2>1, <1>1, <1>2, <1>3, <1>9 DEF Cached
<1>12. Cached("client")' /\ Cached("server")'
  BY <1>1, <1>11 DEF Cached
<1>13. stream'["server"] = <<"finished">> \o Sealed(Written("client"))
  BY <1>3, <1>7, <1>8, <1>11, EmptyConcat
<1>14. Phases'
  BY <1>11, <1>13 DEF Phases
<1> QED
  BY <1>11, <1>12, <1>14 DEF TlsInv, Roles

LEMMA ReadFinished ==
  ASSUME TlsInv, NEW r \in Roles, NEW n \in Nat \ {0}, n <= Len(stream[r]),
         Becomes(r, OnRecvEncrypted(ends[r], Got(r, n)), [stream EXCEPT ![r] = Left(r, n)]),
         ends["client"].step = "done", ends["server"].step = "waits"
  PROVE  TlsInv'
<1>1. /\ TlsTypes /\ ends[r] \in Resting /\ ends[r].role = r /\ Knows(ends[r])
      /\ ends[r].written <= Len(Plaintexts[r])
      /\ Cached("client") /\ Cached("server")
  BY DEF TlsInv, TlsTypes, Roles
<1> DEFINE s == Written("client")
           a == SubSeq(s, 1, n - 1)
           b == SubSeq(s, (n - 1) + 1, Len(s))
<1>2. stream["client"] = <<>> /\ stream["server"] = <<"finished">> \o Sealed(s)
  BY DEF TlsInv, Phases
<1>3. r = "server" /\ Peer(r) = "client"
  BY <1>2, PeerIs DEF Roles
<1>4. /\ s \in Seq(Texts) /\ Written("server") \in Seq(Texts)
      /\ Sealed(s) \in Seq(Records) /\ Len(Sealed(s)) = Len(s)
  BY <1>1, WrittenIs, SealedIs DEF Roles
<1> HIDE DEF s
<1>5. /\ n - 1 \in Nat /\ n - 1 <= Len(s)
      /\ Got(r, n) = <<"finished">> \o SubSeq(Sealed(s), 1, n - 1)
      /\ Left(r, n) = SubSeq(Sealed(s), (n - 1) + 1, Len(Sealed(s)))
  <2> DEFINE sealed == Sealed(s)
             all == stream[r]
  <2>1. "finished" \in Records /\ sealed \in Seq(Records) /\ all = <<"finished">> \o sealed
        /\ n <= Len(all)
    BY <1>2, <1>3, <1>4 DEF Records
  <2> HIDE DEF sealed, all
  <2>2. /\ Len(all) = Len(sealed) + 1 /\ n - 1 \in Nat /\ n - 1 <= Len(sealed)
        /\ SubSeq(all, 1, n) = <<"finished">> \o SubSeq(sealed, 1, n - 1)
        /\ SubSeq(all, n + 1, Len(all)) = SubSeq(sealed, (n - 1) + 1, Len(sealed))
    BY <2>1, FirstOne
  <2> QED
    BY <2>2, <1>4 DEF sealed, all, Got, Left
<1>6. /\ a \in Seq(Texts) /\ b \in Seq(Texts) /\ s = a \o b
      /\ Got(r, n) = <<"finished">> \o Sealed(a) /\ Left(r, n) = Sealed(b)
  <2>1. /\ a \in Seq(Texts) /\ b \in Seq(Texts) /\ s = a \o b
        /\ SubSeq(Sealed(s), 1, n - 1) = Sealed(a)
        /\ SubSeq(Sealed(s), (n - 1) + 1, Len(s)) = Sealed(b)
    BY <1>4, <1>5, SealedCut
  <2> QED
    BY <2>1, <1>4, <1>5
<1> HIDE DEF a, b
<1> DEFINE w == ends[r]
           m == [w EXCEPT !.ret = "want_read", !.step = "done", !.handshakeFinished = TRUE,
                      !.sendBuffer = <<>>, !.sent = Sealed(w.sendBuffer), !.decrypted = @ \o a]
<1>7. OnRecvEncrypted(w, <<"finished">> \o Sealed(a)) = m
  <2> HIDE DEF w
  <2> QED
    BY <1>1, <1>3, <1>6, ServerFinishes DEF Knows, w
<1>8. w.sendBuffer = Written(r) /\ w.decrypted = <<>> /\ w.decrypted \o a = a
  BY <1>1, <1>3, <1>6, EmptyConcat DEF Cached
<1>9. Sealed(Written(r)) \in Seq(Records) /\ <<>> \in Seq(Texts)
  BY <1>3, <1>4, SealedIs
<1>10. /\ Fits(r, m) /\ m.written = ends[r].written /\ m.step = "done"
       /\ m.decrypted = a /\ m.sendBuffer = <<>> /\ m.sent = Sealed(Written(r))
  <2> DEFINE sent == Sealed(w.sendBuffer)
  <2>1. sent \in Seq(Records) /\ sent = Sealed(Written(r))
    BY <1>8, <1>9
  <2> HIDE DEF sent
  <2> QED
    BY <2>1, <1>1, <1>3, <1>6, <1>8, <1>9 DEF Fits, Knows, Resting, Wrapper, Steps
<1>11. Becomes(r, m, [stream EXCEPT ![r] = Sealed(b)])
  BY <1>6, <1>7
<1>12. Sealed(b) \in Seq(Records)
  BY <1>6, SealedIs
<1> HIDE DEF m, w
<1>13. /\ TlsTypes' /\ ends'["client"] = ends["client"]
       /\ ends'["server"].step = "done" /\ ends'["server"].sendBuffer = <<>>
       /\ ends'["server"].decrypted = a
       /\ stream'["server"] = Sealed(b) /\ stream'["client"] = <<>> \o Sealed(Written("server"))
       /\ Written("server")' = Written("server") /\ Written("client")' = s
  <2>1. /\ TlsTypes' /\ ends'[Peer(r)] = ends[Peer(r)]
        /\ ends'[r].step = m.step /\ ends'[r].decrypted = m.decrypted
        /\ ends'[r].sendBuffer = m.sendBuffer
        /\ stream'[r] = Sealed(b) /\ stream'[Peer(r)] = stream[Peer(r)] \o m.sent
        /\ Written(r)' = Written(r) /\ Written(Peer(r))' = Written(Peer(r))
    BY <1>10, <1>11, <1>12, ReadEffect
  <2> QED
    BY <2>1, <1>2, <1>3, <1>10 DEF s
<1>14. Cached("client")' /\ Cached("server")'
  BY <1>1, <1>13 DEF Cached, s
<1>15. Flows("server")'
  BY <1>6, <1>13, PeerIs DEF Flows
<1>16. Flows("client")'
  <2>1. stream'["client"] = Sealed(Written("server"))
    BY <1>3, <1>9, <1>13, EmptyConcat
  <2>3. ends["client"].decrypted = <<>>
    BY DEF TlsInv, Phases
  <2> QED
    BY <2>1, <2>3, <1>4, <1>13, PeerIs, EmptyConcat, SMTT(20) DEF Flows
<1>17. Phases'
  BY <1>13, <1>15, <1>16 DEF Phases, Roles
<1> QED
  BY <1>13, <1>14, <1>17 DEF TlsInv, Roles

LEMMA ReadRecords ==
  ASSUME TlsInv, NEW r \in Roles, NEW n \in Nat \ {0}, n <= Len(stream[r]),
         Becomes(r, OnRecvEncrypted(ends[r], Got(r, n)), [stream EXCEPT ![r] = Left(r, n)]),
         ends["client"].step = "done", ends["server"].step = "done"
  PROVE  TlsInv'
<1> DEFINE q == Peer(r)
<1>1. /\ TlsTypes /\ ends[r] \in Resting /\ ends[r].role = r /\ Knows(ends[r])
      /\ ends[r].written <= Len(Plaintexts[r])
      /\ Cached(r) /\ Cached(q) /\ ends[r].step = "done" /\ ends[q].step = "done"
      /\ q \in Roles /\ q # r /\ Peer(q) = r
  BY PeerIs DEF TlsInv, TlsTypes, Roles
<1>2. Flows(r) /\ Flows(q)
  BY <1>1 DEF TlsInv, Phases
<1>3. PICK coming \in Seq(Texts) :
         stream[r] = Sealed(coming) /\ ends[r].decrypted \o coming = Written(q)
  BY <1>2 DEF Flows
<1> DEFINE a == SubSeq(coming, 1, n)
           b == SubSeq(coming, n + 1, Len(coming))
<1>4. Len(Sealed(coming)) = Len(coming)
  BY SealedIs
<1>5. /\ a \in Seq(Texts) /\ b \in Seq(Texts) /\ coming = a \o b
      /\ Got(r, n) = Sealed(a) /\ Left(r, n) = Sealed(b)
  <2>1. n \in Nat /\ n <= Len(coming)
    BY <1>3, <1>4
  <2>2. /\ a \in Seq(Texts) /\ b \in Seq(Texts) /\ coming = a \o b
        /\ SubSeq(Sealed(coming), 1, n) = Sealed(a)
        /\ SubSeq(Sealed(coming), n + 1, Len(coming)) = Sealed(b)
    BY <2>1, SealedCut
  <2> QED
    BY <2>2, <1>3, <1>4 DEF Got, Left
<1> HIDE DEF a, b
<1> DEFINE w == ends[r]
           m == [w EXCEPT !.ret = "want_read", !.decrypted = @ \o a]
<1>6. OnRecvEncrypted(w, Sealed(a)) = m
  <2> HIDE DEF w
  <2> QED
    BY <1>1, <1>5, DoneReads DEF Knows, w
<1>7. w.decrypted \in Seq(Texts) /\ w.decrypted \o a \in Seq(Texts)
  BY <1>1, <1>5, ConcatProperties DEF Resting, Wrapper
<1>8. /\ Fits(r, m) /\ m.written = ends[r].written /\ m.step = "done"
      /\ m.decrypted = w.decrypted \o a /\ m.sendBuffer = w.sendBuffer /\ m.sent = <<>>
  <2> DEFINE read == w.decrypted \o a
  <2>1. read \in Seq(Texts)
    BY <1>7
  <2> HIDE DEF read
  <2>2. /\ m.written = w.written /\ m.step = "done" /\ m.decrypted = read
        /\ m.sendBuffer = w.sendBuffer /\ m.sent = <<>> /\ m.handshakeFinished = w.handshakeFinished
        /\ m.role = r /\ m.rbio = <<>> /\ m.wbio = <<>>
    BY <1>1 DEF Resting, Wrapper, read
  <2>3. m \in Wrapper
    BY <2>1, <1>1 DEF Resting, Wrapper, read
  <2> HIDE DEF m
  <2> QED
    BY <2>1, <2>2, <2>3, <1>1 DEF Fits, Knows, read
<1>9. Becomes(r, m, [stream EXCEPT ![r] = Sealed(b)])
  BY <1>5, <1>6
<1>10. Sealed(b) \in Seq(Records)
  BY <1>5, SealedIs
<1> HIDE DEF m
<1>11. /\ TlsTypes' /\ ends'[q] = ends[q]
       /\ ends'[r].step = "done" /\ ends'[r].decrypted = ends[r].decrypted \o a
       /\ ends'[r].sendBuffer = ends[r].sendBuffer
       /\ stream'[r] = Sealed(b) /\ stream'[q] = stream[q] \o <<>>
       /\ Written(r)' = Written(r) /\ Written(q)' = Written(q)
  <2>1. /\ TlsTypes' /\ ends'[Peer(r)] = ends[Peer(r)]
        /\ ends'[r].step = m.step /\ ends'[r].decrypted = m.decrypted
        /\ ends'[r].sendBuffer = m.sendBuffer
        /\ stream'[r] = Sealed(b) /\ stream'[Peer(r)] = stream[Peer(r)] \o m.sent
        /\ Written(r)' = Written(r) /\ Written(Peer(r))' = Written(Peer(r))
    BY <1>8, <1>9, <1>10, ReadEffect
  <2> QED
    BY <2>1, <1>8
<1>12. Cached(r)' /\ Cached(q)'
  BY <1>1, <1>11 DEF Cached
<1>13. Flows(r)'
  <2>1. (ends[r].decrypted \o a) \o b = ends[r].decrypted \o (a \o b)
    <3> DEFINE had == ends[r].decrypted
    <3>1. had \in Seq(Texts) /\ a \in Seq(Texts) /\ b \in Seq(Texts)
      BY <1>1, <1>5 DEF TlsTypes, Resting, Wrapper
    <3> HIDE DEF had
    <3>2. (had \o a) \o b = had \o (a \o b)
      BY <3>1, TextsAssociate, Zenon
    <3> QED
      BY <3>2 DEF had
  <2> HIDE DEF q
  <2>2. ends'[r].decrypted \o b = Written(q)'
    BY <2>1, <1>3, <1>5, <1>11
  <2> QED
    BY <2>2, <1>5, <1>11 DEF Flows, q
<1>14. Flows(q)'
  <2>1. stream'[q] = stream[q]
    BY <1>1, <1>11, EmptyConcat DEF TlsTypes
  <2> QED
    BY <2>1, <1>1, <1>2, <1>11 DEF Flows
<1>15. \A p \in Roles : p = r \/ p = q
  BY PeerIs
<1>16. Phases'
  BY <1>1, <1>11, <1>13, <1>14, <1>15 DEF Phases, Roles
<1> QED
  BY <1>11, <1>12, <1>15, <1>16 DEF TlsInv

LEMMA ReadKeeps ==
  ASSUME TlsInv, NEW r \in Roles, NEW n \in 1..MaxReads, ReadTls(r, n)
  PROVE  TlsInv'
<1>1. /\ n \in Nat \ {0} /\ n <= Len(stream[r])
      /\ Becomes(r, OnRecvEncrypted(ends[r], Got(r, n)), [stream EXCEPT ![r] = Left(r, n)])
  BY TlsAssumption DEF ReadTls, Got, Left
<1>2. ~(ends["client"].step = "start")
  <2>1. Len(<<>>) = 0
    OBVIOUS
  <2> QED
    BY <2>1, <1>1 DEF TlsInv, Phases, Roles
<1>3. CASE ends["client"].step = "waits" /\ ends["server"].step = "start"
  BY <1>1, <1>3, ReadHello
<1>4. CASE ends["client"].step = "waits" /\ ends["server"].step = "waits"
  BY <1>1, <1>4, ReadServer
<1>5. CASE ends["client"].step = "done" /\ ends["server"].step = "waits"
  BY <1>1, <1>5, ReadFinished
<1>6. CASE ends["client"].step = "done" /\ ends["server"].step = "done"
  BY <1>1, <1>6, ReadRecords
<1> QED
  BY <1>2, <1>3, <1>4, <1>5, <1>6 DEF TlsInv, Phases

LEMMA InitTlsInv == TlsInit => TlsInv
<1> SUFFICES ASSUME TlsInit PROVE TlsInv
  OBVIOUS
<1>1. \A r \in Roles : ends[r] = NewWrapper(r) /\ stream[r] = <<>>
  BY DEF TlsInit
<1>2. \A r \in Roles : NewWrapper(r) \in Resting /\ Knows(NewWrapper(r))
  BY DEF NewWrapper, Resting, Wrapper, Steps, Knows
<1>3. \A r \in Roles : Plaintexts[r] \in Seq(Texts) /\ Len(Plaintexts[r]) \in Nat
  BY TlsAssumption, LenProperties
<1>4. \A r \in Roles : ends[r].role = r /\ ends[r].written = 0 /\ ends[r].step = "start"
                       /\ ends[r].sendBuffer = <<>> /\ ends[r].decrypted = <<>>
                       /\ ends[r].enabled = FALSE
  <2>1. \A r \in Roles :
           /\ NewWrapper(r).role = r /\ NewWrapper(r).written = 0 /\ NewWrapper(r).step = "start"
           /\ NewWrapper(r).sendBuffer = <<>> /\ NewWrapper(r).decrypted = <<>>
           /\ NewWrapper(r).enabled = FALSE
    BY DEF NewWrapper
  <2> QED
    BY <2>1, <1>1
<1>5. TlsTypes
  <2>1. ends = [r \in Roles |-> NewWrapper(r)] /\ stream = [r \in Roles |-> <<>>]
    BY DEF TlsInit
  <2>2. ends \in [Roles -> Resting] /\ stream \in [Roles -> Seq(Records)]
    BY <2>1, <1>2
  <2> QED
    BY <2>2, <1>1, <1>2, <1>3, <1>4 DEF TlsTypes
<1>6. \A r \in Roles : Cached(r)
  <2>1. \A r \in Roles : SubSeq(Plaintexts[r], 1, 0) = <<>>
    <3>1. 0 \in Int /\ 1 \in Int /\ 0 < 1
      OBVIOUS
    <3> QED
      BY <3>1, SubSeqEmpty
  <2>2. \A r \in Roles : Written(r) = <<>>
    BY <2>1, <1>4 DEF Written
  <2> QED
    BY <2>2, <1>4 DEF Cached
<1>7. Phases
  BY <1>1, <1>4 DEF Phases, Roles
<1> QED
  BY <1>5, <1>6, <1>7 DEF TlsInv

\* What was read of a sequence together with what is to come is its beginning.
LEMMA InvGivesFlow == TlsInv => PlaintextFlows
<1> SUFFICES ASSUME TlsInv PROVE PlaintextFlows
  OBVIOUS
<1>1. ASSUME NEW r \in Roles
      PROVE  /\ \E n \in 0..ends[Peer(r)].written :
                   ends[r].decrypted = SubSeq(Plaintexts[Peer(r)], 1, n)
             /\ ends["client"].step = "done" /\ ends["server"].step = "done" /\ stream[r] = <<>> =>
                   Len(ends[r].decrypted) = ends[Peer(r)].written
  <2> DEFINE q == Peer(r)
             k == ends[q].written
  <2>1. q \in Roles /\ TlsTypes /\ Cached(r)
    BY PeerIs DEF TlsInv
  <2>2. Written(q) \in Seq(Texts) /\ Len(Written(q)) = k /\ k \in Nat
    BY <2>1, WrittenIs
  <2>3. Plaintexts[q] \in Seq(Texts) /\ k <= Len(Plaintexts[q]) /\ Len(Plaintexts[q]) \in Nat
    BY <2>1, TlsAssumption, LenProperties DEF TlsTypes
  <2>4. CASE /\ ends[r].decrypted = <<>>
             /\ ~(ends["client"].step = "done" /\ ends["server"].step = "done")
    <3>1. 0 \in 0..k /\ SubSeq(Plaintexts[q], 1, 0) = <<>>
      BY <2>2, SubSeqEmpty
    <3> QED
      BY <3>1, <2>4 DEF Roles
  <2>5. CASE Flows(r)
    <3>1. PICK coming \in Seq(Texts) :
             stream[r] = Sealed(coming) /\ ends[r].decrypted \o coming = Written(q)
      BY <2>5 DEF Flows
    <3> DEFINE read == ends[r].decrypted
               n == Len(read)
    <3>2. read \in Seq(Texts)
      BY <2>1 DEF TlsTypes, Resting, Wrapper
    <3>3. /\ n \in Nat /\ Len(coming) \in Nat /\ n + Len(coming) = k
          /\ \A i \in 1..n : Written(q)[i] = read[i]
      <4>1. Len(read \o coming) = n + Len(coming) /\ n \in Nat /\ Len(coming) \in Nat
            /\ \A i \in 1..n : (read \o coming)[i] = read[i]
        BY <3>2, ConcatProperties, LenProperties
      <4> HIDE DEF q, k, read, n
      <4> QED
        BY <4>1, <3>1, <2>2 DEF read
    <3>4. SubSeq(Plaintexts[q], 1, n) \in Seq(Texts) /\ Len(SubSeq(Plaintexts[q], 1, n)) = n
          /\ \A i \in 1..n : SubSeq(Plaintexts[q], 1, n)[i] = Plaintexts[q][i]
      BY <2>3, <3>3, SubSeqProperties
    <3>5. \A i \in 1..k : Written(q)[i] = Plaintexts[q][i]
      BY <2>2, <2>3, SubSeqProperties DEF Written
    <3> HIDE DEF q, k, read, n
    <3>6. \A i \in 1..n : read[i] = SubSeq(Plaintexts[q], 1, n)[i]
      BY <3>3, <3>4, <3>5
    <3>7. read = SubSeq(Plaintexts[q], 1, n)
      BY <3>2, <3>4, <3>6, SeqEqual DEF n
    <3>8. n \in 0..k
      BY <3>3, <2>2
    <3>9. ASSUME stream[r] = <<>> PROVE n = k
      <4>1. Len(Sealed(coming)) = Len(coming) /\ Len(<<>>) = 0
        BY SealedIs
      <4> QED
        BY <4>1, <3>1, <3>3, <3>9, <2>2
    <3> QED
      BY <3>7, <3>8, <3>9 DEF q, k, read, n
  <2>6. \/ Flows(r)
        \/ /\ ends[r].decrypted = <<>>
           /\ ~(ends["client"].step = "done" /\ ends["server"].step = "done")
    <3>1. r = "client" \/ r = "server"
      BY DEF Roles
    <3>2. Phases
      BY DEF TlsInv
    <3> QED
      BY <2>1, <3>1, <3>2 DEF Phases, Cached
  <2> QED
    BY <2>4, <2>5, <2>6
<1>2. PlaintextInOrder
  BY <1>1 DEF PlaintextInOrder
<1>3. NothingKeptBack
  <2>1. ASSUME \A r \in Roles : ends[r].enabled /\ stream[r] = <<>>
        PROVE  ends["client"].step = "done" /\ ends["server"].step = "done"
    <3>1. /\ ends["client"].enabled /\ stream["client"] = <<>> /\ stream["server"] = <<>>
      BY <2>1 DEF Roles
    <3>2. /\ Written("client") \in Seq(Texts)
      BY WrittenIs DEF TlsInv, Roles
    <3>3. /\ <<"hello">> # <<>> /\ <<"server">> # <<>>
          /\ <<"finished">> \o Sealed(Written("client")) # <<>>
      <4> DEFINE s == Sealed(Written("client"))
      <4>1. s \in Seq(Records) /\ <<"finished">> \in Seq(Records)
        BY <3>2, SealedIs DEF Records
      <4> HIDE DEF s
      <4>2. <<"finished">> \o s # <<>>
        BY <4>1, ConcatEqualIffEmpty
      <4> QED
        BY <4>2 DEF s
    <3> QED
      BY <3>1, <3>3 DEF TlsInv, Phases
  <2> QED
    BY <1>1, <2>1 DEF NothingKeptBack
<1> QED
  BY <1>2, <1>3 DEF PlaintextFlows

\* All that is written on one end arrives at the other, in order, with nothing but what
\* is on its way missing, however often and whenever both users write before, during
\* and after the handshake, and however records are cut into reads.
THEOREM PlaintextAlwaysFlows == TlsSpec => []PlaintextFlows
<1>1. TlsInv /\ [TlsNext]_tlsVars => TlsInv'
  <2> SUFFICES ASSUME TlsInv, [TlsNext]_tlsVars PROVE TlsInv'
    OBVIOUS
  <2>1. CASE \E r \in Roles : EnableTls(r)
    BY <2>1, EnableKeeps
  <2>2. CASE \E r \in Roles : WriteTls(r)
    BY <2>2, WriteKeeps
  <2>3. CASE \E r \in Roles : \E n \in 1..MaxReads : ReadTls(r, n)
    BY <2>3, ReadKeeps
  <2>4. CASE UNCHANGED tlsVars
    BY <2>4 DEF tlsVars, TlsInv, TlsTypes, Cached, Phases, Flows, Written
  <2> QED
    BY <2>1, <2>2, <2>3, <2>4 DEF TlsNext
<1> QED
  BY <1>1, InitTlsInv, InvGivesFlow, PTL DEF TlsSpec

-----------------------------------------------------------------------------
(* HttpExchange.                                                           *)

AllCalls ==
    {[call |-> "response", code |-> 200, body |-> <<>>]} \cup UNION {{r[i] : i \in DOMAIN r} : r \in Replies}

\* A session has no timer but the one it points to.
OneTimer(s) ==
    /\ {"version", "out", "closed", "afterWrite", "timers", "closeTimer", "made"} \subseteq DOMAIN s
    /\ s.closed \in BOOLEAN /\ s.afterWrite \in BOOLEAN
    /\ s.made \in Nat /\ s.timers \subseteq {s.closeTimer}

\* One that goes on has that one.
Timed(s) == s.closed \/ s.afterWrite \/ s.timers = {s.closeTimer}

TimerInv ==
    /\ OneTimer(sess)
    /\ handled # <<>> => Timed(sess)
    /\ pending \in Seq(AllCalls)

LEMMA CallsAreKnown ==
  /\ Replies \subseteq Seq(AllCalls)
  /\ \A c \in AllCalls : c.call \in CallNames
<1>1. ASSUME NEW r \in Replies PROVE r \in Seq(AllCalls)
  <2>1. r \in Seq({r[i] : i \in DOMAIN r})  BY RepliesAssumption
  <2>2. {r[i] : i \in DOMAIN r} \subseteq AllCalls  BY Zenon DEF AllCalls
  <2> HIDE DEF AllCalls
  <2> QED  BY <2>1, <2>2
<1>2. ASSUME NEW c \in AllCalls PROVE c.call \in CallNames
  <2>1. CASE c = [call |-> "response", code |-> 200, body |-> <<>>]  BY <2>1 DEF CallNames
  <2>2. CASE c # [call |-> "response", code |-> 200, body |-> <<>>]
    <3>1. PICK r \in Replies : c \in {r[i] : i \in DOMAIN r}  BY <2>2, Zenon DEF AllCalls
    <3> QED  BY <3>1, RepliesAssumption
  <2> QED  BY <2>1, <2>2
<1> QED  BY <1>1, <1>2

\* What the session's operators do to its timers.
LEMMA SentText ==
  ASSUME NEW s, OneTimer(s), NEW text
  PROVE  OneTimer(SendText(s, text)) /\ (Timed(s) => Timed(SendText(s, text)))
BY DEF OneTimer, Timed, SendText

LEMMA EndedSession ==
  ASSUME NEW s, OneTimer(s)
  PROVE  OneTimer(EndSession(s)) /\ EndSession(s).closed /\ Timed(EndSession(s))
BY DEF OneTimer, Timed, EndSession

LEMMA ClosesWhenSent ==
  ASSUME NEW s, OneTimer(s)
  PROVE  OneTimer(CloseWhenSent(s)) /\ Timed(CloseWhenSent(s))
<1>1. CASE s.out = <<>>  BY <1>1, EndedSession DEF CloseWhenSent
<1>2. CASE s.out # <<>>  BY <1>2 DEF CloseWhenSent, OneTimer, Timed
<1> QED  BY <1>1, <1>2

LEMMA RefreshedTimer ==
  ASSUME NEW s, OneTimer(s)
  PROVE  OneTimer(RefreshCloseTimer(s)) /\ Timed(RefreshCloseTimer(s))
BY DEF OneTimer, Timed, RefreshCloseTimer

LEMMA CallMade ==
  ASSUME NEW s, OneTimer(s), NEW c \in AllCalls
  PROVE  OneTimer(MakeCall(s, c)) /\ (Timed(s) => Timed(MakeCall(s, c)))
<1>1. CASE c.call = "response"
  <2>1. MakeCall(s, c) = SendResponse(s, c.code, c.body)  BY <1>1 DEF MakeCall
  <2> QED  BY <2>1, SentText DEF SendResponse
<1>2. CASE c.call = "responseFile"
  <2>1. MakeCall(s, c) = ResponseFile(s, c.body)  BY <1>2 DEF MakeCall
  <2> QED  BY <2>1, SentText, ClosesWhenSent, Zenon DEF ResponseFile
<1>3. CASE c.call = "beginFile"
  <2>1. MakeCall(s, c) = BeginFile(s)  BY <1>3 DEF MakeCall
  <2> QED  BY <2>1, SentText, RefreshedTimer, ZenonT(30) DEF BeginFile
<1>4. CASE c.call = "writeFile"
  <2>1. MakeCall(s, c) = WriteFile(s, c.body)  BY <1>4 DEF MakeCall
  <2> QED  BY <2>1, SentText, RefreshedTimer, Zenon DEF WriteFile
<1>5. CASE c.call = "endFile"
  <2>1. MakeCall(s, c) = EndFile(s)  BY <1>5 DEF MakeCall
  <2> QED  BY <2>1, SentText, ClosesWhenSent, Zenon DEF EndFile
<1>6. CASE c.call = "stop"
  <2> DEFINE u == [s EXCEPT !.timers = @ \ {s.closeTimer}, !.closeTimer = 0]
  <2>1. MakeCall(s, c) = EndSession(u)  BY <1>6 DEF MakeCall
  <2>2. OneTimer(u)  BY DEF OneTimer
  <2> HIDE DEF u
  <2> QED  BY <2>1, <2>2, EndedSession
<1> QED  BY <1>1, <1>2, <1>3, <1>4, <1>5, <1>6, CallsAreKnown DEF CallNames

LEMMA HandlerReturned ==
  ASSUME NEW s, OneTimer(s), NEW request
  PROVE  OneTimer(AfterHandler(s, request)) /\ Timed(AfterHandler(s, request))
BY ClosesWhenSent, RefreshedTimer, Zenon DEF AfterHandler

-----------------------------------------------------------------------------
(* A handler's calls, one after another.                                   *)

Calling(after, s, calls, k) ==
    after = [i \in 0..k |-> IF i = 0 THEN s ELSE MakeCall(after[i - 1], calls[i])]

\* There is such a sequence of sessions.
LEMMA CallsFollow ==
  ASSUME NEW s, NEW calls, NEW k \in Nat
  PROVE  \E after : Calling(after, s, calls, k)
<1> DEFINE T == {n \in Nat : \E after : Calling(after, s, calls, n)}
<1>1. 0 \in T
  <2> DEFINE after == [i \in 0..0 |-> s]
  <2>1. after = [i \in 0..0 |-> IF i = 0 THEN s ELSE MakeCall(after[i - 1], calls[i])]
    OBVIOUS
  <2> HIDE DEF after
  <2>2. \E a : Calling(a, s, calls, 0)  BY <2>1 DEF Calling
  <2> QED  BY <2>2
<1>2. ASSUME NEW m \in 1..k, m - 1 \in T PROVE m \in T
  <2> DEFINE n == m - 1
  <2>0. n \in Nat /\ m = n + 1  OBVIOUS
  <2> HIDE DEF n
  <2>1. PICK before : Calling(before, s, calls, n)  BY <1>2 DEF n
  <2>2. before = [i \in 0..n |-> IF i = 0 THEN s ELSE MakeCall(before[i - 1], calls[i])]
    BY <2>1 DEF Calling
  <2> DEFINE after == [i \in 0..(n + 1) |-> IF i = n + 1 THEN MakeCall(before[n], calls[n + 1]) ELSE before[i]]
  <2>3. ASSUME NEW i \in 0..(n + 1)
        PROVE  after[i] = IF i = 0 THEN s ELSE MakeCall(after[i - 1], calls[i])
    <3>1. CASE i = n + 1
      <4>1. i - 1 \in 0..(n + 1) /\ i - 1 # n + 1 /\ i # 0 /\ i - 1 = n  BY <3>1, <2>0
      <4>2. n \in 0..n /\ after[i - 1] = before[n] /\ after[i] = MakeCall(before[n], calls[i])
        BY <3>1, <4>1, <2>0
      <4> QED  BY <4>1, <4>2
    <3>2. CASE i = 0
      BY <2>0, <2>2, <3>2
    <3>3. CASE i # n + 1 /\ i # 0
      <4>1. i \in 0..n /\ i - 1 \in 0..(n + 1) /\ i - 1 # n + 1  BY <3>3, <2>0
      <4>2. before[i] = MakeCall(before[i - 1], calls[i])  BY <2>2, <3>3, <4>1
      <4>3. after[i] = before[i] /\ after[i - 1] = before[i - 1]  BY <3>3, <4>1
      <4> QED  BY <3>3, <4>2, <4>3
    <3> QED  BY <3>1, <3>2, <3>3
  <2>4. DOMAIN after = 0..(n + 1) /\ after = [i \in 0..(n + 1) |-> after[i]]  OBVIOUS
  <2> HIDE DEF after
  <2>5. after = [i \in 0..(n + 1) |-> IF i = 0 THEN s ELSE MakeCall(after[i - 1], calls[i])]
    BY <2>3, <2>4, Zenon
  <2>6. \E a : Calling(a, s, calls, n + 1)  BY <2>5, Zenon DEF Calling
  <2> QED  BY <2>0, <2>6
<1> HIDE DEF T
<1>3. k \in T  BY <1>1, <1>2, UpTo
<1> QED  BY <1>3 DEF T

\* What each of the calls keeps, all of them keep.
LEMMA CallsMade ==
  ASSUME NEW s, OneTimer(s), NEW calls \in Seq(AllCalls), NEW k \in 0..Len(calls)
  PROVE  OneTimer(MakeCalls(s, calls, k))
<1> DEFINE after == CHOOSE after : Calling(after, s, calls, k)
           T == {n \in 0..k : OneTimer(after[n])}
<1>0. k \in Nat  OBVIOUS
<1>1. Calling(after, s, calls, k)
  <2>1. \E a : Calling(a, s, calls, k)  BY <1>0, CallsFollow
  <2> QED  BY <2>1, Zenon
<1>2. MakeCalls(s, calls, k) = after[k]  BY Zenon DEF MakeCalls, Calling
<1> HIDE DEF after
<1>3. after = [i \in 0..k |-> IF i = 0 THEN s ELSE MakeCall(after[i - 1], calls[i])]
  BY <1>1, Zenon DEF Calling
<1>4. k \in Nat /\ \A i \in 1..k : calls[i] \in AllCalls  OBVIOUS
<1>5. 0 \in T
  <2>1. after[0] = s  BY <1>3, <1>4
  <2> QED  BY <2>1, <1>4
<1>6. ASSUME NEW i \in 1..k, i - 1 \in T PROVE i \in T
  <2>1. i \in 0..k /\ i # 0  BY <1>4
  <2>2. after[i] = MakeCall(after[i - 1], calls[i])  BY <1>3, <2>1
  <2>3. OneTimer(after[i - 1])  BY <1>6
  <2>4. OneTimer(after[i])  BY <2>2, <2>3, <1>4, CallMade
  <2> QED  BY <2>1, <2>4
<1> HIDE DEF T
<1>7. \A i \in 0..k : i \in T  BY <1>4, <1>5, <1>6, UpTo, Zenon
<1>8. k \in T  BY <1>4, <1>7
<1> QED  BY <1>2, <1>8 DEF T

-----------------------------------------------------------------------------
LEMMA TimerInit == HttpInit => TimerInv
<1> SUFFICES ASSUME HttpInit PROVE TimerInv
  OBVIOUS
<1>1. OneTimer(sess) /\ handled = <<>>  BY DEF HttpInit, OneTimer
<1>2. pending \in Seq(AllCalls)
  <2>1. pending = <<>>  BY DEF HttpInit
  <2> QED  BY <2>1
<1> QED  BY <1>1, <1>2 DEF TimerInv

LEMMA RequestKeepsTimer ==
  ASSUME TimerInv, NEW request, NEW calls \in Replies, NEW k,
         RunHandler(request, CallsFor(request, calls), k)
  PROVE  TimerInv'
<1> DEFINE all == CallsFor(request, calls)
           s == Versioned(sess, request)
           t == MakeCalls(s, all, k)
<1>1. all \in Seq(AllCalls)
  <2>1. <<[call |-> "response", code |-> 200, body |-> <<>>]>> \in Seq(AllCalls)
    <3> DEFINE c == [call |-> "response", code |-> 200, body |-> <<>>]
    <3>1. c \in AllCalls  BY Zenon DEF AllCalls
    <3> HIDE DEF c
    <3>2. <<c>> \in Seq(AllCalls)  BY <3>1
    <3> QED  BY <3>2 DEF c
  <2>2. calls \in Seq(AllCalls)  BY CallsAreKnown
  <2> QED  BY <2>1, <2>2, Zenon DEF CallsFor
<1>2. OneTimer(s)  BY DEF TimerInv, Versioned, OneTimer
<1>3. /\ sess' = AfterHandler(t, request) /\ k \in 0..Len(all)
      /\ pending' = pending \o SubSeq(all, k + 1, Len(all))
  BY DEF RunHandler
<1> HIDE DEF all, s
<1>4. OneTimer(t)  BY <1>1, <1>2, <1>3, CallsMade
<1> HIDE DEF t
<1>5. OneTimer(sess') /\ Timed(sess')  BY <1>3, <1>4, HandlerReturned
<1>6. SubSeq(all, k + 1, Len(all)) \in Seq(AllCalls)  BY <1>1, <1>3
<1>7. pending' \in Seq(AllCalls)  BY <1>3, <1>6 DEF TimerInv
<1> QED  BY <1>5, <1>7 DEF TimerInv, OneTimer, Timed

LEMMA TimerStep == TimerInv /\ [HttpNext]_httpVars => TimerInv'
<1> SUFFICES ASSUME TimerInv, [HttpNext]_httpVars PROVE TimerInv'
  OBVIOUS
<1> USE DEF TimerInv
<1>1. CASE UNCHANGED httpVars
  BY <1>1 DEF httpVars, OneTimer, Timed
<1>2. CASE \E ask \in Asks : SendRequest(ask)
  BY <1>2 DEF SendRequest, OneTimer, Timed
<1>3. CASE \E n \in {1, 3, Len(down)} : ReadReply(n)
  BY <1>3 DEF ReadReply, OneTimer, Timed
<1>4. CASE HttpClientCloses
  BY <1>4 DEF HttpClientCloses, OneTimer, Timed
<1>5. ASSUME NEW n, NEW calls \in RepliesFor, NEW k, OnRequest(n, calls, k)
      PROVE  TimerInv'
  <2> DEFINE text == SubSeq(up, 1, n)
             parsed == ParseRequest(text)
  <2>1. HandleParsed(text, parsed, calls, k)  BY <1>5 DEF OnRequest
  <2>2. CASE CharsIn(text) <= 4
    BY <2>1, <2>2 DEF HandleParsed, OneTimer, Timed
  <2>3. CASE ~(CharsIn(text) <= 4) /\ parsed.code # "OK"
    <3>1. sess' = EndSession(sess) /\ UNCHANGED <<pending, handled>>  BY <2>1, <2>3 DEF HandleParsed
    <3>2. OneTimer(sess') /\ Timed(sess')  BY <3>1, EndedSession
    <3> QED  BY <3>1, <3>2 DEF OneTimer, Timed
  <2>4. CASE ~(CharsIn(text) <= 4) /\ parsed.code = "OK"
    <3>1. RunHandler(parsed.request, CallsFor(parsed.request, calls), k)
      BY <2>1, <2>4 DEF HandleParsed
    <3>2. calls \in Replies  BY DEF RepliesFor
    <3> HIDE DEF parsed
    <3> QED  BY <3>1, <3>2, RequestKeepsTimer
  <2> QED  BY <2>2, <2>3, <2>4
<1>6. CASE HandlerGoesOn
  <2>1. Head(pending) \in AllCalls /\ Tail(pending) \in Seq(AllCalls)  BY <1>6 DEF HandlerGoesOn
  <2>2. sess' = MakeCall(sess, Head(pending)) /\ pending' = Tail(pending) /\ handled' = handled
    BY <1>6 DEF HandlerGoesOn
  <2>3. OneTimer(sess') /\ (Timed(sess) => Timed(sess'))  BY <2>1, <2>2, CallMade
  <2> QED  BY <2>1, <2>2, <2>3 DEF OneTimer, Timed
<1>7. ASSUME NEW n, FlushOut(n) PROVE TimerInv'
  <2> DEFINE left == [sess EXCEPT !.out = SubSeq(@, n + 1, Len(@))]
  <2>1. /\ sess' = IF left.out = <<>> /\ sess.afterWrite THEN EndSession(left) ELSE left
        /\ UNCHANGED <<pending, handled>>
    BY <1>7 DEF FlushOut
  <2>2. OneTimer(left) /\ (Timed(sess) => Timed(left))  BY DEF OneTimer, Timed
  <2> HIDE DEF left
  <2>3. OneTimer(EndSession(left)) /\ Timed(EndSession(left))  BY <2>2, EndedSession
  <2>4. OneTimer(sess') /\ (Timed(sess) => Timed(sess'))  BY <2>1, <2>2, <2>3
  <2> QED  BY <2>1, <2>4 DEF OneTimer, Timed
<1>8. ASSUME NEW t \in sess.timers, CloseTimerFires(t) PROVE TimerInv'
  <2> DEFINE left == [sess EXCEPT !.timers = @ \ {t}]
  <2>1. sess' = CloseWhenSent(left) /\ UNCHANGED <<pending, handled>>  BY <1>8 DEF CloseTimerFires
  <2>2. OneTimer(left)  BY DEF OneTimer
  <2> HIDE DEF left
  <2>3. OneTimer(sess') /\ Timed(sess')  BY <2>1, <2>2, ClosesWhenSent
  <2> QED  BY <2>1, <2>3 DEF OneTimer, Timed
<1>9. CASE HttpPeerClosed
  <2>1. sess' = EndSession(sess) /\ UNCHANGED <<pending, handled>>  BY <1>9 DEF HttpPeerClosed
  <2>2. OneTimer(sess') /\ Timed(sess')  BY <2>1, EndedSession
  <2> QED  BY <2>1, <2>2 DEF OneTimer, Timed
<1> QED
  BY <1>1, <1>2, <1>3, <1>4, <1>5, <1>6, <1>7, <1>8, <1>9 DEF HttpNext

LEMMA TimerInvShown == TimerInv => OneCloseTimer
<1> SUFFICES ASSUME TimerInv PROVE OneCloseTimer
  OBVIOUS
<1>1. sess.timers \subseteq {sess.closeTimer}  BY DEF TimerInv, OneTimer
<1>2. Cardinality(sess.timers) <= 1
  <2>1. CASE sess.timers = {}  BY <2>1, FS_EmptySet
  <2>2. CASE sess.timers = {sess.closeTimer}
    <3>1. Cardinality({sess.closeTimer}) = 1  BY FS_Singleton, Zenon
    <3> QED  BY <2>2, <3>1
  <2> QED  BY <1>1, <2>1, <2>2
<1>3. handled # <<>> /\ ~sess.closed /\ ~sess.afterWrite => sess.timers = {sess.closeTimer}
  BY DEF TimerInv, Timed
<1> QED  BY <1>2, <1>3 DEF OneCloseTimer

\* MyHttpSession never has two close timers, although handlers answer at once, later
\* or in chunks, and refresh and stop it as they like; and one that has had a request
\* and is not being closed has the timer that _closeTimer points to.
THEOREM CloseTimerIsOne == HttpSpec => []OneCloseTimer
<1>1. TimerInv /\ [HttpNext]_httpVars => TimerInv'  BY TimerStep
<1> QED  BY TimerInit, <1>1, TimerInvShown, PTL DEF HttpSpec

-----------------------------------------------------------------------------
(* NetBuffer.                                                              *)

\* Buffer as BufferProofs has it, for the writer's and for the reader's.
Writer ==
    INSTANCE BufferProofs WITH Byte <- Octet, Zero <- 0, CheapPrepend <- 16, InitialSize <- FirstSize,
        ExtraSize <- 0, MaxLen <- 0, MaxSize <- MaxVector, buf <- out, given <- put, taken <- moved,
        promised <- 0
Reader ==
    INSTANCE BufferProofs WITH Byte <- Octet, Zero <- 0, CheapPrepend <- 16, InitialSize <- FirstSize,
        ExtraSize <- 0, MaxLen <- 0, MaxSize <- MaxVector, buf <- in, given <- put, taken <- moved,
        promised <- 0

\* What Buffer assumes of its constants holds of these.
LEMMA BufferAssumed ==
  /\ 0 \in Octet
  /\ {16, FirstSize, 0} \subseteq Nat
  /\ {0, MaxVector} \subseteq Nat
BY NetBounds DEF Octet

Strings == Seq(Octet)

LEMMA Associates ==
  ASSUME NEW p \in Strings, NEW q \in Strings, NEW r \in Strings
  PROVE  p \o q \in Strings /\ (p \o q) \o r = p \o (q \o r)
BY ConcatAssociative, ConcatProperties DEF Strings

\* Two strings that are the same behind the same string are the same.
LEMMA SameAfter ==
  ASSUME NEW p \in Strings, NEW q \in Strings, NEW r \in Strings, p \o q = p \o r
  PROVE  q = r
<1> DEFINE Behind(s) == \A i \in 1..Len(s) : (p \o s)[Len(p) + i] = s[i]
<1>1. ASSUME NEW s \in Strings PROVE Behind(s) /\ Len(p \o s) = Len(p) + Len(s) /\ Len(s) \in Nat
  <2>1. /\ Len(p) \in Nat /\ Len(s) \in Nat /\ Len(p \o s) = Len(p) + Len(s)
        /\ \A i \in 1..(Len(p) + Len(s)) :
              (p \o s)[i] = IF i <= Len(p) THEN p[i] ELSE s[i - Len(p)]
    BY ConcatProperties DEF Strings
  <2>2. ASSUME NEW i \in 1..Len(s) PROVE (p \o s)[Len(p) + i] = s[i]
    <3> DEFINE j == Len(p) + i
    <3>1. j \in 1..(Len(p) + Len(s)) /\ ~(j <= Len(p)) /\ j - Len(p) = i  BY <2>1
    <3> HIDE DEF j
    <3>2. (p \o s)[j] = s[j - Len(p)]  BY <2>1, <3>1
    <3> QED  BY <3>1, <3>2 DEF j
  <2> QED  BY <2>1, <2>2
<1>2. Behind(q) /\ Len(p \o q) = Len(p) + Len(q) /\ Len(q) \in Nat  BY <1>1
<1>3. Behind(r) /\ Len(p \o r) = Len(p) + Len(r) /\ Len(r) \in Nat  BY <1>1
<1>4. Len(p) \in Nat  BY DEF Strings
<1>5. Len(q) = Len(r)  BY <1>2, <1>3, <1>4
<1>6. \A i \in 1..Len(q) : q[i] = r[i]  BY <1>2, <1>3, <1>5
<1> QED  BY <1>5, <1>6, SeqEqual DEF Strings

\* A string is its first n octets and the others.
LEMMA CutInTwo ==
  ASSUME NEW s \in Strings, NEW n \in 0..Len(s)
  PROVE  /\ SubSeq(s, 1, n) \in Strings /\ Len(SubSeq(s, 1, n)) = n
         /\ \A i \in 1..n : SubSeq(s, 1, n)[i] = s[i]
         /\ SubSeq(s, n + 1, Len(s)) \in Strings /\ Len(SubSeq(s, n + 1, Len(s))) = Len(s) - n
         /\ s = SubSeq(s, 1, n) \o SubSeq(s, n + 1, Len(s))
<1>1. /\ SubSeq(s, 1, n) \in Strings /\ Len(SubSeq(s, 1, n)) = n
      /\ \A i \in 1..n : SubSeq(s, 1, n)[i] = s[i]
  BY Writer!FirstIs DEF Strings
<1>2. SubSeq(s, n + 1, Len(s)) \in Strings /\ Len(SubSeq(s, n + 1, Len(s))) = Len(s) - n
  BY Writer!AfterIs DEF Strings
<1>3. Len(s) \in Nat  BY DEF Strings
<1>4. SubSeq(s, 1, n) \o SubSeq(s, n + 1, Len(s)) = SubSeq(s, 1, Len(s))
  <2>1. 1 \in 1..(Len(s) + 1) /\ n \in (1 - 1)..Len(s) /\ Len(s) \in n..Len(s)  BY <1>3
  <2> QED  BY <2>1, ConcatAdjacentSubSeq DEF Strings
<1>5. SubSeq(s, 1, Len(s)) = s  BY SubSeqFull DEF Strings
<1> QED  BY <1>1, <1>2, <1>4, <1>5

\* Two ways to cut the same string agree as far as both first parts go.
LEMMA CutsAgree ==
  ASSUME NEW p \in Strings, NEW q \in Strings, NEW r \in Strings, NEW t \in Strings, p \o q = r \o t
  PROVE  /\ \A i \in 1..Len(p) : i <= Len(r) => p[i] = r[i]
         /\ Len(r) <= Len(p) => SubSeq(p, 1, Len(r)) = r
         /\ q = <<>> => Len(r) <= Len(p)
<1>1. /\ Len(p) \in Nat /\ Len(q) \in Nat /\ Len(r) \in Nat /\ Len(t) \in Nat
      /\ Len(p \o q) = Len(p) + Len(q) /\ Len(r \o t) = Len(r) + Len(t)
  BY ConcatProperties DEF Strings
<1>2. ASSUME NEW i \in 1..Len(p), i <= Len(r) PROVE p[i] = r[i]
  <2>1. (p \o q)[i] = p[i]  BY <1>1, ConcatProperties DEF Strings
  <2>2. i \in 1..Len(r)  BY <1>1, <1>2
  <2>3. (r \o t)[i] = r[i]  BY <1>1, <2>2, ConcatProperties DEF Strings
  <2> QED  BY <2>1, <2>3
<1>3. ASSUME Len(r) <= Len(p) PROVE SubSeq(p, 1, Len(r)) = r
  <2> DEFINE f == SubSeq(p, 1, Len(r))
  <2>1. f \in Strings /\ Len(f) = Len(r) /\ \A i \in 1..Len(r) : f[i] = p[i]
    <3>1. Len(r) \in 0..Len(p)  BY <1>1, <1>3
    <3> QED  BY <3>1, CutInTwo
  <2>2. \A i \in 1..Len(r) : f[i] = r[i]  BY <1>1, <1>2, <1>3, <2>1
  <2> HIDE DEF f
  <2> QED  BY <2>1, <2>2, SeqEqual DEF f, Strings
<1>4. q = <<>> => Len(r) <= Len(p)  BY <1>1
<1> QED  BY <1>2, <1>3, <1>4

-----------------------------------------------------------------------------
(* Fields and their octets.                                                *)

Octets(f) == IF f.type = "int" THEN SwapOctets(f.value) ELSE f.value \o CRLF

LEMMA FieldIs ==
  ASSUME NEW f \in Fields
  PROVE  /\ f.value \in Strings /\ Len(f.value) \in Nat /\ f.type \in {"int", "line"}
         /\ f = [type |-> f.type, value |-> f.value]
         /\ f.type = "line" => \A i \in 1..Len(f.value) : f.value[i] # 10
BY DEF Fields, Strings

\* hostToNetwork and networkToHost undo each other.
LEMMA SwappedTwice ==
  ASSUME NEW v \in Strings
  PROVE  /\ SwapOctets(v) \in Strings /\ Len(SwapOctets(v)) = Len(v)
         /\ SwapOctets(SwapOctets(v)) = v
<1>1. Len(v) \in Nat /\ \A i \in 1..Len(v) : v[i] \in Octet  BY DEF Strings
<1>2. ASSUME NEW w \in Strings, Len(w) = Len(v)
      PROVE  /\ SwapOctets(w) \in Strings /\ Len(SwapOctets(w)) = Len(v)
             /\ \A i \in 1..Len(v) : SwapOctets(w)[i] = w[Len(v) - i + 1]
  <2>1. SwapOctets(w) = [i \in 1..Len(v) |-> w[(Len(v) - i) + 1]]  BY <1>2 DEF SwapOctets, Reverse
  <2>2. \A i \in 1..Len(v) : (Len(v) - i) + 1 \in 1..Len(w)  BY <1>1, <1>2
  <2>3. \A i \in 1..Len(w) : w[i] \in Octet  BY <1>2 DEF Strings
  <2>4. SwapOctets(w) \in [1..Len(v) -> Octet]  BY <2>1, <2>2, <2>3
  <2>5. SwapOctets(w) \in Strings /\ Len(SwapOctets(w)) = Len(v)
    BY <1>1, <2>4, Writer!FunctionIsSeq DEF Strings
  <2> QED  BY <2>1, <2>5
<1> DEFINE w == SwapOctets(v)
<1>3. w \in Strings /\ Len(w) = Len(v) /\ \A i \in 1..Len(v) : w[i] = v[Len(v) - i + 1]
  BY <1>1, <1>2
<1> HIDE DEF w
<1>4. SwapOctets(w) \in Strings /\ Len(SwapOctets(w)) = Len(v)
      /\ \A i \in 1..Len(v) : SwapOctets(w)[i] = w[Len(v) - i + 1]
  BY <1>2, <1>3
<1>5. ASSUME NEW i \in 1..Len(v) PROVE SwapOctets(w)[i] = v[i]
  <2>1. Len(v) - i + 1 \in 1..Len(v) /\ Len(v) - (Len(v) - i + 1) + 1 = i  BY <1>1
  <2> QED  BY <1>3, <1>4, <2>1
<1>6. SwapOctets(w) = v  BY <1>4, <1>5, SeqEqual DEF Strings
<1> QED  BY <1>3, <1>6 DEF w

LEMMA OctetsAre ==
  ASSUME NEW f \in Fields
  PROVE  /\ Octets(f) \in Strings
         /\ f.type = "int" => Octets(f) = SwapOctets(f.value) /\ Len(Octets(f)) = Len(f.value)
         /\ f.type = "line" =>
               /\ Octets(f) = f.value \o CRLF /\ Len(Octets(f)) = Len(f.value) + 2
               /\ \A i \in 1..Len(f.value) : Octets(f)[i] = f.value[i]
               /\ Octets(f)[Len(f.value) + 1] = 13 /\ Octets(f)[Len(f.value) + 2] = 10
<1>1. f.value \in Strings /\ Len(f.value) \in Nat /\ f.type \in {"int", "line"}  BY FieldIs
<1>2. CASE f.type = "int"
  BY <1>1, <1>2, SwappedTwice DEF Octets
<1>3. CASE f.type = "line"
  <2>1. CRLF \in Strings /\ Len(CRLF) = 2 /\ CRLF[1] = 13 /\ CRLF[2] = 10
    BY DEF CRLF, Strings, Octet
  <2>2. Octets(f) = f.value \o CRLF  BY <1>3 DEF Octets
  <2>3. /\ Octets(f) \in Strings /\ Len(Octets(f)) = Len(f.value) + 2
        /\ \A i \in 1..(Len(f.value) + 2) :
              Octets(f)[i] = IF i <= Len(f.value) THEN f.value[i] ELSE CRLF[i - Len(f.value)]
    <3> DEFINE v == f.value
    <3>1. v \in Seq(Octet) /\ CRLF \in Seq(Octet) /\ Len(v) \in Nat  BY <1>1, <2>1 DEF Strings
    <3>2. Octets(f) = v \o CRLF  BY <2>2
    <3> HIDE DEF v
    <3>3. /\ Octets(f) \in Seq(Octet) /\ Len(Octets(f)) = Len(v) + Len(CRLF)
          /\ \A i \in 1..(Len(v) + Len(CRLF)) :
                Octets(f)[i] = IF i <= Len(v) THEN v[i] ELSE CRLF[i - Len(v)]
      BY <3>1, <3>2, ConcatProperties
    <3>4. /\ Octets(f) \in Seq(Octet) /\ Len(Octets(f)) = Len(v) + 2
          /\ \A i \in 1..(Len(v) + 2) :
                Octets(f)[i] = IF i <= Len(v) THEN v[i] ELSE CRLF[i - Len(v)]
      BY <2>1, <3>3
    <3> QED  BY <3>4 DEF v, Strings
  <2>4. \A i \in 1..Len(f.value) : Octets(f)[i] = f.value[i]  BY <1>1, <2>3
  <2>5. Octets(f)[Len(f.value) + 1] = 13  BY <1>1, <2>1, <2>3
  <2>6. Octets(f)[Len(f.value) + 2] = 10  BY <1>1, <2>1, <2>3
  <2> QED  BY <1>3, <2>2, <2>3, <2>4, <2>5, <2>6
<1> QED  BY <1>1, <1>2, <1>3

\* Where the first n of the fields end, when they are written behind each other.
Layout(at, fs, n) ==
    /\ at \in [0..n -> Strings] /\ at[0] = <<>>
    /\ \A i \in 1..n : at[i] = at[i - 1] \o Octets(fs[i])

LEMMA LayoutGrows ==
  ASSUME NEW fs \in Seq(Fields), NEW n \in Nat, n < Len(fs), NEW at, Layout(at, fs, n)
  PROVE  \E b : Layout(b, fs, n + 1) /\ b[n + 1] = at[n] \o Octets(fs[n + 1])
<1> DEFINE b == [i \in 0..(n + 1) |-> IF i <= n THEN at[i] ELSE at[n] \o Octets(fs[n + 1])]
<1>1. at \in [0..n -> Strings] /\ at[0] = <<>> /\ \A i \in 1..n : at[i] = at[i - 1] \o Octets(fs[i])
  BY DEF Layout
<1>2. Octets(fs[n + 1]) \in Strings  BY OctetsAre
<1>3. at[n] \o Octets(fs[n + 1]) \in Strings  BY <1>1, <1>2, Associates
<1>4. b \in [0..(n + 1) -> Strings]  BY <1>1, <1>3
<1>5. b[0] = <<>> /\ b[n + 1] = at[n] \o Octets(fs[n + 1])  BY <1>1
<1>6. ASSUME NEW i \in 1..(n + 1) PROVE b[i] = b[i - 1] \o Octets(fs[i])
  <2>1. CASE i = n + 1  BY <2>1
  <2>2. CASE i # n + 1
    <3>1. i \in 1..n /\ i - 1 \in 0..n /\ i \in 0..(n + 1) /\ i - 1 \in 0..(n + 1)  BY <2>2
    <3>2. b[i] = at[i] /\ b[i - 1] = at[i - 1]  BY <3>1
    <3> QED  BY <1>1, <3>1, <3>2
  <2> QED  BY <2>1, <2>2
<1> HIDE DEF b
<1>7. Layout(b, fs, n + 1)  BY <1>4, <1>5, <1>6, Zenon DEF Layout
<1> QED  BY <1>5, <1>7

Joined(a, n, b, m) == [i \in 0..(n + m) |-> IF i <= n THEN a[i] ELSE a[n] \o b[i - n]]

LEMMA JoinedIs ==
  ASSUME NEW n \in Nat, NEW m \in Nat, NEW a \in [0..n -> Strings], NEW b \in [0..m -> Strings],
         b[0] = <<>>
  PROVE  /\ \A i \in 0..n : Joined(a, n, b, m)[i] = a[i]
         /\ Joined(a, n, b, m)[n + m] = a[n] \o b[m]
<1> DEFINE c == Joined(a, n, b, m)
           k == n + m
<1>1. c = [i \in 0..(n + m) |-> IF i <= n THEN a[i] ELSE a[n] \o b[i - n]]  BY DEF Joined
<1>2. k \in 0..(n + m) /\ k - n = m /\ (k <= n => m = 0 /\ k = n)  OBVIOUS
<1> HIDE DEF c, k
<1>3. \A i \in 0..n : c[i] = a[i]  BY <1>1
<1>4. c[k] = a[n] \o b[m]
  <2>1. CASE k <= n
    <3>1. a[n] \o <<>> = a[n]  BY ConcatEmptySeq DEF Strings
    <3>2. c[k] = a[n]  BY <1>1, <1>2, <2>1
    <3>3. b[m] = <<>>  BY <1>2, <2>1
    <3> QED  BY <3>1, <3>2, <3>3
  <2>2. CASE ~(k <= n)
    <3>1. c[k] = a[n] \o b[k - n]  BY <1>1, <1>2, <2>2
    <3> QED  BY <1>2, <3>1
  <2> QED  BY <2>1, <2>2
<1> QED  BY <1>3, <1>4 DEF c, k

LEMMA LayoutJoins ==
  ASSUME NEW fs \in Seq(Fields), NEW gs \in Seq(Fields), NEW a, NEW b,
         Layout(a, fs, Len(fs)), Layout(b, gs, Len(gs)), NEW hs, hs = fs \o gs,
         NEW c, c = Joined(a, Len(fs), b, Len(gs))
  PROVE  Layout(c, hs, Len(hs))
<1> DEFINE n == Len(fs)
           m == Len(gs)
<1>1. /\ n \in Nat /\ m \in Nat /\ Len(fs \o gs) = n + m
      /\ \A i \in 1..(n + m) : (fs \o gs)[i] = IF i <= n THEN fs[i] ELSE gs[i - n]
  BY ConcatProperties
<1>2. /\ a \in [0..n -> Strings] /\ a[0] = <<>>
      /\ \A i \in 1..n : a[i] = a[i - 1] \o Octets(fs[i])
  BY DEF Layout
<1>3. /\ b \in [0..m -> Strings] /\ b[0] = <<>>
      /\ \A i \in 1..m : b[i] = b[i - 1] \o Octets(gs[i])
  BY DEF Layout
<1>12. c = [i \in 0..(n + m) |-> IF i <= n THEN a[i] ELSE a[n] \o b[i - n]]  BY DEF Joined
<1> HIDE DEF n, m
<1>4. a[n] \in Strings /\ \A i \in 0..m : a[n] \o b[i] \in Strings
  BY <1>1, <1>2, <1>3, Associates
<1>5. ASSUME NEW i \in 0..(n + m) PROVE c[i] \in Strings
  <2>1. CASE i <= n  BY <1>1, <1>2, <1>12, <2>1
  <2>2. CASE ~(i <= n)
    <3>1. i - n \in 0..m  BY <1>1, <2>2
    <3> QED  BY <1>4, <1>12, <2>2, <3>1
  <2> QED  BY <2>1, <2>2
<1>6. c \in [0..(n + m) -> Strings]  BY <1>5, <1>12
<1>7. \A i \in 0..n : c[i] = a[i]  BY <1>1, <1>12
<1>8. \A i \in 0..m : c[n + i] = a[n] \o b[i]
  <2> TAKE i \in 0..m
  <2>1. CASE i = 0
    <3>1. a[n] \o <<>> = a[n]  BY <1>4, ConcatEmptySeq DEF Strings
    <3>2. n + i = n /\ n \in 0..n  BY <1>1, <2>1
    <3>3. c[n + i] = a[n]  BY <1>7, <3>2
    <3>4. b[i] = <<>>  BY <1>3, <2>1
    <3> QED  BY <3>1, <3>3, <3>4
  <2>2. CASE i # 0
    <3> DEFINE k == n + i
    <3>1. k \in 0..(n + m) /\ ~(k <= n) /\ k - n = i  BY <1>1, <2>2
    <3> HIDE DEF k
    <3>2. c[k] = a[n] \o b[k - n]  BY <1>12, <3>1
    <3> QED  BY <3>1, <3>2 DEF k
  <2> QED  BY <2>1, <2>2
<1>9. ASSUME NEW i \in 1..(n + m) PROVE c[i] = c[i - 1] \o Octets((fs \o gs)[i])
  <2>1. CASE i <= n
    <3>1. i \in 1..n /\ i \in 0..n /\ i - 1 \in 0..n /\ (fs \o gs)[i] = fs[i]  BY <1>1, <2>1
    <3> QED  BY <1>2, <1>7, <3>1
  <2>2. CASE ~(i <= n)
    <3> DEFINE j == i - n
    <3>1. j \in 1..m /\ j - 1 \in 0..m /\ j \in 0..m /\ i = n + j /\ i - 1 = n + (j - 1)
          /\ (fs \o gs)[i] = gs[j]
      BY <1>1, <2>2
    <3> HIDE DEF j
    <3>2. Octets(gs[j]) \in Strings /\ b[j - 1] \in Strings
      <4>1. j \in 1..Len(gs)  BY <3>1 DEF m
      <4>2. gs[j] \in Fields  BY <4>1
      <4> QED  BY <1>3, <3>1, <4>2, OctetsAre
    <3>3. (a[n] \o b[j - 1]) \o Octets(gs[j]) = a[n] \o (b[j - 1] \o Octets(gs[j]))
      BY <1>4, <3>2, Associates
    <3>4. b[j] = b[j - 1] \o Octets(gs[j])  BY <1>3, <3>1
    <3>5. c[i] = a[n] \o b[j] /\ c[i - 1] = a[n] \o b[j - 1]  BY <1>8, <3>1
    <3> QED  BY <3>1, <3>3, <3>4, <3>5
  <2> QED  BY <2>1, <2>2
<1>10. c[0] = <<>>
  <2>1. 0 \in 0..n  BY <1>1
  <2> QED  BY <1>2, <1>7, <2>1
<1>11. Layout(c, fs \o gs, n + m)  BY <1>6, <1>9, <1>10, Zenon DEF Layout
<1> QED  BY <1>1, <1>11 DEF n, m

\* What is laid out begins with what is laid out of fewer.
LEMMA LayoutBegins ==
  ASSUME NEW fs \in Seq(Fields), NEW n \in 0..Len(fs), NEW at, Layout(at, fs, n), NEW k \in 0..n
  PROVE  \E rest \in Strings : at[n] = at[k] \o rest
<1> DEFINE T == {j \in 0..n : j >= k => \E rest \in Strings : at[j] = at[k] \o rest}
<1>1. /\ n \in Nat /\ at \in [0..n -> Strings]
      /\ \A i \in 1..n : at[i] = at[i - 1] \o Octets(fs[i]) /\ Octets(fs[i]) \in Strings
  <2>1. Len(fs) \in Nat /\ \A i \in 1..n : fs[i] \in Fields  OBVIOUS
  <2>2. \A i \in 1..n : Octets(fs[i]) \in Strings  BY <2>1, OctetsAre
  <2>3. n \in Nat  BY <2>1
  <2> HIDE DEF T
  <2> QED  BY <2>2, <2>3 DEF Layout
<1>2. at[k] = at[k] \o <<>> /\ <<>> \in Strings  BY <1>1, ConcatEmptySeq DEF Strings
<1>3. 0 \in T
  <2>1. 0 >= k => k = 0  OBVIOUS
  <2> QED  BY <1>1, <1>2, <2>1
<1>4. ASSUME NEW i \in 1..n, i - 1 \in T PROVE i \in T
  <2>1. CASE i < k  BY <2>1
  <2>2. CASE i = k  BY <1>2, <2>2
  <2>3. CASE i > k
    <3>1. PICK rest \in Strings : at[i - 1] = at[k] \o rest  BY <1>4, <2>3
    <3> DEFINE more == rest \o Octets(fs[i])
    <3>2. at[i] = at[k] \o more /\ more \in Strings
      <4>1. at[k] \in Strings /\ Octets(fs[i]) \in Strings  BY <1>1
      <4>2. at[i] = at[i - 1] \o Octets(fs[i])  BY <1>1
      <4>3. rest \o Octets(fs[i]) \in Strings
            /\ (at[k] \o rest) \o Octets(fs[i]) = at[k] \o (rest \o Octets(fs[i]))
        BY <4>1, Associates
      <4> QED  BY <3>1, <4>2, <4>3
    <3> HIDE DEF more
    <3>3. \E r \in Strings : at[i] = at[k] \o r  BY <3>2
    <3> QED  BY <1>1, <3>3
  <2> QED  BY <2>1, <2>2, <2>3
<1> HIDE DEF T
<1>5. \A i \in 0..n : i \in T  BY <1>1, <1>3, <1>4, UpTo, Zenon
<1>6. n \in T  BY <1>1, <1>5
<1> QED  BY <1>6 DEF T


-----------------------------------------------------------------------------
(* The two Buffers.                                                        *)

Well(b) ==
    /\ b \in [cells : Strings, reader : Nat, writer : Nat]
    /\ b.reader <= b.writer /\ b.writer <= Len(b.cells) /\ 16 <= Len(b.cells)

Held(b) == [i \in 1..(b.writer - b.reader) |-> b.cells[b.reader + i]]

LEMMA WellIs ==
  ASSUME NEW b
  PROVE  /\ Well(b) <=> Writer!Sound(b)
         /\ Held(b) = Writer!Piece(b) /\ Held(b) = Reader!Piece(b)
         /\ Well(b) <=> Reader!Sound(b)
         /\ Made(b)!ReadableBytes(b) = b.writer - b.reader
BY DEF Well, Strings, Held, Writer!Sound, Reader!Sound, Writer!Piece, Reader!Piece,
       Writer!ReadableBytes, Reader!ReadableBytes, Made!ReadableBytes

LEMMA HeldIs ==
  ASSUME NEW b, Well(b)
  PROVE  /\ b.cells \in Strings /\ Len(b.cells) \in Nat /\ b.reader \in Nat /\ b.writer \in Nat
         /\ b.reader <= b.writer /\ b.writer <= Len(b.cells)
         /\ Held(b) \in Strings /\ Len(Held(b)) = b.writer - b.reader /\ Len(Held(b)) \in Nat
         /\ Made(b)!ReadableBytes(b) = Len(Held(b))
         /\ \A i \in 1..Len(Held(b)) : Held(b)[i] = b.cells[b.reader + i]
<1>1. /\ b.cells \in Strings /\ Len(b.cells) \in Nat /\ b.reader \in Nat /\ b.writer \in Nat
      /\ b.reader <= b.writer /\ b.writer <= Len(b.cells)
  BY DEF Well, Strings
<1>2. Writer!Sound(b) /\ Held(b) = Writer!Piece(b) /\ Made(b)!ReadableBytes(b) = b.writer - b.reader
  BY WellIs
<1>3. /\ Writer!Piece(b) \in Seq(Octet) /\ Len(Writer!Piece(b)) = b.writer - b.reader
      /\ \A i \in 1..(b.writer - b.reader) : Writer!Piece(b)[i] = b.cells[b.reader + i]
  BY <1>2, BufferAssumed, Writer!PieceIsSeq
<1>4. b.writer - b.reader \in Nat  BY <1>1
<1> QED  BY <1>1, <1>2, <1>3, <1>4 DEF Strings

\* A new Buffer is empty.
LEMMA MadeIsEmpty ==
  ASSUME NEW b
  PROVE  /\ Well(Made(b)!New) /\ Held(Made(b)!New) = <<>> /\ Made(b)!New.reader = 16
         /\ Made(b)!New = Writer!New
<1>1. Made(b)!New = Writer!New  BY DEF Made!New, Writer!New
<1>2. Writer!New.reader = 16  BY DEF Writer!New
<1>3. Writer!Sound(Writer!New) /\ Writer!Piece(Writer!New) = <<>>
  BY BufferAssumed, Writer!NewIsEmpty
<1> QED  BY <1>1, <1>2, <1>3, WellIs

\* Appending to a Buffer that reads from kCheapPrepend leaves it there.
LEMMA AppendedHolds ==
  ASSUME NEW b, Well(b), NEW data \in Strings
  PROVE  /\ Well(Writer!Appended(b, data)) /\ Held(Writer!Appended(b, data)) = Held(b) \o data
         /\ b.reader = 16 => Writer!Appended(b, data).reader = 16
         /\ Made(b)!Appended(b, data) = Writer!Appended(b, data)
<1>1. Writer!Sound(b)  BY WellIs
<1>2. Writer!Sound(Writer!Appended(b, data))
      /\ Writer!Piece(Writer!Appended(b, data)) = Writer!Piece(b) \o data
  BY <1>1, BufferAssumed, Writer!AppendedAppends DEF Strings
<1>3. b \in [cells : Strings, reader : Nat, writer : Nat]  BY DEF Well
<1>4. ASSUME b.reader = 16 PROVE Writer!Appended(b, data).reader = 16
  <2> DEFINE e == Writer!EnsureWritable(b, Len(data))
             cells == Writer!Resize(b.cells, b.writer + Len(data))
  <2>1. e = b \/ e = [b EXCEPT !.cells = cells]
    BY <1>4 DEF Writer!EnsureWritable, Writer!MakeSpace
  <2> HIDE DEF cells
  <2>2. b = [cells |-> b.cells, reader |-> b.reader, writer |-> b.writer]  BY <1>3
  <2>3. \E c : e = [cells |-> c, reader |-> 16, writer |-> b.writer]
    <3>1. CASE e = b  BY <1>4, <2>2, <3>1
    <3>2. CASE e = [b EXCEPT !.cells = cells]
      <4>1. [b EXCEPT !.cells = cells] = [cells |-> cells, reader |-> b.reader, writer |-> b.writer]
        BY <2>2
      <4> QED  BY <1>4, <3>2, <4>1
    <3> QED  BY <2>1, <3>1, <3>2
  <2> HIDE DEF e
  <2>4. Writer!Appended(b, data) = Writer!Written(e, data)  BY DEF Writer!Appended, e
  <2> QED  BY <2>3, <2>4 DEF Writer!Written
<1>5. Made(b)!Appended(b, data) = Writer!Appended(b, data)
  BY DEF Made!Appended, Made!EnsureWritable, Made!MakeSpace, Made!Written, Made!Overwrite,
         Made!Resize, Made!Piece, Made!ReadableBytes, Made!WritableBytes,
         Writer!Appended, Writer!EnsureWritable, Writer!MakeSpace, Writer!Written, Writer!Overwrite,
         Writer!Resize, Writer!Piece, Writer!ReadableBytes, Writer!WritableBytes
<1> QED  BY <1>2, <1>4, <1>5, WellIs

LEMMA AppendEffect ==
  ASSUME Well(out), NEW data \in Strings, Made(out)!AppendBytes(data)
  PROVE  /\ Well(out') /\ Held(out') = Held(out) \o data
         /\ out.reader = 16 => out'.reader = 16
<1>1. out' = Made(out)!Appended(out, data)  BY DEF Made!AppendBytes
<1> QED  BY <1>1, AppendedHolds

LEMMA PrependEffect ==
  ASSUME Well(out), out.reader = 16, NEW data \in Strings, Len(data) <= 8, Made(out)!Prepend(data)
  PROVE  Well(out') /\ Held(out') = data \o Held(out)
<1> DEFINE p == [out EXCEPT !.reader = @ - Len(data),
                            !.cells = Writer!Overwrite(@, out.reader - Len(data), data)]
<1>1. out' = p
  <2>1. ~(Len(data) > out.reader)
    <3>1. Len(data) \in Nat  BY DEF Strings
    <3> QED  BY <3>1
  <2> QED  BY <2>1 DEF Made!Prepend, Made!Overwrite, Writer!Overwrite
<1>2. Writer!Sound(out) /\ Len(data) <= out.reader  BY WellIs
<1>3. Writer!Sound(p) /\ Writer!Piece(p) = data \o Writer!Content
  BY <1>2, BufferAssumed, Writer!PrependPuts DEF Strings
<1>4. Writer!Content = Writer!Piece(out)  BY DEF Writer!Content
<1> HIDE DEF p
<1> QED  BY <1>1, <1>3, <1>4, WellIs

\* What the network carries is gone from the writer's and has come to the reader's.
LEMMA CarryEffect ==
  ASSUME Well(out), Well(in), NEW n \in Nat, n <= Len(Held(out)),
         Made(out)!RetrieveAsString(n), in' = Made(in)!Appended(in, moved')
  PROVE  /\ Well(out') /\ moved' \in Strings /\ Held(out) = moved' \o Held(out')
         /\ n = Len(Held(out)) => out'.reader = 16 /\ Held(out') = <<>>
         /\ Well(in') /\ Held(in') = Held(in) \o moved'
<1>1. /\ Held(out) \in Strings /\ Len(Held(out)) \in Nat /\ Made(out)!ReadableBytes(out) = Len(Held(out))
      /\ n \in 0..Len(Held(out))
  BY HeldIs
<1>2. /\ Writer!Sound(out) /\ Writer!Content = Held(out) /\ Writer!Granted(n) = n
      /\ Made(out)!Content = Held(out)
  <2>1. Writer!ReadableBytes(out) = Len(Held(out))
    BY WellIs, <1>1 DEF Writer!ReadableBytes
  <2>2. Writer!Content = Writer!Piece(out)  BY DEF Writer!Content
  <2>3. Made(out)!Content = Writer!Content
    BY DEF Made!Content, Writer!Content, Made!Piece, Writer!Piece, Made!ReadableBytes,
           Writer!ReadableBytes
  <2> QED  BY <1>1, <2>1, <2>2, <2>3, WellIs DEF Writer!Granted
<1>3. out' = Writer!Retrieved(n) /\ moved' = SubSeq(Held(out), 1, n)
  <2>1. Made(out)!Retrieved(n) = Writer!Retrieved(n)
    BY DEF Made!Retrieved, Writer!Retrieved, Made!ReadableBytes, Writer!ReadableBytes
  <2>2. ~(n > Made(out)!ReadableBytes(out))  BY <1>1
  <2> QED  BY <1>2, <2>1, <2>2 DEF Made!RetrieveAsString
<1>4. Writer!Sound(out') /\ Writer!Piece(out') = SubSeq(Held(out), n + 1, Len(Held(out)))
  <2>1. /\ Writer!Sound(Writer!Retrieved(n))
        /\ Writer!Piece(Writer!Retrieved(n))
             = SubSeq(Writer!Content, Writer!Granted(n) + 1, Len(Writer!Content))
    BY <1>2, BufferAssumed, Writer!RetrievedDropsFront
  <2> QED  BY <1>2, <1>3, <2>1
<1>5. Well(out') /\ Held(out') = SubSeq(Held(out), n + 1, Len(Held(out)))
  BY <1>4, WellIs
<1>6. moved' \in Strings /\ Held(out) = moved' \o Held(out')
  BY <1>1, <1>3, <1>5, CutInTwo
<1>7. ASSUME n = Len(Held(out)) PROVE out'.reader = 16 /\ Held(out') = <<>>
  <2>1. n = Writer!ReadableBytes(out)  BY <1>1, <1>7, WellIs DEF Writer!ReadableBytes
  <2>2. Writer!Retrieved(n) = [out EXCEPT !.reader = 16, !.writer = 16]
    BY <1>1, <1>7, <2>1 DEF Writer!Retrieved
  <2>3. out \in [cells : Strings, reader : Nat, writer : Nat]  BY DEF Well
  <2>4. out'.reader = 16  BY <1>3, <2>2, <2>3
  <2>5. Len(Held(out')) = Len(Held(out)) - n /\ Held(out') \in Strings
    BY <1>1, <1>5, CutInTwo
  <2>6. Len(Held(out')) = 0  BY <1>1, <1>7, <2>5
  <2> QED  BY <2>4, <2>5, <2>6, EmptySeq DEF Strings
<1>8. Well(in') /\ Held(in') = Held(in) \o moved'
  BY <1>6, AppendedHolds
<1> QED  BY <1>5, <1>6, <1>7, <1>8

\* retrieve drops the front, or refuses.
LEMMA TakeEffect ==
  ASSUME Well(in), NEW n \in Nat
  PROVE  /\ n > Len(Held(in)) => Made(in)!Retrieved(n) = in
         /\ n <= Len(Held(in)) =>
               /\ Well(Made(in)!Retrieved(n))
               /\ Held(Made(in)!Retrieved(n)) = SubSeq(Held(in), n + 1, Len(Held(in)))
<1>1. /\ Held(in) \in Strings /\ Len(Held(in)) \in Nat /\ Made(in)!ReadableBytes(in) = Len(Held(in))
  BY HeldIs
<1>2. /\ Reader!Sound(in) /\ Reader!Content = Held(in) /\ Reader!ReadableBytes(in) = Len(Held(in))
  <2>1. Reader!ReadableBytes(in) = Len(Held(in))
    BY WellIs, <1>1 DEF Reader!ReadableBytes
  <2>2. Reader!Content = Reader!Piece(in)  BY DEF Reader!Content
  <2> QED  BY <2>1, <2>2, WellIs
<1>3. Made(in)!Retrieved(n) = Reader!Retrieved(n)
  BY DEF Made!Retrieved, Reader!Retrieved, Made!ReadableBytes, Reader!ReadableBytes
<1>4. n > Len(Held(in)) => Made(in)!Retrieved(n) = in
  BY <1>2, <1>3 DEF Reader!Retrieved
<1>5. ASSUME n <= Len(Held(in))
      PROVE  /\ Well(Made(in)!Retrieved(n))
             /\ Held(Made(in)!Retrieved(n)) = SubSeq(Held(in), n + 1, Len(Held(in)))
  <2>1. /\ Reader!Sound(Reader!Retrieved(n))
        /\ Reader!Piece(Reader!Retrieved(n))
             = SubSeq(Reader!Content, Reader!Granted(n) + 1, Len(Reader!Content))
    BY <1>2, BufferAssumed, Reader!RetrievedDropsFront
  <2>2. Reader!Granted(n) = n  BY <1>1, <1>2, <1>5 DEF Reader!Granted
  <2> QED  BY <1>2, <1>3, <2>1, <2>2, WellIs
<1> QED  BY <1>4, <1>5


-----------------------------------------------------------------------------
(* What the searches find.                                                 *)

LEMMA MinIs ==
  ASSUME NEW T \in SUBSET Int, NEW x \in T, \A y \in T : x <= y
  PROVE  Min(T) = x
<1> DEFINE P(z) == z \in T /\ \A y \in T : z <= y
<1>1. P(x)  OBVIOUS
<1>2. \A z : P(z) => z = x  OBVIOUS
<1> HIDE DEF P
<1>3. (CHOOSE z : P(z)) = x  BY <1>1, <1>2
<1>4. Min(T) = CHOOSE z \in T : \A y \in T : z <= y  BY DEF Min
<1> QED  BY <1>3, <1>4 DEF P

LEMMA MaxIs ==
  ASSUME NEW k \in Int
  PROVE  Max({0, k}) = IF k > 0 THEN k ELSE 0
<1> DEFINE T == {0, k}
           x == IF k > 0 THEN k ELSE 0
           P(z) == z \in T /\ \A y \in T : z >= y
<1>1. P(x)  OBVIOUS
<1>2. \A z : P(z) => z = x  OBVIOUS
<1>3. Max(T) = CHOOSE z \in T : \A y \in T : z >= y  BY DEF Max
<1>4. (CHOOSE z \in T : \A y \in T : z >= y) = CHOOSE z : P(z)  OBVIOUS
<1> HIDE DEF P, x
<1>5. (CHOOSE z : P(z)) = x  BY <1>1, <1>2
<1> QED  BY <1>3, <1>4, <1>5 DEF x

\* k octets of a string after the first m.
LEMMA AfterFirst ==
  ASSUME NEW s \in Strings, NEW m \in Nat, NEW k \in Nat, m + k <= Len(s)
  PROVE  /\ SubSeq(s, m + 1, m + k) \in Strings /\ Len(SubSeq(s, m + 1, m + k)) = k
         /\ \A i \in 1..k : SubSeq(s, m + 1, m + k)[i] = s[m + i]
<1> DEFINE x == m + 1
           y == m + k
<1>1. Len(s) \in Nat /\ \A i \in 1..Len(s) : s[i] \in Octet  BY DEF Strings
<1>2. x \in Int /\ y \in Int /\ y - x + 1 = k /\ (x <= y \/ k = 0) /\ (x <= y => k # 0)
  OBVIOUS
<1>3. \A i \in x..y : s[i] \in Octet
  <2>1. \A i \in x..y : i \in 1..Len(s)  BY <1>1
  <2> QED  BY <1>1, <2>1
<1>4. \A i \in 1..k : x + i - 1 = m + i  OBVIOUS
<1> HIDE DEF x, y
<1>5. /\ SubSeq(s, x, y) \in Seq(Octet)
      /\ Len(SubSeq(s, x, y)) = IF x <= y THEN y - x + 1 ELSE 0
      /\ \A i \in 1..(y - x + 1) : SubSeq(s, x, y)[i] = s[x + i - 1]
  BY <1>2, <1>3, SubSeqProperties
<1>6. Len(SubSeq(s, x, y)) = k  BY <1>2, <1>5
<1>7. \A i \in 1..k : SubSeq(s, x, y)[i] = s[m + i]  BY <1>2, <1>4, <1>5
<1> QED  BY <1>5, <1>6, <1>7 DEF x, y, Strings

\* As many cells from the reader's index as are readable are what is held.
LEMMA CellsAre ==
  ASSUME NEW b, Well(b), NEW k \in 0..Len(Held(b))
  PROVE  SubSeq(b.cells, b.reader + 1, b.reader + k) = SubSeq(Held(b), 1, k)
<1> DEFINE h == Held(b)
           s == SubSeq(b.cells, b.reader + 1, b.reader + k)
           t == SubSeq(h, 1, k)
<1>1. /\ b.cells \in Strings /\ Len(b.cells) \in Nat /\ b.reader \in Nat /\ b.writer \in Nat
      /\ b.reader <= b.writer /\ b.writer <= Len(b.cells)
      /\ h \in Strings /\ Len(h) = b.writer - b.reader /\ Len(h) \in Nat
      /\ \A i \in 1..Len(h) : h[i] = b.cells[b.reader + i]
  BY HeldIs
<1>3. k \in Nat /\ k <= Len(h) /\ k \in 0..Len(h)  BY <1>1
<1> HIDE DEF h
<1>2. t \in Strings /\ Len(t) = k /\ \A i \in 1..k : t[i] = h[i]  BY <1>1, <1>3, CutInTwo
<1> HIDE DEF t
<1>5. /\ s \in Strings /\ Len(s) = k
      /\ \A i \in 1..k : s[i] = b.cells[b.reader + i]
  <2>1. b.reader + k <= Len(b.cells)  BY <1>1, <1>3
  <2> QED  BY <1>1, <1>3, <2>1, AfterFirst
<1> HIDE DEF s
<1>6. \A i \in 1..k : s[i] = t[i]
  <2>1. \A i \in 1..k : i \in 1..Len(h)  BY <1>1, <1>3
  <2> QED  BY <1>1, <1>2, <1>5, <2>1
<1>7. s = t  BY <1>2, <1>5, <1>6, SeqEqual DEF Strings
<1> QED  BY <1>7 DEF s, t, h

\* What is held is what has come of the line v and its end, and perhaps more.
Coming(h, v) ==
    /\ \A i \in 1..Len(v) : i <= Len(h) => h[i] = v[i] /\ v[i] # 10
    /\ Len(v) + 1 <= Len(h) => h[Len(v) + 1] = 13
    /\ Len(v) + 2 <= Len(h) => h[Len(v) + 2] = 10

\* In terms of what is held.
LEMMA Positions ==
  ASSUME NEW r \in Nat, NEW w \in Nat, NEW len \in Nat, len = w - r,
         NEW first \in Nat, first >= r, NEW k \in Nat, NEW i \in first..(w - k), k > 0
  PROVE  i + k - r \in 1..len /\ r + (i + k - r) = i + k /\ i \in Int
OBVIOUS

LEMMA SearchFinds ==
  ASSUME NEW b, Well(b), NEW v \in Strings, Coming(Held(b), v),
         NEW s \in Nat, s <= Len(v)
  PROVE  /\ Search(b, b.reader + s, CRLF) =
               IF Len(v) + 2 <= Len(Held(b)) THEN b.reader + Len(v) ELSE Null
         /\ Search(b, b.reader + s, << 10 >>) =
               IF Len(v) + 2 <= Len(Held(b)) THEN b.reader + Len(v) + 1 ELSE Null
<1> DEFINE h == Held(b)
           n == Len(v)
           first == b.reader + s
           F(t) == {i \in first..(b.writer - Len(t)) : SubSeq(b.cells, i + 1, i + Len(t)) = t}
           C == {i \in first..(b.writer - 2) : SubSeq(b.cells, i + 1, i + 2) = CRLF}
           E == {i \in first..(b.writer - 1) : SubSeq(b.cells, i + 1, i + 1) = <<10>>}
<1>1. /\ b.cells \in Strings /\ Len(b.cells) \in Nat /\ b.reader \in Nat /\ b.writer \in Nat
      /\ b.reader <= b.writer /\ b.writer <= Len(b.cells)
      /\ h \in Strings /\ Len(h) = b.writer - b.reader /\ Len(h) \in Nat
      /\ \A i \in 1..Len(h) : h[i] = b.cells[b.reader + i]
  BY HeldIs
<1>2. n \in Nat /\ first \in Nat  BY <1>1 DEF Strings
<1>3. /\ Search(b, first, CRLF) = IF C = {} THEN Null ELSE Min(C)
      /\ Search(b, first, <<10>>) = IF E = {} THEN Null ELSE Min(E)
  <2>1. Len(CRLF) = 2 /\ Len(<<10>>) = 1  BY DEF CRLF
  <2>2. F(CRLF) = C /\ F(<<10>>) = E  BY <2>1
  <2>3. /\ Search(b, first, CRLF) = IF F(CRLF) = {} THEN Null ELSE Min(F(CRLF))
        /\ Search(b, first, <<10>>) = IF F(<<10>>) = {} THEN Null ELSE Min(F(<<10>>))
    BY DEF Search
  <2> HIDE DEF F, C, E
  <2> QED  BY <2>2, <2>3
<1> HIDE DEF h, n
<1>4. Coming(h, v) /\ n = Len(v)  BY DEF h, n
\* No octet before the line's end is the last octet of one.
<1>5. \A j \in 1..Len(h) : h[j] = 10 => j >= n + 2
  <2> SUFFICES ASSUME NEW j \in 1..Len(h), h[j] = 10, j < n + 2 PROVE FALSE
    BY <1>1, <1>2
  <2>1. j \in 1..n \/ j = n + 1  BY <1>1, <1>2
  <2> QED  BY <1>1, <1>2, <1>4, <2>1 DEF Coming
<1>6. \A i \in first..(b.writer - 2) :
         SubSeq(b.cells, i + 1, i + 2) = CRLF <=> b.cells[i + 1] = 13 /\ b.cells[i + 2] = 10
  <2> TAKE i \in first..(b.writer - 2)
  <2> DEFINE p == SubSeq(b.cells, i + 1, i + 2)
  <2>1. i \in Nat /\ i + 2 <= Len(b.cells)
    <3>1. b.writer \in Nat /\ Len(b.cells) \in Nat /\ b.writer <= Len(b.cells)  BY <1>1
    <3> QED  BY <1>2, <3>1
  <2>3. p \in Seq(Octet) /\ Len(p) = 2 /\ p[1] = b.cells[i + 1] /\ p[2] = b.cells[i + 2]
    BY <1>1, <2>1, AfterFirst DEF Strings
  <2> HIDE DEF p
  <2>4. p = CRLF <=> p[1] = 13 /\ p[2] = 10
    <3>1. CRLF[1] = 13 /\ CRLF[2] = 10 /\ CRLF \in Seq(Octet) /\ Len(CRLF) = 2
      BY DEF CRLF, Octet
    <3>2. ASSUME p[1] = 13, p[2] = 10 PROVE p = CRLF
      <4>1. \A j \in 1..Len(p) : p[j] = CRLF[j]
        <5>1. \A j \in 1..Len(p) : j = 1 \/ j = 2  BY <2>3
        <5> QED  BY <3>1, <3>2, <5>1
      <4> QED  BY <2>3, <3>1, <4>1, SeqEqual
    <3> QED  BY <3>1, <3>2
  <2> QED  BY <2>3, <2>4 DEF p
<1>7. \A i \in first..(b.writer - 1) :
         SubSeq(b.cells, i + 1, i + 1) = <<10>> <=> b.cells[i + 1] = 10
  <2> TAKE i \in first..(b.writer - 1)
  <2> DEFINE p == SubSeq(b.cells, i + 1, i + 1)
  <2>1. i \in Nat /\ i + 1 <= Len(b.cells)
    <3>1. b.writer \in Nat /\ Len(b.cells) \in Nat /\ b.writer <= Len(b.cells)  BY <1>1
    <3> QED  BY <1>2, <3>1
  <2>3. p \in Seq(Octet) /\ Len(p) = 1 /\ p[1] = b.cells[i + 1]
    BY <1>1, <2>1, AfterFirst DEF Strings
  <2> HIDE DEF p
  <2>4. p = <<10>> <=> p[1] = 10
    <3>1. <<10>> \in Seq(Octet) /\ Len(<<10>>) = 1 /\ <<10>>[1] = 10  BY DEF Octet
    <3>2. ASSUME p[1] = 10 PROVE p = <<10>>
      <4>1. \A j \in 1..Len(p) : p[j] = <<10>>[j]
        <5>1. \A j \in 1..Len(p) : j = 1  BY <2>3
        <5> QED  BY <3>1, <3>2, <5>1
      <4> QED  BY <2>3, <3>1, <4>1, SeqEqual
    <3> QED  BY <3>1, <3>2
  <2> QED  BY <2>3, <2>4 DEF p
<1>8. \A i \in C : i \in Int /\ i >= b.reader + n /\ n + 2 <= Len(h)
  <2> TAKE i \in C
  <2> DEFINE j == i + 2 - b.reader
  <2>1. i \in first..(b.writer - 2) /\ b.cells[i + 2] = 10  BY <1>6
  <2>2. j \in 1..Len(h) /\ b.reader + j = i + 2 /\ i \in Int
    <3>1. b.reader \in Nat /\ b.writer \in Nat /\ Len(h) \in Nat /\ Len(h) = b.writer - b.reader
          /\ first \in Nat /\ first >= b.reader
      BY <1>1
    <3>2. 2 \in Nat /\ 2 > 0 /\ i \in first..(b.writer - 2)  BY <2>1
    <3> HIDE DEF first, C
    <3> QED  BY <3>1, <3>2, Positions
  <2> HIDE DEF j, C
  <2>3. j >= n + 2  BY <1>1, <1>5, <2>1, <2>2
  <2> DEFINE x == b.reader
             l == Len(h)
  <2>4. x \in Nat /\ l \in Nat /\ n \in Nat /\ i \in Int /\ j \in 1..l /\ x + j = i + 2
    BY <1>1, <1>2, <2>2
  <2> HIDE DEF x, l
  <2>5. i >= x + n /\ n + 2 <= l  BY <2>3, <2>4
  <2> QED  BY <2>4, <2>5 DEF x, l
<1>9. \A i \in E : i \in Int /\ i >= b.reader + n + 1 /\ n + 2 <= Len(h)
  <2> TAKE i \in E
  <2> DEFINE j == i + 1 - b.reader
  <2>1. i \in first..(b.writer - 1) /\ b.cells[i + 1] = 10  BY <1>7
  <2>2. j \in 1..Len(h) /\ b.reader + j = i + 1 /\ i \in Int
    <3>1. b.reader \in Nat /\ b.writer \in Nat /\ Len(h) \in Nat /\ Len(h) = b.writer - b.reader
          /\ first \in Nat /\ first >= b.reader
      BY <1>1
    <3>2. 1 \in Nat /\ 1 > 0 /\ i \in first..(b.writer - 1)  BY <2>1
    <3> HIDE DEF first, E
    <3> QED  BY <3>1, <3>2, Positions
  <2> HIDE DEF j, E
  <2>3. j >= n + 2  BY <1>1, <1>5, <2>1, <2>2
  <2> DEFINE x == b.reader
             l == Len(h)
  <2>4. x \in Nat /\ l \in Nat /\ n \in Nat /\ i \in Int /\ j \in 1..l /\ x + j = i + 1
    BY <1>1, <1>2, <2>2
  <2> HIDE DEF x, l
  <2>5. i >= x + n + 1 /\ n + 2 <= l  BY <2>3, <2>4
  <2> QED  BY <2>4, <2>5 DEF x, l
<1>10. CASE n + 2 <= Len(h)
  <2> DEFINE c == b.reader + n
  <2>1. /\ c \in first..(b.writer - 2) /\ c + 1 \in first..(b.writer - 1)
        /\ n + 1 \in 1..Len(h) /\ n + 2 \in 1..Len(h)
        /\ b.reader + (n + 1) = c + 1 /\ b.reader + (n + 2) = c + 2 /\ (c + 1) + 1 = c + 2
    <3> HIDE DEF C, E, F
    <3>1. b.reader \in Nat /\ b.writer \in Nat /\ Len(h) \in Nat /\ Len(h) = b.writer - b.reader
          /\ s \in Nat /\ s <= n /\ n \in Nat
      BY <1>1, <1>2 DEF n
    <3> DEFINE x == b.reader
               y == b.writer
               l == Len(h)
    <3>2. x \in Nat /\ y \in Nat /\ l \in Nat /\ l = y - x /\ s \in Nat /\ s <= n /\ n \in Nat
          /\ n + 2 <= l
      BY <1>10, <3>1
    <3> HIDE DEF x, y, l
    <3>3. /\ x + n \in (x + s)..(y - 2) /\ (x + n) + 1 \in (x + s)..(y - 1)
          /\ n + 1 \in 1..l /\ n + 2 \in 1..l
          /\ x + (n + 1) = (x + n) + 1 /\ x + (n + 2) = (x + n) + 2 /\ ((x + n) + 1) + 1 = (x + n) + 2
      BY <3>2
    <3> QED  BY <3>3 DEF x, y, l
  <2>2. h[n + 1] = 13 /\ h[n + 2] = 10  BY <1>1, <1>2, <1>4, <1>10, <2>1 DEF Coming
  <2>3. b.cells[c + 1] = 13 /\ b.cells[c + 2] = 10  BY <1>1, <2>1, <2>2
  <2>4. c \in C  BY <1>6, <2>1, <2>3
  <2>5. c + 1 \in E  BY <1>7, <2>1, <2>3
  <2> HIDE DEF C, E
  <2>6. Min(C) = c
    <3>1. C \in SUBSET Int /\ \A i \in C : c <= i  BY <1>8, <1>1, <1>2
    <3> QED  BY <2>4, <3>1, MinIs
  <2>7. Min(E) = c + 1
    <3>1. E \in SUBSET Int /\ \A i \in E : c + 1 <= i  BY <1>9, <1>1, <1>2
    <3> QED  BY <2>5, <3>1, MinIs
  <2>8. C # {} /\ E # {}  BY <2>4, <2>5
  <2> QED  BY <1>3, <1>10, <2>6, <2>7, <2>8 DEF h, n
<1>11. CASE ~(n + 2 <= Len(h))
  <2>1. C = {} /\ E = {}
    <3> HIDE DEF C, E
    <3> QED  BY <1>8, <1>9, <1>11
  <2> HIDE DEF C, E
  <2> QED  BY <1>3, <1>11, <2>1 DEF h, n
<1> QED  BY <1>10, <1>11

\* By every search the line ends at the same place, once its end has come.
LEMMA LineEndsAre ==
  ASSUME NEW b, Well(b), NEW v \in Strings, Coming(Held(b), v),
         NEW s \in Nat, s <= Len(v), s <= Len(Held(b)), NEW how \in Searches
  PROVE  LineEnds(b, b.reader + s)[how] =
            IF Len(v) + 2 <= Len(Held(b))
            THEN {[line |-> b.reader + Len(v), next |-> b.reader + Len(v) + 2]}
            ELSE {}
<1> DEFINE n == Len(v)
           all == n + 2 <= Len(Held(b))
           crlf == IF all THEN b.reader + n ELSE Null
           eol == IF all THEN b.reader + n + 1 ELSE Null
           Crlf(at) == IF at = Null THEN {} ELSE {[line |-> at, next |-> at + 2]}
           Eol(at) == IF at = Null THEN {} ELSE {[line |-> at - 1, next |-> at + 1]}
           found == IF all THEN {[line |-> b.reader + n, next |-> b.reader + n + 2]} ELSE {}
<1>1. b.reader \in Nat /\ b.writer \in Nat /\ Len(Held(b)) = b.writer - b.reader /\ n \in Nat
      /\ b.reader + 0 = b.reader
  BY HeldIs DEF Strings
<1>2. InReadable(b, b.reader + s)  BY <1>1 DEF InReadable
<1>3. /\ Search(b, b.reader + s, CRLF) = crlf /\ Search(b, b.reader + s, <<10>>) = eol
      /\ Search(b, b.reader + 0, CRLF) = crlf /\ Search(b, b.reader + 0, <<10>>) = eol
  <2>1. 0 \in Nat /\ 0 <= n  BY <1>1
  <2> QED  BY <2>1, SearchFinds
<1>4. Crlf(crlf) = found /\ Eol(eol) = found
  <2> HIDE DEF n
  <2>1. CASE all
    <3>1. crlf # Null /\ eol # Null /\ eol - 1 = b.reader + n /\ eol + 1 = b.reader + n + 2
      BY <1>1, <2>1 DEF Null
    <3> QED  BY <2>1, <3>1
  <2>2. CASE ~all  BY <2>2
  <2> QED  BY <2>1, <2>2
<1> HIDE DEF crlf, eol, found, all
<1>5. LineEnds(b, b.reader + s) =
         [findString |-> Crlf(FindString(b, CRLF)), findCRLF |-> Crlf(FindCRLF(b)),
          findCRLFFrom |-> Crlf(FindCRLFFrom(b, b.reader + s)),
          findEOL |-> Eol(FindEOL(b)), findEOLFrom |-> Eol(FindEOLFrom(b, b.reader + s))]
  BY DEF LineEnds
<1>6. FindString(b, CRLF) = crlf /\ FindCRLF(b) = crlf /\ FindEOL(b) = eol
  BY <1>1, <1>3 DEF FindString, FindCRLF, FindEOL
<1>7. FindCRLFFrom(b, b.reader + s) = crlf /\ FindEOLFrom(b, b.reader + s) = eol
  BY <1>2, <1>3 DEF FindCRLFFrom, FindEOLFrom
<1> HIDE DEF Crlf, Eol
<1>8. LineEnds(b, b.reader + s) =
         [findString |-> found, findCRLF |-> found, findCRLFFrom |-> found,
          findEOL |-> found, findEOLFrom |-> found]
  BY <1>4, <1>5, <1>6, <1>7
<1>9. LineEnds(b, b.reader + s)[how] = found  BY <1>8 DEF Searches
<1> QED  BY <1>9 DEF found, all


-----------------------------------------------------------------------------
(* The inductive invariant.                                                *)

Message == [fields : Seq(Fields), todo : Seq(Fields)]

NetTypes ==
    /\ Well(out) /\ Well(in)
    /\ messages \in Seq(Message) /\ framed \in BOOLEAN
    /\ expected \in Seq(Fields) /\ fields \in Seq(Fields) /\ scanned \in Nat

FieldsSoFar ==
    Len(fields) <= Len(expected) /\ \A i \in 1..Len(fields) : fields[i] = expected[i]

\* The octets that have been sent off and not been read, wherever they are.
Sent == IF framed THEN Held(out) ELSE <<>>
OnTheWay == Held(in) \o Sent

\* Those of the fields that have not been read.
NoneIsLost ==
    \E at : /\ Layout(at, expected, Len(expected))
            /\ at[Len(fields)] \o OnTheWay = at[Len(expected)]

\* d fields of the message m are in the writer's Buffer.
WrittenSoFar(m, d) ==
    /\ d \in Nat /\ Len(m.todo) + d = Len(m.fields)
    /\ \A i \in 1..Len(m.todo) : m.todo[i] = m.fields[d + i]
    /\ \E at : Layout(at, m.fields, d) /\ Held(out) = at[d]

InWork ==
    /\ framed => messages # <<>>
    /\ \A i \in 2..Len(messages) : messages[i].todo = messages[i].fields
    /\ ~framed => /\ out.reader = 16
                  /\ messages = <<>> => Held(out) = <<>>
                  /\ messages # <<>> => \E d \in Nat : WrittenSoFar(messages[1], d)

\* What need not be searched again is within the line that comes next.
ScannedSoFar ==
    /\ scanned <= Len(Held(in))
    /\ scanned # 0 => /\ Len(fields) < Len(expected) /\ Wanted.type = "line"
                      /\ scanned <= Len(Wanted.value)

NetInv == NetTypes /\ FieldsSoFar /\ NoneIsLost /\ InWork /\ ScannedSoFar

LEMMA NoFields ==
  ASSUME NEW fs
  PROVE  Layout([i \in 0..0 |-> <<>>], fs, 0) /\ [i \in 0..0 |-> <<>>][0] = <<>>
<1>1. <<>> \in Strings  BY EmptySeq DEF Strings
<1> QED  BY <1>1 DEF Layout

LEMMA InitHolds == NetBufferInit => NetInv
<1> SUFFICES ASSUME NetBufferInit PROVE NetInv
  OBVIOUS
<1>1. PICK list \in MessageLists :
         messages = [i \in 1..Len(list) |-> [fields |-> list[i], todo |-> list[i]]]
  BY DEF NetBufferInit
<1>2. /\ Well(out) /\ Held(out) = <<>> /\ out.reader = 16 /\ in = out
  BY MadeIsEmpty DEF NetBufferInit
<1>3. framed = FALSE /\ expected = <<>> /\ fields = <<>> /\ scanned = 0
  BY DEF NetBufferInit
<1>4. list \in Seq(Seq(Fields)) /\ Len(list) \in Nat /\ \A i \in 1..Len(list) : list[i] \in Seq(Fields)
  BY MessagesAssumption
<1>5. messages \in Seq(Message) /\ Len(messages) = Len(list)
  <2>1. \A i \in 1..Len(list) : [fields |-> list[i], todo |-> list[i]] \in Message
    BY <1>4 DEF Message
  <2>2. messages \in [1..Len(list) -> Message]  BY <1>1, <2>1
  <2>3. Len(list) \in Nat  BY <1>4
  <2> HIDE DEF Message
  <2> QED  BY ONLY <2>2, <2>3, Writer!FunctionIsSeq
<1>6. NetTypes
  <2>1. <<>> \in Seq(Fields)  BY EmptySeq
  <2> QED  BY <1>2, <1>3, <1>5, <2>1 DEF NetTypes
<1>7. FieldsSoFar  BY <1>3 DEF FieldsSoFar
<1>8. NoneIsLost
  <2> DEFINE at == [i \in 0..0 |-> <<>>]
  <2>1. Layout(at, expected, 0) /\ at[0] = <<>>  BY NoFields
  <2> HIDE DEF at
  <2>2. Len(fields) = 0 /\ Len(expected) = 0  BY <1>3
  <2>3. OnTheWay = <<>>
    <3>1. OnTheWay = <<>> \o <<>>  BY <1>2, <1>3 DEF OnTheWay, Sent
    <3>2. <<>> \in Strings  BY EmptySeq DEF Strings
    <3> QED  BY <3>1, <3>2, ConcatEmptySeq DEF Strings
  <2>4. at[0] \o OnTheWay = at[0]
    <3>1. <<>> \in Strings  BY EmptySeq DEF Strings
    <3> QED  BY <2>1, <2>3, <3>1, ConcatEmptySeq DEF Strings
  <2> QED  BY <2>1, <2>2, <2>4 DEF NoneIsLost
<1>9. InWork
  <2>1. \A i \in 1..Len(list) : messages[i] = [fields |-> list[i], todo |-> list[i]]  BY <1>1
  <2>2. ASSUME NEW i \in 2..Len(messages) PROVE messages[i].todo = messages[i].fields
    <3>1. i \in 1..Len(list)  BY <1>4, <1>5
    <3>2. messages[i] = [fields |-> list[i], todo |-> list[i]]  BY <2>1, <3>1
    <3> QED  BY <3>2
  <2>3. ASSUME messages # <<>> PROVE WrittenSoFar(messages[1], 0)
    <3>1. 1 \in 1..Len(list)  BY <1>4, <1>5, <2>3, EmptySeq
    <3>2. messages[1].todo = list[1] /\ messages[1].fields = list[1] /\ Len(list[1]) \in Nat
      <4>1. messages[1] = [fields |-> list[1], todo |-> list[1]]  BY <2>1, <3>1
      <4>2. list[1] \in Seq(Fields)  BY <1>4, <3>1
      <4> QED  BY <4>1, <4>2
    <3>3. \E at : Layout(at, messages[1].fields, 0) /\ Held(out) = at[0]  BY <1>2, NoFields
    <3> QED  BY <3>2, <3>3 DEF WrittenSoFar
  <2>4. 0 \in Nat  OBVIOUS
  <2> QED  BY <1>2, <1>3, <2>2, <2>3, <2>4 DEF InWork
<1>10. ScannedSoFar
  BY <1>2, <1>3, HeldIs DEF ScannedSoFar
<1> QED  BY <1>6, <1>7, <1>8, <1>9, <1>10 DEF NetInv

\* The next octets on the way are those of the next field.
LEMMA NextComes ==
  ASSUME NetInv, Len(fields) < Len(expected)
  PROVE  /\ Wanted \in Fields
         /\ \E rest \in Strings : \E at :
               /\ Layout(at, expected, Len(expected))
               /\ OnTheWay = Octets(Wanted) \o rest
               /\ at[Len(fields) + 1] \o rest = at[Len(expected)]
<1> DEFINE n == Len(fields)
           k == Len(expected)
           o == Octets(Wanted)
<1>1. /\ expected \in Seq(Fields) /\ k \in Nat /\ n \in Nat /\ n < k
      /\ n + 1 \in 0..k /\ n + 1 \in 1..k /\ n \in 0..k /\ k \in 0..k /\ n + 1 - 1 = n
  BY DEF NetInv, NetTypes
<1>2. Wanted \in Fields /\ Wanted = expected[n + 1]  BY <1>1 DEF Wanted
<1>3. o \in Strings  BY <1>2, OctetsAre
<1>4. PICK at : Layout(at, expected, k) /\ at[n] \o OnTheWay = at[k]
  BY DEF NetInv, NoneIsLost
<1>5. PICK rest \in Strings : at[k] = at[n + 1] \o rest
  BY <1>1, <1>4, LayoutBegins, ZenonT(40)
<1> HIDE DEF n, k
<1>6. at[n + 1] = at[n] \o o /\ at[n] \in Strings
  <2>1. at \in [0..k -> Strings] /\ \A i \in 1..k : at[i] = at[i - 1] \o Octets(expected[i])
    BY <1>4 DEF Layout
  <2> DEFINE j == n + 1
  <2>3. j \in 1..k /\ j - 1 = n  BY <1>1
  <2> HIDE DEF j
  <2>4. at[j] = at[j - 1] \o Octets(expected[j])  BY <2>1, <2>3
  <2>2. at[n + 1] = at[n] \o Octets(expected[n + 1])  BY <2>3, <2>4 DEF j
  <2> QED  BY <1>1, <1>2, <2>1, <2>2
<1> HIDE DEF o
<1>7. at[n] \o OnTheWay = at[n] \o (o \o rest) /\ o \o rest \in Strings
  <2>1. at[k] = (at[n] \o o) \o rest  BY <1>5, <1>6
  <2>2. (at[n] \o o) \o rest = at[n] \o (o \o rest) /\ o \o rest \in Strings
    BY <1>3, <1>6, Associates
  <2> QED  BY <1>4, <2>1, <2>2
<1>8. OnTheWay \in Strings
  <2>1. Held(in) \in Strings /\ Held(out) \in Strings  BY HeldIs DEF NetInv, NetTypes
  <2>2. <<>> \in Strings  BY EmptySeq DEF Strings
  <2>3. Sent \in Strings  BY <2>1, <2>2 DEF Sent
  <2> QED  BY <2>1, <2>3, Associates DEF OnTheWay
<1>9. OnTheWay = o \o rest
  BY <1>6, <1>7, <1>8, SameAfter
<1> QED  BY <1>2, <1>4, <1>5, <1>9 DEF n, k, o


-----------------------------------------------------------------------------
(* The steps.                                                              *)

LEMMA TypesGive ==
  ASSUME NetInv
  PROVE  /\ Well(out) /\ Well(in) /\ messages \in Seq(Message) /\ framed \in BOOLEAN
         /\ expected \in Seq(Fields) /\ fields \in Seq(Fields) /\ scanned \in Nat
         /\ Len(expected) \in Nat /\ Len(fields) \in Nat /\ Len(messages) \in Nat
         /\ Len(fields) <= Len(expected)
         /\ Held(in) \in Strings /\ Held(out) \in Strings /\ Len(Held(in)) \in Nat
         /\ Len(Held(out)) \in Nat
         /\ Made(out)!ReadableBytes(out) = Len(Held(out))
         /\ Made(in)!ReadableBytes(in) = Len(Held(in))
         /\ <<>> \in Strings /\ Sent \in Strings
<1>1. /\ Well(out) /\ Well(in) /\ messages \in Seq(Message) /\ framed \in BOOLEAN
      /\ expected \in Seq(Fields) /\ fields \in Seq(Fields) /\ scanned \in Nat
      /\ Len(fields) <= Len(expected)
  BY DEF NetInv, NetTypes, FieldsSoFar
<1>2. Len(expected) \in Nat /\ Len(fields) \in Nat /\ Len(messages) \in Nat  BY <1>1
<1>3. /\ Held(in) \in Strings /\ Held(out) \in Strings /\ Len(Held(in)) \in Nat
      /\ Len(Held(out)) \in Nat
      /\ Made(out)!ReadableBytes(out) = Len(Held(out))
      /\ Made(in)!ReadableBytes(in) = Len(Held(in))
  BY <1>1, HeldIs
<1>4. <<>> \in Strings  BY EmptySeq DEF Strings
<1>5. Sent \in Strings  BY <1>3, <1>4 DEF Sent
<1> QED  BY <1>1, <1>2, <1>3, <1>4, <1>5

\* The first of the messages.
LEMMA HeadIs ==
  ASSUME NetInv, messages # <<>>
  PROVE  /\ Head(messages) = messages[1] /\ messages[1] \in Message /\ 1 \in 1..Len(messages)
         /\ messages[1].fields \in Seq(Fields) /\ messages[1].todo \in Seq(Fields)
         /\ Len(messages[1].fields) \in Nat /\ Len(messages[1].todo) \in Nat
<1>1. messages \in Seq(Message) /\ Len(messages) \in Nat  BY TypesGive
<1>2. 1 \in 1..Len(messages)  BY <1>1, EmptySeq
<1>3. messages[1] \in Message /\ Head(messages) = messages[1]  BY <1>1, <1>2
<1> QED  BY <1>2, <1>3 DEF Message

LEMMA PutFieldHolds == ASSUME NetInv, PutField PROVE NetInv'
<1> DEFINE m == messages[1]
           f == m.todo[1]
           w == [fields |-> m.fields, todo |-> Tail(m.todo)]
<1>1. /\ messages # <<>> /\ ~framed /\ Len(Head(messages).todo) > 0
      /\ AppendField(Head(Head(messages).todo))
      /\ messages' = [messages EXCEPT ![1].todo = Tail(@)]
      /\ in' = in /\ framed' = framed /\ expected' = expected /\ fields' = fields
      /\ scanned' = scanned
  BY DEF PutField
<1>2. /\ Head(messages) = m /\ m \in Message /\ 1 \in 1..Len(messages)
      /\ m.fields \in Seq(Fields) /\ m.todo \in Seq(Fields) /\ Len(m.fields) \in Nat
      /\ Len(m.todo) \in Nat /\ Len(messages) \in Nat /\ messages \in Seq(Message)
  BY <1>1, HeadIs, TypesGive
<1>3. PICK d \in Nat : WrittenSoFar(m, d)
  BY <1>1 DEF NetInv, InWork
<1>4. PICK at : Layout(at, m.fields, d) /\ Held(out) = at[d]
  BY <1>3 DEF WrittenSoFar
<1>5. /\ Len(m.todo) + d = Len(m.fields)
      /\ \A i \in 1..Len(m.todo) : m.todo[i] = m.fields[d + i]
      /\ Len(m.todo) > 0 /\ 1 \in 1..Len(m.todo)
  BY <1>1, <1>2, <1>3 DEF WrittenSoFar
<1>6. /\ f \in Fields /\ f = m.fields[d + 1] /\ Head(m.todo) = f /\ d < Len(m.fields)
      /\ m.todo # <<>>
  BY <1>2, <1>5, EmptySeq
<1>7. /\ Tail(m.todo) \in Seq(Fields) /\ Len(Tail(m.todo)) = Len(m.todo) - 1
      /\ \A i \in 1..Len(Tail(m.todo)) : Tail(m.todo)[i] = m.todo[i + 1]
  BY <1>2, <1>6, HeadTailProperties
<1>8. messages' \in Seq(Message) /\ Len(messages') = Len(messages) /\ messages'[1] = w
      /\ \A i \in 2..Len(messages) : messages'[i] = messages[i]
  <2>1. m = [fields |-> m.fields, todo |-> m.todo]  BY <1>2 DEF Message
  <2>2. [m EXCEPT !.todo = Tail(@)] = w
    <3> HIDE DEF m
    <3>1. \A x, y, z : m = [fields |-> x, todo |-> y] =>
                       [m EXCEPT !.todo = z] = [fields |-> x, todo |-> z]
      OBVIOUS
    <3> QED  BY <2>1, <3>1
  <2>3. messages' = [messages EXCEPT ![1] = w]  BY <1>1, <2>2
  <2>4. w \in Message  BY <1>2, <1>7 DEF Message
  <2> HIDE DEF m, w
  <2>5. /\ messages' \in Seq(Message) /\ Len(messages') = Len(messages)
        /\ \A i \in 1..Len(messages) : messages'[i] = IF i = 1 THEN w ELSE messages[i]
    BY <1>2, <2>3, <2>4, ExceptSeq
  <2>6. \A i \in 2..Len(messages) : i \in 1..Len(messages) /\ i # 1  BY <1>2
  <2> QED  BY <1>2, <2>5, <2>6
<1>9. Made(out)!AppendBytes(Octets(f))
  BY <1>1, <1>2, <1>6 DEF AppendField, Octets
<1>10. Well(out') /\ Held(out') = Held(out) \o Octets(f) /\ out.reader = 16 /\ out'.reader = 16
  <2>1. Octets(f) \in Strings  BY <1>6, OctetsAre
  <2>2. out.reader = 16  BY <1>1 DEF NetInv, InWork
  <2> QED  BY <1>9, <2>1, <2>2, TypesGive, AppendEffect
<1>11. NetTypes'  BY <1>1, <1>8, <1>10, TypesGive DEF NetTypes
<1>12. FieldsSoFar'  BY <1>1 DEF NetInv, FieldsSoFar
<1>13. OnTheWay' = OnTheWay  BY <1>1 DEF OnTheWay, Sent, Held
<1>14. NoneIsLost'  BY <1>1, <1>13 DEF NetInv, NoneIsLost
<1>15. WrittenSoFar(messages[1], d + 1)'
  <2> HIDE DEF m, f
  <2>1. PICK b : Layout(b, m.fields, d + 1) /\ b[d + 1] = at[d] \o Octets(m.fields[d + 1])
    <3> DEFINE g == m.fields
    <3>1. g \in Seq(Fields) /\ d < Len(g) /\ Layout(at, g, d)  BY <1>2, <1>4, <1>6
    <3> HIDE DEF g
    <3>2. \E b : Layout(b, g, d + 1) /\ b[d + 1] = at[d] \o Octets(g[d + 1])
      BY <3>1, LayoutGrows
    <3> QED  BY <3>2 DEF g
  <2>2. Held(out') = b[d + 1]  BY <1>4, <1>6, <1>10, <2>1
  <2>3. \E b2 : Layout(b2, w.fields, d + 1) /\ Held(out') = b2[d + 1]  BY <2>1, <2>2
  <2>4. d + 1 \in Nat /\ Len(w.todo) + (d + 1) = Len(w.fields)
    <3> DEFINE x == Len(m.todo)
               y == Len(Tail(m.todo))
               z == Len(m.fields)
    <3>1. Len(w.todo) = y /\ Len(w.fields) = z  OBVIOUS
    <3>2. x + d = z /\ x \in Nat /\ y = x - 1  BY <1>2, <1>5, <1>7
    <3> HIDE DEF w, x, y, z
    <3>3. y + (d + 1) = z  BY <3>2
    <3> QED  BY <3>1, <3>3
  <2>5. ASSUME NEW i \in 1..Len(w.todo) PROVE w.todo[i] = w.fields[(d + 1) + i]
    <3>1. i + 1 \in 1..Len(m.todo) /\ d + (i + 1) = (d + 1) + i  BY <1>2, <1>7
    <3>2. Tail(m.todo)[i] = m.todo[i + 1]  BY <1>7
    <3>3. m.todo[i + 1] = m.fields[d + (i + 1)]  BY <1>5, <3>1
    <3> QED  BY <3>1, <3>2, <3>3
  <2> HIDE DEF w
  <2> QED  BY <1>8, <2>3, <2>4, <2>5 DEF WrittenSoFar
<1>16. InWork'
  <2>1. messages' # <<>>  BY <1>2, <1>8, EmptySeq
  <2>2. \A i \in 2..Len(messages') : messages'[i].todo = messages'[i].fields
    BY <1>8 DEF NetInv, InWork
  <2>3. d + 1 \in Nat  OBVIOUS
  <2> QED  BY <1>1, <1>10, <1>15, <2>1, <2>2, <2>3 DEF InWork
<1>17. ScannedSoFar'  BY <1>1 DEF NetInv, ScannedSoFar, Wanted, Held
<1> QED  BY <1>11, <1>12, <1>14, <1>16, <1>17 DEF NetInv


LEMMA PutLengthHolds == ASSUME NetInv, PutLength PROVE NetInv'
<1> DEFINE m == messages[1]
           size == Made(out)!ReadableBytes(out)
           length == <<size % 256, (size \div 256) % 256>>
           f == Integer(length)
           h == Held(in)
           k == Len(expected)
           n == Len(fields)
           more == expected \o <<f>>
           last == Len(m.fields)
<1>1. /\ messages # <<>> /\ ~framed /\ Head(messages).todo = <<>>
      /\ Made(out)!Prepend(SwapOctets(length))
      /\ expected' = more \o Head(messages).fields
      /\ framed' = TRUE /\ in' = in /\ messages' = messages /\ fields' = fields
      /\ scanned' = scanned
  BY DEF PutLength
<1>2. /\ Head(messages) = m /\ m \in Message /\ m.fields \in Seq(Fields)
      /\ last \in Nat /\ messages \in Seq(Message) /\ expected \in Seq(Fields)
      /\ fields \in Seq(Fields) /\ k \in Nat /\ n \in Nat /\ n <= k
      /\ h \in Strings /\ Held(out) \in Strings /\ size \in Nat
  BY <1>1, HeadIs, TypesGive
<1>3. /\ length \in Strings /\ Len(length) = 2 /\ f \in Fields /\ f.value = length
      /\ f.type = "int" /\ Octets(f) = SwapOctets(length)
  <2> HIDE DEF size
  <2>1. length \in Seq(Octet) /\ Len(length) = 2  BY <1>2 DEF Octet
  <2> HIDE DEF length
  <2> QED  BY <2>1 DEF Strings, Integer, Fields, Octets
<1> HIDE DEF length, f, size
<1>4. Octets(f) \in Strings /\ Len(Octets(f)) = 2  BY <1>3, OctetsAre
<1>5. PICK at : Layout(at, m.fields, last) /\ Held(out) = at[last]
  <2>1. PICK d \in Nat : WrittenSoFar(m, d)
    BY <1>1 DEF NetInv, InWork
  <2>2. Len(m.todo) = 0  BY <1>1, <1>2
  <2>3. d = last  BY <2>1, <2>2 DEF WrittenSoFar
  <2> QED  BY <2>1, <2>3 DEF WrittenSoFar
<1>6. /\ Well(out') /\ Held(out') = Octets(f) \o Held(out)
  <2>1. out.reader = 16 /\ Well(out)  BY <1>1, TypesGive DEF NetInv, InWork
  <2> DEFINE data == Octets(f)
  <2>2. data \in Strings /\ Len(data) <= 8 /\ Made(out)!Prepend(data)  BY <1>1, <1>3, <1>4
  <2> HIDE DEF data
  <2>3. Well(out') /\ Held(out') = data \o Held(out)  BY <2>1, <2>2, PrependEffect
  <2> QED  BY <2>3 DEF data
<1>7. expected' = more \o m.fields  BY <1>1, <1>2
<1> HIDE DEF m, h
<1>8. PICK a : Layout(a, expected, k) /\ a[n] \o OnTheWay = a[k]
  BY DEF NetInv, NoneIsLost
<1>9. PICK one : Layout(one, <<f>>, 1) /\ one[1] = Octets(f)
  <2> DEFINE z == [i \in 0..0 |-> <<>>]
  <2>1. Layout(z, <<f>>, 0) /\ z[0] = <<>>  BY NoFields
  <2> HIDE DEF z
  <2>2. <<f>> \in Seq(Fields) /\ Len(<<f>>) = 1 /\ <<f>>[1] = f /\ 0 < 1 /\ 0 + 1 = 1 /\ 0 \in Nat
    BY <1>3
  <2>3. PICK one : Layout(one, <<f>>, 0 + 1) /\ one[0 + 1] = z[0] \o Octets(<<f>>[0 + 1])
    BY <2>1, <2>2, LayoutGrows
  <2>4. <<>> \o Octets(f) = Octets(f)  BY <1>4, ConcatEmptySeq DEF Strings
  <2> QED  BY <2>1, <2>2, <2>3, <2>4
<1>10. <<f>> \in Seq(Fields) /\ Len(<<f>>) = 1  BY <1>3
<1>11. PICK b : /\ Layout(b, more, Len(more)) /\ \A i \in 0..k : b[i] = a[i]
                /\ b[Len(more)] = a[k] \o Octets(f)
  <2> DEFINE g == <<f>>
  <2>1. g \in Seq(Fields) /\ Len(g) = 1 /\ Layout(one, g, Len(g)) /\ one[Len(g)] = Octets(f)
    BY <1>9, <1>10
  <2>2. expected \in Seq(Fields) /\ Layout(a, expected, Len(expected))  BY <1>2, <1>8
  <2> HIDE DEF g
  <2>3. more = expected \o g  BY DEF g
  <2> HIDE DEF more
  <2> DEFINE b == Joined(a, k, one, Len(g))
  <2>5. b = Joined(a, Len(expected), one, Len(g))  OBVIOUS
  <2> HIDE DEF b
  <2>6. Layout(b, more, Len(more))  BY <2>1, <2>2, <2>3, <2>5, LayoutJoins
  <2>4. /\ \A i \in 0..Len(expected) : b[i] = a[i]
        /\ b[Len(more)] = a[Len(expected)] \o one[Len(g)]
    <3>1. k \in Nat /\ Len(g) \in Nat /\ k \in 0..k  BY <1>2, <2>1
    <3>2. Len(more) = k + Len(g)  BY <1>2, <2>1, <2>3, ConcatProperties
    <3>3. a \in [0..k -> Strings]  BY <1>8 DEF Layout
    <3>5. one \in [0..Len(g) -> Strings] /\ one[0] = <<>>  BY <2>1 DEF Layout
    <3> HIDE DEF k
    <3>4. /\ \A i \in 0..k : Joined(a, k, one, Len(g))[i] = a[i]
          /\ Joined(a, k, one, Len(g))[k + Len(g)] = a[k] \o one[Len(g)]
      BY <3>1, <3>3, <3>5, JoinedIs
    <3> QED  BY <2>5, <3>2, <3>4 DEF k
  <2> QED  BY <2>1, <2>4, <2>6
<1>12. more \in Seq(Fields) /\ Len(more) = k + 1 /\ \A i \in 1..k : more[i] = expected[i]
  BY <1>2, <1>10, ConcatProperties
<1> HIDE DEF more
<1>13. PICK c : /\ Layout(c, expected', Len(expected')) /\ \A i \in 0..Len(more) : c[i] = b[i]
                /\ c[Len(expected')] = b[Len(more)] \o Held(out)
  <2> DEFINE g == m.fields
  <2>1. g \in Seq(Fields) /\ Layout(at, g, Len(g)) /\ at[Len(g)] = Held(out)
        /\ expected' = more \o g
    BY <1>2, <1>5, <1>7
  <2>2. more \in Seq(Fields) /\ Layout(b, more, Len(more))  BY <1>11, <1>12
  <2> HIDE DEF g
  <2> DEFINE e == expected'
  <2>3. e = more \o g  BY <2>1
  <2> HIDE DEF e
  <2> DEFINE c == Joined(b, Len(more), at, Len(g))
  <2>5. c = Joined(b, Len(more), at, Len(g))  OBVIOUS
  <2> HIDE DEF c
  <2>6. Layout(c, e, Len(e))  BY <2>1, <2>2, <2>3, <2>5, LayoutJoins
  <2>4. /\ \A i \in 0..Len(more) : c[i] = b[i]
        /\ c[Len(e)] = b[Len(more)] \o at[Len(g)]
    <3>1. Len(more) \in Nat /\ Len(g) \in Nat  BY <2>1, <2>2
    <3>2. b \in [0..Len(more) -> Strings]  BY <2>2 DEF Layout
    <3>5. at \in [0..Len(g) -> Strings] /\ at[0] = <<>>  BY <2>1 DEF Layout
    <3>3. Len(e) = Len(more) + Len(g)  BY <2>1, <2>2, <2>3, ConcatProperties
    <3>4. /\ \A i \in 0..Len(more) : Joined(b, Len(more), at, Len(g))[i] = b[i]
          /\ Joined(b, Len(more), at, Len(g))[Len(more) + Len(g)] = b[Len(more)] \o at[Len(g)]
      BY <3>1, <3>2, <3>5, JoinedIs
    <3> QED  BY <2>5, <3>3, <3>4
  <2> QED  BY <2>1, <2>4, <2>6 DEF e
<1>14. /\ expected' \in Seq(Fields) /\ Len(expected') \in Nat /\ k <= Len(expected')
       /\ \A i \in 1..k : expected'[i] = expected[i]
  <2>1. /\ expected' \in Seq(Fields) /\ Len(expected') = Len(more) + last
        /\ \A i \in 1..(Len(more) + last) :
              expected'[i] = IF i <= Len(more) THEN more[i] ELSE m.fields[i - Len(more)]
    BY <1>2, <1>7, <1>12, ConcatProperties
  <2>2. Len(more) = k + 1 /\ k \in Nat /\ last \in Nat  BY <1>2, <1>12
  <2> HIDE DEF last, k
  <2>3. Len(expected') = k + 1 + last  BY <2>1, <2>2
  <2>4. ASSUME NEW i \in 1..k PROVE expected'[i] = expected[i]
    <3>1. i \in 1..(Len(more) + last) /\ i <= Len(more)  BY <2>2
    <3> QED  BY <1>12, <2>1, <3>1
  <2> QED  BY <2>1, <2>2, <2>3, <2>4
<1>15. NetTypes'  BY <1>1, <1>6, <1>14, TypesGive DEF NetTypes
<1>16. FieldsSoFar'
  <2>1. \A i \in 1..n : i \in 1..k  BY <1>2
  <2>2. \A i \in 1..n : fields[i] = expected[i]  BY DEF NetInv, FieldsSoFar
  <2>3. Len(fields') = n /\ n <= Len(expected')  BY <1>1, <1>2, <1>14
  <2>4. \A i \in 1..n : fields'[i] = expected'[i]  BY <1>1, <1>14, <2>1, <2>2
  <2> QED  BY <2>3, <2>4 DEF FieldsSoFar
<1>17. NoneIsLost'
  <2>1. OnTheWay = h
    <3>1. OnTheWay = h \o <<>>  BY <1>1 DEF OnTheWay, Sent, h
    <3> QED  BY <1>2, <3>1, ConcatEmptySeq DEF Strings
  <2>2. OnTheWay' = h \o (Octets(f) \o Held(out))
    <3>1. OnTheWay' = Held(in') \o Held(out')  BY <1>1 DEF OnTheWay, Sent
    <3> QED  BY <1>1, <1>6, <3>1 DEF h
  <2>3. n \in 0..k /\ k \in 0..k /\ n \in 0..Len(more)  BY <1>2, <1>12
  <2>4. a[n] \in Strings /\ a[k] \in Strings  BY <1>8, <2>3 DEF Layout
  <2>5. c[n] = a[n]  BY <1>11, <1>13, <2>3
  <2>6. c[Len(expected')] = (a[k] \o Octets(f)) \o Held(out)  BY <1>11, <1>13
  <2>12. h \in Strings /\ Held(out) \in Strings /\ Octets(f) \in Strings  BY <1>2, <1>4
  <2>7. (a[k] \o Octets(f)) \o Held(out) = a[k] \o (Octets(f) \o Held(out))
        /\ Octets(f) \o Held(out) \in Strings
    BY <2>4, <2>12, Associates
  <2>8. a[k] = a[n] \o h  BY <1>8, <2>1
  <2>9. (a[n] \o h) \o (Octets(f) \o Held(out)) = a[n] \o (h \o (Octets(f) \o Held(out)))
    <3> DEFINE p == a[n]
               q == Octets(f) \o Held(out)
    <3>1. p \in Strings /\ q \in Strings /\ h \in Strings  BY <2>4, <2>7, <2>12
    <3> HIDE DEF p, q
    <3>2. (p \o h) \o q = p \o (h \o q)  BY <3>1, ConcatAssociative DEF Strings
    <3> QED  BY <3>2 DEF p, q
  <2>10. c[n] \o OnTheWay' = c[Len(expected')]
    BY <2>2, <2>5, <2>6, <2>7, <2>8, <2>9
  <2>11. Len(fields') = n  BY <1>1
  <2> QED  BY <1>13, <2>10, <2>11 DEF NoneIsLost
<1>18. InWork'
  BY <1>1 DEF NetInv, InWork
<1>19. ScannedSoFar'
  <2>1. Held(in') = Held(in)  BY <1>1
  <2>2. ASSUME n < k PROVE Wanted' = Wanted /\ n < Len(expected')
    <3>1. n + 1 \in 1..k  BY <1>2, <2>2
    <3>2. Wanted' = expected'[n + 1]  BY <1>1 DEF Wanted
    <3>3. Wanted = expected[n + 1]  BY DEF Wanted
    <3>4. n < Len(expected')  BY <1>2, <1>14, <2>2
    <3> QED  BY <1>14, <3>1, <3>2, <3>3, <3>4
  <2> QED  BY <1>1, <2>1, <2>2 DEF NetInv, ScannedSoFar
<1> QED  BY <1>15, <1>16, <1>17, <1>18, <1>19 DEF NetInv

LEMMA CarryHolds == ASSUME NetInv, NEW n \in NetPieces, Carry(n) PROVE NetInv'
<1> DEFINE all == Made(out)!ReadableBytes(out) = n
           h == Held(in)
<1>1. /\ framed /\ n <= Made(out)!ReadableBytes(out)
      /\ Made(out)!RetrieveAsString(n)
      /\ in' = Made(in)!Appended(in, moved')
      /\ all => framed' = FALSE /\ messages' = Tail(messages)
      /\ ~all => framed' = framed /\ messages' = messages
      /\ expected' = expected /\ fields' = fields /\ scanned' = scanned
  BY DEF Carry
<1>2. /\ n \in Nat /\ n <= Len(Held(out)) /\ (all <=> n = Len(Held(out)))
  BY <1>1, NetBounds, TypesGive
<1>3. /\ Well(out') /\ moved' \in Strings /\ Held(out) = moved' \o Held(out')
      /\ all => out'.reader = 16 /\ Held(out') = <<>>
      /\ Well(in') /\ Held(in') = h \o moved'
  BY <1>1, <1>2, TypesGive, CarryEffect
<1> HIDE DEF all
<1>4. /\ messages # <<>> /\ messages \in Seq(Message) /\ Len(messages) \in Nat
      /\ h \in Strings /\ framed = TRUE
  BY <1>1, TypesGive DEF NetInv, InWork
<1>5. /\ Tail(messages) \in Seq(Message) /\ Len(Tail(messages)) = Len(messages) - 1
      /\ \A i \in 1..Len(Tail(messages)) : Tail(messages)[i] = messages[i + 1]
  BY <1>4, HeadTailProperties
<1>6. NetTypes'
  <2>1. messages' \in Seq(Message) /\ framed' \in BOOLEAN
    <3>1. CASE all  BY <1>1, <1>5, <3>1
    <3>2. CASE ~all  BY <1>1, <1>4, <3>2
    <3> QED  BY <3>1, <3>2
  <2> QED  BY <1>1, <1>3, <2>1, TypesGive DEF NetTypes
<1>7. FieldsSoFar'  BY <1>1 DEF NetInv, FieldsSoFar
<1>8. Held(in') \in Strings /\ Held(out') \in Strings  BY <1>3, HeldIs
<1>9. OnTheWay' = OnTheWay
  <2>1. OnTheWay = h \o (moved' \o Held(out'))  BY <1>1, <1>3 DEF OnTheWay, Sent
  <2>2. h \o (moved' \o Held(out')) = (h \o moved') \o Held(out')
    BY <1>3, <1>4, <1>8, Associates
  <2>3. OnTheWay' = Held(in') \o Held(out')
    <3>1. OnTheWay' = Held(in') \o (IF framed' THEN Held(out') ELSE <<>>)  BY DEF OnTheWay, Sent
    <3>2. CASE all  BY <1>1, <1>3, <3>1, <3>2
    <3>3. CASE ~all  BY <1>1, <3>1, <3>3
    <3> QED  BY <3>2, <3>3
  <2> QED  BY <1>3, <2>1, <2>2, <2>3
<1>10. NoneIsLost'  BY <1>1, <1>9 DEF NetInv, NoneIsLost
<1>11. InWork'
  <2>1. CASE ~all  BY <1>1, <1>4, <2>1 DEF NetInv, InWork
  <2>2. CASE all
    <3>1. messages' = Tail(messages) /\ framed' = FALSE /\ out'.reader = 16 /\ Held(out') = <<>>
      BY <1>1, <1>3, <2>2
    <3>2. ASSUME NEW i \in 1..Len(messages') PROVE messages'[i].todo = messages'[i].fields
      <4>1. i + 1 \in 2..Len(messages) /\ messages'[i] = messages[i + 1]
        BY <1>4, <1>5, <3>1
      <4> QED  BY <4>1 DEF NetInv, InWork
    <3>3. ASSUME messages' # <<>> PROVE WrittenSoFar(messages[1], 0)'
      <4>1. 1 \in 1..Len(messages') /\ messages'[1] \in Message
        BY <1>5, <3>1, <3>3, EmptySeq
      <4>2. messages'[1].todo = messages'[1].fields /\ Len(messages'[1].fields) \in Nat
        BY <3>2, <4>1 DEF Message
      <4>3. \E at : Layout(at, messages'[1].fields, 0) /\ Held(out') = at[0]
        BY <3>1, NoFields
      <4> QED  BY <4>2, <4>3 DEF WrittenSoFar
    <3>4. \A i \in 2..Len(messages') : messages'[i].todo = messages'[i].fields
      <4>1. \A i \in 2..Len(messages') : i \in 1..Len(messages')  BY <1>4, <1>5, <3>1
      <4> QED  BY <3>2, <4>1
    <3>5. 0 \in Nat  OBVIOUS
    <3> QED  BY <3>1, <3>3, <3>4, <3>5 DEF InWork
  <2> QED  BY <2>1, <2>2
<1>12. ScannedSoFar'
  <2>1. Len(Held(in')) = Len(h) + Len(moved') /\ Len(moved') \in Nat /\ Len(h) \in Nat
    BY <1>3, <1>4, ConcatProperties DEF Strings
  <2>2. scanned <= Len(h) /\ scanned \in Nat  BY TypesGive DEF NetInv, ScannedSoFar
  <2>3. scanned' <= Len(Held(in'))  BY <1>1, <2>1, <2>2
  <2>4. Wanted' = Wanted  BY <1>1 DEF Wanted
  <2> QED  BY <1>1, <2>3, <2>4 DEF NetInv, ScannedSoFar
<1> QED  BY <1>6, <1>7, <1>10, <1>11, <1>12 DEF NetInv


\* What the reader holds begins with the octets of the next field, or is a part of them.
LEMMA HeldAgrees ==
  ASSUME NetInv, Len(fields) < Len(expected)
  PROVE  LET h == Held(in)
             o == Octets(Wanted)
         IN  /\ \A i \in 1..Len(h) : i <= Len(o) => h[i] = o[i]
             /\ Len(o) <= Len(h) => SubSeq(h, 1, Len(o)) = o
             /\ Sent = <<>> => Len(o) <= Len(h)
<1>1. PICK rest \in Strings : OnTheWay = Octets(Wanted) \o rest  BY NextComes
<1>2. Octets(Wanted) \in Strings  BY NextComes, OctetsAre
<1>3. Held(in) \in Strings /\ Sent \in Strings /\ OnTheWay = Held(in) \o Sent
  BY TypesGive DEF OnTheWay
<1>4. Held(in) \o Sent = Octets(Wanted) \o rest  BY <1>1, <1>3
<1> QED  BY <1>2, <1>3, <1>4, CutsAgree

LEMMA LineComing ==
  ASSUME NetInv, Len(fields) < Len(expected), Wanted.type = "line"
  PROVE  Coming(Held(in), Wanted.value)
<1> DEFINE h == Held(in)
           v == Wanted.value
           o == Octets(Wanted)
<1>1. Wanted \in Fields  BY NextComes
<1>2. /\ v \in Strings /\ Len(v) \in Nat /\ \A i \in 1..Len(v) : v[i] # 10  BY <1>1, FieldIs
<1>3. /\ Len(o) = Len(v) + 2 /\ \A i \in 1..Len(v) : o[i] = v[i]
      /\ o[Len(v) + 1] = 13 /\ o[Len(v) + 2] = 10
  BY <1>1, OctetsAre
<1>4. Len(h) \in Nat /\ \A i \in 1..Len(h) : i <= Len(o) => h[i] = o[i]
  BY TypesGive, HeldAgrees
<1> HIDE DEF h, v, o
<1>5. ASSUME NEW i \in 1..Len(v), i <= Len(h) PROVE h[i] = v[i] /\ v[i] # 10
  <2>1. i \in 1..Len(h) /\ i <= Len(o)  BY <1>2, <1>3, <1>4, <1>5
  <2> QED  BY <1>2, <1>3, <1>4, <2>1
<1>6. ASSUME Len(v) + 1 <= Len(h) PROVE h[Len(v) + 1] = 13
  <2>1. Len(v) + 1 \in 1..Len(h) /\ Len(v) + 1 <= Len(o)  BY <1>2, <1>3, <1>4, <1>6
  <2> QED  BY <1>3, <1>4, <2>1
<1>7. ASSUME Len(v) + 2 <= Len(h) PROVE h[Len(v) + 2] = 10
  <2>1. Len(v) + 2 \in 1..Len(h) /\ Len(v) + 2 <= Len(o)  BY <1>2, <1>3, <1>4, <1>7
  <2> QED  BY <1>3, <1>4, <2>1
<1> QED  BY <1>5, <1>6, <1>7 DEF Coming, h, v

\* By every search the line ends behind its value, once its end has come.
LEMMA WantedEnds ==
  ASSUME NetInv, Len(fields) < Len(expected), Wanted.type = "line", NEW how \in Searches
  PROVE  /\ Len(Wanted.value) \in Nat
         /\ LineEnds(in, in.reader + scanned)[how] =
               IF Len(Wanted.value) + 2 <= Len(Held(in))
               THEN {[line |-> in.reader + Len(Wanted.value), next |-> in.reader + Len(Wanted.value) + 2]}
               ELSE {}
<1> DEFINE v == Wanted.value
<1>1. v \in Strings /\ Len(v) \in Nat  BY NextComes, FieldIs
<1>2. Well(in) /\ scanned \in Nat  BY TypesGive
<1>3. Coming(Held(in), v)  BY LineComing
<1>4. scanned <= Len(Held(in)) /\ scanned <= Len(v)
  BY <1>1, <1>2 DEF NetInv, ScannedSoFar
<1> HIDE DEF v
<1>5. LineEnds(in, in.reader + scanned)[how] =
         IF Len(v) + 2 <= Len(Held(in))
         THEN {[line |-> in.reader + Len(v), next |-> in.reader + Len(v) + 2]}
         ELSE {}
  BY <1>1, <1>2, <1>3, <1>4, LineEndsAre
<1> QED  BY <1>1, <1>5 DEF v

LEMMA RestIs ==
  \A p, q, r, rest \in Strings : (p \o q) \o r = p \o rest => q \o r = rest
<1> TAKE p, q, r, rest \in Strings
<1>1. (p \o q) \o r = p \o (q \o r)  BY ConcatAssociative DEF Strings
<1>2. q \o r \in Strings  BY Associates
<1> HAVE (p \o q) \o r = p \o rest
<1>3. p \o (q \o r) = p \o rest  BY <1>1
<1> QED  BY <1>2, <1>3, SameAfter

\* A read that takes the next field and its octets.
LEMMA FieldTaken ==
  ASSUME NetInv, Len(fields) < Len(expected),
         Len(Octets(Wanted)) <= Len(Held(in)), fields' = Append(fields, Wanted),
         Well(in'), Held(in') = SubSeq(Held(in), Len(Octets(Wanted)) + 1, Len(Held(in))),
         out' = out, messages' = messages, framed' = framed, expected' = expected, scanned' = 0
  PROVE  NetInv'
<1> DEFINE h == Held(in)
           octets == Octets(Wanted)
           n == Len(fields)
           k == Len(expected)
           left == SubSeq(h, Len(octets) + 1, Len(h))
<1>1. /\ fields \in Seq(Fields) /\ expected \in Seq(Fields) /\ n \in Nat /\ k \in Nat /\ n < k
      /\ h \in Strings /\ Len(h) \in Nat /\ Sent \in Strings
  BY TypesGive
<1>2. Wanted \in Fields /\ Wanted = expected[n + 1]  BY NextComes DEF Wanted
<1>3. octets \in Strings /\ Len(octets) \in Nat  BY <1>2, OctetsAre DEF Strings
<1>4. /\ fields' \in Seq(Fields) /\ Len(fields') = n + 1 /\ fields'[n + 1] = Wanted
      /\ \A i \in 1..n : fields'[i] = fields[i]
  BY <1>1, <1>2
<1>5. NetTypes'  BY <1>4, TypesGive DEF NetTypes
<1>6. FieldsSoFar'
  <2>1. \A i \in 1..n : fields[i] = expected[i]  BY DEF NetInv, FieldsSoFar
  <2>2. ASSUME NEW i \in 1..(n + 1) PROVE fields'[i] = expected[i]
    <3>1. CASE i = n + 1  BY <1>2, <1>4, <3>1
    <3>2. CASE i # n + 1
      <4>1. i \in 1..n  BY <1>1, <3>2
      <4> QED  BY <1>4, <2>1, <4>1
    <3> QED  BY <3>1, <3>2
  <2>3. n + 1 <= k  BY <1>1
  <2> QED  BY <1>4, <2>2, <2>3 DEF FieldsSoFar
<1>7. PICK rest \in Strings : \E at :
         /\ Layout(at, expected, k) /\ OnTheWay = octets \o rest /\ at[n + 1] \o rest = at[k]
  BY NextComes
<1>8. PICK at : Layout(at, expected, k) /\ OnTheWay = octets \o rest /\ at[n + 1] \o rest = at[k]
  BY <1>7
<1>9. h = octets \o left /\ left \in Strings
  <2>1. Len(octets) \in 0..Len(h)  BY <1>1, <1>3
  <2>2. h = SubSeq(h, 1, Len(octets)) \o left /\ left \in Strings  BY <1>1, <2>1, CutInTwo
  <2>3. SubSeq(h, 1, Len(octets)) = octets  BY HeldAgrees
  <2> QED  BY <2>2, <2>3
<1>10. OnTheWay' = left \o Sent  BY DEF OnTheWay, Sent
<1>11. OnTheWay = h \o Sent  BY DEF OnTheWay
<1> HIDE DEF h, octets, left
<1>12. left \o Sent = rest
  <2> DEFINE sent == Sent
  <2>1. octets \in Strings /\ left \in Strings /\ sent \in Strings  BY <1>1, <1>3, <1>9
  <2>2. (octets \o left) \o sent = octets \o rest  BY <1>8, <1>9, <1>11
  <2> HIDE DEF sent
  <2>3. \A q, r, x \in Strings : (octets \o q) \o r = octets \o x => q \o r = x
    BY <2>1, RestIs, Zenon
  <2>4. \A x \in Strings : (octets \o left) \o sent = octets \o x => left \o sent = x
    BY <2>1, <2>3, Zenon
  <2>5. left \o sent = rest  BY <2>2, <2>4, Zenon
  <2> QED  BY <2>5 DEF sent
<1>13. NoneIsLost'
  <2>1. Layout(at, expected', Len(expected')) /\ at[Len(fields')] \o OnTheWay' = at[Len(expected')]
    BY <1>4, <1>8, <1>10, <1>12
  <2> QED  BY <2>1 DEF NoneIsLost
<1>14. InWork'  BY DEF NetInv, InWork, WrittenSoFar
<1>15. ScannedSoFar'
  <2>1. Len(Held(in')) \in Nat  BY HeldIs
  <2> QED  BY <2>1 DEF ScannedSoFar
<1> QED  BY <1>5, <1>6, <1>13, <1>14, <1>15 DEF NetInv

LEMMA ReadIntHolds == ASSUME NetInv, ReadInt PROVE NetInv'
<1> DEFINE v == Wanted.value
           h == Held(in)
<1>1. /\ Len(fields) < Len(expected) /\ Wanted.type = "int"
      /\ fields' = IF Made(in)!ReadableBytes(in) < Len(v) THEN fields
                   ELSE Append(fields, Integer(PeekInt(in, Len(v))))
      /\ in' = Made(in)!Retrieved(Len(v))
      /\ out' = out /\ messages' = messages /\ framed' = framed /\ expected' = expected
      /\ scanned' = scanned
  BY DEF ReadInt, RetrieveInt
<1>2. /\ Wanted \in Fields /\ v \in Strings /\ Len(v) \in Nat
      /\ Wanted = [type |-> "int", value |-> v]
  BY <1>1, NextComes, FieldIs
<1>3. Octets(Wanted) = SwapOctets(v) /\ Len(Octets(Wanted)) = Len(v)
  BY <1>1, <1>2, OctetsAre
<1>4. Made(in)!ReadableBytes(in) = Len(h) /\ Len(h) \in Nat /\ Well(in)  BY TypesGive
<1>5. scanned = 0
  <2>1. "int" # "line"  OBVIOUS
  <2> QED  BY <1>1, <2>1 DEF NetInv, ScannedSoFar
<1>6. CASE Len(h) < Len(v)
  <2>1. in' = in  BY <1>1, <1>2, <1>4, <1>6, TakeEffect
  <2>2. fields' = fields  BY <1>1, <1>4, <1>6
  <2> QED
    BY <1>1, <2>1, <2>2
       DEF NetInv, NetTypes, FieldsSoFar, NoneIsLost, OnTheWay, Sent, InWork, WrittenSoFar,
           ScannedSoFar, Wanted
<1>7. CASE ~(Len(h) < Len(v))
  <2>1. Len(v) <= Len(h) /\ Len(v) \in 0..Len(h)  BY <1>2, <1>4, <1>7
  <2>2. Well(in') /\ Held(in') = SubSeq(h, Len(v) + 1, Len(h))
    BY <1>1, <1>2, <1>4, <2>1, TakeEffect
  <2>3. PeekInt(in, Len(v)) = v
    <3>1. PeekInt(in, Len(v)) = SwapOctets(SubSeq(in.cells, in.reader + 1, in.reader + Len(v)))
      BY <1>4, <1>7 DEF PeekInt
    <3>2. SubSeq(in.cells, in.reader + 1, in.reader + Len(v)) = SubSeq(h, 1, Len(v))
      BY <1>4, <2>1, CellsAre
    <3>3. SubSeq(h, 1, Len(v)) = SwapOctets(v)  BY <1>1, <1>3, <2>1, HeldAgrees
    <3> QED  BY <1>2, <3>1, <3>2, <3>3, SwappedTwice
  <2>4. fields' = Append(fields, Wanted)  BY <1>1, <1>2, <1>4, <1>7, <2>3 DEF Integer
  <2> QED  BY <1>1, <1>3, <1>5, <2>1, <2>2, <2>4, FieldTaken
<1> QED  BY <1>6, <1>7

LEMMA ReadLineHolds == ASSUME NetInv, NEW how \in Searches, ReadLine(how) PROVE NetInv'
<1> DEFINE v == Wanted.value
           h == Held(in)
           n == Len(v)
           places == LineEnds(in, in.reader + scanned)[how]
           found == [line |-> in.reader + n, next |-> in.reader + n + 2]
<1>1. /\ Len(fields) < Len(expected) /\ Wanted.type = "line"
      /\ out' = out /\ messages' = messages /\ framed' = framed /\ expected' = expected
  BY DEF ReadLine
<1>2. /\ places = {} => /\ scanned' = Max({0, Made(in)!ReadableBytes(in) - 1})
                      /\ in' = in /\ fields' = fields
      /\ places # {} => \E end \in places :
            /\ fields' = Append(fields, Line(SubSeq(in.cells, in.reader + 1, end.line)))
            /\ in' = RetrieveUntil(in, end.next)
            /\ scanned' = 0
  BY DEF ReadLine
<1>3. places = IF n + 2 <= Len(h) THEN {found} ELSE {}
  BY <1>1, WantedEnds
<1>4. /\ Wanted \in Fields /\ v \in Strings /\ n \in Nat
      /\ Wanted = [type |-> "line", value |-> v]
  BY <1>1, NextComes, FieldIs
<1>5. /\ Octets(Wanted) = v \o CRLF /\ Len(Octets(Wanted)) = n + 2
  BY <1>1, <1>4, OctetsAre
<1>6. /\ Made(in)!ReadableBytes(in) = Len(h) /\ Len(h) \in Nat /\ Well(in) /\ h \in Strings
      /\ in.reader \in Nat /\ in.writer \in Nat /\ Len(h) = in.writer - in.reader
  BY TypesGive, HeldIs
<1> HIDE DEF places, found, n, h
<1>7. CASE ~(n + 2 <= Len(h))
  <2>1. in' = in /\ fields' = fields /\ scanned' = IF Len(h) - 1 > 0 THEN Len(h) - 1 ELSE 0
    <3>1. Max({0, Len(h) - 1}) = IF Len(h) - 1 > 0 THEN Len(h) - 1 ELSE 0
      BY <1>6, MaxIs
    <3> QED  BY <1>2, <1>3, <1>6, <1>7, <3>1
  <2>2. scanned' \in Nat /\ scanned' <= Len(h) /\ scanned' <= n  BY <1>4, <1>6, <1>7, <2>1
  <2>3. Wanted' = Wanted  BY <1>1, <2>1 DEF Wanted
  <2>4. ScannedSoFar'  BY <1>1, <2>1, <2>2, <2>3 DEF ScannedSoFar, h, n
  <2> QED
    BY <1>1, <2>1, <2>2, <2>4
       DEF NetInv, NetTypes, FieldsSoFar, NoneIsLost, OnTheWay, Sent, InWork, WrittenSoFar
<1>8. CASE n + 2 <= Len(h)
  <2>1. /\ fields' = Append(fields, Line(SubSeq(in.cells, in.reader + 1, in.reader + n)))
        /\ in' = RetrieveUntil(in, in.reader + n + 2)
        /\ scanned' = 0
    <3>1. places = {found}  BY <1>3, <1>8
    <3>2. places # {}  BY <3>1
    <3>3. PICK end \in places :
            /\ fields' = Append(fields, Line(SubSeq(in.cells, in.reader + 1, end.line)))
            /\ in' = RetrieveUntil(in, end.next)
            /\ scanned' = 0
      BY <1>2, <3>2
    <3>4. end = found  BY <3>1
    <3>5. end.line = in.reader + n /\ end.next = in.reader + n + 2  BY <3>4 DEF found
    <3> QED  BY <3>3, <3>5
  <2>2. n \in 0..Len(h) /\ n + 2 \in Nat  BY <1>4, <1>6, <1>8
  <2>3. SubSeq(in.cells, in.reader + 1, in.reader + n) = v
    <3>1. SubSeq(in.cells, in.reader + 1, in.reader + n) = SubSeq(h, 1, n)
      BY <1>6, <2>2, CellsAre DEF h
    <3>2. Coming(h, v)  BY <1>1, LineComing DEF h
    <3>3. \A i \in 1..n : h[i] = v[i]  BY <1>4, <1>6, <1>8, <3>2 DEF Coming, n
    <3>4. /\ SubSeq(h, 1, n) \in Strings /\ Len(SubSeq(h, 1, n)) = n
          /\ \A i \in 1..n : SubSeq(h, 1, n)[i] = h[i]
      BY <1>6, <2>2, CutInTwo
    <3>5. SubSeq(h, 1, n) = v
      <4> DEFINE s == SubSeq(h, 1, n)
      <4>1. s \in Seq(Octet) /\ v \in Seq(Octet) /\ Len(s) = Len(v)
            /\ \A i \in 1..Len(s) : s[i] = v[i]
        BY <1>4, <3>3, <3>4 DEF Strings, n
      <4> HIDE DEF s
      <4>2. s = v  BY <4>1, SeqEqual
      <4> QED  BY <4>2 DEF s
    <3> QED  BY <3>1, <3>5
  <2>4. fields' = Append(fields, Wanted)  BY <1>4, <2>1, <2>3 DEF Line
  <2>5. in' = Made(in)!Retrieved(n + 2)
    <3> DEFINE e == in.reader + n + 2
    <3>1. InReadable(in, e)  BY <1>4, <1>6, <1>8 DEF InReadable
    <3>2. e - in.reader = n + 2  BY <1>4, <1>6
    <3>3. in' = RetrieveUntil(in, e)  BY <2>1
    <3> HIDE DEF e
    <3>4. in' = Made(in)!Retrieved(e - in.reader)  BY <3>1, <3>3 DEF RetrieveUntil
    <3> QED  BY <3>2, <3>4
  <2>6. Well(in') /\ Held(in') = SubSeq(h, (n + 2) + 1, Len(h))
    BY <1>6, <1>8, <2>2, <2>5, TakeEffect DEF h
  <2> QED  BY <1>1, <1>5, <1>8, <2>1, <2>4, <2>6, FieldTaken DEF h
<1> QED  BY <1>7, <1>8

LEMMA NextHolds == NetInv /\ [NetBufferNext]_netBufferVars => NetInv'
<1> SUFFICES ASSUME NetInv, [NetBufferNext]_netBufferVars PROVE NetInv'
  OBVIOUS
<1>1. CASE PutField  BY <1>1, PutFieldHolds
<1>2. CASE PutLength  BY <1>2, PutLengthHolds
<1>3. CASE \E n \in NetPieces : Carry(n)  BY <1>3, CarryHolds
<1>4. CASE ReadInt  BY <1>4, ReadIntHolds
<1>5. CASE \E how \in Searches : ReadLine(how)  BY <1>5, ReadLineHolds
<1>6. CASE UNCHANGED netBufferVars
  BY <1>6 DEF netBufferVars, NetInv, NetTypes, FieldsSoFar, NoneIsLost, OnTheWay, Sent, InWork,
              WrittenSoFar, ScannedSoFar, Wanted
<1> QED  BY <1>1, <1>2, <1>3, <1>4, <1>5, <1>6 DEF NetBufferNext

LEMMA InvReadsBack == NetInv => FieldsReadBack
<1> SUFFICES ASSUME NetInv PROVE FieldsReadBack
  OBVIOUS
<1>1. IsPrefix(fields, expected)
  <2> DEFINE n == Len(fields)
             s == SubSeq(expected, 1, n)
  <2>1. fields \in Seq(Fields) /\ expected \in Seq(Fields) /\ n \in Nat /\ n <= Len(expected)
        /\ Len(expected) \in Nat /\ \A i \in 1..n : fields[i] = expected[i]
    BY TypesGive DEF NetInv, FieldsSoFar
  <2>2. SubSeq(fields, 1, n) = fields  BY <2>1, SubSeqFull
  <2>3. \A i \in 1..n : expected[i] \in Fields
    <3>1. \A i \in 1..n : i \in 1..Len(expected)  BY <2>1
    <3> QED  BY <2>1, <3>1
  <2> HIDE DEF n
  <2>4. s \in Seq(Fields) /\ Len(s) = n /\ \A i \in 1..n : s[i] = expected[i]
    <3>1. /\ s \in Seq(Fields) /\ Len(s) = IF 1 <= n THEN n - 1 + 1 ELSE 0
          /\ \A i \in 1..(n - 1 + 1) : s[i] = expected[1 + i - 1]
      BY <2>1, <2>3, SubSeqProperties
    <3> HIDE DEF s
    <3>2. n - 1 + 1 = n /\ \A i \in 1..n : 1 + i - 1 = i  BY <2>1
    <3>3. Len(s) = n  BY <2>1, <3>1, <3>2
    <3>4. \A i \in 1..n : s[i] = expected[i]  BY <3>1, <3>2
    <3> QED  BY <3>1, <3>3, <3>4
  <2> HIDE DEF s
  <2>5. s = fields  BY <2>1, <2>4, SeqEqual DEF n
  <2> QED  BY <2>1, <2>2, <2>5 DEF IsPrefix, n, s
<1>2. ASSUME Len(fields) < Len(expected), Made(out)!ReadableBytes(out) = 0
      PROVE  IF Wanted.type = "int" THEN Made(in)!ReadableBytes(in) >= Len(Wanted.value)
             ELSE \A how \in Searches : LineEnds(in, in.reader + scanned)[how] # {}
  <2>1. Sent = <<>>
    <3>1. Len(Held(out)) = 0 /\ Held(out) \in Strings  BY <1>2, TypesGive
    <3>2. Held(out) = <<>>  BY <3>1, EmptySeq DEF Strings
    <3> QED  BY <3>2 DEF Sent
  <2>2. Len(Octets(Wanted)) <= Len(Held(in))  BY <1>2, <2>1, HeldAgrees
  <2>3. Wanted \in Fields /\ Made(in)!ReadableBytes(in) = Len(Held(in)) /\ Len(Held(in)) \in Nat
    BY <1>2, NextComes, TypesGive
  <2>4. Wanted.type \in {"int", "line"} /\ Len(Wanted.value) \in Nat  BY <2>3, FieldIs
  <2>5. CASE Wanted.type = "int"
    <3>1. Len(Octets(Wanted)) = Len(Wanted.value)  BY <2>3, <2>5, OctetsAre
    <3> QED  BY <2>2, <2>3, <2>4, <2>5, <3>1
  <2>6. CASE Wanted.type = "line"
    <3>1. Len(Octets(Wanted)) = Len(Wanted.value) + 2  BY <2>3, <2>6, OctetsAre
    <3>2. ASSUME NEW how \in Searches PROVE LineEnds(in, in.reader + scanned)[how] # {}
      BY <1>2, <2>2, <2>6, <3>1, WantedEnds
    <3>3. Wanted.type # "int"  BY <2>6
    <3> QED  BY <3>2, <3>3
  <2> QED  BY <2>4, <2>5, <2>6
<1> QED  BY <1>1, <1>2 DEF FieldsReadBack

\* Every field the typed calls have put into a Buffer is read back from the one at
\* the other end as it was, whatever the messages and however the network cuts them.
THEOREM FieldsAreReadBack == NetBufferSpec => []FieldsReadBack
<1>1. NetInv /\ [NetBufferNext]_netBufferVars => NetInv'  BY NextHolds
<1> QED  BY <1>1, InitHolds, InvReadsBack, PTL DEF NetBufferSpec

-----------------------------------------------------------------------------
(* HPackTable, for any headers that have a length, and any operations.     *)

\* The sums of the first i entries, up to k.
Summing(sum, s, k) == sum = [i \in 0..k |-> IF i = 0 THEN 0 ELSE sum[i - 1] + EntrySize(s[i])]

\* The headers of a table have a size.
HeadersSized(H) == \A e \in H : EntrySize(e) \in Nat

\* There are such sums.
LEMMA SumsExist ==
  ASSUME NEW s, NEW k \in Nat
  PROVE  \E sum : Summing(sum, s, k)
<1> DEFINE T == {n \in Nat : \E sum : Summing(sum, s, n)}
<1>1. 0 \in T
  <2> DEFINE sum == [i \in 0..0 |-> 0]
  <2>1. sum = [i \in 0..0 |-> IF i = 0 THEN 0 ELSE sum[i - 1] + EntrySize(s[i])]
    OBVIOUS
  <2> HIDE DEF sum
  <2>2. \E a : Summing(a, s, 0)  BY <2>1 DEF Summing
  <2> QED  BY <2>2
<1>2. ASSUME NEW m \in 1..k, m - 1 \in T PROVE m \in T
  <2> DEFINE n == m - 1
  <2>0. n \in Nat /\ m = n + 1  OBVIOUS
  <2> HIDE DEF n
  <2>1. PICK before : Summing(before, s, n)  BY <1>2 DEF n
  <2>2. before = [i \in 0..n |-> IF i = 0 THEN 0 ELSE before[i - 1] + EntrySize(s[i])]
    BY <2>1 DEF Summing
  <2> DEFINE sum == [i \in 0..(n + 1) |-> IF i = n + 1 THEN before[n] + EntrySize(s[n + 1]) ELSE before[i]]
  <2>3. ASSUME NEW i \in 0..(n + 1)
        PROVE  sum[i] = IF i = 0 THEN 0 ELSE sum[i - 1] + EntrySize(s[i])
    <3>1. CASE i = n + 1
      <4>1. i - 1 \in 0..(n + 1) /\ i - 1 # n + 1 /\ i # 0 /\ i - 1 = n  BY <3>1, <2>0
      <4>2. n \in 0..n /\ sum[i - 1] = before[n] /\ sum[i] = before[n] + EntrySize(s[i])
        BY <3>1, <4>1, <2>0
      <4> QED  BY <4>1, <4>2
    <3>2. CASE i = 0
      BY <2>0, <2>2, <3>2
    <3>3. CASE i # n + 1 /\ i # 0
      <4>1. i \in 0..n /\ i - 1 \in 0..(n + 1) /\ i - 1 # n + 1  BY <3>3, <2>0
      <4>2. before[i] = before[i - 1] + EntrySize(s[i])  BY <2>2, <3>3, <4>1
      <4>3. sum[i] = before[i] /\ sum[i - 1] = before[i - 1]  BY <3>3, <4>1
      <4> QED  BY <3>3, <4>2, <4>3
    <3> QED  BY <3>1, <3>2, <3>3
  <2>4. DOMAIN sum = 0..(n + 1) /\ sum = [i \in 0..(n + 1) |-> sum[i]]  OBVIOUS
  <2> HIDE DEF sum
  <2>5. sum = [i \in 0..(n + 1) |-> IF i = 0 THEN 0 ELSE sum[i - 1] + EntrySize(s[i])]
    BY <2>3, <2>4, Zenon
  <2>6. \E a : Summing(a, s, n + 1)  BY <2>5, Zenon DEF Summing
  <2> QED  BY <2>0, <2>6
<1> HIDE DEF T
<1>3. \A i \in 0..k : i \in T  BY <1>1, <1>2, UpTo, Zenon
<1>4. k \in T  BY <1>3
<1> QED  BY <1>4 DEF T

\* SizeOf is the last of the sums.
LEMMA SizeIs ==
  ASSUME NEW H, HeadersSized(H), NEW s \in Seq(H)
  PROVE  \E sum : /\ SizeOf(s) = sum[Len(s)] /\ sum[0] = 0
                  /\ \A i \in 1..Len(s) : sum[i] = sum[i - 1] + EntrySize(s[i])
                  /\ \A i \in 0..Len(s) : sum[i] \in Nat
<1> DEFINE n == Len(s)
           sum == CHOOSE f : Summing(f, s, n)
           T == {i \in 0..n : sum[i] \in Nat}
<1>0. n \in Nat /\ \A i \in 1..n : s[i] \in H  OBVIOUS
<1>1. Summing(sum, s, n)
  <2>1. \E f : Summing(f, s, n)  BY <1>0, SumsExist
  <2> QED  BY <2>1, Zenon
<1>2. SizeOf(s) = sum[n]  BY Zenon DEF SizeOf, Summing
<1> HIDE DEF sum
<1>3. sum = [i \in 0..n |-> IF i = 0 THEN 0 ELSE sum[i - 1] + EntrySize(s[i])]
  BY <1>1, Zenon DEF Summing
<1> HIDE DEF n
<1>4. sum[0] = 0 /\ \A i \in 1..n : sum[i] = sum[i - 1] + EntrySize(s[i])
  <2>1. 0 \in 0..n /\ \A i \in 1..n : i \in 0..n /\ i # 0  BY <1>0
  <2> QED  BY <1>3, <2>1
<1>5. 0 \in T  BY <1>0, <1>4
<1>6. ASSUME NEW i \in 1..n, i - 1 \in T PROVE i \in T
  <2>1. EntrySize(s[i]) \in Nat  BY <1>0 DEF HeadersSized
  <2>2. sum[i - 1] \in Nat /\ sum[i] = sum[i - 1] + EntrySize(s[i])  BY <1>4, <1>6
  <2>3. i \in 0..n  BY <1>0
  <2> QED  BY <2>1, <2>2, <2>3
<1> HIDE DEF T
<1>7. \A i \in 0..n : i \in T  BY <1>0, <1>5, <1>6, UpTo, Zenon
<1>8. \A i \in 0..n : sum[i] \in Nat  BY <1>7 DEF T
<1> QED  BY <1>2, <1>4, <1>8 DEF n

\* Two tables' entries make up what each of them makes up.
LEMMA SizeAdds ==
  ASSUME NEW H, HeadersSized(H), NEW s \in Seq(H), NEW t \in Seq(H)
  PROVE  SizeOf(s \o t) = SizeOf(s) + SizeOf(t) /\ SizeOf(s) \in Nat /\ SizeOf(t) \in Nat
<1> DEFINE n == Len(s)
           m == Len(t)
           all == s \o t
<1>1. /\ all \in Seq(H) /\ Len(all) = n + m /\ n \in Nat /\ m \in Nat
      /\ \A i \in 1..(n + m) : all[i] = IF i <= n THEN s[i] ELSE t[i - n]
  BY ConcatProperties
<1>2. PICK f : /\ SizeOf(s) = f[n] /\ f[0] = 0
               /\ \A i \in 1..n : f[i] = f[i - 1] + EntrySize(s[i])
               /\ \A i \in 0..n : f[i] \in Nat
  BY SizeIs
<1>3. PICK g : /\ SizeOf(t) = g[m] /\ g[0] = 0
               /\ \A i \in 1..m : g[i] = g[i - 1] + EntrySize(t[i])
               /\ \A i \in 0..m : g[i] \in Nat
  BY SizeIs
<1> HIDE DEF all
<1>4. PICK h : /\ SizeOf(all) = h[n + m] /\ h[0] = 0
               /\ \A i \in 1..(n + m) : h[i] = h[i - 1] + EntrySize(all[i])
               /\ \A i \in 0..(n + m) : h[i] \in Nat
  <2>1. \E h : /\ SizeOf(all) = h[Len(all)] /\ h[0] = 0
               /\ \A i \in 1..Len(all) : h[i] = h[i - 1] + EntrySize(all[i])
               /\ \A i \in 0..Len(all) : h[i] \in Nat
    BY <1>1, SizeIs
  <2> QED  BY <1>1, <2>1
<1> HIDE DEF n, m
<1>5. h[n] = f[n]
  <2> DEFINE T == {i \in 0..n : h[i] = f[i]}
  <2>1. 0 \in T  BY <1>1, <1>2, <1>4
  <2>2. ASSUME NEW i \in 1..n, i - 1 \in T PROVE i \in T
    <3>1. i \in 1..(n + m) /\ i <= n /\ i \in 0..n  BY <1>1
    <3>2. h[i] = h[i - 1] + EntrySize(s[i])  BY <1>1, <1>4, <3>1
    <3>3. f[i] = f[i - 1] + EntrySize(s[i])  BY <1>2
    <3> QED  BY <2>2, <3>1, <3>2, <3>3
  <2> HIDE DEF T
  <2>3. \A i \in 0..n : i \in T  BY <1>1, <2>1, <2>2, UpTo, Zenon
  <2>4. n \in T  BY <1>1, <2>3
  <2> QED  BY <2>4 DEF T
<1>6. h[n + m] = h[n] + g[m]
  <2> DEFINE T == {i \in 0..m : h[n + i] = h[n] + g[i]}
  <2>1. 0 \in T
    <3>1. h[n] \in Nat /\ n + 0 = n  BY <1>1, <1>4
    <3> QED  BY <1>1, <1>3, <3>1
  <2>2. ASSUME NEW i \in 1..m, i - 1 \in T PROVE i \in T
    <3>1. n + i \in 1..(n + m) /\ ~(n + i <= n) /\ (n + i) - n = i /\ (n + i) - 1 = n + (i - 1) /\ i \in 0..m
      BY <1>1
    <3>2. h[n + i] = h[n + (i - 1)] + EntrySize(t[i])  BY <1>1, <1>4, <3>1
    <3>3. g[i] = g[i - 1] + EntrySize(t[i]) /\ g[i - 1] \in Nat  BY <1>1, <1>3
    <3>4. EntrySize(t[i]) \in Nat  BY DEF HeadersSized, m
    <3>5. h[n + (i - 1)] = h[n] + g[i - 1]  BY <2>2
    <3>6. h[n] \in Nat  BY <1>1, <1>4
    <3> QED  BY <3>1, <3>2, <3>3, <3>4, <3>5, <3>6
  <2> HIDE DEF T
  <2>3. \A i \in 0..m : i \in T  BY <1>1, <2>1, <2>2, UpTo, Zenon
  <2>4. m \in T  BY <1>1, <2>3
  <2> QED  BY <2>4 DEF T
<1>7. f[n] \in Nat /\ g[m] \in Nat  BY <1>1, <1>2, <1>3
<1> QED  BY <1>2, <1>3, <1>4, <1>5, <1>6, <1>7 DEF all

LEMMA SizeOfNone == SizeOf(<< >>) = 0
<1> DEFINE sum == CHOOSE f : Summing(f, << >>, 0)
<1>1. Summing(sum, << >>, 0)
  <2>1. \E f : Summing(f, << >>, 0)  BY SumsExist
  <2> QED  BY <2>1, Zenon
<1>2. SizeOf(<< >>) = sum[0]
  <2>1. Len(<< >>) = 0  OBVIOUS
  <2> QED  BY <2>1 DEF SizeOf, Summing
<1> HIDE DEF sum
<1>3. sum = [i \in 0..0 |-> IF i = 0 THEN 0 ELSE sum[i - 1] + EntrySize(<< >>[i])]
  BY <1>1 DEF Summing
<1>4. sum[0] = 0  BY <1>3
<1> QED  BY <1>2, <1>4

LEMMA SizeOfOne ==
  ASSUME NEW H, HeadersSized(H), NEW e \in H
  PROVE  SizeOf(<<e>>) = EntrySize(e) /\ EntrySize(e) \in Nat
<1> DEFINE s == << e >>
<1>1. s \in Seq(H) /\ Len(s) = 1 /\ s[1] = e  OBVIOUS
<1> HIDE DEF s
<1>2. PICK f : /\ SizeOf(s) = f[Len(s)] /\ f[0] = 0
               /\ \A i \in 1..Len(s) : f[i] = f[i - 1] + EntrySize(s[i])
  BY <1>1, SizeIs
<1>3. EntrySize(e) \in Nat  BY DEF HeadersSized
<1>4. f[1] = f[1 - 1] + EntrySize(s[1])  BY <1>1, <1>2
<1>5. f[1] = EntrySize(e)  BY <1>1, <1>2, <1>3, <1>4
<1> QED  BY <1>1, <1>2, <1>3, <1>5 DEF s

-----------------------------------------------------------------------------
\* The numbers an encoder may have for its keys.
NumberMaps(H) == UNION {[K -> Nat] : K \in SUBSET {Key(e) : e \in H}}

Tables(H) ==
    [entries : Seq(H), size : Nat, limit : Nat, max : Nat, encoder : BOOLEAN, seq : Nat,
     numbers : NumberMaps(H)]

\* Only an encoder finds its entries by their keys.
KeysPart(t) == IF t.encoder THEN KeysNameYoungest(t) ELSE DOMAIN t.numbers = {}

\* A table whose limit may still be above what is allowed, and one with which it is not.
Filled(t, H) == t \in Tables(H) /\ t.size = SizeOf(t.entries) /\ KeysPart(t)
TableInv(t, H) == Filled(t, H) /\ SizeKept(t)

LEMMA MapIs ==
  ASSUME NEW H, NEW f \in NumberMaps(H)
  PROVE  /\ \A k \in DOMAIN f : f[k] \in Nat /\ \E e \in H : k = Key(e)
         /\ f = [k \in DOMAIN f |-> f[k]]
<1>1. PICK K \in SUBSET {Key(e) : e \in H} : f \in [K -> Nat]  BY DEF NumberMaps
<1>2. DOMAIN f = K /\ f = [k \in DOMAIN f |-> f[k]] /\ \A k \in K : f[k] \in Nat  BY <1>1
<1> QED  BY <1>1, <1>2

LEMMA IsMap ==
  ASSUME NEW H, NEW f, f = [k \in DOMAIN f |-> f[k]],
         \A k \in DOMAIN f : f[k] \in Nat /\ \E e \in H : k = Key(e)
  PROVE  f \in NumberMaps(H)
<1> DEFINE K == DOMAIN f
<1>1. K \in SUBSET {Key(e) : e \in H}  OBVIOUS
<1>2. f \in [K -> Nat]  OBVIOUS
<1> HIDE DEF K
<1> QED  BY <1>1, <1>2 DEF NumberMaps

\* The place that the number of a key stands for.
Place(t, k) == t.seq - t.numbers[k] + 1

\* KeysNameYoungest, without a minimum.
Youngest(t) ==
    /\ DOMAIN t.numbers = {Key(t.entries[i]) : i \in 1..Len(t.entries)}
    /\ \A k \in DOMAIN t.numbers :
          /\ Place(t, k) \in 1..Len(t.entries) /\ Key(t.entries[Place(t, k)]) = k
          /\ \A i \in 1..Len(t.entries) : Key(t.entries[i]) = k => Place(t, k) <= i

LEMMA YoungestSame ==
  ASSUME NEW H, NEW t \in Tables(H)
  PROVE  KeysNameYoungest(t) <=> Youngest(t)
<1> DEFINE D == DOMAIN t.entries
           At(k) == {i \in D : Key(t.entries[i]) = k}
<1>1. D = 1..Len(t.entries) /\ Len(t.entries) \in Nat  BY DEF Tables
<1>2. ASSUME NEW k, NEW j \in D, Key(t.entries[j]) = k
      PROVE  Min(At(k)) \in At(k) /\ \A i \in At(k) : Min(At(k)) <= i
  <2>1. At(k) \in SUBSET Nat /\ j \in At(k)  BY <1>1, <1>2
  <2>2. PICK x \in At(k) : \A y \in At(k) : x <= y  BY <2>1, LeastOf
  <2>3. At(k) \in SUBSET Int  BY <2>1
  <2> HIDE DEF At
  <2>4. Min(At(k)) = x  BY <2>2, <2>3, MinIs
  <2> QED  BY <2>2, <2>4
<1>3. ASSUME KeysNameYoungest(t) PROVE Youngest(t)
  <2>1. {Key(t.entries[i]) : i \in D} = DOMAIN t.numbers  BY <1>3 DEF KeysNameYoungest
  <2>2. ASSUME NEW k \in DOMAIN t.numbers
        PROVE  /\ Place(t, k) \in D /\ Key(t.entries[Place(t, k)]) = k
               /\ \A i \in D : Key(t.entries[i]) = k => Place(t, k) <= i
    <3>1. PICK j \in D : Key(t.entries[j]) = k  BY <2>1
    <3>2. Place(t, k) = Min(At(k))  BY <1>3 DEF KeysNameYoungest, Place
    <3>3. Min(At(k)) \in At(k) /\ \A i \in At(k) : Min(At(k)) <= i  BY <1>2, <3>1
    <3> QED  BY <3>2, <3>3
  <2> QED  BY <1>1, <2>1, <2>2 DEF Youngest
<1>4. ASSUME Youngest(t) PROVE KeysNameYoungest(t)
  <2>1. {Key(t.entries[i]) : i \in D} = DOMAIN t.numbers  BY <1>1, <1>4 DEF Youngest
  <2>2. ASSUME NEW k \in DOMAIN t.numbers PROVE Place(t, k) = Min(At(k))
    <3>1. /\ Place(t, k) \in At(k)
          /\ \A i \in At(k) : Place(t, k) <= i
      BY <1>1, <1>4 DEF Youngest
    <3>2. At(k) \in SUBSET Int  BY <1>1
    <3> HIDE DEF At
    <3> QED  BY <3>1, <3>2, MinIs
  <2> QED  BY <2>1, <2>2 DEF KeysNameYoungest, Place
<1> QED  BY <1>3, <1>4

-----------------------------------------------------------------------------
(* Eviction.                                                               *)

LEMMA GreatestIs ==
  ASSUME NEW n \in Nat, NEW T \in SUBSET (0..n), T # {}
  PROVE  Max(T) \in T /\ \A y \in T : y <= Max(T)
<1> DEFINE R == {n - y : y \in T}
<1>1. R \in SUBSET Nat /\ R # {}
  <2>1. \A y \in T : n - y \in Nat  OBVIOUS
  <2>2. PICK y \in T : TRUE  OBVIOUS
  <2>3. n - y \in R  BY <2>2
  <2> QED  BY <2>1, <2>3
<1>2. PICK r \in R : \A m \in R : r <= m  BY <1>1, LeastOf
<1>3. PICK x \in T : r = n - x  OBVIOUS
<1>4. \A y \in T : x >= y
  <2> TAKE y \in T
  <2>1. n - y \in R /\ y \in 0..n /\ x \in 0..n  OBVIOUS
  <2>2. r <= n - y  BY <1>2, <2>1
  <2> QED  BY <1>3, <2>1, <2>2
<1>5. Max(T) = CHOOSE z \in T : \A y \in T : z >= y  BY DEF Max
<1>6. Max(T) \in T /\ \A y \in T : Max(T) >= y  BY <1>4, <1>5
<1>7. \A y \in T : y \in 0..n  OBVIOUS
<1> QED  BY <1>6, <1>7

\* What two parts of a table's entries make up.
LEMMA SizeCut ==
  ASSUME NEW H, HeadersSized(H), NEW s \in Seq(H), NEW k \in 0..Len(s)
  PROVE  /\ SubSeq(s, 1, k) \in Seq(H) /\ Len(SubSeq(s, 1, k)) = k
         /\ \A i \in 1..k : SubSeq(s, 1, k)[i] = s[i]
         /\ SizeOf(SubSeq(s, 1, k)) \in Nat /\ SizeOf(SubSeq(s, k + 1, Len(s))) \in Nat
         /\ SizeOf(s) = SizeOf(SubSeq(s, 1, k)) + SizeOf(SubSeq(s, k + 1, Len(s)))
<1> DEFINE n == Len(s)
           a == SubSeq(s, 1, k)
           b == SubSeq(s, k + 1, n)
<1>1. n \in Nat /\ k \in Nat /\ k <= n /\ \A i \in 1..n : s[i] \in H  OBVIOUS
<1>2. a \in Seq(H) /\ Len(a) = k /\ \A i \in 1..k : a[i] = s[i]
  <2>1. \A i \in 1..k : s[i] \in H  BY <1>1
  <2>2. 1 \in Int /\ k \in Int /\ k - 1 + 1 = k  BY <1>1
  <2>3. /\ a \in Seq(H) /\ Len(a) = IF 1 <= k THEN k - 1 + 1 ELSE 0
        /\ \A i \in 1..(k - 1 + 1) : a[i] = s[1 + i - 1]
    BY <2>1, <2>2, SubSeqProperties
  <2> QED  BY <1>1, <2>2, <2>3
<1>3. b \in Seq(H) /\ Len(b) = n - k /\ \A i \in 1..(n - k) : b[i] = s[k + i]
  <2>1. \A i \in (k + 1)..n : s[i] \in H  BY <1>1
  <2>2. k + 1 \in Int /\ n \in Int /\ n - (k + 1) + 1 = n - k  BY <1>1
  <2>3. /\ b \in Seq(H) /\ Len(b) = IF k + 1 <= n THEN n - (k + 1) + 1 ELSE 0
        /\ \A i \in 1..(n - (k + 1) + 1) : b[i] = s[k + 1 + i - 1]
    BY <2>1, <2>2, SubSeqProperties
  <2> HIDE DEF b
  <2>4. (IF k + 1 <= n THEN n - (k + 1) + 1 ELSE 0) = n - k  BY <1>1
  <2>5. ASSUME NEW i \in 1..(n - k) PROVE b[i] = s[k + i]
    <3>1. k + 1 + i - 1 = k + i  BY <1>1
    <3> QED  BY <2>2, <2>3, <3>1
  <2> QED  BY <2>3, <2>4, <2>5
<1> HIDE DEF a, b
<1>4. s = a \o b
  <2>1. /\ a \o b \in Seq(H) /\ Len(a \o b) = k + (n - k)
        /\ \A i \in 1..(k + (n - k)) : (a \o b)[i] = IF i <= k THEN a[i] ELSE b[i - k]
    BY <1>2, <1>3, ConcatProperties
  <2>2. Len(a \o b) = n /\ \A i \in 1..n : (a \o b)[i] = s[i]
    <3>1. k + (n - k) = n  BY <1>1
    <3>2. ASSUME NEW i \in 1..n PROVE (a \o b)[i] = s[i]
      <4>1. CASE i <= k  BY <1>1, <1>2, <2>1, <3>1, <4>1
      <4>2. CASE ~(i <= k)
        <5>1. i - k \in 1..(n - k) /\ k + (i - k) = i  BY <1>1, <4>2
        <5> QED  BY <1>3, <2>1, <3>1, <4>2, <5>1
      <4> QED  BY <4>1, <4>2
    <3> QED  BY <2>1, <3>1, <3>2
  <2> QED  BY <2>1, <2>2, SeqEqual
<1>5. SizeOf(a \o b) = SizeOf(a) + SizeOf(b) /\ SizeOf(a) \in Nat /\ SizeOf(b) \in Nat
  BY <1>2, <1>3, SizeAdds
<1> QED  BY <1>2, <1>4, <1>5 DEF a, b

\* The keys that the entries behind the first `kept' take with them.
Gone(t, kept) ==
    {Key(t.entries[i]) : i \in {j \in (kept + 1)..Len(t.entries) :
        /\ Key(t.entries[j]) \in DOMAIN t.numbers
        /\ t.seq - t.numbers[Key(t.entries[j])] = j - 1}}

LEMMA NumbersAre ==
  ASSUME NEW t, NEW kept
  PROVE  NumbersAfter(t, kept) = [k \in {x \in DOMAIN t.numbers : x \notin Gone(t, kept)} |-> t.numbers[k]]
BY DEF NumbersAfter, Gone, RestrictDomain, Restrict

\* A key whose youngest entry is kept stays, with its place; the others go.
LEMMA KeysEvicted ==
  ASSUME NEW H, NEW t \in Tables(H), Youngest(t), NEW kept \in 0..Len(t.entries),
         NEW u, u.entries = SubSeq(t.entries, 1, kept), u.seq = t.seq, u.numbers = NumbersAfter(t, kept),
         Len(u.entries) = kept, \A i \in 1..kept : u.entries[i] = t.entries[i]
  PROVE  Youngest(u) /\ u.numbers \in NumberMaps(H)
<1> DEFINE n == Len(t.entries)
           D == DOMAIN t.numbers
           E == {x \in D : x \notin Gone(t, kept)}
<1>1. n \in Nat /\ kept \in Nat /\ kept <= n /\ t.seq \in Nat /\ t.numbers \in NumberMaps(H)
  BY DEF Tables
<1>2. \A k \in D : t.numbers[k] \in Nat /\ \E e \in H : k = Key(e)
  BY <1>1, MapIs
<1>3. /\ D = {Key(t.entries[i]) : i \in 1..n}
      /\ \A k \in D : /\ Place(t, k) \in 1..n /\ Key(t.entries[Place(t, k)]) = k
                      /\ \A i \in 1..n : Key(t.entries[i]) = k => Place(t, k) <= i
  BY DEF Youngest
<1>4. u.numbers = [k \in E |-> t.numbers[k]]  BY NumbersAre
<1>5. DOMAIN u.numbers = E /\ (\A k \in E : u.numbers[k] = t.numbers[k])
      /\ u.numbers = [k \in DOMAIN u.numbers |-> u.numbers[k]]
  BY <1>4
<1>6. \A k \in E : Place(u, k) = Place(t, k)  BY <1>5 DEF Place
<1>7. ASSUME NEW k \in D PROVE k \in Gone(t, kept) <=> Place(t, k) > kept
  <2>1. ASSUME k \in Gone(t, kept) PROVE Place(t, k) > kept
    <3>1. PICK j \in (kept + 1)..n : k = Key(t.entries[j]) /\ t.seq - t.numbers[k] = j - 1
      BY <2>1 DEF Gone
    <3>2. t.numbers[k] \in Nat  BY <1>2
    <3>3. Place(t, k) = j  BY <1>1, <3>1, <3>2 DEF Place
    <3> QED  BY <1>1, <3>1, <3>3
  <2>2. ASSUME Place(t, k) > kept PROVE k \in Gone(t, kept)
    <3> DEFINE j == Place(t, k)
    <3>1. j \in 1..n /\ Key(t.entries[j]) = k  BY <1>3
    <3>2. t.numbers[k] \in Nat  BY <1>2
    <3>3. t.seq - t.numbers[k] = j - 1  BY <1>1, <3>2 DEF Place
    <3> HIDE DEF j
    <3>4. j \in (kept + 1)..n  BY <1>1, <2>2, <3>1 DEF j
    <3> QED  BY <3>1, <3>3, <3>4 DEF Gone
  <2> QED  BY <2>1, <2>2
<1>8. ASSUME NEW k \in E
      PROVE  /\ Place(u, k) \in 1..kept /\ Key(u.entries[Place(u, k)]) = k
             /\ \A i \in 1..kept : Key(u.entries[i]) = k => Place(u, k) <= i
  <2>1. k \in D /\ ~(Place(t, k) > kept) /\ Place(u, k) = Place(t, k)  BY <1>6, <1>7
  <2>2. Place(t, k) \in 1..kept  BY <1>1, <1>3, <2>1
  <2>3. u.entries[Place(t, k)] = t.entries[Place(t, k)]  BY <2>2
  <2>4. \A i \in 1..kept : i \in 1..n /\ u.entries[i] = t.entries[i]  BY <1>1
  <2> QED  BY <1>3, <2>1, <2>2, <2>3, <2>4
<1>9. E = {Key(u.entries[i]) : i \in 1..kept}
  <2>1. ASSUME NEW k \in E PROVE \E i \in 1..kept : k = Key(u.entries[i])
    BY <1>8
  <2>2. ASSUME NEW i \in 1..kept PROVE Key(u.entries[i]) \in E
    <3> DEFINE k == Key(t.entries[i])
    <3>1. i \in 1..n /\ u.entries[i] = t.entries[i]  BY <1>1
    <3>2. k \in D  BY <1>3, <3>1
    <3>3. Place(t, k) <= i /\ Place(t, k) \in 1..n  BY <1>3, <3>1, <3>2
    <3>4. ~(Place(t, k) > kept)  BY <1>1, <3>3
    <3> HIDE DEF k
    <3>5. k \in E  BY <1>7, <3>2, <3>4
    <3> QED  BY <3>1, <3>5 DEF k
  <2> QED  BY <2>1, <2>2
<1>10. Youngest(u)  BY <1>5, <1>8, <1>9 DEF Youngest
<1>11. u.numbers \in NumberMaps(H)
  <2>1. \A k \in DOMAIN u.numbers : u.numbers[k] \in Nat /\ \E e \in H : k = Key(e)
    BY <1>2, <1>5
  <2> QED  BY <1>5, <2>1, IsMap
<1> QED  BY <1>10, <1>11

LEMMA TableIs ==
  ASSUME NEW H, NEW t \in Tables(H)
  PROVE  /\ t.entries \in Seq(H) /\ Len(t.entries) \in Nat /\ DOMAIN t.entries = 1..Len(t.entries)
         /\ t.size \in Nat /\ t.limit \in Nat /\ t.max \in Nat /\ t.encoder \in BOOLEAN /\ t.seq \in Nat
         /\ t.numbers \in NumberMaps(H)
BY DEF Tables

\* evictTableBySize keeps the size right, and takes at least as much as it must
\* or all there is.
LEMMA Evicts ==
  ASSUME NEW H, HeadersSized(H), NEW t, Filled(t, H), NEW size \in Nat
  PROVE  LET u == EvictTableBySize(t, size) IN
         /\ u \in Tables(H) /\ u.size = SizeOf(u.entries) /\ KeysPart(u)
         /\ u.limit = t.limit /\ u.max = t.max /\ u.encoder = t.encoder /\ u.seq = t.seq
         /\ u.size <= t.size /\ (u.size = 0 \/ u.size + size <= t.size)
<1> DEFINE n == Len(t.entries)
           Enough == {k \in 0..n : k = 0 \/ SizeOf(SubSeq(t.entries, k + 1, n)) >= size}
           kept == Max(Enough)
           rest == SizeOf(SubSeq(t.entries, kept + 1, n))
           numbers == IF t.encoder THEN NumbersAfter(t, kept) ELSE t.numbers
           left == SubSeq(t.entries, 1, kept)
           u == [t EXCEPT !.entries = left, !.size = Max({0, t.size - rest}), !.numbers = numbers]
<1>1. u = EvictTableBySize(t, size)  BY DEF EvictTableBySize
<1>2. /\ t \in Tables(H) /\ t.size = SizeOf(t.entries) /\ KeysPart(t)
      /\ t.entries \in Seq(H) /\ n \in Nat /\ t.size \in Nat
  BY TableIs DEF Filled
<1>3. kept \in 0..n /\ (kept = 0 \/ rest >= size)
  <2>1. Enough \in SUBSET (0..n) /\ 0 \in Enough  BY <1>2
  <2>2. Enough # {}  BY <2>1
  <2> HIDE DEF Enough
  <2>3. kept \in Enough  BY <1>2, <2>1, <2>2, GreatestIs
  <2> QED  BY <2>3 DEF Enough
<1> HIDE DEF kept
<1>4. /\ left \in Seq(H) /\ Len(left) = kept /\ \A i \in 1..kept : left[i] = t.entries[i]
      /\ SizeOf(left) \in Nat /\ rest \in Nat /\ SizeOf(t.entries) = SizeOf(left) + rest
  BY <1>2, <1>3, SizeCut
<1> HIDE DEF rest, left
<1>5. Max({0, t.size - rest}) = SizeOf(left)
  <2>1. t.size - rest = SizeOf(left)  BY <1>2, <1>4
  <2>2. Max({0, SizeOf(left)}) = IF SizeOf(left) > 0 THEN SizeOf(left) ELSE 0
    BY <1>4, MaxIs
  <2>3. Max({0, t.size - rest}) = Max({0, SizeOf(left)})  BY <2>1, Zenon
  <2> HIDE DEF u
  <2> QED  BY <1>4, <2>2, <2>3
<1>6. numbers \in NumberMaps(H)
      /\ (t.encoder => \A v : v.entries = left /\ v.seq = t.seq /\ v.numbers = numbers => Youngest(v))
  <2>1. CASE ~t.encoder  BY <1>2, <2>1, TableIs
  <2>2. CASE t.encoder
    <3>1. Youngest(t)  BY <1>2, <2>2, YoungestSame DEF KeysPart
    <3>2. numbers = NumbersAfter(t, kept)  BY <2>2
    <3> HIDE DEF numbers
    <3>3. ASSUME NEW v, v.entries = left, v.seq = t.seq, v.numbers = numbers
          PROVE  Youngest(v) /\ v.numbers \in NumberMaps(H)
      <4>1. Len(v.entries) = kept /\ (\A i \in 1..kept : v.entries[i] = t.entries[i])
            /\ v.entries = SubSeq(t.entries, 1, kept)
        BY <1>4, <3>3 DEF left
      <4> QED  BY <1>2, <1>3, <3>1, <3>2, <3>3, <4>1, KeysEvicted
    <3>4. numbers \in NumberMaps(H)
      <4> DEFINE v == [entries |-> left, seq |-> t.seq, numbers |-> numbers]
      <4>1. v.entries = left /\ v.seq = t.seq /\ v.numbers = numbers  OBVIOUS
      <4> HIDE DEF v
      <4> QED  BY <3>3, <4>1
    <3> QED  BY <3>3, <3>4
  <2> QED  BY <2>1, <2>2
<1>7. /\ u.entries = left /\ u.size = SizeOf(left) /\ u.numbers = numbers
      /\ u.limit = t.limit /\ u.max = t.max /\ u.encoder = t.encoder /\ u.seq = t.seq
  BY <1>2, <1>5 DEF Tables
<1>8. u \in Tables(H)
  <2> HIDE DEF numbers
  <2> QED  BY <1>2, <1>4, <1>5, <1>6 DEF Tables
<1>9. KeysPart(u)
  <2>1. CASE t.encoder
    <3>1. Youngest(u)  BY <1>6, <1>7, <2>1, Zenon
    <3> HIDE DEF u
    <3> QED  BY <1>7, <1>8, <2>1, <3>1, YoungestSame DEF KeysPart
  <2>2. CASE ~t.encoder
    <3>1. numbers = t.numbers /\ DOMAIN t.numbers = {}  BY <1>2, <2>2 DEF KeysPart
    <3> HIDE DEF u, numbers
    <3> QED  BY <1>7, <2>2, <3>1 DEF KeysPart
  <2> QED  BY <2>1, <2>2
<1>10. u.size <= t.size /\ (u.size = 0 \/ u.size + size <= t.size)
  <2>1. CASE kept = 0
    <3>1. left = << >>  BY <1>4, <2>1
    <3>2. SizeOf(<< >>) = 0  BY <1>2, SizeOfNone
    <3> HIDE DEF u
    <3> QED  BY <1>2, <1>7, <3>1, <3>2
  <2>2. CASE rest >= size
    <3> HIDE DEF u
    <3> QED  BY <1>2, <1>4, <1>7, <2>2
  <2> QED  BY <1>3, <2>1, <2>2
<1> QED  BY <1>1, <1>7, <1>8, <1>9, <1>10, <1>4

-----------------------------------------------------------------------------
(* The operations.                                                         *)

\* How large a table may be says nothing of its keys.
LEMMA SameKeys ==
  ASSUME NEW t, KeysPart(t), NEW u, u.entries = t.entries, u.encoder = t.encoder,
         u.seq = t.seq, u.numbers = t.numbers
  PROVE  KeysPart(u)
<1>1. CASE t.encoder
  <2>1. KeysNameYoungest(t)  BY <1>1 DEF KeysPart
  <2>2. KeysNameYoungest(u)  BY <2>1, Zenon DEF KeysNameYoungest
  <2> QED  BY <1>1, <2>2 DEF KeysPart
<1>2. CASE ~t.encoder
  BY <1>2 DEF KeysPart
<1> QED  BY <1>1, <1>2

LEMMA LimitKeeps ==
  ASSUME NEW H, HeadersSized(H), NEW t, Filled(t, H), NEW limit \in 0..t.max
  PROVE  /\ TableInv(UpdateLimitSize(t, limit), H) /\ UpdateLimitSize(t, limit).max = t.max
         /\ UpdateLimitSize(t, limit).encoder = t.encoder
<1> DEFINE room == IF t.size > limit THEN EvictTableBySize(t, t.size - limit) ELSE t
           u == [room EXCEPT !.limit = limit]
<1>1. t \in Tables(H) /\ t.size \in Nat /\ t.max \in Nat /\ limit \in Nat /\ limit <= t.max
  BY TableIs DEF Filled
<1>2. /\ room \in Tables(H) /\ room.size = SizeOf(room.entries) /\ KeysPart(room)
      /\ room.max = t.max /\ room.encoder = t.encoder /\ room.size <= limit
  <2>1. CASE t.size > limit
    <3>1. t.size - limit \in Nat  BY <1>1, <2>1
    <3> DEFINE v == EvictTableBySize(t, t.size - limit)
    <3>2. /\ v \in Tables(H) /\ v.size = SizeOf(v.entries) /\ KeysPart(v)
          /\ v.max = t.max /\ v.encoder = t.encoder /\ (v.size = 0 \/ v.size + (t.size - limit) <= t.size)
      BY <3>1, Evicts
    <3> HIDE DEF v
    <3>3. v.size \in Nat  BY <3>2, TableIs
    <3>4. v.size <= limit  BY <1>1, <3>2, <3>3
    <3> QED  BY <2>1, <3>2, <3>4 DEF v
  <2>2. CASE ~(t.size > limit)
    BY <1>1, <2>2 DEF Filled
  <2> QED  BY <2>1, <2>2
<1> HIDE DEF room
<1>3. /\ u \in Tables(H) /\ u.entries = room.entries /\ u.size = room.size /\ u.limit = limit
      /\ u.max = room.max /\ u.encoder = room.encoder /\ u.seq = room.seq /\ u.numbers = room.numbers
  BY <1>1, <1>2 DEF Tables
<1>4. u = UpdateLimitSize(t, limit)  BY DEF UpdateLimitSize, room
<1> HIDE DEF u
<1>5. KeysPart(u)  BY <1>2, <1>3, SameKeys
<1>6. SizeKept(u)  BY <1>1, <1>2, <1>3 DEF SizeKept
<1> QED  BY <1>2, <1>3, <1>4, <1>5, <1>6 DEF TableInv, Filled

LEMMA MaxKeeps ==
  ASSUME NEW H, HeadersSized(H), NEW t, TableInv(t, H), NEW max \in Nat
  PROVE  TableInv(SetMaxSize(t, max), H)
<1> DEFINE v == [t EXCEPT !.max = max]
<1>1. t \in Tables(H) /\ t.size \in Nat /\ t.max \in Nat /\ t.limit \in Nat
  BY TableIs DEF TableInv, Filled
<1>2. /\ v \in Tables(H) /\ v.entries = t.entries /\ v.size = t.size /\ v.limit = t.limit
      /\ v.max = max /\ v.encoder = t.encoder /\ v.seq = t.seq /\ v.numbers = t.numbers
  BY <1>1 DEF Tables
<1>3. SetMaxSize(t, max) = IF t.limit > max THEN UpdateLimitSize(v, max) ELSE v
  BY DEF SetMaxSize
<1> HIDE DEF v
<1>4. KeysPart(v)  BY <1>2, SameKeys DEF TableInv, Filled
<1>5. Filled(v, H) /\ v.size <= v.limit  BY <1>2, <1>4 DEF Filled, TableInv, SizeKept
<1>6. CASE t.limit > max
  <2>1. max \in 0..v.max  BY <1>2
  <2> QED  BY <1>3, <1>5, <1>6, <2>1, LimitKeeps
<1>7. CASE ~(t.limit > max)
  <2>1. v.limit <= v.max  BY <1>1, <1>2, <1>7
  <2> QED  BY <1>3, <1>5, <1>7, <2>1 DEF TableInv, Filled, SizeKept
<1> QED  BY <1>6, <1>7

LEMMA Pushed ==
  ASSUME NEW H, NEW old \in Seq(H), NEW e \in H
  PROVE  /\ <<e>> \o old \in Seq(H) /\ Len(<<e>> \o old) = Len(old) + 1
         /\ (<<e>> \o old)[1] = e /\ \A i \in 1..Len(old) : (<<e>> \o old)[i + 1] = old[i]
<1> DEFINE s == << e >>
           all == s \o old
<1>1. s \in Seq(H) /\ Len(s) = 1 /\ s[1] = e  OBVIOUS
<1> HIDE DEF s
<1>2. /\ all \in Seq(H) /\ Len(all) = Len(s) + Len(old)
      /\ \A i \in 1..(Len(s) + Len(old)) : all[i] = IF i <= Len(s) THEN s[i] ELSE old[i - Len(s)]
  BY <1>1, ConcatProperties
<1> HIDE DEF all
<1>3. Len(old) \in Nat  OBVIOUS
<1>4. all[1] = e  BY <1>1, <1>2, <1>3
<1>5. ASSUME NEW i \in 1..Len(old) PROVE all[i + 1] = old[i]
  <2>1. i + 1 \in 1..(1 + Len(old)) /\ ~(i + 1 <= 1) /\ (i + 1) - 1 = i  BY <1>3
  <2> QED  BY <1>1, <1>2, <2>1
<1> QED  BY <1>1, <1>2, <1>3, <1>4, <1>5 DEF all, s

\* The youngest entry is the newest: its number is the last one given.
LEMMA KeysAdded ==
  ASSUME NEW H, NEW t \in Tables(H), Youngest(t), NEW e \in H,
         NEW u, u.entries = <<e>> \o t.entries, u.seq = t.seq + 1,
         u.numbers = [k \in DOMAIN t.numbers \cup {Key(e)} |->
                        IF k = Key(e) THEN t.seq + 1 ELSE t.numbers[k]]
  PROVE  Youngest(u) /\ u.numbers \in NumberMaps(H)
<1> DEFINE n == Len(t.entries)
           D == DOMAIN t.numbers
           E == D \cup {Key(e)}
<1>1. n \in Nat /\ t.seq \in Nat /\ t.numbers \in NumberMaps(H) /\ t.entries \in Seq(H)
  BY TableIs
<1>2. \A k \in D : t.numbers[k] \in Nat /\ \E d \in H : k = Key(d)
  BY <1>1, MapIs
<1>3. /\ D = {Key(t.entries[i]) : i \in 1..n}
      /\ \A k \in D : /\ Place(t, k) \in 1..n /\ Key(t.entries[Place(t, k)]) = k
                      /\ \A i \in 1..n : Key(t.entries[i]) = k => Place(t, k) <= i
  BY DEF Youngest
<1>4. /\ DOMAIN u.numbers = E /\ u.numbers = [k \in DOMAIN u.numbers |-> u.numbers[k]]
      /\ u.numbers[Key(e)] = t.seq + 1
      /\ \A k \in E : k # Key(e) => k \in D /\ u.numbers[k] = t.numbers[k]
  OBVIOUS
<1>5. /\ Len(u.entries) = n + 1 /\ u.entries[1] = e
      /\ \A i \in 1..n : u.entries[i + 1] = t.entries[i]
  BY <1>1, Pushed
<1>6. Place(u, Key(e)) = 1  BY <1>1, <1>4 DEF Place
<1>7. ASSUME NEW k \in E, k # Key(e)
      PROVE  k \in D /\ Place(u, k) = Place(t, k) + 1 /\ Place(t, k) \in 1..n
  <2>1. k \in D /\ u.numbers[k] = t.numbers[k] /\ t.numbers[k] \in Nat  BY <1>2, <1>4, <1>7
  <2>2. Place(t, k) \in 1..n  BY <1>3, <2>1
  <2>3. Place(u, k) = (t.seq + 1) - t.numbers[k] + 1 /\ Place(t, k) = t.seq - t.numbers[k] + 1
    BY <2>1 DEF Place
  <2> DEFINE x == t.numbers[k]
  <2>4. x \in Nat  BY <2>1
  <2> HIDE DEF x
  <2>5. (t.seq + 1) - x + 1 = t.seq - x + 1 + 1  BY <1>1, <2>4
  <2> QED  BY <2>1, <2>2, <2>3, <2>5 DEF x
<1>8. ASSUME NEW i \in 1..(n + 1)
      PROVE  (i = 1 /\ u.entries[i] = e) \/ (i - 1 \in 1..n /\ u.entries[i] = t.entries[i - 1])
  <2>1. CASE i = 1  BY <1>5, <2>1
  <2>2. CASE i # 1
    <3>1. i - 1 \in 1..n /\ (i - 1) + 1 = i  BY <1>1, <2>2
    <3> QED  BY <1>5, <3>1
  <2> QED  BY <2>1, <2>2
<1> HIDE DEF n, D
<1>9. ASSUME NEW k \in E
      PROVE  /\ Place(u, k) \in 1..(n + 1) /\ Key(u.entries[Place(u, k)]) = k
             /\ \A i \in 1..(n + 1) : Key(u.entries[i]) = k => Place(u, k) <= i
  <2>1. CASE k = Key(e)  BY <1>1, <1>5, <1>6, <2>1
  <2>2. CASE k # Key(e)
    <3>1. k \in D /\ Place(u, k) = Place(t, k) + 1 /\ Place(t, k) \in 1..n  BY <1>7, <2>2
    <3>2. Place(u, k) \in 1..(n + 1) /\ Key(u.entries[Place(u, k)]) = k
      <4>1. u.entries[Place(t, k) + 1] = t.entries[Place(t, k)]  BY <1>5, <3>1
      <4>2. Key(t.entries[Place(t, k)]) = k  BY <1>3, <3>1
      <4>3. Place(t, k) + 1 \in 1..(n + 1)  BY <1>1, <3>1
      <4> QED  BY <3>1, <4>1, <4>2, <4>3
    <3>3. ASSUME NEW i \in 1..(n + 1), Key(u.entries[i]) = k PROVE Place(u, k) <= i
      <4>1. i - 1 \in 1..n /\ Key(t.entries[i - 1]) = k  BY <1>8, <2>2, <3>3
      <4>2. Place(t, k) <= i - 1  BY <1>3, <3>1, <4>1
      <4> QED  BY <1>1, <3>1, <4>2
    <3> QED  BY <3>2, <3>3
  <2> QED  BY <2>1, <2>2
<1>10. E = {Key(u.entries[i]) : i \in 1..(n + 1)}
  <2>1. ASSUME NEW k \in E PROVE \E i \in 1..(n + 1) : k = Key(u.entries[i])
    BY <1>9
  <2>2. ASSUME NEW i \in 1..(n + 1) PROVE Key(u.entries[i]) \in E
    BY <1>3, <1>8
  <2> HIDE DEF E
  <2> QED  BY <2>1, <2>2
<1>11. Youngest(u)
  <2> HIDE DEF E
  <2> QED  BY <1>4, <1>5, <1>9, <1>10 DEF Youngest
<1>12. u.numbers \in NumberMaps(H)
  <2>1. ASSUME NEW k \in E PROVE u.numbers[k] \in Nat /\ \E d \in H : k = Key(d)
    BY <1>1, <1>2, <1>4
  <2> HIDE DEF E
  <2> QED  BY <1>4, <2>1, IsMap
<1> QED  BY <1>11, <1>12

LEMMA AddKeeps ==
  ASSUME NEW H, HeadersSized(H), NEW t, TableInv(t, H), NEW e \in H
  PROVE  TableInv(AddHeader(t, e), H)
<1> DEFINE size == EntrySize(e)
           room == IF size + t.size > t.limit
                   THEN EvictTableBySize(t, size + t.size - t.limit) ELSE t
           added == [room EXCEPT !.entries = <<e>> \o @, !.size = @ + size]
           numbered == [added EXCEPT !.seq = t.seq + 1,
                           !.numbers = [k \in DOMAIN @ \cup {Key(e)} |->
                                          IF k = Key(e) THEN t.seq + 1 ELSE @[k]]]
<1>1. /\ t \in Tables(H) /\ t.size \in Nat /\ t.max \in Nat /\ t.limit \in Nat /\ size \in Nat
      /\ t.size <= t.limit /\ t.limit <= t.max /\ Filled(t, H)
  BY TableIs DEF TableInv, Filled, HeadersSized, SizeKept
<1>2. AddHeader(t, e) = IF size > t.limit THEN room ELSE IF ~t.encoder THEN added ELSE numbered
  BY DEF AddHeader
<1> HIDE DEF size
<1>3. /\ Filled(room, H) /\ room.limit = t.limit /\ room.max = t.max /\ room.encoder = t.encoder
      /\ room.seq = t.seq /\ room.size <= t.limit /\ (size <= t.limit => room.size + size <= t.limit)
  <2>1. CASE size + t.size > t.limit
    <3> DEFINE more == size + t.size - t.limit
               v == EvictTableBySize(t, more)
    <3>1. more \in Nat  BY <1>1, <2>1
    <3> HIDE DEF more
    <3>2. /\ v \in Tables(H) /\ v.size = SizeOf(v.entries) /\ KeysPart(v)
          /\ v.limit = t.limit /\ v.max = t.max /\ v.encoder = t.encoder /\ v.seq = t.seq
          /\ v.size <= t.size /\ (v.size = 0 \/ v.size + more <= t.size)
      BY <1>1, <3>1, Evicts
    <3>3. room = v  BY <2>1 DEF more
    <3> HIDE DEF v, room
    <3>4. v.size \in Nat  BY <3>2, TableIs
    <3>5. v.size <= t.limit /\ (size <= t.limit => v.size + size <= t.limit)
      BY <1>1, <3>2, <3>4 DEF more
    <3> QED  BY <3>2, <3>3, <3>5 DEF Filled
  <2>2. CASE ~(size + t.size > t.limit)
    <3>1. room = t  BY <2>2
    <3> HIDE DEF room
    <3> QED  BY <1>1, <2>2, <3>1
  <2> QED  BY <2>1, <2>2
<1> HIDE DEF room
<1>4. CASE size > t.limit
  BY <1>1, <1>2, <1>3, <1>4 DEF TableInv, Filled, SizeKept
<1>5. ASSUME size <= t.limit
      PROVE  /\ added \in Tables(H) /\ added.entries = <<e>> \o room.entries
             /\ added.size = SizeOf(added.entries) /\ added.size <= t.limit
             /\ added.limit = t.limit /\ added.max = t.max /\ added.encoder = t.encoder
             /\ added.seq = t.seq /\ added.numbers = room.numbers
  <2>1. room \in Tables(H) /\ room.size = SizeOf(room.entries)  BY <1>3 DEF Filled
  <2>2. room.entries \in Seq(H) /\ room.size \in Nat  BY <2>1, TableIs
  <2>3. << e >> \in Seq(H) /\ SizeOf(<< e >>) = size  BY SizeOfOne DEF size
  <2>4. SizeOf(<< e >> \o room.entries) = size + room.size  BY <2>1, <2>2, <2>3, SizeAdds
  <2>5. << e >> \o room.entries \in Seq(H)  BY <2>2, <2>3, ConcatProperties
  <2>6. /\ added \in Tables(H) /\ added.entries = << e >> \o room.entries
        /\ added.size = room.size + size /\ added.limit = room.limit /\ added.max = room.max
        /\ added.encoder = room.encoder /\ added.seq = room.seq /\ added.numbers = room.numbers
    <3> DEFINE all == << e >> \o room.entries
               more == room.size + size
    <3>1. added = [room EXCEPT !.entries = all, !.size = more]  OBVIOUS
    <3>2. all \in Seq(H) /\ more \in Nat  BY <1>1, <2>2, <2>5
    <3> HIDE DEF all, more, added
    <3>3. /\ added \in Tables(H) /\ added.entries = all
          /\ added.size = more /\ added.limit = room.limit /\ added.max = room.max
          /\ added.encoder = room.encoder /\ added.seq = room.seq /\ added.numbers = room.numbers
      BY <2>1, <3>1, <3>2 DEF Tables
    <3> QED  BY <3>3 DEF all, more
  <2> HIDE DEF added
  <2> QED  BY <1>1, <1>3, <1>5, <2>2, <2>4, <2>6
<1>6. CASE ~(size > t.limit) /\ ~t.encoder
  <2>1. AddHeader(t, e) = added /\ size <= t.limit  BY <1>1, <1>2, <1>6
  <2> HIDE DEF added
  <2>2. DOMAIN room.numbers = {}  BY <1>3, <1>6 DEF Filled, KeysPart
  <2>3. KeysPart(added)  BY <1>5, <1>6, <2>1, <2>2 DEF KeysPart
  <2> QED  BY <1>1, <1>5, <2>1, <2>3 DEF TableInv, Filled, SizeKept
<1>7. CASE ~(size > t.limit) /\ t.encoder
  <2>1. AddHeader(t, e) = numbered /\ size <= t.limit  BY <1>1, <1>2, <1>7
  <2>2. added \in Tables(H) /\ t.seq + 1 \in Nat  BY <1>1, <1>5, <2>1, TableIs
  <2> HIDE DEF added
  <2>3. room \in Tables(H) /\ KeysNameYoungest(room)  BY <1>3, <1>7 DEF Filled, KeysPart
  <2>4. Youngest(room)  BY <2>3, YoungestSame
  <2>5. /\ numbered.entries = <<e>> \o room.entries /\ numbered.seq = room.seq + 1
        /\ numbered.numbers = [k \in DOMAIN room.numbers \cup {Key(e)} |->
                                 IF k = Key(e) THEN room.seq + 1 ELSE room.numbers[k]]
        /\ numbered.size = added.size /\ numbered.limit = t.limit /\ numbered.max = t.max
        /\ numbered.encoder = t.encoder
    BY <1>3, <1>5, <2>1, <2>2 DEF Tables
  <2>6. Youngest(numbered) /\ numbered.numbers \in NumberMaps(H)
    <3> HIDE DEF numbered
    <3> QED  BY <2>3, <2>4, <2>5, KeysAdded
  <2>7. numbered \in Tables(H)
    <3> DEFINE new == [k \in DOMAIN added.numbers \cup {Key(e)} |->
                         IF k = Key(e) THEN t.seq + 1 ELSE added.numbers[k]]
    <3>1. numbered = [added EXCEPT !.seq = t.seq + 1, !.numbers = new] /\ numbered.numbers = new
      BY <2>2 DEF Tables
    <3>2. new \in NumberMaps(H)  BY <2>6, <3>1
    <3> HIDE DEF new, numbered
    <3> QED  BY <2>2, <3>1, <3>2 DEF Tables
  <2> HIDE DEF numbered
  <2>8. KeysPart(numbered)  BY <1>7, <2>5, <2>6, <2>7, YoungestSame DEF KeysPart
  <2> QED  BY <1>1, <1>5, <2>1, <2>5, <2>7, <2>8 DEF TableInv, Filled, SizeKept
<1> QED  BY <1>4, <1>6, <1>7

-----------------------------------------------------------------------------
\* What happens to a table that is used in one direction: encode and decode begin
\* with setMode, then add, or lower the limit to what was told; applySettings says
\* how large the table may be.
TableStep(t, u, H) ==
    \/ (t.encoder \/ t.entries = <<>>) /\ u = [t EXCEPT !.encoder = TRUE]
    \/ ~t.encoder /\ u = [t EXCEPT !.encoder = FALSE]
    \/ \E e \in H : u = AddHeader(t, e)
    \/ \E limit \in 0..t.max : u = UpdateLimitSize(t, limit)
    \/ \E max \in Nat : u = SetMaxSize(t, max)

LEMMA NewTableHolds == ASSUME NEW H PROVE TableInv(NewTable, H)
<1>1. << >> \in Seq(H) /\ [k \in {} |-> 0] \in NumberMaps(H) /\ DOMAIN [k \in {} |-> 0] = {}
  <2> DEFINE f == [k \in {} |-> 0]
  <2>1. DOMAIN f = {} /\ f = [k \in DOMAIN f |-> f[k]]  OBVIOUS
  <2> HIDE DEF f
  <2>2. f \in NumberMaps(H)  BY <2>1, IsMap
  <2> QED  BY <2>1, <2>2 DEF f
<1> DEFINE none == [k \in {} |-> 0]
<1> HIDE DEF none
<1>2. NewTable = [entries |-> <<>>, size |-> 0, limit |-> InitialLimit, max |-> InitialLimit,
                  encoder |-> FALSE, seq |-> 0, numbers |-> none]
  BY DEF NewTable, none
<1>3. none \in NumberMaps(H) /\ DOMAIN none = {}  BY <1>1 DEF none
<1>4. NewTable \in Tables(H)  BY <1>1, <1>2, <1>3, LimitAssumption DEF Tables
<1>5. /\ NewTable.entries = << >> /\ NewTable.size = 0 /\ NewTable.limit = InitialLimit
      /\ NewTable.max = InitialLimit /\ ~NewTable.encoder /\ NewTable.numbers = none
  BY <1>2
<1>6. NewTable.size = SizeOf(NewTable.entries)  BY <1>5, SizeOfNone
<1> QED  BY <1>3, <1>4, <1>5, <1>6, LimitAssumption DEF TableInv, Filled, SizeKept, KeysPart

LEMMA StepKeepsTable ==
  ASSUME NEW H, HeadersSized(H), NEW t, TableInv(t, H), NEW u, TableStep(t, u, H)
  PROVE  TableInv(u, H)
<1>1. t \in Tables(H) /\ KeysPart(t) /\ SizeKept(t) /\ t.size = SizeOf(t.entries)
  BY DEF TableInv, Filled
<1>2. ASSUME NEW mode \in BOOLEAN, u = [t EXCEPT !.encoder = mode], mode = t.encoder
      PROVE  TableInv(u, H)
  <2>1. u = t  BY <1>1, <1>2 DEF Tables
  <2> QED  BY <2>1
<1>3. CASE (t.encoder \/ t.entries = <<>>) /\ u = [t EXCEPT !.encoder = TRUE]
  <2>1. CASE t.encoder = TRUE  BY <1>2, <1>3, <2>1
  <2>2. CASE ~t.encoder /\ t.entries = <<>>
    <3>1. /\ u \in Tables(H) /\ u.entries = t.entries /\ u.size = t.size /\ u.limit = t.limit
          /\ u.max = t.max /\ u.encoder = TRUE /\ u.numbers = t.numbers
      BY <1>1, <1>3 DEF Tables
    <3>2. DOMAIN u.numbers = {} /\ DOMAIN u.entries = {}  BY <1>1, <2>2, <3>1 DEF KeysPart
    <3>3. KeysPart(u)  BY <3>1, <3>2 DEF KeysPart, KeysNameYoungest
    <3> QED  BY <1>1, <3>1, <3>3 DEF TableInv, Filled, SizeKept
  <2>3. t.encoder \in BOOLEAN  BY <1>1, TableIs
  <2> QED  BY <1>3, <2>1, <2>2, <2>3
<1>4. CASE ~t.encoder /\ u = [t EXCEPT !.encoder = FALSE]
  <2>1. t.encoder = FALSE  BY <1>1, <1>4, TableIs
  <2> QED  BY <1>2, <1>4, <2>1
<1>5. CASE \E e \in H : u = AddHeader(t, e)  BY <1>5, AddKeeps
<1>6. CASE \E limit \in 0..t.max : u = UpdateLimitSize(t, limit)
  BY <1>6, LimitKeeps DEF TableInv
<1>7. CASE \E max \in Nat : u = SetMaxSize(t, max)  BY <1>7, MaxKeeps
<1> QED  BY <1>3, <1>4, <1>5, <1>6, <1>7 DEF TableStep

\* Whatever is added to a table that is used in one direction, and however it is
\* limited meanwhile, its size is that of its entries and within its limit, which
\* is within what is allowed; and an encoder that looks for a key finds the
\* youngest entry that has it.
THEOREM TablesStaySound ==
  ASSUME NEW H, HeadersSized(H), NEW n \in Nat, NEW table, table[0] = NewTable,
         \A i \in 1..n : TableStep(table[i - 1], table[i], H)
  PROVE  \A i \in 0..n : SizeKept(table[i]) /\ (table[i].encoder => KeysNameYoungest(table[i]))
<1> DEFINE T == {i \in 0..n : TableInv(table[i], H)}
<1>1. 0 \in T  BY NewTableHolds
<1>2. ASSUME NEW i \in 1..n, i - 1 \in T PROVE i \in T
  <2>1. i \in 0..n /\ TableInv(table[i - 1], H)  BY <1>2
  <2>2. TableInv(table[i], H)  BY <2>1, StepKeepsTable
  <2> QED  BY <2>1, <2>2
<1> HIDE DEF T
<1>3. \A i \in 0..n : i \in T  BY <1>1, <1>2, UpTo, Zenon
<1> QED  BY <1>3 DEF T, TableInv, Filled, KeysPart

-----------------------------------------------------------------------------
(* Two tables in step.                                                     *)

Begins(p, s) == Len(p) <= Len(s) /\ \A i \in 1..Len(p) : p[i] = s[i]

\* The first `kept' entries are those that there is room for in `room' octets.
Roomy(entries, room, kept) ==
    /\ kept \in 0..Len(entries)
    /\ kept = 0 \/ SizeOf(SubSeq(entries, 1, kept)) <= room
    /\ \A k \in 0..Len(entries) : SizeOf(SubSeq(entries, 1, k)) <= room => k <= kept

LEMMA WholeIs ==
  ASSUME NEW H, NEW s \in Seq(H)
  PROVE  SubSeq(s, 1, Len(s)) = s
<1>1. Len(s) \in Nat /\ \A i \in 1..Len(s) : s[i] \in H  OBVIOUS
<1>2. /\ SubSeq(s, 1, Len(s)) \in Seq(H)
      /\ Len(SubSeq(s, 1, Len(s))) = IF 1 <= Len(s) THEN Len(s) - 1 + 1 ELSE 0
      /\ \A i \in 1..(Len(s) - 1 + 1) : SubSeq(s, 1, Len(s))[i] = s[1 + i - 1]
  BY <1>1, SubSeqProperties
<1>3. Len(s) - 1 + 1 = Len(s) /\ \A i \in 1..Len(s) : 1 + i - 1 = i  BY <1>1
<1>4. Len(SubSeq(s, 1, Len(s))) = Len(s)  BY <1>1, <1>2, <1>3
<1>5. \A i \in 1..Len(s) : SubSeq(s, 1, Len(s))[i] = s[i]  BY <1>2, <1>3
<1> QED  BY <1>2, <1>4, <1>5, SeqEqual

\* What an eviction leaves is what there is room for.
LEMMA EvictLeaves ==
  ASSUME NEW H, HeadersSized(H), NEW t, Filled(t, H), NEW room \in Int, t.size > room,
         NEW size, size = t.size - room
  PROVE  \E kept : /\ Roomy(t.entries, room, kept)
                   /\ EvictTableBySize(t, size).entries = SubSeq(t.entries, 1, kept)
<1> DEFINE n == Len(t.entries)
           Enough == {k \in 0..n : k = 0 \/ SizeOf(SubSeq(t.entries, k + 1, n)) >= size}
           kept == Max(Enough)
<1>1. /\ t \in Tables(H) /\ t.size = SizeOf(t.entries) /\ t.entries \in Seq(H) /\ n \in Nat
      /\ t.size \in Nat
  BY TableIs DEF Filled
<1>2. EvictTableBySize(t, size).entries = SubSeq(t.entries, 1, kept)
  BY <1>1 DEF EvictTableBySize, Tables
<1>3. Enough \in SUBSET (0..n) /\ 0 \in Enough  BY <1>1
<1>4. kept \in Enough /\ \A k \in Enough : k <= kept
  <2>1. Enough # {}  BY <1>3
  <2> HIDE DEF Enough
  <2> QED  BY <1>1, <1>3, <2>1, GreatestIs
<1> HIDE DEF kept
<1>5. ASSUME NEW k \in 0..n
      PROVE  SizeOf(SubSeq(t.entries, k + 1, n)) >= size <=> SizeOf(SubSeq(t.entries, 1, k)) <= room
  <2>1. /\ SizeOf(SubSeq(t.entries, 1, k)) \in Nat /\ SizeOf(SubSeq(t.entries, k + 1, n)) \in Nat
        /\ SizeOf(t.entries) = SizeOf(SubSeq(t.entries, 1, k)) + SizeOf(SubSeq(t.entries, k + 1, n))
    BY <1>1, SizeCut
  <2> QED  BY <1>1, <2>1
<1>6. Roomy(t.entries, room, kept)
  <2>1. kept \in 0..n  BY <1>3, <1>4
  <2>2. kept = 0 \/ SizeOf(SubSeq(t.entries, 1, kept)) <= room  BY <1>4, <1>5
  <2>3. ASSUME NEW k \in 0..n, SizeOf(SubSeq(t.entries, 1, k)) <= room PROVE k <= kept
    <3>1. k \in Enough  BY <1>5, <2>3
    <3> QED  BY <1>4, <3>1
  <2> QED  BY <2>1, <2>2, <2>3 DEF Roomy
<1> QED  BY <1>2, <1>6

\* And so is all, when there is room for it.
LEMMA AllIsRoomy ==
  ASSUME NEW H, HeadersSized(H), NEW t, Filled(t, H), NEW room \in Int, t.size <= room
  PROVE  Roomy(t.entries, room, Len(t.entries)) /\ SubSeq(t.entries, 1, Len(t.entries)) = t.entries
<1>1. t.size = SizeOf(t.entries) /\ t.entries \in Seq(H) /\ Len(t.entries) \in Nat
  BY TableIs DEF Filled
<1> DEFINE n == Len(t.entries)
<1>2. SubSeq(t.entries, 1, n) = t.entries  BY <1>1, WholeIs
<1>3. SizeOf(SubSeq(t.entries, 1, n)) <= room  BY <1>1, <1>2
<1>4. n \in 0..n /\ \A k \in 0..n : k <= n  BY <1>1
<1> HIDE DEF n
<1>5. Roomy(t.entries, room, n)  BY <1>3, <1>4 DEF Roomy, n
<1> QED  BY <1>2, <1>5 DEF n

\* The table that holds more of the same and has as much room keeps more.
LEMMA KeepsMore ==
  ASSUME NEW H, HeadersSized(H), NEW s \in Seq(H), NEW t \in Seq(H), Begins(s, t),
         NEW x \in Int, NEW y \in Int, x <= y, NEW k, Roomy(s, x, k), NEW m, Roomy(t, y, m)
  PROVE  /\ Begins(SubSeq(s, 1, k), SubSeq(t, 1, m))
         /\ SubSeq(s, 1, k) \in Seq(H) /\ SubSeq(t, 1, m) \in Seq(H)
<1>1. /\ k \in 0..Len(s) /\ m \in 0..Len(t) /\ Len(s) \in Nat /\ Len(t) \in Nat /\ Len(s) <= Len(t)
      /\ \A i \in 1..Len(s) : s[i] = t[i]
  BY DEF Roomy, Begins
<1>2. SubSeq(s, 1, k) \in Seq(H) /\ Len(SubSeq(s, 1, k)) = k
      /\ (\A i \in 1..k : SubSeq(s, 1, k)[i] = s[i]) /\ SizeOf(SubSeq(s, 1, k)) \in Nat
  BY <1>1, SizeCut
<1>3. /\ SubSeq(t, 1, m) \in Seq(H) /\ Len(SubSeq(t, 1, m)) = m
      /\ \A i \in 1..m : SubSeq(t, 1, m)[i] = t[i]
  BY <1>1, SizeCut
<1>4. k <= m
  <2>1. CASE k = 0
    <3>1. m \in Nat  BY <1>1
    <3> QED  BY <2>1, <3>1
  <2>2. CASE k # 0
    <3>1. k \in 0..Len(t)  BY <1>1
    <3>2. /\ SubSeq(t, 1, k) \in Seq(H) /\ Len(SubSeq(t, 1, k)) = k
          /\ \A i \in 1..k : SubSeq(t, 1, k)[i] = t[i]
      BY <3>1, SizeCut
    <3>3. \A i \in 1..k : SubSeq(s, 1, k)[i] = SubSeq(t, 1, k)[i]  BY <1>1, <1>2, <3>2
    <3>4. SubSeq(s, 1, k) = SubSeq(t, 1, k)  BY <1>2, <3>2, <3>3, SeqEqual
    <3>5. SizeOf(SubSeq(s, 1, k)) <= x  BY <2>2 DEF Roomy
    <3>6. SizeOf(SubSeq(t, 1, k)) <= y
      <4>1. SizeOf(SubSeq(t, 1, k)) = SizeOf(SubSeq(s, 1, k))  BY <3>4, Zenon
      <4> DEFINE z == SizeOf(SubSeq(s, 1, k))
      <4>2. z \in Nat /\ z <= x  BY <1>2, <3>5
      <4> HIDE DEF z
      <4>3. z <= y  BY <4>2
      <4> QED  BY <4>1, <4>3 DEF z
    <3> QED  BY <3>1, <3>6 DEF Roomy
  <2> QED  BY <2>1, <2>2
<1>5. \A i \in 1..k : i \in 1..m /\ i \in 1..Len(s)  BY <1>1, <1>4
<1> QED  BY <1>1, <1>2, <1>3, <1>4, <1>5 DEF Begins

\* What updateLimitSize leaves.
LEMMA LimitLeaves ==
  ASSUME NEW H, HeadersSized(H), NEW t, Filled(t, H), NEW limit \in Nat
  PROVE  /\ UpdateLimitSize(t, limit).limit = limit
         /\ \E kept : /\ Roomy(t.entries, limit, kept)
                      /\ UpdateLimitSize(t, limit).entries = SubSeq(t.entries, 1, kept)
<1>1. t \in Tables(H) /\ t.size \in Nat /\ limit \in Int  BY TableIs DEF Filled
<1>2. CASE t.size > limit
  <2> DEFINE v == EvictTableBySize(t, t.size - limit)
  <2>1. t.size - limit \in Nat  BY <1>1, <1>2
  <2>2. v \in Tables(H)  BY <2>1, Evicts
  <2>3. \E kept : Roomy(t.entries, limit, kept) /\ v.entries = SubSeq(t.entries, 1, kept)
    BY <1>1, <1>2, EvictLeaves
  <2>4. UpdateLimitSize(t, limit) = [v EXCEPT !.limit = limit]  BY <1>2 DEF UpdateLimitSize
  <2> HIDE DEF v
  <2>5. UpdateLimitSize(t, limit).limit = limit /\ UpdateLimitSize(t, limit).entries = v.entries
    BY <2>2, <2>4 DEF Tables
  <2> QED  BY <2>3, <2>5
<1>3. CASE ~(t.size > limit)
  <2>1. UpdateLimitSize(t, limit) = [t EXCEPT !.limit = limit]  BY <1>3 DEF UpdateLimitSize
  <2>2. UpdateLimitSize(t, limit).limit = limit /\ UpdateLimitSize(t, limit).entries = t.entries
    BY <1>1, <2>1 DEF Tables
  <2>3. t.size <= limit  BY <1>1, <1>3
  <2>4. Roomy(t.entries, limit, Len(t.entries)) /\ SubSeq(t.entries, 1, Len(t.entries)) = t.entries
    BY <1>1, <2>3, AllIsRoomy
  <2> QED  BY <2>2, <2>4
<1> QED  BY <1>2, <1>3

\* What addHeader leaves, and that the new entry is in front unless it is too large.
LEMMA AddLeaves ==
  ASSUME NEW H, HeadersSized(H), NEW t, TableInv(t, H), NEW e \in H
  PROVE  /\ AddHeader(t, e).limit = t.limit
         /\ \E kept : /\ Roomy(t.entries, t.limit - EntrySize(e), kept)
                      /\ AddHeader(t, e).entries =
                            IF EntrySize(e) > t.limit THEN SubSeq(t.entries, 1, kept)
                            ELSE <<e>> \o SubSeq(t.entries, 1, kept)
<1> DEFINE size == EntrySize(e)
           room == IF size + t.size > t.limit
                   THEN EvictTableBySize(t, size + t.size - t.limit) ELSE t
           added == [room EXCEPT !.entries = <<e>> \o @, !.size = @ + size]
           numbered == [added EXCEPT !.seq = t.seq + 1,
                           !.numbers = [k \in DOMAIN @ \cup {Key(e)} |->
                                          IF k = Key(e) THEN t.seq + 1 ELSE @[k]]]
<1>1. /\ t \in Tables(H) /\ t.size \in Nat /\ t.limit \in Nat /\ size \in Nat /\ Filled(t, H)
  BY TableIs DEF TableInv, Filled, HeadersSized
<1>2. AddHeader(t, e) = IF size > t.limit THEN room ELSE IF ~t.encoder THEN added ELSE numbered
  BY DEF AddHeader
<1>3. /\ room \in Tables(H) /\ room.limit = t.limit
      /\ \E kept : Roomy(t.entries, t.limit - size, kept) /\ room.entries = SubSeq(t.entries, 1, kept)
  <2>1. CASE size + t.size > t.limit
    <3> DEFINE more == size + t.size - t.limit
               v == EvictTableBySize(t, more)
    <3>1. /\ more \in Nat /\ more = t.size - (t.limit - size) /\ t.size > t.limit - size
          /\ t.limit - size \in Int
      BY <1>1, <2>1
    <3> HIDE DEF more, size
    <3>2. v \in Tables(H) /\ v.limit = t.limit  BY <1>1, <3>1, Evicts
    <3>3. \E kept : Roomy(t.entries, t.limit - size, kept) /\ v.entries = SubSeq(t.entries, 1, kept)
      BY <1>1, <3>1, EvictLeaves
    <3>4. room = v  BY <2>1 DEF more, size
    <3> HIDE DEF v, room
    <3> QED  BY <3>2, <3>3, <3>4
  <2>2. CASE ~(size + t.size > t.limit)
    <3>1. room = t  BY <2>2
    <3>2. t.size <= t.limit - size /\ t.limit - size \in Int  BY <1>1, <2>2
    <3> HIDE DEF room, size
    <3>3. Roomy(t.entries, t.limit - size, Len(t.entries)) /\ SubSeq(t.entries, 1, Len(t.entries)) = t.entries
      BY <1>1, <3>2, AllIsRoomy
    <3> QED  BY <1>1, <3>1, <3>3
  <2> QED  BY <2>1, <2>2
<1> HIDE DEF room, size
<1>4. added.limit = t.limit /\ added.entries = <<e>> \o room.entries
  BY <1>3 DEF Tables
<1>5. numbered.limit = t.limit /\ numbered.entries = <<e>> \o room.entries
  BY <1>3 DEF Tables
<1> HIDE DEF added, numbered
<1>6. /\ AddHeader(t, e).limit = t.limit
      /\ AddHeader(t, e).entries = IF size > t.limit THEN room.entries ELSE <<e>> \o room.entries
  BY <1>2, <1>3, <1>4, <1>5
<1>7. PICK kept : Roomy(t.entries, t.limit - size, kept) /\ room.entries = SubSeq(t.entries, 1, kept)
  BY <1>3
<1>8. AddHeader(t, e).entries = IF size > t.limit THEN SubSeq(t.entries, 1, kept)
                                ELSE <<e>> \o SubSeq(t.entries, 1, kept)
  BY <1>6, <1>7
<1> QED  BY <1>6, <1>7, <1>8 DEF size

LEMMA PushedBegins ==
  ASSUME NEW H, NEW e \in H, NEW s \in Seq(H), NEW t \in Seq(H), Begins(s, t)
  PROVE  Begins(<<e>> \o s, <<e>> \o t)
<1> DEFINE p == <<e>> \o s
           q == <<e>> \o t
<1>1. Len(p) = Len(s) + 1 /\ p[1] = e /\ \A i \in 1..Len(s) : p[i + 1] = s[i]  BY Pushed
<1>2. Len(q) = Len(t) + 1 /\ q[1] = e /\ \A i \in 1..Len(t) : q[i + 1] = t[i]  BY Pushed
<1>3. Len(s) \in Nat /\ Len(t) \in Nat /\ Len(s) <= Len(t) /\ \A i \in 1..Len(s) : s[i] = t[i]
  BY DEF Begins
<1> HIDE DEF p, q
<1>4. ASSUME NEW i \in 1..Len(p) PROVE p[i] = q[i]
  <2>1. CASE i = 1  BY <1>1, <1>2, <2>1
  <2>2. CASE i # 1
    <3>1. i - 1 \in 1..Len(s) /\ i - 1 \in 1..Len(t) /\ (i - 1) + 1 = i  BY <1>1, <1>3, <2>2
    <3> QED  BY <1>1, <1>2, <1>3, <3>1
  <2> QED  BY <2>1, <2>2
<1> QED  BY <1>1, <1>2, <1>3, <1>4 DEF Begins, p, q

LEMMA NothingBegins == ASSUME NEW H, NEW s \in Seq(H), NEW t \in Seq(H), s = << >> PROVE Begins(s, t)
<1>1. Len(s) = 0 /\ Len(t) \in Nat  OBVIOUS
<1> QED  BY <1>1 DEF Begins

\* What happens to an encoder's table t and then, in the order of the octets
\* between them, to the decoder's table u: a header is added to both, the encoder
\* is told how large its table may be, or it tells the limit.
PairStep(t, u, tn, un, H) ==
    \/ (t.encoder \/ t.entries = <<>>) /\ tn = [t EXCEPT !.encoder = TRUE] /\ un = u
    \/ \E e \in H : tn = AddHeader(t, e) /\ un = AddHeader(u, e)
    \/ \E max \in Nat : tn = SetMaxSize(t, max) /\ un = u
    \/ t.limit <= u.max /\ tn = t /\ un = UpdateLimitSize(u, t.limit)

\* The decoder's limit is never below the encoder's.
PairInv(t, u, H) ==
    /\ TableInv(t, H) /\ TableInv(u, H)
    /\ t.limit <= u.limit
    /\ Begins(t.entries, u.entries)

LEMMA AddsInStep ==
  ASSUME NEW H, HeadersSized(H), NEW t, NEW u, PairInv(t, u, H), NEW e \in H
  PROVE  PairInv(AddHeader(t, e), AddHeader(u, e), H)
<1> DEFINE tn == AddHeader(t, e)
           un == AddHeader(u, e)
           size == EntrySize(e)
<1>1. /\ t.limit \in Nat /\ u.limit \in Nat /\ t.limit <= u.limit /\ size \in Nat
      /\ t.entries \in Seq(H) /\ u.entries \in Seq(H) /\ Begins(t.entries, u.entries)
  BY TableIs DEF PairInv, TableInv, Filled, HeadersSized
<1>2. TableInv(tn, H) /\ TableInv(un, H)  BY AddKeeps DEF PairInv
<1>3. PICK k : /\ Roomy(t.entries, t.limit - size, k)
               /\ tn.entries = IF size > t.limit THEN SubSeq(t.entries, 1, k)
                               ELSE <<e>> \o SubSeq(t.entries, 1, k)
  BY AddLeaves DEF PairInv
<1>4. PICK m : /\ Roomy(u.entries, u.limit - size, m)
               /\ un.entries = IF size > u.limit THEN SubSeq(u.entries, 1, m)
                               ELSE <<e>> \o SubSeq(u.entries, 1, m)
  BY AddLeaves DEF PairInv
<1>5. tn.limit = t.limit /\ un.limit = u.limit  BY AddLeaves DEF PairInv
<1> HIDE DEF size, tn, un
<1>6. /\ Begins(SubSeq(t.entries, 1, k), SubSeq(u.entries, 1, m))
      /\ SubSeq(t.entries, 1, k) \in Seq(H) /\ SubSeq(u.entries, 1, m) \in Seq(H)
  <2>1. t.limit - size \in Int /\ u.limit - size \in Int /\ t.limit - size <= u.limit - size
    BY <1>1
  <2> QED  BY <1>1, <1>3, <1>4, <2>1, KeepsMore
<1>7. Begins(tn.entries, un.entries)
  <2>1. CASE size > t.limit
    <3>1. k = 0 /\ tn.entries = SubSeq(t.entries, 1, k)
      <4>1. k \in 0..Len(t.entries)  BY <1>3 DEF Roomy
      <4>2. SizeOf(SubSeq(t.entries, 1, k)) \in Nat  BY <1>1, <4>1, SizeCut
      <4>3. k = 0 \/ SizeOf(SubSeq(t.entries, 1, k)) <= t.limit - size  BY <1>3 DEF Roomy
      <4> QED  BY <1>1, <1>3, <2>1, <4>2, <4>3
    <3>2. tn.entries = << >>  BY <1>1, <1>6, <3>1
    <3>3. tn.entries \in Seq(H) /\ un.entries \in Seq(H)
      BY <1>2, TableIs DEF TableInv, Filled
    <3> QED  BY <3>2, <3>3, NothingBegins
  <2>2. CASE ~(size > t.limit)
    <3>1. ~(size > u.limit)  BY <1>1, <2>2
    <3>2. tn.entries = <<e>> \o SubSeq(t.entries, 1, k) /\ un.entries = <<e>> \o SubSeq(u.entries, 1, m)
      BY <1>3, <1>4, <2>2, <3>1
    <3> QED  BY <1>6, <3>2, PushedBegins
  <2> QED  BY <2>1, <2>2
<1> QED  BY <1>1, <1>2, <1>5, <1>7 DEF PairInv, tn, un

\* A table that is limited begins with what it began with.
LEMMA MaxLowers ==
  ASSUME NEW H, HeadersSized(H), NEW t, TableInv(t, H), NEW max \in Nat
  PROVE  /\ SetMaxSize(t, max).limit <= t.limit
         /\ \E kept : /\ kept \in 0..Len(t.entries)
                      /\ SetMaxSize(t, max).entries = SubSeq(t.entries, 1, kept)
<1> DEFINE v == [t EXCEPT !.max = max]
<1>1. t \in Tables(H) /\ t.limit \in Nat /\ t.entries \in Seq(H) /\ Len(t.entries) \in Nat
  BY TableIs DEF TableInv, Filled
<1>2. /\ v \in Tables(H) /\ v.entries = t.entries /\ v.size = t.size /\ v.limit = t.limit
      /\ v.max = max /\ v.encoder = t.encoder /\ v.seq = t.seq /\ v.numbers = t.numbers
  BY <1>1 DEF Tables
<1>3. SetMaxSize(t, max) = IF t.limit > max THEN UpdateLimitSize(v, max) ELSE v
  BY DEF SetMaxSize
<1> HIDE DEF v
<1>4. KeysPart(v)  BY <1>2, SameKeys DEF TableInv, Filled
<1>5. Filled(v, H)  BY <1>2, <1>4 DEF Filled, TableInv
<1>6. CASE t.limit > max
  <2>1. /\ UpdateLimitSize(v, max).limit = max
        /\ \E kept : Roomy(v.entries, max, kept) /\ UpdateLimitSize(v, max).entries = SubSeq(v.entries, 1, kept)
    BY <1>5, LimitLeaves
  <2>2. SetMaxSize(t, max) = UpdateLimitSize(v, max)  BY <1>3, <1>6
  <2>3. PICK kept : Roomy(v.entries, max, kept) /\ UpdateLimitSize(v, max).entries = SubSeq(v.entries, 1, kept)
    BY <2>1
  <2>4. kept \in 0..Len(t.entries)  BY <1>2, <2>3 DEF Roomy
  <2>5. SetMaxSize(t, max).limit <= t.limit  BY <1>1, <1>6, <2>1, <2>2
  <2> QED  BY <1>2, <2>2, <2>3, <2>4, <2>5
<1>7. CASE ~(t.limit > max)
  <2>1. SetMaxSize(t, max).limit = t.limit /\ SetMaxSize(t, max).entries = t.entries
    BY <1>2, <1>3, <1>7
  <2>2. SubSeq(t.entries, 1, Len(t.entries)) = t.entries /\ Len(t.entries) \in 0..Len(t.entries)
    BY <1>1, WholeIs
  <2>3. SetMaxSize(t, max).limit <= t.limit  BY <1>1, <2>1
  <2> QED  BY <2>1, <2>2, <2>3
<1> QED  BY <1>6, <1>7

LEMMA PairStepKeeps ==
  ASSUME NEW H, HeadersSized(H), NEW t, NEW u, PairInv(t, u, H), NEW tn, NEW un, PairStep(t, u, tn, un, H)
  PROVE  PairInv(tn, un, H)
<1>1. /\ TableInv(t, H) /\ TableInv(u, H) /\ t \in Tables(H) /\ u \in Tables(H)
      /\ t.limit \in Nat /\ u.limit \in Nat /\ u.max \in Nat /\ t.limit <= u.limit
      /\ t.entries \in Seq(H) /\ u.entries \in Seq(H) /\ Begins(t.entries, u.entries)
      /\ Len(t.entries) \in Nat /\ Filled(u, H)
  BY TableIs DEF PairInv, TableInv, Filled
<1>2. CASE (t.encoder \/ t.entries = <<>>) /\ tn = [t EXCEPT !.encoder = TRUE] /\ un = u
  <2>1. TableInv(tn, H)  BY <1>1, <1>2, StepKeepsTable DEF TableStep
  <2>2. tn.limit = t.limit /\ tn.entries = t.entries  BY <1>1, <1>2 DEF Tables
  <2> QED  BY <1>1, <1>2, <2>1, <2>2 DEF PairInv
<1>3. CASE \E e \in H : tn = AddHeader(t, e) /\ un = AddHeader(u, e)
  BY <1>3, AddsInStep
<1>4. CASE \E max \in Nat : tn = SetMaxSize(t, max) /\ un = u
  <2>1. PICK max \in Nat : tn = SetMaxSize(t, max) /\ un = u  BY <1>4
  <2>2. TableInv(tn, H)  BY <1>1, <2>1, MaxKeeps
  <2>3. PICK kept \in 0..Len(t.entries) : tn.entries = SubSeq(t.entries, 1, kept)
    BY <1>1, <2>1, MaxLowers
  <2>4. tn.limit <= t.limit /\ tn.limit \in Nat
    <3>1. tn.limit \in Nat  BY <2>2, TableIs DEF TableInv, Filled
    <3> QED  BY <1>1, <2>1, <3>1, MaxLowers
  <2>5. tn.limit <= u.limit  BY <1>1, <2>4
  <2>6. Begins(tn.entries, u.entries)
    <3>1. /\ Len(tn.entries) = kept /\ \A i \in 1..kept : tn.entries[i] = t.entries[i]
      BY <1>1, <2>3, SizeCut
    <3>2. /\ Len(t.entries) <= Len(u.entries) /\ \A i \in 1..Len(t.entries) : t.entries[i] = u.entries[i]
      BY <1>1 DEF Begins
    <3>3. Len(u.entries) \in Nat  BY <1>1
    <3>4. kept <= Len(u.entries)  BY <1>1, <3>2, <3>3
    <3>5. \A i \in 1..kept : i \in 1..Len(t.entries)  BY <1>1
    <3> QED  BY <3>1, <3>2, <3>4, <3>5 DEF Begins
  <2> QED  BY <1>1, <2>1, <2>2, <2>5, <2>6 DEF PairInv
<1>5. CASE t.limit <= u.max /\ tn = t /\ un = UpdateLimitSize(u, t.limit)
  <2>1. t.limit \in 0..u.max  BY <1>1, <1>5
  <2>2. TableInv(un, H)  BY <1>1, <1>5, <2>1, LimitKeeps
  <2>3. un.limit = t.limit /\ \E kept : Roomy(u.entries, t.limit, kept) /\ un.entries = SubSeq(u.entries, 1, kept)
    BY <1>1, <1>5, LimitLeaves
  <2>4. PICK m : Roomy(u.entries, t.limit, m) /\ un.entries = SubSeq(u.entries, 1, m)  BY <2>3
  <2>5. Roomy(t.entries, t.limit, Len(t.entries)) /\ SubSeq(t.entries, 1, Len(t.entries)) = t.entries
    <3>1. Filled(t, H) /\ t.size <= t.limit /\ t.limit \in Int  BY <1>1 DEF TableInv, SizeKept
    <3> QED  BY <3>1, AllIsRoomy
  <2>6. Begins(SubSeq(t.entries, 1, Len(t.entries)), SubSeq(u.entries, 1, m))
    <3>1. t.limit \in Int /\ t.limit <= t.limit  BY <1>1
    <3> QED  BY <1>1, <2>4, <2>5, <3>1, KeepsMore
  <2>7. Begins(tn.entries, un.entries)  BY <1>5, <2>4, <2>5, <2>6
  <2>8. tn.limit <= un.limit  BY <1>1, <1>5, <2>3
  <2> QED  BY <1>1, <1>5, <2>2, <2>7, <2>8 DEF PairInv
<1> QED  BY <1>2, <1>3, <1>4, <1>5 DEF PairStep

\* Whatever is added to a table that encodes, and however it is limited, an index
\* that it has for a header names the same header in the table that decodes, when
\* that has read everything; the limits need not be the same.
THEOREM TablesStayInStep ==
  ASSUME NEW H, HeadersSized(H), NEW n \in Nat, NEW encodes, NEW decodes,
         encodes[0] = NewTable, decodes[0] = NewTable,
         \A i \in 1..n : PairStep(encodes[i - 1], decodes[i - 1], encodes[i], decodes[i], H)
  PROVE  \A i \in 0..n, index \in Nat : HasIndex(encodes[i], index) =>
            HasIndex(decodes[i], index) /\ Indexed(decodes[i], index) = Indexed(encodes[i], index)
<1> DEFINE T == {i \in 0..n : PairInv(encodes[i], decodes[i], H)}
<1>1. 0 \in T
  <2>1. TableInv(NewTable, H)  BY NewTableHolds
  <2>2. NewTable.entries = << >> /\ NewTable.limit = InitialLimit  BY DEF NewTable
  <2>3. Begins(NewTable.entries, NewTable.entries)  BY <2>2 DEF Begins
  <2> QED  BY <2>1, <2>2, <2>3, LimitAssumption DEF PairInv
<1>2. ASSUME NEW i \in 1..n, i - 1 \in T PROVE i \in T
  <2>1. i \in 0..n /\ PairInv(encodes[i - 1], decodes[i - 1], H)  BY <1>2
  <2>2. PairInv(encodes[i], decodes[i], H)  BY <2>1, PairStepKeeps
  <2> QED  BY <2>1, <2>2
<1> HIDE DEF T
<1>3. \A i \in 0..n : i \in T  BY <1>1, <1>2, UpTo, Zenon
<1>4. ASSUME NEW i \in 0..n, NEW index \in Nat, HasIndex(encodes[i], index)
      PROVE  HasIndex(decodes[i], index) /\ Indexed(decodes[i], index) = Indexed(encodes[i], index)
  <2> DEFINE s == encodes[i].entries
             t == decodes[i].entries
             start == HPACK_DYNAMIC_START_INDEX
  <2>1. PairInv(encodes[i], decodes[i], H)  BY <1>3 DEF T
  <2>2. Begins(s, t) /\ s \in Seq(H) /\ t \in Seq(H)
    BY <2>1, TableIs DEF PairInv, TableInv, Filled
  <2>3. /\ Len(s) \in Nat /\ Len(t) \in Nat /\ Len(s) <= Len(t) /\ start \in Nat
        /\ \A j \in 1..Len(s) : s[j] = t[j]
    BY <2>2 DEF Begins, HPACK_DYNAMIC_START_INDEX
  <2>4. index > 0 /\ index < start + Len(s)  BY <1>4 DEF HasIndex
  <2> HIDE DEF start
  <2>5. index < start + Len(t)  BY <2>3, <2>4
  <2>6. CASE index < start  BY <2>4, <2>5, <2>6 DEF HasIndex, Indexed, start
  <2>7. CASE ~(index < start)
    <3>1. index - start + 1 \in 1..Len(s)  BY <2>3, <2>4, <2>7
    <3>2. s[index - start + 1] = t[index - start + 1]  BY <2>3, <3>1
    <3> QED  BY <2>4, <2>5, <2>7, <3>2 DEF HasIndex, Indexed, start
  <2> QED  BY <2>6, <2>7
<1> QED  BY <1>4

=============================================================================
