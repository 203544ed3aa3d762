--------------------------- MODULE SocketsProofs ----------------------------
(***************************************************************************)
(* Proofs about Sockets, for any number of threads and addresses, any life *)
(* of the cache of SelfIp and any order of calls; about Addresses, for any *)
(* names, addresses and ports; and about TcpClient, for any number of      *)
(* attempts.                                                               *)
(***************************************************************************)
EXTENDS Sockets, Addresses, TcpClient, FiniteSetTheorems, SequenceTheorems, WellFoundedInduction, TLAPS

Ops == {"connect", "listen", "bindUdpSock", "for_each_netAdapter", "get_ifr_mask",
        "get_ifr_brdaddr", "getSelfIp"}

\* what is called on a socket
SocketCalls == {"options", "bind", "connect", "listen", "ioctl", "getsockname"}

NameCalls == {"cached", "ask", "store"}

\* Once a function has its socket it calls nothing but what takes one.
InOrder(calls) ==
    /\ Len(calls) \in Nat \ {0}
    /\ \A i \in 1..Len(calls) :
          /\ calls[i] \in SocketCalls \cup NameCalls \cup {"socket"}
          /\ calls[i] \in SocketCalls /\ i < Len(calls) => calls[i + 1] \in SocketCalls
          /\ calls[i] = "socket" => i < Len(calls) /\ calls[i + 1] \in SocketCalls
          /\ calls[i] \in NameCalls => i < Len(calls)

LEMMA StepsAre ==
  /\ DOMAIN Steps = Ops
  /\ Steps["connect"] = <<"cached", "ask", "store", "socket", "options", "bind", "connect">>
  /\ Steps["listen"] = <<"socket", "options", "bind", "listen">>
  /\ Steps["bindUdpSock"] = <<"socket", "options", "bind">>
  /\ Steps["for_each_netAdapter"] = <<"socket", "ioctl">>
  /\ Steps["get_ifr_mask"] = <<"socket", "ioctl">>
  /\ Steps["get_ifr_brdaddr"] = <<"socket", "ioctl">>
  /\ Steps["getSelfIp"] = <<"socket", "connect", "getsockname">>
BY DEF Steps, Ops

LEMMA StepsInOrder == \A op \in Ops : InOrder(Steps[op])
<1>1. InOrder(<<"cached", "ask", "store", "socket", "options", "bind", "connect">>)
  BY DEF InOrder, SocketCalls, NameCalls
<1>2. InOrder(<<"socket", "options", "bind", "listen">>)
  BY DEF InOrder, SocketCalls, NameCalls
<1>3. InOrder(<<"socket", "options", "bind">>)
  BY DEF InOrder, SocketCalls, NameCalls
<1>4. InOrder(<<"socket", "ioctl">>)
  BY DEF InOrder, SocketCalls, NameCalls
<1>5. InOrder(<<"socket", "connect", "getsockname">>)
  BY DEF InOrder, SocketCalls, NameCalls
<1> QED
  BY <1>1, <1>2, <1>3, <1>4, <1>5, StepsAre DEF Ops

\* Names are looked up by connect only, before it opens its socket.
LEMMA NamesFirst ==
  /\ \A op \in Ops \ {"connect"} : \A i \in 1..Len(Steps[op]) : Steps[op][i] \notin NameCalls
  /\ Len(Steps["connect"]) = 7
  /\ \A i \in 1..7 : /\ Steps["connect"][i] = "cached" <=> i = 1
                     /\ Steps["connect"][i] = "ask" <=> i = 2
                     /\ Steps["connect"][i] = "store" <=> i = 3
                     /\ Steps["connect"][i] = "socket" <=> i = 4
<1>1. \A i \in 1..4 : <<"socket", "options", "bind", "listen">>[i] \notin NameCalls
  BY DEF NameCalls
<1>2. \A i \in 1..3 : <<"socket", "options", "bind">>[i] \notin NameCalls
  BY DEF NameCalls
<1>3. \A i \in 1..2 : <<"socket", "ioctl">>[i] \notin NameCalls
  BY DEF NameCalls
<1>4. \A i \in 1..3 : <<"socket", "connect", "getsockname">>[i] \notin NameCalls
  BY DEF NameCalls
<1>5. \A op \in Ops \ {"connect"} : \A i \in 1..Len(Steps[op]) : Steps[op][i] \notin NameCalls
  BY <1>1, <1>2, <1>3, <1>4, StepsAre DEF Ops
<1>6. LET calls == <<"cached", "ask", "store", "socket", "options", "bind", "connect">>
      IN  Len(calls) = 7 /\ \A i \in 1..7 : /\ calls[i] = "cached" <=> i = 1
                                            /\ calls[i] = "ask" <=> i = 2
                                            /\ calls[i] = "store" <=> i = 3
                                            /\ calls[i] = "socket" <=> i = 4
  OBVIOUS
<1> QED
  BY <1>5, <1>6, StepsAre

-----------------------------------------------------------------------------
(* The lowest free descriptor.                                             *)

\* A set of natural numbers has a least one.
LEMMA LeastNat ==
  ASSUME NEW T \in SUBSET Nat, T # {}
  PROVE  \E n \in T : \A m \in T : n <= m
<1> DEFINE R == OpToRel(<, Nat)
<1>1. IsWellFoundedOn(R, Nat)
  BY NatLessThanWellFounded
<1>2. PICK n \in T : \A m \in T : <<m, n>> \notin R
  BY <1>1, WFMin
<1>3. \A m \in T : ~(m < n)
  BY <1>2 DEF OpToRel
<1> QED
  BY <1>3

\* Of one number more than there are open descriptors one is free.
LEMMA FreeSockIsFree ==
  ASSUME IsFiniteSet(opened), opened \in SUBSET Nat
  PROVE  FreeSock \in Nat /\ FreeSock \notin opened
<1> DEFINE n == Cardinality(opened)
           T == (3..(3 + n)) \ opened
<1>1. n \in Nat
  BY FS_CardinalityType
<1>2. IsFiniteSet(3..(3 + n)) /\ Cardinality(3..(3 + n)) = n + 1
  BY <1>1, FS_Interval, SMTT(20)
<1>3. T # {}
  <2> SUFFICES ASSUME 3..(3 + n) \subseteq opened PROVE FALSE
    OBVIOUS
  <2>1. Cardinality(3..(3 + n)) <= n
    BY FS_Subset
  <2> QED
    BY <1>1, <1>2, <2>1
<1>4. T \in SUBSET Nat
  BY <1>1
<1>5. \E x \in T : \A y \in T : x <= y
  BY <1>3, <1>4, LeastNat
<1>6. Min(T) \in T
  BY <1>5 DEF Min
<1> QED
  BY <1>4, <1>6 DEF FreeSock

-----------------------------------------------------------------------------
(* Sockets are accounted for.                                              *)

Work == [op : Ops \cup {"none"}, at : Nat \ {0}, sock : Nat \cup {NoSock},
         addr : Hosts \cup {NoHost}, asked : Nat]

SocketTypes ==
    /\ opened \in SUBSET Nat /\ IsFiniteSet(opened)
    /\ doing \in [Threads -> Work]
    /\ dns \in [addr : Hosts \cup {NoHost}, made : Nat]
    /\ dnsNow \in Nat \ {0}
    /\ resolves \in Seq(Hosts) /\ Len(resolves) = dnsNow

\* A function that has a socket has nothing left but calls on it.
HeldInv ==
    \A t \in Threads : doing[t].op # "none" /\ doing[t].sock # NoSock => NextCall(t) \in SocketCalls

SocketInv == SocketTypes /\ HeldInv /\ SocketsAccounted

LEMMA CallIsStep ==
  ASSUME SocketTypes, NEW t \in Threads, NextCall(t) # "done"
  PROVE  /\ doing[t].op \in Ops /\ doing[t].at \in 1..Len(Steps[doing[t].op])
         /\ NextCall(t) = Steps[doing[t].op][doing[t].at]
         /\ Len(Steps[doing[t].op]) \in Nat
<1>1. doing[t].op \in Ops \cup {"none"} /\ doing[t].at \in Nat \ {0}
  BY DEF SocketTypes, Work
<1>2. doing[t].op # "none" /\ ~(doing[t].at > Len(Steps[doing[t].op]))
  BY DEF NextCall
<1>3. Len(Steps[doing[t].op]) \in Nat
  BY <1>1, <1>2, StepsInOrder DEF InOrder
<1> QED
  BY <1>1, <1>2, <1>3 DEF NextCall

\* One thread goes on, the others stay where they are.
LEMMA OneGoes ==
  ASSUME SocketTypes, NEW t \in Threads, NEW c \in Work, Goes(t, c)
  PROVE  /\ doing' \in [Threads -> Work] /\ doing'[t] = c
         /\ \A u \in Threads \ {t} : doing'[u] = doing[u] /\ NextCall(u)' = NextCall(u)
<1>1. /\ doing' \in [Threads -> Work] /\ doing'[t] = c
      /\ \A u \in Threads \ {t} : doing'[u] = doing[u]
  BY DEF Goes, SocketTypes
<1>2. ASSUME NEW u \in Threads \ {t} PROVE NextCall(u)' = NextCall(u)
  <2>1. doing'[u] = doing[u]
    BY <1>1
  <2> QED
    BY <2>1 DEF NextCall
<1> QED
  BY <1>1, <1>2

LEMMA OnwardIsWork ==
  ASSUME SocketTypes, NEW t \in Threads
  PROVE  /\ Onward(doing[t]) \in Work
         /\ Onward(doing[t]).op = doing[t].op /\ Onward(doing[t]).sock = doing[t].sock
         /\ Onward(doing[t]).addr = doing[t].addr /\ Onward(doing[t]).asked = doing[t].asked
         /\ Onward(doing[t]).at = doing[t].at + 1
<1>1. doing[t] \in Work
  BY DEF SocketTypes
<1>2. doing[t].at + 1 \in Nat \ {0}
  BY <1>1 DEF Work
<1> QED
  BY <1>1, <1>2 DEF Work, Onward

LEMMA OpenedIsWork ==
  ASSUME SocketTypes, NEW t \in Threads
  PROVE  LET c == [Onward(doing[t]) EXCEPT !.sock = FreeSock]
         IN  c \in Work /\ c.op = doing[t].op /\ c.sock = FreeSock /\ c.at = doing[t].at + 1
BY OnwardIsWork, FreeSockIsFree, ZenonT(40) DEF SocketTypes, Work

LEMMA BackIsWork ==
  ASSUME NEW sock \in Nat \cup {NoSock}
  PROVE  Back(sock) \in Work /\ Back(sock).op = "none" /\ Back(sock).sock = sock
BY DEF Back, Idle, Work, NoSock

\* The three ways in which a step keeps the account: no socket changes hands, one is
\* opened, one is closed.
LEMMA NothingOpened ==
  ASSUME SocketsAccounted, opened' = opened, \A u \in Threads : doing'[u].sock = doing[u].sock
  PROVE  SocketsAccounted'
BY DEF SocketsAccounted

LEMMA OneOpened ==
  ASSUME SocketInv, NEW t \in Threads, doing[t].sock = NoSock, opened' = opened \cup {FreeSock},
         doing'[t].sock = FreeSock, \A u \in Threads \ {t} : doing'[u].sock = doing[u].sock
  PROVE  SocketsAccounted'
<1>1. FreeSock \in Nat /\ FreeSock \notin opened /\ FreeSock # NoSock
  BY FreeSockIsFree DEF SocketInv, SocketTypes, NoSock
<1>2. \A u \in Threads : doing[u].sock # FreeSock
  BY <1>1 DEF SocketInv, SocketsAccounted
<1> QED
  BY <1>1, <1>2 DEF SocketInv, SocketsAccounted

LEMMA OneClosed ==
  ASSUME SocketInv, NEW t \in Threads, opened' = opened \ {doing[t].sock},
         doing'[t].sock = NoSock, \A u \in Threads \ {t} : doing'[u].sock = doing[u].sock
  PROVE  SocketsAccounted'
BY DEF SocketInv, SocketsAccounted

LEMMA OpenedTypes ==
  ASSUME SocketTypes, NEW s
  PROVE  /\ opened \ {s} \in SUBSET Nat /\ IsFiniteSet(opened \ {s})
         /\ opened \cup {FreeSock} \in SUBSET Nat /\ IsFiniteSet(opened \cup {FreeSock})
BY FS_AddElement, FS_RemoveElement, FreeSockIsFree DEF SocketTypes

\* Only the thread that goes on can come to hold a socket before another call.
LEMMA OneHolds ==
  ASSUME SocketTypes, HeldInv, NEW t \in Threads, NEW c \in Work, Goes(t, c),
         \/ c.op = "none" \/ c.sock = NoSock
         \/ c.at \in 1..Len(Steps[c.op]) /\ Steps[c.op][c.at] \in SocketCalls
  PROVE  HeldInv'
<1>1. /\ doing'[t] = c
      /\ \A u \in Threads \ {t} : doing'[u] = doing[u] /\ NextCall(u)' = NextCall(u)
  BY OneGoes
<1>2. doing'[t].op # "none" /\ doing'[t].sock # NoSock => NextCall(t)' \in SocketCalls
  BY <1>1, StepsInOrder DEF NextCall, Work, InOrder
<1> QED
  BY <1>1, <1>2 DEF HeldInv

LEMMA LookingUpKeepsSockets ==
  ASSUME SocketInv, NEW t \in Threads, Cached(t) \/ Ask(t) \/ Store(t)
  PROVE  HeldInv' /\ SocketsAccounted' /\ opened' = opened /\ doing' \in [Threads -> Work]
<1>1. doing[t].op # "none" /\ doing[t].sock = NoSock
  <2>1. NextCall(t) \in NameCalls /\ NextCall(t) # "done"
    BY DEF Cached, Ask, Store, NameCalls
  <2>2. doing[t].op # "none" /\ NextCall(t) \notin SocketCalls
    BY <2>1 DEF NextCall, SocketCalls, NameCalls
  <2> QED
    BY <2>2 DEF SocketInv, HeldInv
<1>2. PICK c \in Work : Goes(t, c) /\ c.sock = NoSock
  <2>1. CASE Goes(t, Onward(doing[t]))
    BY <1>1, <2>1, OnwardIsWork DEF SocketInv
  <2>2. CASE Goes(t, Back(NoSock))
    BY <2>2, BackIsWork DEF NoSock
  <2>3. CASE Goes(t, [Onward(doing[t]) EXCEPT !.addr = resolves[dnsNow], !.asked = dnsNow])
    <3>1. resolves[dnsNow] \in Hosts /\ dnsNow \in Nat
      <4>1. resolves \in Seq(Hosts) /\ dnsNow \in 1..Len(resolves)
        BY DEF SocketInv, SocketTypes
      <4> QED
        BY <4>1, ElementOfSeq DEF SocketInv, SocketTypes
    <3> DEFINE c == [Onward(doing[t]) EXCEPT !.addr = resolves[dnsNow], !.asked = dnsNow]
    <3>2. c \in Work /\ c.sock = Onward(doing[t]).sock
      BY <3>1, OnwardIsWork DEF SocketInv, Work
    <3> QED
      BY <1>1, <2>3, <3>2, OnwardIsWork DEF SocketInv
  <2>4. CASE Goes(t, [doing[t] EXCEPT !.at = @ + 3, !.addr = dns.addr, !.asked = dnsNow])
    <3> DEFINE c == [doing[t] EXCEPT !.at = @ + 3, !.addr = dns.addr, !.asked = dnsNow]
    <3>1. doing[t] \in Work /\ dns.addr \in Hosts \cup {NoHost} /\ dnsNow \in Nat
      BY DEF SocketInv, SocketTypes
    <3>2. doing[t].at + 3 \in Nat \ {0}
      BY <3>1 DEF Work
    <3>3. c \in Work /\ c.sock = doing[t].sock
      BY <3>1, <3>2 DEF Work
    <3> QED
      BY <1>1, <2>4, <3>3
  <2> QED
    BY <2>1, <2>2, <2>3, <2>4 DEF Cached, Ask, Store
<1>3. opened' = opened
  BY DEF Cached, Ask, Store
<1>4. doing' \in [Threads -> Work] /\ \A u \in Threads : doing'[u].sock = doing[u].sock
  BY <1>1, <1>2, OneGoes DEF SocketInv
<1> QED
  BY <1>2, <1>3, <1>4, OneHolds, NothingOpened DEF SocketInv

LEMMA SocketKeepsSockets ==
  ASSUME SocketInv, NEW t \in Threads, Socket(t)
  PROVE  HeldInv' /\ SocketsAccounted' /\ doing' \in [Threads -> Work]
         /\ opened' \in SUBSET Nat /\ IsFiniteSet(opened')
<1>1. /\ doing[t].op \in Ops /\ doing[t].sock = NoSock
      /\ doing[t].at + 1 \in 1..Len(Steps[doing[t].op])
      /\ Steps[doing[t].op][doing[t].at + 1] \in SocketCalls
  <2>1. NextCall(t) = "socket"
    BY DEF Socket
  <2>2. /\ doing[t].op \in Ops /\ doing[t].at \in 1..Len(Steps[doing[t].op])
        /\ Steps[doing[t].op][doing[t].at] = "socket" /\ Len(Steps[doing[t].op]) \in Nat
    BY <2>1, CallIsStep DEF SocketInv
  <2>3. InOrder(Steps[doing[t].op]) /\ doing[t].op # "none"
    BY <2>2, StepsInOrder DEF Ops
  <2>4. doing[t].sock = NoSock
    BY <2>1, <2>3 DEF SocketInv, HeldInv, SocketCalls
  <2> QED
    BY <2>2, <2>3, <2>4 DEF InOrder
<1>2. CASE opened' = opened \cup {FreeSock} /\ Goes(t, [Onward(doing[t]) EXCEPT !.sock = FreeSock])
  <2> DEFINE c == [Onward(doing[t]) EXCEPT !.sock = FreeSock]
  <2>1. c \in Work /\ c.op = doing[t].op /\ c.sock = FreeSock /\ c.at = doing[t].at + 1
    BY OpenedIsWork DEF SocketInv
  <2>2. Goes(t, c)
    BY <1>2
  <2> HIDE DEF c
  <2>3. doing' \in [Threads -> Work] /\ doing'[t] = c /\ \A u \in Threads \ {t} : doing'[u] = doing[u]
    BY <2>1, <2>2, OneGoes DEF SocketInv
  <2>4. HeldInv'
    BY <1>1, <2>1, <2>2, OneHolds DEF SocketInv
  <2>5. SocketsAccounted'
    BY <1>1, <1>2, <2>1, <2>3, OneOpened
  <2> QED
    BY <1>2, <2>3, <2>4, <2>5, OpenedTypes DEF SocketInv
<1>3. CASE opened' = opened /\ Goes(t, Back(NoSock))
  <2>1. Back(NoSock) \in Work /\ Back(NoSock).sock = NoSock
    BY BackIsWork
  <2>2. doing' \in [Threads -> Work] /\ \A u \in Threads : doing'[u].sock = doing[u].sock
    BY <1>1, <1>3, <2>1, OneGoes DEF SocketInv
  <2> QED
    BY <1>3, <2>1, <2>2, OneHolds, NothingOpened DEF SocketInv, SocketTypes
<1> QED
  BY <1>2, <1>3 DEF Socket

LEMMA OnSocketKeepsSockets ==
  ASSUME SocketInv, NEW t \in Threads, OnSocket(t)
  PROVE  HeldInv' /\ SocketsAccounted' /\ doing' \in [Threads -> Work]
         /\ opened' \in SUBSET Nat /\ IsFiniteSet(opened')
<1>1. NextCall(t) \in SocketCalls /\ NextCall(t) # "done"
  BY DEF OnSocket, SocketCalls
<1>2. /\ doing[t].op \in Ops /\ doing[t].at \in 1..Len(Steps[doing[t].op])
      /\ Steps[doing[t].op][doing[t].at] \in SocketCalls /\ Len(Steps[doing[t].op]) \in Nat
  BY <1>1, CallIsStep DEF SocketInv
<1>3. doing[t].sock \in Nat \cup {NoSock}
  BY DEF SocketInv, SocketTypes, Work
<1>4. CASE Goes(t, Back(NoSock)) /\ opened' = opened \ {doing[t].sock}
  <2>1. Back(NoSock) \in Work /\ Back(NoSock).sock = NoSock
    BY BackIsWork
  <2>2. /\ doing' \in [Threads -> Work] /\ doing'[t].sock = NoSock
        /\ \A u \in Threads \ {t} : doing'[u].sock = doing[u].sock
    BY <1>4, <2>1, OneGoes DEF SocketInv
  <2>3. HeldInv'
    BY <1>4, <2>1, OneHolds DEF SocketInv
  <2>4. SocketsAccounted'
    BY <1>4, <2>2, OneClosed
  <2> QED
    BY <1>4, <2>2, <2>3, <2>4, OpenedTypes DEF SocketInv
<1>5. ASSUME NEW c \in Work, Goes(t, c), c.sock = doing[t].sock, opened' = opened,
             c.op = "none" \/ (c.at \in 1..Len(Steps[c.op]) /\ Steps[c.op][c.at] \in SocketCalls)
      PROVE  HeldInv' /\ SocketsAccounted' /\ doing' \in [Threads -> Work]
  <2>1. doing' \in [Threads -> Work] /\ \A u \in Threads : doing'[u].sock = doing[u].sock
    BY <1>5, OneGoes DEF SocketInv
  <2> QED
    BY <1>5, <2>1, OneHolds, NothingOpened DEF SocketInv
<1>6. CASE ~AtLast(t) /\ Goes(t, Onward(doing[t])) /\ opened' = opened
  <2>1. doing[t].at + 1 \in 1..Len(Steps[doing[t].op])
        /\ Steps[doing[t].op][doing[t].at + 1] \in SocketCalls
    BY <1>2, <1>6, StepsInOrder DEF AtLast, InOrder
  <2> QED
    BY <1>5, <1>6, <2>1, OnwardIsWork DEF SocketInv, SocketTypes
<1>7. CASE Goes(t, Back(doing[t].sock)) /\ opened' = opened
  BY <1>3, <1>5, <1>7, BackIsWork DEF SocketInv, SocketTypes
<1> QED
  BY <1>4, <1>6, <1>7 DEF OnSocket, SucceedsAt, FailsAt

LEMMA StepKeepsSocketInv ==
  ASSUME SocketInv, [NetNext]_netVars
  PROVE  SocketInv'
<1>1. ASSUME NEW t \in Threads, Cached(t) \/ Ask(t) \/ Store(t) PROVE SocketInv'
  <2>1. HeldInv' /\ SocketsAccounted' /\ opened' = opened /\ doing' \in [Threads -> Work]
    BY <1>1, LookingUpKeepsSockets
  <2>2. UNCHANGED <<dnsNow, resolves>>
    BY <1>1 DEF Cached, Ask, Store
  <2>3. dns' \in [addr : Hosts \cup {NoHost}, made : Nat]
    BY <1>1 DEF Cached, Ask, Store, NoDns, SocketInv, SocketTypes, Work
  <2> QED
    BY <2>1, <2>2, <2>3 DEF SocketInv, SocketTypes
<1>2. ASSUME NEW t \in Threads, Socket(t) \/ OnSocket(t) PROVE SocketInv'
  <2>1. HeldInv' /\ SocketsAccounted' /\ doing' \in [Threads -> Work]
        /\ opened' \in SUBSET Nat /\ IsFiniteSet(opened')
    BY <1>2, SocketKeepsSockets, OnSocketKeepsSockets
  <2>2. UNCHANGED <<dns, dnsNow, resolves>>
    BY <1>2 DEF Socket, OnSocket
  <2> QED
    BY <2>1, <2>2 DEF SocketInv, SocketTypes
<1>3. ASSUME NEW t \in Threads, Begin(t) PROVE SocketInv'
  <2>1. PICK op \in Ops : Goes(t, [Idle EXCEPT !.op = op])
    BY <1>3, StepsAre DEF Begin
  <2> DEFINE c == [Idle EXCEPT !.op = op]
  <2>2. c \in Work /\ c.sock = NoSock
    BY <2>1 DEF Idle, Work, NoSock
  <2>3. doing[t].sock = NoSock /\ UNCHANGED <<opened, dns, dnsNow, resolves>> /\ Goes(t, c)
    BY <1>3, <2>1 DEF Begin, Idle
  <2> HIDE DEF c
  <2>4. doing' \in [Threads -> Work] /\ \A u \in Threads : doing'[u].sock = doing[u].sock
    BY <2>2, <2>3, OneGoes DEF SocketInv
  <2>5. HeldInv'
    BY <2>2, <2>3, OneHolds DEF SocketInv
  <2> QED
    BY <2>3, <2>4, <2>5, NothingOpened DEF SocketInv, SocketTypes
<1>4. ASSUME NEW t \in Threads, Release(t) PROVE SocketInv'
  <2>1. Idle \in Work /\ Idle.op = "none" /\ Idle.sock = NoSock
    BY DEF Idle, Work, NoSock
  <2>2. /\ Goes(t, Idle) /\ opened' = opened \ {doing[t].sock}
        /\ UNCHANGED <<dns, dnsNow, resolves>>
    BY <1>4 DEF Release
  <2>3. /\ doing' \in [Threads -> Work] /\ doing'[t].sock = NoSock
        /\ \A u \in Threads \ {t} : doing'[u].sock = doing[u].sock
    BY <2>1, <2>2, OneGoes DEF SocketInv
  <2>4. HeldInv' /\ SocketsAccounted'
    BY <2>1, <2>2, <2>3, OneHolds, OneClosed DEF SocketInv
  <2> QED
    BY <2>2, <2>3, <2>4, OpenedTypes DEF SocketInv, SocketTypes
<1>5. CASE ClockTicks
  <2>1. PICK h \in Hosts : resolves' = Append(resolves, h)
    BY <1>5 DEF ClockTicks
  <2>2. resolves' \in Seq(Hosts) /\ Len(resolves') = dnsNow' /\ dnsNow' \in Nat \ {0}
    BY <1>5, <2>1, AppendProperties DEF ClockTicks, SocketInv, SocketTypes
  <2>3. UNCHANGED <<opened, doing, dns>>
    BY <1>5 DEF ClockTicks
  <2> QED
    BY <2>2, <2>3 DEF SocketInv, SocketTypes, HeldInv, NextCall, SocketsAccounted
<1>6. CASE UNCHANGED netVars
  BY <1>6 DEF netVars, SocketInv, SocketTypes, HeldInv, NextCall, SocketsAccounted
<1> QED
  BY <1>1, <1>2, <1>3, <1>4, <1>5, <1>6 DEF NetNext

LEMMA InitSocketInv == NetInit => SocketInv
<1> SUFFICES ASSUME NetInit PROVE SocketInv
  OBVIOUS
<1>1. Idle \in Work /\ Idle.op = "none" /\ Idle.sock = NoSock
  BY DEF Idle, Work, NoSock
<1>2. PICK h \in Hosts : resolves = <<h>>
  BY DEF NetInit
<1>3. SocketTypes
  BY <1>1, <1>2, FS_EmptySet DEF NetInit, SocketTypes, NoDns
<1>4. HeldInv /\ SocketsAccounted
  BY <1>1 DEF NetInit, HeldInv, SocketsAccounted
<1> QED
  BY <1>3, <1>4 DEF SocketInv

\* Whichever calls fail and however the threads take turns, what is open belongs to one
\* thread, and no function forgets a socket or closes another's.
THEOREM SocketsStayAccounted == NetSpec => []SocketsAccounted
<1>1. NetInit => SocketInv
  BY InitSocketInv
<1>2. SocketInv /\ [NetNext]_netVars => SocketInv'
  BY StepKeepsSocketInv
<1>3. SocketInv => SocketsAccounted
  BY DEF SocketInv
<1> QED
  BY <1>1, <1>2, <1>3, PTL DEF NetSpec

-----------------------------------------------------------------------------
(* Addresses are fresh.                                                    *)

\* what the name once resolved to, for no longer than `age' before `time'
Resolved(addr, age, time) ==
    \E i \in DOMAIN resolves : resolves[i] = addr /\ i + age >= time

\* A thread that has asked stores the answer soon; the record there is was an answer not
\* long before it was stored.
FreshInv ==
    /\ dns # NoDns => Resolved(dns.addr, Slow, dns.made)
    /\ \A t \in Threads : NextCall(t) = "store" =>
          /\ doing[t].asked \in DOMAIN resolves
          /\ resolves[doing[t].asked] = doing[t].addr
          /\ dnsNow <= doing[t].asked + Slow
    /\ AddressesFresh

\* A thread that neither is about to store an answer nor has one to connect to.
LEMMA QuietThread ==
  ASSUME SocketTypes, FreshInv, NEW t \in Threads, NEW c \in Work, Goes(t, c),
         UNCHANGED <<dns, dnsNow, resolves>>,
         NextCall(t)' # "store", NextCall(t)' = "socket" => c.op # "connect"
  PROVE  FreshInv'
<1>1. /\ doing'[t] = c
      /\ \A u \in Threads \ {t} : doing'[u] = doing[u] /\ NextCall(u)' = NextCall(u)
  BY OneGoes
<1> QED
  BY <1>1 DEF FreshInv, Resolved, AddressesFresh

\* Where connect is while it looks the name up.
LEMMA LookingUp ==
  ASSUME SocketTypes, NEW t \in Threads
  PROVE  /\ NextCall(t) \in NameCalls => doing[t].op = "connect"
         /\ NextCall(t) = "cached" => doing[t].at = 1
         /\ NextCall(t) = "ask" => doing[t].at = 2
         /\ NextCall(t) = "store" => doing[t].at = 3
<1>1. CASE NextCall(t) \in NameCalls
  <2>1. NextCall(t) # "done"
    BY <1>1 DEF NameCalls
  <2>2. /\ doing[t].op \in Ops /\ doing[t].at \in 1..Len(Steps[doing[t].op])
        /\ NextCall(t) = Steps[doing[t].op][doing[t].at]
    BY <2>1, CallIsStep
  <2>3. doing[t].op = "connect"
    BY <1>1, <2>2, NamesFirst
  <2> QED
    BY <2>2, <2>3, NamesFirst
<1> QED
  BY <1>1 DEF NameCalls

LEMMA ConnectGoes ==
  ASSUME SocketTypes, NEW t \in Threads, NEW c \in Work, Goes(t, c), c.op = "connect",
         c.at \in 1..7
  PROVE  /\ NextCall(t)' = "store" <=> c.at = 3
         /\ NextCall(t)' = "socket" <=> c.at = 4
<1>1. doing'[t] = c
  BY OneGoes
<1>2. NextCall(t)' = Steps["connect"][c.at]
  BY <1>1, NamesFirst, SMTT(20) DEF NextCall
<1> QED
  BY <1>2, NamesFirst

LEMMA CachedKeepsFresh ==
  ASSUME SocketTypes, FreshInv, NEW t \in Threads, Cached(t)
  PROVE  FreshInv'
<1>1. /\ doing[t].op = "connect" /\ doing[t].at = 1 /\ doing[t] \in Work
      /\ UNCHANGED <<dnsNow, resolves>>
  BY LookingUp DEF Cached, NameCalls, SocketTypes
<1>2. CASE dns = NoDns \/ RecordExpired(dns)
  <2>1. dns' = NoDns /\ Goes(t, Onward(doing[t]))
    BY <1>2 DEF Cached
  <2>2. /\ Onward(doing[t]) \in Work /\ Onward(doing[t]).op = "connect"
        /\ Onward(doing[t]).at = 2
    BY <1>1, OnwardIsWork
  <2>3. NextCall(t)' # "store" /\ NextCall(t)' # "socket"
    BY <2>1, <2>2, ConnectGoes
  <2>4. \A u \in Threads \ {t} : doing'[u] = doing[u] /\ NextCall(u)' = NextCall(u)
    BY <2>1, <2>2, OneGoes
  <2> QED
    BY <1>1, <2>1, <2>3, <2>4 DEF FreshInv, Resolved, AddressesFresh
<1>3. CASE dns # NoDns /\ ~RecordExpired(dns)
  <2> DEFINE c == [doing[t] EXCEPT !.at = @ + 3, !.addr = dns.addr, !.asked = dnsNow]
  <2>1. Goes(t, c) /\ dns' = dns
    BY <1>3 DEF Cached
  <2>2. /\ c \in Work /\ c.op = "connect" /\ c.at = 4 /\ c.addr = dns.addr /\ c.asked = dnsNow
    <3>1. dns.addr \in Hosts \cup {NoHost} /\ dnsNow \in Nat /\ doing[t].at + 3 \in Nat \ {0}
      BY <1>1 DEF SocketTypes
    <3> HIDE DEF c
    <3>2. c \in Work
      BY <1>1, <3>1 DEF c, Work
    <3>3. c.op = "connect" /\ c.at = 4 /\ c.addr = dns.addr /\ c.asked = dnsNow
      BY <1>1, <3>1 DEF c, Work
    <3> QED
      BY <3>2, <3>3
  <2> HIDE DEF c
  <2>3. NextCall(t)' # "store"
    BY <2>1, <2>2, ConnectGoes
  <2>4. /\ doing'[t] = c
        /\ \A u \in Threads \ {t} : doing'[u] = doing[u] /\ NextCall(u)' = NextCall(u)
    BY <2>1, <2>2, OneGoes
  <2>5. \E i \in DOMAIN resolves : resolves[i] = dns.addr /\ i + Slow + Expire >= dnsNow
    <3>1. PICK i \in DOMAIN resolves : resolves[i] = dns.addr /\ i + Slow >= dns.made
      BY <1>3 DEF FreshInv, Resolved
    <3>2. i \in Nat /\ Slow \in Nat /\ Expire \in Nat /\ dns.made \in Nat /\ dnsNow \in Nat
      BY <3>1, SocketsAssumption, LenProperties DEF SocketTypes
    <3>3. dns.made + Expire >= dnsNow
      BY <1>3, <3>2 DEF RecordExpired
    <3>4. i + Slow + Expire >= dnsNow
      BY <3>1, <3>2, <3>3
    <3> QED
      BY <3>1, <3>4
  <2> QED
    BY <1>1, <2>1, <2>2, <2>3, <2>4, <2>5 DEF FreshInv, Resolved, AddressesFresh
<1> QED
  BY <1>2, <1>3

LEMMA AskKeepsFresh ==
  ASSUME SocketTypes, FreshInv, NEW t \in Threads, Ask(t)
  PROVE  FreshInv'
<1>1. /\ doing[t].op = "connect" /\ doing[t].at = 2 /\ doing[t] \in Work
      /\ UNCHANGED <<dns, dnsNow, resolves>>
  BY LookingUp DEF Ask, NameCalls, SocketTypes
<1>2. CASE Goes(t, Back(NoSock))
  <2>1. Back(NoSock) \in Work /\ Back(NoSock).op = "none"
    BY BackIsWork
  <2>2. NextCall(t)' = "done"
    BY <1>2, <2>1, OneGoes DEF NextCall
  <2> QED
    BY <1>1, <1>2, <2>1, <2>2, QuietThread
<1>3. CASE Goes(t, [Onward(doing[t]) EXCEPT !.addr = resolves[dnsNow], !.asked = dnsNow])
  <2> DEFINE c == [Onward(doing[t]) EXCEPT !.addr = resolves[dnsNow], !.asked = dnsNow]
  <2>1. dnsNow \in DOMAIN resolves /\ resolves[dnsNow] \in Hosts /\ dnsNow \in Nat
    <3>1. resolves \in Seq(Hosts) /\ dnsNow \in 1..Len(resolves) /\ dnsNow \in Nat
      BY DEF SocketTypes
    <3> QED
      BY <3>1, ElementOfSeq, LenProperties
  <2>2. /\ c \in Work /\ c.op = "connect" /\ c.at = 3
        /\ c.addr = resolves[dnsNow] /\ c.asked = dnsNow
    <3>1. Onward(doing[t]) \in Work /\ Onward(doing[t]).op = "connect"
          /\ Onward(doing[t]).at = 3
      BY <1>1, OnwardIsWork
    <3> HIDE DEF c
    <3>2. c \in Work
      BY <2>1, <3>1 DEF c, Work
    <3>3. c.op = "connect" /\ c.at = 3 /\ c.addr = resolves[dnsNow] /\ c.asked = dnsNow
      BY <3>1 DEF c, Work
    <3> QED
      BY <3>2, <3>3
  <2>3. Goes(t, c)
    BY <1>3
  <2> HIDE DEF c
  <2>4. NextCall(t)' # "socket"
    BY <2>2, <2>3, ConnectGoes
  <2>5. /\ doing'[t] = c
        /\ \A u \in Threads \ {t} : doing'[u] = doing[u] /\ NextCall(u)' = NextCall(u)
    BY <2>2, <2>3, OneGoes
  <2>6. dnsNow <= dnsNow + Slow
    BY <2>1, SocketsAssumption
  <2> QED
    BY <1>1, <2>1, <2>2, <2>4, <2>5, <2>6 DEF FreshInv, Resolved, AddressesFresh
<1> QED
  BY <1>2, <1>3 DEF Ask

LEMMA StoreKeepsFresh ==
  ASSUME SocketTypes, FreshInv, NEW t \in Threads, Store(t)
  PROVE  FreshInv'
<1>1. /\ doing[t].op = "connect" /\ doing[t].at = 3 /\ NextCall(t) = "store"
      /\ UNCHANGED <<dnsNow, resolves>> /\ Goes(t, Onward(doing[t]))
      /\ dns' = [addr |-> doing[t].addr, made |-> dnsNow]
  BY LookingUp DEF Store, NameCalls
<1> DEFINE c == Onward(doing[t])
<1>2. /\ c \in Work /\ c.op = "connect" /\ c.at = 4
      /\ c.addr = doing[t].addr /\ c.asked = doing[t].asked
  BY <1>1, OnwardIsWork
<1>3. Goes(t, c)
  BY <1>1
<1> HIDE DEF c
<1>4. NextCall(t)' # "store"
  BY <1>2, <1>3, ConnectGoes
<1>5. /\ doing'[t] = c
      /\ \A u \in Threads \ {t} : doing'[u] = doing[u] /\ NextCall(u)' = NextCall(u)
  BY <1>2, <1>3, OneGoes
<1>6. LET i == doing[t].asked
      IN  /\ i \in DOMAIN resolves /\ resolves[i] = doing[t].addr
          /\ i + Slow >= dnsNow /\ i + Slow + Expire >= i
  <2>1. doing[t].asked \in DOMAIN resolves /\ resolves[doing[t].asked] = doing[t].addr
        /\ dnsNow <= doing[t].asked + Slow
    BY <1>1 DEF FreshInv
  <2>2. doing[t].asked \in Nat /\ Slow \in Nat /\ Expire \in Nat /\ dnsNow \in Nat
    BY SocketsAssumption DEF SocketTypes, Work
  <2> QED
    BY <2>1, <2>2
<1> QED
  BY <1>1, <1>2, <1>4, <1>5, <1>6 DEF FreshInv, Resolved, AddressesFresh

\* Every other call of a thread.
LEMMA OthersKeepFresh ==
  ASSUME SocketInv, SocketInv', FreshInv, NEW t \in Threads,
         Begin(t) \/ Socket(t) \/ OnSocket(t) \/ Release(t)
  PROVE  FreshInv'
<1>1. UNCHANGED <<dns, dnsNow, resolves>>
  BY DEF Begin, Socket, OnSocket, Release
<1>2. ASSUME NEW c \in Work, Goes(t, c), c.op = "none" PROVE FreshInv'
  <2>1. NextCall(t)' = "done"
    BY <1>2, OneGoes DEF NextCall, SocketInv
  <2> QED
    BY <1>1, <1>2, <2>1, QuietThread DEF SocketInv
<1>3. ASSUME NEW c \in Work, Goes(t, c), c.op \in Ops, c.at \in 1..Len(Steps[c.op]),
             Steps[c.op][c.at] \in SocketCalls
      PROVE  FreshInv'
  <2>1. NextCall(t)' = Steps[c.op][c.at]
    <3>1. doing'[t] = c
      BY <1>3, OneGoes DEF SocketInv
    <3>2. Len(Steps[c.op]) \in Nat /\ c.op # "none"
      BY <1>3, StepsInOrder DEF InOrder, Ops
    <3> QED
      BY <1>3, <3>1, <3>2 DEF NextCall
  <2>2. NextCall(t)' # "store" /\ NextCall(t)' # "socket"
    BY <1>3, <2>1 DEF SocketCalls
  <2> QED
    BY <1>1, <1>3, <2>2, QuietThread DEF SocketInv
<1>4. Idle \in Work /\ Back(NoSock) \in Work /\ Back(doing[t].sock) \in Work
      /\ Idle.op = "none" /\ Back(NoSock).op = "none" /\ Back(doing[t].sock).op = "none"
  <2>1. doing[t].sock \in Nat \cup {NoSock}
    BY DEF SocketInv, SocketTypes, Work
  <2> QED
    BY <2>1, BackIsWork DEF Idle, Work, NoSock
<1>5. CASE Release(t)
  BY <1>2, <1>4, <1>5 DEF Release
<1>6. CASE Begin(t)
  <2>1. PICK op \in Ops : Goes(t, [Idle EXCEPT !.op = op])
    BY <1>6, StepsAre DEF Begin
  <2> DEFINE c == [Idle EXCEPT !.op = op]
  <2>2. c \in Work /\ c.op = op /\ c.at = 1 /\ Goes(t, c)
    BY <2>1 DEF Idle, Work, NoSock
  <2> HIDE DEF c
  <2>3. CASE op = "connect"
    <3>1. NextCall(t)' # "store" /\ NextCall(t)' # "socket"
      BY <2>2, <2>3, ConnectGoes DEF SocketInv
    <3> QED
      BY <1>1, <2>2, <3>1, QuietThread DEF SocketInv
  <2>4. CASE op # "connect"
    <3>0. doing'[t] = c
      BY <2>2, OneGoes DEF SocketInv
    <3>1. NextCall(t)' \in {"done", Steps[op][1]}
      BY <2>2, <3>0 DEF NextCall
    <3>2. Steps[op][1] \notin NameCalls
      <4>1. 1 \in 1..Len(Steps[op])
        BY <2>1, StepsInOrder DEF InOrder
      <4> QED
        BY <2>1, <2>4, <4>1, NamesFirst
    <3>3. NextCall(t)' # "store" /\ c.op # "connect"
      BY <2>2, <2>4, <3>1, <3>2 DEF NameCalls
    <3> QED
      BY <1>1, <2>2, <3>3, QuietThread DEF SocketInv
  <2> QED
    BY <2>3, <2>4
<1>7. ASSUME NextCall(t) \in SocketCalls \cup {"socket"},
             doing[t].at < Len(Steps[doing[t].op])
      PROVE  /\ doing[t].op \in Ops /\ doing[t].at + 1 \in 1..Len(Steps[doing[t].op])
             /\ Steps[doing[t].op][doing[t].at + 1] \in SocketCalls
  <2>1. NextCall(t) # "done"
    BY <1>7 DEF SocketCalls
  <2>2. /\ doing[t].op \in Ops /\ doing[t].at \in 1..Len(Steps[doing[t].op])
        /\ NextCall(t) = Steps[doing[t].op][doing[t].at]
    BY <2>1, CallIsStep DEF SocketInv
  <2> QED
    BY <1>7, <2>2, StepsInOrder DEF InOrder
<1>8. CASE Socket(t)
  <2>1. CASE Goes(t, Back(NoSock))
    BY <1>2, <1>4, <2>1
  <2>2. CASE Goes(t, [Onward(doing[t]) EXCEPT !.sock = FreeSock])
    <3> DEFINE c == [Onward(doing[t]) EXCEPT !.sock = FreeSock]
    <3>1. c \in Work /\ c.op = doing[t].op /\ c.at = doing[t].at + 1
      BY OpenedIsWork DEF SocketInv
    <3>2. Goes(t, c)
      BY <2>2
    <3> HIDE DEF c
    <3>3. NextCall(t) = "socket" /\ doing[t].at < Len(Steps[doing[t].op])
      <4>1. NextCall(t) = "socket"
        BY <1>8 DEF Socket
      <4> QED
        BY <4>1, CallIsStep, StepsInOrder DEF InOrder, SocketInv
    <3> QED
      BY <1>3, <1>7, <3>1, <3>2, <3>3
  <2> QED
    BY <1>8, <2>1, <2>2 DEF Socket
<1>9. CASE OnSocket(t)
  <2>1. CASE Goes(t, Back(NoSock)) \/ Goes(t, Back(doing[t].sock))
    BY <1>2, <1>4, <2>1
  <2>2. CASE ~AtLast(t) /\ Goes(t, Onward(doing[t]))
    <3>1. NextCall(t) \in SocketCalls /\ NextCall(t) # "done"
      BY <1>9 DEF OnSocket, SocketCalls
    <3>2. doing[t].at < Len(Steps[doing[t].op])
      BY <2>2, <3>1, CallIsStep DEF AtLast, SocketInv
    <3> QED
      BY <1>3, <1>7, <2>2, <3>1, <3>2, OnwardIsWork DEF SocketInv
  <2> QED
    BY <1>9, <2>1, <2>2 DEF OnSocket, SucceedsAt, FailsAt
<1> QED
  BY <1>5, <1>6, <1>8, <1>9

LEMMA TickKeepsFresh ==
  ASSUME SocketTypes, FreshInv, ClockTicks
  PROVE  FreshInv'
<1>1. PICK h \in Hosts : resolves' = Append(resolves, h)
  BY DEF ClockTicks
<1>2. /\ DOMAIN resolves \subseteq DOMAIN resolves'
      /\ \A i \in DOMAIN resolves : resolves'[i] = resolves[i]
  BY <1>1, AppendProperties, LenProperties DEF SocketTypes
<1>3. UNCHANGED <<doing, dns>> /\ \A t \in Threads : NextCall(t)' = NextCall(t)
  BY DEF ClockTicks, NextCall
<1>4. ASSUME NEW t \in Threads, NextCall(t) = "store" PROVE dnsNow' <= doing[t].asked + Slow
  <2>1. dnsNow < doing[t].asked + Slow /\ dnsNow' = dnsNow + 1
    BY <1>4 DEF ClockTicks
  <2>2. doing[t].asked \in Nat /\ Slow \in Nat /\ dnsNow \in Nat
    BY SocketsAssumption DEF SocketTypes, Work
  <2> QED
    BY <2>1, <2>2
<1>5. \A addr, age, time : Resolved(addr, age, time) => Resolved(addr, age, time)'
  BY <1>2 DEF Resolved
<1> QED
  BY <1>2, <1>3, <1>4, <1>5 DEF FreshInv, Resolved, AddressesFresh

\* Whoever asks and stores when, no address is used that the name had longer ago than a
\* record lives and a thread takes to store it.
THEOREM AddressesStayFresh == NetSpec => []AddressesFresh
<1>1. NetInit => SocketInv /\ FreshInv
  <2> SUFFICES ASSUME NetInit PROVE FreshInv
    BY InitSocketInv
  <2>1. dns = NoDns /\ \A t \in Threads : NextCall(t) = "done"
    BY DEF NetInit, NextCall, Idle
  <2> QED
    BY <2>1 DEF FreshInv, AddressesFresh
<1>2. SocketInv /\ FreshInv /\ [NetNext]_netVars => SocketInv' /\ FreshInv'
  <2> SUFFICES ASSUME SocketInv, FreshInv, [NetNext]_netVars PROVE SocketInv' /\ FreshInv'
    OBVIOUS
  <2>1. SocketInv'
    BY StepKeepsSocketInv
  <2>2. ASSUME UNCHANGED netVars PROVE FreshInv'
    BY <2>2 DEF netVars, FreshInv, Resolved, AddressesFresh, NextCall
  <2> QED
    BY <2>1, <2>2, CachedKeepsFresh, AskKeepsFresh, StoreKeepsFresh, OthersKeepFresh,
       TickKeepsFresh DEF NetNext, SocketInv
<1>3. FreshInv => AddressesFresh
  BY DEF FreshInv
<1> QED
  BY <1>1, <1>2, <1>3, PTL DEF NetSpec

-----------------------------------------------------------------------------
(* Addresses.                                                              *)

NoneWanted(of) == of.family = "unspecified"

\* The address is the octets and the port it was made from, and what it was told is
\* that, or nothing.
Kept(a, of) ==
    /\ of \in [family : {"inet", "inet6", "unspecified"}, ip : Ips4 \cup Ips6 \cup {<<>>}, port : Int]
    /\ IF NoneWanted(of) THEN of = WantedNone /\ a.addr.port = <<>>
       ELSE a.addr.port = NetPort(of.port) /\ HostPort(NetPort(of.port)) = of.port
    /\ a.addr.family = of.family
    /\ a.addr.ip = of.ip
    /\ a.told = Undescribed \/ a.told = [made |-> TRUE, ip |-> of.ip, port |-> of.port]

AddressInv ==
    /\ DOMAIN madeFrom = {"first", "second"}
    /\ Kept(first, madeFrom.first) /\ Kept(second, madeFrom.second)

-----------------------------------------------------------------------------
\* A number of two octets.
LEMMA TwoOctets ==
  ASSUME NEW high \in 0..255, NEW low \in 0..255
  PROVE  /\ (high * 256 + low) % 65536 = high * 256 + low
         /\ (high * 256 + low) \div 256 = high /\ (high * 256 + low) % 256 = low
<1>1. /\ high \in Int /\ low \in Int /\ 0 <= high /\ high < 256 /\ 0 <= low /\ low < 256
  OBVIOUS
<1>2. 0 <= high * 256 + low /\ high * 256 + low < 65536
  BY <1>1
<1>3. (high * 256 + low) % 65536 = high * 256 + low
  BY <1>1, <1>2
<1>4. (high * 256 + low) \div 256 = high /\ (high * 256 + low) % 256 = low
  BY <1>1
<1> QED
  BY <1>3, <1>4

\* The octets of a port, for all ports: they stand for it modulo 65536.
LEMMA NetPortIs ==
  ASSUME NEW port \in Int
  PROVE  /\ HostPort(NetPort(port)) = port % 65536
         /\ NetPort(port % 65536) = NetPort(port)
<1> DEFINE kept == port % 65536
<1>1. kept \in Int /\ kept % 256 = port % 256 /\ kept % 65536 = kept
  OBVIOUS
<1> HIDE DEF kept
<1>2. (kept \div 256) * 256 + (kept % 256) = kept
  BY <1>1
<1>3. NetPort(port) = <<kept \div 256, kept % 256>> /\ NetPort(kept) = <<kept \div 256, kept % 256>>
  BY <1>1 DEF NetPort, kept
<1>4. HostPort(NetPort(port)) = kept
  BY <1>2, <1>3 DEF HostPort
<1> QED
  BY <1>3, <1>4 DEF kept

LEMMA OctetsOfPort ==
  ASSUME NEW port \in Int
  PROVE  \E high, low \in 0..255 : NetPort(port) = <<high, low>>
<1> DEFINE kept == port % 65536
           high == kept \div 256
           low == port % 256
<1>1. kept \in Int /\ 0 <= kept /\ kept < 65536
  OBVIOUS
<1>2. low \in 0..255
  OBVIOUS
<1>3. high \in Int /\ 0 <= high /\ high < 256
  <2> HIDE DEF kept
  <2>1. kept \div 256 \in Int /\ 0 <= kept \div 256
    BY <1>1
  <2>2. kept \div 256 < 256
    BY <1>1
  <2> QED
    BY <2>1, <2>2
<1>4. NetPort(port) = <<high, low>>
  BY DEF NetPort
<1> HIDE DEF high, low
<1>5. high \in 0..255
  BY <1>3
<1> QED
  BY <1>2, <1>4, <1>5

LEMMA TurnedAround ==
  ASSUME NEW x, NEW y
  PROVE  Reverse(<<x, y>>) = <<y, x>>
BY DEF Reverse

\* fromIp4PortInNet is given what an int of two octets is on this host, and keeps
\* the octets as they are.
LEMMA StoredIs ==
  ASSUME NEW port \in Int
  PROVE  Reverse(NetPort(AsStored(NetPort(port)))) = NetPort(port)
<1>1. PICK high \in 0..255, low \in 0..255 : NetPort(port) = <<high, low>>
  BY OctetsOfPort
<1>2. AsStored(NetPort(port)) = low * 256 + high
  <2>1. <<high, low>>[1] = high /\ <<high, low>>[2] = low
    OBVIOUS
  <2> QED
    BY <2>1, <1>1 DEF AsStored
<1>3. NetPort(low * 256 + high) = <<low, high>>
  BY TwoOctets DEF NetPort
<1> QED
  BY <1>1, <1>2, <1>3, TurnedAround

\* Reversing twice gives the address back.
LEMMA ReverseTwice ==
  ASSUME NEW S, NEW n \in Nat, NEW ip \in [1..n -> S]
  PROVE  Reverse(Reverse(ip)) = ip
<1>1. ip \in Seq(S) /\ Len(ip) = n
  <2>1. ip \in Seq(S) /\ DOMAIN ip = 1..n
    OBVIOUS
  <2> QED
    BY <2>1
<1> DEFINE back == [i \in 1..n |-> ip[(n - i) + 1]]
<1>2. Reverse(ip) = back
  BY <1>1 DEF Reverse
<1>3. back \in [1..n -> S]
  OBVIOUS
<1> HIDE DEF back
<1>4. back \in Seq(S) /\ Len(back) = n
  <2>1. back \in Seq(S) /\ DOMAIN back = 1..n
    BY <1>3
  <2> QED
    BY <2>1
<1>5. Reverse(back) = [i \in 1..n |-> back[(n - i) + 1]]
  BY <1>4 DEF Reverse
<1>6. \A i \in 1..n : back[(n - i) + 1] = ip[i]
  BY DEF back
<1> QED
  BY <1>2, <1>5, <1>6

LEMMA MadeIsKept ==
  ASSUME NEW family \in {"inet", "inet6"}, NEW ip \in Ips4 \cup Ips6, NEW port \in Int
  PROVE  Kept(FromSockaddr(Sockaddr(family, ip, NetPort(port))),
              [family |-> family, ip |-> ip, port |-> port % 65536])
<1> DEFINE of == [family |-> family, ip |-> ip, port |-> port % 65536]
           a == FromSockaddr(Sockaddr(family, ip, NetPort(port)))
<1>1. /\ a.addr.family = family /\ a.addr.ip = ip /\ a.addr.port = NetPort(port)
      /\ a.told = Undescribed
  BY DEF FromSockaddr, Sockaddr
<1>2. /\ of.family = family /\ of.ip = ip /\ of.port = port % 65536 /\ of.port \in Int
      /\ of \in [family : {"inet", "inet6", "unspecified"}, ip : Ips4 \cup Ips6 \cup {<<>>}, port : Int]
  OBVIOUS
<1>3. NetPort(of.port) = NetPort(port) /\ HostPort(NetPort(port)) = of.port
  BY <1>2, NetPortIs
<1> HIDE DEF a, of
<1>4. Kept(a, of)
  BY <1>1, <1>2, <1>3 DEF Kept, NoneWanted
<1> QED
  BY <1>4 DEF a, of

LEMMA InvalidIsKept == Kept(Invalid, WantedNone)
<1>1. /\ Invalid.addr.family = "unspecified" /\ Invalid.addr.ip = <<>> /\ Invalid.addr.port = <<>>
      /\ Invalid.told = Undescribed
  BY DEF Invalid, FromSockaddr, Sockaddr
<1>2. /\ WantedNone.family = "unspecified" /\ WantedNone.ip = <<>>
      /\ WantedNone \in [family : {"inet", "inet6", "unspecified"}, ip : Ips4 \cup Ips6 \cup {<<>>}, port : Int]
  BY DEF WantedNone
<1> QED
  BY <1>1, <1>2 DEF Kept, NoneWanted

LEMMA DomainIsKept ==
  ASSUME NEW a, NEW of, NEW name, Kept(a, of)
  PROVE  Kept([a EXCEPT !.domain = name], of)
<1> DEFINE b == [a EXCEPT !.domain = name]
<1>1. b.addr = a.addr /\ b.told = a.told
  OBVIOUS
<1> HIDE DEF b
<1>2. Kept(b, of)
  BY <1>1 DEF Kept
<1> QED
  BY <1>2 DEF b

-----------------------------------------------------------------------------
\* Every way to make an address keeps what it was made from.
LEMMA MakingsAreKept ==
  ASSUME NEW ip \in Ips4 \cup Ips6, NEW port \in Ports, NEW m \in Makings(ip, port)
  PROVE  Kept(m.made, m.of)
<1>1. port \in Int
  BY AddressAssumption
<1>2. /\ Kept(FromSockaddr(Sockaddr("inet", ip, NetPort(port))), Wanted4(ip, port))
      /\ Kept(FromSockaddr(Sockaddr("inet6", ip, NetPort(port))), Wanted6(ip, port))
  BY <1>1, MadeIsKept DEF Wanted4, Wanted6
<1>3. Kept(Invalid, WantedNone)
  BY InvalidIsKept
<1>4. /\ OfSocket(Sockaddr("inet", ip, NetPort(port))) = FromSockaddr(Sockaddr("inet", ip, NetPort(port)))
      /\ OfSocket(Sockaddr("inet6", ip, NetPort(port))) = FromSockaddr(Sockaddr("inet6", ip, NetPort(port)))
  BY DEF OfSocket, Sockaddr
<1>5. CASE ip \in Ips4
  <2>1. FromIp4Port(ip, port) = FromSockaddr(Sockaddr("inet", ip, NetPort(port)))
    BY <1>5 DEF FromIp4Port
  <2>2. FromIp4PortInHost(Reverse(ip), port) = FromSockaddr(Sockaddr("inet", ip, NetPort(port)))
    <3>1. ip \in [1..4 -> 0..255]
      BY <1>5, AddressAssumption
    <3>2. Reverse(Reverse(ip)) = ip
      BY <3>1, ReverseTwice
    <3> QED
      BY <3>2 DEF FromIp4PortInHost
  <2>3. FromIp4PortInNet(ip, AsStored(NetPort(port))) = FromSockaddr(Sockaddr("inet", ip, NetPort(port)))
    BY <1>1, StoredIs DEF FromIp4PortInNet
  <2>4. FromIp6Port(ip, port) = Invalid
    <3>1. ip \notin Ips6
      <4>1. SUFFICES ASSUME ip \in Ips6 PROVE FALSE
        OBVIOUS
      <4>2. ip \in [1..4 -> 0..255] /\ ip \in [1..16 -> 0..255]
        BY <1>5, <4>1, AddressAssumption
      <4>3. 1..4 = 1..16
        BY <4>2
      <4> QED
        BY <4>3
    <3> QED
      BY <3>1 DEF FromIp6Port
  <2>5. ASSUME NEW n \in {k \in Names : k[2] \in {ip, <<>>}}
        PROVE  Kept(FromDomainPort(n[1], port), IF n[2] = <<>> THEN WantedNone ELSE Wanted4(ip, port))
    <3>1. (CHOOSE k \in Names : k[1] = n[1]) = n
      <4>1. n \in Names /\ \A k \in Names : k[1] = n[1] => k = n
        BY AddressAssumption
      <4> QED
        BY <4>1
    <3> DEFINE a == IF n[2] = <<>> THEN Invalid ELSE FromSockaddr(Sockaddr("inet", n[2], NetPort(port)))
               of == IF n[2] = <<>> THEN WantedNone ELSE Wanted4(ip, port)
    <3>2. FromDomainPort(n[1], port) = [a EXCEPT !.domain = n[1]]
      BY <3>1 DEF FromDomainPort
    <3>3. n[2] = <<>> \/ n[2] = ip
      BY <2>5
    <3>4. Kept(a, of)
      BY <3>3, <1>2, <1>3
    <3> HIDE DEF a, of
    <3>5. Kept([a EXCEPT !.domain = n[1]], of)
      BY <3>4, DomainIsKept
    <3> QED
      BY <3>2, <3>5 DEF of
  <2>6. \/ m.of = Wanted4(ip, port) /\ m.made = FromSockaddr(Sockaddr("inet", ip, NetPort(port)))
        \/ m.of = WantedNone /\ m.made = Invalid
        \/ \E n \in {k \in Names : k[2] \in {ip, <<>>}} :
              /\ m.of = IF n[2] = <<>> THEN WantedNone ELSE Wanted4(ip, port)
              /\ m.made = FromDomainPort(n[1], port)
    BY <1>4, <1>5, <2>1, <2>2, <2>3, <2>4 DEF Makings
  <2> QED
    BY <2>5, <2>6, <1>2, <1>3
<1>6. CASE ip \notin Ips4
  <2>1. FromIp6Port(ip, port) = FromSockaddr(Sockaddr("inet6", ip, NetPort(port)))
    BY <1>6 DEF FromIp6Port
  <2>2. FromIp4Port(ip, port) = Invalid
    BY <1>6 DEF FromIp4Port
  <2>3. \/ m.of = Wanted6(ip, port) /\ m.made = FromSockaddr(Sockaddr("inet6", ip, NetPort(port)))
        \/ m.of = WantedNone /\ m.made = Invalid
    BY <1>4, <1>6, <2>1, <2>2 DEF Makings
  <2> QED
    BY <2>3, <1>2, <1>3
<1> QED
  BY <1>5, <1>6

\* Describing an address keeps it.
LEMMA DescribedIsKept ==
  ASSUME NEW a, NEW of, Kept(a, of)
  PROVE  /\ Kept(Described(a), of)
         /\ Described(a).told = [made |-> TRUE, ip |-> of.ip, port |-> of.port]
         /\ IsValid(a) <=> ~NoneWanted(of)
<1> DEFINE told == [made |-> TRUE, ip |-> of.ip, port |-> of.port]
<1>1. told.made = TRUE /\ Undescribed.made = FALSE
  BY DEF Undescribed
<1>2. IsValid(a) <=> ~NoneWanted(of)
  BY DEF Kept, IsValid, NoneWanted
<1>3. IF IsValid(a) THEN HostPort(a.addr.port) = of.port ELSE of.port = 0
  BY <1>2 DEF Kept, WantedNone
<1>4. CASE a.told.made
  BY <1>1, <1>2, <1>4 DEF Kept, Described
<1>5. CASE ~a.told.made
  <2> DEFINE b == [a EXCEPT !.told = told]
  <2>1. Described(a) = b
    BY <1>3, <1>5 DEF Described, Kept
  <2>2. b.addr = a.addr /\ b.told = told
    OBVIOUS
  <2> HIDE DEF b
  <2>3. Kept(b, of)
    BY <2>2 DEF Kept
  <2> QED
    BY <1>2, <2>1, <2>2, <2>3
<1> QED
  BY <1>4, <1>5

-----------------------------------------------------------------------------
LEMMA InvGivesAgreement == AddressInv => AddressesAgree
<1> SUFFICES ASSUME AddressInv PROVE AddressesAgree
  OBVIOUS
<1>1. ASSUME NEW a, NEW of, Kept(a, of)
      PROVE  /\ IsValid(a) <=> of.family # "unspecified"
             /\ Described(a).told.ip = of.ip /\ Described(a).told.port = of.port
  <2>1. Described(a).told = [made |-> TRUE, ip |-> of.ip, port |-> of.port]
    BY <1>1, DescribedIsKept
  <2> QED
    BY <1>1, <2>1, DescribedIsKept DEF NoneWanted
<1>2. ASSUME IsValid(first), IsValid(second)
      PROVE  Equal(first, second) <=> madeFrom.first = madeFrom.second
  <2> DEFINE f == madeFrom.first
             s == madeFrom.second
  <2>1. /\ f.family \in {"inet", "inet6"} /\ s.family \in {"inet", "inet6"}
        /\ f \in [family : {"inet", "inet6", "unspecified"}, ip : Ips4 \cup Ips6 \cup {<<>>}, port : Int]
        /\ s \in [family : {"inet", "inet6", "unspecified"}, ip : Ips4 \cup Ips6 \cup {<<>>}, port : Int]
        /\ ~NoneWanted(f) /\ ~NoneWanted(s)
    BY <1>2 DEF AddressInv, Kept, IsValid, NoneWanted
  <2>2. /\ first.addr.port = NetPort(f.port) /\ second.addr.port = NetPort(s.port)
        /\ HostPort(NetPort(f.port)) = f.port /\ HostPort(NetPort(s.port)) = s.port
        /\ first.addr.ip = f.ip /\ second.addr.ip = s.ip
        /\ first.addr.family = f.family /\ second.addr.family = s.family
    BY <2>1 DEF AddressInv, Kept
  <2> HIDE DEF f, s
  <2>3. f = s <=> f.family = s.family /\ f.ip = s.ip /\ f.port = s.port
    BY <2>1
  <2>4. Equal(first, second) <=> f.family = s.family /\ f.ip = s.ip /\ f.port = s.port
    BY <2>1, <2>2 DEF Equal, IsIP6
  <2> QED
    BY <2>3, <2>4 DEF f, s
<1> QED
  BY <1>1, <1>2 DEF AddressInv, AddressesAgree

\* However an address is made, copied and described, it is described as what it was
\* made from, and two are equal when and only when they were made from the same.
THEOREM AddressesAlwaysAgree == AddressesSpec => []AddressesAgree
<1>1. AddressesInit => AddressInv
  BY InvalidIsKept DEF AddressesInit, AddressInv
<1>2. AddressInv /\ [AddressesNext]_addressVars => AddressInv'
  <2> SUFFICES ASSUME AddressInv, [AddressesNext]_addressVars PROVE AddressInv'
    OBVIOUS
  <2>1. CASE MakeFirst
    <3>1. PICK ip \in Ips4 \cup Ips6, port \in Ports :
             \E m \in Makings(ip, port) :
                /\ first' = m.made /\ madeFrom' = [madeFrom EXCEPT !.first = m.of]
                /\ UNCHANGED second
      BY <2>1 DEF MakeFirst
    <3>2. PICK m \in Makings(ip, port) :
                /\ first' = m.made /\ madeFrom' = [madeFrom EXCEPT !.first = m.of]
                /\ UNCHANGED second
      BY <3>1
    <3>3. Kept(m.made, m.of)
      BY MakingsAreKept
    <3> QED
      BY <3>2, <3>3 DEF AddressInv
  <2>2. CASE Describe
    BY <2>2, DescribedIsKept DEF Describe, AddressInv
  <2>3. CASE CopyFirst
    BY <2>3 DEF CopyFirst, AddressInv
  <2>4. CASE UNCHANGED addressVars
    BY <2>4 DEF addressVars, AddressInv
  <2> QED
    BY <2>1, <2>2, <2>3, <2>4 DEF AddressesNext
<1> QED
  BY <1>1, <1>2, InvGivesAgreement, PTL DEF AddressesSpec


-----------------------------------------------------------------------------
(* TcpClient: what calls make of the fields, descriptors and thread.       *)

Nets == {"idle", "connecting", "up", "self", "refused", "failed", "closed", "twice"}
States == {"disconnected", "connecting", "connected"}
Told == {"established", "error", "closed"} \X Nat

Clis == [state : States, sock : Nat, conn : Nat, callbacks : BOOLEAN, conns : SUBSET Nat,
         astray : SUBSET Nat]
Loops == [watched : SUBSET Nat, adding : SUBSET Nat, deleting : SUBSET Nat]
Places == [cli : Clis, net : Seq(Nets), loop : Loops]

Of(s) == DOMAIN s.net

PlacesInv(s) ==
    /\ s \in Places
    /\ s.cli.sock # NoDescriptor => s.cli.sock \in Of(s)
    /\ s.cli.conn # NoDescriptor => s.cli.conn \in Of(s)
    /\ s.cli.conns \subseteq Of(s) /\ s.cli.astray \subseteq Of(s)
    /\ s.loop.watched \subseteq Of(s) /\ s.loop.adding \subseteq Of(s) /\ s.loop.deleting \subseteq Of(s)

\* What the client once had and what is to be deleted are connections, or closed; and a
\* connection is the client's, or to be deleted.
Over(s, n) == n \in s.cli.conns \/ ~IsOpen(s, n)
OwnedInv(s) ==
    /\ s.cli.conn # NoDescriptor => Over(s, s.cli.conn)
    /\ \A n \in s.loop.deleting : Over(s, n)
    /\ \A n \in s.cli.conns : n = s.cli.conn \/ n \in s.loop.deleting

\* What is closed once more would be astray: connections, and while there is none, or an
\* attempt is under way, the number in _sock.
Trying(s) == s.cli.conn = NoDescriptor \/ s.cli.state = "connecting"
OnceInv(s) ==
    /\ \A n \in Of(s) : s.net[n] = "twice" => n \in s.cli.astray
    /\ \A n \in s.cli.conns : IsOpen(s, n) \/ n \in s.cli.astray
    /\ Trying(s) /\ s.cli.sock # NoDescriptor => IsOpen(s, s.cli.sock) \/ s.cli.sock \in s.cli.astray

FoundInv(s) ==
    \A n \in Of(s) : IsOpen(s, n) =>
        /\ n = s.cli.sock \/ n = s.cli.conn \/ n \in s.loop.deleting \/ n \in s.cli.astray
        /\ n \in s.loop.watched \cup s.loop.adding \/ s.net[n] = "idle"

Sound(s) == PlacesInv(s) /\ OwnedInv(s) /\ OnceInv(s) /\ FoundInv(s)

\* between callbacks; and of a client that is closed
Settled(s) == Trying(s) => s.cli.sock \notin s.cli.conns
Quiet(s) ==
    ~s.cli.callbacks => \A n \in Of(s) : IsOpen(s, n) => n \in s.loop.deleting \cup s.cli.astray

\* From s to r no attempt comes to life again, and _conn is left alone.
Onwards(s, r) ==
    /\ Of(s) \subseteq Of(r) /\ r.cli.conn = s.cli.conn /\ r.cli.conns \subseteq s.cli.conns
    /\ \A n \in Of(s) : Over(s, n) => Over(r, n)

LEMMA OfIs ==
  ASSUME NEW s \in Places
  PROVE  /\ Len(s.net) \in Nat /\ Of(s) = 1..Len(s.net) /\ Of(s) \subseteq Nat
         /\ NoDescriptor \notin Of(s) /\ \A n \in Of(s) : s.net[n] \in Nets
BY LenProperties, ElementOfSeq DEF Places, Of, NoDescriptor

LEMMA WithCliIs ==
  ASSUME NEW s \in Places, NEW fields \in Clis
  PROVE  /\ WithCli(s, fields) \in Places /\ WithCli(s, fields).cli = fields
         /\ WithCli(s, fields).net = s.net /\ WithCli(s, fields).loop = s.loop
         /\ Of(WithCli(s, fields)) = Of(s)
         /\ \A n \in Of(s) : IsOpen(WithCli(s, fields), n) <=> IsOpen(s, n)
BY DEF WithCli, Places, Of, IsOpen

\* myclose: all but the one descriptor stays.
LEMMA CloseSocketIs ==
  ASSUME NEW s \in Places, NEW n \in Of(s)
  PROVE  /\ CloseSocket(s, n) \in Places /\ CloseSocket(s, n).cli = s.cli
         /\ Of(CloseSocket(s, n)) = Of(s)
         /\ CloseSocket(s, n).net[n] = IF IsOpen(s, n) THEN "closed" ELSE "twice"
         /\ \A m \in Of(s) \ {n} : CloseSocket(s, n).net[m] = s.net[m]
         /\ CloseSocket(s, n).loop.watched = s.loop.watched \ {n}
         /\ CloseSocket(s, n).loop.adding = s.loop.adding
         /\ CloseSocket(s, n).loop.deleting = s.loop.deleting
         /\ \A m \in Of(s) \ {n} : IsOpen(CloseSocket(s, n), m) <=> IsOpen(s, m)
         /\ ~IsOpen(CloseSocket(s, n), n)
<1> DEFINE to == IF IsOpen(s, n) THEN "closed" ELSE "twice"
           net2 == [s.net EXCEPT ![n] = to]
           loop2 == [s.loop EXCEPT !.watched = @ \ {n}]
           t == CloseSocket(s, n)
<1>1. t = [cli |-> s.cli, net |-> net2, loop |-> loop2]
  BY DEF CloseSocket
<1>2. /\ net2 \in Seq(Nets) /\ DOMAIN net2 = DOMAIN s.net /\ net2[n] = to
      /\ \A m \in DOMAIN s.net \ {n} : net2[m] = s.net[m]
  <2>1. s.net \in Seq(Nets) /\ to \in Nets /\ n \in DOMAIN s.net
    BY DEF Places, Nets, Of
  <2> HIDE DEF to
  <2> QED
    BY <2>1
<1>3. /\ loop2 \in Loops /\ loop2.watched = s.loop.watched \ {n}
      /\ loop2.adding = s.loop.adding /\ loop2.deleting = s.loop.deleting
  BY DEF Places, Loops
<1> HIDE DEF net2, loop2, t
<1>4. t \in Places /\ t.cli = s.cli /\ t.net = net2 /\ t.loop = loop2
  BY <1>1, <1>2, <1>3 DEF Places
<1>5. (\A m \in Of(s) \ {n} : IsOpen(t, m) <=> IsOpen(s, m)) /\ ~IsOpen(t, n)
  BY <1>2, <1>4 DEF IsOpen, Of
<1> QED
  BY <1>2, <1>3, <1>4, <1>5 DEF Of, t

\* What is once closed stays so, and a connection is closed but once: Connection::close,
\* of any connection, also of one that is closed already.
LEMMA ConnClosed ==
  ASSUME NEW s, Sound(s), Settled(s), NEW c \in Of(s)
  PROVE  LET t == AfterConnClose(s, c)
         IN  /\ Sound(t) /\ Settled(t) /\ Onwards(s, t) /\ (Quiet(s) => Quiet(t))
             /\ Of(t) = Of(s) /\ t.loop.deleting = s.loop.deleting
             /\ t.cli.sock = s.cli.sock /\ t.cli.astray = s.cli.astray
             /\ t.cli.callbacks = s.cli.callbacks /\ t.cli.conns = s.cli.conns \ {c}
             /\ \A m \in Of(s) : IsOpen(t, m) => IsOpen(s, m)
             /\ c \in s.cli.conns => ~IsOpen(t, c)
<1> DEFINE t == AfterConnClose(s, c)
           fields == [s.cli EXCEPT !.conns = @ \ {c}]
           u == WithCli(s, fields)
<1>0. s \in Places /\ s.cli \in Clis
  BY DEF Sound, PlacesInv, Places
<1>1. CASE c \notin s.cli.conns
  <2>1. t = s /\ s.cli.conns \ {c} = s.cli.conns
    BY <1>1 DEF AfterConnClose
  <2> QED
    BY <2>1, <1>1 DEF Onwards
<1>2. CASE c \in s.cli.conns
  <2>1. /\ fields \in Clis /\ fields.conns = s.cli.conns \ {c} /\ fields.state = s.cli.state
        /\ fields.sock = s.cli.sock /\ fields.conn = s.cli.conn
        /\ fields.callbacks = s.cli.callbacks /\ fields.astray = s.cli.astray
    BY <1>0 DEF Clis
  <2>2. t = CloseSocket(u, c)
    BY <1>2 DEF AfterConnClose
  <2> HIDE DEF fields
  <2>3. /\ u \in Places /\ u.cli = fields /\ u.net = s.net /\ u.loop = s.loop /\ Of(u) = Of(s)
        /\ \A n \in Of(s) : IsOpen(u, n) <=> IsOpen(s, n)
    BY <1>0, <2>1, WithCliIs
  <2> HIDE DEF t, u
  <2>4. /\ t \in Places /\ t.cli = fields /\ Of(t) = Of(s)
        /\ t.net[c] = IF IsOpen(s, c) THEN "closed" ELSE "twice"
        /\ \A m \in Of(s) \ {c} : t.net[m] = s.net[m]
        /\ t.loop.watched = s.loop.watched \ {c} /\ t.loop.adding = s.loop.adding
        /\ t.loop.deleting = s.loop.deleting
        /\ \A m \in Of(s) \ {c} : IsOpen(t, m) <=> IsOpen(s, m)
        /\ ~IsOpen(t, c)
    BY <2>2, <2>3, CloseSocketIs
  <2>5. PlacesInv(t)
    BY <2>1, <2>4 DEF Sound, PlacesInv
  <2>6. \A n \in Of(s) : Over(s, n) => Over(t, n)
    BY <2>1, <2>4 DEF Over
  <2>7. OwnedInv(t)
    BY <2>1, <2>4, <2>6 DEF Sound, PlacesInv, OwnedInv
  <2>8. OnceInv(t)
    <3>1. \A n \in Of(t) : t.net[n] = "twice" => n \in t.cli.astray
      BY <1>2, <2>1, <2>4 DEF Sound, OnceInv
    <3>2. \A n \in t.cli.conns : IsOpen(t, n) \/ n \in t.cli.astray
      BY <2>1, <2>4 DEF Sound, OnceInv, PlacesInv
    <3>3. Trying(t) <=> Trying(s)
      BY <2>1, <2>4 DEF Trying
    <3>4. ASSUME Trying(t), t.cli.sock # NoDescriptor
          PROVE  IsOpen(t, t.cli.sock) \/ t.cli.sock \in t.cli.astray
      <4>1. s.cli.sock \in Of(s) \ {c}
        BY <1>2, <2>1, <2>4, <3>3, <3>4 DEF Settled, Sound, PlacesInv
      <4> QED
        BY <2>1, <2>4, <3>3, <3>4, <4>1 DEF Sound, OnceInv
    <3> QED
      BY <3>1, <3>2, <3>4 DEF OnceInv
  <2>9. FoundInv(t)
    BY <2>1, <2>4 DEF Sound, FoundInv
  <2>10. Settled(t) /\ (Quiet(s) => Quiet(t)) /\ Onwards(s, t)
    BY <2>1, <2>4, <2>6 DEF Settled, Trying, Quiet, Onwards
  <2> QED
    BY <2>1, <2>4, <2>5, <2>7, <2>8, <2>9, <2>10 DEF Sound, t
<1> QED
  BY <1>1, <1>2

\* startConnect: the socket it makes is the one in _sock, and what was in it is a
\* connection, closed, or astray.
LEMMA Started ==
  ASSUME NEW s, Sound(s), NEW onLoop \in BOOLEAN, NEW result \in DOMAIN NetOf
  PROVE  LET t == AfterStart(s, onLoop, result)
         IN  Sound(t) /\ Settled(t) /\ Onwards(s, t) /\ Quiet(t) /\ t.cli.conns = s.cli.conns
<1> DEFINE t == AfterStart(s, onLoop, result)
           n == Len(s.net) + 1
           made == NetOf[result]
           added == IF result = "connecting" THEN {n} ELSE {}
           stale == IF result = "unbound" THEN {n} ELSE {}
           lost == OnlyInSock(s)
           state2 == IF result = "connecting" THEN "connecting" ELSE s.cli.state
           watched2 == IF onLoop THEN s.loop.watched \cup added ELSE s.loop.watched
           adding2 == IF onLoop THEN s.loop.adding ELSE s.loop.adding \cup added
           cli2 == [s.cli EXCEPT !.sock = n, !.callbacks = TRUE, !.state = state2,
                                 !.astray = s.cli.astray \cup lost \cup stale]
           loop2 == [s.loop EXCEPT !.watched = watched2, !.adding = adding2]
<1>0. s \in Places /\ s.cli \in Clis /\ s.loop \in Loops /\ s.net \in Seq(Nets)
  BY DEF Sound, PlacesInv, Places
<1>1. /\ result \in {"unbound", "fails", "connecting"} /\ made \in {"closed", "idle", "connecting"}
      /\ result = "unbound" <=> made = "closed"
      /\ result = "fails" <=> made = "idle"
      /\ result = "connecting" <=> made = "connecting"
  BY DEF NetOf
<1>2. t = [cli |-> cli2, net |-> Append(s.net, made), loop |-> loop2]
  BY DEF AfterStart
<1>3. /\ n \in Nat \ {0} /\ n \notin Of(s) /\ Len(s.net) \in Nat
      /\ Of(s) = 1..Len(s.net) /\ Of(s) \subseteq Nat
  BY <1>0, OfIs
<1>4. lost \subseteq Of(s)
  BY DEF OnlyInSock, Sound, PlacesInv
<1>5. stale \subseteq {n} /\ added \subseteq {n} /\ (made = "closed" => n \in stale)
      /\ (made = "connecting" => n \in added)
  BY <1>1
<1>6. /\ cli2 \in Clis /\ cli2.sock = n /\ cli2.callbacks = TRUE /\ cli2.state = state2
      /\ cli2.astray = s.cli.astray \cup lost \cup stale
      /\ cli2.conn = s.cli.conn /\ cli2.conns = s.cli.conns
  <2>1. state2 \in States
    BY <1>0 DEF Clis, States
  <2> HIDE DEF lost, stale, state2, n
  <2> QED
    BY <1>0, <1>3, <1>4, <1>5, <2>1 DEF Clis
<1>7. /\ loop2 \in Loops /\ loop2.watched = watched2 /\ loop2.adding = adding2
      /\ loop2.deleting = s.loop.deleting
      /\ s.loop.watched \subseteq watched2 /\ s.loop.adding \subseteq adding2
      /\ watched2 \subseteq s.loop.watched \cup {n} /\ adding2 \subseteq s.loop.adding \cup {n}
      /\ added \subseteq watched2 \cup adding2
  <2> HIDE DEF added, n
  <2> QED
    BY <1>0, <1>3, <1>5 DEF Loops
<1>8. /\ Append(s.net, made) \in Seq(Nets) /\ DOMAIN Append(s.net, made) = Of(s) \cup {n}
      /\ \A m \in Of(s) : Append(s.net, made)[m] = s.net[m]
      /\ Append(s.net, made)[n] = made
  <2>1. made \in Nets
    BY <1>1 DEF Nets
  <2> HIDE DEF made
  <2> QED
    BY <1>0, <1>3, <2>1
<1> HIDE DEF cli2, loop2, lost, stale, added, watched2, adding2, state2, made, n, t
<1>9. /\ t \in Places /\ t.cli = cli2 /\ t.loop = loop2 /\ Of(t) = Of(s) \cup {n}
      /\ \A m \in Of(s) : t.net[m] = s.net[m]
      /\ t.net[n] = made
  BY <1>2, <1>6, <1>7, <1>8 DEF Places, Of
<1>10. (\A m \in Of(s) : IsOpen(t, m) <=> IsOpen(s, m)) /\ (IsOpen(t, n) <=> made # "closed")
  BY <1>1, <1>9 DEF IsOpen
<1>11. PlacesInv(t)
  BY <1>3, <1>4, <1>5, <1>6, <1>7, <1>9 DEF Sound, PlacesInv
<1>12. \A m \in Of(s) : Over(s, m) => Over(t, m)
  BY <1>6, <1>9, <1>10 DEF Over
<1>13. OwnedInv(t)
  BY <1>6, <1>7, <1>9, <1>12 DEF Sound, PlacesInv, OwnedInv
<1>14. OnceInv(t)
  <2>1. \A m \in Of(t) : t.net[m] = "twice" => m \in t.cli.astray
    BY <1>1, <1>6, <1>9 DEF Sound, OnceInv
  <2>2. \A m \in t.cli.conns : IsOpen(t, m) \/ m \in t.cli.astray
    BY <1>6, <1>9, <1>10 DEF Sound, OnceInv, PlacesInv
  <2>3. IsOpen(t, n) \/ n \in t.cli.astray
    BY <1>5, <1>6, <1>9, <1>10
  <2> QED
    BY <1>6, <1>9, <2>1, <2>2, <2>3 DEF OnceInv
<1>15. FoundInv(t)
  <2> SUFFICES ASSUME NEW m \in Of(t), IsOpen(t, m)
               PROVE  /\ m = t.cli.sock \/ m = t.cli.conn \/ m \in t.loop.deleting \/ m \in t.cli.astray
                      /\ m \in t.loop.watched \cup t.loop.adding \/ t.net[m] = "idle"
    BY DEF FoundInv
  <2>1. CASE m = n
    BY <2>1, <1>1, <1>5, <1>6, <1>7, <1>9, <1>10
  <2>2. CASE m # n
    <3>1. m \in Of(s) /\ IsOpen(s, m) /\ t.net[m] = s.net[m]
      BY <2>2, <1>9, <1>10
    <3>2. m = s.cli.sock => m \in lost \/ m \in s.cli.conns
      BY <3>1, <1>3 DEF lost, OnlyInSock, NoDescriptor
    <3>3. m = s.cli.conn \/ m \in s.loop.deleting \/ m \in s.cli.astray \/ m \in lost
      BY <3>1, <3>2 DEF Sound, FoundInv, OwnedInv
    <3>4. m \in s.loop.watched \cup s.loop.adding \/ s.net[m] = "idle"
      BY <3>1 DEF Sound, FoundInv
    <3> QED
      BY <3>1, <3>3, <3>4, <1>6, <1>7, <1>9
  <2> QED
    BY <2>1, <2>2
<1>16. Settled(t) /\ Quiet(t)
  BY <1>3, <1>6, <1>9 DEF Settled, Quiet, Sound, PlacesInv
<1>17. Onwards(s, t)
  BY <1>6, <1>9, <1>12 DEF Onwards
<1> QED
  BY <1>6, <1>9, <1>11, <1>13, <1>14, <1>15, <1>16, <1>17 DEF Sound, t

\* _sock = -1, where n is a connection.
LEMMA Forgotten ==
  ASSUME NEW s, Sound(s), NEW n \in s.cli.conns
  PROVE  LET t == SockForgotten(s, n)
         IN  /\ Sound(t) /\ Settled(t) /\ Onwards(s, t) /\ (Quiet(s) => Quiet(t))
             /\ t.cli.conns = s.cli.conns
<1> DEFINE t == SockForgotten(s, n)
           lost == OnlyInSock(s) \ {n}
           fields == [s.cli EXCEPT !.sock = NoDescriptor, !.astray = s.cli.astray \cup lost]
<1>0. s \in Places /\ s.cli \in Clis /\ Of(s) \subseteq Nat /\ NoDescriptor \notin Of(s)
      /\ s.cli.conns \subseteq Of(s)
  BY OfIs DEF Sound, PlacesInv, Places
<1>1. lost \subseteq Of(s)
  BY DEF OnlyInSock, Sound, PlacesInv
<1>2. /\ fields \in Clis /\ fields.sock = NoDescriptor /\ fields.astray = s.cli.astray \cup lost
      /\ fields.conns = s.cli.conns /\ fields.conn = s.cli.conn
      /\ fields.callbacks = s.cli.callbacks
  <2> HIDE DEF lost
  <2> QED
    BY <1>0, <1>1 DEF Clis, NoDescriptor
<1>3. t = WithCli(s, fields)
  BY DEF SockForgotten
<1> HIDE DEF fields, t, lost
<1>4. /\ t \in Places /\ t.cli = fields /\ t.net = s.net /\ t.loop = s.loop /\ Of(t) = Of(s)
      /\ \A m \in Of(s) : IsOpen(t, m) <=> IsOpen(s, m)
  BY <1>0, <1>2, <1>3, WithCliIs
<1>5. PlacesInv(t)
  BY <1>1, <1>2, <1>4 DEF Sound, PlacesInv
<1>6. \A m \in Of(s) : Over(s, m) <=> Over(t, m)
  BY <1>2, <1>4 DEF Over
<1>7. OwnedInv(t)
  BY <1>2, <1>4, <1>6 DEF Sound, PlacesInv, OwnedInv
<1>8. OnceInv(t)
  BY <1>0, <1>2, <1>4 DEF Sound, OnceInv
<1>9. FoundInv(t)
  <2> SUFFICES ASSUME NEW m \in Of(s), IsOpen(s, m)
               PROVE  /\ m = t.cli.conn \/ m \in t.loop.deleting \/ m \in t.cli.astray
                      /\ m \in t.loop.watched \cup t.loop.adding \/ t.net[m] = "idle"
    BY <1>4 DEF FoundInv
  <2>1. m = s.cli.sock => m \in lost \/ m \in s.cli.conns
    BY <1>0 DEF lost, OnlyInSock
  <2>2. m = s.cli.conn \/ m \in s.loop.deleting \/ m \in s.cli.astray \/ m \in lost
    BY <2>1 DEF Sound, FoundInv, OwnedInv
  <2>3. m \in s.loop.watched \cup s.loop.adding \/ s.net[m] = "idle"
    BY DEF Sound, FoundInv
  <2> QED
    BY <2>2, <2>3, <1>2, <1>4
<1>10. Settled(t) /\ (Quiet(s) => Quiet(t)) /\ Onwards(s, t)
  BY <1>0, <1>2, <1>4, <1>6 DEF Settled, Quiet, Onwards
<1> QED
  BY <1>2, <1>4, <1>5, <1>7, <1>8, <1>9, <1>10 DEF Sound, t

\* TcpClient::close; while there is no connection, also where _sock is a connection's.
LEMMA Closed ==
  ASSUME NEW s, Sound(s), s.cli.conn # NoDescriptor => Settled(s)
  PROVE  LET t == AfterClose(s)
         IN  /\ Sound(t) /\ Settled(t) /\ Onwards(s, t) /\ Quiet(t)
             /\ s.cli.conn = NoDescriptor => t.cli.conns = s.cli.conns
<1> DEFINE t == AfterClose(s)
           sock == s.cli.sock
           conn == s.cli.conn
<1>0. s \in Places /\ s.cli \in Clis /\ Of(s) \subseteq Nat /\ NoDescriptor \notin Of(s)
      /\ s.cli.conns \subseteq Of(s)
  BY OfIs DEF Sound, PlacesInv, Places
<1>1. CASE conn # NoDescriptor
  <2> DEFINE lost == OnlyInSock(s)
             fields == [[s.cli EXCEPT !.astray = s.cli.astray \cup lost] EXCEPT !.callbacks = FALSE]
             u == WithCli(s, fields)
  <2>1. lost \subseteq Of(s) /\ conn \in Of(s)
    BY <1>1 DEF OnlyInSock, Sound, PlacesInv
  <2>2. /\ fields \in Clis /\ fields.sock = sock /\ fields.astray = s.cli.astray \cup lost
        /\ fields.conns = s.cli.conns /\ fields.conn = conn /\ fields.state = s.cli.state
        /\ fields.callbacks = FALSE
    <3> HIDE DEF lost
    <3> QED
      BY <1>0, <2>1 DEF Clis
  <2>3. t = AfterConnClose(u, conn)
    BY <1>1 DEF AfterClose
  <2> HIDE DEF fields, lost, u
  <2>4. /\ u \in Places /\ u.cli = fields /\ u.net = s.net /\ u.loop = s.loop /\ Of(u) = Of(s)
        /\ \A m \in Of(s) : IsOpen(u, m) <=> IsOpen(s, m)
    BY <1>0, <2>2, WithCliIs DEF u
  <2>5. PlacesInv(u) /\ \A m \in Of(s) : Over(s, m) <=> Over(u, m)
    BY <2>1, <2>2, <2>4 DEF Sound, PlacesInv, Over
  <2>6. OwnedInv(u)
    BY <2>2, <2>4, <2>5 DEF Sound, PlacesInv, OwnedInv
  <2>7. OnceInv(u)
    BY <1>0, <2>2, <2>4 DEF Sound, PlacesInv, OnceInv, Trying
  <2>8. FoundInv(u)
    BY <2>2, <2>4 DEF Sound, FoundInv
  <2>9. Sound(u) /\ Settled(u) /\ Onwards(s, u)
    BY <1>1, <2>2, <2>4, <2>5, <2>6, <2>7, <2>8 DEF Sound, Settled, Trying, Onwards
  <2>10. /\ Sound(t) /\ Settled(t) /\ Onwards(u, t) /\ Of(t) = Of(s)
         /\ t.loop.deleting = s.loop.deleting /\ t.cli.astray = fields.astray
         /\ \A m \in Of(s) : IsOpen(t, m) => IsOpen(s, m)
         /\ conn \in s.cli.conns => ~IsOpen(t, conn)
    <3> HIDE DEF t
    <3> QED
      BY <2>1, <2>2, <2>3, <2>4, <2>9, ConnClosed
  <2>11. Quiet(t)
    <3> SUFFICES ASSUME NEW m \in Of(s), IsOpen(t, m)
                 PROVE  m \in t.loop.deleting \cup t.cli.astray
      BY <2>10 DEF Quiet
    <3>1. IsOpen(s, m)
      BY <2>10
    <3>2. m # conn
      BY <1>1, <2>1, <2>10, <3>1 DEF Sound, OwnedInv, Over
    <3>3. m = sock => m \in lost \/ m \in s.cli.conns
      BY <1>0, <3>1 DEF lost, OnlyInSock
    <3>4. m \in s.loop.deleting \/ m \in s.cli.astray \/ m \in lost
      BY <3>1, <3>2, <3>3 DEF Sound, FoundInv, OwnedInv
    <3> QED
      BY <3>4, <2>2, <2>10
  <2>12. Onwards(s, t)
    <3> HIDE DEF t
    <3> QED
      BY <2>4, <2>5, <2>9, <2>10 DEF Onwards
  <2> QED
    BY <1>1, <2>10, <2>11, <2>12
<1>2. CASE conn = NoDescriptor /\ sock = NoDescriptor
  <2> DEFINE fields == [s.cli EXCEPT !.callbacks = FALSE]
  <2>1. /\ fields \in Clis /\ fields.sock = sock /\ fields.astray = s.cli.astray
        /\ fields.conns = s.cli.conns /\ fields.conn = conn /\ fields.state = s.cli.state
    BY <1>0 DEF Clis
  <2>2. t = WithCli(s, fields)
    BY <1>2 DEF AfterClose
  <2> HIDE DEF fields, t
  <2>3. /\ t \in Places /\ t.cli = fields /\ t.net = s.net /\ t.loop = s.loop /\ Of(t) = Of(s)
        /\ \A m \in Of(s) : IsOpen(t, m) <=> IsOpen(s, m)
    BY <1>0, <2>1, <2>2, WithCliIs
  <2>4. PlacesInv(t) /\ \A m \in Of(s) : Over(s, m) <=> Over(t, m)
    BY <2>1, <2>3 DEF Sound, PlacesInv, Over
  <2>5. OwnedInv(t)
    BY <2>1, <2>3, <2>4 DEF Sound, PlacesInv, OwnedInv
  <2>6. OnceInv(t)
    BY <1>0, <1>2, <2>1, <2>3 DEF Sound, OnceInv
  <2>7. FoundInv(t)
    BY <2>1, <2>3 DEF Sound, FoundInv
  <2>8. Settled(t) /\ Quiet(t) /\ Onwards(s, t)
    BY <1>0, <1>2, <2>1, <2>3, <2>4 DEF Sound, FoundInv, Settled, Quiet, Onwards
  <2> QED
    BY <2>1, <2>3, <2>4, <2>5, <2>6, <2>7, <2>8 DEF Sound, t
<1>3. CASE conn = NoDescriptor /\ sock # NoDescriptor
  <2> DEFINE lost == {sock} \cap s.cli.conns
             fields == [[s.cli EXCEPT !.sock = NoDescriptor, !.astray = s.cli.astray \cup lost]
                        EXCEPT !.callbacks = FALSE]
             u == WithCli(s, fields)
  <2>1. lost \subseteq Of(s) /\ sock \in Of(s)
    BY <1>0, <1>3 DEF Sound, PlacesInv
  <2>2. /\ fields \in Clis /\ fields.sock = NoDescriptor /\ fields.astray = s.cli.astray \cup lost
        /\ fields.conns = s.cli.conns /\ fields.conn = conn
    <3> HIDE DEF lost
    <3> QED
      BY <1>0, <2>1 DEF Clis, NoDescriptor
  <2>3. t = CloseSocket(u, sock)
    BY <1>3 DEF AfterClose
  <2> HIDE DEF fields, u, t
  <2>4. /\ u \in Places /\ u.cli = fields /\ u.net = s.net /\ u.loop = s.loop /\ Of(u) = Of(s)
        /\ \A m \in Of(s) : IsOpen(u, m) <=> IsOpen(s, m)
    BY <1>0, <2>2, WithCliIs DEF u
  <2>5. /\ t \in Places /\ t.cli = fields /\ Of(t) = Of(s)
        /\ t.net[sock] = IF IsOpen(s, sock) THEN "closed" ELSE "twice"
        /\ \A m \in Of(s) \ {sock} : t.net[m] = s.net[m]
        /\ t.loop.watched = s.loop.watched \ {sock} /\ t.loop.adding = s.loop.adding
        /\ t.loop.deleting = s.loop.deleting
        /\ \A m \in Of(s) \ {sock} : IsOpen(t, m) <=> IsOpen(s, m)
        /\ ~IsOpen(t, sock)
    BY <2>1, <2>3, <2>4, CloseSocketIs
  <2>6. PlacesInv(t)
    BY <2>1, <2>2, <2>5 DEF Sound, PlacesInv
  <2>7. \A m \in Of(s) : Over(s, m) => Over(t, m)
    BY <2>2, <2>5 DEF Over
  <2>8. OwnedInv(t)
    BY <2>2, <2>5, <2>7 DEF Sound, PlacesInv, OwnedInv
  <2>9. OnceInv(t)
    <3>1. IsOpen(s, sock) \/ sock \in s.cli.astray
      BY <1>3 DEF Sound, OnceInv, Trying
    <3>2. \A m \in Of(t) : t.net[m] = "twice" => m \in t.cli.astray
      BY <2>2, <2>5, <3>1 DEF Sound, OnceInv
    <3>3. \A m \in t.cli.conns : IsOpen(t, m) \/ m \in t.cli.astray
      BY <1>0, <2>2, <2>5 DEF Sound, OnceInv
    <3> QED
      BY <2>2, <2>5, <3>2, <3>3 DEF OnceInv
  <2>10. FoundInv(t)
    BY <2>2, <2>5 DEF Sound, FoundInv
  <2>11. Settled(t) /\ Quiet(t) /\ Onwards(s, t)
    BY <1>0, <1>3, <2>2, <2>5, <2>7 DEF Sound, FoundInv, Settled, Quiet, Onwards
  <2> QED
    BY <2>2, <2>5, <2>6, <2>8, <2>9, <2>10, <2>11 DEF Sound, t
<1> QED
  BY <1>1, <1>2, <1>3

\* A refused or failed connect: its socket is closed, and _sock is forgotten.
LEMMA DroppedIs ==
  ASSUME NEW s, Sound(s), NEW n \in Of(s) \ s.cli.conns, IsOpen(s, n)
  PROVE  LET t == CloseSocket(Disconnected(SockForgotten(s, n)), n)
         IN  /\ Sound(t) /\ Settled(t) /\ Onwards(s, t) /\ (Quiet(s) => Quiet(t))
             /\ ~IsOpen(t, n)
<1> DEFINE lost == OnlyInSock(s) \ {n}
           fields == [s.cli EXCEPT !.sock = NoDescriptor, !.astray = s.cli.astray \cup lost]
           f == SockForgotten(s, n)
           fields2 == [f.cli EXCEPT !.state = "disconnected"]
           u == Disconnected(f)
           t == CloseSocket(u, n)
<1>0. s \in Places /\ s.cli \in Clis /\ Of(s) \subseteq Nat /\ NoDescriptor \notin Of(s)
      /\ s.cli.conns \subseteq Of(s)
  BY OfIs DEF Sound, PlacesInv, Places
<1>1. lost \subseteq Of(s)
  BY DEF OnlyInSock, Sound, PlacesInv
<1>2. /\ fields \in Clis /\ fields.sock = NoDescriptor /\ fields.astray = s.cli.astray \cup lost
      /\ fields.conns = s.cli.conns /\ fields.conn = s.cli.conn
      /\ fields.callbacks = s.cli.callbacks
  <2> HIDE DEF lost
  <2> QED
    BY <1>0, <1>1 DEF Clis, NoDescriptor
<1>3. f = WithCli(s, fields)
  BY DEF SockForgotten
<1> HIDE DEF fields, lost, f
<1>4. /\ f \in Places /\ f.cli = fields /\ Of(f) = Of(s) /\ f.net = s.net /\ f.loop = s.loop
      /\ \A m \in Of(s) : IsOpen(f, m) <=> IsOpen(s, m)
  BY <1>0, <1>2, <1>3, WithCliIs
<1>5. /\ fields2 \in Clis /\ fields2.sock = NoDescriptor /\ fields2.astray = s.cli.astray \cup lost
      /\ fields2.conns = s.cli.conns /\ fields2.conn = s.cli.conn
      /\ fields2.callbacks = s.cli.callbacks
  BY <1>2, <1>4 DEF Clis, States
<1>6. u = WithCli(f, fields2)
  BY DEF Disconnected
<1> HIDE DEF fields2, u
<1>7. /\ u \in Places /\ u.cli = fields2 /\ Of(u) = Of(s) /\ u.net = s.net /\ u.loop = s.loop
      /\ \A m \in Of(s) : IsOpen(u, m) <=> IsOpen(s, m)
  BY <1>4, <1>5, <1>6, WithCliIs
<1> HIDE DEF t
<1>8. /\ t \in Places /\ t.cli = fields2 /\ Of(t) = Of(s) /\ t.net[n] = "closed"
      /\ \A m \in Of(s) \ {n} : t.net[m] = s.net[m]
      /\ t.loop.watched = s.loop.watched \ {n} /\ t.loop.adding = s.loop.adding
      /\ t.loop.deleting = s.loop.deleting
      /\ \A m \in Of(s) \ {n} : IsOpen(t, m) <=> IsOpen(s, m)
      /\ ~IsOpen(t, n)
  BY <1>7, CloseSocketIs DEF t
<1>9. PlacesInv(t)
  BY <1>1, <1>5, <1>8 DEF Sound, PlacesInv
<1>10. \A m \in Of(s) : Over(s, m) => Over(t, m)
  BY <1>5, <1>8 DEF Over
<1>11. OwnedInv(t)
  BY <1>5, <1>8, <1>10 DEF Sound, PlacesInv, OwnedInv
<1>12. OnceInv(t)
  BY <1>0, <1>5, <1>8 DEF Sound, OnceInv
<1>13. FoundInv(t)
  <2> SUFFICES ASSUME NEW m \in Of(s) \ {n}, IsOpen(s, m)
               PROVE  /\ m = t.cli.conn \/ m \in t.loop.deleting \/ m \in t.cli.astray
                      /\ m \in t.loop.watched \cup t.loop.adding \/ t.net[m] = "idle"
    BY <1>8 DEF FoundInv
  <2>1. m = s.cli.sock => m \in lost \/ m \in s.cli.conns
    BY <1>0 DEF lost, OnlyInSock
  <2>2. m = s.cli.conn \/ m \in s.loop.deleting \/ m \in s.cli.astray \/ m \in lost
    BY <2>1 DEF Sound, FoundInv, OwnedInv
  <2>3. m \in s.loop.watched \cup s.loop.adding \/ s.net[m] = "idle"
    BY DEF Sound, FoundInv
  <2> QED
    BY <2>2, <2>3, <1>5, <1>8
<1>14. Settled(t) /\ (Quiet(s) => Quiet(t)) /\ Onwards(s, t)
  BY <1>0, <1>5, <1>8, <1>10 DEF Settled, Quiet, Onwards
<1> QED
  BY <1>8, <1>9, <1>11, <1>12, <1>13, <1>14 DEF Sound, t, u, f

-----------------------------------------------------------------------------
(* TcpClient: what the callbacks were told, and the theorem.               *)

\* Whatever was told of is a connection or closed; of the connection the client has
\* nothing was told but that it is established.
HeardInv ==
    /\ heard \in Seq(Told)
    /\ \A i \in DOMAIN heard : heard[i][2] \in Of(Now) /\ Over(Now, heard[i][2])
    /\ cli.conn \in cli.conns =>
          \A i \in DOMAIN heard : heard[i][2] = cli.conn => heard[i][1] = "established"
    /\ OneEnd

ClientInv == Sound(Now) /\ Settled(Now) /\ Quiet(Now) /\ HeardInv

\* what a step leaves to HeardInv
Carries(r) ==
    /\ Of(Now) \subseteq Of(r)
    /\ \A n \in Of(Now) : Over(Now, n) => Over(r, n)
    /\ r.cli.conn \in r.cli.conns => r.cli.conn = cli.conn /\ cli.conn \in cli.conns

LEMMA NowIs == Now.cli = cli /\ Now.net = net /\ Now.loop = loop /\ Of(Now) = Attempts
BY DEF Now, Of, Attempts

LEMMA BecomesNow ==
  ASSUME NEW r \in Places, Become(r)
  PROVE  Now' = r
BY DEF Become, Now, Places

LEMMA InvGivesAttemptsEnd == ClientInv => AttemptsEnd
<1> SUFFICES ASSUME ClientInv
             PROVE  AttemptsEnd
  OBVIOUS
<1>1. NoSocketLeaks /\ StillHeard
  BY NowIs DEF ClientInv, Sound, FoundInv, NoSocketLeaks, StillHeard, OpenNow
<1>2. ClosedForGood
  BY NowIs DEF ClientInv, Quiet, ClosedForGood, OpenNow
<1>3. ClosedOnce
  BY NowIs DEF ClientInv, Sound, OnceInv, ClosedOnce
<1> QED
  BY <1>1, <1>2, <1>3 DEF ClientInv, HeardInv, AttemptsEnd

LEMMA OnwardsCarries ==
  ASSUME NEW r, Onwards(Now, r)
  PROVE  Carries(r)
BY NowIs DEF Onwards, Carries

LEMMA NothingTold ==
  ASSUME HeardInv, Carries(Now'), UNCHANGED heard
  PROVE  HeardInv'
<1>1. cli' = (Now').cli
  BY DEF Now
<1> QED
  BY <1>1 DEF HeardInv, Carries, OneEnd

\* An attempt is told of as ended.
LEMMA EndTold ==
  ASSUME HeardInv, Carries(Now'), NEW to \in BOOLEAN, NEW e \in {"error", "closed"},
         NEW n \in Of(Now), n \in Nat, TellUser(to, e, n), Over(Now', n),
         ~(n = cli'.conn /\ n \in cli'.conns),
         \A i \in DOMAIN heard : heard[i][2] = n => heard[i][1] = "established"
  PROVE  HeardInv'
<1>1. CASE ~to
  BY <1>1, NothingTold DEF TellUser
<1>2. CASE to
  <2> DEFINE h == Append(heard, <<e, n>>)
             l == Len(heard) + 1
  <2>1. heard' = h /\ heard \in Seq(Told) /\ <<e, n>> \in Told
    BY <1>2 DEF TellUser, HeardInv, Told
  <2>2. /\ h \in Seq(Told) /\ DOMAIN heard = 1..Len(heard) /\ DOMAIN h = 1..l /\ Len(heard) \in Nat
        /\ \A i \in DOMAIN heard : h[i] = heard[i]
        /\ h[l] = <<e, n>>
    <3> HIDE DEF l
    <3> QED
      BY <2>1 DEF l
  <2>3. DOMAIN h = DOMAIN heard \cup {l} /\ \A i \in DOMAIN heard : i < l
    BY <2>2
  <2>4. h[l][1] = e /\ h[l][2] = n /\ e # "established"
    BY <2>2
  <2>5. cli' = (Now').cli
    BY DEF Now
  <2> HIDE DEF h, l
  <2>6. \A i \in DOMAIN h : h[i][2] \in Of(Now') /\ Over(Now', h[i][2])
    BY <2>2, <2>3, <2>4 DEF HeardInv, Carries
  <2>7. cli'.conn \in cli'.conns =>
            \A i \in DOMAIN h : h[i][2] = cli'.conn => h[i][1] = "established"
    BY <2>2, <2>3, <2>4, <2>5 DEF HeardInv, Carries
  <2>8. \A i, j \in DOMAIN h :
            i < j /\ h[i][2] = h[j][2] => h[i][1] = "established" /\ h[j][1] # "established"
    <3> SUFFICES ASSUME NEW i \in DOMAIN h, NEW j \in DOMAIN h, i < j, h[i][2] = h[j][2]
                 PROVE  h[i][1] = "established" /\ h[j][1] # "established"
      OBVIOUS
    <3>0. i \in Nat /\ j \in Nat /\ l \in Nat
      BY <2>2 DEF l
    <3>1. i \in DOMAIN heard
      BY <2>2, <2>3, <3>0 DEF l
    <3>2. CASE j = l
      BY <2>2, <2>4, <3>1, <3>2
    <3>3. CASE j \in DOMAIN heard
      BY <2>2, <3>1, <3>3 DEF HeardInv, OneEnd
    <3> QED
      BY <2>3, <3>2, <3>3
  <2> QED
    BY <2>1, <2>2, <2>6, <2>7, <2>8 DEF HeardInv, OneEnd
<1> QED
  BY <1>1, <1>2

LEMMA InitClientInv == ClientInit => ClientInv
<1> SUFFICES ASSUME ClientInit
             PROVE  ClientInv
  OBVIOUS
<1>1. Of(Now) = {}
  BY NowIs DEF ClientInit, Attempts
<1>2. Now \in Places
  BY DEF ClientInit, Now, Places, Clis, Loops, States, NoDescriptor
<1>3. Sound(Now)
  BY <1>1, <1>2, NowIs DEF ClientInit, Sound, PlacesInv, OwnedInv, OnceInv, FoundInv, NoDescriptor
<1>4. Settled(Now) /\ Quiet(Now)
  BY <1>1, NowIs DEF ClientInit, Settled, Quiet
<1>5. heard = <<>> /\ cli.conns = {}
  BY DEF ClientInit
<1>6. HeardInv
  BY <1>5 DEF HeardInv, OneEnd
<1> QED
  BY <1>3, <1>4, <1>6 DEF ClientInv

\* What the invariant says of the fields.
LEMMA InvGives ==
  ASSUME ClientInv
  PROVE  /\ Now \in Places /\ cli \in Clis /\ loop \in Loops /\ net \in Seq(Nets)
         /\ Of(Now) \subseteq Nat /\ NoDescriptor \notin Of(Now)
         /\ cli.conns \subseteq Of(Now) /\ cli.astray \subseteq Of(Now)
         /\ loop.watched \subseteq Of(Now) /\ loop.adding \subseteq Of(Now)
         /\ loop.deleting \subseteq Of(Now)
         /\ cli.conn # NoDescriptor => cli.conn \in Of(Now)
         /\ cli.sock # NoDescriptor => cli.sock \in Of(Now)
         /\ cli.callbacks \in BOOLEAN
BY OfIs, NowIs DEF ClientInv, Sound, PlacesInv, Places, Clis

\* A call that only closes or starts.
LEMMA QuietStep ==
  ASSUME ClientInv, NEW r, Become(r), UNCHANGED heard,
         Sound(r), Settled(r), Quiet(r), Onwards(Now, r)
  PROVE  ClientInv'
<1>1. Now' = r
  BY BecomesNow DEF Sound, PlacesInv
<1>2. HeardInv'
  BY <1>1, NothingTold, OnwardsCarries DEF ClientInv
<1> QED
  BY <1>1, <1>2 DEF ClientInv

LEMMA StartConnectKeeps ==
  ASSUME ClientInv, NEW onLoop \in BOOLEAN, NEW result \in DOMAIN NetOf,
         StartConnect(onLoop, result)
  PROVE  ClientInv'
BY Started, QuietStep DEF StartConnect, ClientInv

LEMMA CloseClientKeeps ==
  ASSUME ClientInv, CloseClient
  PROVE  ClientInv'
BY Closed, QuietStep DEF CloseClient, ClientInv

LEMMA AddEventTaskKeeps ==
  ASSUME ClientInv, NEW n \in Attempts, AddEventTask(n)
  PROVE  ClientInv'
<1> DEFINE r == Now'
<1>0. n \in loop.adding /\ cli' = cli /\ net' = net /\ heard' = heard
  BY DEF AddEventTask
<1>1. /\ loop' \in Loops /\ loop'.adding = loop.adding \ {n} /\ loop'.deleting = loop.deleting
      /\ loop'.watched = IF IsOpen(Now, n) THEN loop.watched \cup {n} ELSE loop.watched
  BY InvGives, NowIs DEF AddEventTask, Loops
<1>2. r = [cli |-> cli, net |-> net, loop |-> loop']
  BY <1>0 DEF Now
<1> HIDE DEF r
<1>3. /\ r \in Places /\ r.cli = cli /\ r.net = net /\ r.loop = loop' /\ Of(r) = Of(Now)
      /\ \A m \in Of(Now) : IsOpen(r, m) <=> IsOpen(Now, m)
      /\ \A m \in Of(Now) : Over(r, m) <=> Over(Now, m)
  BY <1>1, <1>2, InvGives, NowIs DEF Places, Of, IsOpen, Over
<1>4. n \in Of(Now)
  BY NowIs
<1>5. PlacesInv(r)
  BY <1>1, <1>3, <1>4, InvGives, NowIs DEF PlacesInv
<1>6. OwnedInv(r)
  BY <1>1, <1>3, InvGives, NowIs DEF ClientInv, Sound, OwnedInv
<1>7. OnceInv(r)
  BY <1>3, InvGives, NowIs DEF ClientInv, Sound, OnceInv, Trying
<1>8. FoundInv(r)
  BY <1>1, <1>3, NowIs DEF ClientInv, Sound, FoundInv
<1>9. Settled(r) /\ Quiet(r)
  BY <1>1, <1>3, NowIs DEF ClientInv, Settled, Trying, Quiet
<1>10. HeardInv'
  <2>1. Carries(Now')
    BY <1>3, NowIs DEF Carries, r
  <2> QED
    BY <1>0, <2>1, NothingTold DEF ClientInv
<1> QED
  BY <1>5, <1>6, <1>7, <1>8, <1>9, <1>10 DEF ClientInv, Sound, r

LEMMA AnsweredKeeps ==
  ASSUME ClientInv, NEW n \in Attempts, NEW how \in {"up", "self", "refused", "failed"},
         Answered(n, how)
  PROVE  ClientInv'
<1> DEFINE r == Now'
<1>0. net[n] = "connecting" /\ cli' = cli /\ loop' = loop /\ heard' = heard /\ how \in Nets
  BY DEF Answered, Nets
<1>1. /\ net' \in Seq(Nets) /\ DOMAIN net' = DOMAIN net /\ net'[n] = how
      /\ \A m \in Attempts \ {n} : net'[m] = net[m]
  BY <1>0, InvGives DEF Answered, Attempts
<1>2. r = [cli |-> cli, net |-> net', loop |-> loop]
  BY <1>0 DEF Now
<1> HIDE DEF r
<1>3. /\ r \in Places /\ r.cli = cli /\ r.net = net' /\ r.loop = loop /\ Of(r) = Of(Now)
  BY <1>1, <1>2, InvGives, NowIs DEF Places, Of, Attempts
<1>4. /\ \A m \in Of(Now) : IsOpen(r, m) <=> IsOpen(Now, m)
      /\ \A m \in Of(Now) : Over(r, m) <=> Over(Now, m)
  BY <1>0, <1>1, <1>3, NowIs DEF IsOpen, Over
<1>5. PlacesInv(r)
  BY <1>3, InvGives, NowIs DEF PlacesInv
<1>6. OwnedInv(r)
  BY <1>3, <1>4, InvGives, NowIs DEF ClientInv, Sound, OwnedInv
<1>7. OnceInv(r)
  <2>1. \A m \in Of(r) : r.net[m] = "twice" => m \in r.cli.astray
    BY <1>1, <1>3, NowIs DEF ClientInv, Sound, OnceInv
  <2> QED
    BY <2>1, <1>3, <1>4, InvGives, NowIs DEF ClientInv, Sound, OnceInv, Trying
<1>8. FoundInv(r)
  BY <1>0, <1>1, <1>3, <1>4, NowIs DEF ClientInv, Sound, FoundInv
<1>9. Settled(r) /\ Quiet(r)
  BY <1>3, <1>4, NowIs DEF ClientInv, Settled, Trying, Quiet
<1>10. HeardInv'
  <2>1. Carries(Now')
    BY <1>3, <1>4, NowIs DEF Carries, r
  <2> QED
    BY <1>0, <2>1, NothingTold DEF ClientInv
<1> QED
  BY <1>5, <1>6, <1>7, <1>8, <1>9, <1>10 DEF ClientInv, Sound, r

\* What is watched, open and not a connection was not told of.
LEMMA Untold ==
  ASSUME ClientInv, NEW n \in Attempts, n \notin cli.conns, IsOpen(Now, n)
  PROVE  /\ \A i \in DOMAIN heard : heard[i][2] # n
         /\ n \in Of(Now) /\ n \in Nat /\ n # NoDescriptor
BY InvGives, NowIs DEF ClientInv, HeardInv, Over

LEMMA DroppedKeeps ==
  ASSUME ClientInv, NEW n \in Attempts, n \notin cli.conns, IsOpen(Now, n), Dropped(n),
         NEW e \in {"error", "closed"}, TellUser(cli.callbacks, e, n)
  PROVE  ClientInv'
<1> DEFINE r == CloseSocket(Disconnected(SockForgotten(Now, n)), n)
<1>1. Sound(r) /\ Settled(r) /\ Onwards(Now, r) /\ Quiet(r) /\ ~IsOpen(r, n)
  BY DroppedIs, NowIs DEF ClientInv
<1>2. Now' = r
  BY <1>1, BecomesNow DEF Dropped, Sound, PlacesInv
<1> HIDE DEF r
<1>3. Carries(Now') /\ Over(Now', n) /\ n \notin cli'.conns
  <2>1. cli'.conns = r.cli.conns
    BY <1>2 DEF Now
  <2> QED
    BY <1>1, <1>2, <2>1, OnwardsCarries, NowIs DEF Over, Onwards
<1>4. HeardInv'
  BY <1>3, EndTold, Untold, InvGives DEF ClientInv
<1> QED
  BY <1>1, <1>2, <1>4 DEF ClientInv

LEMMA PeerEndsKeeps ==
  ASSUME ClientInv, NEW c \in Attempts, PeerEnds(c)
  PROVE  ClientInv'
<1> DEFINE r == AfterConnClose(Now, c)
<1>0. c \in cli.conns /\ c = cli.conn /\ Become(r) /\ TellUser(cli.callbacks, "closed", c)
  BY DEF PeerEnds
<1>1. /\ Sound(r) /\ Settled(r) /\ Onwards(Now, r) /\ Quiet(r)
      /\ r.cli.conns = cli.conns \ {c} /\ ~IsOpen(r, c)
  BY <1>0, ConnClosed, NowIs DEF ClientInv
<1> HIDE DEF r
<1>2. Now' = r
  BY <1>0, <1>1, BecomesNow DEF Sound, PlacesInv
<1>3. Carries(Now') /\ Over(Now', c) /\ c \notin cli'.conns
  <2>1. cli'.conns = r.cli.conns
    BY <1>2 DEF Now
  <2> QED
    BY <1>1, <1>2, <2>1, OnwardsCarries DEF Over
<1>4. \A i \in DOMAIN heard : heard[i][2] = c => heard[i][1] = "established"
  BY <1>0 DEF ClientInv, HeardInv
<1>5. HeardInv'
  BY <1>0, <1>3, <1>4, EndTold, InvGives DEF ClientInv
<1> QED
  BY <1>1, <1>2, <1>5 DEF ClientInv

LEMMA DeleteTaskKeeps ==
  ASSUME ClientInv, NEW c \in Attempts, DeleteTask(c)
  PROVE  ClientInv'
<1> DEFINE s == AfterConnClose(Now, c)
           r == Now'
<1>0. c \in loop.deleting /\ heard' = heard
  BY DEF DeleteTask
<1>1. /\ Sound(s) /\ Settled(s) /\ Onwards(Now, s) /\ Quiet(s) /\ Of(s) = Of(Now)
      /\ s.cli.conns = cli.conns \ {c} /\ (c \in cli.conns => ~IsOpen(s, c))
      /\ \A m \in Of(Now) : IsOpen(s, m) => IsOpen(Now, m)
  BY ConnClosed, NowIs DEF ClientInv
<1>2. ~IsOpen(s, c)
  BY <1>0, <1>1, NowIs DEF ClientInv, Sound, OwnedInv, Over
<1>3. cli' = s.cli /\ net' = s.net /\ loop' = [s.loop EXCEPT !.deleting = s.loop.deleting \ {c}]
  BY DEF DeleteTask
<1> HIDE DEF s
<1>4. s \in Places /\ s.loop \in Loops
  BY <1>1 DEF Sound, PlacesInv, Places
<1>5. /\ loop' \in Loops /\ loop'.watched = s.loop.watched /\ loop'.adding = s.loop.adding
      /\ loop'.deleting = s.loop.deleting \ {c}
  BY <1>3, <1>4 DEF Loops
<1>6. r = [cli |-> s.cli, net |-> s.net, loop |-> loop']
  BY <1>3 DEF Now
<1> HIDE DEF r
<1>7. /\ r \in Places /\ r.cli = s.cli /\ r.net = s.net /\ r.loop = loop' /\ Of(r) = Of(s)
      /\ \A m \in Of(s) : IsOpen(r, m) <=> IsOpen(s, m)
      /\ \A m \in Of(s) : Over(r, m) <=> Over(s, m)
  BY <1>4, <1>5, <1>6 DEF Places, Of, IsOpen, Over
<1>8. PlacesInv(r)
  BY <1>1, <1>5, <1>7 DEF Sound, PlacesInv
<1>9. OwnedInv(r)
  BY <1>1, <1>5, <1>7 DEF Sound, PlacesInv, OwnedInv
<1>10. OnceInv(r)
  BY <1>1, <1>7 DEF Sound, PlacesInv, OnceInv, Trying
<1>11. FoundInv(r)
  BY <1>1, <1>2, <1>5, <1>7 DEF Sound, FoundInv
<1>12. Settled(r) /\ Quiet(r)
  BY <1>1, <1>2, <1>5, <1>7 DEF Settled, Trying, Quiet
<1>13. HeardInv'
  <2>1. Carries(s)
    BY <1>1, OnwardsCarries
  <2>2. Carries(Now')
    BY <1>7, <2>1, NowIs, <1>1 DEF Carries, r
  <2> QED
    BY <1>0, <2>2, NothingTold DEF ClientInv
<1> QED
  BY <1>8, <1>9, <1>10, <1>11, <1>12, <1>13 DEF ClientInv, Sound, r

\* A connection of the client's own takes the place of the former one, which is let go of.
LEMMA HandleWriteKeeps ==
  ASSUME ClientInv, NEW n \in Attempts, HandleWrite(n)
  PROVE  ClientInv'
<1> DEFINE r == Now'
           old == {cli.conn} \ {NoDescriptor}
<1>0. /\ n \notin cli.conns /\ net[n] = "up" /\ net' = net /\ n \in loop.watched
      /\ TellUser(cli.callbacks, "established", n)
  BY DEF HandleWrite
<1>1. IsOpen(Now, n)
  BY <1>0, NowIs DEF IsOpen
<1>2. (\A i \in DOMAIN heard : heard[i][2] # n) /\ n \in Of(Now) /\ n \in Nat /\ n # NoDescriptor
  BY <1>0, <1>1, Untold
<1>3. /\ cli' \in Clis /\ cli'.conn = n /\ cli'.conns = cli.conns \cup {n}
      /\ cli'.state = "connected" /\ cli'.sock = cli.sock /\ cli'.astray = cli.astray
      /\ cli'.callbacks = cli.callbacks
  <2>1. cli' = [cli EXCEPT !.conn = n, !.conns = cli.conns \cup {n}, !.state = "connected"]
    BY DEF HandleWrite
  <2> QED
    BY <1>2, <2>1, InvGives DEF Clis, States
<1>4. /\ loop' \in Loops /\ loop'.watched = loop.watched /\ loop'.adding = loop.adding
      /\ loop'.deleting = loop.deleting \cup old
  <2>1. loop' = [loop EXCEPT !.deleting = loop.deleting \cup old]
    BY DEF HandleWrite, LetGo
  <2>2. old \subseteq Nat
    BY InvGives
  <2> HIDE DEF old
  <2> QED
    BY <2>1, <2>2, InvGives DEF Loops
<1>5. r = [cli |-> cli', net |-> net, loop |-> loop']
  BY <1>0 DEF Now
<1> HIDE DEF r
<1>6. /\ r \in Places /\ r.cli = cli' /\ r.net = net /\ r.loop = loop' /\ Of(r) = Of(Now)
      /\ \A m \in Of(Now) : IsOpen(r, m) <=> IsOpen(Now, m)
  BY <1>3, <1>4, <1>5, InvGives, NowIs DEF Places, Of, IsOpen
<1>7. \A m \in Of(Now) : (Over(Now, m) => Over(r, m)) /\ (Over(r, m) => Over(Now, m) \/ m = n)
  BY <1>3, <1>6, NowIs DEF Over
<1>8. PlacesInv(r)
  BY <1>2, <1>3, <1>4, <1>6, InvGives, NowIs DEF PlacesInv
<1>9. OwnedInv(r)
  <2>1. Over(r, n) /\ r.cli.conn = n
    BY <1>3, <1>6 DEF Over
  <2>2. \A m \in r.loop.deleting : Over(r, m)
    BY <1>4, <1>6, <1>7, InvGives, NowIs DEF ClientInv, Sound, OwnedInv
  <2>3. \A m \in r.cli.conns : m = r.cli.conn \/ m \in r.loop.deleting
    BY <1>3, <1>4, <1>6, InvGives, NowIs DEF ClientInv, Sound, OwnedInv
  <2> QED
    BY <2>1, <2>2, <2>3 DEF OwnedInv
<1>10. OnceInv(r)
  <2>1. ~Trying(r)
    BY <1>2, <1>3, <1>6 DEF Trying
  <2> QED
    BY <1>1, <1>2, <1>3, <1>6, <2>1, InvGives, NowIs DEF ClientInv, Sound, OnceInv
<1>11. FoundInv(r)
  BY <1>2, <1>3, <1>4, <1>6, InvGives, NowIs DEF ClientInv, Sound, FoundInv
<1>12. Settled(r) /\ Quiet(r)
  BY <1>2, <1>3, <1>4, <1>6, NowIs DEF ClientInv, Settled, Trying, Quiet
<1>13. HeardInv'
  <2>1. \A m \in Of(Now) : Over(Now, m) => Over(Now', m)
    BY <1>7 DEF r
  <2>2. Over(Now', n) /\ Of(Now') = Of(Now)
    BY <1>3, <1>6 DEF Over, r
  <2>3. CASE ~cli.callbacks
    <3>1. heard' = heard
      BY <2>3, <1>0 DEF TellUser
    <3> QED
      BY <1>2, <1>3, <2>1, <2>2, <3>1 DEF ClientInv, HeardInv, OneEnd
  <2>4. CASE cli.callbacks
    <3> DEFINE e == <<"established", n>>
               h == Append(heard, e)
               l == Len(heard) + 1
    <3>1. heard' = h /\ heard \in Seq(Told) /\ e \in Told
      BY <1>0, <1>2, <2>4 DEF TellUser, ClientInv, HeardInv, Told
    <3>2. /\ h \in Seq(Told) /\ DOMAIN heard = 1..Len(heard) /\ DOMAIN h = 1..l
          /\ Len(heard) \in Nat /\ \A i \in DOMAIN heard : h[i] = heard[i]
          /\ h[l] = e
      <4> HIDE DEF l, e
      <4> QED
        BY <3>1 DEF l
    <3>3. DOMAIN h = DOMAIN heard \cup {l} /\ (\A i \in DOMAIN heard : i < l) /\ l \in Nat
      BY <3>2
    <3>4. h[l][1] = "established" /\ h[l][2] = n
      BY <3>2
    <3> HIDE DEF h, l, e
    <3>5. \A i \in DOMAIN h : h[i][2] \in Of(Now') /\ Over(Now', h[i][2])
      BY <1>2, <2>1, <2>2, <3>2, <3>3, <3>4 DEF ClientInv, HeardInv
    <3>6. \A i \in DOMAIN h : h[i][2] = n => i = l
      BY <1>2, <3>2, <3>3
    <3>7. \A i, j \in DOMAIN h :
              i < j /\ h[i][2] = h[j][2] => h[i][1] = "established" /\ h[j][1] # "established"
      <4> SUFFICES ASSUME NEW i \in DOMAIN h, NEW j \in DOMAIN h, i < j, h[i][2] = h[j][2]
                   PROVE  h[i][1] = "established" /\ h[j][1] # "established"
        OBVIOUS
      <4>0. i \in Nat /\ j \in Nat /\ i # j
        BY <3>2, <3>3
      <4>1. i \in DOMAIN heard /\ j \in DOMAIN heard
        BY <3>3, <3>4, <3>6, <4>0
      <4> QED
        BY <3>2, <4>1 DEF ClientInv, HeardInv, OneEnd
    <3> QED
      BY <1>3, <3>1, <3>2, <3>4, <3>5, <3>6, <3>7 DEF HeardInv, OneEnd
  <2> QED
    BY <2>3, <2>4
<1> QED
  BY <1>8, <1>9, <1>10, <1>11, <1>12, <1>13 DEF ClientInv, Sound, r

\* A connection to itself exists until it is deleted, and is not the client's.
LEMMA LetGoSelfIs ==
  ASSUME ClientInv, NEW n \in Attempts, n \notin cli.conns, IsOpen(Now, n),
         cli.state = "connecting"
  PROVE  LET s == LetGoSelf(n)
         IN  /\ Sound(s) /\ Quiet(s) /\ Of(s) = Of(Now) /\ s.net = net
             /\ s.cli.conn = NoDescriptor /\ s.cli.callbacks = cli.callbacks
             /\ s.cli.conns = cli.conns \cup {n}
             /\ \A m \in Of(Now) : Over(Now, m) => Over(s, m)
<1> DEFINE s == LetGoSelf(n)
           added == ({cli.conn} \ {NoDescriptor}) \cup {n}
           fields == [cli EXCEPT !.conn = NoDescriptor, !.conns = cli.conns \cup {n},
                                 !.state = "disconnected"]
           loop2 == LetGo(LetGo(loop, cli.conn), n)
<1>0. n \in Of(Now) /\ n \in Nat /\ n # NoDescriptor
  BY Untold
<1>1. /\ fields \in Clis /\ fields.conn = NoDescriptor /\ fields.conns = cli.conns \cup {n}
      /\ fields.sock = cli.sock /\ fields.astray = cli.astray /\ fields.callbacks = cli.callbacks
  BY <1>0, InvGives DEF Clis, States, NoDescriptor
<1>2. /\ loop2 \in Loops /\ loop2.watched = loop.watched /\ loop2.adding = loop.adding
      /\ loop2.deleting = loop.deleting \cup added
  <2>1. loop2 = [[loop EXCEPT !.deleting = loop.deleting \cup ({cli.conn} \ {NoDescriptor})]
                  EXCEPT !.deleting = (loop.deleting \cup ({cli.conn} \ {NoDescriptor}))
                                      \cup ({n} \ {NoDescriptor})]
    BY InvGives DEF LetGo, Loops
  <2>2. {n} \ {NoDescriptor} = {n} /\ added \subseteq Nat
    BY <1>0, InvGives
  <2> QED
    BY <2>1, <2>2, InvGives DEF Loops
<1>3. s = [cli |-> fields, net |-> net, loop |-> loop2]
  BY DEF LetGoSelf
<1> HIDE DEF s, fields, loop2
<1>4. /\ s \in Places /\ s.cli = fields /\ s.net = net /\ s.loop = loop2 /\ Of(s) = Of(Now)
      /\ \A m \in Of(Now) : IsOpen(s, m) <=> IsOpen(Now, m)
  BY <1>1, <1>2, <1>3, InvGives, NowIs DEF Places, Of, IsOpen
<1>5. \A m \in Of(Now) : Over(Now, m) => Over(s, m)
  BY <1>1, <1>4, NowIs DEF Over
<1>6. PlacesInv(s)
  BY <1>0, <1>1, <1>2, <1>4, InvGives, NowIs DEF PlacesInv
<1>7. OwnedInv(s)
  <2>1. Over(s, n)
    BY <1>1, <1>4 DEF Over
  <2>2. \A m \in s.loop.deleting : Over(s, m)
    BY <1>2, <1>4, <1>5, <2>1, InvGives, NowIs DEF ClientInv, Sound, OwnedInv
  <2>3. \A m \in s.cli.conns : m \in s.loop.deleting
    BY <1>0, <1>1, <1>2, <1>4, InvGives, NowIs DEF ClientInv, Sound, OwnedInv
  <2> QED
    BY <1>1, <1>4, <2>2, <2>3 DEF OwnedInv
<1>8. OnceInv(s)
  <2>1. Trying(Now)
    BY NowIs DEF Trying
  <2> QED
    BY <1>1, <1>4, <2>1, InvGives, NowIs DEF ClientInv, Sound, OnceInv
<1>9. FoundInv(s)
  BY <1>1, <1>2, <1>4, InvGives, NowIs DEF ClientInv, Sound, FoundInv
<1>10. Quiet(s)
  BY <1>1, <1>2, <1>4, NowIs DEF ClientInv, Quiet
<1> QED
  BY <1>1, <1>4, <1>5, <1>6, <1>7, <1>8, <1>9, <1>10 DEF Sound, s

\* The error callback, and _sock = -1 after whatever is done in it.
LEMMA HandleWriteSelfKeeps ==
  ASSUME ClientInv, NEW n \in Attempts, HandleWriteSelf(n)
  PROVE  ClientInv'
<1> DEFINE s == LetGoSelf(n)
<1>0. /\ n \notin cli.conns /\ net[n] = "self" /\ cli.state = "connecting"
      /\ TellUser(cli.callbacks, "error", n)
  BY DEF HandleWriteSelf
<1>1. IsOpen(Now, n)
  BY <1>0, NowIs DEF IsOpen
<1>2. /\ Sound(s) /\ Quiet(s) /\ Of(s) = Of(Now) /\ s.cli.conn = NoDescriptor
      /\ s.cli.conns = cli.conns \cup {n}
      /\ \A m \in Of(Now) : Over(Now, m) => Over(s, m)
  BY <1>0, <1>1, LetGoSelfIs
<1>3. PICK u \in InErrorCallback(s) : Become(SockForgotten(u, n))
  BY DEF HandleWriteSelf
<1> HIDE DEF s
<1>4. Sound(u) /\ Onwards(s, u) /\ Quiet(u) /\ u.cli.conns = s.cli.conns
  <2>1. CASE u = s
    BY <1>2, <2>1 DEF Onwards
  <2>2. CASE u = AfterClose(s)
    BY <1>2, <2>2, Closed
  <2>3. CASE \E result \in DOMAIN NetOf : u = AfterStart(s, TRUE, result)
    BY <1>2, <2>3, Started
  <2> QED
    BY <1>3, <2>1, <2>2, <2>3 DEF InErrorCallback
<1> DEFINE r == SockForgotten(u, n)
<1>5. /\ Sound(r) /\ Settled(r) /\ Onwards(u, r) /\ Quiet(r) /\ r.cli.conns = u.cli.conns
  BY <1>2, <1>4, Forgotten
<1> HIDE DEF r
<1>6. Now' = r
  BY <1>3, <1>5, BecomesNow DEF Sound, PlacesInv, r
<1>7. n \in Of(Now) /\ n \in Nat /\ n # NoDescriptor /\ \A i \in DOMAIN heard : heard[i][2] # n
  BY <1>0, <1>1, Untold
<1>8. /\ Of(Now) \subseteq Of(r) /\ r.cli.conn = NoDescriptor
      /\ \A m \in Of(Now) : Over(Now, m) => Over(r, m)
  BY <1>2, <1>4, <1>5 DEF Onwards
<1>9. NoDescriptor \notin r.cli.conns /\ n \in r.cli.conns
  BY <1>2, <1>4, <1>5, InvGives, <1>7
<1>10. Carries(Now') /\ Over(Now', n) /\ ~(n = cli'.conn /\ n \in cli'.conns)
  <2>1. cli'.conn = r.cli.conn
    BY <1>6 DEF Now
  <2> QED
    BY <1>6, <1>7, <1>8, <1>9, <2>1 DEF Carries, Over
<1>11. HeardInv'
  BY <1>0, <1>7, <1>10, EndTold, InvGives DEF ClientInv
<1> QED
  BY <1>5, <1>6, <1>11 DEF ClientInv

LEMMA ClientStepKeeps ==
  ASSUME ClientInv, [ClientNext]_tcpClientVars
  PROVE  ClientInv'
<1>1. ASSUME NEW onLoop \in BOOLEAN, NEW result \in DOMAIN NetOf, StartConnect(onLoop, result)
      PROVE  ClientInv'
  BY <1>1, StartConnectKeeps
<1>2. ASSUME NEW n \in Attempts, NEW how \in {"up", "self", "refused", "failed"}, Answered(n, how)
      PROVE  ClientInv'
  BY <1>2, AnsweredKeeps
<1>3. ASSUME NEW n \in Attempts, HandleHangup(n) \/ HandleError(n)
      PROVE  ClientInv'
  <2>1. /\ n \notin cli.conns /\ IsOpen(Now, n) /\ Dropped(n)
        /\ \E e \in {"error", "closed"} : TellUser(cli.callbacks, e, n)
    BY <1>3, NowIs DEF HandleHangup, HandleError, IsOpen
  <2> QED
    BY <2>1, DroppedKeeps
<1>4. ASSUME NEW n \in Attempts,
             AddEventTask(n) \/ HandleWrite(n) \/ HandleWriteSelf(n) \/ PeerEnds(n) \/ DeleteTask(n)
      PROVE  ClientInv'
  BY <1>4, AddEventTaskKeeps, HandleWriteKeeps, HandleWriteSelfKeeps, PeerEndsKeeps, DeleteTaskKeeps
<1>5. CASE CloseClient
  BY <1>5, CloseClientKeeps
<1>6. CASE UNCHANGED tcpClientVars
  <2>1. Now' = Now /\ heard' = heard /\ cli' = cli
    BY <1>6 DEF tcpClientVars, Now
  <2> QED
    BY <2>1 DEF ClientInv, HeardInv, OneEnd
<1> QED
  BY <1>1, <1>2, <1>3, <1>4, <1>5, <1>6 DEF ClientNext

\* For any number of attempts, begun on the loop or elsewhere, however each ends and
\* whenever the client is closed, also inside the error callback of a connection to
\* itself: an open descriptor is in _sock, the client's connection, or on its way to being
\* deleted, or it is one of those TcpClient loses the number of (`astray': an attempt
\* begun beside another, or in that callback, or left open by a close beside a
\* reconnect), and all but those whose connect failed at once still are watched; nothing
\* is closed twice but what is astray; and each attempt is told of as ended once and last.
THEOREM ClientAttemptsEnd == ClientSpec => []AttemptsEnd
<1>1. ClientInit => ClientInv
  BY InitClientInv
<1>2. ClientInv /\ [ClientNext]_tcpClientVars => ClientInv'
  BY ClientStepKeeps
<1> QED
  BY <1>1, <1>2, InvGivesAttemptsEnd, PTL DEF ClientSpec

=============================================================================
