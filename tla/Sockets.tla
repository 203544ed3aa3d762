------------------------------- MODULE Sockets -------------------------------
(***************************************************************************)
(* src/network/sockutil.cpp and src/util/SelfIp.cpp: the functions that    *)
(* open a socket, one step per system call, any of which may fail, and the *)
(* cache of resolved names they share.  Threads call them concurrently.    *)
(***************************************************************************)
EXTENDS Integers, Sequences, FiniteSets, FiniteSetsExt, SequencesExt

CONSTANTS
    Threads,           \* callers
    Hosts,             \* addresses the name resolves to, at one time or another
    Expire,            \* expireSec, in units of the clock
    Slow,              \* bound on the time between a resolver's answer and its storing
    MaxTicks           \* bound on the clock

ASSUME SocketsAssumption == {Expire, Slow, MaxTicks} \subseteq Nat

VARIABLES
    opened,            \* descriptors that are open
    doing,             \* per thread: the function it is in, and what it holds
    dns,               \* DnsCache::_mapDns: the record of the name, if there is one
    dnsNow,            \* time(NULL)
    resolves           \* history: what the name resolved to at each time

netVars == <<opened, doing, dns, dnsNow, resolves>>

NoSock == -1
NoHost == "no address"
NoDns == [addr |-> NoHost, made |-> 0]

\* The system calls of each function, in order; "ask" and "store" are left out when
\* the cache has the answer.
Steps ==
    [connect |-> <<"cached", "ask", "store", "socket", "options", "bind", "connect">>,
     listen |-> <<"socket", "options", "bind", "listen">>,
     bindUdpSock |-> <<"socket", "options", "bind">>,
     for_each_netAdapter |-> <<"socket", "ioctl">>,
     get_ifr_mask |-> <<"socket", "ioctl">>,
     get_ifr_brdaddr |-> <<"socket", "ioctl">>,
     getSelfIp |-> <<"socket", "connect", "getsockname">>]

\* the functions that return the socket; the others close it
Openers == {"connect", "listen", "bindUdpSock"}

Idle == [op |-> "none", at |-> 1, sock |-> NoSock, addr |-> NoHost, asked |-> 0]

NextCall(t) == IF doing[t].op = "none" \/ doing[t].at > Len(Steps[doing[t].op]) THEN "done"
           ELSE Steps[doing[t].op][doing[t].at]

Goes(t, c) == doing' = [doing EXCEPT ![t] = c]
Onward(c) == [c EXCEPT !.at = @ + 1]
Back(sock) == [Idle EXCEPT !.sock = sock]

-----------------------------------------------------------------------------
(* DnsCache                                                                *)

\* mutant of RecordExpired: the comparison the other way round
RecordExpiredNot(record) == record.made > dnsNow

RecordExpired(record) == record.made + Expire < dnsNow

\* getCacheDomainIP, under the mutex: a record that has expired is erased
Cached(t) ==
    /\ NextCall(t) = "cached"
    /\ IF dns = NoDns \/ RecordExpired(dns)
       THEN dns' = NoDns /\ Goes(t, Onward(doing[t]))
       ELSE Goes(t, [doing[t] EXCEPT !.at = @ + 3, !.addr = dns.addr, !.asked = dnsNow]) /\ UNCHANGED dns
    /\ UNCHANGED <<opened, dnsNow, resolves>>

\* getSystemDomainIP, without the mutex
Ask(t) ==
    /\ NextCall(t) = "ask"
    /\ \/ Goes(t, [Onward(doing[t]) EXCEPT !.addr = resolves[dnsNow], !.asked = dnsNow])
       \/ Goes(t, Back(NoSock))
    /\ UNCHANGED <<opened, dns, dnsNow, resolves>>

\* setCacheDomainIP, under the mutex
Store(t) ==
    /\ NextCall(t) = "store"
    /\ dns' = [addr |-> doing[t].addr, made |-> dnsNow]
    /\ Goes(t, Onward(doing[t]))
    /\ UNCHANGED <<opened, dnsNow, resolves>>

\* time passes, and the name may come to resolve to another address
ClockTicks ==
    /\ dnsNow < MaxTicks
    /\ \A t \in Threads : NextCall(t) = "store" => dnsNow < doing[t].asked + Slow
    /\ dnsNow' = dnsNow + 1
    /\ \E h \in Hosts : resolves' = Append(resolves, h)
    /\ UNCHANGED <<opened, doing, dns>>

-----------------------------------------------------------------------------
(* Opening sockets                                                         *)

\* the lowest descriptor that is free, above the three standard ones
FreeSock == Min((3..(3 + Cardinality(opened))) \ opened)

Begin(t) ==
    /\ doing[t] = Idle
    /\ \E op \in DOMAIN Steps : Goes(t, [Idle EXCEPT !.op = op])
    /\ UNCHANGED <<opened, dns, dnsNow, resolves>>

Socket(t) ==
    /\ NextCall(t) = "socket"
    /\ \/ /\ opened' = opened \cup {FreeSock}
          /\ Goes(t, [Onward(doing[t]) EXCEPT !.sock = FreeSock])
       \/ /\ Goes(t, Back(NoSock))
          /\ UNCHANGED opened
    /\ UNCHANGED <<dns, dnsNow, resolves>>

\* mutant of FailsAt: a socket that could not be bound is forgotten
FailsAtBindForgets(t) ==
    /\ Goes(t, Back(NoSock))
    /\ opened' = IF NextCall(t) = "bind" THEN opened ELSE opened \ {doing[t].sock}

\* what every function does when a call after socket() fails
FailsAt(t) == Goes(t, Back(NoSock)) /\ opened' = opened \ {doing[t].sock}

\* The last call returns the socket, or closes it when only its answer was wanted.
AtLast(t) == doing[t].at = Len(Steps[doing[t].op])
SucceedsAt(t) ==
    IF ~AtLast(t) THEN Goes(t, Onward(doing[t])) /\ UNCHANGED opened
    ELSE IF doing[t].op \in Openers THEN Goes(t, Back(doing[t].sock)) /\ UNCHANGED opened
    ELSE Goes(t, Back(NoSock)) /\ opened' = opened \ {doing[t].sock}

\* a call on the socket; the results of setsockopt and of FIONBIO are not looked at,
\* and a connect under way (EINPROGRESS, as UV_EAGAIN) is a success
OnSocket(t) ==
    /\ NextCall(t) \in {"options", "bind", "connect", "listen", "ioctl", "getsockname"}
    /\ SucceedsAt(t) \/ (NextCall(t) # "options" /\ FailsAt(t))
    /\ UNCHANGED <<dns, dnsNow, resolves>>

\* the caller is done with what it got
Release(t) ==
    /\ doing[t].op = "none" /\ doing[t] # Idle
    /\ opened' = opened \ {doing[t].sock}
    /\ Goes(t, Idle)
    /\ UNCHANGED <<dns, dnsNow, resolves>>

-----------------------------------------------------------------------------
NetInit ==
    /\ opened = {} /\ doing = [t \in Threads |-> Idle]
    /\ dns = NoDns /\ dnsNow = 1
    /\ \E h \in Hosts : resolves = <<h>>

NetNext ==
    \/ \E t \in Threads : \/ Begin(t) \/ Cached(t) \/ Ask(t) \/ Store(t)
                          \/ Socket(t) \/ OnSocket(t) \/ Release(t)
    \/ ClockTicks

NetSpec == NetInit /\ [][NetNext]_netVars

\* Whatever call fails, in whatever order the threads go on, the sockets that are
\* open are those the functions returned or are still working on, each of one
\* thread: none is left open behind an error, and none is closed under another.
SocketsAccounted ==
    /\ opened = {doing[t].sock : t \in Threads} \ {NoSock}
    /\ \A t, u \in Threads : t # u /\ doing[t].sock = doing[u].sock => doing[t].sock = NoSock

\* The address a connection is about to be made to is one the name had, when the
\* cache or the system was asked, not longer ago than a record lives and a thread
\* takes to store it: although the cache is not locked while a thread asks the
\* system, an old answer does not stay for longer by being stored last.
AddressesFresh ==
    \A t \in Threads :
        NextCall(t) = "socket" /\ doing[t].op = "connect" =>
            \E i \in DOMAIN resolves :
                resolves[i] = doing[t].addr /\ i + Slow + Expire >= doing[t].asked

=============================================================================
