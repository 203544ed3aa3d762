------------------------------ MODULE Addresses ------------------------------
(***************************************************************************)
(* INetAddress: the ways to make one, its description, which is made when  *)
(* first asked for and kept, and the comparison UdpServer looks sessions   *)
(* up with.                                                                *)
(*                                                                         *)
(* An address is octets in network order; a port, as a host's int of any   *)
(* width, is a number, and as the two octets of sin_port a pair.  Both are *)
(* <<>> when no constructor wrote them.                                    *)
(***************************************************************************)
EXTENDS Integers, Sequences, FiniteSets, SequencesExt

CONSTANTS
    Ips4, Ips6,        \* addresses: sequences of 4 and of 16 octets
    Ports,             \* what users give as ports
    Names              \* domain names and what they resolve to: <<name, ip>>, <<>> for nothing



ASSUME AddressAssumption ==
    /\ Ips4 \subseteq [1..4 -> 0..255] /\ Ips6 \subseteq [1..16 -> 0..255] /\ Ports \subseteq Int
    /\ \A n \in Names : n[2] \in Ips4 \cup {<<>>}
    /\ \A m, n \in Names : m[1] = n[1] => m = n

VARIABLES
    first, second,     \* two objects of the class
    madeFrom           \* history: what each was made from

addressVars == <<first, second, madeFrom>>

\* htons of an int, of which sin_port keeps sixteen bits
NetPort(port) == <<(port % 65536) \div 256, port % 256>>
HostPort(octets) == octets[1] * 256 + octets[2]

\* what uint16_t there is with these octets on a little-endian host
AsStored(octets) == octets[2] * 256 + octets[1]

\* _desc, _ip and _port before genDesc
Undescribed == [made |-> FALSE, ip |-> <<>>, port |-> 0]

Sockaddr(family, ip, port) == [family |-> family, ip |-> ip, port |-> port]

\* the constructors
FromSockaddr(sockaddr) == [addr |-> sockaddr, domain |-> "", told |-> Undescribed]
Invalid == FromSockaddr(Sockaddr("unspecified", <<>>, <<>>))

IsValid(a) == a.addr.family # "unspecified"
IsIP6(a) == a.addr.family = "inet6"

\* fromIp4Port, fromIp6Port: of a text, which may not be an address
FromIp4Port(text, port) ==
    IF text \in Ips4 THEN FromSockaddr(Sockaddr("inet", text, NetPort(port))) ELSE Invalid
FromIp6Port(text, port) ==
    IF text \in Ips6 THEN FromSockaddr(Sockaddr("inet6", text, NetPort(port))) ELSE Invalid

\* of a number: an address in the host's order is swapped
FromIp4PortInHost(octets, port) ==
    FromSockaddr(Sockaddr("inet", Reverse(octets), NetPort(port)))

\* mutant of FromIp4PortInNet: the port is taken to be in the host's order
FromIp4PortInNetSwapped(octets, port) == FromSockaddr(Sockaddr("inet", octets, NetPort(port)))

\* both as they are
FromIp4PortInNet(octets, port) ==
    FromSockaddr(Sockaddr("inet", octets, Reverse(NetPort(port))))

\* fromDomainPort: IPv4 only, and the domain is kept also when it is not found
FromDomainPort(name, port) ==
    LET ip == (CHOOSE n \in Names : n[1] = name)[2]
    IN  [(IF ip = <<>> THEN Invalid ELSE FromSockaddr(Sockaddr("inet", ip, NetPort(port))))
         EXCEPT !.domain = name]

\* getPeerAddress, getSelfAddress: what the kernel has of a socket
OfSocket(sockaddr) == IF sockaddr.family = "unspecified" THEN Invalid ELSE FromSockaddr(sockaddr)

\* genDesc; what has no family is "unspecify:0"
Described(a) ==
    IF a.told.made THEN a
    ELSE [a EXCEPT !.told = [made |-> TRUE, ip |-> a.addr.ip,
                             port |-> IF IsValid(a) THEN HostPort(a.addr.port) ELSE 0]]

\* operator==; two that are not IPv6 are compared as if they were IPv4
Equal(a, b) ==
    /\ IsIP6(a) = IsIP6(b)
    /\ a.addr.port = b.addr.port /\ a.addr.ip = b.addr.ip

-----------------------------------------------------------------------------
Wanted4(ip, port) == [family |-> "inet", ip |-> ip, port |-> port % 65536]
Wanted6(ip, port) == [family |-> "inet6", ip |-> ip, port |-> port % 65536]
WantedNone == [family |-> "unspecified", ip |-> <<>>, port |-> 0]

\* every way to make an address of this ip and port, and what it should be of
Makings(ip, port) ==
    LET none == [of |-> WantedNone, made |-> Invalid]
    IN  IF ip \in Ips4
        THEN LET wanted == Wanted4(ip, port) IN
             {[of |-> wanted, made |-> FromIp4Port(ip, port)],
              [of |-> wanted, made |-> FromIp4PortInHost(Reverse(ip), port)],
              [of |-> wanted, made |-> FromIp4PortInNet(ip, AsStored(NetPort(port)))],
              [of |-> wanted, made |-> OfSocket(Sockaddr("inet", ip, NetPort(port)))],
              [of |-> WantedNone, made |-> FromIp6Port(ip, port)], none}
             \cup {[of |-> IF n[2] = <<>> THEN WantedNone ELSE wanted,
                    made |-> FromDomainPort(n[1], port)] : n \in {m \in Names : m[2] \in {ip, <<>>}}}
        ELSE {[of |-> Wanted6(ip, port), made |-> FromIp6Port(ip, port)],
              [of |-> Wanted6(ip, port), made |-> OfSocket(Sockaddr("inet6", ip, NetPort(port)))],
              [of |-> WantedNone, made |-> FromIp4Port(ip, port)], none}

MakeFirst ==
    \E ip \in Ips4 \cup Ips6, port \in Ports :
        \E m \in Makings(ip, port) :
            /\ first' = m.made /\ madeFrom' = [madeFrom EXCEPT !.first = m.of]
            /\ UNCHANGED second

Describe ==
    \/ first' = Described(first) /\ UNCHANGED <<second, madeFrom>>
    \/ second' = Described(second) /\ UNCHANGED <<first, madeFrom>>

\* the copy has what its original has been told
CopyFirst == second' = first /\ madeFrom' = [madeFrom EXCEPT !.second = madeFrom.first] /\ UNCHANGED first

AddressesInit ==
    first = Invalid /\ second = Invalid /\ madeFrom = [first |-> WantedNone, second |-> WantedNone]

AddressesNext == MakeFirst \/ Describe \/ CopyFirst

AddressesSpec == AddressesInit /\ [][AddressesNext]_addressVars

\* However an address was made, copied and described, in either order of octets, it
\* is described as what it was made from, and two are equal, by which UdpServer
\* finds a peer's session, when and only when they were made from the same.
AddressesAgree ==
    /\ \A side \in {"first", "second"} :
          LET a == IF side = "first" THEN first ELSE second
              d == Described(a).told
          IN  /\ IsValid(a) <=> madeFrom[side].family # "unspecified"
              /\ d.ip = madeFrom[side].ip /\ d.port = madeFrom[side].port
    /\ IsValid(first) /\ IsValid(second) => (Equal(first, second) <=> madeFrom.first = madeFrom.second)

=============================================================================
