------------------------------ MODULE Adapters ------------------------------
(***************************************************************************)
(* The part of src/network/sockutil.cpp that chooses an address or a mask  *)
(* among the network adapters, in the order the kernel lists them.  An     *)
(* address is four octets.                                                 *)
(***************************************************************************)
EXTENDS Integers, Sequences, SequencesExt
LOCAL INSTANCE Bitwise

CONSTANTS
    Machine,           \* the adapters a machine may have: a name, an address, a mask
    MaxAdapters        \* bound on their number

VARIABLE adapters      \* the adapters that are up

Loopback == <<127, 0, 0, 1>>
AnyAddress == <<0, 0, 0, 0>>
None == <<255, 255, 255, 255>>       \* INADDR_NONE

\* the B and C classes of private addresses, which end check_ip's search
IsLan(ip) == (ip[1] = 172 /\ ip[2] \in 16..31) \/ (ip[1] = 192 /\ ip[2] = 168)

\* get_local_ip: the first private address, or else the last that is neither the
\* loopback nor any
GetLocalIp(list) ==
    LET usable == SelectSeq(list, LAMBDA a : a.ip \notin {Loopback, AnyAddress})
        lan == SelectSeq(usable, LAMBDA a : IsLan(a.ip))
    IN  CASE usable = <<>> -> Loopback
          [] usable # <<>> /\ lan = <<>> -> usable[Len(usable)].ip
          [] usable # <<>> /\ lan # <<>> -> lan[1].ip

\* get_ifr_ip, get_ifr_name and get_ifr_mask; an address nobody has is "en0"'s
GetIfrIp(list, name) ==
    LET i == SelectInSeq(list, LAMBDA a : a.name = name) IN IF i = 0 THEN <<>> ELSE list[i].ip
GetIfrName(list, ip) ==
    LET i == SelectInSeq(list, LAMBDA a : a.ip = ip) IN IF i = 0 THEN "en0" ELSE list[i].name
GetIfrMask(list, name) ==
    LET i == SelectInSeq(list, LAMBDA a : a.name = name) IN IF i = 0 THEN <<>> ELSE list[i].mask
GetIfrBrdaddr(list, name) ==
    LET i == SelectInSeq(list, LAMBDA a : a.name = name)
    IN  IF i = 0 THEN <<>> ELSE [k \in 1..4 |-> list[i].ip[k] | (255 - list[i].mask[k])]

\* in_same_lan; inet_addr of an empty text is INADDR_NONE
InSameLan(list, myIp, dstIp) ==
    LET text == GetIfrMask(list, GetIfrName(list, myIp))
        mask == IF text = <<>> THEN None ELSE text
    IN  \A k \in 1..4 : (myIp[k] & mask[k]) = (dstIp[k] & mask[k])

\* an adapter comes up (no two have one name)
AdapterUp ==
    /\ Len(adapters) < MaxAdapters
    /\ \E a \in Machine :
         /\ \A i \in DOMAIN adapters : adapters[i].name # a.name
         /\ adapters' = Append(adapters, a)

AdaptersInit == adapters = <<>>
AdaptersNext == AdapterUp
AdaptersSpec == AdaptersInit /\ [][AdaptersNext]_adapters

\* A private address is preferred to any other and any other to the loopback, in
\* whatever order the adapters come up, and an adapter's own address and broadcast
\* address are of its network, as nothing is that differs under the mask.
AdaptersFound ==
    /\ LET local == GetLocalIp(adapters)
           ips == {adapters[i].ip : i \in DOMAIN adapters}
       IN  /\ (\E ip \in ips : IsLan(ip)) <=> IsLan(local)
           /\ ips \subseteq {Loopback, AnyAddress} <=> local = Loopback
    /\ \A i \in DOMAIN adapters :
           LET a == adapters[i]
               own == GetIfrIp(adapters, a.name)
           IN  own = a.ip /\ (\A j \in 1..(i - 1) : adapters[j].ip # a.ip) =>
                 /\ InSameLan(adapters, a.ip, GetIfrBrdaddr(adapters, a.name))
                 /\ \A x \in {0, 1, 255, a.ip[3]} :
                       InSameLan(adapters, a.ip, [a.ip EXCEPT ![3] = x])
                         <=> (a.mask[3] = 0 \/ x = a.ip[3])

=============================================================================
