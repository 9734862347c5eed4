------------------------------ MODULE CidrList -------------------------------
(***************************************************************************)
(* shared::CIDRList (cidr.cc): networks and excluded networks are added,   *)
(* then next() walks through the addresses that are to be scanned.         *)
(*                                                                         *)
(* Addresses have W bits in place of 32, so a prefix of 31 is W - 1; the   *)
(* address 0 is invalid, as 0.0.0.0 is.  IPv4 only: next() does not look   *)
(* for the next network among IPv6 ones.                                   *)
(***************************************************************************)
EXTENDS Integers, Sequences, FiniteSets

CONSTANTS
  W,             \* bits of an address
  NetworkLists,  \* bound: what is added, in its order
  ExcludeLists   \* bound: what is excluded, in its order

Addresses == 0..(2 ^ W - 1)
Networks == [address : Addresses, prefix : 0..W]

ASSUME CidrListAssumption ==
  /\ W \in Nat \ {0}
  /\ NetworkLists \subseteq Seq(Networks) /\ ExcludeLists \subseteq Seq(Networks)

VARIABLES
  networks, excludedNetworks,   \* the lists: sequences of networks
  given,     \* history: the addresses next() returned
  address,   \* the address of the caller
  last,      \* _last
  stage      \* "next", in a call of next(), or "done", after it returned false
vars == <<networks, excludedNetworks, given, address, last, stage>>

------------------------------------------------------------------------------
(* CIDRAddress *)

Invalid == 0
valid(a) == a # Invalid

Size(net) == 2 ^ (W - net.prefix)
network(net) == (net.address \div Size(net)) * Size(net)
broadcast(net) == network(net) + Size(net) - 1
hostMax(net) == IF net.prefix < W - 1 THEN broadcast(net) - 1 ELSE broadcast(net)
contains(net, a) == valid(a) /\ network(net) <= a /\ a <= broadcast(net)

(* A network is added by its own address, as "1.2.3.0/29" of test-cidr.cc.   *)
ASSUME NetworksAssumption ==
  \A list \in NetworkLists : \A k \in DOMAIN list : list[k].address = network(list[k])

(* The carry out of the highest byte is lost. *)
Increment(a) == IF valid(a) THEN (a + 1) % 2 ^ W ELSE a
Decrement(a) == IF valid(a) THEN a - 1 ELSE a

------------------------------------------------------------------------------
(* CIDRList *)

Elements(list) == {list[k] : k \in DOMAIN list}

(* add and exclude: no invalid network and none twice. *)
Added(list, net) ==
  IF ~valid(net.address) \/ net \in Elements(list) THEN list ELSE Append(list, net)

AllAdded(nets) ==
  LET done[n \in 0..Len(nets)] == IF n = 0 THEN <<>> ELSE Added(done[n - 1], nets[n])
  IN done[Len(nets)]

Least(S) == CHOOSE a \in S : \A b \in S : a <= b
Greatest(S) == CHOOSE a \in S : \A b \in S : b <= a

firstAddress ==
  IF networks = <<>> THEN Invalid ELSE Least({net.address : net \in Elements(networks)})
lastAddress ==
  IF networks = <<>> THEN Invalid ELSE Greatest({hostMax(net) : net \in Elements(networks)})

(* The longest prefix wins, the first in the list among equals. *)
BestFor(list, a) ==
  LET fits == {k \in DOMAIN list : contains(list[k], a)}
  IN list[CHOOSE k \in fits : \A j \in fits :
            list[j].prefix < list[k].prefix \/ (list[j].prefix = list[k].prefix /\ k <= j)]

PrefixFor(list, a) ==
  IF \E net \in Elements(list) : contains(net, a) THEN BestFor(list, a).prefix ELSE -1

(* Mutant: to the next network itself, which the increment then passes. *)
skipToNextPool_Onto(a) ==
  LET ahead == {net.address : net \in Elements(networks)} \cap (a + 1)..(2 ^ W - 1)
  IN IF ahead = {} THEN Invalid ELSE Least(ahead)

(* To just before the next network, or to no address at all. *)
skipToNextPool(a) ==
  LET ahead == {net.address : net \in Elements(networks)} \cap (a + 1)..(2 ^ W - 1)
  IN IF ahead = {} THEN Invalid ELSE Decrement(Least(ahead))

(* Mutant: a network that begins at the address itself counts. *)
NetworksInside_Here(a, end) ==
  {k \in DOMAIN networks : a <= networks[k].address /\ networks[k].address < end}

(* Mutant: a network before the address counts. *)
NetworksInside_Behind(a, end) == {k \in DOMAIN networks : networks[k].address < end}

NetworksInside(a, end) ==
  {k \in DOMAIN networks : a < networks[k].address /\ networks[k].address < end}

(* To the end of the exclusion, or to just before a network inside it.  The  *)
(* list is walked once: a network that begins one before an earlier one is   *)
(* not less than what is selected already.                                   *)
skipToExcludeEnd(a) ==
  LET end == broadcast(BestFor(excludedNetworks, a))
      inside == NetworksInside(a, end)
      selected[n \in 0..Len(networks)] ==
        IF n = 0 THEN end
        ELSE LET s == selected[n - 1]
             IN IF n \in inside /\ (networks[n].address < s \/ ~valid(s))
                THEN Decrement(networks[n].address) ELSE s
  IN selected[Len(networks)]

(* Mutant: the broadcast address is no exception. *)
NetOrBroadcast_NetOnly(a) ==
  LET net == BestFor(networks, a) IN net.prefix < W - 1 /\ a = net.address

NetOrBroadcast(a) ==
  LET net == BestFor(networks, a)
  IN net.prefix < W - 1 /\ a \in {net.address, broadcast(net)}

------------------------------------------------------------------------------
(* _nextSimple: from no address to the first, else to the next, or to none. *)
NextSimple ==
  IF valid(address) THEN (IF Increment(address) > last THEN Invalid ELSE Increment(address))
  ELSE firstAddress

(* One iteration of the loop of next(): it ends with no address, goes on     *)
(* after a skip or a filtered address, or returns; the caller calls again.   *)
Iterate ==
  LET a == NextSimple
      iprefix == PrefixFor(networks, a)
      eprefix == PrefixFor(excludedNetworks, a)
  IN /\ stage = "next"
     /\ last' = IF valid(address) THEN last ELSE lastAddress
     /\ \/ /\ ~valid(a)
           /\ stage' = "done" /\ address' = a
           /\ UNCHANGED given
        \/ /\ valid(a) /\ iprefix = -1
           /\ address' = skipToNextPool(a)
           /\ UNCHANGED <<given, stage>>
        \/ /\ valid(a) /\ iprefix # -1 /\ eprefix > iprefix
           /\ address' = skipToExcludeEnd(a)
           /\ UNCHANGED <<given, stage>>
        \/ /\ valid(a) /\ iprefix # -1 /\ eprefix <= iprefix
           /\ address' = a
           /\ given' = IF NetOrBroadcast(a) THEN given ELSE Append(given, a)
           /\ UNCHANGED stage
  /\ UNCHANGED <<networks, excludedNetworks>>

Done == stage = "done" /\ UNCHANGED vars

(* The caller adds and excludes networks, then calls next() until it returns *)
(* false.                                                                    *)
Init ==
  /\ \E nets \in NetworkLists, excluded \in ExcludeLists :
       networks = AllAdded(nets) /\ excludedNetworks = AllAdded(excluded)
  /\ given = <<>> /\ address = Invalid /\ last = Invalid /\ stage = "next"

Next == Iterate \/ Done

Spec == Init /\ [][Next]_vars /\ WF_vars(Iterate)

------------------------------------------------------------------------------
(* Properties *)

(* Which addresses the list stands for, without walking: those the most      *)
(* specific entry does not exclude, an addition before an exclusion of the   *)
(* same prefix, and no network's own address or broadcast.                   *)
Meant(a) ==
  LET prefixes(list) == {-1} \cup {net.prefix : net \in {n \in Elements(list) : contains(n, a)}}
      best == Greatest(prefixes(networks))
  IN /\ best >= 0 /\ best >= Greatest(prefixes(excludedNetworks))
     /\ best < W - 1 => \A net \in Elements(networks) :
          net.prefix = best /\ contains(net, a) => a \notin {network(net), broadcast(net)}

(* next() "increments the address": the addresses it returns are in order,   *)
(* none twice, and each is in scope and not excluded, whatever the order and *)
(* the overlaps of the networks.                                             *)
WalkIsSound ==
  /\ \A k \in DOMAIN given : Meant(given[k])
  /\ \A j, k \in DOMAIN given : j < k => given[j] < given[k]

(* ... and none is left out that is meant, but for a network inside an       *)
(* exclusion: one that begins at its last address, or right before a network *)
(* that was added earlier.                                                   *)
WalkIsComplete ==
  stage = "done" =>
    \A a \in Addresses \ Elements(given) :
      valid(a) /\ Meant(a) =>
        \E j \in DOMAIN networks, x \in Elements(excludedNetworks) :
          /\ networks[j].address = a /\ contains(x, a)
          /\ a = broadcast(x) \/ \E k \in 1..(j - 1) : networks[k].address = a + 1

(* Each turn of the loop goes on to a higher address, or ends: a skip leads  *)
(* neither back before the address it starts from nor to no address, from    *)
(* which the walk would begin again.                                         *)
WalkAdvances == [][stage' = "done" \/ address < address']_vars

(* "returns true until we are in the address scope": while(list.next(addr))  *)
(* comes to an end, at the highest address too.                              *)
WalkEnds == <>(stage = "done")
==============================================================================
