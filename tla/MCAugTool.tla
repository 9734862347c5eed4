------------------------------ MODULE MCAugTool ------------------------------
(***************************************************************************)
(* Two interfaces, one static and one not; a change that is accepted, one  *)
(* that is stored but leaves no nameserver, one that is rejected half way, *)
(* one of an interface that does not exist; a page shown, a time server.   *)
(***************************************************************************)
EXTENDS AugTool

MCStart ==
  [k \in Keys |->
     CASE k = <<"eth0", "method">> -> "static"
       [] k = <<"eth0", "address">> -> "a1"
       [] k = <<"eth1", "method">> -> "dhcp"
       [] k = <<"eth1", "nameservers">> -> "n1"
       [] k = Ntp -> "s1"
       [] OTHER -> ""]

Set(name, value) == [name |-> name, value |-> value, valid |-> TRUE]
Bad(name) == [name |-> name, value |-> "bad", valid |-> FALSE]
Put(i, members) == [kind |-> "PUT", iface |-> i, members |-> members]
Get(i) == [kind |-> "GET", iface |-> i]
Post(v) == [kind |-> "POST", value |-> v]

MCRequests ==
  { Put("eth0", <<Set("gateway", ""), Set("method", "dhcp")>>),
    Put("eth1", <<Set("nameservers", "")>>),
    Put("eth1", <<Set("method", "static"), Set("address", "a4"), Bad("nameservers")>>),
    Put("eth9", <<>>), Get("eth0"), Post("s2") }
==============================================================================
