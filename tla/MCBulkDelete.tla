---------------------------- MODULE MCBulkDelete -----------------------------
(***************************************************************************)
(* Small databases for BulkDelete: RC-0 (1), a datacenter (6) that keeps   *)
(* the others from being the last, four assets in every tree, powered in   *)
(* every way, and every selection of them in every order.                  *)
(***************************************************************************)
EXTENDS BulkDelete

At(type, parent, sources) ==
  [type |-> type, status |-> "active", parent |-> parent, name |-> None, groups |-> {},
   sources |-> sources, monitored |-> type \in {"datacenter", "device"}]

NoAsset == [At("vacant", None, {}) EXCEPT !.status = "nonactive"]


MCTypes ==
  { [i \in 2..5 |-> CASE i = 2 -> "datacenter" [] i = 3 -> b [] i = 4 -> c [] i = 5 -> "device"] :
      b \in {"room", "device"}, c \in {"room", "device"} }

MCPower == {[i \in 2..5 |-> {}]} \cup
  { [i \in 2..5 |-> IF i = dest THEN {src} ELSE {}] : src \in {3, 5}, dest \in {4, 5} }

(* RC-0 is powered by 5 in some databases.                                   *)
MCDatabases ==
  { [i \in Ids |-> CASE i = 1 -> At("device", rc, ups)
                     [] i \in 2..5 -> At(types[i], parents[i], power[i])
                     [] i = 6 -> At("datacenter", None, {})
                     [] OTHER -> NoAsset] :
      rc \in {None, 2}, ups \in {{}, {5}}, types \in MCTypes,
      parents \in {p \in [2..5 -> {None, 2, 3, 4}] : \A i \in 2..5 : p[i] = None \/ p[i] < i},
      power \in MCPower }

Sound(d) ==
  /\ d[1].parent = 2 \/ d[1].sources # {} => \A i \in 2..5 : d[i].sources = {}
  /\ d[1].parent = 2 => d[1].sources = {}
  /\ \A i \in 2..5 :
       /\ d[i].parent # None => d[d[i].parent].type \in {"datacenter", "room"}
       /\ i \notin d[i].sources
       /\ \A j \in d[i].sources : d[i].type = "device" /\ d[j].type = "device"

MCSoundDatabases == {d \in MCDatabases : Sound(d)}

(* Assets asked for once, in every order; one of them twice; RC-0; and an    *)
(* asset that is not there.                                                  *)
MCSelections ==
  {s \in UNION {[1..n -> 2..5] : n \in 2..3} : \A j, k \in DOMAIN s : j # k => s[j] # s[k]}
    \cup {<<2, 3, 4, 5>>, <<5, 3, 4, 2>>, <<5, 4, 5>>, <<1, 5>>, <<8, 5, 2>>}
==============================================================================
