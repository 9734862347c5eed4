--------------------------- MODULE MCAssetDocument ---------------------------
(***************************************************************************)
(* Assets for AssetDocument: five kinds, each with every choice of at most *)
(* MaxTags of the keytags below, or some spelt almost like columns of the  *)
(* asset; and a device with a list of eleven.                              *)
(***************************************************************************)
EXTENDS AssetDocument, FiniteSetsExt

CONSTANT MaxTags   \* bound: attributes of an asset

MCTextOrder == <<1, 10, 11, 2, 3, 4, 5, 6, 7, 8, 9>>
MCStripped == [n \in {"Model", "Asset_Tag", "Sub_Type", "Update_TS", "Update_User",
                         "rack controller", "Power Path"} |->
                 CASE n = "Model" -> "model"
                   [] n = "Asset_Tag" -> "asset_tag"
                   [] n = "Sub_Type" -> "sub_type"
                   [] n = "Update_TS" -> "update_ts"
                   [] n = "Update_User" -> "update_user"
                   [] n = "rack controller" -> "rackcontroller"
                   [] n = "Power Path" -> "powerpath"]
MCCut == [s \in {"outlet12"} |-> "outl"]
MCOtherTags == {Plain("serial_no"), Plain("location_type"), Item("ip", 2), Outlet(1, "label")}

ReadWrite ==
  {Item("ip", 1), Item("ip", 2), Item("ip", 10), Item("mac", 2), Outlet(1, "label"),
   Outlet(2, "type"), Outlet(1, "switchable"), Master("switchable"), Master("label"),
   Outlet(0, "label"), Plain("model"), Plain("Model"), Plain("location_type"), Plain("type"),
   Plain("status")}
ReadOnly ==
  {Item("ip", 1), Item("ip", 2), Outlet(1, "label"), Plain("create_mode"),
   Plain("type"), Plain("Model"), Plain("update_user")}

(* A value of its own for each keytag. *)
ValueOf(k) ==
  CASE k = Plain("type") -> "Power Path"
    [] k = Plain("location_type") -> "row"
    [] k.base \in Lists -> <<"a", "b", "c", "d", "e", "f", "g", "h", "i", "j", "k">>[k.index]
    [] k = Outlet(0, "label") -> "all"
    [] OTHER -> "x"

Attributes(rw, ro) ==
  [k \in rw \cup ro |-> [ro |-> k \in ro, value |-> ValueOf(k)]]

Chosen == UNION {kSubset(n, ReadWrite \cup ReadOnly) : n \in 0..MaxTags}
Exts == UNION {{Attributes(s \ r, r) : r \in {q \in SUBSET (s \cap ReadOnly) : s \ q \subseteq ReadWrite}}
               : s \in Chosen}

Kinds ==
  { [type |-> "device", subtype |-> "ups", located |-> TRUE, tag |-> "t", groups |-> {"g1", "g2"},
     links |-> {[source |-> "p1", socket |-> ""], [source |-> "p2", socket |-> "outlet12"]}],
    [type |-> "device", subtype |-> "rack controller", located |-> FALSE, tag |-> "",
     groups |-> {}, links |-> {[source |-> "p1", socket |-> "A1"]}],
    [type |-> "device", subtype |-> "N_A", located |-> FALSE, tag |-> "", groups |-> {},
     links |-> {}],
    [type |-> "rack", subtype |-> "N_A", located |-> TRUE, tag |-> "t", groups |-> {"g1"},
     links |-> {}],
    [type |-> "group", subtype |-> "N_A", located |-> FALSE, tag |-> "", groups |-> {},
     links |-> {}] }

With(a, e) ==
  [type |-> a.type, subtype |-> a.subtype, located |-> a.located, tag |-> a.tag,
   groups |-> a.groups, links |-> a.links, ext |-> e]

(* Attributes that are taken for columns of the asset, or for another. *)
Mimicking ==
  SUBSET {Plain("Asset_Tag"), Plain("Sub_Type"), Plain("type"), Plain("asset_tag"),
          Plain("Update_TS"), Plain("Update_User")}

MCAssets ==
  {With(a, e) : a \in Kinds, e \in Exts \cup {Attributes(s, {}) : s \in Mimicking}}
  \cup {With(a, Attributes({Item("ip", n) : n \in 1..11}, {})) : a \in {b \in Kinds : b.tag = "t"}}
==============================================================================
