---------------------------- MODULE MCAssetStore -----------------------------
(***************************************************************************)
(* A small database and the calls two threads make on it, for AssetStore:  *)
(* RC-0 (1), two datacenters (2, 3), a group (4) and an active UPS (5).    *)
(***************************************************************************)
EXTENDS AssetStore

CONSTANTS rc, dcA, dcB, grp, ups, new   \* names

MCNames == {rc, dcA, dcB, grp, ups, new}

At(type, name, parent, groups) ==
  [type |-> type, status |-> "active", parent |-> parent, name |-> name, groups |-> groups,
   sources |-> {}, monitored |-> type \in {"datacenter", "device"}]

(* An id that is not in use. *)
NoAsset == [At("device", None, None, {}) EXCEPT !.type = "vacant", !.status = "nonactive",
                                                !.monitored = FALSE]

MCInitialDb == [i \in Ids |-> CASE i = 1 -> At("device", rc, None, {})
                                [] i = 2 -> At("datacenter", dcA, None, {})
                                [] i = 3 -> At("datacenter", dcB, None, {})
                                [] i = 4 -> At("group", grp, None, {})
                                [] i = 5 -> At("device", ups, None, {4})
                                [] OTHER -> NoAsset]

MCCall(op, id, type, name, parent, groups, sources) ==
  [op |-> op, id |-> id, type |-> type, status |-> "active", parent |-> parent, name |-> name,
   groups |-> groups, sources |-> sources,
   activate |-> FALSE]

(* As the import stores a device: inactive, and active afterwards if asked. *)
Imported(c, activate) == [c EXCEPT !.status = "nonactive", !.activate = activate]

Inserts ==
  { MCCall("insert", None, "room", new, 2, {4}, {}),
    MCCall("insert", None, "datacenter", new, None, {}, {}),
    Imported(MCCall("insert", None, "device", new, 3, {4}, {5}), TRUE) }

Updates ==
  { Imported(MCCall("update", 5, "device", ups, 2, {}, {1}), TRUE),
    Imported(MCCall("update", 5, "device", new, 3, {4}, {}), FALSE),
    Imported(MCCall("update", 5, "device", dcB, None, {4}, {}), TRUE),
    Imported(MCCall("update", 1, "device", rc, 2, {}, {}), FALSE),
    MCCall("update", 3, "datacenter", new, None, {4}, {}) }

Deletes ==
  { MCCall("delete", 2, "datacenter", dcA, None, {}, {}),
    MCCall("delete", 3, "datacenter", dcB, None, {}, {}),
    MCCall("delete", 4, "group", grp, None, {}, {}),
    MCCall("delete", 5, "device", ups, None, {}, {}) }

MCCalls == Inserts \cup Updates \cup Deletes
==============================================================================
