---------------------------- MODULE MCAssetImport ----------------------------
(***************************************************************************)
(* Small documents for AssetImport: every sequence of DocLength of the     *)
(* rows below, over a database that holds RC-0, a datacenter and an active *)
(* device.  And a database to export: RC-0 is in a room, in a group and    *)
(* powered by the device.                                                  *)
(***************************************************************************)
EXTENDS AssetExport

CONSTANTS
  rc, dc, ups, n1, n2, n3,  \* names
  DocLength             \* bound: rows of a document

MCNames == {rc, dc, ups, n1, n2, n3}

Vacant == [name |-> None, kind |-> "vacant", status |-> "nonactive", parent |-> None,
           groups |-> {}, sources |-> {}]

At(name, kind, parent) ==
  [Vacant EXCEPT !.name = name, !.kind = kind, !.status = "active", !.parent = parent]

MCInitialDb == [i \in Ids |-> CASE i = 1 -> At(rc, "rack controller", 2)
                                [] i = 2 -> At(dc, "place", None)
                                [] i = 3 -> At(ups, "device", 2)
                                [] OTHER -> Vacant]

Create(name, kind, status, location, source) ==
  [id |-> None, name |-> name, kind |-> kind, status |-> status, location |-> location,
   groups |-> {}, source |-> source, wellFormed |-> TRUE]
Update(id, name, kind, status, location, source) ==
  [Create(name, kind, status, location, source) EXCEPT !.id = id]

Rows ==
  { Create(n1, "place", "active", dc, None),
    Create(n1, "place", "nonactive", dc, None),
    Create(n1, "rack controller", "active", n2, None),
    Create(n2, "device", "active", n1, ups),
    [Create(n2, "device", "spare", dc, n2) EXCEPT !.groups = {n1}],
    Create(ups, "device", "active", dc, None),
    Update(3, ups, "device", "active", n1, ups),
    Update(3, n2, "device", "nonactive", dc, None),
    Update(3, dc, "device", "spare", 2, rc),
    [Update(3, ups, "device", "spare", dc, None) EXCEPT !.wellFormed = FALSE],
    Update(2, ups, "place", "active", None, None),
    Update(2, dc, "device", "active", None, None),
    Update(1, rc, "rack controller", "active", n1, None),
    Update(4, n1, "rack controller", "active", dc, None) }

MCExportDb == [MCInitialDb EXCEPT
  ![1] = [At(rc, "rack controller", 4) EXCEPT !.groups = {5}, !.sources = {3}],
  ![4] = At(n1, "place", 2),
  ![5] = At(n2, "place", None)]

MCScopes == {Ids, {1, 3, 4}}

MCDocuments == [1..DocLength -> Rows]
==============================================================================
