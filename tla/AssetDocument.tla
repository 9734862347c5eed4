---------------------------- MODULE AssetDocument ----------------------------
(***************************************************************************)
(* One asset that is shown, exported, and put back: as the JSON object of  *)
(* its page (getJsonAsset), as the one of the page of many assets          *)
(* (export_asset_json), as a row of a CSV document (export_asset_csv).     *)
(* What comes back is a table of titles and cells in each case             *)
(* (CsvMap_from_serialization_info, CsvMap), which process_row turns into  *)
(* an update of the asset.                                                 *)
(*                                                                         *)
(* An extended attribute is stored under a keytag: "ip.2" is the second of *)
(* a list, "outlet.3.label" belongs to an outlet, "model" is plain.  Here  *)
(* a keytag is a record, so that lists can be renumbered.                  *)
(*                                                                         *)
(* Abstracted: name, status and priority are columns whose value does not  *)
(* matter (AssetImport is about them), as is the attribute "name" the      *)
(* import stores besides; values are well formed; the lists mac, fqdn and  *)
(* hostname are treated alike and stand for one; nothing else changes the  *)
(* asset, and what it refers to is stored.                                 *)
(***************************************************************************)
EXTENDS Naturals, Sequences, FiniteSets, SequencesExt

CONSTANTS
  Assets,     \* the assets to begin with, of Asset
  TextOrder,  \* the numbers of list items, in the order of their text
  Stripped,   \* what _ci_strip makes of the names it changes
  Cut,        \* the first four characters of the sockets that are longer
  OtherTags,  \* keytags of other assets, which are columns of the CSV document too
  MaxRounds   \* bound: how often the asset is put back

Indexes == Range(TextOrder)
Numeral(n) == <<"0", "1", "2", "3">>[n + 1]

Key(base, index, part) == [base |-> base, index |-> index, part |-> part]
Plain(name) == Key(name, 0, "")
Item(list, n) == Key(list, n, "")
Outlet(n, part) == Key("outlet", n, part)   \* "outlet.1.label"
Master(part) == Key("master", 0, part)      \* "outlet.label"

Lists == {"ip", "mac"}
OutletParts == {"label", "group", "type"}

(* ASSET_ELEMENT_KEYTAGS: the columns of the asset itself. *)
Reserved == {Plain(name) : name \in {"id", "name", "type", "sub_type", "location", "status",
                                     "priority", "asset_tag"}}

(* Columns that name other assets, numbered. *)
Referring == {"group", "power_source", "power_plug_src"}

VARIABLES
  asset,    \* what is stored
  before,   \* history: what was stored before the last document came back
  way,      \* history: how it was shown, "single", "list" or "csv"
  reply,    \* "stored" or "refused"
  rounds    \* counter for the bound
documentVars == <<asset, before, way, reply, rounds>>

Strip(v) == IF v \in DOMAIN Stripped THEN Stripped[v] ELSE v
Short(socket) == IF socket \in DOMAIN Cut THEN Cut[socket] ELSE socket

(* A keytag without what distinguishes its spelling from that of a column. *)
Bare(k) == Key(Strip(k.base), k.index, k.part)

IsItem(k) == k.base \in Lists /\ k.index > 0 /\ k.part = ""
IsOutlet(k) == k.base = "outlet" /\ k.part \in OutletParts

(* The names the program itself gives to columns. *)
OwnNames ==
  {k.base : k \in Reserved} \cup Referring \cup Lists \cup
  {"outlet", "master", "model", "location_type", "create_mode", "update_ts", "update_user"}

(* No attribute is called like a reference (which a document with a gap in   *)
(* its numbers would leave as one).                                          *)
IsKeytag(k) == k = Key(k.base, k.index, k.part) /\ k.index \in Nat /\ Strip(k.base) \notin Referring

(* What the database holds: only devices are powered; the mode of creation   *)
(* is read-only.                                                             *)
WellFormed(a) ==
  /\ a.type \in {"device", "rack", "group"} /\ a.located \in BOOLEAN /\ a.subtype # ""
  /\ IsFiniteSet(a.groups) /\ IsFiniteSet(a.links) /\ (a.type # "device" => a.links = {})
  /\ \A k \in DOMAIN a.ext :
       /\ IsKeytag(k) /\ k # Plain("name") /\ (IsItem(Bare(k)) => k.index \in Indexes)
       /\ a.ext[k].value # "" /\ (Bare(k) = Plain("create_mode") => a.ext[k].ro)

(* _ci_strip changes none of the program's names, leaves something of every  *)
(* name, and nothing more to be changed.                                     *)
ASSUME AssetDocumentAssumption ==
  /\ MaxRounds \in Nat /\ TextOrder \in Seq(Nat)
  /\ IsInjective(TextOrder) /\ Indexes = 1..Len(TextOrder)
  /\ \A n \in OwnNames \cup {"", "N_A"} : n \notin DOMAIN Stripped
  /\ \A n \in DOMAIN Stripped : Stripped[n] \notin {"", "N_A"} \cup DOMAIN Stripped
  /\ \A a \in Assets : WellFormed(a)
  /\ \A k \in OtherTags : IsKeytag(k)

------------------------------------------------------------------------------
(* Columns: a title, a cell, and the part of the document they come from; so  *)
(* two columns of one title are not one.                                     *)

Column(k, v) == [title |-> k, cell |-> v, from |-> "asset"]
Basic(names) == {Column(Plain(name), "basic") : name \in names}
Attribute(k, v) == [title |-> k, cell |-> v, from |-> "ext"]

Value(a, k) == a.ext[k].value
AttributesOf(a, keys) == {Attribute(k, Value(a, k)) : k \in keys}
Has(a, k) == k \in DOMAIN a.ext

(* The subtype of a group is its attribute "type". *)
SubtypeColumn(a, shown) ==
  IF a.type # "group" THEN {Column(Plain("sub_type"), shown)}
  ELSE IF Has(a, Plain("type")) THEN {Column(Plain("sub_type"), Value(a, Plain("type")))}
  ELSE {}

GroupColumns(a) ==
  LET g == SetToSeq(a.groups) IN {Column(Item("group", i), g[i]) : i \in DOMAIN g}

(* An empty socket is no column of the single asset. *)
PowerColumns(a, hidden) ==
  LET l == SetToSeq(a.links)
      plugged == {i \in DOMAIN l : l[i].socket \notin hidden}
  IN {Column(Item("power_source", i), l[i].source) : i \in DOMAIN l} \cup
     {Column(Item("power_plug_src", i), l[i].socket) : i \in plugged}

TagColumn(a) == IF a.tag = "" THEN {} ELSE {Column(Plain("asset_tag"), a.tag)}

(* The attributes come from a std::map, "ip.10" before "ip.2", and go into   *)
(* an array: process_ips_key and its like number them from 1 again.          *)
ListItems(a, list) ==
  LET stored == {i \in DOMAIN TextOrder : Has(a, Item(list, TextOrder[i]))}
      Place(i) == Cardinality({j \in stored : j <= i})
  IN {Attribute(Item(list, Place(i)), Value(a, Item(list, TextOrder[i]))) : i \in stored}

------------------------------------------------------------------------------
(* getJsonAsset *)

(* Mutant: the attribute "location_type" is shown with the others. *)
SingleHides_NotLocationType(a, k) ==
  \/ k = Plain("type") /\ a.type = "group"
  \/ IsItem(k) \/ IsOutlet(k)

(* What is not shown among the attributes: it is shown elsewhere. *)
SingleHides(a, k) ==
  \/ k = Plain("location_type")
  \/ k = Plain("type") /\ a.type = "group"
  \/ IsItem(k) \/ IsOutlet(k)

(* Mutant: the types of outlets are forgotten. *)
SingleOutlets_NoTypes(a) ==
  AttributesOf(a, {k \in DOMAIN a.ext : IsOutlet(k) /\ k.part # "type"})

SingleOutlets(a) == AttributesOf(a, {k \in DOMAIN a.ext : IsOutlet(k)})

SinglePlaces(a) ==
  Basic({"location"}) \cup {Column(Plain("location_type"), IF a.located THEN "room" ELSE "")}

SinglePlain(a) ==
  TagColumn(a) \cup AttributesOf(a, {k \in DOMAIN a.ext : ~SingleHides(a, k)})

getJsonAsset(a) ==
  Basic({"id", "name", "status", "priority", "type"}) \cup
  SinglePlaces(a) \cup GroupColumns(a) \cup
  (IF a.type = "device" THEN PowerColumns(a, {""}) ELSE {}) \cup
  SubtypeColumn(a, a.subtype) \cup SinglePlain(a) \cup
  ListItems(a, "ip") \cup ListItems(a, "mac") \cup SingleOutlets(a)

------------------------------------------------------------------------------
(* export_asset_json: no groups; only the ips are a list; an outlet has a    *)
(* label, its number if there is none, as soon as it is known to exist.      *)

ListHides(a, k) ==
  \/ k = Plain("location_type")
  \/ k = Plain("type") /\ a.type = "group"
  \/ IsItem(k) /\ k.base = "ip"
  \/ IsOutlet(k)

ListPlain(a) ==
  TagColumn(a) \cup AttributesOf(a, {k \in DOMAIN a.ext : ~ListHides(a, k)})

Switchable(k) == k.base \in {"outlet", "master"} /\ k.part = "switchable"

(* The outlet 0 stands for the whole device, whose keytags have no number.   *)
OutletNumbers(a) ==
  {k.index : k \in {j \in DOMAIN a.ext : IsOutlet(j) \/ Switchable(j) \/ j = Master("label")}}

OutletLabel(a, n) ==
  IF n = 0 /\ Has(a, Master("label")) THEN Value(a, Master("label"))
  ELSE IF Has(a, Outlet(n, "label")) THEN Value(a, Outlet(n, "label"))
  ELSE Numeral(n)

ListOutlets(a) ==
  {Attribute(Outlet(n, "label"), OutletLabel(a, n)) : n \in OutletNumbers(a)} \cup
  AttributesOf(a, {k \in DOMAIN a.ext : IsOutlet(k) /\ k.part # "label"})

ListSubtype(a) == IF a.subtype = "N_A" THEN "" ELSE a.subtype

(* A group without the attribute is shown with an empty subtype. *)
export_asset_json(a) ==
  Basic({"id", "name", "status", "priority", "type"}) \cup
  SinglePlaces(a) \cup
  (IF a.type = "group" /\ ~Has(a, Plain("type")) THEN {Column(Plain("sub_type"), "")}
   ELSE SubtypeColumn(a, ListSubtype(a))) \cup
  PowerColumns(a, {}) \cup ListPlain(a) \cup ListItems(a, "ip") \cup ListOutlets(a)

------------------------------------------------------------------------------
(* export_asset_csv: a column for every keytag in use, read-only attributes  *)
(* left empty.                                                               *)

Keytags(a) ==
  {k \in OtherTags \cup {j \in DOMAIN a.ext : ~a.ext[j].ro} \cup {Plain("model"), Item("ip", 1)} :
     k \notin Reserved}

CsvCell(a, k) == IF Has(a, k) /\ ~a.ext[k].ro THEN Value(a, k) ELSE ""

export_asset_csv(a) ==
  Basic({"id", "name", "type", "location", "status", "priority"}) \cup
  (IF a.type = "group" /\ ~Has(a, Plain("type")) THEN {Column(Plain("sub_type"), "")}
   ELSE SubtypeColumn(a, ListSubtype(a))) \cup
  {Column(Plain("asset_tag"), a.tag)} \cup
  PowerColumns(a, {}) \cup {Attribute(k, CsvCell(a, k)) : k \in Keytags(a)} \cup
  GroupColumns(a)

------------------------------------------------------------------------------
(* CsvMap::deserialize *)

Title(c) == Bare(c.title)
DuplicateTitle(cols) ==
  \E c \in cols : LET k == Title(c) IN \E d \in cols : Title(d) = k /\ c # d

HasTitle(cols, k) == \E c \in cols : Title(c) = k
Get(cols, k) == (CHOOSE c \in cols : Title(c) = k).cell

(* The items of a column, up to the first number that is not there. *)
Numbered(cols, name) ==
  {i \in {c.title.index : c \in cols} \ {0} : \A n \in 1..i : HasTitle(cols, Item(name, n))}

(* process_row *)

BadSubtype(a, s) ==
  \/ a.type = "device" /\ s \in {"", "N_A"}
  \/ a.type = "group" /\ s = ""

Refused(a, cols) ==
  \/ DuplicateTitle(cols)
  \/ ~HasTitle(cols, Plain("sub_type"))
  \/ BadSubtype(a, Strip(Get(cols, Plain("sub_type"))))

LinkAt(cols, i) ==
  [source |-> Get(cols, Item("power_source", i)),
   socket |-> IF HasTitle(cols, Item("power_plug_src", i))
              THEN Short(Get(cols, Item("power_plug_src", i))) ELSE ""]

ReadLinks(a, cols) ==
  IF a.type = "device" THEN {LinkAt(cols, i) : i \in Numbered(cols, "power_source")} ELSE {}

ReadGroups(cols) == {Get(cols, Item("group", i)) : i \in Numbered(cols, "group")}

(* What the reads above have taken of the columns. *)
Taken(k) == k \in Reserved \cup {Plain("create_mode")} \/ k.base \in Referring

(* Mutant: empty cells are stored. *)
UnusedColumns_Empty(cols) ==
  {k \in {Title(c) : c \in cols} : ~Taken(k)}

(* unused_columns: the others that are not empty. *)
UnusedColumns(cols) ==
  {k \in {Title(c) : c \in cols} : ~Taken(k) /\ Get(cols, k) # ""}

(* Mutant: all attributes are deleted, read-only ones too. *)
ReadExt_DeletesAll(a, cols, over) ==
  LET group == IF a.type = "group" THEN {Plain("type")} ELSE {}
  IN [k \in UnusedColumns(cols) \cup group |->
        [ro |-> FALSE,
         value |-> IF k \in group THEN Strip(Get(cols, Plain("sub_type"))) ELSE Get(cols, k)]]

(* update_device and update_dc_room_row_rack_group: the read-write           *)
(* attributes are deleted and the columns inserted; whether the insertion    *)
(* over a read-only one makes it read-write is the database's business.      *)
ReadExt(a, cols, over) ==
  LET ro == {k \in DOMAIN a.ext : a.ext[k].ro}
      group == IF a.type = "group" THEN {Plain("type")} ELSE {}
      new == UnusedColumns(cols) \cup group
  IN [k \in ro \cup new |->
        IF k \in new /\ (over \/ k \notin ro)
        THEN [ro |-> FALSE,
              value |-> IF k \in group THEN Strip(Get(cols, Plain("sub_type"))) ELSE Get(cols, k)]
        ELSE a.ext[k]]

Stamps == {Plain("update_ts"), Plain("update_user")}
StampsBy(user) == {k \in Stamps : k = Plain("update_user") => user # ""}

(* The time of a CSV import and its user, if known, are stored with a        *)
(* device.  For other types the attributes of the columns are stored a       *)
(* second time in their place.                                               *)
Stamp(a, w, user, ext) ==
  IF w = "csv" /\ a.type = "device"
  THEN [k \in DOMAIN ext \cup StampsBy(user) |->
          IF k \in StampsBy(user)
          THEN [ro |-> TRUE, value |-> IF k = Plain("update_ts") THEN "now" ELSE user]
          ELSE ext[k]]
  ELSE ext

Update(a, w, cols, over, user) ==
  [type |-> a.type, subtype |-> a.subtype, located |-> a.located,
   tag |-> IF HasTitle(cols, Plain("asset_tag")) THEN Get(cols, Plain("asset_tag")) ELSE "",
   groups |-> ReadGroups(cols), links |-> ReadLinks(a, cols),
   ext |-> Stamp(a, w, user, ReadExt(a, cols, over))]

------------------------------------------------------------------------------
Document(a, w) ==
  CASE w = "single" -> getJsonAsset(a)
    [] w = "list" -> export_asset_json(a)
    [] w = "csv" -> export_asset_csv(a)

(* Only the import of a CSV document is told who asks for it. *)
Users(w) == IF w = "csv" THEN {"", "another"} ELSE {""}

PutBack(w) ==
  LET cols == Document(asset, w) IN
  /\ rounds < MaxRounds
  /\ rounds' = rounds + 1 /\ way' = w /\ before' = asset
  /\ IF Refused(asset, cols)
     THEN reply' = "refused" /\ UNCHANGED asset
     ELSE /\ reply' = "stored"
          /\ \E over \in BOOLEAN, user \in Users(w) : asset' = Update(asset, w, cols, over, user)

DocumentInit ==
  /\ asset \in Assets /\ before = asset
  /\ way = "none" /\ reply = "none" /\ rounds = 0

Ways == {"single", "list", "csv"}

DocumentNext == \E w \in Ways : PutBack(w)

DocumentSpec == DocumentInit /\ [][DocumentNext]_documentVars

------------------------------------------------------------------------------
(* Properties *)

(* Types; and what comes back leaves no empty value and no item without a    *)
(* number of the list.                                                       *)
DocumentTypeOK ==
  /\ WellFormed(asset) /\ WellFormed(before)
  /\ way \in Ways \cup {"none"} /\ reply \in {"none", "stored", "refused"}
  /\ rounds \in 0..MaxRounds

(* What a document says, once titles, groups' subtypes and sockets have      *)
(* been cut to what is stored of them, except the time of the last import    *)
(* and its user.                                                             *)
Says(a, w) ==
  LET Cell(c) == CASE c.title.base = "power_plug_src" -> Short(c.cell)
                   [] c.title = Plain("sub_type") -> Strip(c.cell)
                   [] OTHER -> c.cell
  IN {[title |-> Title(c), cell |-> Cell(c)] :
        c \in {d \in Document(a, w) : Title(d) \notin Stamps}}

Count(a, list) == Cardinality({k \in DOMAIN a.ext : k.base = list /\ IsItem(k)})

(* A list is numbered anew over items that stay where they are: read-only    *)
(* ones that are not at the place of their number.                           *)
Collides(a, list) ==
  \E k \in DOMAIN a.ext :
    /\ k.base = list /\ IsItem(k) /\ a.ext[k].ro
    /\ Attribute(k, Value(a, k)) \notin ListItems(a, list)

(* A document that comes back as it was shown makes the asset be shown, and  *)
(* exported, as it was before: the lists keep their order, outlets and       *)
(* attributes their values, in spite of the renumbering and of the columns   *)
(* that only inform.  A list of ten or more is in another order each time it *)
(* is put back, and one that collides with read-only items repeats them.      *)
ShownAgain ==
  reply = "stored" =>
    \/ Says(asset, way) = Says(before, way)
    \/ way # "csv" /\ \E list \in Lists : Count(before, list) >= 10 \/ Collides(before, list)

Kept(k, v) ==
  \E j \in DOMAIN asset.ext :
    /\ asset.ext[j].value = v /\ j.base \in {k.base, Strip(k.base)} /\ j.part = k.part
    /\ j.index = k.index \/ IsItem(k)

(* Another attribute differs in its spelling only. *)
SpeltTwice(k) == \E j \in DOMAIN before.ext \ {k} : Bare(j) = Bare(k)

(* An attribute that is taken for a column of the asset. *)
Mimics(name) == \E k \in DOMAIN before.ext : Bare(k) = Plain(name)

(* Nothing that was stored is lost, shown or not, but for what the document  *)
(* cannot hold: the page of many assets has no groups, the CSV document no   *)
(* attribute called like a column of the asset, the type of the location     *)
(* and, of a device, the time and the user of the last import are replaced,  *)
(* so is a label of the outlet 0 by that of the device, and so are items of  *)
(* a list that collides.  An attribute may take the place of a tag that is   *)
(* empty, or of one that differs in its spelling only where a document does  *)
(* not show both.                                                            *)
NothingLost ==
  reply = "stored" =>
    /\ asset.tag = before.tag \/ (before.tag = "" /\ Mimics("asset_tag"))
    /\ asset.groups = IF way = "list" THEN {} ELSE before.groups
    /\ {l.source : l \in asset.links} = {l.source : l \in before.links}
    /\ \A k \in DOMAIN before.ext :
         \/ Kept(k, Strip(before.ext[k].value))
         \/ Kept(k, before.ext[k].value)
         \/ k = Plain("location_type") /\ way # "csv"
         \/ IsItem(k) /\ Collides(before, k.base) /\ way # "csv"
         \/ k = Outlet(0, "label") /\ Has(before, Master("label")) /\ way = "list"
         \/ k \in Reserved /\ way = "csv"
         \/ Bare(k) \in Stamps /\ before.type = "device" /\ way = "csv"
         \/ SpeltTwice(k) \/ Bare(k) \in {Plain("asset_tag"), Plain("sub_type")}

(* Read-only attributes stay, as read-only or not, and nothing appears that  *)
(* was not there, but for what a page shows besides the attributes: the type *)
(* of the location, and the label of an outlet that has none; for the time   *)
(* and the user of the import of a CSV document; and for the type of a group *)
(* that has none, if an attribute is taken for its subtype.                  *)
NothingInvented ==
  reply = "stored" =>
    \A k \in DOMAIN asset.ext :
      \/ k.base = "location_type"
      \/ k \in Stamps /\ before.type = "device" /\ way = "csv"
      \/ k.part = "label" /\ way = "list"
      \/ IsItem(k) /\ \E j \in DOMAIN before.ext :
                         j.base = k.base /\ before.ext[j].value = asset.ext[k].value
      \/ \E j \in DOMAIN before.ext : k \in {j, Bare(j)}
      \/ k = Plain("type") /\ before.type = "group" /\ Mimics("sub_type")

(* An asset's own document is taken back, unless its keytags cannot all be   *)
(* columns, it is a device of no known subtype, or a group of no type.       *)
RefusedRightly ==
  reply = "refused" =>
    \/ \E k \in DOMAIN before.ext :
         \/ k \in Reserved /\ (before.type # "group" \/ k # Plain("type"))
         \/ Bare(k) # k
    \/ way = "csv" /\ \E k \in OtherTags : Bare(k) # k
    \/ before.type = "device" /\ before.subtype = "N_A"
    \/ before.type = "group" /\ ~Has(before, Plain("type"))
==============================================================================
