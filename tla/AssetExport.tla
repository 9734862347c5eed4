----------------------------- MODULE AssetExport -----------------------------
(***************************************************************************)
(* The export of the asset database as a CSV document (export_asset_csv of *)
(* exportcsv.cc), other requests that change assets meanwhile and later,   *)
(* and the import of the document that was exported (AssetImport).         *)
(*                                                                         *)
(* The export reads its rows in one transaction, but it looks every name   *)
(* up on a connection of its own: the rows are those of the moment the     *)
(* export began, the names those of the moment each cell is written.       *)
(*                                                                         *)
(* Abstracted, besides what AssetImport abstracts: a device has at most    *)
(* one power source, the logical asset is one of the groups, and the       *)
(* columns the import checks by their form alone are well formed; the      *)
(* columns of attributes are the subject of AssetDocument.                 *)
(***************************************************************************)
EXTENDS AssetImport

CONSTANTS
  ExportDb,   \* the assets stored when the export is asked for
  Scopes,     \* the ids of one datacenter, or all: what may be asked for
  MaxChanges  \* bound: changes of other requests before the import, and lookups that fail

(* What the keys of the tables see to: every stored asset has a name, its    *)
(* own, and what it refers to is stored.                                     *)
ASSUME AssetExportAssumption ==
  /\ ExportDb \in [Ids -> Asset] /\ \A i \in Ids : Cardinality(ExportDb[i].sources) <= 1
  /\ ExportDb[RC0].kind = "rack controller"
  /\ LET stored == {i \in Ids : ExportDb[i].kind # "vacant"} IN
       /\ \A i \in Ids : i \in stored <=> ExportDb[i].name # None
       /\ \A i, j \in stored : ExportDb[i].name = ExportDb[j].name => i = j
       /\ \A i \in stored : ({ExportDb[i].parent} \ {None}) \cup ExportDb[i].groups
                               \cup ExportDb[i].sources \subseteq stored
  /\ Scopes \subseteq SUBSET Ids /\ MaxChanges \in Nat

VARIABLES
  stage,     \* what the export does next, or "import"
  scope,     \* the assets asked for
  snapshot,  \* the database as the transaction of the export sees it
  changes,   \* counter for the bound, with unread
  renamed,   \* history: assets renamed or deleted while the export ran
  lost,      \* history: those deleted
  unread,    \* history: assets the name of whose parent could not be read
  faithful   \* history: when the import began, every name of the document was known

exportVars == <<stage, scope, snapshot, changes, renamed, lost, unread, faithful>>

Exporting == {"name", "location", "source", "groups"}

------------------------------------------------------------------------------
(* The rows, in the order of their ids. *)
StoredIn(d) == {i \in Ids : d[i].kind # "vacant"}
Exported == scope \cap StoredIn(snapshot)
Written == {doc[p].id : p \in DOMAIN doc}
Current == IF stage = "name"
           THEN CHOOSE i \in Exported \ Written : \A j \in Exported \ Written : i <= j
           ELSE doc[Len(doc)].id

(* id_to_name_ext_name: the name of now, and nothing for an asset that is    *)
(* not stored any more.                                                      *)
id_to_name_ext_name(i) == IF i = None THEN None ELSE db[i].name

(* select_asset_element_all or _by_dc: the first read begins the snapshot.   *)
BeginExport ==
  /\ stage = "begin"
  /\ snapshot' = db
  /\ stage' = "name"
  /\ UNCHANGED <<vars, scope, changes, renamed, lost, unread, faithful>>

(* The callback throws: there is no document.                                *)
FailExport ==
  /\ pc' = "aborted" /\ stage' = "failed"
  /\ UNCHANGED <<doc, configurable, db, licensed, row, target, warning, lists, failures, history,
                 scope, snapshot, changes, renamed, lost, unread, faithful>>

(* So it does when a statement, a lookup or the commit fails, before the      *)
(* first row and between any two cells.                                      *)
DatabaseError == stage \in Exporting \cup {"begin"} /\ FailExport

WriteCell(cells, next) ==
  /\ doc' = cells /\ stage' = next
  /\ UNCHANGED <<configurable, db, licensed, pc, row, target, warning, lists, failures, history,
                 scope, snapshot, changes, renamed, lost, faithful>>

ExportName ==
  /\ stage = "name" /\ Exported # Written
  /\ LET i == Current
         name == id_to_name_ext_name(i)
     IN IF name = None THEN FailExport
        ELSE WriteCell(Append(doc, [id |-> i, name |-> name, kind |-> snapshot[i].kind,
                                    status |-> snapshot[i].status, location |-> None,
                                    groups |-> {}, source |-> None, wellFormed |-> TRUE]),
                       "location") /\ UNCHANGED unread

(* Mutant: the parent is read again, outside of the transaction. *)
Location_OfNow(i) == IF db[i].kind = "vacant" THEN None ELSE id_to_name_ext_name(db[i].parent)

(* A location that was deleted meanwhile is an empty cell. *)
Location(i) == id_to_name_ext_name(snapshot[i].parent)

(* So is one whose lookup fails, which is the only one not to be noticed.     *)
ExportLocation ==
  /\ stage = "location"
  /\ \/ /\ WriteCell([doc EXCEPT ![Len(doc)].location = Location(Current)], "source")
        /\ UNCHANGED unread
     \/ /\ changes + Cardinality(unread) < MaxChanges
        /\ WriteCell([doc EXCEPT ![Len(doc)].location = None], "source")
        /\ unread' = unread \cup {Current}

s_power_links(i) == {id_to_name_ext_name(j) : j \in snapshot[i].sources}

(* name_to_extname fails for an asset that was deleted meanwhile. *)
ExportSource ==
  /\ stage = "source"
  /\ LET links == s_power_links(Current)
     IN \/ None \in links /\ FailExport
        \/ links = {} /\ WriteCell(doc, "groups") /\ UNCHANGED unread
        \/ /\ None \notin links /\ links # {}
           /\ WriteCell([doc EXCEPT ![Len(doc)].source = CHOOSE n \in links : TRUE], "groups")
           /\ UNCHANGED unread

(* Mutant: the column of the last group is not written. *)
Groups_AllButOne(i) == {id_to_name_ext_name(g) : g \in snapshot[i].groups \ {5}}

Groups(i) == {id_to_name_ext_name(g) : g \in snapshot[i].groups}

ExportGroups ==
  /\ stage = "groups"
  /\ IF None \in Groups(Current) THEN FailExport
     ELSE /\ WriteCell([doc EXCEPT ![Len(doc)].groups = Groups(Current)], "name")
          /\ UNCHANGED unread

EndExport ==
  /\ stage = "name" /\ Exported = Written
  /\ stage' = "written"
  /\ UNCHANGED <<vars, scope, snapshot, changes, renamed, lost, unread, faithful>>

------------------------------------------------------------------------------
(* Other requests *)

Change(d, touched, gone) ==
  /\ stage \in Exporting \cup {"begin", "written"} /\ changes + Cardinality(unread) < MaxChanges
  /\ changes' = changes + 1
  /\ db' = d
  /\ licensed' = licensed \ gone
  /\ renamed' = IF stage \in Exporting THEN renamed \cup touched ELSE renamed
  /\ lost' = IF stage \in Exporting THEN lost \cup gone ELSE lost
  /\ UNCHANGED <<doc, configurable, pc, row, target, warning, lists, failures, history,
                 stage, scope, snapshot, unread, faithful>>

(* An update of the name, or of the location. *)
RenameAsset(i, n) ==
  /\ i \in Stored /\ Named(n) = {}
  /\ Change([db EXCEPT ![i].name = n], {i}, {})

Ancestors(i) ==
  LET Above[k \in 0..Cardinality(Ids)] ==
        IF k = 0 THEN {i} ELSE Above[k-1] \cup {db[j].parent : j \in Above[k-1] \ {None}}
  IN Above[Cardinality(Ids)]

MoveAsset(i, p) ==
  /\ i \in Stored /\ db[p].kind = "place" /\ i \notin Ancestors(p)
  /\ Change([db EXCEPT ![i].parent = p], {}, {})

(* As AssetTable!Legal says; delete_item refuses RC-0, and the members of a  *)
(* group are let go.                                                         *)
DeleteAsset(i) ==
  /\ i \in Stored \ {RC0} /\ \A j \in Stored : db[j].parent # i /\ i \notin db[j].sources
  /\ Change([j \in Ids |->
               IF j = i THEN [db[i] EXCEPT !.name = None, !.kind = "vacant", !.parent = None,
                                           !.groups = {}, !.sources = {}]
               ELSE [db[j] EXCEPT !.groups = @ \ {i}]], {i}, {i})

OtherRequest ==
  \E i \in Ids :
    \/ \E n \in Names : RenameAsset(i, n)
    \/ \E p \in Ids : MoveAsset(i, p)
    \/ DeleteAsset(i)

------------------------------------------------------------------------------
(* The document is imported. *)

MentionedBy(i) ==
  {i} \cup ({snapshot[i].parent} \ {None}) \cup snapshot[i].groups \cup snapshot[i].sources
Mentioned == UNION {MentionedBy(i) : i \in Exported}

(* History only.  No cell is missing, everything the document mentions is    *)
(* still stored, and its name, if another asset has it now or the document   *)
(* does not restore it, is the one it was exported under.                    *)
Faithful ==
  /\ renamed \cap Mentioned = {} /\ unread = {}
  /\ \A i \in Mentioned :
       /\ i \in Stored /\ Named(snapshot[i].name) \subseteq {i}
       /\ i \notin Exported => db[i].name = snapshot[i].name

StartImport ==
  /\ stage = "written"
  /\ stage' = "import" /\ faithful' = Faithful
  /\ UNCHANGED <<vars, scope, snapshot, changes, renamed, lost, unread>>

Export ==
  BeginExport \/ ExportName \/ ExportLocation \/ ExportSource \/ ExportGroups \/ EndExport

NoExport ==
  /\ scope = {} /\ snapshot = db
  /\ changes = 0 /\ renamed = {} /\ lost = {} /\ unread = {} /\ faithful = FALSE

(* A document from elsewhere, or one that is exported first; a call fails    *)
(* only in the import of the former and in the export of the latter.         *)
ExportInit ==
  \/ Init /\ NoExport /\ stage = "import"
  \/ /\ Start(ExportDb, MaxFailures) /\ doc = <<>>
     /\ stage = "begin" /\ scope \in Scopes /\ snapshot = db
     /\ changes = 0 /\ renamed = {} /\ lost = {} /\ unread = {} /\ faithful = FALSE

ImportStep == stage = "import" /\ Import /\ UNCHANGED exportVars
AbortStep == stage = "import" /\ Abort /\ UNCHANGED exportVars
Requests == Export \/ StartImport \/ ImportStep

ExportNext == Requests \/ AbortStep \/ DatabaseError \/ OtherRequest

allVars == <<vars, exportVars>>

ExportSpec == ExportInit /\ [][ExportNext]_allVars /\ WF_allVars(Requests)

------------------------------------------------------------------------------
(* Properties *)

(* The rows whose cells up to the one of this stage are written. *)
RowsSince(stages) == {p \in DOMAIN doc : p # Len(doc) \/ stage \in stages}

(* The rows agree with each other and with the database the export began     *)
(* on: a location cell is the name in the row of the asset's parent, empty   *)
(* if there is no parent.  The exceptions are other requests while the       *)
(* export ran, a parent renamed between the two cells or one deleted, and a  *)
(* lookup that failed: these two leave the cell empty as if the asset had no *)
(* location.  No group and no power source is left out in that way.          *)
DocumentAgrees ==
  stage # "import" =>
    /\ \A p \in RowsSince({"source", "groups", "name", "written"}) :
         LET i == doc[p].id  parent == snapshot[i].parent IN
         /\ \/ doc[p].location = IF parent = None THEN None ELSE snapshot[parent].name
            \/ parent \in renamed \/ i \in unread
         /\ doc[p].location = None => parent \in {None} \cup lost \/ i \in unread
    /\ \A p \in RowsSince({"groups", "name", "written"}) :
         LET sources == snapshot[doc[p].id].sources IN
         /\ doc[p].source = None <=> sources = {}
         /\ doc[p].source # None =>
              \E j \in sources : j \in renamed \/ doc[p].source = snapshot[j].name
    /\ \A p \in RowsSince({"name", "written"}) :
         /\ None \notin doc[p].groups
         /\ \A g \in snapshot[doc[p].id].groups :
              g \in renamed \/ snapshot[g].name \in doc[p].groups

(* Importing what was exported restores it, whatever was renamed or moved in *)
(* between and in whatever order the rows have to wait for each other, as    *)
(* long as no lookup failed, nothing the document mentions was deleted, or   *)
(* renamed during the export, and no other asset has taken one of its names. *)
RoundTrip ==
  faithful /\ configurable /\ pc = "done" =>
    \A i \in Exported :
      /\ [db[i] EXCEPT !.status = snapshot[i].status] = snapshot[i]
      /\ db[i].status # snapshot[i].status =>
           db[i].status = "nonactive" /\ Cardinality(licensed) >= Licences
==============================================================================
