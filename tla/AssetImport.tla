----------------------------- MODULE AssetImport -----------------------------
(***************************************************************************)
(* The import of a CSV document into the asset database (load_asset_csv    *)
(* and process_row of importcsv.cc).                                       *)
(*                                                                         *)
(* Rows may name assets that later rows create, so the import goes over    *)
(* the document again and again, skipping the rows it has imported, until  *)
(* a pass imports nothing.  Each row is written in a transaction of its    *)
(* own; a device that is to be active is stored inactive and activated by  *)
(* the licensing agent afterwards, and an active one is deactivated first. *)
(*                                                                         *)
(* Abstracted: an asset is known by its database id, which stands for its  *)
(* internal name too; its type and subtype are a kind; the columns whose   *)
(* format alone is checked are the one field wellFormed; the groups, and   *)
(* the logical asset which is checked as they are, are one column.         *)
(***************************************************************************)
EXTENDS Naturals, Sequences, FiniteSets

CONSTANTS
  Ids,          \* database ids, 1..n; id 1 is rackcontroller-0
  Names,        \* external names; a column may hold one, or an id
  None,         \* an empty column
  Documents,    \* bound: the documents imported, sequences of rows
  InitialDb,    \* the assets already stored, [Ids -> Asset]
  Licences,     \* how many devices the licensing agent lets be active
  MaxFailures   \* bound: failed calls of the database or the agent

RC0 == 1
Kinds == {"place", "device", "rack controller"}
Statuses == {"active", "nonactive", "spare"}
References == Names \cup Ids

Row ==
  [id : Ids \cup {None}, name : Names, kind : Kinds, status : Statuses,
   location : References \cup {None}, groups : SUBSET References,
   source : References \cup {None}, wellFormed : BOOLEAN]

(* A stored asset; an id not in use is vacant. *)
Asset ==
  [name : Names \cup {None}, kind : Kinds \cup {"vacant"}, status : Statuses,
   parent : Ids \cup {None}, groups : SUBSET Ids, sources : SUBSET Ids]

ASSUME AssetImportAssumption ==
  /\ Ids \subseteq Nat /\ RC0 \in Ids
  /\ None \notin References
  /\ Documents \subseteq Seq(Row)
  /\ InitialDb \in [Ids -> Asset] /\ InitialDb[RC0].kind = "rack controller"
  /\ \A i, j \in Ids :
       InitialDb[i].kind # "vacant" /\ InitialDb[j].kind # "vacant" /\ i # j =>
         InitialDb[i].name # InitialDb[j].name
  /\ {Licences, MaxFailures} \subseteq Nat

VARIABLES
  doc, configurable,   \* the document, and the limit global_configurability
  db,                  \* the asset tables
  licensed,            \* devices the licensing agent counts as active
  pc,                  \* the step of the row, or "done" or "aborted"
  row,                 \* the row the loop is at
  target, warning,     \* the asset process_row wrote, and its warning
  ids,                 \* ids already updated
  okRows, failRows, processedRows, somethingProcessed,
  failures,            \* counter for the bound
  hurt,        \* history: rows a failed call rejected in this pass
  committed,   \* history: rows whose transaction was committed
  late,        \* history: rows that failed after it
  halfway      \* history: devices deactivated whose update then failed

lists   == <<okRows, failRows, processedRows, somethingProcessed, ids>>
history == <<hurt, committed, late, halfway>>
vars == <<doc, configurable, db, licensed, pc, row, target, warning, lists, failures, history>>

------------------------------------------------------------------------------
(* The database as process_row reads it. *)

Stored == {i \in Ids : db[i].kind # "vacant"}
Named(name) == {i \in Stored : db[i].name = name}
Fresh == CHOOSE i \in Ids \ Stored : TRUE

(* sanitize_row_ext_names: a name that is stored becomes the id. *)
sanitize(ref) == IF Named(ref) # {} THEN CHOOSE i \in Named(ref) : TRUE ELSE ref
Found(ref) == sanitize(ref) \in Stored

(* A power source that is the row's own name is ignored: the name as the     *)
(* row has it against the column as it was sanitized.                        *)
OwnSource(r) == sanitize(r.source) = r.name
Sources(r) ==
  IF r.kind = "place" \/ r.source = None \/ OwnSource(r) THEN {} ELSE {sanitize(r.source)}

Updates(r) == r.id # None

(* Mutant: a row that keeps another asset's name is let through. *)
NameConflict_Inserts(r) == ~Updates(r) /\ Named(r.name) # {}

NameConflict(r) == Named(r.name) \notin {{}, {r.id}}

(* The id of an update; seen are the ids the document has updated already.   *)
BadUpdate(r, seen) ==
  Updates(r) /\ (r.id \notin Stored \/ r.id \in seen \/ db[r.id].kind # r.kind)

BadColumn(r) == ~r.wellFormed

BadReference(r) ==
  \/ \E ref \in {r.location} \cup r.groups : ref # None /\ ~Found(ref)
  \/ r.source # None /\ ~OwnSource(r) /\ ~Found(r.source)

(* Only devices may be stored inactive, and not RC-0. *)
BadStatus(r) == r.status = "nonactive" /\ (r.kind = "place" \/ r.id = RC0)

Rejected(r, seen) ==
  \/ ~configurable
  \/ BadUpdate(r, seen) \/ NameConflict(r) \/ BadColumn(r) \/ BadReference(r) \/ BadStatus(r)

(* The devices whose status goes through the licensing agent: a rack         *)
(* controller is stored as it is when it is created, and RC-0 always.        *)
Licensed(r) ==
  /\ r.kind # "place" /\ r.id # RC0
  /\ r.kind = "rack controller" => Updates(r)

(* What the transaction of the row stores: an update of a licensed device    *)
(* stores "nonactive" whatever the row asks for.                             *)
StoredStatus(r) ==
  IF Licensed(r) /\ (Updates(r) \/ r.status = "active") THEN "nonactive" ELSE r.status

(* Mutant: the column is stored, not the asset it names. *)
ToAsset_Unsanitized(r) ==
  [name |-> r.name, kind |-> r.kind, status |-> StoredStatus(r),
   parent |-> r.location,
   groups |-> {sanitize(g) : g \in r.groups}, sources |-> Sources(r)]

ToAsset(r) ==
  [name |-> r.name, kind |-> r.kind, status |-> StoredStatus(r),
   parent |-> IF r.location = None THEN None ELSE sanitize(r.location),
   groups |-> {sanitize(g) : g \in r.groups}, sources |-> Sources(r)]

------------------------------------------------------------------------------
(* How a row ends *)

MayFail == failures < MaxFailures /\ failures' = failures + 1

(* process_row threw an invalid_argument: its message goes to failRows. *)
Fail ==
  /\ failRows' = failRows \cup {row}
  /\ pc' = "check" /\ row' = row + 1
  /\ UNCHANGED <<okRows, processedRows, somethingProcessed, ids>>

FailHurt == Fail /\ MayFail /\ hurt' = hurt \cup {row}

(* Mutants: the row is not remembered; the id was inserted when it was read. *)
Accept_Forgotten ==
  /\ IF warning
     THEN failRows' = failRows \cup {row} /\ UNCHANGED okRows
     ELSE okRows' = Append(okRows, row) /\ UNCHANGED failRows
  /\ somethingProcessed' = TRUE
  /\ ids' = ids \cup ({doc[row].id} \ {None})
  /\ pc' = "check" /\ row' = row + 1
  /\ UNCHANGED processedRows

(* process_row returned: a row imported with a warning goes to failRows. *)
Accept ==
  /\ IF warning
     THEN failRows' = failRows \cup {row} /\ UNCHANGED okRows
     ELSE okRows' = Append(okRows, row) /\ UNCHANGED failRows
  /\ processedRows' = processedRows \cup {row}
  /\ somethingProcessed' = TRUE
  /\ ids' = ids \cup ({doc[row].id} \ {None})
  /\ pc' = "check" /\ row' = row + 1

------------------------------------------------------------------------------
(* process_row, step by step *)

InPass == pc = "check" /\ row <= Len(doc)
Fixed == UNCHANGED <<doc, configurable>>

SkipRow ==
  /\ InPass /\ row \in processedRows
  /\ row' = row + 1
  /\ Fixed /\ UNCHANGED <<db, licensed, pc, target, warning, lists, failures, history>>

RejectRow ==
  /\ InPass /\ row \notin processedRows
  /\ \/ Rejected(doc[row], ids) /\ Fail /\ UNCHANGED <<failures, hurt>>
     \/ FailHurt
  /\ Fixed /\ UNCHANGED <<db, licensed, target, warning, committed, late, halfway>>

(* Mutant: the status the row asks for decides, not the one stored. *)
MustDeactivate_Requested(r) == Updates(r) /\ Licensed(r) /\ r.status = "nonactive"

MustDeactivate(r) == Updates(r) /\ Licensed(r) /\ db[r.id].status = "active"

(* Bound: as long as there is an id for a new asset. *)
CheckRow ==
  /\ InPass /\ row \notin processedRows /\ ~Rejected(doc[row], ids)
  /\ Updates(doc[row]) \/ Stored # Ids
  /\ warning' = FALSE
  /\ target' = IF Updates(doc[row]) THEN doc[row].id ELSE Fresh
  /\ pc' = IF MustDeactivate(doc[row]) THEN "deactivate" ELSE "store"
  /\ Fixed /\ UNCHANGED <<db, licensed, row, lists, failures, history>>

(* The agent may write the status itself; nothing here waits for it. *)
Deactivate ==
  /\ pc = "deactivate"
  /\ \/ /\ pc' = "store"
        /\ licensed' = licensed \ {target}
        /\ \/ UNCHANGED db
           \/ db' = [db EXCEPT ![target].status = "nonactive"]
        /\ UNCHANGED <<row, lists, failures, history>>
     \/ /\ FailHurt
        /\ UNCHANGED <<db, licensed, committed, late, halfway>>
  /\ Fixed /\ UNCHANGED <<target, warning>>

HalfDone == IF MustDeactivate(doc[row]) THEN halfway \cup {target} ELSE halfway

(* insert_device, update_device, insert_ and update_dc_room_row_rack_group:  *)
(* the whole transaction or nothing of it.                                   *)
Store ==
  /\ pc = "store"
  /\ \/ /\ db' = [db EXCEPT ![target] = ToAsset(doc[row])]
        /\ pc' = IF Licensed(doc[row]) /\ doc[row].status = "active" THEN "activate" ELSE "finish"
        /\ committed' = committed \cup {row}
        /\ halfway' = halfway \ {target}
        /\ UNCHANGED <<row, lists, failures, hurt>>
     \/ /\ FailHurt
        /\ halfway' = HalfDone
        /\ UNCHANGED <<db, committed>>
  /\ Fixed /\ UNCHANGED <<licensed, target, warning, late>>

(* Refused for want of a licence, or failed: the import only warns.  The     *)
(* agent stores the status of a device it activates.                         *)
Activate ==
  /\ pc = "activate"
  /\ pc' = "finish"
  /\ \/ /\ Cardinality(licensed) < Licences
        /\ licensed' = licensed \cup {target}
        /\ db' = [db EXCEPT ![target].status = "active"]
        /\ UNCHANGED <<warning, failures>>
     \/ /\ \/ Cardinality(licensed) >= Licences /\ UNCHANGED failures
           \/ MayFail
        /\ warning' = TRUE
        /\ UNCHANGED <<db, licensed>>
  /\ Fixed /\ UNCHANGED <<row, target, lists, history>>

(* The name is looked up once more, after the commit. *)
Finish ==
  /\ pc = "finish"
  /\ \/ Accept /\ UNCHANGED <<failures, hurt, late>>
     \/ FailHurt /\ late' = late \cup {row}
  /\ Fixed /\ UNCHANGED <<db, licensed, target, warning, committed, halfway>>

(* Mutants: one pass is enough; a pass is repeated until all is imported. *)
Repeat_Never == FALSE
Repeat_TillAll == Cardinality(processedRows) < Len(doc)

Repeat == somethingProcessed

EndPass ==
  /\ pc = "check" /\ row > Len(doc)
  /\ \/ /\ Repeat
        /\ row' = 1 /\ somethingProcessed' = FALSE /\ failRows' = {} /\ hurt' = {}
        /\ UNCHANGED pc
     \/ /\ ~Repeat
        /\ pc' = "done"
        /\ UNCHANGED <<row, somethingProcessed, failRows, hurt>>
  /\ Fixed /\ UNCHANGED <<db, licensed, target, warning, okRows, processedRows, ids, failures,
                          committed, late, halfway>>

(* Any other exception leaves load_asset_csv, or the process is killed: the  *)
(* transaction in progress is rolled back and what is committed stays.       *)
Abort ==
  /\ pc \notin {"done", "aborted"}
  /\ pc' = "aborted"
  /\ halfway' = IF pc = "store" THEN HalfDone ELSE halfway
  /\ Fixed /\ UNCHANGED <<db, licensed, row, target, warning, lists, failures, hurt, committed,
                          late>>

------------------------------------------------------------------------------
(* The limit is asked for once, before the first row. *)
get_licensing_limitation == configurable \in BOOLEAN

(* load_asset_csv before its first pass, over the assets d, when f calls are *)
(* counted as failed already.                                                *)
Start(d, f) ==
  /\ get_licensing_limitation
  /\ db = d
  /\ licensed = {i \in Ids : d[i].kind = "device" /\ d[i].status = "active"}
  /\ pc = "check" /\ row = 1 /\ target = RC0 /\ warning = FALSE
  /\ ids = {} /\ okRows = <<>> /\ failRows = {} /\ processedRows = {}
  /\ somethingProcessed = FALSE
  /\ failures = f /\ hurt = {} /\ committed = {} /\ late = {} /\ halfway = {}

Init == doc \in Documents /\ Start(InitialDb, 0)

ProcessRow == SkipRow \/ RejectRow \/ CheckRow \/ Deactivate \/ Store \/ Activate \/ Finish
Import == ProcessRow \/ EndPass
Next == Import \/ Abort

Spec == Init /\ [][Next]_vars

(* The import runs in the thread of its request. *)
FairSpec == Spec /\ WF_vars(Import)

------------------------------------------------------------------------------
(* Properties *)

TypeOK ==
  /\ doc \in Seq(Row) /\ configurable \in BOOLEAN
  /\ db \in [Ids -> Asset] /\ licensed \subseteq Ids
  /\ pc \in {"check", "deactivate", "store", "activate", "finish", "done", "aborted"}
  /\ row \in 1..Len(doc) + 1
  /\ pc \notin {"check", "done", "aborted"} => row \in DOMAIN doc
  /\ target \in Ids /\ warning \in BOOLEAN /\ ids \subseteq Ids
  /\ okRows \in Seq(DOMAIN doc)
  /\ {failRows, processedRows, hurt, committed, late} \subseteq SUBSET DOMAIN doc
  /\ somethingProcessed \in BOOLEAN /\ failures \in 0..MaxFailures
  /\ halfway \subseteq Ids

(* The order of the rows does not matter: a row the finished import has not  *)
(* imported is refused by the database it leaves, unless a failed call       *)
(* stopped it in the last pass.  An id counts as seen only if a row that     *)
(* was imported names it.  A row that failed after its commit does not count *)
(* as processed, so the rows that waited for it may not be tried again.      *)
Fixpoint ==
  pc = "done" /\ hurt \cap late = {} =>
    \A q \in DOMAIN doc \ (processedRows \cup hurt) :
      Rejected(doc[q], {doc[p].id : p \in processedRows})

(* What is reported is what happened: no row is reported twice, a row that   *)
(* is reported imported was committed, and one that is reported rejected was *)
(* not, unless the lookup after its commit failed.                           *)
ReportIsTrue ==
  /\ \A p, q \in DOMAIN okRows : p # q => okRows[p] # okRows[q]
  /\ \A p \in DOMAIN okRows : okRows[p] \in committed
  /\ pc = "done" => \A q \in failRows :
                      /\ q \in committed => q \in late
                      /\ \A p \in DOMAIN okRows : okRows[p] # q

(* "unique, non empty value" (process_row): renaming and creating rows in    *)
(* any order, repeated over the passes, leave no two assets of one name.     *)
NamesUnique == \A i, j \in Stored : db[i].name = db[j].name => i = j

(* A device is stored active exactly if the licensing agent counts it, but   *)
(* for the one being updated and for those whose update failed after their   *)
(* deactivation.  Rack controllers are created without asking the agent.     *)
LicencesAgree ==
  \A i \in Stored :
    \/ pc = "store" /\ i = target
    \/ i \in halfway
    \/ /\ i \in licensed => db[i].status = "active"
       /\ db[i].kind = "device" /\ db[i].status = "active" => i \in licensed

(* No document keeps the import going over it for ever. *)
Terminates == <>(pc \in {"done", "aborted"})

(* src/db/inout.h promises the caller two lists, "okRows - a list of short   *)
(* information about inserted rows" and "failRows - a list of rejected rows  *)
(* with the message": a row that was imported would be in one of them.       *)
ImportedIsReported ==
  pc = "done" =>
    \A q \in processedRows : q \in failRows \/ \E p \in DOMAIN okRows : okRows[p] = q

(* importcsv.cc drops a power source to "prevent power source being myself": *)
(* no asset is stored as its own power source.                               *)
NoOwnSource == \A i \in Stored : i \notin db[i].sources
==============================================================================
