------------------------- MODULE AssetImportProofs ---------------------------
(***************************************************************************)
(* The import of a document, for every document, database, number of       *)
(* licences and sequence of failures; the export of one, for every         *)
(* database and every change of other requests meanwhile; and an asset     *)
(* that is shown and put back, for every asset and keytag: proofs of the   *)
(* invariants of AssetImport, AssetExport and AssetDocument.               *)
(*                                                                         *)
(* For the import, inductive invariants that each rest on the first:       *)
(* TypeInv, types and references that stay valid from the check of a row   *)
(* to its storing; NamesInv, a name that stays free; LicInv, what the      *)
(* licensing agent counts while a device is between its deactivation and   *)
(* its activation; ReportInv and FixInv, the lists against what was        *)
(* committed, and the rows a pass has left behind.  For the export,        *)
(* ExportInv: what holds of the stored assets since its snapshot, and so   *)
(* of the cells; and that an import may start from where it ends.  For an  *)
(* asset's own document, DocInv: what is stored is what process_row makes  *)
(* of the columns the document consists of.                                *)
(***************************************************************************)
EXTENDS AssetExport, AssetDocument, NaturalRecursion, FiniteSetTheorems, TLAPS

InRow == {"deactivate", "store", "activate", "finish"}
Unstored == {"deactivate", "store"}

TypeInv ==
  /\ TypeOK
  /\ pc \in Unstored => ~BadReference(doc[row])

------------------------------------------------------------------------------
(* Facts about the database *)

LEMMA ConstantFacts ==
  /\ RC0 \in Ids /\ None \notin Ids /\ None \notin Names
  /\ Licences \in Nat /\ MaxFailures \in Nat
BY AssetImportAssumption DEF RC0, References

LEMMA FoundIsStored ==
  ASSUME NEW ref, Found(ref)
  PROVE  sanitize(ref) \in Stored
BY DEF Found

(* A row with valid references is stored as an asset. *)
LEMMA StoresAnAsset ==
  ASSUME NEW r \in Row, ~BadReference(r)
  PROVE  ToAsset(r) \in Asset
<1>1. Stored \subseteq Ids
  BY DEF Stored
<1>2. /\ r.name \in Names /\ r.kind \in Kinds /\ r.status \in Statuses
      /\ r.location \in References \cup {None} /\ r.groups \in SUBSET References
      /\ r.source \in References \cup {None}
  BY DEF Row
<1>3. None \notin References
  BY AssetImportAssumption
<1>4. (IF r.location = None THEN None ELSE sanitize(r.location)) \in Ids \cup {None}
  <2>1. CASE r.location = None
    BY <2>1
  <2>2. CASE r.location # None
    <3>1. Found(r.location)
      BY <2>2 DEF BadReference
    <3> QED
      BY <1>1, <2>2, <3>1, FoundIsStored
  <2> QED
    BY <2>1, <2>2
<1>5. {sanitize(g) : g \in r.groups} \in SUBSET Ids
  <2> SUFFICES ASSUME NEW g \in r.groups PROVE sanitize(g) \in Ids
    OBVIOUS
  <2>1. g # None
    BY <1>2, <1>3
  <2>2. Found(g)
    BY <2>1 DEF BadReference
  <2> QED
    BY <1>1, <2>2, FoundIsStored
<1>6. Sources(r) \in SUBSET Ids
  <2>1. CASE r.source = None \/ OwnSource(r)
    BY <2>1 DEF Sources
  <2>2. CASE ~(r.source = None \/ OwnSource(r))
    <3>1. Found(r.source)
      BY <2>2 DEF BadReference
    <3> QED
      BY <1>1, <3>1, FoundIsStored DEF Sources
  <2> QED
    BY <2>1, <2>2
<1>7. StoredStatus(r) \in Statuses
  BY <1>2 DEF StoredStatus, Statuses
<1>8. ToAsset(r) =
        [name |-> r.name, kind |-> r.kind, status |-> StoredStatus(r),
         parent |-> IF r.location = None THEN None ELSE sanitize(r.location),
         groups |-> {sanitize(g) : g \in r.groups}, sources |-> Sources(r)]
  BY DEF ToAsset
<1> QED
  BY <1>2, <1>4, <1>5, <1>6, <1>7, <1>8 DEF Asset

(* A change of one status changes no name and no reference. *)
LEMMA StatusOnly ==
  ASSUME TypeOK, NEW s \in Statuses, NEW i \in Ids,
         db' = db \/ db' = [db EXCEPT ![i].status = s]
  PROVE  /\ db' \in [Ids -> Asset] /\ Stored' = Stored
         /\ \A j \in Ids : db'[j].name = db[j].name /\ db'[j].kind = db[j].kind
         /\ \A j \in Ids : j # i => db'[j] = db[j]
         /\ \A n : Named(n)' = Named(n)
<1>1. db \in [Ids -> Asset]
  BY DEF TypeOK
<1> DEFINE a == db[i]
           changed == [a EXCEPT !.status = s]
<1>0. a \in Asset
  BY <1>1
<1> HIDE DEF a
<1>2. changed \in Asset /\ changed.name = a.name /\ changed.kind = a.kind
  BY <1>0 DEF Asset
<1> HIDE DEF changed
<1>6. db' \in [Ids -> Asset] /\ \A j \in Ids : j # i => db'[j] = db[j]
  BY <1>0, <1>1, <1>2 DEF a, changed
<1>7. db'[i] = db[i] \/ db'[i] = changed
  BY <1>1 DEF a, changed
<1>3. \A j \in Ids : db'[j].name = db[j].name /\ db'[j].kind = db[j].kind
  BY <1>2, <1>6, <1>7 DEF a
<1>4. Stored' = Stored
  BY <1>3 DEF Stored
<1>5. \A n : Named(n)' = Named(n)
  BY <1>3, <1>4 DEF Named, Stored
<1> QED
  BY <1>3, <1>4, <1>5, <1>6

LEMMA SameReferences ==
  ASSUME Stored' = Stored, \A n : Named(n)' = Named(n)
  PROVE  /\ \A ref : sanitize(ref)' = sanitize(ref)
         /\ \A ref : Found(ref)' = Found(ref)
         /\ \A r : BadReference(r)' = BadReference(r)
<1>1. ASSUME NEW ref PROVE sanitize(ref)' = sanitize(ref)
  <2> DEFINE pick(S) == CHOOSE i \in S : TRUE
  <2>1. sanitize(ref) = IF Named(ref) # {} THEN pick(Named(ref)) ELSE ref
    BY DEF sanitize
  <2>2. sanitize(ref)' = IF Named(ref)' # {} THEN pick(Named(ref)') ELSE ref
    BY DEF sanitize
  <2>3. Named(ref)' = Named(ref)
    OBVIOUS
  <2> HIDE DEF pick
  <2> QED
    BY <2>1, <2>2, <2>3
<1>2. \A ref : Found(ref)' = Found(ref)
  BY <1>1 DEF Found
<1>3. \A r : OwnSource(r)' = OwnSource(r)
  BY <1>1 DEF OwnSource
<1> QED
  BY <1>1, <1>2, <1>3 DEF BadReference

------------------------------------------------------------------------------
(* Types *)

LEMMA DocFacts ==
  ASSUME TypeOK
  PROVE  /\ doc \in Seq(Row) /\ Len(doc) \in Nat /\ DOMAIN doc = 1..Len(doc)
         /\ \A q \in DOMAIN doc : doc[q] \in Row
         /\ row \in 1..Len(doc) + 1 /\ (InPass \/ pc \in InRow => row \in DOMAIN doc)
<1>1. doc \in Seq(Row) /\ row \in 1..Len(doc) + 1
  BY DEF TypeOK
<1>2. Len(doc) \in Nat /\ DOMAIN doc = 1..Len(doc) /\ \A q \in DOMAIN doc : doc[q] \in Row
  BY <1>1
<1>3. pc \in InRow => row \in DOMAIN doc
  BY DEF TypeOK, InRow
<1>4. InPass => row \in DOMAIN doc
  BY <1>1, <1>2 DEF InPass
<1> QED
  BY <1>1, <1>2, <1>3, <1>4

(* The steps that leave the database alone, or change a status only. *)
LEMMA FailType ==
  ASSUME TypeOK, Fail, row \in DOMAIN doc, UNCHANGED <<doc, configurable, target, warning>>,
         db' \in [Ids -> Asset], licensed' \subseteq Ids,
         {hurt', committed', late'} \subseteq SUBSET DOMAIN doc,
         failures' \in 0..MaxFailures, halfway' \subseteq Ids
  PROVE  TypeOK'
BY DocFacts DEF TypeOK, Fail

LEMMA MayFailType ==
  ASSUME TypeOK, MayFail
  PROVE  failures' \in 0..MaxFailures
BY ConstantFacts DEF TypeOK, MayFail

LEMMA FreshIsVacant ==
  ASSUME Stored # Ids
  PROVE  Fresh \in Ids \ Stored
<1>1. Ids \ Stored # {}
  BY DEF Stored
<1> QED
  BY <1>1 DEF Fresh

LEMMA CheckTarget ==
  ASSUME TypeOK, CheckRow
  PROVE  /\ row \in DOMAIN doc /\ doc[row] \in Row /\ target' \in Ids
         /\ Updates(doc[row]) => /\ target' = doc[row].id /\ target' \in Stored
                                 /\ db[target'].kind = doc[row].kind
         /\ ~Updates(doc[row]) => target' \notin Stored
<1>1. row \in DOMAIN doc /\ doc[row] \in Row
  BY DocFacts DEF CheckRow
<1>2. CASE Updates(doc[row])
  <2>1. doc[row].id \in Ids
    BY <1>1, <1>2 DEF Row, Updates
  <2>2. ~BadUpdate(doc[row], ids)
    BY DEF CheckRow, Rejected
  <2> QED
    BY <1>1, <1>2, <2>1, <2>2 DEF CheckRow, BadUpdate
<1>3. CASE ~Updates(doc[row])
  BY <1>1, <1>3, FreshIsVacant DEF CheckRow
<1> QED
  BY <1>2, <1>3

LEMMA StepTypeOK == TypeInv /\ [Next]_vars => TypeOK'
<1> SUFFICES ASSUME TypeInv, [Next]_vars PROVE TypeOK'
  OBVIOUS
<1>0. TypeOK
  BY DEF TypeInv
<1> USE DEF lists, history, Fixed
<1>1. CASE SkipRow
  <2>1. row \in DOMAIN doc
    BY <1>0, <1>1, DocFacts DEF SkipRow
  <2> QED
    BY <1>0, <1>1, <2>1, DocFacts DEF SkipRow, InPass, TypeOK
<1>2. CASE RejectRow
  <2>1. row \in DOMAIN doc
    BY <1>0, <1>2, DocFacts DEF RejectRow
  <2>2. failures' \in 0..MaxFailures /\ hurt' \subseteq DOMAIN doc /\ Fail
    BY <1>0, <1>2, <2>1, MayFailType DEF RejectRow, FailHurt, TypeOK
  <2> QED
    BY <1>0, <1>2, <2>1, <2>2, FailType DEF RejectRow, TypeOK
<1>3. CASE CheckRow
  <2>1. row \in DOMAIN doc /\ target' \in Ids
    BY <1>0, <1>3, CheckTarget
  <2> QED
    BY <1>0, <1>3, <2>1 DEF CheckRow, TypeOK
<1>4. CASE Deactivate
  <2>1. row \in DOMAIN doc
    BY <1>0, <1>4, DocFacts DEF Deactivate, InRow
  <2>2. CASE pc' = "store"
    <3>1. db' = db \/ db' = [db EXCEPT ![target].status = "nonactive"]
      BY <1>4, <2>2 DEF Deactivate, FailHurt, Fail
    <3>2. db' \in [Ids -> Asset]
      BY <1>0, <3>1, StatusOnly DEF TypeOK, Statuses
    <3> QED
      BY <1>0, <1>4, <2>1, <2>2, <3>2 DEF Deactivate, FailHurt, Fail, TypeOK
  <2>3. CASE pc' # "store"
    <3>1. FailHurt /\ UNCHANGED <<db, licensed, committed, late, halfway, target, warning>>
      BY <1>4, <2>3 DEF Deactivate
    <3>2. failures' \in 0..MaxFailures /\ hurt' \subseteq DOMAIN doc /\ Fail
      BY <1>0, <3>1, <2>1, MayFailType DEF FailHurt, TypeOK
    <3> QED
      BY <1>0, <1>4, <2>1, <3>1, <3>2, FailType DEF Deactivate, TypeOK
  <2> QED
    BY <2>2, <2>3
<1>5. CASE Store
  <2>1. row \in DOMAIN doc /\ doc[row] \in Row /\ pc = "store"
    BY <1>0, <1>5, DocFacts DEF Store, InRow
  <2>2. CASE pc' # "check"
    <3>1. ToAsset(doc[row]) \in Asset
      BY <2>1, StoresAnAsset DEF TypeInv, Unstored
    <3>2. db' = [db EXCEPT ![target] = ToAsset(doc[row])]
      BY <1>5, <2>2 DEF Store, FailHurt, Fail
    <3>3. db' \in [Ids -> Asset]
      BY <1>0, <3>1, <3>2 DEF TypeOK
    <3> QED
      BY <1>0, <1>5, <2>1, <2>2, <3>3 DEF Store, FailHurt, Fail, TypeOK
  <2>3. CASE pc' = "check"
    <3>1. FailHurt /\ UNCHANGED <<db, committed, licensed, target, warning, late>>
      BY <1>5, <2>3 DEF Store
    <3>2. halfway' \subseteq Ids
      BY <1>0, <1>5 DEF Store, HalfDone, TypeOK
    <3>3. failures' \in 0..MaxFailures /\ hurt' \subseteq DOMAIN doc /\ Fail
      BY <1>0, <3>1, <2>1, MayFailType DEF FailHurt, TypeOK
    <3> QED
      BY <1>0, <1>5, <2>1, <3>1, <3>2, <3>3, FailType DEF Store, TypeOK
  <2> QED
    BY <2>2, <2>3
<1>6. CASE Activate
  <2>1. row \in DOMAIN doc
    BY <1>0, <1>6, DocFacts DEF Activate, InRow
  <2>2. db' = db \/ db' = [db EXCEPT ![target].status = "active"]
    BY <1>6 DEF Activate
  <2>3. db' \in [Ids -> Asset]
    BY <1>0, <2>2, StatusOnly DEF TypeOK, Statuses
  <2>4. failures' \in 0..MaxFailures
    BY <1>0, <1>6, MayFailType DEF Activate, TypeOK
  <2> QED
    BY <1>0, <1>6, <2>1, <2>3, <2>4 DEF Activate, TypeOK
<1>7. CASE Finish
  <2>1. row \in DOMAIN doc
    BY <1>0, <1>7, DocFacts DEF Finish, InRow
  <2>2. CASE Accept /\ UNCHANGED <<failures, hurt, late>>
    <3>0. okRows \in Seq(DOMAIN doc) /\ failRows \subseteq DOMAIN doc
      BY <1>0 DEF TypeOK
    <3>1. okRows' \in Seq(DOMAIN doc) /\ failRows' \subseteq DOMAIN doc
      <4>1. okRows' = okRows \/ okRows' = Append(okRows, row)
        BY <2>2 DEF Accept
      <4>2. failRows' = failRows \/ failRows' = failRows \cup {row}
        BY <2>2 DEF Accept
      <4> QED
        BY <2>1, <3>0, <4>1, <4>2
    <3>2. ids' \subseteq Ids
      BY <1>0, <2>1, <2>2, DocFacts DEF Accept, TypeOK, Row
    <3> QED
      BY <1>0, <1>7, <2>1, <2>2, <3>1, <3>2, DocFacts DEF Finish, Accept, TypeOK
  <2>3. CASE FailHurt /\ late' = late \cup {row}
    <3>1. failures' \in 0..MaxFailures /\ hurt' \subseteq DOMAIN doc /\ Fail
      BY <1>0, <2>1, <2>3, MayFailType DEF FailHurt, TypeOK
    <3> QED
      BY <1>0, <1>7, <2>1, <2>3, <3>1, FailType DEF Finish, TypeOK
  <2> QED
    BY <1>7, <2>2, <2>3 DEF Finish
<1>8. CASE EndPass
  <2>1. Len(doc) \in Nat /\ row' \in 1..Len(doc) + 1 /\ doc' = doc
    BY <1>0, <1>8, DocFacts DEF EndPass
  <2>2. /\ somethingProcessed' \in BOOLEAN /\ pc' \in {"check", "done"}
        /\ failRows' \subseteq DOMAIN doc /\ hurt' \subseteq DOMAIN doc
    BY <1>0, <1>8 DEF EndPass, TypeOK
  <2> QED
    BY <1>0, <1>8, <2>1, <2>2 DEF EndPass, TypeOK
<1>9. CASE Abort
  <2>1. halfway' \subseteq Ids
    BY <1>0, <1>9 DEF Abort, HalfDone, TypeOK
  <2> QED
    BY <1>0, <1>9, <2>1 DEF Abort, TypeOK
<1>10. CASE UNCHANGED vars
  BY <1>0, <1>10 DEF vars, TypeOK
<1> QED
  BY <1>1, <1>2, <1>3, <1>4, <1>5, <1>6, <1>7, <1>8, <1>9, <1>10 DEF Next, Import, ProcessRow

LEMMA RowStaysValid ==
  ASSUME Stored' = Stored, \A n : Named(n)' = Named(n), UNCHANGED <<doc, row>>
  PROVE  BadReference(doc[row])' = BadReference(doc[row])
<1>1. \A ref : sanitize(ref)' = sanitize(ref) /\ Found(ref)' = Found(ref)
  BY SameReferences
<1> DEFINE r == doc[row]
<1>2. r' = r
  OBVIOUS
<1> HIDE DEF r
<1>3. OwnSource(r)' = OwnSource(r)
  BY <1>1, <1>2 DEF OwnSource
<1>4. BadReference(r)' = BadReference(r)
  BY <1>1, <1>2, <1>3 DEF BadReference
<1> QED
  BY <1>4 DEF r

LEMMA SameDb ==
  ASSUME db' = db
  PROVE  Stored' = Stored /\ \A n : Named(n)' = Named(n)
BY DEF Stored, Named

(* The references of a row are checked once, before its device is            *)
(* deactivated, and used when it is stored.                                  *)
LEMMA StepReferences ==
  TypeInv /\ [Next]_vars => (pc \in Unstored => ~BadReference(doc[row]))'
<1> SUFFICES ASSUME TypeInv, [Next]_vars, pc' \in Unstored
             PROVE  ~BadReference(doc[row])'
  BY DEF Unstored
<1>0. TypeOK
  BY DEF TypeInv
<1> USE DEF Fixed
<1>1. CASE CheckRow
  <2>1. ~BadReference(doc[row]) /\ UNCHANGED <<doc, row, db>>
    BY <1>1 DEF CheckRow, Rejected
  <2> QED
    BY <2>1, SameDb, RowStaysValid
<1>2. CASE Deactivate
  <2>1. db' = db \/ db' = [db EXCEPT ![target].status = "nonactive"]
    BY <1>2 DEF Deactivate, FailHurt, Fail
  <2>2. ~BadReference(doc[row]) /\ UNCHANGED <<doc, row>>
    BY <1>2 DEF Deactivate, FailHurt, Fail, TypeInv, Unstored
  <2>3. Stored' = Stored /\ \A n : Named(n)' = Named(n)
    BY <1>0, <2>1, StatusOnly DEF TypeOK, Statuses
  <2> QED
    BY <2>2, <2>3, RowStaysValid
<1>3. CASE UNCHANGED vars
  <2>1. UNCHANGED <<doc, row, db, pc>>
    BY <1>3 DEF vars
  <2> QED
    BY <2>1, SameDb, RowStaysValid DEF TypeInv
<1>4. CASE SkipRow
  BY <1>4 DEF SkipRow, InPass, Unstored
<1>5. CASE RejectRow \/ Store \/ Activate \/ Finish \/ EndPass \/ Abort
  BY <1>5 DEF RejectRow, Store, Activate, Finish, EndPass, Abort, FailHurt, Fail, Accept, Unstored
<1> QED
  BY <1>1, <1>2, <1>3, <1>4, <1>5 DEF Next, Import, ProcessRow

LEMMA InitType == Init => TypeInv
<1> SUFFICES ASSUME Init PROVE TypeInv
  OBVIOUS
<1>1. doc \in Seq(Row) /\ db \in [Ids -> Asset]
  BY AssetImportAssumption DEF Init, Start
<1>2. Len(doc) \in Nat /\ row \in 1..Len(doc) + 1
  BY <1>1 DEF Init, Start
<1>3. okRows = <<>>
  BY DEF Init, Start
<1>4. okRows \in Seq(DOMAIN doc)
  BY <1>3
<1>5. /\ configurable \in BOOLEAN /\ licensed \subseteq Ids /\ pc = "check" /\ target = RC0
      /\ warning = FALSE /\ ids = {} /\ failRows = {} /\ processedRows = {}
      /\ somethingProcessed = FALSE /\ failures = 0
      /\ hurt = {} /\ committed = {} /\ late = {} /\ halfway = {}
  BY DEF Init, Start, get_licensing_limitation
<1>6. target \in Ids /\ failures \in 0..MaxFailures
  BY <1>5, ConstantFacts
<1>7. {failRows, processedRows, hurt, committed, late} \subseteq SUBSET DOMAIN doc
  BY <1>5
<1>8. TypeOK
  BY <1>1, <1>2, <1>4, <1>5, <1>6, <1>7 DEF TypeOK
<1> QED
  BY <1>5, <1>8 DEF TypeInv, Unstored

(* The invariant of the types is inductive. *)
LEMMA TypeInductive == Spec => []TypeInv
<1>1. TypeInv /\ [Next]_vars => TypeInv'
  BY StepTypeOK, StepReferences DEF TypeInv
<1> QED
  BY <1>1, InitType, PTL DEF Spec

(* The types: the row the loop is at is a row of the document whenever a     *)
(* step of process_row is under way, and every asset stored has valid        *)
(* references, in the order load_asset_csv runs its checks and its writes.   *)
THEOREM ImportTypeCorrect == Spec => []TypeOK
<1>1. TypeInv => TypeOK
  BY DEF TypeInv
<1> QED
  BY <1>1, TypeInductive, PTL

------------------------------------------------------------------------------
(* The steps, each with what it does to the database *)

LEMMA StoredRow ==
  ASSUME TypeInv, pc = "store", db' = [db EXCEPT ![target] = ToAsset(doc[row])]
  PROVE  /\ row \in DOMAIN doc /\ doc[row] \in Row /\ target \in Ids
         /\ Stored' = Stored \cup {target}
         /\ \A j \in Ids : j # target => db'[j] = db[j]
         /\ db'[target].name = doc[row].name /\ db'[target].kind = doc[row].kind
         /\ db'[target].status = StoredStatus(doc[row])
<1>1. db \in [Ids -> Asset] /\ target \in Ids
  BY DEF TypeInv, TypeOK
<1>2. row \in DOMAIN doc /\ doc[row] \in Row
  BY DocFacts DEF TypeInv, InRow
<1>3. db'[target] = ToAsset(doc[row]) /\ \A j \in Ids : j # target => db'[j] = db[j]
  BY <1>1
<1>4. /\ db'[target].name = doc[row].name /\ db'[target].kind = doc[row].kind
      /\ db'[target].status = StoredStatus(doc[row])
  BY <1>3 DEF ToAsset
<1>5. doc[row].kind # "vacant"
  BY <1>2 DEF Row, Kinds
<1>6. Stored' = Stored \cup {target}
  BY <1>1, <1>3, <1>4, <1>5 DEF Stored
<1> QED
  BY <1>1, <1>2, <1>3, <1>4, <1>6

(* Every step but the storing of a row changes one status at most. *)
LEMMA StepKinds ==
  ASSUME TypeInv, [Next]_vars
  PROVE  \/ /\ pc = "store" /\ db' = [db EXCEPT ![target] = ToAsset(doc[row])]
            /\ pc' \notin Unstored /\ UNCHANGED <<doc, row, target>>
         \/ /\ Stored' = Stored /\ \A n : Named(n)' = Named(n)
            /\ \A j \in Ids : db'[j].name = db[j].name /\ db'[j].kind = db[j].kind
            /\ pc' \in Unstored =>
                 CheckRow \/ (pc \in Unstored /\ UNCHANGED <<doc, row, target>>)
<1>0. TypeOK
  BY DEF TypeInv
<1> USE DEF Fixed
<1>1. CASE CheckRow
  BY <1>1, SameDb DEF CheckRow
<1>2. CASE Deactivate
  <2>1. db' = db \/ db' = [db EXCEPT ![target].status = "nonactive"]
    BY <1>2 DEF Deactivate, FailHurt, Fail
  <2>2. pc \in Unstored /\ pc' \in Unstored => UNCHANGED <<doc, row, target>>
    BY <1>2 DEF Deactivate, FailHurt, Fail, Unstored
  <2>3. pc \in Unstored
    BY <1>2 DEF Deactivate, Unstored
  <2> QED
    BY <1>0, <2>1, <2>2, <2>3, StatusOnly DEF TypeOK, Statuses
<1>3. CASE Store
  <2>1. CASE pc' = "check"
    BY <1>3, <2>1, SameDb DEF Store, Unstored
  <2>2. CASE pc' # "check"
    BY <1>3, <2>2 DEF Store, FailHurt, Fail, Unstored
  <2> QED
    BY <2>1, <2>2
<1>4. CASE Activate
  <2>1. db' = db \/ db' = [db EXCEPT ![target].status = "active"]
    BY <1>4 DEF Activate
  <2> QED
    BY <1>0, <1>4, <2>1, StatusOnly DEF Activate, TypeOK, Statuses, Unstored
<1>5. CASE SkipRow \/ RejectRow \/ Finish \/ EndPass \/ Abort
  BY <1>5, SameDb
     DEF SkipRow, InPass, RejectRow, Finish, EndPass, Abort, FailHurt, Fail, Accept, Unstored
<1>6. CASE UNCHANGED vars
  BY <1>6, SameDb DEF vars
<1> QED
  BY <1>1, <1>2, <1>3, <1>4, <1>5, <1>6 DEF Next, Import, ProcessRow

------------------------------------------------------------------------------
(* Names *)

NamesInv ==
  /\ NamesUnique
  /\ pc \in Unstored => Named(doc[row].name) \subseteq {target}

LEMMA StepNames == TypeInv /\ NamesInv /\ [Next]_vars => NamesInv'
<1> SUFFICES ASSUME TypeInv, NamesInv, [Next]_vars PROVE NamesInv'
  OBVIOUS
<1>1. CASE /\ pc = "store" /\ db' = [db EXCEPT ![target] = ToAsset(doc[row])]
           /\ pc' \notin Unstored
  <2>1. Named(doc[row].name) \subseteq {target}
    BY <1>1 DEF NamesInv, Unstored
  <2>2. \A i \in Stored : i # target => db[i].name # doc[row].name
    BY <2>1 DEF Named
  <2>3. Stored \subseteq Ids
    BY DEF Stored
  <2>4. NamesUnique'
    BY <1>1, <2>2, <2>3, StoredRow DEF NamesInv, NamesUnique
  <2> QED
    BY <1>1, <2>4 DEF NamesInv
<1>2. CASE /\ Stored' = Stored /\ \A n : Named(n)' = Named(n)
           /\ \A j \in Ids : db'[j].name = db[j].name
           /\ pc' \in Unstored =>
                 CheckRow \/ (pc \in Unstored /\ UNCHANGED <<doc, row, target>>)
  <2>1. NamesUnique'
    BY <1>2 DEF NamesInv, NamesUnique, Stored
  <2> DEFINE n == doc[row].name
  <2>2. ASSUME pc' \in Unstored PROVE Named(n)' \subseteq {target'}
    <3>1. UNCHANGED <<doc, row>>
      BY <1>2, <2>2 DEF CheckRow, Fixed
    <3>2. n' = n
      BY <3>1
    <3>3. Named(n)' = Named(n)
      <4> HIDE DEF n
      <4> QED
        BY <1>2, <3>2 DEF Named, Stored
    <3>4. CASE CheckRow
      <4>1. doc[row] \in Row /\ (Updates(doc[row]) => target' = doc[row].id)
        BY <3>4, CheckTarget DEF TypeInv
      <4>2. Named(n) \in {{}, {doc[row].id}}
        BY <3>4 DEF CheckRow, Rejected, NameConflict
      <4>3. ~Updates(doc[row]) => Named(n) = {}
        BY <4>2, ConstantFacts DEF Named, Stored, Updates
      <4> QED
        BY <3>3, <4>1, <4>2, <4>3
    <3>5. CASE pc \in Unstored /\ UNCHANGED <<doc, row, target>>
      BY <3>3, <3>5 DEF NamesInv
    <3> QED
      BY <1>2, <2>2, <3>4, <3>5
  <2> QED
    BY <2>1, <2>2 DEF NamesInv
<1> QED
  BY <1>1, <1>2, StepKinds

LEMMA InitNames == Init => NamesInv
BY AssetImportAssumption DEF Init, Start, NamesInv, NamesUnique, Stored, Unstored

(* process_row refuses a name another asset has; since the name of an        *)
(* update or of a creation is checked once and stored later, the invariant   *)
(* is that nobody else takes it in between.                                  *)
THEOREM ImportKeepsNamesUnique == Spec => []NamesUnique
<1>1. NamesInv => NamesUnique
  BY DEF NamesInv
<1> QED
  BY <1>1, InitNames, StepNames, TypeInductive, PTL DEF Spec

------------------------------------------------------------------------------
(* Licences *)

Agrees(i) ==
  /\ i \in licensed => db[i].status = "active"
  /\ db[i].kind = "device" /\ db[i].status = "active" => i \in licensed

(* The asset a row is about, while it is not stored yet. *)
TargetOfRow ==
  /\ Updates(doc[row]) => /\ target = doc[row].id /\ target \in Stored
                          /\ db[target].kind = doc[row].kind
  /\ ~Updates(doc[row]) => target \notin Stored

LicInv ==
  /\ LicencesAgree
  /\ licensed \subseteq Stored /\ RC0 \notin licensed
  /\ \A i \in licensed : db[i].kind # "place"
  /\ db[RC0].kind = "rack controller"
  /\ halfway \cap licensed = {}
  /\ pc \in Unstored => TargetOfRow
  /\ pc = "store" => target \notin licensed
  /\ pc = "activate" => /\ target \in Stored \ (halfway \cup {RC0})
                        /\ db[target].kind # "place"

LEMMA LicCheck == TypeInv /\ LicInv /\ CheckRow => LicInv'
<1> SUFFICES ASSUME TypeInv, LicInv, CheckRow PROVE LicInv'
  OBVIOUS
<1> DEFINE r == doc[row]
<1>1. /\ UNCHANGED <<db, licensed, halfway, doc, row>>
      /\ pc = "check" /\ pc' \in Unstored
      /\ pc' = "store" => ~MustDeactivate(r)
  BY DEF CheckRow, InPass, Fixed, history, Unstored
<1>2. /\ Updates(r) => target' = r.id /\ target' \in Stored /\ db[target'].kind = r.kind
      /\ ~Updates(r) => target' \notin Stored
  BY CheckTarget DEF TypeInv
<1>3. Stored' = Stored /\ Updates(r)' = Updates(r)
  BY <1>1 DEF Stored, Updates
<1>4. TargetOfRow'
  BY <1>1, <1>2, <1>3 DEF TargetOfRow
<1>5. \A i \in Stored : i \in halfway \/ Agrees(i)
  BY <1>1 DEF LicInv, LicencesAgree, Agrees
<1>6. LicencesAgree'
  BY <1>1, <1>3, <1>5 DEF LicencesAgree, Agrees
<1>7. ASSUME pc' = "store" PROVE target' \notin licensed
  <2>1. CASE ~Updates(r)
    BY <1>2, <2>1 DEF LicInv
  <2>2. CASE Updates(r) /\ ~Licensed(r)
    BY <1>2, <2>2 DEF LicInv, Licensed
  <2>3. CASE Updates(r) /\ Licensed(r)
    <3>1. db[target'].status # "active"
      BY <1>1, <1>2, <1>7, <2>3 DEF MustDeactivate
    <3> QED
      BY <1>2, <1>5, <2>3, <3>1 DEF LicInv, Agrees
  <2> QED
    BY <2>1, <2>2, <2>3
<1>8. pc' # "activate"
  BY <1>1 DEF Unstored
<1> QED
  BY <1>1, <1>3, <1>4, <1>6, <1>7, <1>8 DEF LicInv

LEMMA LicDeactivate ==
  ASSUME TypeInv, LicInv, Deactivate, pc' = "store"
  PROVE  LicInv'
<1>1. /\ pc = "deactivate" /\ licensed' = licensed \ {target}
      /\ db' = db \/ db' = [db EXCEPT ![target].status = "nonactive"]
      /\ UNCHANGED <<halfway, doc, row, target>>
  BY DEF Deactivate, Fixed, history, FailHurt, Fail
<1>2. /\ Stored' = Stored /\ Stored \subseteq Ids
      /\ \A j \in Ids : db'[j].kind = db[j].kind
      /\ \A j \in Ids : j # target => db'[j] = db[j]
  BY <1>1, StatusOnly DEF TypeInv, TypeOK, Statuses, Stored
<1>3. TargetOfRow'
  BY <1>1, <1>2 DEF LicInv, Unstored, TargetOfRow, Updates
<1>4. LicencesAgree'
  BY <1>1, <1>2 DEF LicInv, LicencesAgree
<1> QED
  BY <1>1, <1>2, <1>3, <1>4, ConstantFacts DEF LicInv

LEMMA LicStore ==
  ASSUME TypeInv, LicInv, Store, pc' # "check"
  PROVE  LicInv'
<1> DEFINE r == doc[row]
<1>1. /\ pc = "store" /\ db' = [db EXCEPT ![target] = ToAsset(doc[row])]
      /\ pc' \in {"activate", "finish"} /\ (pc' = "activate" => Licensed(r))
      /\ halfway' = halfway \ {target} /\ UNCHANGED <<licensed, doc, row, target>>
  BY DEF Store, Fixed, FailHurt, Fail
<1>2. /\ r \in Row /\ target \in Ids /\ Stored' = Stored \cup {target}
      /\ \A j \in Ids : j # target => db'[j] = db[j]
      /\ db'[target].kind = r.kind /\ db'[target].status = StoredStatus(r)
  BY <1>1, StoredRow
<1>3. TargetOfRow /\ target \notin licensed /\ RC0 \in Stored /\ Stored \subseteq Ids
  BY <1>1, ConstantFacts DEF LicInv, Unstored, Stored
<1>4. r.kind = "device" => Licensed(r)
  BY <1>3, ConstantFacts DEF Licensed, TargetOfRow, LicInv, Updates
<1>5. Licensed(r) => StoredStatus(r) # "active"
  BY DEF StoredStatus
<1>6. LicencesAgree'
  <2> SUFFICES ASSUME NEW i \in Stored' PROVE i \in halfway' \/ Agrees(i)'
    BY DEF LicencesAgree, Agrees
  <2>1. CASE i = target
    BY <1>1, <1>2, <1>3, <1>4, <1>5, <2>1 DEF Agrees
  <2>2. CASE i # target
    BY <1>1, <1>2, <1>3, <2>2 DEF LicInv, LicencesAgree, Agrees
  <2> QED
    BY <2>1, <2>2
<1>7. db'[RC0].kind = "rack controller"
  BY <1>2, <1>3, ConstantFacts DEF LicInv, TargetOfRow
<1>8. pc' = "activate" => target # RC0 /\ r.kind # "place"
  BY <1>1, <1>3 DEF Licensed, TargetOfRow
<1> QED
  BY <1>1, <1>2, <1>3, <1>6, <1>7, <1>8 DEF LicInv, Unstored

(* The update of a device that was deactivated is not stored. *)
LEMMA LicHalfDone ==
  ASSUME TypeInv, LicInv, pc = "store", halfway' = HalfDone, UNCHANGED <<db, licensed>>,
         pc' \notin {"deactivate", "store", "activate"}
  PROVE  LicInv'
<1>1. Stored' = Stored /\ TargetOfRow /\ target \notin licensed
  BY DEF Stored, LicInv, Unstored
<1>2. halfway' = halfway \/ halfway' = halfway \cup {target}
  BY DEF HalfDone
<1>3. LicencesAgree'
  <2> SUFFICES ASSUME NEW i \in Stored PROVE i \in halfway' \/ Agrees(i)
    BY <1>1 DEF LicencesAgree, Agrees
  <2>1. CASE i = target
    <3>1. ASSUME db[i].kind = "device", db[i].status = "active" PROVE i \in halfway'
      BY <1>1, <2>1, <3>1 DEF HalfDone, MustDeactivate, TargetOfRow, Licensed, LicInv
    <3> QED
      BY <1>1, <2>1, <3>1 DEF Agrees
  <2>2. CASE i # target
    BY <1>2, <2>2 DEF LicInv, LicencesAgree, Agrees
  <2> QED
    BY <2>1, <2>2
<1> QED
  BY <1>1, <1>2, <1>3 DEF LicInv, Unstored

LEMMA LicActivate ==
  ASSUME TypeInv, LicInv, Activate
  PROVE  LicInv'
<1>1. /\ pc = "activate" /\ pc' = "finish"
      /\ \/ licensed' = licensed \cup {target} /\ db' = [db EXCEPT ![target].status = "active"]
         \/ UNCHANGED <<licensed, db>>
      /\ UNCHANGED <<halfway, target>>
  BY DEF Activate, history
<1>2. CASE UNCHANGED <<licensed, db>>
  <2>1. Stored' = Stored
    BY <1>2 DEF Stored
  <2>2. LicencesAgree'
    BY <1>1, <1>2, <2>1 DEF LicInv, LicencesAgree
  <2> QED
    BY <1>1, <1>2, <2>1, <2>2 DEF LicInv, Unstored
<1>3. CASE licensed' = licensed \cup {target} /\ db' = [db EXCEPT ![target].status = "active"]
  <2>1. /\ Stored' = Stored /\ Stored \subseteq Ids /\ target \in Ids
        /\ \A j \in Ids : db'[j].kind = db[j].kind
        /\ \A j \in Ids : j # target => db'[j] = db[j]
    BY <1>3, StatusOnly DEF TypeInv, TypeOK, Statuses, Stored
  <2>2. db'[target].status = "active"
    BY <1>3, <2>1 DEF TypeInv, TypeOK, Asset
  <2>3. LicencesAgree'
    BY <1>1, <1>3, <2>1, <2>2 DEF LicInv, LicencesAgree
  <2> QED
    BY <1>1, <1>3, <2>1, <2>3, ConstantFacts DEF LicInv, Unstored
<1> QED
  BY <1>1, <1>2, <1>3

LEMMA LicQuiet ==
  ASSUME LicInv, UNCHANGED <<db, licensed, halfway>>, pc # "store",
         pc' \notin {"deactivate", "store", "activate"}
  PROVE  LicInv'
<1>1. Stored' = Stored
  BY DEF Stored
<1>2. LicencesAgree'
  BY <1>1 DEF LicInv, LicencesAgree
<1> QED
  BY <1>1, <1>2 DEF LicInv, Unstored

LEMMA StepLicences == TypeInv /\ LicInv /\ [Next]_vars => LicInv'
<1> SUFFICES ASSUME TypeInv, LicInv, [Next]_vars PROVE LicInv'
  OBVIOUS
<1> USE DEF history, FailHurt, Fail
<1>1. CASE Deactivate /\ pc' # "store"
  BY <1>1, LicQuiet DEF Deactivate
<1>2. CASE Store /\ pc' = "check"
  BY <1>2, LicHalfDone DEF Store
<1>3. CASE Abort
  BY <1>3, LicHalfDone, LicQuiet DEF Abort
<1>4. CASE SkipRow \/ RejectRow \/ Finish \/ EndPass
  BY <1>4, LicQuiet DEF SkipRow, InPass, RejectRow, Finish, Accept, EndPass
<1>5. CASE UNCHANGED vars
  <2>1. UNCHANGED <<db, licensed, halfway, pc, doc, row, target>>
    BY <1>5 DEF vars
  <2>2. Stored' = Stored
    BY <2>1 DEF Stored
  <2> QED
    BY <2>1, <2>2 DEF LicInv, LicencesAgree, TargetOfRow, Updates
<1> QED
  BY <1>1, <1>2, <1>3, <1>4, <1>5, LicCheck, LicDeactivate, LicStore, LicActivate
     DEF Next, Import, ProcessRow

LEMMA InitLicences == Init => LicInv
<1> SUFFICES ASSUME Init PROVE LicInv
  OBVIOUS
<1>1. /\ db = InitialDb /\ pc = "check" /\ halfway = {} /\ db[RC0].kind = "rack controller"
      /\ licensed = {i \in Ids : db[i].kind = "device" /\ db[i].status = "active"}
  BY AssetImportAssumption DEF Init, Start
<1> QED
  BY <1>1 DEF LicInv, LicencesAgree, Stored, Unstored

(* An update of an active device deactivates it, stores it inactive and      *)
(* activates it again, and any of the three may fail.  The status stored and *)
(* the count of the licensing agent agree nevertheless, because no status    *)
(* "active" is stored by the transaction itself.                             *)
THEOREM ImportKeepsLicences == Spec => []LicencesAgree
<1>1. LicInv => LicencesAgree
  BY DEF LicInv
<1> QED
  BY <1>1, InitLicences, StepLicences, TypeInductive, PTL DEF Spec

------------------------------------------------------------------------------
(* The report *)

Committing == {"activate", "finish"}

ReportInv ==
  /\ \A p, q \in DOMAIN okRows : p # q => okRows[p] # okRows[q]
  /\ \A p \in DOMAIN okRows : okRows[p] \in committed \cap processedRows
  /\ pc \in InRow => row \notin processedRows
  /\ pc \in Committing => row \in committed
  /\ pc # "aborted" =>
       \A q \in committed : q \in processedRows \cup late \/ (pc \in Committing /\ q = row)
  /\ failRows \cap processedRows # {} => somethingProcessed
  /\ pc = "done" => ~somethingProcessed

LEMMA ReportFail ==
  ASSUME ReportInv, Fail, row \notin processedRows,
         committed' = committed, late' = late \/ late' = late \cup {row},
         pc \in Committing => row \in late', pc # "aborted"
  PROVE  ReportInv'
BY DEF ReportInv, Fail, InRow, Committing

LEMMA ReportAccept ==
  ASSUME TypeOK, ReportInv, Accept, pc = "finish", UNCHANGED <<committed, late>>
  PROVE  ReportInv'
<1>1. row \notin processedRows /\ row \in committed
  BY DEF ReportInv, InRow, Committing
<1>2. okRows' = okRows \/ okRows' = Append(okRows, row)
  BY DEF Accept
<1>3. /\ okRows \in Seq(DOMAIN doc) /\ Len(okRows) \in Nat
      /\ DOMAIN okRows = 1..Len(okRows)
  BY DEF TypeOK
<1>4. /\ \A p, q \in DOMAIN okRows : p # q => okRows[p] # okRows[q]
      /\ \A p \in DOMAIN okRows : okRows[p] \in committed \cap processedRows
  BY DEF ReportInv
<1>5. /\ \A p, q \in DOMAIN okRows' : p # q => okRows'[p] # okRows'[q]
      /\ \A p \in DOMAIN okRows' : okRows'[p] \in committed \cap (processedRows \cup {row})
  <2>1. CASE okRows' = okRows
    BY <1>4, <2>1
  <2>2. CASE okRows' = Append(okRows, row)
    <3> DEFINE n == Len(okRows) + 1
    <3>1. /\ DOMAIN okRows' = 1..n /\ okRows'[n] = row
          /\ \A p \in 1..n : p # n => p \in DOMAIN okRows /\ okRows'[p] = okRows[p]
      <4>1. row \in DOMAIN doc
        BY DEF TypeOK
      <4>2. okRows' \in Seq(DOMAIN doc) /\ Len(okRows') = n
        BY <1>3, <2>2, <4>1
      <4>3. DOMAIN okRows' = 1..n
        BY <1>3, <4>2
      <4>4. okRows'[n] = row
        BY <1>3, <2>2, <4>1
      <4>5. ASSUME NEW p \in 1..n, p # n
            PROVE  p \in DOMAIN okRows /\ okRows'[p] = okRows[p]
        <5>1. p \in 1..Len(okRows)
          BY <1>3, <4>5
        <5> QED
          BY <1>3, <2>2, <4>1, <5>1
      <4> QED
        BY <4>3, <4>4, <4>5
    <3> HIDE DEF n
    <3> QED
      BY <1>1, <1>4, <3>1
  <2> QED
    BY <1>2, <2>1, <2>2
<1>6. /\ processedRows' = processedRows \cup {row} /\ somethingProcessed' = TRUE /\ pc' = "check"
      /\ UNCHANGED <<committed, late>>
  BY DEF Accept
<1>7. \A q \in committed : q \in processedRows \cup late \/ q = row
  BY DEF ReportInv
<1> QED
  BY <1>5, <1>6, <1>7 DEF ReportInv, InRow, Committing

LEMMA StepReport == TypeInv /\ ReportInv /\ [Next]_vars => ReportInv'
<1> SUFFICES ASSUME TypeInv, ReportInv, [Next]_vars PROVE ReportInv'
  OBVIOUS
<1>0. TypeOK
  BY DEF TypeInv
<1> USE DEF lists, history
<1>1. CASE RejectRow
  <2>1. Fail /\ UNCHANGED <<committed, late>> /\ row \notin processedRows /\ pc = "check"
    BY <1>1 DEF RejectRow, FailHurt, InPass
  <2> QED
    BY <2>1, ReportFail DEF Committing
<1>2. CASE (Deactivate \/ Store) /\ pc' = "check"
  <2>1. Fail /\ UNCHANGED <<committed, late>> /\ pc \in {"deactivate", "store"}
    BY <1>2 DEF Deactivate, Store, FailHurt
  <2> QED
    BY <2>1, ReportFail DEF Committing, InRow, ReportInv
<1>3. CASE Finish
  <2>1. CASE Accept /\ UNCHANGED <<failures, hurt, late>>
    BY <1>0, <1>3, <2>1, ReportAccept DEF Finish
  <2>2. CASE FailHurt /\ late' = late \cup {row}
    <3>1. Fail /\ pc = "finish" /\ row \notin processedRows /\ committed' = committed
      BY <1>3, <2>2 DEF Finish, FailHurt, ReportInv, InRow
    <3> QED
      BY <2>2, <3>1, ReportFail
  <2> QED
    BY <1>3, <2>1, <2>2 DEF Finish
<1>4. CASE Store /\ pc' # "check"
  <2>1. /\ pc = "store" /\ pc' \in Committing /\ committed' = committed \cup {row}
        /\ UNCHANGED <<row, lists, late>>
    BY <1>4 DEF Store, FailHurt, Fail, Committing
  <2> QED
    BY <2>1 DEF ReportInv, InRow, Committing
<1>5. CASE SkipRow
  BY <1>5 DEF SkipRow, InPass, ReportInv, InRow, Committing
<1>6. CASE CheckRow
  BY <1>6 DEF CheckRow, InPass, ReportInv, InRow, Committing
<1>7. CASE Deactivate /\ pc' # "check"
  BY <1>7 DEF Deactivate, FailHurt, Fail, ReportInv, InRow, Committing
<1>8. CASE Activate
  BY <1>8 DEF Activate, ReportInv, InRow, Committing
<1>9. CASE EndPass
  BY <1>9 DEF EndPass, Repeat, ReportInv, InRow, Committing
<1>10. CASE Abort
  BY <1>10 DEF Abort, ReportInv, InRow, Committing
<1>11. CASE UNCHANGED vars
  BY <1>11 DEF vars, ReportInv
<1> QED
  BY <1>1, <1>2, <1>3, <1>4, <1>5, <1>6, <1>7, <1>8, <1>9, <1>10, <1>11
     DEF Next, Import, ProcessRow

LEMMA InitReport == Init => ReportInv
BY DEF Init, Start, ReportInv, InRow, Committing

(* What load_asset_csv reports is what it did, over all its passes: a row    *)
(* imported with a warning is taken off the rejected ones by the pass after, *)
(* since the pass that imports a row is never the last.                      *)
THEOREM ImportReportIsTrue == Spec => []ReportIsTrue
<1>1. ReportInv => ReportIsTrue
  BY DEF ReportInv, ReportIsTrue, Committing
<1> QED
  BY <1>1, InitReport, StepReport, TypeInductive, PTL DEF Spec

------------------------------------------------------------------------------
(* The fixpoint *)

Seen == {doc[p].id : p \in processedRows}
Checking == {"check", "deactivate", "store"}

(* The rows up to n that this pass has left behind are refused as things are. *)
LeftBehind(n) ==
  \A q \in 1..n : q \in DOMAIN doc \ (processedRows \cup hurt) => Rejected(doc[q], ids)

FixInv ==
  /\ ids = Seen \ {None}
  /\ pc \in Checking /\ ~somethingProcessed /\ hurt \cap late = {} => LeftBehind(row - 1)
  /\ pc = "done" /\ hurt \cap late = {} => LeftBehind(Len(doc))

LEMMA SameRejections ==
  ASSUME TypeOK, Stored' = Stored, \A n : Named(n)' = Named(n),
         \A j \in Ids : db'[j].kind = db[j].kind,
         UNCHANGED <<doc, configurable, ids>>, NEW q \in DOMAIN doc
  PROVE  Rejected(doc[q], ids)' = Rejected(doc[q], ids)
<1> DEFINE r == doc[q]
<1>1. r \in Row /\ r' = r
  BY DocFacts
<1>2. \A x : BadReference(x)' = BadReference(x)
  BY SameReferences
<1>3. \A ref : sanitize(ref)' = sanitize(ref) /\ Found(ref)' = Found(ref)
  BY SameReferences
<1> HIDE DEF r
<1>4. BadReference(r)' = BadReference(r)
  <2>1. OwnSource(r)' = OwnSource(r)
    BY <1>1, <1>3 DEF OwnSource
  <2> QED
    BY <1>1, <1>3, <2>1 DEF BadReference
<1>5. BadUpdate(r, ids)' = BadUpdate(r, ids)
  BY <1>1 DEF BadUpdate, Updates, Row
<1>6. NameConflict(r)' = NameConflict(r)
  BY <1>1 DEF NameConflict
<1>7. BadColumn(r)' = BadColumn(r) /\ BadStatus(r)' = BadStatus(r)
  BY <1>1 DEF BadColumn, BadStatus
<1>8. Rejected(r, ids)' = Rejected(r, ids)
  BY <1>4, <1>5, <1>6, <1>7 DEF Rejected
<1> QED
  BY <1>8 DEF r

(* The row is left behind for a reason, or a call failed. *)
LEMMA FixFail ==
  ASSUME TypeOK, FixInv, Fail, pc \in Checking, UNCHANGED <<doc, configurable, db, late>>,
         hurt \subseteq hurt', row \in hurt' \/ Rejected(doc[row], ids), row \in DOMAIN doc
  PROVE  FixInv'
<1>1. /\ pc' = "check" /\ row' = row + 1 /\ UNCHANGED <<processedRows, somethingProcessed, ids>>
  BY DEF Fail
<1>2. Stored' = Stored /\ \A n : Named(n)' = Named(n)
  BY SameDb
<1>3. \A q \in DOMAIN doc : Rejected(doc[q], ids)' = Rejected(doc[q], ids)
  BY <1>1, <1>2, SameRejections
<1>4. row \in Nat /\ Len(doc) \in Nat
  BY DocFacts
<1>5. ASSUME ~somethingProcessed, hurt' \cap late = {} PROVE LeftBehind(row - 1)'
  <2>1. LeftBehind(row - 1)
    BY <1>5 DEF FixInv
  <2> SUFFICES ASSUME NEW q \in 1..row' - 1,
                      q \in DOMAIN doc \ (processedRows \cup hurt')
               PROVE  Rejected(doc[q], ids)'
    BY <1>1 DEF LeftBehind
  <2>2. Rejected(doc[q], ids)
    <3>1. CASE q = row
      BY <3>1
    <3>2. CASE q # row
      BY <1>1, <1>4, <2>1, <3>2 DEF LeftBehind
    <3> QED
      BY <3>1, <3>2
  <2> QED
    BY <1>3, <2>2
<1>6. (ids = Seen \ {None})'
  BY <1>1 DEF FixInv, Seen
<1> QED
  BY <1>1, <1>4, <1>5, <1>6 DEF FixInv, Checking

(* Nothing a row is checked against changes. *)
LEMMA FixKeep ==
  ASSUME TypeOK, FixInv, pc \in Checking, pc' \in Checking,
         UNCHANGED <<doc, configurable, processedRows, somethingProcessed, ids, hurt, late>>,
         Stored' = Stored, \A n : Named(n)' = Named(n),
         \A j \in Ids : db'[j].kind = db[j].kind,
         row' = row \/ (row' = row + 1 /\ row \in processedRows)
  PROVE  FixInv'
<1>1. \A q \in DOMAIN doc : Rejected(doc[q], ids)' = Rejected(doc[q], ids)
  BY SameRejections
<1>2. row \in Nat
  BY DocFacts
<1>3. ASSUME ~somethingProcessed, hurt \cap late = {} PROVE LeftBehind(row - 1)'
  <2>1. LeftBehind(row - 1)
    BY <1>3 DEF FixInv
  <2> SUFFICES ASSUME NEW q \in 1..row' - 1, q \in DOMAIN doc \ (processedRows \cup hurt)
               PROVE  Rejected(doc[q], ids)'
    BY DEF LeftBehind
  <2>2. q \in 1..row - 1
    BY <1>2
  <2>3. Rejected(doc[q], ids)
    BY <2>1, <2>2 DEF LeftBehind
  <2> QED
    BY <1>1, <2>3
<1>4. (ids = Seen \ {None})'
  BY DEF FixInv, Seen
<1> QED
  BY <1>3, <1>4 DEF FixInv, Checking

(* Nothing is claimed of a row that is committed, nor of the pass after it. *)
LEMMA FixNothing ==
  ASSUME FixInv, UNCHANGED doc,
         (ids = Seen \ {None})',
         \/ pc' \notin Checking \cup {"done"}
         \/ pc' = "check" /\ (somethingProcessed' \/ hurt' \cap late' # {})
  PROVE  FixInv'
BY DEF FixInv, Checking

LEMMA StepFix == TypeInv /\ FixInv /\ [Next]_vars => FixInv'
<1> SUFFICES ASSUME TypeInv, FixInv, [Next]_vars PROVE FixInv'
  OBVIOUS
<1>0. TypeOK
  BY DEF TypeInv
<1> USE DEF lists, history, Fixed
<1>a. UNCHANGED <<doc, processedRows, ids>> => (ids = Seen \ {None})'
  BY DEF FixInv, Seen
<1>1. CASE SkipRow
  BY <1>0, <1>1, SameDb, FixKeep DEF SkipRow, InPass, Checking
<1>2. CASE RejectRow
  <2>1. /\ Fail /\ pc = "check" /\ UNCHANGED <<doc, configurable, db, late>>
        /\ hurt \subseteq hurt' /\ (row \in hurt' \/ Rejected(doc[row], ids))
    BY <1>2 DEF RejectRow, FailHurt, InPass
  <2>2. row \in DOMAIN doc
    BY <1>0, <1>2, DocFacts DEF RejectRow
  <2> QED
    BY <1>0, <2>1, <2>2, FixFail DEF Checking
<1>3. CASE CheckRow
  BY <1>0, <1>3, SameDb, FixKeep DEF CheckRow, InPass, Checking
<1>4. CASE Deactivate /\ pc' = "store"
  <2>1. /\ db' = db \/ db' = [db EXCEPT ![target].status = "nonactive"]
        /\ pc = "deactivate" /\ UNCHANGED <<doc, configurable, row, lists, history>>
    BY <1>4 DEF Deactivate, FailHurt, Fail
  <2>2. /\ Stored' = Stored /\ \A n : Named(n)' = Named(n)
        /\ \A j \in Ids : db'[j].kind = db[j].kind
    BY <1>0, <2>1, StatusOnly DEF TypeOK, Statuses
  <2> QED
    BY <1>0, <1>4, <2>1, <2>2, FixKeep DEF Checking
<1>5. CASE (Deactivate /\ pc' # "store") \/ (Store /\ pc' = "check")
  <2>1. /\ Fail /\ pc \in {"deactivate", "store"} /\ UNCHANGED <<doc, configurable, db, late>>
        /\ hurt' = hurt \cup {row}
    BY <1>5 DEF Deactivate, Store, FailHurt
  <2>2. row \in DOMAIN doc
    BY <1>0, <2>1, DocFacts DEF InRow
  <2> QED
    BY <1>0, <2>1, <2>2, FixFail DEF Checking
<1>6. CASE (Store /\ pc' # "check") \/ Activate
  BY <1>6, <1>a, FixNothing DEF Store, Activate, FailHurt, Fail, Checking
<1>7. CASE Finish
  <2>1. CASE Accept /\ UNCHANGED <<failures, hurt, late>>
    <3>1. /\ UNCHANGED doc /\ pc' = "check" /\ somethingProcessed'
          /\ processedRows' = processedRows \cup {row} /\ ids' = ids \cup ({doc[row].id} \ {None})
      BY <1>7, <2>1 DEF Finish, Accept
    <3>2. (ids = Seen \ {None})'
      BY <3>1 DEF FixInv, Seen
    <3> QED
      BY <3>1, <3>2, FixNothing
  <2>2. CASE FailHurt /\ late' = late \cup {row}
    <3>1. /\ pc' = "check" /\ row \in hurt' \cap late' /\ UNCHANGED <<doc, processedRows, ids>>
      BY <1>7, <2>2 DEF Finish, FailHurt, Fail
    <3> QED
      BY <1>a, <3>1, FixNothing
  <2> QED
    BY <1>7, <2>1, <2>2 DEF Finish
<1>8. CASE EndPass /\ somethingProcessed
  <2>1. row' = 1 /\ pc' = "check" /\ UNCHANGED <<doc, processedRows, ids>>
    BY <1>8 DEF EndPass, Repeat
  <2>2. LeftBehind(row - 1)'
    BY <2>1 DEF LeftBehind
  <2> QED
    BY <1>a, <2>1, <2>2 DEF FixInv
<1>9. CASE EndPass /\ ~somethingProcessed
  <2>1. /\ pc = "check" /\ pc' = "done" /\ row > Len(doc)
        /\ UNCHANGED <<doc, configurable, db, processedRows, ids, hurt, late>>
    BY <1>9 DEF EndPass, Repeat
  <2>2. row \in Nat /\ Len(doc) \in Nat
    BY <1>0, DocFacts
  <2>3. ASSUME hurt \cap late = {} PROVE LeftBehind(Len(doc))'
    <3>1. LeftBehind(row - 1)
      BY <1>9, <2>1, <2>3 DEF FixInv, Checking
    <3>2. \A q \in DOMAIN doc : Rejected(doc[q], ids)' = Rejected(doc[q], ids)
      BY <1>0, <2>1, SameDb, SameRejections
    <3>3. \A q \in 1..Len(doc) : q \in 1..row - 1
      BY <2>1, <2>2
    <3> SUFFICES ASSUME NEW q \in 1..Len(doc), q \in DOMAIN doc \ (processedRows \cup hurt)
                 PROVE  Rejected(doc[q], ids)'
      BY <2>1 DEF LeftBehind
    <3> QED
      BY <3>1, <3>2, <3>3 DEF LeftBehind
  <2> QED
    BY <1>a, <2>1, <2>3 DEF FixInv, Checking
<1>10. CASE Abort
  BY <1>10, <1>a, FixNothing DEF Abort, Checking
<1>11. CASE UNCHANGED vars
  <2>1. UNCHANGED <<doc, configurable, db, pc, row, processedRows, somethingProcessed, ids, hurt,
                    late>>
    BY <1>11 DEF vars
  <2>2. \A q \in DOMAIN doc : Rejected(doc[q], ids)' = Rejected(doc[q], ids)
    BY <1>0, <2>1, SameDb, SameRejections
  <2>3. LeftBehind(row - 1)' = LeftBehind(row - 1) /\ LeftBehind(Len(doc))' = LeftBehind(Len(doc))
    BY <2>1, <2>2 DEF LeftBehind
  <2> QED
    BY <1>a, <2>1, <2>3 DEF FixInv
<1> QED
  BY <1>1, <1>2, <1>3, <1>4, <1>5, <1>6, <1>7, <1>8, <1>9, <1>10, <1>11
     DEF Next, Import, ProcessRow

LEMMA InitFix == Init => FixInv
<1> SUFFICES ASSUME Init PROVE FixInv
  OBVIOUS
<1>1. row = 1 /\ pc = "check" /\ ids = {} /\ processedRows = {}
  BY DEF Init, Start
<1> QED
  BY <1>1 DEF FixInv, Seen, LeftBehind

LEMMA InvMeansFixpoint == TypeInv /\ FixInv => Fixpoint
<1> SUFFICES ASSUME TypeInv, FixInv, pc = "done", hurt \cap late = {},
                    NEW q \in DOMAIN doc \ (processedRows \cup hurt)
             PROVE  Rejected(doc[q], Seen)
  BY DEF Fixpoint, Seen
<1>1. q \in 1..Len(doc)
  BY DocFacts DEF TypeInv
<1>2. Rejected(doc[q], ids)
  BY <1>1 DEF FixInv, LeftBehind
<1>3. Updates(doc[q]) => (doc[q].id \in ids <=> doc[q].id \in Seen)
  BY DEF FixInv, Updates
<1> QED
  BY <1>2, <1>3 DEF Rejected, BadUpdate

(* The import stops at a fixpoint of its rules: whatever the order of the    *)
(* rows, those it has not imported are refused by the database it leaves.    *)
(* A pass that imports nothing changes nothing a row is checked against,     *)
(* deactivated devices included, so the reasons it met still hold at its end.*)
THEOREM ImportReachesFixpoint == Spec => []Fixpoint
BY InvMeansFixpoint, InitFix, StepFix, TypeInductive, PTL DEF Spec

------------------------------------------------------------------------------
(* The export, and the import of what was exported *)

(* No row was looked at yet. *)
Untouched ==
  /\ configurable \in BOOLEAN /\ pc \in {"check", "aborted"}
  /\ row = 1 /\ target = RC0 /\ warning = FALSE
  /\ ids = {} /\ okRows = <<>> /\ failRows = {} /\ processedRows = {}
  /\ somethingProcessed = FALSE
  /\ failures = MaxFailures /\ hurt = {} /\ committed = {} /\ late = {} /\ halfway = {}

(* Every stored asset has a name, and what it refers to is stored. *)
Refers(d, i) == ({d[i].parent} \ {None}) \cup d[i].groups \cup d[i].sources
Consistent(d) ==
  /\ d \in [Ids -> Asset]
  /\ \A i \in Ids : i \in StoredIn(d) <=> d[i].name # None
  /\ \A i \in StoredIn(d) : Refers(d, i) \subseteq StoredIn(d)

DbInv ==
  /\ Consistent(db) /\ NamesUnique /\ db[RC0].kind = "rack controller"
  /\ licensed = {i \in Ids : db[i].kind = "device" /\ db[i].status = "active"}

(* Since the export began: an asset not renamed has its name still, and one  *)
(* that was not deleted is stored.                                           *)
SinceSnapshot ==
  \A i \in Ids : /\ i \notin renamed => db[i].name = snapshot[i].name
                 /\ i \in StoredIn(snapshot) \ lost => i \in Stored

(* The cells of a row, once they are written. *)
LocationAgrees(r) ==
  LET parent == snapshot[r.id].parent IN
  /\ parent = None => r.location = None
  /\ parent # None => \/ r.location = snapshot[parent].name
                      \/ parent \in renamed \/ r.id \in unread
  /\ r.location = None => parent \in {None} \cup lost \/ r.id \in unread

SourceAgrees(r) ==
  LET sources == snapshot[r.id].sources IN
  /\ r.source = None <=> sources = {}
  /\ r.source # None => \E j \in sources : j \in renamed \/ r.source = snapshot[j].name

GroupsAgree(r) ==
  /\ None \notin r.groups
  /\ \A g \in snapshot[r.id].groups : g \in renamed \/ snapshot[g].name \in r.groups

RowsInv ==
  /\ doc \in Seq(Row) /\ \A p \in DOMAIN doc : doc[p].id \in Exported
  /\ \A p \in RowsSince({"source", "groups", "name", "written"}) : LocationAgrees(doc[p])
  /\ \A p \in RowsSince({"groups", "name", "written"}) : SourceAgrees(doc[p])
  /\ \A p \in RowsSince({"name", "written"}) : GroupsAgree(doc[p])

ExportInv ==
  /\ stage \in Exporting \cup {"begin", "written", "failed", "import"}
  /\ stage # "import" => Untouched /\ DbInv /\ Consistent(snapshot) /\ RowsInv
  /\ stage = "begin" => doc = <<>>
  /\ stage \in Exporting => SinceSnapshot
  /\ stage \in {"location", "source", "groups"} => doc # <<>>
  /\ stage \in {"location", "source"} => doc[Len(doc)].source = None

ImportInv == TypeInv /\ NamesInv /\ LicInv /\ ReportInv /\ FixInv

(* A document that was not looked at yet is imported as any other.           *)
LEMMA ReadyToImport ==
  ASSUME doc \in Seq(Row), Untouched, DbInv
  PROVE  ImportInv
<1>1. Len(doc) \in Nat /\ row \in 1..Len(doc) + 1 /\ okRows \in Seq(DOMAIN doc)
  BY DEF Untouched
<1>2. target \in Ids /\ failures \in 0..MaxFailures
  BY ConstantFacts DEF Untouched
<1>3. TypeOK
  BY <1>1, <1>2 DEF Untouched, DbInv, Consistent, TypeOK
<1>4. TypeInv
  BY <1>3 DEF TypeInv, Untouched, Unstored
<1>5. NamesInv
  BY DEF NamesInv, DbInv, Untouched, Unstored
<1>6. LicInv
  BY DEF LicInv, LicencesAgree, DbInv, Untouched, Stored, Unstored
<1>7. ReportInv
  BY DEF ReportInv, Untouched, InRow, Committing
<1>8. FixInv
  BY DEF FixInv, Untouched, Seen, LeftBehind, Checking
<1> QED
  BY <1>4, <1>5, <1>6, <1>7, <1>8 DEF ImportInv

LEMMA StoredInDb == Stored = StoredIn(db)
BY DEF Stored, StoredIn

------------------------------------------------------------------------------
(* Other requests *)

LEMMA DbFacts ==
  DbInv <=> /\ Consistent(db)
            /\ \A a, b \in StoredIn(db) : db[a].name = db[b].name => a = b
            /\ db[RC0].kind = "rack controller"
            /\ licensed = {i \in Ids : db[i].kind = "device" /\ db[i].status = "active"}
BY DEF DbInv, NamesUnique, Stored, StoredIn

LEMMA DbFactsNext ==
  DbInv' <=> /\ Consistent(db')
             /\ \A a, b \in StoredIn(db') : db'[a].name = db'[b].name => a = b
             /\ db'[RC0].kind = "rack controller"
             /\ licensed' = {i \in Ids : db'[i].kind = "device" /\ db'[i].status = "active"}
<1>1. Consistent(db)' <=> Consistent(db')
  BY DEF Consistent, StoredIn, Refers
<1>2. NamesUnique' <=> \A a, b \in StoredIn(db') : db'[a].name = db'[b].name => a = b
  BY DEF NamesUnique, Stored, StoredIn
<1> QED
  BY <1>1, <1>2 DEF DbInv

LEMMA RenameKeepsDb ==
  ASSUME DbInv, NEW i \in Ids, NEW n \in Names, RenameAsset(i, n)
  PROVE  DbInv' /\ \A j \in Ids : /\ j # i => db'[j].name = db[j].name
                                  /\ j \in Stored => j \in Stored'
<1>1. /\ i \in Stored /\ Named(n) = {} /\ db' = [db EXCEPT ![i].name = n] /\ licensed' = licensed
  BY DEF RenameAsset, Change
<1>2. db \in [Ids -> Asset] /\ n # None
  BY ConstantFacts DEF DbInv, Consistent
<1>3. /\ db' \in [Ids -> Asset] /\ db'[i].name = n
      /\ \A j \in Ids : /\ j # i => db'[j].name = db[j].name
                        /\ db'[j].kind = db[j].kind /\ db'[j].status = db[j].status
                        /\ db'[j].parent = db[j].parent /\ db'[j].groups = db[j].groups
                        /\ db'[j].sources = db[j].sources
  BY <1>1, <1>2 DEF Asset
<1>4. StoredIn(db') = StoredIn(db) /\ Stored' = Stored
  BY <1>3 DEF StoredIn, Stored
<1>5. Consistent(db')
  <2>1. \A j \in Ids : j \in StoredIn(db') <=> db'[j].name # None
    BY <1>1, <1>2, <1>3, <1>4, StoredInDb DEF DbInv, Consistent
  <2>2. ASSUME NEW j \in StoredIn(db') PROVE Refers(db', j) \subseteq StoredIn(db')
    <3>1. j \in StoredIn(db) /\ j \in Ids
      BY <1>4 DEF StoredIn
    <3>2. Refers(db', j) = Refers(db, j)
      BY <1>3, <3>1 DEF Refers
    <3> QED
      BY <1>4, <3>1, <3>2 DEF DbInv, Consistent
  <2> QED
    BY <1>3, <2>1, <2>2 DEF Consistent
<1>6. \A a, b \in StoredIn(db') : db'[a].name = db'[b].name => a = b
  <2>1. \A a \in StoredIn(db) : a \in Ids /\ db[a].name # n
    BY <1>1, StoredInDb DEF Named, StoredIn
  <2>2. \A a, b \in StoredIn(db) : db[a].name = db[b].name => a = b
    BY DbFacts
  <2> QED
    BY <1>3, <1>4, <2>1, <2>2
<1>7. licensed' = {j \in Ids : db'[j].kind = "device" /\ db'[j].status = "active"}
  BY <1>1, <1>3 DEF DbInv
<1>8. db'[RC0].kind = "rack controller"
  BY <1>3, ConstantFacts DEF DbInv
<1> QED
  BY <1>3, <1>4, <1>5, <1>6, <1>7, <1>8, DbFactsNext

LEMMA MoveKeepsDb ==
  ASSUME DbInv, NEW i \in Ids, NEW p \in Ids, MoveAsset(i, p)
  PROVE  DbInv' /\ \A j \in Ids : db'[j].name = db[j].name /\ (j \in Stored => j \in Stored')
<1>1. /\ i \in Stored /\ db[p].kind = "place"
      /\ db' = [db EXCEPT ![i].parent = p] /\ licensed' = licensed
  BY DEF MoveAsset, Change
<1>2. db \in [Ids -> Asset]
  BY DEF DbInv, Consistent
<1>3. /\ db' \in [Ids -> Asset] /\ db'[i].parent = p
      /\ \A j \in Ids : /\ j # i => db'[j].parent = db[j].parent
                        /\ db'[j].kind = db[j].kind /\ db'[j].status = db[j].status
                        /\ db'[j].name = db[j].name /\ db'[j].groups = db[j].groups
                        /\ db'[j].sources = db[j].sources
  BY <1>1, <1>2 DEF Asset
<1>4. StoredIn(db') = StoredIn(db) /\ Stored' = Stored /\ p \in StoredIn(db)
  BY <1>1, <1>3 DEF StoredIn, Stored
<1>5. Consistent(db')
  <2>1. \A j \in Ids : j \in StoredIn(db') <=> db'[j].name # None
    BY <1>3, <1>4 DEF DbInv, Consistent
  <2>2. ASSUME NEW j \in StoredIn(db') PROVE Refers(db', j) \subseteq StoredIn(db')
    <3>1. j \in StoredIn(db) /\ j \in Ids
      BY <1>4 DEF StoredIn
    <3>2. Refers(db', j) \subseteq Refers(db, j) \cup {p}
      BY <1>3, <3>1 DEF Refers
    <3>3. Refers(db, j) \subseteq StoredIn(db)
      BY <3>1 DEF DbInv, Consistent
    <3> QED
      BY <1>4, <3>2, <3>3
  <2> QED
    BY <1>3, <2>1, <2>2 DEF Consistent
<1>6. \A a, b \in StoredIn(db') : db'[a].name = db'[b].name => a = b
  <2>1. \A a, b \in StoredIn(db) : db[a].name = db[b].name => a = b
    BY DbFacts
  <2>2. StoredIn(db) \subseteq Ids
    BY DEF StoredIn
  <2> QED
    BY <1>3, <1>4, <2>1, <2>2
<1>7. licensed' = {j \in Ids : db'[j].kind = "device" /\ db'[j].status = "active"}
  BY <1>1, <1>3 DEF DbInv
<1>8. db'[RC0].kind = "rack controller"
  BY <1>3, ConstantFacts DEF DbInv
<1> QED
  BY <1>3, <1>4, <1>5, <1>6, <1>7, <1>8, DbFactsNext

LEMMA DeleteKeepsDb ==
  ASSUME DbInv, NEW i \in Ids, DeleteAsset(i)
  PROVE  DbInv' /\ \A j \in Ids : j # i => /\ db'[j].name = db[j].name
                                           /\ j \in Stored => j \in Stored'
<1> DEFINE gone == [db[i] EXCEPT !.name = None, !.kind = "vacant", !.parent = None,
                                 !.groups = {}, !.sources = {}]
           left(j) == [db[j] EXCEPT !.groups = @ \ {i}]
<1>1. /\ i \in Stored \ {RC0} /\ \A j \in Stored : db[j].parent # i /\ i \notin db[j].sources
      /\ db' = [j \in Ids |-> IF j = i THEN gone ELSE left(j)]
      /\ licensed' = licensed \ {i}
  BY DEF DeleteAsset, Change
<1>2. db \in [Ids -> Asset]
  BY DEF DbInv, Consistent
<1>3. /\ gone \in Asset /\ gone.name = None /\ gone.kind = "vacant"
  <2>1. db[i] \in Asset
    BY <1>2
  <2> DEFINE old == db[i]
  <2>2. /\ DOMAIN old = {"name", "kind", "status", "parent", "groups", "sources"}
        /\ old.status \in Statuses
        /\ old = [f \in DOMAIN old |-> old[f]]
    BY <2>1 DEF Asset
  <2>3. gone = [old EXCEPT !.name = None, !.kind = "vacant", !.parent = None,
                           !.groups = {}, !.sources = {}]
    OBVIOUS
  <2> HIDE DEF old, gone
  <2>4. /\ DOMAIN gone = {"name", "kind", "status", "parent", "groups", "sources"}
        /\ gone.name = None /\ gone.kind = "vacant" /\ gone.status = old.status
        /\ gone.parent = None /\ gone.groups = {} /\ gone.sources = {}
        /\ gone = [f \in DOMAIN gone |-> gone[f]]
    BY <2>2, <2>3
  <2> QED
    BY <2>2, <2>4 DEF Asset
<1>4. ASSUME NEW j \in Ids
      PROVE  /\ left(j) \in Asset /\ left(j).groups = db[j].groups \ {i}
             /\ left(j).kind = db[j].kind /\ left(j).status = db[j].status
             /\ left(j).name = db[j].name /\ left(j).parent = db[j].parent
             /\ left(j).sources = db[j].sources
  BY <1>2 DEF Asset
<1> HIDE DEF gone, left
<1>5. /\ db' \in [Ids -> Asset] /\ db'[i].name = None /\ db'[i].kind = "vacant"
      /\ \A j \in Ids \ {i} : /\ db'[j].groups = db[j].groups \ {i}
                              /\ db'[j].kind = db[j].kind /\ db'[j].status = db[j].status
                              /\ db'[j].name = db[j].name /\ db'[j].parent = db[j].parent
                              /\ db'[j].sources = db[j].sources
  BY <1>1, <1>3, <1>4
<1>6. StoredIn(db') = StoredIn(db) \ {i} /\ Stored' = Stored \ {i}
  BY <1>5 DEF StoredIn, Stored
<1>7. Consistent(db')
  <2>1. \A j \in Ids : j \in StoredIn(db') <=> db'[j].name # None
    BY <1>5, <1>6 DEF DbInv, Consistent
  <2>2. ASSUME NEW j \in StoredIn(db') PROVE Refers(db', j) \subseteq StoredIn(db')
    <3>1. j \in StoredIn(db) /\ j # i /\ j \in Ids
      BY <1>6 DEF StoredIn
    <3>2. Refers(db, j) \subseteq StoredIn(db)
      BY <3>1 DEF DbInv, Consistent
    <3>3. db[j].parent # i /\ i \notin db[j].sources
      BY <1>1, <3>1, StoredInDb
    <3> QED
      BY <1>5, <1>6, <3>1, <3>2, <3>3 DEF Refers
  <2> QED
    BY <1>5, <2>1, <2>2 DEF Consistent
<1>8. \A a, b \in StoredIn(db') : db'[a].name = db'[b].name => a = b
  <2>1. \A a, b \in StoredIn(db) : db[a].name = db[b].name => a = b
    BY DbFacts
  <2>2. StoredIn(db) \subseteq Ids
    BY DEF StoredIn
  <2>3. \A a \in StoredIn(db') : a \in StoredIn(db) /\ db'[a].name = db[a].name
    BY <1>5, <1>6, <2>2
  <2> QED
    BY <2>1, <2>3
<1>9. licensed' = {j \in Ids : db'[j].kind = "device" /\ db'[j].status = "active"}
  BY <1>1, <1>5 DEF DbInv
<1>10. db'[RC0].kind = "rack controller"
  BY <1>1, <1>5, ConstantFacts DEF DbInv
<1> QED
  BY <1>5, <1>6, <1>7, <1>8, <1>9, <1>10, DbFactsNext

(* A change of another request is noted while the export runs.               *)
LEMMA ChangeStep ==
  ASSUME ExportInv, NEW d, NEW touched \in SUBSET Ids, NEW gone \in SUBSET Ids, Change(d, touched, gone),
         DbInv', \A j \in Ids \ touched : db'[j].name = db[j].name,
         \A j \in Ids \ gone : j \in Stored => j \in Stored'
  PROVE  ExportInv'
<1>1. /\ stage \in Exporting \cup {"begin", "written"}
      /\ renamed' = IF stage \in Exporting THEN renamed \cup touched ELSE renamed
      /\ lost' = IF stage \in Exporting THEN lost \cup gone ELSE lost
      /\ UNCHANGED <<doc, configurable, pc, row, target, warning, lists, failures, history,
                     stage, scope, snapshot, unread>>
  BY DEF Change
<1>2. stage \notin {"import", "failed"}
  BY <1>1 DEF Exporting
<1>3. Untouched'
  BY <1>1, <1>2 DEF ExportInv, Untouched, lists, history
<1>4. StoredIn(snapshot)' = StoredIn(snapshot) /\ Exported' = Exported
  BY <1>1 DEF StoredIn, Exported
<1>5. Consistent(snapshot)'
  BY <1>1, <1>2 DEF ExportInv, Consistent, Refers, StoredIn
<1>6. RowsInv'
  <2>1. /\ \A r : LocationAgrees(r) => LocationAgrees(r)'
        /\ \A r : SourceAgrees(r) => SourceAgrees(r)'
        /\ \A r : GroupsAgree(r) => GroupsAgree(r)'
    BY <1>1 DEF LocationAgrees, SourceAgrees, GroupsAgree
  <2>2. doc' = doc /\ \A stages : RowsSince(stages)' = RowsSince(stages)
    BY <1>1 DEF RowsSince
  <2> QED
    BY <1>2, <1>4, <2>1, <2>2 DEF ExportInv, RowsInv
<1>7. stage \in Exporting => SinceSnapshot'
  BY <1>1, <1>4 DEF ExportInv, SinceSnapshot
<1> QED
  BY <1>1, <1>2, <1>3, <1>5, <1>6, <1>7 DEF ExportInv

LEMMA OtherRequestStep == ExportInv /\ OtherRequest => ExportInv'
<1> SUFFICES ASSUME ExportInv, NEW i \in Ids,
                    \/ \E n \in Names : RenameAsset(i, n)
                    \/ \E p \in Ids : MoveAsset(i, p)
                    \/ DeleteAsset(i)
             PROVE  ExportInv'
  BY DEF OtherRequest
<1>1. stage # "import"
  BY DEF RenameAsset, MoveAsset, DeleteAsset, Change, Exporting
<1>2. DbInv
  BY <1>1 DEF ExportInv
<1>3. ASSUME NEW n \in Names, RenameAsset(i, n) PROVE ExportInv'
  BY <1>2, <1>3, RenameKeepsDb, ChangeStep DEF RenameAsset
<1>4. ASSUME NEW p \in Ids, MoveAsset(i, p) PROVE ExportInv'
  BY <1>2, <1>4, MoveKeepsDb, ChangeStep DEF MoveAsset
<1>5. ASSUME DeleteAsset(i) PROVE ExportInv'
  <2> DEFINE d == [j \in Ids |->
                    IF j = i THEN [db[i] EXCEPT !.name = None, !.kind = "vacant", !.parent = None,
                                                !.groups = {}, !.sources = {}]
                    ELSE [db[j] EXCEPT !.groups = @ \ {i}]]
  <2>1. Change(d, {i}, {i})
    BY <1>5 DEF DeleteAsset
  <2> HIDE DEF d
  <2>2. /\ DbInv' /\ \A j \in Ids \ {i} : db'[j].name = db[j].name
        /\ \A j \in Ids \ {i} : j \in Stored => j \in Stored'
    BY <1>2, <1>5, DeleteKeepsDb
  <2> QED
    BY <2>1, <2>2, ChangeStep
<1> QED
  BY <1>3, <1>4, <1>5

------------------------------------------------------------------------------
(* The steps of the export *)

(* None changes what is stored. *)
LEMMA ExportKeeps ==
  ASSUME ExportInv, stage # "import", pc' \in {pc, "aborted"}, unread \subseteq unread',
         UNCHANGED <<configurable, db, licensed, row, target, warning, lists, failures, history,
                     scope, snapshot, renamed, lost>>
  PROVE  /\ Untouched' /\ DbInv' /\ Consistent(snapshot)'
         /\ SinceSnapshot => SinceSnapshot'
         /\ Exported' = Exported
         /\ \A r : LocationAgrees(r) => LocationAgrees(r)'
         /\ \A r : SourceAgrees(r) => SourceAgrees(r)'
         /\ \A r : GroupsAgree(r) => GroupsAgree(r)'
<1>1. Untouched'
  BY DEF ExportInv, Untouched, lists, history
<1>2. DbInv' = DbInv
  BY DEF DbInv, Consistent, Refers, StoredIn, NamesUnique, Stored
<1>3. Consistent(snapshot)' = Consistent(snapshot)
  BY DEF Consistent, Refers, StoredIn
<1>4. SinceSnapshot' = SinceSnapshot
  BY DEF SinceSnapshot, StoredIn, Stored
<1>5. Exported' = Exported
  BY DEF Exported, StoredIn
<1>6. /\ \A r : LocationAgrees(r) => LocationAgrees(r)'
      /\ \A r : SourceAgrees(r) => SourceAgrees(r)'
      /\ \A r : GroupsAgree(r) => GroupsAgree(r)'
  BY DEF LocationAgrees, SourceAgrees, GroupsAgree
<1> QED
  BY <1>1, <1>2, <1>3, <1>4, <1>5, <1>6 DEF ExportInv

LEMMA ExportFacts ==
  ASSUME ExportInv, stage \in Exporting
  PROVE  /\ Untouched /\ DbInv /\ RowsInv /\ SinceSnapshot
         /\ Consistent(snapshot) /\ stage # "import" /\ stage # "begin" /\ stage # "failed"
         /\ doc \in Seq(Row) /\ db \in [Ids -> Asset] /\ snapshot \in [Ids -> Asset]
         /\ Exported \subseteq StoredIn(snapshot) /\ StoredIn(snapshot) \subseteq Ids
<1>1. stage # "import" /\ stage # "begin" /\ stage # "failed"
  BY DEF Exporting
<1>2. DbInv /\ RowsInv /\ Consistent(snapshot) /\ Untouched /\ SinceSnapshot
  BY <1>1 DEF ExportInv
<1> QED
  BY <1>1, <1>2 DEF RowsInv, DbInv, Consistent, Exported, StoredIn

(* An asset of the snapshot that has no name any more was deleted.           *)
LEMMA NamelessIsLost ==
  ASSUME ExportInv, stage \in Exporting, NEW i \in StoredIn(snapshot), id_to_name_ext_name(i) = None
  PROVE  i \in lost
<1>1. i \in Ids /\ i # None
  BY ConstantFacts DEF StoredIn
<1>2. db[i].name = None
  BY <1>1 DEF id_to_name_ext_name
<1>3. i \notin Stored
  BY <1>1, <1>2, ExportFacts, StoredInDb DEF DbInv, Consistent
<1> QED
  BY <1>1, <1>3, ExportFacts DEF SinceSnapshot

LEMMA FailStep ==
  ASSUME ExportInv, stage \in Exporting \cup {"begin"}, FailExport
  PROVE  ExportInv'
<1>1. stage \notin {"import", "failed"} /\ stage' = "failed" /\ pc' = "aborted"
      /\ UNCHANGED <<doc, configurable, db, licensed, row, target, warning, lists, failures,
                     history, scope, snapshot, renamed, lost, unread>>
  BY DEF FailExport, Exporting
<1>2. /\ Untouched' /\ DbInv' /\ Consistent(snapshot)' /\ Exported' = Exported
      /\ \A r : LocationAgrees(r) => LocationAgrees(r)'
      /\ \A r : SourceAgrees(r) => SourceAgrees(r)'
      /\ \A r : GroupsAgree(r) => GroupsAgree(r)'
  BY <1>1, ExportKeeps
<1>3. \A stages : "failed" \notin stages => RowsSince(stages)' \subseteq RowsSince(stages)
  BY <1>1 DEF RowsSince
<1>4. RowsInv
  BY <1>1 DEF ExportInv
<1>5. RowsInv'
  BY <1>1, <1>2, <1>3, <1>4 DEF RowsInv
<1> QED
  BY <1>1, <1>2, <1>5 DEF ExportInv, Exporting

(* A cell of the last row is written.                                        *)
LEMMA CellStep ==
  ASSUME ExportInv, stage \in {"location", "source", "groups"}, unread \subseteq unread',
         NEW r \in Row, r.id = doc[Len(doc)].id, LocationAgrees(r)',
         IF stage = "location" THEN r.source = None ELSE SourceAgrees(r)', stage = "groups" => GroupsAgree(r)',
         WriteCell([doc EXCEPT ![Len(doc)] = r],
                   CASE stage = "location" -> "source"
                     [] stage = "source" -> "groups"
                     [] stage = "groups" -> "name")
  PROVE  ExportInv'
<1>1. stage \in Exporting
  BY DEF Exporting
<1>2. /\ stage' = CASE stage = "location" -> "source"
                    [] stage = "source" -> "groups"
                    [] stage = "groups" -> "name"
      /\ doc' = [doc EXCEPT ![Len(doc)] = r]
      /\ UNCHANGED <<configurable, db, licensed, pc, row, target, warning, lists, failures,
                     history, scope, snapshot, renamed, lost>>
  BY DEF WriteCell
<1>3. /\ Untouched' /\ DbInv' /\ Consistent(snapshot)' /\ SinceSnapshot' /\ Exported' = Exported
      /\ \A s : LocationAgrees(s) => LocationAgrees(s)'
      /\ \A s : SourceAgrees(s) => SourceAgrees(s)'
      /\ \A s : GroupsAgree(s) => GroupsAgree(s)'
  BY <1>1, <1>2, ExportFacts, ExportKeeps
<1>4. doc \in Seq(Row) /\ doc # <<>> /\ RowsInv
  BY <1>1, ExportFacts DEF ExportInv
<1>5. Len(doc) \in DOMAIN doc /\ Len(doc) \in Nat
  BY <1>4
<1>6. /\ doc' \in Seq(Row) /\ DOMAIN doc' = DOMAIN doc /\ Len(doc') = Len(doc) /\ doc' # <<>>
      /\ doc'[Len(doc)] = r /\ \A p \in DOMAIN doc : p # Len(doc) => doc'[p] = doc[p]
  BY <1>2, <1>4, <1>5
<1>7. \A p \in DOMAIN doc : doc'[p].id \in Exported
  BY <1>4, <1>5, <1>6 DEF RowsInv
<1>8. ASSUME NEW p \in DOMAIN doc, p # Len(doc)
      PROVE  LocationAgrees(doc[p])' /\ SourceAgrees(doc[p])' /\ GroupsAgree(doc[p])'
  <2>1. LocationAgrees(doc[p]) /\ SourceAgrees(doc[p]) /\ GroupsAgree(doc[p])
    BY <1>4, <1>8 DEF RowsInv, RowsSince
  <2> QED
    BY <1>3, <1>6, <1>8, <2>1
<1>9. /\ (\A p \in RowsSince({"source", "groups", "name", "written"}) : LocationAgrees(doc[p]))'
      /\ (\A p \in RowsSince({"groups", "name", "written"}) : SourceAgrees(doc[p]))'
      /\ (\A p \in RowsSince({"name", "written"}) : GroupsAgree(doc[p]))'
  BY <1>2, <1>5, <1>6, <1>8 DEF RowsSince
<1>10. RowsInv'
  BY <1>3, <1>6, <1>7, <1>9 DEF RowsInv
<1> QED
  BY <1>2, <1>3, <1>6, <1>10 DEF ExportInv, Exporting

LEMMA BeginStep == ExportInv /\ BeginExport => ExportInv'
<1> SUFFICES ASSUME ExportInv, BeginExport PROVE ExportInv'
  OBVIOUS
<1>1. stage = "begin" /\ stage' = "name" /\ snapshot' = db /\ UNCHANGED vars
  BY DEF BeginExport
<1>2. Untouched /\ DbInv /\ doc = <<>>
  BY <1>1 DEF ExportInv
<1>3. Untouched'
  BY <1>1, <1>2 DEF Untouched, vars, lists, history
<1>4. DbInv'
  BY <1>1, <1>2 DEF DbInv, Consistent, Refers, StoredIn, NamesUnique, Stored, vars
<1>5. Consistent(snapshot)'
  BY <1>1, <1>2 DEF DbInv, Consistent, Refers, StoredIn
<1>6. db' = db /\ snapshot' = db'
  BY <1>1 DEF vars
<1>7. SinceSnapshot'
  BY <1>6 DEF SinceSnapshot, Stored, StoredIn
<1>8. doc' = <<>>
  BY <1>1, <1>2 DEF vars
<1>9. RowsInv'
  BY <1>8 DEF RowsInv, RowsSince
<1> QED
  BY <1>1, <1>3, <1>4, <1>5, <1>7, <1>9 DEF ExportInv, Exporting

LEMMA EndStep == ExportInv /\ EndExport => ExportInv'
<1> SUFFICES ASSUME ExportInv, EndExport PROVE ExportInv'
  OBVIOUS
<1>1. /\ stage = "name" /\ stage \in Exporting /\ stage' = "written"
      /\ UNCHANGED <<doc, configurable, db, licensed, pc, row, target, warning, lists, failures,
                     history, scope, snapshot, renamed, lost, unread>>
  BY DEF EndExport, vars, Exporting
<1>2. /\ Untouched' /\ DbInv' /\ Consistent(snapshot)' /\ Exported' = Exported
      /\ \A s : LocationAgrees(s) => LocationAgrees(s)'
      /\ \A s : SourceAgrees(s) => SourceAgrees(s)'
      /\ \A s : GroupsAgree(s) => GroupsAgree(s)'
  BY <1>1, ExportFacts, ExportKeeps
<1>3. \A stages : {"name", "written"} \subseteq stages => RowsSince(stages)' = RowsSince(stages)
  BY <1>1 DEF RowsSince
<1>4. RowsInv'
  BY <1>1, <1>2, <1>3, ExportFacts DEF RowsInv
<1> QED
  BY <1>1, <1>2, <1>4 DEF ExportInv, Exporting

(* The next row is the least of the ids not written, as there is one.        *)
LEMMA NextRow ==
  ASSUME ExportInv, stage = "name", Exported # Written
  PROVE  Current \in Exported
<1> DEFINE T == Exported \ Written
<1>1. stage \in Exporting
  BY DEF Exporting
<1>2. Written \subseteq Exported
  BY <1>1, ExportFacts DEF RowsInv, Written
<1>3. T # {} /\ T \subseteq Nat
  BY <1>1, <1>2, ExportFacts, AssetImportAssumption
<1>4. Current = CHOOSE i \in T : \A j \in T : i <= j
  BY DEF Current
<1> HIDE DEF T
<1>5. \E i \in T : \A j \in T : i <= j
  BY <1>3, LeastNat
<1>6. Current \in T
  BY <1>4, <1>5
<1> QED
  BY <1>6 DEF T

LEMMA NameStep == ExportInv /\ ExportName => ExportInv'
<1> SUFFICES ASSUME ExportInv, ExportName PROVE ExportInv'
  OBVIOUS
<1> DEFINE i == Current
           name == id_to_name_ext_name(i)
           r == [id |-> i, name |-> name, kind |-> snapshot[i].kind, status |-> snapshot[i].status,
                 location |-> None, groups |-> {}, source |-> None, wellFormed |-> TRUE]
<1>1. /\ stage = "name" /\ stage \in Exporting /\ Exported # Written
      /\ IF name = None THEN FailExport ELSE WriteCell(Append(doc, r), "location") /\ UNCHANGED unread
  BY DEF ExportName, Exporting
<1>2. i \in Exported /\ i \in StoredIn(snapshot) /\ i \in Ids /\ i # None
  BY <1>1, NextRow, ExportFacts, ConstantFacts
<1>3. CASE name = None
  BY <1>1, <1>3, FailStep
<1>4. CASE name # None
  <2>1. name = db[i].name /\ name \in Names
    <3>1. db[i] \in Asset
      BY <1>1, <1>2, ExportFacts
    <3> QED
      BY <1>2, <1>4, <3>1 DEF id_to_name_ext_name, Asset
  <2>2. snapshot[i].kind \in Kinds /\ snapshot[i].status \in Statuses
    <3>1. snapshot[i] \in Asset /\ snapshot[i].kind # "vacant"
      BY <1>1, <1>2, ExportFacts DEF StoredIn
    <3> QED
      BY <3>1 DEF Asset
  <2>3. r \in Row /\ r.id = i /\ r.source = None
    BY <1>2, <2>1, <2>2 DEF Row, References
  <2>4. WriteCell(Append(doc, r), "location") /\ UNCHANGED unread
    BY <1>1, <1>4
  <2> HIDE DEF r, name, i
  <2>5. /\ stage' = "location" /\ doc' = Append(doc, r)
        /\ UNCHANGED <<configurable, db, licensed, pc, row, target, warning, lists, failures,
                       history, scope, snapshot, renamed, lost, unread>>
    BY <2>4 DEF WriteCell
  <2>6. /\ Untouched' /\ DbInv' /\ Consistent(snapshot)' /\ SinceSnapshot'
        /\ Exported' = Exported
        /\ \A s : LocationAgrees(s) => LocationAgrees(s)'
        /\ \A s : SourceAgrees(s) => SourceAgrees(s)'
        /\ \A s : GroupsAgree(s) => GroupsAgree(s)'
    BY <1>1, <2>5, ExportFacts, ExportKeeps
  <2>7. doc \in Seq(Row) /\ RowsInv
    BY <1>1, ExportFacts
  <2>8. /\ doc' \in Seq(Row) /\ doc' # <<>> /\ Len(doc') = Len(doc) + 1
        /\ DOMAIN doc' = DOMAIN doc \cup {Len(doc')}
        /\ doc'[Len(doc')] = r /\ \A p \in DOMAIN doc : doc'[p] = doc[p]
    BY <2>3, <2>5, <2>7
  <2>9. RowsInv'
    <3>1. \A p \in DOMAIN doc' : doc'[p].id \in Exported
      BY <1>2, <2>3, <2>7, <2>8 DEF RowsInv
    <3>2. ASSUME NEW p \in DOMAIN doc', p # Len(doc')
          PROVE  LocationAgrees(doc[p])' /\ SourceAgrees(doc[p])' /\ GroupsAgree(doc[p])'
      <4>1. p \in DOMAIN doc /\ doc'[p] = doc[p]
        BY <2>8, <3>2
      <4>2. LocationAgrees(doc[p]) /\ SourceAgrees(doc[p]) /\ GroupsAgree(doc[p])
        BY <1>1, <2>7, <4>1 DEF RowsInv, RowsSince
      <4> QED
        BY <2>6, <4>1, <4>2
    <3>3. \A stages : "location" \notin stages =>
                       RowsSince(stages)' \subseteq DOMAIN doc' \ {Len(doc')}
      BY <2>5 DEF RowsSince
    <3> QED
      BY <2>6, <2>8, <3>1, <3>2, <3>3 DEF RowsInv
  <2> QED
    BY <2>3, <2>5, <2>6, <2>8, <2>9 DEF ExportInv, Exporting
<1> QED
  BY <1>3, <1>4

LEMMA LocationStep == ExportInv /\ ExportLocation => ExportInv'
<1> SUFFICES ASSUME ExportInv, ExportLocation PROVE ExportInv'
  OBVIOUS
<1> DEFINE last == doc[Len(doc)]
           parent == snapshot[last.id].parent
<1>1. stage = "location" /\ stage \in Exporting /\ doc # <<>> /\ Current = last.id
  BY DEF ExportLocation, Exporting, ExportInv, Current
<1>2. doc \in Seq(Row) /\ Len(doc) \in DOMAIN doc /\ last \in Row
  BY <1>1, ExportFacts
<1>3. last.id \in Exported /\ last.id \in StoredIn(snapshot) /\ last.id \in Ids
  BY <1>1, <1>2, ExportFacts DEF RowsInv
<1>4. parent \in Ids \cup {None} /\ (parent # None => parent \in StoredIn(snapshot))
  <2>1. snapshot[last.id] \in Asset
    BY <1>1, <1>3, ExportFacts
  <2>2. parent \in Ids \cup {None}
    BY <2>1 DEF Asset
  <2>3. Refers(snapshot, last.id) \subseteq StoredIn(snapshot)
    BY <1>1, <1>3, ExportFacts DEF Consistent
  <2> QED
    BY <2>2, <2>3 DEF Refers
<1>5. Location(last.id) \in Names \cup {None}
  <2>1. Location(last.id) = IF parent = None THEN None ELSE db[parent].name
    BY DEF Location, id_to_name_ext_name
  <2>2. parent # None => db[parent] \in Asset
    BY <1>1, <1>4, ExportFacts
  <2> QED
    BY <2>1, <2>2 DEF Asset
<1>6. /\ parent = None => Location(last.id) = None
      /\ parent # None /\ parent \notin renamed => Location(last.id) = snapshot[parent].name
      /\ parent # None /\ Location(last.id) = None => parent \in lost
  <2>1. parent = None => Location(last.id) = None
    BY DEF Location, id_to_name_ext_name
  <2>2. parent # None /\ parent \notin renamed => Location(last.id) = snapshot[parent].name
    BY <1>1, <1>4, ExportFacts DEF Location, id_to_name_ext_name, SinceSnapshot
  <2>3. parent # None /\ Location(last.id) = None => parent \in lost
    BY <1>1, <1>4, NamelessIsLost DEF Location
  <2> QED
    BY <2>1, <2>2, <2>3
<1>7. PICK c \in {Location(last.id), None} :
        /\ WriteCell([doc EXCEPT ![Len(doc)].location = c], "source")
        /\ \/ c = Location(last.id) /\ UNCHANGED unread
           \/ c = None /\ unread' = unread \cup {last.id}
  BY <1>1 DEF ExportLocation
<1>0. PICK r : r = [last EXCEPT !.location = c]
  OBVIOUS
<1>8. r \in Row /\ r.id = last.id /\ r.location = c /\ r.source = None
  <2>1. last.source = None
    BY <1>1 DEF ExportInv
  <2> QED
    BY <1>0, <1>2, <1>5, <1>7, <2>1 DEF Row, References
<1>9. UNCHANGED <<snapshot, renamed, lost>>
  BY <1>7 DEF WriteCell
<1>10. WriteCell([doc EXCEPT ![Len(doc)] = r], "source")
  BY <1>0, <1>7
<1>11. LocationAgrees(r)'
  BY <1>6, <1>7, <1>8, <1>9 DEF LocationAgrees
<1> QED
  BY <1>1, <1>7, <1>8, <1>10, <1>11, CellStep

(* The names a cell is made of: of stored assets, or of lost ones.           *)
LEMMA LastRow ==
  ASSUME ExportInv, stage \in {"source", "groups"}
  PROVE  /\ stage \in Exporting
         /\ doc \in Seq(Row) /\ Len(doc) \in DOMAIN doc /\ doc[Len(doc)] \in Row
         /\ Current = doc[Len(doc)].id /\ LocationAgrees(doc[Len(doc)])
         /\ stage = "groups" => SourceAgrees(doc[Len(doc)])
         /\ snapshot[Current].groups \subseteq StoredIn(snapshot)
         /\ snapshot[Current].sources \subseteq StoredIn(snapshot)
<1>1. stage \in Exporting /\ doc # <<>> /\ Current = doc[Len(doc)].id
  BY DEF Exporting, ExportInv, Current
<1>2. doc \in Seq(Row) /\ Len(doc) \in DOMAIN doc /\ doc[Len(doc)] \in Row
  BY <1>1, ExportFacts
<1>3. Current \in StoredIn(snapshot)
  BY <1>1, <1>2, ExportFacts DEF RowsInv
<1>4. Refers(snapshot, Current) \subseteq StoredIn(snapshot)
  BY <1>1, <1>3, ExportFacts DEF Consistent
<1>5. LocationAgrees(doc[Len(doc)]) /\ (stage = "groups" => SourceAgrees(doc[Len(doc)]))
  BY <1>1, <1>2, ExportFacts DEF RowsInv, RowsSince
<1> QED
  BY <1>1, <1>2, <1>4, <1>5 DEF Refers

LEMMA NamesOfCell ==
  ASSUME ExportInv, stage \in Exporting, NEW J, J \subseteq StoredIn(snapshot)
  PROVE  LET links == {id_to_name_ext_name(j) : j \in J} IN
           /\ None \notin links => links \subseteq Names
           /\ \A j \in J : j \notin renamed => id_to_name_ext_name(j) = snapshot[j].name
<1>1. \A j \in J : j \in Ids /\ j # None /\ id_to_name_ext_name(j) = db[j].name
  BY ConstantFacts, ExportFacts DEF id_to_name_ext_name
<1>2. \A j \in J : db[j].name \in Names \cup {None}
  BY <1>1, ExportFacts DEF Asset
<1>3. \A j \in J : j \notin renamed => db[j].name = snapshot[j].name
  BY <1>1, ExportFacts DEF SinceSnapshot
<1> QED
  BY <1>1, <1>2, <1>3

LEMMA SourceStep == ExportInv /\ ExportSource => ExportInv'
<1> SUFFICES ASSUME ExportInv, ExportSource PROVE ExportInv'
  OBVIOUS
<1> DEFINE last == doc[Len(doc)]
           links == s_power_links(Current)
           sources == snapshot[Current].sources
<1>1. stage = "source" /\ stage \in Exporting
      /\ \/ FailExport
         \/ links = {} /\ WriteCell(doc, "groups") /\ UNCHANGED unread
         \/ /\ None \notin links /\ links # {}
            /\ WriteCell([doc EXCEPT ![Len(doc)].source = CHOOSE n \in links : TRUE], "groups")
            /\ UNCHANGED unread
  BY DEF ExportSource, Exporting
<1>2. links = {id_to_name_ext_name(j) : j \in sources}
  BY DEF s_power_links
<1>3. /\ sources \subseteq StoredIn(snapshot) /\ Current = last.id /\ LocationAgrees(last)
      /\ doc \in Seq(Row) /\ Len(doc) \in DOMAIN doc /\ last \in Row
  BY <1>1, LastRow
<1> HIDE DEF links
<1>4. /\ None \notin links => links \subseteq Names
      /\ \A j \in sources : j \notin renamed => id_to_name_ext_name(j) = snapshot[j].name
  BY <1>1, <1>2, <1>3, NamesOfCell
<1>5. CASE FailExport
  BY <1>1, <1>5, FailStep
<1>6. CASE links = {} /\ WriteCell(doc, "groups") /\ UNCHANGED unread
  <2>1. doc = [doc EXCEPT ![Len(doc)] = last]
    BY <1>3
  <2>2. WriteCell([doc EXCEPT ![Len(doc)] = last], "groups")
    BY <1>6, <2>1
  <2>3. UNCHANGED <<snapshot, renamed, lost, unread>>
    BY <1>6 DEF WriteCell
  <2>4. LocationAgrees(last) => SourceAgrees(last)
    <3>1. sources = {}
      BY <1>2, <1>6
    <3>2. last.source = None
      BY <1>1 DEF ExportInv
    <3> QED
      BY <1>3, <3>1, <3>2 DEF SourceAgrees
  <2> QED
    BY <1>1, <1>3, <2>2, <2>3, <2>4, CellStep DEF LocationAgrees, SourceAgrees
<1>7. CASE /\ None \notin links /\ links # {}
           /\ WriteCell([doc EXCEPT ![Len(doc)].source = CHOOSE n \in links : TRUE], "groups")
           /\ UNCHANGED unread
  <2> DEFINE n == CHOOSE n \in links : TRUE
  <2>0. PICK r : r = [last EXCEPT !.source = n]
    OBVIOUS
  <2>1. n \in Names /\ n \in links
    BY <1>4, <1>7
  <2>2. WriteCell([doc EXCEPT ![Len(doc)] = r], "groups")
    BY <1>7, <2>0
  <2> HIDE DEF n
  <2>3. r \in Row /\ r.id = last.id /\ r.location = last.location /\ r.source = n
    BY <1>3, <2>0, <2>1 DEF Row, References
  <2>4. UNCHANGED <<snapshot, renamed, lost, unread>>
    BY <1>7 DEF WriteCell
  <2>5. LocationAgrees(r)
    BY <1>3, <2>3 DEF LocationAgrees
  <2>6. n # None
    BY <2>1, ConstantFacts
  <2>7. SourceAgrees(r)
    BY <1>2, <1>3, <1>4, <2>1, <2>3, <2>6 DEF SourceAgrees
  <2>8. LocationAgrees(r)' /\ SourceAgrees(r)'
    BY <2>4, <2>5, <2>7 DEF LocationAgrees, SourceAgrees
  <2> QED
    BY <1>1, <1>7, <2>2, <2>3, <2>8, CellStep
<1> QED
  BY <1>1, <1>5, <1>6, <1>7

LEMMA GroupsStep == ExportInv /\ ExportGroups => ExportInv'
<1> SUFFICES ASSUME ExportInv, ExportGroups PROVE ExportInv'
  OBVIOUS
<1> DEFINE last == doc[Len(doc)]
           names == Groups(Current)
<1>1. stage = "groups" /\ stage \in Exporting
      /\ IF None \in names THEN FailExport
         ELSE /\ WriteCell([doc EXCEPT ![Len(doc)].groups = names], "name")
              /\ UNCHANGED unread
  BY DEF ExportGroups, Exporting
<1>2. names = {id_to_name_ext_name(g) : g \in snapshot[Current].groups}
  BY DEF Groups
<1>3. /\ snapshot[Current].groups \subseteq StoredIn(snapshot) /\ Current = last.id
      /\ last \in Row /\ LocationAgrees(last) /\ SourceAgrees(last)
  BY <1>1, LastRow
<1> HIDE DEF names
<1>4. /\ None \notin names => names \subseteq Names
      /\ \A g \in snapshot[Current].groups :
           g \notin renamed => id_to_name_ext_name(g) = snapshot[g].name
  BY <1>1, <1>2, <1>3, NamesOfCell
<1>5. CASE None \in names
  BY <1>1, <1>5, FailStep
<1>6. CASE None \notin names
  <2>0. PICK r : r = [last EXCEPT !.groups = names]
    OBVIOUS
  <2>1. WriteCell([doc EXCEPT ![Len(doc)] = r], "name") /\ UNCHANGED unread
    BY <1>1, <1>6, <2>0
  <2>2. /\ r \in Row /\ r.id = last.id /\ r.location = last.location
        /\ r.source = last.source /\ r.groups = names
    BY <1>3, <1>4, <1>6, <2>0 DEF Row, References
  <2>3. UNCHANGED <<snapshot, renamed, lost, unread>>
    BY <2>1 DEF WriteCell
  <2>4. LocationAgrees(r) /\ SourceAgrees(r)
    BY <1>3, <2>2 DEF LocationAgrees, SourceAgrees
  <2>5. GroupsAgree(r)
    BY <1>2, <1>3, <1>4, <1>6, <2>2 DEF GroupsAgree
  <2>6. LocationAgrees(r)' /\ SourceAgrees(r)' /\ GroupsAgree(r)'
    BY <2>3, <2>4, <2>5 DEF LocationAgrees, SourceAgrees, GroupsAgree
  <2> QED
    BY <1>1, <2>1, <2>2, <2>6, CellStep
<1> QED
  BY <1>5, <1>6

------------------------------------------------------------------------------
(* The whole run: an export, other requests, an import *)

WholeInv == ExportInv /\ (stage = "import" => ImportInv)

LEMMA WholeInvImplies == WholeInv => ImportInv
BY ReadyToImport DEF WholeInv, ExportInv, RowsInv

LEMMA ImportStepKeeps == ImportInv /\ [Next]_vars => ImportInv'
<1> SUFFICES ASSUME ImportInv, [Next]_vars PROVE ImportInv'
  OBVIOUS
<1>1. TypeInv'
  BY StepTypeOK, StepReferences DEF ImportInv, TypeInv
<1> QED
  BY <1>1, StepNames, StepLicences, StepReport, StepFix DEF ImportInv

LEMMA InitWhole == ExportInit => WholeInv
<1> USE DEF WholeInv
<1>1. CASE Init /\ NoExport /\ stage = "import"
  <2>1. ImportInv
    BY <1>1, InitType, InitNames, InitLicences, InitReport, InitFix DEF ImportInv
  <2> QED
    BY <1>1, <2>1 DEF ExportInv, Exporting
<1>2. CASE /\ Start(ExportDb, MaxFailures) /\ doc = <<>> /\ stage = "begin" /\ snapshot = db
  <2>1. Untouched
    BY <1>2 DEF Start, Untouched, get_licensing_limitation
  <2>2. db = ExportDb /\ licensed = {i \in Ids : db[i].kind = "device" /\ db[i].status = "active"}
    BY <1>2 DEF Start
  <2>3. /\ ExportDb \in [Ids -> Asset] /\ ExportDb[RC0].kind = "rack controller"
        /\ \A i \in Ids : i \in StoredIn(ExportDb) <=> ExportDb[i].name # None
        /\ \A i, j \in StoredIn(ExportDb) : ExportDb[i].name = ExportDb[j].name => i = j
        /\ \A i \in StoredIn(ExportDb) : Refers(ExportDb, i) \subseteq StoredIn(ExportDb)
    BY AssetExportAssumption DEF StoredIn, Refers
  <2>4. Consistent(db)
    BY <2>2, <2>3 DEF Consistent
  <2>5. DbInv
    BY <2>2, <2>3, <2>4, DbFacts
  <2>6. Consistent(snapshot) /\ RowsInv
    BY <1>2, <2>4 DEF RowsInv, RowsSince
  <2> QED
    BY <1>2, <2>1, <2>5, <2>6 DEF ExportInv, Exporting
<1> QED
  BY <1>1, <1>2 DEF ExportInit

LEMMA StepWhole == WholeInv /\ [ExportNext]_allVars => WholeInv'
<1> SUFFICES ASSUME ExportInv, WholeInv, [ExportNext]_allVars
             PROVE  ExportInv' /\ (stage' = "import" => ImportInv')
  BY DEF WholeInv
<1>0. ImportInv
  BY WholeInvImplies
<1>1. CASE BeginExport
  BY <1>1, BeginStep DEF BeginExport
<1>2. CASE ExportName
  BY <1>2, NameStep DEF ExportName, FailExport, WriteCell
<1>11. CASE DatabaseError
  BY <1>11, FailStep DEF DatabaseError, FailExport
<1>3. CASE ExportLocation
  BY <1>3, LocationStep DEF ExportLocation, WriteCell
<1>4. CASE ExportSource
  BY <1>4, SourceStep DEF ExportSource, FailExport, WriteCell
<1>5. CASE ExportGroups
  BY <1>5, GroupsStep DEF ExportGroups, FailExport, WriteCell
<1>6. CASE EndExport
  BY <1>6, EndStep DEF EndExport
<1>7. CASE StartImport
  <2>1. stage' = "import" /\ UNCHANGED vars
    BY <1>7 DEF StartImport
  <2>2. ImportInv'
    BY <1>0, <2>1, ImportStepKeeps
  <2> QED
    BY <2>1, <2>2 DEF ExportInv, Exporting
<1>8. CASE ImportStep \/ AbortStep
  <2>1. stage = "import" /\ stage' = stage /\ Next
    BY <1>8 DEF ImportStep, AbortStep, Next, exportVars
  <2>2. ImportInv'
    BY <1>0, <2>1, ImportStepKeeps
  <2> QED
    BY <2>1, <2>2 DEF ExportInv, Exporting
<1>9. CASE OtherRequest
  <2>1. stage # "import" /\ stage' = stage
    BY <1>9 DEF OtherRequest, RenameAsset, MoveAsset, DeleteAsset, Change, Exporting
  <2> QED
    BY <1>9, <2>1, OtherRequestStep
<1>10. CASE UNCHANGED allVars
  <2>1. UNCHANGED vars /\ UNCHANGED exportVars
    BY <1>10 DEF allVars
  <2>2. ImportInv'
    BY <1>0, <2>1, ImportStepKeeps
  <2>3. UNCHANGED <<doc, configurable, db, licensed, pc, row, target, warning, lists, failures,
                    history>>
    BY <2>1 DEF vars
  <2>4. UNCHANGED <<stage, scope, snapshot, renamed, lost, unread>>
    BY <2>1 DEF exportVars
  <2>5. CASE stage = "import"
    BY <2>4, <2>5, <2>2 DEF ExportInv, Exporting
  <2>6. CASE stage # "import"
    <3>1. /\ Untouched' /\ DbInv' /\ Consistent(snapshot)' /\ (SinceSnapshot => SinceSnapshot')
          /\ Exported' = Exported /\ \A s : LocationAgrees(s) => LocationAgrees(s)'
          /\ \A s : SourceAgrees(s) => SourceAgrees(s)'
          /\ \A s : GroupsAgree(s) => GroupsAgree(s)'
      BY <2>3, <2>4, <2>6, ExportKeeps
    <3>2. doc' = doc /\ \A stages : RowsSince(stages)' = RowsSince(stages)
      BY <2>3, <2>4 DEF RowsSince
    <3>3. RowsInv'
      BY <2>6, <3>1, <3>2 DEF ExportInv, RowsInv
    <3> QED
      BY <2>3, <2>4, <2>6, <3>1, <3>3 DEF ExportInv
  <2> QED
    BY <2>5, <2>6
<1> QED
  BY <1>1, <1>2, <1>3, <1>4, <1>5, <1>6, <1>7, <1>8, <1>9, <1>10, <1>11
     DEF ExportNext, Requests, Export

LEMMA WholeInductive == ExportSpec => []WholeInv
BY InitWhole, StepWhole, PTL DEF ExportSpec

(* The rows of the document agree with each other and with the database as   *)
(* the export began on it, other requests during the export excepted: while  *)
(* an asset is not renamed its name is that of the snapshot, so a cell,      *)
(* looked up outside of the transaction of export_asset_csv, can only differ *)
(* by such a request.  A location can be missing by a deletion or a lookup   *)
(* that failed; groups and power sources are complete.                       *)
THEOREM ExportedDocumentAgrees == ExportSpec => []DocumentAgrees
<1>1. ASSUME WholeInv, stage # "import" PROVE DocumentAgrees
  <2>1. RowsInv
    BY <1>1 DEF WholeInv, ExportInv
  <2>2. ASSUME NEW p \in RowsSince({"source", "groups", "name", "written"})
        PROVE  LET i == doc[p].id  parent == snapshot[i].parent IN
               /\ \/ doc[p].location = IF parent = None THEN None ELSE snapshot[parent].name
                  \/ parent \in renamed \/ i \in unread
               /\ doc[p].location = None => parent \in {None} \cup lost \/ i \in unread
    BY <2>1, <2>2 DEF RowsInv, LocationAgrees
  <2>3. \A p \in RowsSince({"groups", "name", "written"}) : SourceAgrees(doc[p])
    BY <2>1 DEF RowsInv
  <2>4. \A p \in RowsSince({"name", "written"}) : GroupsAgree(doc[p])
    BY <2>1 DEF RowsInv
  <2> QED
    BY <2>2, <2>3, <2>4 DEF DocumentAgrees, SourceAgrees, GroupsAgree
<1>2. WholeInv => DocumentAgrees
  BY <1>1 DEF DocumentAgrees
<1> QED
  BY <1>2, WholeInductive, PTL

(* What the import keeps, it keeps of a document that was exported before as *)
(* well, over the database as the other requests have left it meanwhile: the *)
(* export and the requests lead to a state the import may start from.        *)
THEOREM ImportAfterExport ==
  ExportSpec => [](TypeOK /\ NamesUnique /\ LicencesAgree /\ ReportIsTrue /\ Fixpoint)
<1>1. ImportInv => TypeOK /\ NamesUnique /\ LicencesAgree /\ ReportIsTrue /\ Fixpoint
  BY InvMeansFixpoint DEF ImportInv, TypeInv, NamesInv, LicInv, ReportInv, ReportIsTrue, Committing
<1> QED
  BY <1>1, WholeInvImplies, WholeInductive, PTL

------------------------------------------------------------------------------
(* One asset, shown and put back: titles of columns                          *)

(* Keytags and columns are records.                                          *)
LEMMA KeyFacts ==
  \A b, i, p : Key(b, i, p).base = b /\ Key(b, i, p).index = i /\ Key(b, i, p).part = p
BY DEF Key

(* The parts of a column.                                                    *)
LEMMA ColumnFacts ==
  \A k, v : /\ Column(k, v).title = k /\ Column(k, v).cell = v /\ Column(k, v).from = "asset"
            /\ Attribute(k, v).title = k /\ Attribute(k, v).cell = v /\ Attribute(k, v).from = "ext"
BY DEF Column, Attribute

(* The ways keytags are written.                                             *)
LEMMA NameFacts ==
  \A n, i, p : /\ Plain(n) = Key(n, 0, "") /\ Item(n, i) = Key(n, i, "")
               /\ Outlet(i, p) = Key("outlet", i, p) /\ Master(p) = Key("master", 0, p)
BY DEF Plain, Item, Outlet, Master

BasicNames == {"id", "name", "type", "location", "status", "priority"}
ReservedNames == BasicNames \cup {"sub_type", "asset_tag"}

(* The columns of the asset itself, by their names.                          *)
LEMMA ReservedIs ==
  /\ \A k : k \in Reserved => k.base \in ReservedNames /\ k = Plain(k.base)
  /\ \A n \in ReservedNames : Plain(n) \in Reserved
<1>1. Reserved = {Plain(n) : n \in ReservedNames}
  BY DEF Reserved, ReservedNames, BasicNames
<1>2. \A n : Plain(n).base = n
  BY DEF Plain, Key
<1> HIDE DEF ReservedNames
<1> QED
  BY <1>1, <1>2

(* The names the program gives, one by one.                                  *)
LEMMA OwnNamesAre ==
  OwnNames = ReservedNames \cup Referring \cup Lists \cup
             {"outlet", "master", "model", "location_type", "create_mode", "update_ts", "update_user"}
<1>1. {k.base : k \in Reserved} = ReservedNames
  <2>1. \A n : Plain(n).base = n
    BY DEF Plain, Key
  <2> QED
    BY <2>1, ReservedIs
<1> QED
  BY <1>1 DEF OwnNames

(* The names of the program are as they are spelt; stripping twice is        *)
(* stripping once, and never makes a name empty.                             *)
LEMMA StripFacts ==
  /\ \A n \in OwnNames : Strip(n) = n
  /\ \A v : Strip(Strip(v)) = Strip(v)
  /\ \A v : Strip(v) = "" => v = ""
  /\ \A v : Strip(v) = "N_A" => v = "N_A"
<1>1. \A n \in OwnNames : Strip(n) = n
  BY AssetDocumentAssumption DEF Strip
<1>2. \A n \in DOMAIN Stripped : Stripped[n] \notin DOMAIN Stripped /\ Stripped[n] # "" /\ Stripped[n] # "N_A"
  BY AssetDocumentAssumption
<1> QED
  BY <1>1, <1>2 DEF Strip

(* A keytag and its spelling.                                                *)
LEMMA BareFacts ==
  /\ \A n, i, p : n \in OwnNames => Bare(Key(n, i, p)) = Key(n, i, p)
  /\ \A k : Bare(Bare(k)) = Bare(k)
  /\ \A k : Bare(k).base = Strip(k.base) /\ Bare(k).index = k.index /\ Bare(k).part = k.part
<1>1. \A k : Bare(k) = Key(Strip(k.base), k.index, k.part)
  BY DEF Bare
<1>2. \A k : Bare(k).base = Strip(k.base) /\ Bare(k).index = k.index /\ Bare(k).part = k.part
  BY <1>1, KeyFacts
<1>3. \A n, i, p : n \in OwnNames => Bare(Key(n, i, p)) = Key(n, i, p)
  <2> TAKE n, i, p
  <2>1. Bare(Key(n, i, p)) = Key(Strip(n), i, p)
    BY <1>1, KeyFacts
  <2> QED
    BY <2>1, StripFacts
<1>4. \A k : Bare(Bare(k)) = Bare(k)
  <2> TAKE k
  <2>1. Bare(Bare(k)) = Key(Strip(Strip(k.base)), k.index, k.part)
    BY <1>1, <1>2
  <2> QED
    BY <2>1, <1>1, StripFacts
<1> QED
  BY <1>2, <1>3, <1>4

(* Every name of a title the program gives.                                  *)
LEMMA OwnTitleFixed ==
  ASSUME NEW n, NEW i, NEW p,
         n \in ReservedNames \cup Referring \cup Lists \cup
             {"outlet", "master", "model", "location_type", "create_mode", "update_ts", "update_user"}
  PROVE  Bare(Key(n, i, p)) = Key(n, i, p)
BY BareFacts, OwnNamesAre

------------------------------------------------------------------------------
(* Sets put in order, and the places in a list *)

(* A finite set put in order: every element has a number.                    *)
LEMMA SequenceOfSet ==
  ASSUME NEW S, IsFiniteSet(S)
  PROVE  /\ DOMAIN SetToSeq(S) = 1..Cardinality(S) /\ Cardinality(S) \in Nat
         /\ \A i \in 1..Cardinality(S) : SetToSeq(S)[i] \in S
         /\ \A x \in S : \E i \in 1..Cardinality(S) : SetToSeq(S)[i] = x
<1> DEFINE n == Cardinality(S)
           f == SetToSeq(S)
<1>1. n \in Nat /\ ExistsBijection(1..n, S)
  BY FS_CardinalityType
<1>2. \E g \in [1..n -> S] : IsInjective(g)
  BY <1>1 DEF ExistsBijection, Bijection, Injection
<1>3. f = CHOOSE g \in [1..n -> S] : IsInjective(g)
  BY DEF SetToSeq
<1>4. f \in [1..n -> S] /\ IsInjective(f)
  <2> HIDE DEF f
  <2> QED
    BY <1>2, <1>3, Zenon
<1> HIDE DEF f
<1>5. f \in Injection(1..n, S)
  BY <1>4 DEF Injection
<1>6. IsFiniteSet(1..n) /\ Cardinality(1..n) = n
  BY <1>1, FS_Interval
<1>7. f \in Surjection(1..n, S)
  BY <1>5, <1>6, FS_Injection
<1>8. \A x \in S : \E i \in 1..n : f[i] = x
  BY <1>7 DEF Surjection
<1> QED
  BY <1>1, <1>4, <1>8 DEF f

(* The place of an item among those that are stored, in the order of the     *)
(* text of their numbers.                                                    *)
StoredPlaces(a, list) == {i \in DOMAIN TextOrder : Has(a, Item(list, TextOrder[i]))}
PlaceOf(S, i) == Cardinality({j \in S : j <= i})

(* The order of the numbers by their text.                                   *)
LEMMA TextOrderFacts ==
  /\ Len(TextOrder) \in Nat /\ DOMAIN TextOrder = 1..Len(TextOrder)
  /\ \A i \in DOMAIN TextOrder : TextOrder[i] \in Indexes
  /\ \A n \in Indexes : \E i \in DOMAIN TextOrder : TextOrder[i] = n
  /\ Indexes = 1..Len(TextOrder)
<1>1. TextOrder \in Seq(Nat) /\ Indexes = 1..Len(TextOrder)
  BY AssetDocumentAssumption
<1>2. Len(TextOrder) \in Nat /\ DOMAIN TextOrder = 1..Len(TextOrder)
  BY <1>1
<1>3. Range(TextOrder) = {TextOrder[i] : i \in DOMAIN TextOrder}
  BY DEF Range
<1> QED
  BY <1>1, <1>2, <1>3 DEF Indexes

(* Places are numbers from 1, another for each item.                         *)
LEMMA PlaceFacts ==
  ASSUME NEW n \in Nat, NEW S \in SUBSET (1..n)
  PROVE  /\ \A i \in S : PlaceOf(S, i) \in 1..n
         /\ \A i, j \in S : PlaceOf(S, i) = PlaceOf(S, j) => i = j
<1> DEFINE Upto(i) == {j \in S : j <= i}
<1>1. IsFiniteSet(1..n) /\ Cardinality(1..n) = n
  BY FS_Interval
<1>2. ASSUME NEW i \in S
      PROVE  IsFiniteSet(Upto(i)) /\ Cardinality(Upto(i)) \in 1..n
  <2>0. i \in Nat /\ i <= i
    OBVIOUS
  <2>1. Upto(i) \in SUBSET (1..n) /\ i \in Upto(i)
    BY <2>0
  <2> HIDE DEF Upto
  <2>2. IsFiniteSet(Upto(i)) /\ Cardinality(Upto(i)) <= n
    BY <1>1, <2>1, FS_Subset
  <2>3. Cardinality(Upto(i)) \in Nat
    BY <2>2, FS_CardinalityType
  <2>4. Cardinality(Upto(i)) # 0
    BY <2>1, <2>2, FS_EmptySet
  <2> QED
    BY <2>2, <2>3, <2>4
<1>3. ASSUME NEW i \in S, NEW j \in S, i < j
      PROVE  Cardinality(Upto(i)) # Cardinality(Upto(j))
  <2>0. i \in Nat /\ j \in Nat /\ j <= j /\ ~(j <= i) /\ \A x \in S : x \in Nat /\ (x <= i => x <= j)
    BY <1>3
  <2>1. Upto(i) \in SUBSET Upto(j) /\ j \in Upto(j) /\ j \notin Upto(i)
    BY <2>0
  <2>2. IsFiniteSet(Upto(j))
    BY <1>2
  <2> HIDE DEF Upto
  <2> QED
    BY <2>1, <2>2, FS_Subset
<1>4. ASSUME NEW i \in S, NEW j \in S, i # j
      PROVE  Cardinality(Upto(i)) # Cardinality(Upto(j))
  <2>1. i < j \/ j < i
    BY <1>4
  <2> QED
    BY <2>1, <1>3
<1> QED
  BY <1>2, <1>4 DEF PlaceOf

(* The items of a list a page shows, by their places.                        *)
LEMMA ListItemsAre ==
  \A a, list :
    ListItems(a, list) =
      {Attribute(Item(list, PlaceOf(StoredPlaces(a, list), i)), Value(a, Item(list, TextOrder[i])))
         : i \in StoredPlaces(a, list)}
BY DEF ListItems, StoredPlaces, PlaceOf

(* Every stored item has a place, and every place an item.                   *)
LEMMA StoredPlacesFacts ==
  ASSUME NEW a, NEW list
  PROVE  /\ StoredPlaces(a, list) \in SUBSET (1..Len(TextOrder)) /\ Len(TextOrder) \in Nat
         /\ \A i \in StoredPlaces(a, list) :
              /\ PlaceOf(StoredPlaces(a, list), i) \in Indexes
              /\ Item(list, TextOrder[i]) \in DOMAIN a.ext
         /\ \A i, j \in StoredPlaces(a, list) :
              PlaceOf(StoredPlaces(a, list), i) = PlaceOf(StoredPlaces(a, list), j) => i = j
         /\ \A n \in Indexes : Item(list, n) \in DOMAIN a.ext =>
              \E i \in StoredPlaces(a, list) : TextOrder[i] = n
<1> DEFINE S == StoredPlaces(a, list)
<1>1. S \in SUBSET (1..Len(TextOrder)) /\ Len(TextOrder) \in Nat
  BY TextOrderFacts DEF StoredPlaces
<1>2. /\ \A i \in S : Item(list, TextOrder[i]) \in DOMAIN a.ext
      /\ \A n \in Indexes : Item(list, n) \in DOMAIN a.ext => \E i \in S : TextOrder[i] = n
  BY TextOrderFacts DEF StoredPlaces, Has
<1> HIDE DEF S
<1>3. /\ \A i \in S : PlaceOf(S, i) \in 1..Len(TextOrder)
      /\ \A i, j \in S : PlaceOf(S, i) = PlaceOf(S, j) => i = j
  BY <1>1, PlaceFacts
<1> QED
  BY <1>1, <1>2, <1>3, TextOrderFacts DEF S

------------------------------------------------------------------------------
(* What a document shows of an asset: columns of its own, and attributes *)

GroupType(a) == a.type = "group" /\ ~Has(a, Plain("type"))

SubtypeCell(a, w) ==
  IF GroupType(a) THEN ""
  ELSE IF a.type = "group" THEN Value(a, Plain("type"))
  ELSE IF w = "single" THEN a.subtype ELSE ListSubtype(a)

OwnCell(a, w, t) ==
  CASE t.base = "sub_type" -> SubtypeCell(a, w)
    [] t.base = "asset_tag" -> a.tag
    [] t.base = "location_type" -> (IF a.located THEN "room" ELSE "")
    [] t.base = "group" -> SetToSeq(a.groups)[t.index]
    [] t.base = "power_source" -> SetToSeq(a.links)[t.index].source
    [] t.base = "power_plug_src" -> SetToSeq(a.links)[t.index].socket
    [] OTHER -> "basic"

SubtypeTitles(a, w) == IF w = "single" /\ GroupType(a) THEN {} ELSE {Plain("sub_type")}
TagTitles(a, w) == IF w # "csv" /\ a.tag = "" THEN {} ELSE {Plain("asset_tag")}
TypeTitles(w) == IF w = "csv" THEN {} ELSE {Plain("location_type")}
GroupTitles(a, w) ==
  IF w = "list" THEN {} ELSE {Item("group", i) : i \in DOMAIN SetToSeq(a.groups)}
LinkTitles(a, w) ==
  {Item("power_source", i) : i \in DOMAIN SetToSeq(a.links)} \cup
  {Item("power_plug_src", i) : i \in {j \in DOMAIN SetToSeq(a.links) :
                                        w # "single" \/ SetToSeq(a.links)[j].socket # ""}}
BasicTitles == {Plain(n) : n \in BasicNames}

OwnTitles(a, w) ==
  BasicTitles \cup SubtypeTitles(a, w) \cup TagTitles(a, w) \cup TypeTitles(w) \cup
  GroupTitles(a, w) \cup LinkTitles(a, w)

Own(a, w, T) == {Column(t, OwnCell(a, w, t)) : t \in T}

(* The cells of the asset's own columns.                                     *)
LEMMA OwnCells ==
  ASSUME NEW a, NEW w
  PROVE  /\ \A n \in BasicNames : OwnCell(a, w, Plain(n)) = "basic"
         /\ OwnCell(a, w, Plain("sub_type")) = SubtypeCell(a, w)
         /\ OwnCell(a, w, Plain("asset_tag")) = a.tag
         /\ OwnCell(a, w, Plain("location_type")) = IF a.located THEN "room" ELSE ""
         /\ \A i : OwnCell(a, w, Item("group", i)) = SetToSeq(a.groups)[i]
         /\ \A i : OwnCell(a, w, Item("power_source", i)) = SetToSeq(a.links)[i].source
         /\ \A i : OwnCell(a, w, Item("power_plug_src", i)) = SetToSeq(a.links)[i].socket
<1>1. \A n, i : Plain(n).base = n /\ Item(n, i).base = n /\ Item(n, i).index = i
  BY DEF Plain, Item, Key
<1>2. ASSUME NEW n \in BasicNames PROVE OwnCell(a, w, Plain(n)) = "basic"
  <2>1. Plain(n).base = n
    BY <1>1
  <2> QED
    BY <2>1 DEF OwnCell, BasicNames
<1>3. OwnCell(a, w, Plain("sub_type")) = SubtypeCell(a, w)
  <2>1. Plain("sub_type").base = "sub_type"
    BY <1>1
  <2> QED
    BY <2>1 DEF OwnCell
<1>4. OwnCell(a, w, Plain("asset_tag")) = a.tag
  <2>1. Plain("asset_tag").base = "asset_tag"
    BY <1>1
  <2> QED
    BY <2>1 DEF OwnCell
<1>5. OwnCell(a, w, Plain("location_type")) = IF a.located THEN "room" ELSE ""
  <2>1. Plain("location_type").base = "location_type"
    BY <1>1
  <2> QED
    BY <2>1 DEF OwnCell
<1>6. ASSUME NEW i
      PROVE  /\ OwnCell(a, w, Item("group", i)) = SetToSeq(a.groups)[i]
             /\ OwnCell(a, w, Item("power_source", i)) = SetToSeq(a.links)[i].source
             /\ OwnCell(a, w, Item("power_plug_src", i)) = SetToSeq(a.links)[i].socket
  <2>1. /\ Item("group", i).base = "group" /\ Item("group", i).index = i
        /\ Item("power_source", i).base = "power_source" /\ Item("power_source", i).index = i
        /\ Item("power_plug_src", i).base = "power_plug_src" /\ Item("power_plug_src", i).index = i
    BY <1>1
  <2> QED
    BY <2>1 DEF OwnCell
<1> QED
  BY <1>2, <1>3, <1>4, <1>5, <1>6, Zenon

(* The columns every document has.                                           *)
LEMMA OwnBasic ==
  ASSUME NEW a, NEW w
  PROVE  /\ Own(a, w, BasicTitles) = Basic(BasicNames)
         /\ Own(a, w, {Plain("location_type")})
              = {Column(Plain("location_type"), IF a.located THEN "room" ELSE "")}
         /\ Own(a, w, {Plain("asset_tag")}) = {Column(Plain("asset_tag"), a.tag)}
         /\ Own(a, w, {Plain("sub_type")}) = {Column(Plain("sub_type"), SubtypeCell(a, w))}
<1>1. Own(a, w, BasicTitles) = {Column(Plain(n), OwnCell(a, w, Plain(n))) : n \in BasicNames}
  BY DEF Own, BasicTitles
<1>2. Own(a, w, BasicTitles) = Basic(BasicNames)
  <2>1. \A n \in BasicNames : Column(Plain(n), OwnCell(a, w, Plain(n))) = Column(Plain(n), "basic")
    BY OwnCells, Zenon
  <2> QED
    BY <1>1, <2>1 DEF Basic
<1>3. \A t : Own(a, w, {t}) = {Column(t, OwnCell(a, w, t))}
  BY DEF Own
<1>4. /\ OwnCell(a, w, Plain("sub_type")) = SubtypeCell(a, w)
      /\ OwnCell(a, w, Plain("asset_tag")) = a.tag
      /\ OwnCell(a, w, Plain("location_type")) = IF a.located THEN "room" ELSE ""
  BY OwnCells, Zenon
<1> QED
  BY <1>2, <1>3, <1>4, Zenon

(* The columns of groups.                                                    *)
LEMMA OwnGroups ==
  ASSUME NEW a, NEW w, w # "list"
  PROVE  Own(a, w, GroupTitles(a, w)) = GroupColumns(a)
<1>1. Own(a, w, GroupTitles(a, w)) =
        {Column(Item("group", i), OwnCell(a, w, Item("group", i))) : i \in DOMAIN SetToSeq(a.groups)}
  BY DEF Own, GroupTitles
<1>2. \A i : OwnCell(a, w, Item("group", i)) = SetToSeq(a.groups)[i]
  BY OwnCells
<1> QED
  BY <1>1, <1>2 DEF GroupColumns

(* The columns of power sources and sockets.                                 *)
LEMMA OwnLinks ==
  ASSUME NEW a, NEW w
  PROVE  Own(a, w, LinkTitles(a, w)) = PowerColumns(a, IF w = "single" THEN {""} ELSE {})
<1> DEFINE l == SetToSeq(a.links)
           plugged == {j \in DOMAIN l : w # "single" \/ l[j].socket # ""}
<1>1. Own(a, w, LinkTitles(a, w)) =
        {Column(Item("power_source", i), OwnCell(a, w, Item("power_source", i))) : i \in DOMAIN l} \cup
        {Column(Item("power_plug_src", i), OwnCell(a, w, Item("power_plug_src", i))) : i \in plugged}
  <2> DEFINE R == {Item("power_source", i) : i \in DOMAIN l}
             P == {Item("power_plug_src", i) : i \in plugged}
  <2>1. Own(a, w, LinkTitles(a, w)) = Own(a, w, R) \cup Own(a, w, P)
    BY DEF Own, LinkTitles
  <2>2. Own(a, w, R) = {Column(Item("power_source", i), OwnCell(a, w, Item("power_source", i))) : i \in DOMAIN l}
    BY DEF Own
  <2>3. Own(a, w, P) = {Column(Item("power_plug_src", i), OwnCell(a, w, Item("power_plug_src", i))) : i \in plugged}
    BY DEF Own
  <2> QED
    BY <2>1, <2>2, <2>3
<1>2. plugged = {i \in DOMAIN l : l[i].socket \notin (IF w = "single" THEN {""} ELSE {})}
  OBVIOUS
<1>3. Own(a, w, LinkTitles(a, w)) =
        {Column(Item("power_source", i), l[i].source) : i \in DOMAIN l} \cup
        {Column(Item("power_plug_src", i), l[i].socket) : i \in plugged}
  <2>1. /\ \A i : OwnCell(a, w, Item("power_source", i)) = l[i].source
        /\ \A i : OwnCell(a, w, Item("power_plug_src", i)) = l[i].socket
    BY OwnCells
  <2> QED
    BY <1>1, <2>1
<1> QED
  BY <1>2, <1>3 DEF PowerColumns

(* The column of the subtype.                                                *)
LEMMA OwnSubtype ==
  ASSUME NEW a, NEW w \in Ways
  PROVE  Own(a, w, SubtypeTitles(a, w)) =
           CASE w = "single" -> SubtypeColumn(a, a.subtype)
             [] OTHER -> (IF a.type = "group" /\ ~Has(a, Plain("type")) THEN {Column(Plain("sub_type"), "")}
                          ELSE SubtypeColumn(a, ListSubtype(a)))
<1>1. CASE SubtypeTitles(a, w) = {}
  BY <1>1 DEF SubtypeTitles, Own, SubtypeColumn, GroupType
<1>2. CASE SubtypeTitles(a, w) # {}
  <2>1. Own(a, w, SubtypeTitles(a, w)) = {Column(Plain("sub_type"), SubtypeCell(a, w))}
    BY <1>2, OwnBasic DEF SubtypeTitles
  <2>2. w = "single" => ~GroupType(a)
    BY <1>2 DEF SubtypeTitles
  <2> QED
    BY <2>1, <2>2 DEF SubtypeCell, SubtypeColumn, GroupType
<1> QED
  BY <1>1, <1>2

(* The asset's own columns, kind by kind.                                    *)
LEMMA OwnColumns ==
  ASSUME NEW a, NEW w
  PROVE  Own(a, w, OwnTitles(a, w)) =
           Own(a, w, BasicTitles) \cup Own(a, w, SubtypeTitles(a, w)) \cup
           Own(a, w, TagTitles(a, w)) \cup Own(a, w, TypeTitles(w)) \cup
           Own(a, w, GroupTitles(a, w)) \cup Own(a, w, LinkTitles(a, w))
BY DEF OwnTitles, Own

PlainShown(a, w) ==
  {k \in DOMAIN a.ext :
     \/ w = "single" /\ (~SingleHides(a, k) \/ IsOutlet(k))
     \/ w = "list" /\ (~ListHides(a, k) \/ (IsOutlet(k) /\ k.part # "label"))}
ListsShown(w) == IF w = "single" THEN Lists ELSE IF w = "list" THEN {"ip"} ELSE {}
ItemsShown(a, w) == UNION {ListItems(a, list) : list \in ListsShown(w)}
LabelsShown(a, w) ==
  IF w = "list" THEN {Attribute(Outlet(n, "label"), OutletLabel(a, n)) : n \in OutletNumbers(a)}
  ELSE {}
CellsShown(a, w) ==
  IF w = "csv" THEN {Attribute(k, CsvCell(a, k)) : k \in Keytags(a)} ELSE {}

ExtColumns(a, w) ==
  AttributesOf(a, PlainShown(a, w)) \cup ItemsShown(a, w) \cup LabelsShown(a, w) \cup CellsShown(a, w)

(* The pages and the CSV document are the asset's own columns and those of   *)
(* its attributes.                                                           *)
LEMMA NoLinks ==
  ASSUME NEW a, NEW hidden, a.links = {}
  PROVE  PowerColumns(a, hidden) = {}
<1>1. DOMAIN SetToSeq({}) = {}
  <2>1. DOMAIN SetToSeq({}) = 1..Cardinality({}) /\ Cardinality({}) = 0
    BY SequenceOfSet, FS_EmptySet
  <2> QED
    BY <2>1
<1> QED
  BY <1>1 DEF PowerColumns

(* The page of one asset (getJsonAsset).                                     *)
LEMMA SinglePage ==
  ASSUME NEW a, WellFormed(a)
  PROVE  getJsonAsset(a) = Own(a, "single", OwnTitles(a, "single")) \cup ExtColumns(a, "single")
<1> DEFINE w == "single"
           O(T) == Own(a, w, T)
           Out == {k \in DOMAIN a.ext : IsOutlet(k)}
           Rest == {k \in DOMAIN a.ext : ~SingleHides(a, k)}
<1>1. Basic({"id", "name", "status", "priority", "type"}) \cup Basic({"location"}) = O(BasicTitles)
  <2>1. O(BasicTitles) = Basic(BasicNames)
    BY OwnBasic
  <2> QED
    BY <2>1 DEF Basic, BasicNames
<1>2. O(TypeTitles(w)) = {Column(Plain("location_type"), IF a.located THEN "room" ELSE "")}
  BY OwnBasic DEF TypeTitles
<1>3. O(SubtypeTitles(a, w)) = SubtypeColumn(a, a.subtype)
  BY OwnSubtype DEF Ways
<1>4. O(TagTitles(a, w)) = TagColumn(a)
  BY OwnBasic DEF TagTitles, TagColumn, Own
<1>5. O(GroupTitles(a, w)) = GroupColumns(a)
  BY OwnGroups
<1>6. O(LinkTitles(a, w)) = IF a.type = "device" THEN PowerColumns(a, {""}) ELSE {}
  <2>1. O(LinkTitles(a, w)) = PowerColumns(a, {""})
    BY OwnLinks
  <2>2. a.type # "device" => PowerColumns(a, {""}) = {}
    BY NoLinks DEF WellFormed
  <2> QED
    BY <2>1, <2>2
<1>7. /\ PlainShown(a, w) = Rest \cup Out
      /\ AttributesOf(a, PlainShown(a, w)) = AttributesOf(a, Rest) \cup AttributesOf(a, Out)
  BY DEF PlainShown, AttributesOf
<1>8. ItemsShown(a, w) = ListItems(a, "ip") \cup ListItems(a, "mac")
  BY DEF ItemsShown, ListsShown, Lists
<1>9. LabelsShown(a, w) = {} /\ CellsShown(a, w) = {}
  BY DEF LabelsShown, CellsShown
<1>10. /\ SinglePlaces(a) = Basic({"location"}) \cup
                            {Column(Plain("location_type"), IF a.located THEN "room" ELSE "")}
       /\ SinglePlain(a) = TagColumn(a) \cup AttributesOf(a, Rest)
       /\ SingleOutlets(a) = AttributesOf(a, Out)
  BY DEF SinglePlaces, SinglePlain, SingleOutlets
<1>11. O(OwnTitles(a, w)) = O(BasicTitles) \cup O(SubtypeTitles(a, w)) \cup O(TagTitles(a, w)) \cup
           O(TypeTitles(w)) \cup O(GroupTitles(a, w)) \cup O(LinkTitles(a, w))
  BY OwnColumns
<1>12. getJsonAsset(a) =
          Basic({"id", "name", "status", "priority", "type"}) \cup
          SinglePlaces(a) \cup GroupColumns(a) \cup
          (IF a.type = "device" THEN PowerColumns(a, {""}) ELSE {}) \cup
          SubtypeColumn(a, a.subtype) \cup SinglePlain(a) \cup
          ListItems(a, "ip") \cup ListItems(a, "mac") \cup SingleOutlets(a)
  BY DEF getJsonAsset
<1> HIDE DEF O, Out, Rest
<1> QED
  BY <1>1, <1>2, <1>3, <1>4, <1>5, <1>6, <1>7, <1>8, <1>9, <1>10, <1>11, <1>12 DEF ExtColumns, O

(* The page of many assets (export_asset_json).                              *)
LEMMA ListPage ==
  ASSUME NEW a
  PROVE  export_asset_json(a) = Own(a, "list", OwnTitles(a, "list")) \cup ExtColumns(a, "list")
<1> DEFINE w == "list"
           O(T) == Own(a, w, T)
           Out == {k \in DOMAIN a.ext : IsOutlet(k) /\ k.part # "label"}
           Rest == {k \in DOMAIN a.ext : ~ListHides(a, k)}
           Sub == IF a.type = "group" /\ ~Has(a, Plain("type")) THEN {Column(Plain("sub_type"), "")}
                  ELSE SubtypeColumn(a, ListSubtype(a))
<1>1. Basic({"id", "name", "status", "priority", "type"}) \cup Basic({"location"}) = O(BasicTitles)
  <2>1. O(BasicTitles) = Basic(BasicNames)
    BY OwnBasic
  <2> QED
    BY <2>1 DEF Basic, BasicNames
<1>2. O(TypeTitles(w)) = {Column(Plain("location_type"), IF a.located THEN "room" ELSE "")}
  BY OwnBasic DEF TypeTitles
<1>3. O(SubtypeTitles(a, w)) = Sub
  BY OwnSubtype DEF Ways
<1>4. O(TagTitles(a, w)) = TagColumn(a)
  BY OwnBasic DEF TagTitles, TagColumn, Own
<1>5. O(GroupTitles(a, w)) = {}
  BY DEF GroupTitles, Own
<1>6. O(LinkTitles(a, w)) = PowerColumns(a, {})
  BY OwnLinks
<1>7. /\ PlainShown(a, w) = Rest \cup Out
      /\ AttributesOf(a, PlainShown(a, w)) = AttributesOf(a, Rest) \cup AttributesOf(a, Out)
  BY DEF PlainShown, AttributesOf
<1>8. ItemsShown(a, w) = ListItems(a, "ip")
  BY DEF ItemsShown, ListsShown
<1>9. ListOutlets(a) = LabelsShown(a, w) \cup AttributesOf(a, Out) /\ CellsShown(a, w) = {}
  BY DEF LabelsShown, CellsShown, ListOutlets
<1>10. /\ SinglePlaces(a) = Basic({"location"}) \cup
                            {Column(Plain("location_type"), IF a.located THEN "room" ELSE "")}
       /\ ListPlain(a) = TagColumn(a) \cup AttributesOf(a, Rest)
  BY DEF SinglePlaces, ListPlain
<1>11. O(OwnTitles(a, w)) = O(BasicTitles) \cup O(SubtypeTitles(a, w)) \cup O(TagTitles(a, w)) \cup
           O(TypeTitles(w)) \cup O(GroupTitles(a, w)) \cup O(LinkTitles(a, w))
  BY OwnColumns
<1>12. export_asset_json(a) =
          Basic({"id", "name", "status", "priority", "type"}) \cup
          SinglePlaces(a) \cup Sub \cup
          PowerColumns(a, {}) \cup ListPlain(a) \cup ListItems(a, "ip") \cup ListOutlets(a)
  BY DEF export_asset_json
<1> HIDE DEF O, Out, Rest, Sub
<1> QED
  BY <1>1, <1>2, <1>3, <1>4, <1>5, <1>6, <1>7, <1>8, <1>9, <1>10, <1>11, <1>12 DEF ExtColumns, O

(* The row of a CSV document (export_asset_csv).                             *)
LEMMA CsvPage ==
  ASSUME NEW a
  PROVE  export_asset_csv(a) = Own(a, "csv", OwnTitles(a, "csv")) \cup ExtColumns(a, "csv")
<1> DEFINE w == "csv"
           O(T) == Own(a, w, T)
           Sub == IF a.type = "group" /\ ~Has(a, Plain("type")) THEN {Column(Plain("sub_type"), "")}
                  ELSE SubtypeColumn(a, ListSubtype(a))
<1>1. Basic({"id", "name", "type", "location", "status", "priority"}) = O(BasicTitles)
  BY OwnBasic DEF BasicNames
<1>2. O(TypeTitles(w)) = {}
  BY DEF TypeTitles, Own
<1>3. O(SubtypeTitles(a, w)) = Sub
  BY OwnSubtype DEF Ways
<1>4. O(TagTitles(a, w)) = {Column(Plain("asset_tag"), a.tag)}
  BY OwnBasic DEF TagTitles
<1>5. O(GroupTitles(a, w)) = GroupColumns(a)
  BY OwnGroups
<1>6. O(LinkTitles(a, w)) = PowerColumns(a, {})
  BY OwnLinks
<1>7. PlainShown(a, w) = {} /\ AttributesOf(a, PlainShown(a, w)) = {}
  BY DEF PlainShown, AttributesOf
<1>8. ItemsShown(a, w) = {}
  BY DEF ItemsShown, ListsShown
<1>9. LabelsShown(a, w) = {} /\ CellsShown(a, w) = {Attribute(k, CsvCell(a, k)) : k \in Keytags(a)}
  BY DEF LabelsShown, CellsShown
<1>11. O(OwnTitles(a, w)) = O(BasicTitles) \cup O(SubtypeTitles(a, w)) \cup O(TagTitles(a, w)) \cup
           O(TypeTitles(w)) \cup O(GroupTitles(a, w)) \cup O(LinkTitles(a, w))
  BY OwnColumns
<1>12. export_asset_csv(a) =
          Basic({"id", "name", "type", "location", "status", "priority"}) \cup
          Sub \cup {Column(Plain("asset_tag"), a.tag)} \cup
          PowerColumns(a, {}) \cup {Attribute(k, CsvCell(a, k)) : k \in Keytags(a)} \cup
          GroupColumns(a)
  BY DEF export_asset_csv
<1> HIDE DEF O, Sub
<1> QED
  BY <1>1, <1>2, <1>3, <1>4, <1>5, <1>6, <1>7, <1>8, <1>9, <1>11, <1>12 DEF ExtColumns, O

(* All three: the asset's own columns and those of its attributes.           *)
LEMMA DocumentIs ==
  ASSUME NEW a, WellFormed(a), NEW w \in Ways
  PROVE  Document(a, w) = Own(a, w, OwnTitles(a, w)) \cup ExtColumns(a, w)
BY SinglePage, ListPage, CsvPage DEF Document, Ways

(* The titles of a document                                                  *)
LEMMA NamesApart ==
  /\ \A n \in ReservedNames \cup {"location_type"} : n \notin Referring /\ n \notin Lists /\ n # "outlet"
  /\ \A n \in Referring : n \notin Lists /\ n # "outlet"
  /\ \A n \in Lists : n # "outlet"
  /\ BasicNames \subseteq ReservedNames /\ "sub_type" \in ReservedNames /\ "asset_tag" \in ReservedNames
  /\ "location_type" \notin ReservedNames /\ "sub_type" \notin BasicNames /\ "asset_tag" \notin BasicNames
BY DEF ReservedNames, BasicNames, Referring, Lists

(* The same of the program's keytags.                                        *)
LEMMA BareOwn ==
  ASSUME NEW n,
         n \in ReservedNames \cup Referring \cup Lists \cup
             {"outlet", "master", "model", "location_type", "create_mode", "update_ts", "update_user"}
  PROVE  /\ Bare(Plain(n)) = Plain(n)
         /\ \A i : Bare(Item(n, i)) = Item(n, i)
<1>1. Plain(n) = Key(n, 0, "") /\ \A i : Item(n, i) = Key(n, i, "")
  BY DEF Plain, Item
<1>2. \A i, p : Bare(Key(n, i, p)) = Key(n, i, p)
  BY OwnTitleFixed
<1> QED
  BY <1>1, <1>2

PlainOwn == {Plain(n) : n \in ReservedNames \cup {"location_type"}}

(* Titles of the asset's own columns are spelt as they are read.             *)
LEMMA OwnTitleFacts ==
  ASSUME NEW a, NEW w, NEW t \in OwnTitles(a, w)
  PROVE  /\ Bare(t) = t
         /\ \/ t \in PlainOwn /\ t = Plain(t.base) /\ t.base \in ReservedNames \cup {"location_type"}
            \/ t.base = "group" /\ t = Item("group", t.index)
               /\ t.index \in DOMAIN SetToSeq(a.groups) /\ w # "list"
            \/ t.base = "power_source" /\ t = Item("power_source", t.index)
               /\ t.index \in DOMAIN SetToSeq(a.links)
            \/ t.base = "power_plug_src" /\ t = Item("power_plug_src", t.index)
               /\ t.index \in DOMAIN SetToSeq(a.links)
<1>0. \A n, i : Plain(n).base = n /\ Item(n, i).base = n /\ Item(n, i).index = i
  BY DEF Plain, Item, Key
<1>1. CASE t \in PlainOwn
  <2>1. PICK n \in ReservedNames \cup {"location_type"} : t = Plain(n)
    BY <1>1 DEF PlainOwn
  <2>2. Bare(t) = t
    BY <2>1, BareOwn
  <2> QED
    BY <1>0, <1>1, <2>1, <2>2
<1>2. CASE t \in GroupTitles(a, w)
  <2>1. w # "list" /\ \E i \in DOMAIN SetToSeq(a.groups) : t = Item("group", i)
    BY <1>2 DEF GroupTitles
  <2>2. PICK i \in DOMAIN SetToSeq(a.groups) : t = Item("group", i)
    BY <2>1
  <2>3. Bare(t) = t
    BY <2>2, BareOwn DEF Referring
  <2> QED
    BY <1>0, <2>1, <2>2, <2>3
<1>3. CASE t \in LinkTitles(a, w)
  <2>1. PICK i \in DOMAIN SetToSeq(a.links) : t = Item("power_source", i) \/ t = Item("power_plug_src", i)
    BY <1>3 DEF LinkTitles
  <2>2. Bare(t) = t
    BY <2>1, BareOwn DEF Referring
  <2> QED
    BY <1>0, <2>1, <2>2
<1>4. t \in PlainOwn \/ t \in GroupTitles(a, w) \/ t \in LinkTitles(a, w)
  <2>1. /\ BasicTitles \subseteq PlainOwn /\ SubtypeTitles(a, w) \subseteq PlainOwn
        /\ TagTitles(a, w) \subseteq PlainOwn /\ TypeTitles(w) \subseteq PlainOwn
    BY DEF BasicTitles, SubtypeTitles, TagTitles, TypeTitles, PlainOwn, ReservedNames
  <2> QED
    BY <2>1 DEF OwnTitles
<1> QED
  BY <1>1, <1>2, <1>3, <1>4

(* A column of an attribute is one of four kinds.                            *)
LEMMA ExtCases ==
  ASSUME NEW a, NEW w, NEW c \in ExtColumns(a, w)
  PROVE  /\ c.from = "ext"
         /\ \/ c.title \in PlainShown(a, w) /\ c = Attribute(c.title, Value(a, c.title))
            \/ \E list \in ListsShown(w) : \E i \in StoredPlaces(a, list) :
                 c = Attribute(Item(list, PlaceOf(StoredPlaces(a, list), i)),
                               Value(a, Item(list, TextOrder[i])))
            \/ w = "list" /\ \E n \in OutletNumbers(a) :
                 c = Attribute(Outlet(n, "label"), OutletLabel(a, n))
            \/ w = "csv" /\ c.title \in Keytags(a) /\ c = Attribute(c.title, CsvCell(a, c.title))
<1>1. CASE c \in AttributesOf(a, PlainShown(a, w))
  <2>1. PICK k \in PlainShown(a, w) : c = Attribute(k, Value(a, k))
    BY <1>1 DEF AttributesOf
  <2>2. c.title = k /\ c.from = "ext"
    BY <2>1, ColumnFacts
  <2> QED
    BY <2>1, <2>2
<1>2. CASE c \in ItemsShown(a, w)
  <2>1. PICK list \in ListsShown(w) : c \in ListItems(a, list)
    BY <1>2 DEF ItemsShown
  <2>2. PICK i \in StoredPlaces(a, list) :
          c = Attribute(Item(list, PlaceOf(StoredPlaces(a, list), i)), Value(a, Item(list, TextOrder[i])))
    BY <2>1, ListItemsAre
  <2>3. c.from = "ext"
    BY <2>2, ColumnFacts
  <2> QED
    BY <2>2, <2>3
<1>3. CASE c \in LabelsShown(a, w)
  <2>1. w = "list" /\ \E n \in OutletNumbers(a) : c = Attribute(Outlet(n, "label"), OutletLabel(a, n))
    BY <1>3 DEF LabelsShown
  <2>2. c.from = "ext"
    BY <2>1, ColumnFacts
  <2> QED
    BY <2>1, <2>2
<1>4. CASE c \in CellsShown(a, w)
  <2>1. w = "csv" /\ \E k \in Keytags(a) : c = Attribute(k, CsvCell(a, k))
    BY <1>4 DEF CellsShown
  <2>2. PICK k \in Keytags(a) : c = Attribute(k, CsvCell(a, k))
    BY <2>1
  <2>3. c.title = k /\ c.from = "ext"
    BY <2>2, ColumnFacts
  <2> QED
    BY <2>1, <2>2, <2>3
<1> QED
  BY <1>1, <1>2, <1>3, <1>4 DEF ExtColumns

(* What is known of a stored attribute.                                      *)
LEMMA WellFormedTag ==
  ASSUME NEW a, WellFormed(a), NEW k \in DOMAIN a.ext
  PROVE  /\ IsKeytag(k) /\ k # Plain("name") /\ (IsItem(Bare(k)) => k.index \in Indexes)
         /\ Value(a, k) # "" /\ (Bare(k) = Plain("create_mode") => a.ext[k].ro)
BY DEF WellFormed, Value

(* Keytags with a name the program gives.                                    *)
LEMMA OwnKeytag ==
  ASSUME NEW n \in Lists \cup {"outlet", "model"}, NEW i \in Nat, NEW p
  PROVE  IsKeytag(Key(n, i, p))
<1>1. Strip(n) = n /\ n \notin Referring
  BY StripFacts, OwnNamesAre DEF Lists, Referring
<1> QED
  BY <1>1, KeyFacts DEF IsKeytag

(* Titles of attributes are keytags; items that are not empty are numbered.  *)
LEMMA ExtTitle ==
  ASSUME NEW a, WellFormed(a), NEW w \in Ways, NEW c \in ExtColumns(a, w)
  PROVE  /\ IsKeytag(c.title)
         /\ c.cell # "" => (IsItem(Bare(c.title)) => c.title.index \in Indexes)
<1>1. CASE c.title \in PlainShown(a, w)
  BY <1>1, WellFormedTag DEF PlainShown
<1>2. ASSUME NEW list \in ListsShown(w), NEW i \in StoredPlaces(a, list),
             c = Attribute(Item(list, PlaceOf(StoredPlaces(a, list), i)), Value(a, Item(list, TextOrder[i])))
      PROVE  IsKeytag(c.title) /\ c.title.index \in Indexes
  <2>1. list \in Lists
    BY DEF ListsShown, Lists
  <2> DEFINE p == PlaceOf(StoredPlaces(a, list), i)
  <2>2. p \in Indexes /\ p \in Nat
    BY StoredPlacesFacts, TextOrderFacts
  <2> HIDE DEF p
  <2>3. c.title = Key(list, p, "")
    BY <1>2, ColumnFacts, NameFacts DEF p
  <2>4. IsKeytag(Key(list, p, ""))
    BY <2>1, <2>2, OwnKeytag
  <2>5. Key(list, p, "").index = p
    BY DEF Key
  <2> QED
    BY <2>2, <2>3, <2>4, <2>5
<1>3. ASSUME NEW n \in OutletNumbers(a), c = Attribute(Outlet(n, "label"), OutletLabel(a, n))
      PROVE  IsKeytag(c.title) /\ ~IsItem(Bare(c.title))
  <2>1. n \in Nat
    <3>1. PICK k \in DOMAIN a.ext : n = k.index
      BY DEF OutletNumbers
    <3> QED
      BY <3>1, WellFormedTag DEF IsKeytag
  <2>2. c.title = Key("outlet", n, "label")
    BY <1>3, ColumnFacts, NameFacts
  <2>3. Bare(c.title) = c.title
    BY <2>2, OwnTitleFixed
  <2>4. IsKeytag(Key("outlet", n, "label"))
    BY <2>1, OwnKeytag
  <2>5. Key("outlet", n, "label").part = "label"
    BY KeyFacts
  <2> QED
    BY <2>2, <2>3, <2>4, <2>5 DEF IsItem
<1>4. ASSUME w = "csv", c.title \in Keytags(a), c = Attribute(c.title, CsvCell(a, c.title))
      PROVE  IsKeytag(c.title) /\ (c.cell # "" => (IsItem(Bare(c.title)) => c.title.index \in Indexes))
  <2>1. IsKeytag(c.title)
    <3>1. IsKeytag(Plain("model")) /\ IsKeytag(Item("ip", 1))
      <4>1. IsKeytag(Key("model", 0, "")) /\ IsKeytag(Key("ip", 1, ""))
        BY OwnKeytag DEF Lists
      <4> QED
        BY <4>1 DEF Plain, Item
    <3>2. c.title \in OtherTags \/ c.title \in DOMAIN a.ext \/ c.title = Plain("model") \/ c.title = Item("ip", 1)
      BY <1>4 DEF Keytags
    <3> QED
      BY <3>1, <3>2, WellFormedTag, AssetDocumentAssumption
  <2>2. c.cell = CsvCell(a, c.title)
    BY <1>4, ColumnFacts
  <2>3. c.cell # "" => c.title \in DOMAIN a.ext
    BY <2>2 DEF CsvCell, Has
  <2> QED
    BY <2>1, <2>3, WellFormedTag
<1>5. CASE \E list \in ListsShown(w) : \E i \in StoredPlaces(a, list) :
             c = Attribute(Item(list, PlaceOf(StoredPlaces(a, list), i)), Value(a, Item(list, TextOrder[i])))
  BY <1>2, <1>5
<1>6. CASE \E n \in OutletNumbers(a) : c = Attribute(Outlet(n, "label"), OutletLabel(a, n))
  BY <1>3, <1>6
<1>7. CASE w = "csv" /\ c.title \in Keytags(a) /\ c = Attribute(c.title, CsvCell(a, c.title))
  BY <1>4, <1>7
<1>8. \/ c.title \in PlainShown(a, w) /\ c = Attribute(c.title, Value(a, c.title))
      \/ \E list \in ListsShown(w) : \E i \in StoredPlaces(a, list) :
           c = Attribute(Item(list, PlaceOf(StoredPlaces(a, list), i)),
                         Value(a, Item(list, TextOrder[i])))
      \/ w = "list" /\ \E n \in OutletNumbers(a) :
           c = Attribute(Outlet(n, "label"), OutletLabel(a, n))
      \/ w = "csv" /\ c.title \in Keytags(a) /\ c = Attribute(c.title, CsvCell(a, c.title))
  BY ExtCases
<1> QED
  BY <1>1, <1>5, <1>6, <1>7, <1>8, Zenon

(* Columns of one title: there is only one, and it is the one that is read.  *)
LEMMA GetIs ==
  ASSUME NEW cols, ~DuplicateTitle(cols), NEW c \in cols, NEW k, Bare(c.title) = k
  PROVE  HasTitle(cols, k) /\ Get(cols, k) = c.cell
<1>1. \A d \in cols : Title(d) = k => d = c
  BY DEF DuplicateTitle, Title
<1>2. Title(c) = k
  BY DEF Title
<1>3. (CHOOSE d \in cols : Title(d) = k) = c
  BY <1>1, <1>2
<1> QED
  BY <1>2, <1>3 DEF HasTitle, Get

(* What is read is the cell of some column.                                  *)
LEMMA GetFrom ==
  ASSUME NEW cols, NEW k, HasTitle(cols, k)
  PROVE  \E c \in cols : Bare(c.title) = k /\ Get(cols, k) = c.cell
BY DEF HasTitle, Get, Title

(* The asset's own columns, from their titles.                               *)
LEMMA OwnColumnFacts ==
  ASSUME NEW a, NEW w, NEW c \in Own(a, w, OwnTitles(a, w))
  PROVE  c.title \in OwnTitles(a, w) /\ c.cell = OwnCell(a, w, c.title) /\ c.from = "asset"
         /\ c = Column(c.title, c.cell)
<1>1. PICK t \in OwnTitles(a, w) : c = Column(t, OwnCell(a, w, t))
  BY DEF Own
<1> QED
  BY <1>1, ColumnFacts

(* Every title of the asset's own has its column in the document.            *)
LEMMA OwnColumnIn ==
  ASSUME NEW a, WellFormed(a), NEW w \in Ways, NEW t \in OwnTitles(a, w)
  PROVE  \E c \in Document(a, w) : c.title = t /\ Bare(c.title) = t /\ c.cell = OwnCell(a, w, t) /\ c.from = "asset"
<1> DEFINE c == Column(t, OwnCell(a, w, t))
<1>1. c \in Document(a, w)
  BY DocumentIs DEF Own
<1>2. c.title = t /\ c.cell = OwnCell(a, w, t) /\ c.from = "asset"
  BY ColumnFacts
<1>3. Bare(t) = t
  BY OwnTitleFacts
<1> QED
  BY <1>1, <1>2, <1>3

(* Which of the attributes' columns a title belongs to                       *)
ShownItem(w, t) == t.base \in ListsShown(w) /\ IsItem(t)
ShownLabel(w, t) == w = "list" /\ t.base = "outlet" /\ t.part = "label"

IsItemColumn(a, c) ==
  \E i \in StoredPlaces(a, c.title.base) :
    /\ c.title = Item(c.title.base, PlaceOf(StoredPlaces(a, c.title.base), i))
    /\ c = Attribute(c.title, Value(a, Item(c.title.base, TextOrder[i])))
IsLabelColumn(a, c) ==
  /\ c.title = Outlet(c.title.index, "label") /\ c.title.index \in OutletNumbers(a)
  /\ c = Attribute(c.title, OutletLabel(a, c.title.index))
IsCsvColumn(a, c) == c.title \in Keytags(a) /\ c = Attribute(c.title, CsvCell(a, c.title))
IsPlainColumn(a, w, c) == c.title \in PlainShown(a, w) /\ c = Attribute(c.title, Value(a, c.title))

(* What a page shows among the attributes is shown nowhere else.             *)
LEMMA PlainClass ==
  ASSUME NEW a, NEW w \in Ways, NEW t \in PlainShown(a, w)
  PROVE  w # "csv" /\ ~ShownItem(w, t) /\ ~ShownLabel(w, t) /\ t \in DOMAIN a.ext
         /\ t # Plain("location_type") /\ (a.type = "group" => t # Plain("type"))
<1>0. \A n : Plain(n).base = n
  BY DEF Plain, Key
<1>1. t \in DOMAIN a.ext
  BY DEF PlainShown
<1>2. CASE w = "single"
  <2>1. ~SingleHides(a, t) \/ IsOutlet(t)
    BY <1>2 DEF PlainShown
  <2>2. IsOutlet(t) => t.base = "outlet"
    BY DEF IsOutlet
  <2>3. ~SingleHides(a, t) => t # Plain("location_type") /\ ~(t = Plain("type") /\ a.type = "group") /\ ~IsItem(t)
    BY DEF SingleHides
  <2>4. t.base = "outlet" => t.base \notin Lists
    BY DEF Lists
  <2>5. ~ShownLabel(w, t)
    BY <1>2 DEF ShownLabel
  <2>6. ~ShownItem(w, t)
    <3>1. t.base = "outlet" => ~IsItem(t)
      BY <2>4 DEF IsItem
    <3> QED
      BY <2>1, <2>2, <2>3, <3>1 DEF ShownItem
  <2>7. t # Plain("location_type") /\ (a.type = "group" => t # Plain("type"))
    <3>1. t.base = "outlet" => t # Plain("location_type") /\ t # Plain("type")
      BY <1>0
    <3> QED
      BY <2>1, <2>2, <2>3, <3>1
  <2> QED
    BY <1>1, <1>2, <2>5, <2>6, <2>7
<1>3. CASE w = "list"
  <2>1. ~ListHides(a, t) \/ (IsOutlet(t) /\ t.part # "label")
    BY <1>3 DEF PlainShown
  <2>2. IsOutlet(t) => t.base = "outlet"
    BY DEF IsOutlet
  <2>3. ~ListHides(a, t) => t # Plain("location_type") /\ ~(t = Plain("type") /\ a.type = "group")
                            /\ ~(IsItem(t) /\ t.base = "ip") /\ ~IsOutlet(t)
    BY DEF ListHides
  <2>4. ListsShown(w) = {"ip"}
    BY <1>3 DEF ListsShown
  <2>5. t.base = "outlet" /\ t.part = "label" => IsOutlet(t)
    BY DEF IsOutlet, OutletParts
  <2> QED
    BY <1>0, <1>1, <1>3, <2>1, <2>2, <2>3, <2>4, <2>5 DEF ShownItem, ShownLabel
<1>4. CASE w = "csv"
  BY <1>4 DEF PlainShown
<1> QED
  BY <1>2, <1>3, <1>4 DEF Ways

(* The kind of the column of an attribute follows from its title.            *)
LEMMA ExtIs ==
  ASSUME NEW a, WellFormed(a), NEW w \in Ways, NEW c \in ExtColumns(a, w)
  PROVE  \/ w = "csv" /\ IsCsvColumn(a, c)
         \/ w # "csv" /\ ShownItem(w, c.title) /\ IsItemColumn(a, c)
         \/ ShownLabel(w, c.title) /\ IsLabelColumn(a, c)
         \/ /\ w # "csv" /\ ~ShownItem(w, c.title) /\ ~ShownLabel(w, c.title)
            /\ IsPlainColumn(a, w, c)
<1>1. CASE c.title \in PlainShown(a, w) /\ c = Attribute(c.title, Value(a, c.title))
  BY <1>1, PlainClass DEF IsPlainColumn
<1>2. ASSUME NEW list \in ListsShown(w), NEW i \in StoredPlaces(a, list),
             c = Attribute(Item(list, PlaceOf(StoredPlaces(a, list), i)), Value(a, Item(list, TextOrder[i])))
      PROVE  w # "csv" /\ ShownItem(w, c.title) /\ IsItemColumn(a, c)
  <2> DEFINE p == PlaceOf(StoredPlaces(a, list), i)
  <2>1. c.title = Item(list, p)
    BY <1>2, ColumnFacts
  <2>2. p \in Indexes
    BY StoredPlacesFacts
  <2> HIDE DEF p
  <2>3. p > 0
    BY <2>2, TextOrderFacts
  <2>4. Item(list, p).base = list /\ Item(list, p).index = p /\ Item(list, p).part = ""
    BY DEF Item, Key
  <2>5. w # "csv" /\ list \in Lists
    BY DEF ListsShown, Lists
  <2>6. ShownItem(w, c.title) /\ c.title.base = list
    BY <2>1, <2>3, <2>4, <2>5 DEF ShownItem, IsItem
  <2>7. IsItemColumn(a, c)
    BY <1>2, <2>1, <2>6 DEF IsItemColumn, p
  <2> QED
    BY <2>5, <2>6, <2>7
<1>3. ASSUME w = "list", NEW n \in OutletNumbers(a), c = Attribute(Outlet(n, "label"), OutletLabel(a, n))
      PROVE  ShownLabel(w, c.title) /\ IsLabelColumn(a, c)
  <2>1. c.title = Outlet(n, "label")
    BY <1>3, ColumnFacts
  <2>2. Outlet(n, "label").base = "outlet" /\ Outlet(n, "label").part = "label" /\ Outlet(n, "label").index = n
    BY DEF Outlet, Key
  <2> QED
    BY <1>3, <2>1, <2>2 DEF ShownLabel, IsLabelColumn
<1>4. CASE w = "csv" /\ c.title \in Keytags(a) /\ c = Attribute(c.title, CsvCell(a, c.title))
  BY <1>4 DEF IsCsvColumn
<1>5. CASE \E list \in ListsShown(w) : \E i \in StoredPlaces(a, list) :
             c = Attribute(Item(list, PlaceOf(StoredPlaces(a, list), i)), Value(a, Item(list, TextOrder[i])))
  BY <1>2, <1>5
<1>6. CASE w = "list" /\ \E n \in OutletNumbers(a) : c = Attribute(Outlet(n, "label"), OutletLabel(a, n))
  BY <1>3, <1>6
<1>8. \/ c.title \in PlainShown(a, w) /\ c = Attribute(c.title, Value(a, c.title))
      \/ \E list \in ListsShown(w) : \E i \in StoredPlaces(a, list) :
           c = Attribute(Item(list, PlaceOf(StoredPlaces(a, list), i)),
                         Value(a, Item(list, TextOrder[i])))
      \/ w = "list" /\ \E n \in OutletNumbers(a) :
           c = Attribute(Outlet(n, "label"), OutletLabel(a, n))
      \/ w = "csv" /\ c.title \in Keytags(a) /\ c = Attribute(c.title, CsvCell(a, c.title))
  BY ExtCases
<1> QED
  BY <1>1, <1>4, <1>5, <1>6, <1>8, Zenon

(* No two columns of attributes have one title, as it is written.            *)
LEMMA ExtUnique ==
  ASSUME NEW a, WellFormed(a), NEW w \in Ways,
         NEW c \in ExtColumns(a, w), NEW d \in ExtColumns(a, w), c.title = d.title
  PROVE  c = d
<1>1. CASE w = "csv"
  <2>1. IsCsvColumn(a, c) /\ IsCsvColumn(a, d)
    BY <1>1, ExtIs DEF ShownLabel
  <2> QED
    BY <2>1 DEF IsCsvColumn
<1>2. CASE w # "csv" /\ ShownItem(w, c.title)
  <2>1. ~ShownLabel(w, c.title)
    BY <1>2 DEF ShownLabel, ShownItem, IsItem
  <2>2. IsItemColumn(a, c) /\ IsItemColumn(a, d)
    BY <1>2, <2>1, ExtIs
  <2> DEFINE list == c.title.base
             S == StoredPlaces(a, list)
  <2>3. PICK i \in S : c.title = Item(list, PlaceOf(S, i)) /\ c = Attribute(c.title, Value(a, Item(list, TextOrder[i])))
    BY <2>2 DEF IsItemColumn
  <2>4. PICK j \in S : c.title = Item(list, PlaceOf(S, j)) /\ d = Attribute(c.title, Value(a, Item(list, TextOrder[j])))
    BY <2>2 DEF IsItemColumn
  <2>5. \A p : Item(list, p).index = p
    BY DEF Item, Key
  <2>6. PlaceOf(S, i) = PlaceOf(S, j)
    BY <2>3, <2>4, <2>5
  <2>7. i = j
    BY <2>6, StoredPlacesFacts
  <2> QED
    BY <2>3, <2>4, <2>7
<1>3. CASE ShownLabel(w, c.title)
  <2>1. ~ShownItem(w, c.title) /\ w # "csv"
    BY <1>3 DEF ShownLabel, ShownItem, IsItem
  <2>2. IsLabelColumn(a, c) /\ IsLabelColumn(a, d)
    BY <1>3, <2>1, ExtIs
  <2> QED
    BY <2>2 DEF IsLabelColumn
<1>4. CASE w # "csv" /\ ~ShownItem(w, c.title) /\ ~ShownLabel(w, c.title)
  <2>1. IsPlainColumn(a, w, c) /\ IsPlainColumn(a, w, d)
    BY <1>4, ExtIs
  <2> QED
    BY <2>1 DEF IsPlainColumn
<1> QED
  BY <1>1, <1>2, <1>3, <1>4

------------------------------------------------------------------------------
(* Refusals *)

(* The CSV document says nothing of the type of the location.                *)
LEMMA CsvHasNoLocationType ==
  \A a : Plain("location_type") \notin OwnTitles(a, "csv")
<1> TAKE a
<1> SUFFICES ASSUME Plain("location_type") \in OwnTitles(a, "csv") PROVE FALSE
  OBVIOUS
<1> DEFINE t == Plain("location_type")
<1>1. \A n, i : Plain(n).base = n /\ Item(n, i).base = n
  BY DEF Plain, Item, Key
<1>2. t.base = "location_type"
  BY <1>1
<1>3. t \notin BasicTitles
  BY <1>1 DEF BasicTitles, BasicNames
<1>4. t \notin SubtypeTitles(a, "csv") /\ t \notin TagTitles(a, "csv") /\ t \notin TypeTitles("csv")
  BY <1>1 DEF SubtypeTitles, TagTitles, TypeTitles
<1>5. t \notin GroupTitles(a, "csv")
  BY <1>1, <1>2 DEF GroupTitles
<1>6. t \notin LinkTitles(a, "csv")
  BY <1>1, <1>2 DEF LinkTitles
<1> HIDE DEF t
<1> QED
  BY <1>3, <1>4, <1>5, <1>6 DEF OwnTitles, t

(* What may be the title of an attribute and of a column of the asset.       *)
LEMMA ExtLikeOwn ==
  ASSUME NEW a, WellFormed(a), NEW w \in Ways, NEW c \in ExtColumns(a, w),
         c.title \in OwnTitles(a, w)
  PROVE  /\ w # "csv" /\ c.title \in DOMAIN a.ext /\ c.title \in Reserved
         /\ a.type = "group" => c.title # Plain("type")
<1> DEFINE t == c.title
<1>1. IsKeytag(t)
  BY ExtTitle
<1>2. t.base \notin Referring
  BY <1>1, StripFacts, OwnNamesAre DEF IsKeytag
<1>3. t = Plain(t.base) /\ t.base \in ReservedNames \cup {"location_type"}
  BY <1>2, OwnTitleFacts DEF Referring
<1>4. t.base \notin Lists /\ t.base # "outlet"
  BY <1>3, NamesApart
<1>5. ListsShown(w) \subseteq Lists
  BY DEF ListsShown, Lists
<1>6. ~ShownItem(w, t) /\ ~ShownLabel(w, t)
  BY <1>4, <1>5 DEF ShownItem, ShownLabel
<1>7. t \in Reserved \/ t = Plain("location_type")
  BY <1>3, ReservedIs
<1>8. w # "csv"
  <2> SUFFICES ASSUME w = "csv" PROVE FALSE
    OBVIOUS
  <2>1. t \in Keytags(a)
    BY <1>6, ExtIs DEF IsCsvColumn
  <2>2. t = Plain("location_type")
    BY <1>7, <2>1 DEF Keytags
  <2> QED
    BY <2>2, CsvHasNoLocationType
<1>9. t \in PlainShown(a, w)
  BY <1>6, <1>8, ExtIs DEF IsPlainColumn
<1> QED
  BY <1>7, <1>8, <1>9, PlainClass

Excused(a, w) ==
  \/ \E k \in DOMAIN a.ext :
       \/ k \in Reserved /\ (a.type # "group" \/ k # Plain("type"))
       \/ Bare(k) # k
  \/ w = "csv" /\ \E k \in OtherTags : Bare(k) # k

(* Without excuse, every title is read as it is written.                     *)
LEMMA TitlesAsWritten ==
  ASSUME NEW a, WellFormed(a), NEW w \in Ways, ~Excused(a, w), NEW c \in Document(a, w)
  PROVE  Bare(c.title) = c.title
<1>1. CASE c \in Own(a, w, OwnTitles(a, w))
  BY <1>1, OwnColumnFacts, OwnTitleFacts
<1>2. CASE c \in ExtColumns(a, w)
  <2>1. CASE w = "csv" /\ IsCsvColumn(a, c)
    <3>1. c.title \in Keytags(a)
      BY <2>1 DEF IsCsvColumn
    <3>2. \/ c.title \in OtherTags \/ c.title \in DOMAIN a.ext
          \/ c.title = Plain("model") \/ c.title = Item("ip", 1)
      BY <3>1 DEF Keytags
    <3>3. Bare(Plain("model")) = Plain("model") /\ Bare(Item("ip", 1)) = Item("ip", 1)
      BY BareOwn DEF Lists
    <3> QED
      BY <2>1, <3>2, <3>3 DEF Excused
  <2>2. CASE w # "csv" /\ ShownItem(w, c.title) /\ IsItemColumn(a, c)
    <3>1. c.title.base \in Lists
      BY <2>2 DEF ShownItem, IsItem
    <3>2. PICK p : c.title = Item(c.title.base, p)
      BY <2>2 DEF IsItemColumn
    <3> QED
      BY <3>1, <3>2, BareOwn
  <2>3. CASE ShownLabel(w, c.title) /\ IsLabelColumn(a, c)
    <3>1. c.title = Key("outlet", c.title.index, "label")
      BY <2>3 DEF IsLabelColumn, Outlet
    <3>2. \A i : Bare(Key("outlet", i, "label")) = Key("outlet", i, "label")
      BY OwnTitleFixed
    <3> QED
      BY <3>1, <3>2
  <2>4. CASE w # "csv" /\ IsPlainColumn(a, w, c)
    <3>1. c.title \in DOMAIN a.ext
      BY <2>4, PlainClass DEF IsPlainColumn
    <3> QED
      BY <3>1 DEF Excused
  <2> QED
    BY <1>2, <2>1, <2>2, <2>3, <2>4, ExtIs, Zenon
<1> QED
  BY <1>1, <1>2, DocumentIs

(* Without excuse, no two columns have one title.                            *)
LEMMA NoDuplicates ==
  ASSUME NEW a, WellFormed(a), NEW w \in Ways, ~Excused(a, w)
  PROVE  ~DuplicateTitle(Document(a, w))
<1> SUFFICES ASSUME NEW c \in Document(a, w), NEW d \in Document(a, w), Bare(c.title) = Bare(d.title)
             PROVE  c = d
  BY DEF DuplicateTitle, Title
<1>1. c.title = d.title
  BY TitlesAsWritten
<1>2. CASE c \in Own(a, w, OwnTitles(a, w)) /\ d \in Own(a, w, OwnTitles(a, w))
  <2>1. c.cell = OwnCell(a, w, c.title) /\ c = Column(c.title, c.cell)
    BY <1>2, OwnColumnFacts
  <2>2. d.cell = OwnCell(a, w, d.title) /\ d = Column(d.title, d.cell)
    BY <1>2, OwnColumnFacts
  <2> QED
    BY <1>1, <2>1, <2>2
<1>3. CASE c \in ExtColumns(a, w) /\ d \in ExtColumns(a, w)
  BY <1>1, <1>3, ExtUnique
<1>4. ASSUME NEW e \in ExtColumns(a, w) PROVE e.title \notin OwnTitles(a, w)
  <2> SUFFICES ASSUME e.title \in OwnTitles(a, w) PROVE FALSE
    OBVIOUS
  <2>1. e.title \in DOMAIN a.ext /\ e.title \in Reserved /\ (a.type = "group" => e.title # Plain("type"))
    BY ExtLikeOwn
  <2> QED
    BY <2>1 DEF Excused
<1>5. \A e \in Own(a, w, OwnTitles(a, w)) : e.title \in OwnTitles(a, w)
  BY OwnColumnFacts
<1> QED
  BY <1>1, <1>2, <1>3, <1>4, <1>5, DocumentIs

(* The subtype a document that is not refused has. *)
LEMMA SubtypeRead ==
  ASSUME NEW a, WellFormed(a), NEW w \in Ways, ~DuplicateTitle(Document(a, w)),
         ~(w = "single" /\ GroupType(a))
  PROVE  /\ HasTitle(Document(a, w), Plain("sub_type"))
         /\ Get(Document(a, w), Plain("sub_type")) = SubtypeCell(a, w)
<1>1. Plain("sub_type") \in OwnTitles(a, w)
  BY DEF OwnTitles, SubtypeTitles
<1>2. PICK c \in Document(a, w) : Bare(c.title) = Plain("sub_type") /\ c.cell = OwnCell(a, w, Plain("sub_type"))
  BY <1>1, OwnColumnIn
<1>3. OwnCell(a, w, Plain("sub_type")) = SubtypeCell(a, w)
  BY OwnCells
<1> HIDE DEF SubtypeCell
<1> QED
  BY <1>2, <1>3, GetIs

(* A document is refused for its columns, or for want of a subtype.          *)
LEMMA RefusedOnly ==
  ASSUME NEW a, WellFormed(a), NEW w \in Ways, Refused(a, Document(a, w)), ~Excused(a, w)
  PROVE  \/ a.type = "device" /\ a.subtype = "N_A"
         \/ a.type = "group" /\ ~Has(a, Plain("type"))
<1> SUFFICES ASSUME ~(a.type = "device" /\ a.subtype = "N_A"), ~GroupType(a)
             PROVE  FALSE
  BY DEF GroupType
<1> DEFINE cols == Document(a, w)
           s == Get(cols, Plain("sub_type"))
<1>1. ~DuplicateTitle(cols)
  BY NoDuplicates
<1>2. HasTitle(cols, Plain("sub_type")) /\ s = SubtypeCell(a, w)
  BY <1>1, SubtypeRead
<1>3. BadSubtype(a, Strip(s))
  BY <1>1, <1>2 DEF Refused
<1> HIDE DEF s
<1>4. CASE a.type = "group"
  <2>1. Plain("type") \in DOMAIN a.ext
    BY <1>4 DEF GroupType, Has
  <2>2. s = Value(a, Plain("type")) /\ s # ""
    BY <1>2, <1>4, <2>1, WellFormedTag DEF SubtypeCell
  <2> QED
    BY <1>3, <1>4, <2>2, StripFacts DEF BadSubtype
<1>5. CASE a.type = "device"
  <2>1. a.subtype # "" /\ a.subtype # "N_A"
    BY <1>5 DEF WellFormed
  <2>2. s = a.subtype
    BY <1>2, <1>5, <2>1 DEF SubtypeCell, ListSubtype, GroupType
  <2> QED
    BY <1>3, <1>5, <2>1, <2>2, StripFacts DEF BadSubtype
<1> QED
  BY <1>3, <1>4, <1>5 DEF BadSubtype

------------------------------------------------------------------------------
(* What is read of the asset's own columns                                   *)

(* The asset's own columns are read as they were shown.                      *)
LEMMA OwnRead ==
  ASSUME NEW a, WellFormed(a), NEW w \in Ways, ~DuplicateTitle(Document(a, w)),
         NEW t \in OwnTitles(a, w)
  PROVE  HasTitle(Document(a, w), t) /\ Get(Document(a, w), t) = OwnCell(a, w, t)
<1>1. PICK c \in Document(a, w) : Bare(c.title) = t /\ c.cell = OwnCell(a, w, t)
  BY OwnColumnIn
<1> QED
  BY <1>1, GetIs

(* Only the asset has columns called like references.                        *)
LEMMA ReferenceTitle ==
  ASSUME NEW a, WellFormed(a), NEW w \in Ways, NEW name \in Referring, NEW n,
         HasTitle(Document(a, w), Item(name, n))
  PROVE  Item(name, n) \in OwnTitles(a, w)
<1>1. PICK c \in Document(a, w) : Bare(c.title) = Item(name, n)
  BY GetFrom
<1>2. Item(name, n).base = name
  BY DEF Item, Key
<1>3. c \notin ExtColumns(a, w)
  <2> SUFFICES ASSUME c \in ExtColumns(a, w) PROVE FALSE
    OBVIOUS
  <2>1. Strip(c.title.base) = name
    BY <1>1, <1>2, BareFacts
  <2> QED
    BY <2>1, ExtTitle DEF IsKeytag
<1>4. c.title \in OwnTitles(a, w)
  BY <1>3, DocumentIs, OwnColumnFacts
<1> QED
  BY <1>1, <1>4, OwnTitleFacts

(* The number of a title is a number.                                        *)
LEMMA IndexIsNumber ==
  ASSUME NEW a, WellFormed(a), NEW w \in Ways, NEW c \in Document(a, w)
  PROVE  c.title.index \in Nat
<1>1. CASE c \in ExtColumns(a, w)
  BY <1>1, ExtTitle DEF IsKeytag
<1>2. CASE c \in Own(a, w, OwnTitles(a, w))
  <2>1. c.title \in OwnTitles(a, w)
    BY <1>2, OwnColumnFacts
  <2>2. \A n : Plain(n).index = 0
    BY DEF Plain, Key
  <2>3. /\ DOMAIN SetToSeq(a.groups) = 1..Cardinality(a.groups) /\ Cardinality(a.groups) \in Nat
        /\ DOMAIN SetToSeq(a.links) = 1..Cardinality(a.links) /\ Cardinality(a.links) \in Nat
    BY SequenceOfSet DEF WellFormed
  <2>4. \/ c.title = Plain(c.title.base) \/ c.title.index \in DOMAIN SetToSeq(a.groups)
        \/ c.title.index \in DOMAIN SetToSeq(a.links)
    BY <2>1, OwnTitleFacts
  <2> QED
    BY <2>2, <2>3, <2>4
<1> QED
  BY <1>1, <1>2, DocumentIs

(* The numbers of a reference go from 1 without a gap.                       *)
LEMMA NumberedIs ==
  ASSUME NEW a, WellFormed(a), NEW w \in Ways, NEW name \in Referring, NEW m \in Nat,
         \A n : Item(name, n) \in OwnTitles(a, w) <=> n \in 1..m
  PROVE  Numbered(Document(a, w), name) = 1..m
<1> DEFINE cols == Document(a, w)
<1>1. \A n : HasTitle(cols, Item(name, n)) <=> n \in 1..m
  <2>1. \A n : HasTitle(cols, Item(name, n)) => n \in 1..m
    BY ReferenceTitle
  <2>2. \A n \in 1..m : HasTitle(cols, Item(name, n))
    <3> TAKE n \in 1..m
    <3>1. PICK c \in cols : Bare(c.title) = Item(name, n)
      BY OwnColumnIn
    <3> QED
      BY <3>1 DEF HasTitle, Title
  <2> QED
    BY <2>1, <2>2
<1>2. ASSUME NEW i \in Numbered(cols, name) PROVE i \in 1..m
  <2>1. /\ \E c \in cols : i = c.title.index
        /\ i # 0 /\ \A n \in 1..i : HasTitle(cols, Item(name, n))
    BY DEF Numbered
  <2>2. i \in Nat
    BY <2>1, IndexIsNumber
  <2>3. i \in 1..i
    BY <2>1, <2>2
  <2> QED
    BY <1>1, <2>1, <2>3
<1>3. ASSUME NEW i \in 1..m PROVE i \in Numbered(cols, name)
  <2>1. PICK c \in cols : c.title = Item(name, i)
    BY OwnColumnIn
  <2>2. c.title.index = i
    <3>1. Item(name, i).index = i
      BY DEF Item, Key
    <3> QED
      BY <2>1, <3>1
  <2>3. \A n \in 1..i : n \in 1..m
    OBVIOUS
  <2> HIDE DEF cols
  <2>4. i # 0 /\ i \in {d.title.index : d \in cols}
    BY <2>2
  <2> QED
    BY <1>1, <2>3, <2>4 DEF Numbered
<1> QED
  BY <1>2, <1>3

(* Which references a document names.                                        *)
LEMMA OwnReferences ==
  ASSUME NEW a, WellFormed(a), NEW w \in Ways
  PROVE  /\ w # "list" => \A n : Item("group", n) \in OwnTitles(a, w) <=> n \in 1..Cardinality(a.groups)
         /\ w = "list" => \A n : Item("group", n) \notin OwnTitles(a, w)
         /\ \A n : Item("power_source", n) \in OwnTitles(a, w) <=> n \in 1..Cardinality(a.links)
         /\ \A n : Item("power_plug_src", n) \in OwnTitles(a, w) => n \in 1..Cardinality(a.links)
<1>1. /\ DOMAIN SetToSeq(a.groups) = 1..Cardinality(a.groups)
      /\ DOMAIN SetToSeq(a.links) = 1..Cardinality(a.links)
  BY SequenceOfSet DEF WellFormed
<1>2. \A n, m : /\ Item(n, m).base = n /\ Item(n, m).index = m
                /\ Plain(n).base = n
  BY DEF Item, Plain, Key
<1>3. "group" \notin ReservedNames \cup {"location_type"} /\ "power_source" \notin ReservedNames \cup {"location_type"}
      /\ "power_plug_src" \notin ReservedNames \cup {"location_type"}
  BY DEF ReservedNames, BasicNames
<1>4. ASSUME NEW n, Item("group", n) \in OwnTitles(a, w)
      PROVE  w # "list" /\ n \in DOMAIN SetToSeq(a.groups)
  BY <1>2, <1>3, <1>4, OwnTitleFacts
<1>5. ASSUME NEW n, Item("power_source", n) \in OwnTitles(a, w) PROVE n \in DOMAIN SetToSeq(a.links)
  BY <1>2, <1>3, <1>5, OwnTitleFacts
<1>6. ASSUME NEW n, Item("power_plug_src", n) \in OwnTitles(a, w) PROVE n \in DOMAIN SetToSeq(a.links)
  BY <1>2, <1>3, <1>6, OwnTitleFacts
<1>7. w # "list" => \A n \in DOMAIN SetToSeq(a.groups) : Item("group", n) \in OwnTitles(a, w)
  BY DEF OwnTitles, GroupTitles
<1>8. \A n \in DOMAIN SetToSeq(a.links) : Item("power_source", n) \in OwnTitles(a, w)
  BY DEF OwnTitles, LinkTitles
<1> QED
  BY <1>1, <1>4, <1>5, <1>6, <1>7, <1>8

(* The groups that are read.                                                 *)
LEMMA GroupsRead ==
  ASSUME NEW a, WellFormed(a), NEW w \in Ways, ~DuplicateTitle(Document(a, w))
  PROVE  ReadGroups(Document(a, w)) = IF w = "list" THEN {} ELSE a.groups
<1> DEFINE cols == Document(a, w)
<1>0. "group" \in Referring /\ 0 \in Nat
  BY DEF Referring
<1>1. CASE w = "list"
  <2>1. \A n : Item("group", n) \in OwnTitles(a, w) <=> n \in 1..0
    BY <1>1, OwnReferences
  <2>2. Numbered(cols, "group") = 1..0
    BY <1>0, <2>1, NumberedIs
  <2> QED
    BY <1>1, <2>2 DEF ReadGroups
<1>2. CASE w # "list"
  <2> DEFINE m == Cardinality(a.groups)
             g == SetToSeq(a.groups)
  <2>1. m \in Nat /\ (\A i \in 1..m : g[i] \in a.groups) /\ (\A x \in a.groups : \E i \in 1..m : g[i] = x)
    BY SequenceOfSet DEF WellFormed
  <2>2. \A n : Item("group", n) \in OwnTitles(a, w) <=> n \in 1..m
    BY <1>2, OwnReferences
  <2>3. Numbered(cols, "group") = 1..m
    BY <1>0, <2>1, <2>2, NumberedIs
  <2>4. \A i \in 1..m : Get(cols, Item("group", i)) = g[i]
    <3> TAKE i \in 1..m
    <3>1. Get(cols, Item("group", i)) = OwnCell(a, w, Item("group", i))
      BY <2>2, OwnRead
    <3> QED
      BY <3>1, OwnCells
  <2>5. ReadGroups(cols) = {Get(cols, Item("group", i)) : i \in 1..m}
    BY <2>3 DEF ReadGroups
  <2> HIDE DEF cols, m, g
  <2>6. ReadGroups(cols) = a.groups
    BY <2>1, <2>4, <2>5
  <2> QED
    BY <1>2, <2>6 DEF cols
<1> QED
  BY <1>1, <1>2

(* The power sources that are read.                                          *)
LEMMA LinksRead ==
  ASSUME NEW a, WellFormed(a), NEW w \in Ways, ~DuplicateTitle(Document(a, w))
  PROVE  /\ {l.source : l \in ReadLinks(a, Document(a, w))} = {l.source : l \in a.links}
         /\ IsFiniteSet(ReadLinks(a, Document(a, w)))
         /\ a.type # "device" => ReadLinks(a, Document(a, w)) = {}
<1> DEFINE cols == Document(a, w)
<1>1. CASE a.type # "device"
  <2>1. ReadLinks(a, cols) = {} /\ a.links = {}
    BY <1>1 DEF ReadLinks, WellFormed
  <2> QED
    BY <1>1, <2>1, FS_EmptySet
<1>2. CASE a.type = "device"
  <2> DEFINE m == Cardinality(a.links)
             l == SetToSeq(a.links)
  <2>1. m \in Nat /\ (\A i \in 1..m : l[i] \in a.links) /\ (\A x \in a.links : \E i \in 1..m : l[i] = x)
    BY SequenceOfSet DEF WellFormed
  <2>2. \A n : Item("power_source", n) \in OwnTitles(a, w) <=> n \in 1..m
    BY OwnReferences
  <2>3. Numbered(cols, "power_source") = 1..m
    BY <2>1, <2>2, NumberedIs DEF Referring
  <2>4. \A i \in 1..m : Get(cols, Item("power_source", i)) = l[i].source
    <3>0. \A i : OwnCell(a, w, Item("power_source", i)) = l[i].source
      BY OwnCells
    <3> HIDE DEF l
    <3> TAKE i \in 1..m
    <3>1. Get(cols, Item("power_source", i)) = OwnCell(a, w, Item("power_source", i))
      BY <2>2, OwnRead
    <3> QED
      BY <3>0, <3>1
  <2>5. ReadLinks(a, cols) = {LinkAt(cols, i) : i \in 1..m}
    BY <1>2, <2>3 DEF ReadLinks
  <2>6. \A i : LinkAt(cols, i).source = Get(cols, Item("power_source", i))
    BY DEF LinkAt
  <2>7. IsFiniteSet(ReadLinks(a, cols))
    <3> DEFINE f == [i \in 1..m |-> LinkAt(cols, i)]
    <3>1. f \in Surjection(1..m, ReadLinks(a, cols))
      <4> HIDE DEF cols, m
      <4> QED
        BY <2>5 DEF Surjection
    <3>2. IsFiniteSet(1..m)
      BY <2>1, FS_Interval
    <3> HIDE DEF f
    <3> QED
      BY <3>1, <3>2, FS_Surjection
  <2> HIDE DEF cols, m, l
  <2>8. {x.source : x \in ReadLinks(a, cols)} = {x.source : x \in a.links}
    BY <2>1, <2>4, <2>5, <2>6
  <2> QED
    BY <1>2, <2>7, <2>8 DEF cols
<1> QED
  BY <1>1, <1>2

(* A tag; where none is shown, an attribute may be taken for it. *)
LEMMA ExtTakenFor ==
  ASSUME NEW a, WellFormed(a), NEW w \in Ways, NEW n \in {"asset_tag", "sub_type"},
         Plain(n) \notin OwnTitles(a, w), HasTitle(Document(a, w), Plain(n)), w # "csv"
  PROVE  \E k \in DOMAIN a.ext : Bare(k) = Plain(n)
<1>1. PICK c \in Document(a, w) : Bare(c.title) = Plain(n)
  BY GetFrom
<1>2. c \in ExtColumns(a, w)
  <2> SUFFICES ASSUME c \in Own(a, w, OwnTitles(a, w)) PROVE FALSE
    BY DocumentIs
  <2>1. c.title \in OwnTitles(a, w)
    BY OwnColumnFacts
  <2> QED
    BY <1>1, <2>1, OwnTitleFacts
<1>3. Plain(n).base = n
  BY DEF Plain, Key
<1>4. Bare(c.title).base = n
  BY <1>1, <1>3
<1>5. CASE ShownItem(w, c.title) /\ IsItemColumn(a, c)
  <2>1. Bare(c.title).base = c.title.base /\ c.title.base \in Lists
    BY <1>5, StripFacts, OwnNamesAre, BareFacts DEF ShownItem, IsItem
  <2> QED
    BY <1>4, <2>1 DEF Lists
<1>6. CASE ShownLabel(w, c.title)
  <2>1. Bare(c.title).base = "outlet"
    BY <1>6, StripFacts, OwnNamesAre, BareFacts DEF ShownLabel
  <2> QED
    BY <1>4, <2>1
<1>7. CASE IsPlainColumn(a, w, c)
  BY <1>1, <1>7, PlainClass DEF IsPlainColumn
<1> QED
  BY <1>2, <1>5, <1>6, <1>7, ExtIs

(* The tag that is read.                                                     *)
LEMMA TagRead ==
  ASSUME NEW a, WellFormed(a), NEW w \in Ways, ~DuplicateTitle(Document(a, w)), NEW over, NEW user
  PROVE  \/ Update(a, w, Document(a, w), over, user).tag = a.tag
         \/ a.tag = "" /\ \E k \in DOMAIN a.ext : Bare(k) = Plain("asset_tag")
<1> DEFINE cols == Document(a, w)
<1>1. Update(a, w, cols, over, user).tag =
        IF HasTitle(cols, Plain("asset_tag")) THEN Get(cols, Plain("asset_tag")) ELSE ""
  BY DEF Update
<1>2. CASE Plain("asset_tag") \in OwnTitles(a, w)
  <2>1. HasTitle(cols, Plain("asset_tag")) /\ Get(cols, Plain("asset_tag")) = OwnCell(a, w, Plain("asset_tag"))
    BY <1>2, OwnRead
  <2>2. OwnCell(a, w, Plain("asset_tag")) = a.tag
    BY OwnCells
  <2> QED
    BY <1>1, <2>1, <2>2
<1>3. CASE Plain("asset_tag") \notin OwnTitles(a, w)
  <2>1. a.tag = "" /\ w # "csv"
    BY <1>3 DEF OwnTitles, TagTitles
  <2>2. HasTitle(cols, Plain("asset_tag")) => \E k \in DOMAIN a.ext : Bare(k) = Plain("asset_tag")
    BY <1>3, <2>1, ExtTakenFor
  <2> QED
    BY <1>1, <2>1, <2>2
<1> QED
  BY <1>2, <1>3

------------------------------------------------------------------------------
(* What is stored of the attributes                                          *)

RoTags(a) == {k \in DOMAIN a.ext : a.ext[k].ro}
NewTags(a, cols) == UnusedColumns(cols) \cup (IF a.type = "group" THEN {Plain("type")} ELSE {})
NewValue(a, cols, k) ==
  IF a.type = "group" /\ k = Plain("type") THEN Strip(Get(cols, Plain("sub_type"))) ELSE Get(cols, k)

(* What update_device and its like store of the attributes.                  *)
LEMMA ReadExtIs ==
  ASSUME NEW a, NEW cols, NEW over
  PROVE  /\ DOMAIN ReadExt(a, cols, over) = RoTags(a) \cup NewTags(a, cols)
         /\ \A k \in RoTags(a) \cup NewTags(a, cols) :
              ReadExt(a, cols, over)[k] =
                IF k \in NewTags(a, cols) /\ (over \/ k \notin RoTags(a))
                THEN [ro |-> FALSE, value |-> NewValue(a, cols, k)]
                ELSE a.ext[k]
<1> DEFINE group == IF a.type = "group" THEN {Plain("type")} ELSE {}
<1>1. \A k : k \in group <=> a.type = "group" /\ k = Plain("type")
  OBVIOUS
<1>2. \A k : (IF k \in group THEN Strip(Get(cols, Plain("sub_type"))) ELSE Get(cols, k)) = NewValue(a, cols, k)
  BY <1>1 DEF NewValue
<1>3. ReadExt(a, cols, over) =
        [k \in RoTags(a) \cup NewTags(a, cols) |->
           IF k \in NewTags(a, cols) /\ (over \/ k \notin RoTags(a))
           THEN [ro |-> FALSE,
                 value |-> IF k \in group THEN Strip(Get(cols, Plain("sub_type"))) ELSE Get(cols, k)]
           ELSE a.ext[k]]
  BY DEF ReadExt, RoTags, NewTags
<1> HIDE DEF group
<1> QED
  BY <1>2, <1>3

Stamped(a, w, user) == IF w = "csv" /\ a.type = "device" THEN StampsBy(user) ELSE {}
StampOf(user, k) == [ro |-> TRUE, value |-> IF k = Plain("update_ts") THEN "now" ELSE user]

LEMMA StampFacts ==
  ASSUME NEW user, NEW k \in StampsBy(user)
  PROVE  /\ k \in {Plain(n) : n \in {"update_ts", "update_user"}} /\ k \in Stamps
         /\ StampOf(user, k).ro /\ StampOf(user, k).value # ""
<1>1. k \in Stamps /\ (k = Plain("update_user") => user # "")
  BY DEF StampsBy
<1>2. k = Plain("update_ts") \/ (k = Plain("update_user") /\ user # "")
  BY <1>1 DEF Stamps
<1> QED
  BY <1>1, <1>2 DEF StampOf

(* The same, with the time and the user of a CSV import.                     *)
LEMMA UpdateIs ==
  ASSUME NEW a, NEW w, NEW cols, NEW over, NEW user
  PROVE  /\ DOMAIN Update(a, w, cols, over, user).ext = RoTags(a) \cup NewTags(a, cols) \cup Stamped(a, w, user)
         /\ \A k \in Stamped(a, w, user) : Update(a, w, cols, over, user).ext[k] = StampOf(user, k)
         /\ \A k \in (RoTags(a) \cup NewTags(a, cols)) \ Stamped(a, w, user) :
              Update(a, w, cols, over, user).ext[k] =
                IF k \in NewTags(a, cols) /\ (over \/ k \notin RoTags(a))
                THEN [ro |-> FALSE, value |-> NewValue(a, cols, k)]
                ELSE a.ext[k]
<1> DEFINE ext == ReadExt(a, cols, over)
<1>1. Update(a, w, cols, over, user).ext = Stamp(a, w, user, ext)
  BY DEF Update
<1>2. /\ DOMAIN ext = RoTags(a) \cup NewTags(a, cols)
      /\ \A k \in RoTags(a) \cup NewTags(a, cols) :
              ext[k] = IF k \in NewTags(a, cols) /\ (over \/ k \notin RoTags(a))
                       THEN [ro |-> FALSE, value |-> NewValue(a, cols, k)]
                       ELSE a.ext[k]
  BY ReadExtIs
<1> HIDE DEF ext
<1>3. /\ DOMAIN Stamp(a, w, user, ext) = DOMAIN ext \cup Stamped(a, w, user)
      /\ \A k \in Stamped(a, w, user) : Stamp(a, w, user, ext)[k] = StampOf(user, k)
      /\ \A k \in DOMAIN ext \ Stamped(a, w, user) : Stamp(a, w, user, ext)[k] = ext[k]
  <2>1. CASE w = "csv" /\ a.type = "device"
    <3>1. /\ Stamped(a, w, user) = StampsBy(user)
          /\ Stamp(a, w, user, ext) = [k \in DOMAIN ext \cup StampsBy(user) |->
                IF k \in StampsBy(user) THEN StampOf(user, k) ELSE ext[k]]
      BY <2>1 DEF Stamp, Stamped, StampOf
    <3> QED
      BY <3>1
  <2>2. CASE ~(w = "csv" /\ a.type = "device")
    BY <2>2 DEF Stamp, Stamped
  <2> QED
    BY <2>1, <2>2
<1> QED
  BY <1>1, <1>2, <1>3

(* A column of an attribute that is not empty is stored. *)
LEMMA ExtStored ==
  ASSUME NEW a, WellFormed(a), NEW w \in Ways, ~DuplicateTitle(Document(a, w)),
         NEW c \in ExtColumns(a, w), c.cell # "", ~Taken(Bare(c.title))
  PROVE  /\ Bare(c.title) \in NewTags(a, Document(a, w))
         /\ NewValue(a, Document(a, w), Bare(c.title)) = c.cell
<1> DEFINE cols == Document(a, w)
           k == Bare(c.title)
<1>1. c \in cols
  BY DocumentIs
<1>2. Get(cols, k) = c.cell
  BY <1>1, GetIs
<1>3. k \in UnusedColumns(cols)
  BY <1>1, <1>2 DEF UnusedColumns, Title
<1>4. k # Plain("type")
  BY ReservedIs DEF Taken, ReservedNames, BasicNames
<1> QED
  BY <1>2, <1>3, <1>4 DEF NewTags, NewValue

(* What is stored anew was a column, not taken. *)
LEMMA NewIsColumn ==
  ASSUME NEW a, WellFormed(a), NEW w \in Ways, ~DuplicateTitle(Document(a, w)),
         NEW k \in UnusedColumns(Document(a, w))
  PROVE  /\ ~Taken(k) /\ k # Plain("type") /\ Bare(k) = k
         /\ NewValue(a, Document(a, w), k) # ""
         /\ \E c \in Document(a, w) : Bare(c.title) = k /\ NewValue(a, Document(a, w), k) = c.cell
<1> DEFINE cols == Document(a, w)
<1>1. PICK c \in cols : Bare(c.title) = k
  BY DEF UnusedColumns, Title
<1>2. ~Taken(k) /\ Get(cols, k) # ""
  BY DEF UnusedColumns
<1>3. k # Plain("type")
  BY <1>2, ReservedIs DEF Taken, ReservedNames, BasicNames
<1>4. Get(cols, k) = c.cell
  BY <1>1, GetIs
<1>5. Bare(k) = k
  BY <1>1, BareFacts
<1>6. NewValue(a, cols, k) = Get(cols, k)
  BY <1>3 DEF NewValue
<1> QED
  BY <1>1, <1>2, <1>3, <1>4, <1>5, <1>6

(* A column that is stored is not empty.                                     *)
LEMMA NewColumn ==
  ASSUME NEW a, WellFormed(a), NEW w \in Ways, ~DuplicateTitle(Document(a, w)),
         NEW k \in UnusedColumns(Document(a, w))
  PROVE  \E c \in Document(a, w) : Bare(c.title) = k /\ c.cell # ""
<1> DEFINE cols == Document(a, w)
<1>1. PICK c \in cols : Bare(c.title) = k
  BY DEF UnusedColumns, Title
<1>2. Get(cols, k) # ""
  BY DEF UnusedColumns
<1>3. Get(cols, k) = c.cell
  BY <1>1, GetIs
<1> QED
  BY <1>1, <1>2, <1>3

(* An own column that is not taken is the type of the location. *)
LEMMA OwnTaken ==
  ASSUME NEW a, NEW w, NEW t \in OwnTitles(a, w), ~Taken(t)
  PROVE  t = Plain("location_type") /\ t.base = "location_type"
<1>1. Plain("location_type").base = "location_type"
  BY DEF Plain, Key
<1> QED
  BY <1>1, OwnTitleFacts, ReservedIs DEF Taken, Referring

(* The type a group is given, if it is stored. *)
LEMMA GroupTypeRead ==
  ASSUME NEW a, WellFormed(a), NEW w \in Ways, ~Refused(a, Document(a, w)), a.type = "group"
  PROVE  /\ NewValue(a, Document(a, w), Plain("type")) # ""
         /\ Has(a, Plain("type")) =>
              NewValue(a, Document(a, w), Plain("type")) = Strip(Value(a, Plain("type")))
         /\ ~Has(a, Plain("type")) => \E k \in DOMAIN a.ext : Bare(k) = Plain("sub_type")
<1> DEFINE cols == Document(a, w)
           s == Get(cols, Plain("sub_type"))
<1>1. ~DuplicateTitle(cols) /\ HasTitle(cols, Plain("sub_type")) /\ ~BadSubtype(a, Strip(s))
  BY DEF Refused
<1>2. NewValue(a, cols, Plain("type")) = Strip(s) /\ Strip(s) # ""
  BY <1>1 DEF NewValue, BadSubtype
<1>3. w # "single" \/ Has(a, Plain("type")) => s = SubtypeCell(a, w)
  BY <1>1, SubtypeRead DEF GroupType
<1> HIDE DEF s
<1>4. Has(a, Plain("type")) => s = Value(a, Plain("type"))
  BY <1>3 DEF SubtypeCell, GroupType
<1>5. ~Has(a, Plain("type")) => w = "single"
  <2> SUFFICES ASSUME ~Has(a, Plain("type")), w # "single" PROVE FALSE
    OBVIOUS
  <2>1. s = ""
    BY <1>3 DEF SubtypeCell, GroupType
  <2>2. "" \notin DOMAIN Stripped
    BY AssetDocumentAssumption
  <2> QED
    BY <1>2, <2>1, <2>2 DEF Strip
<1>6. ~Has(a, Plain("type")) => \E k \in DOMAIN a.ext : Bare(k) = Plain("sub_type")
  <2> SUFFICES ASSUME ~Has(a, Plain("type")) PROVE \E k \in DOMAIN a.ext : Bare(k) = Plain("sub_type")
    OBVIOUS
  <2>1. w = "single" /\ GroupType(a)
    BY <1>5 DEF GroupType
  <2>2. Plain("sub_type") \notin OwnTitles(a, w)
    <3>1. \A n, i : Plain(n).base = n /\ Item(n, i).base = n
      BY DEF Plain, Item, Key
    <3>2. SubtypeTitles(a, w) = {}
      BY <2>1 DEF SubtypeTitles
    <3>3. Plain("sub_type").base = "sub_type"
      BY <3>1
    <3>4. Plain("sub_type") \notin BasicTitles /\ Plain("sub_type") \notin TagTitles(a, w)
          /\ Plain("sub_type") \notin TypeTitles(w)
      BY <3>1 DEF BasicTitles, BasicNames, TagTitles, TypeTitles
    <3>5. Plain("sub_type") \notin GroupTitles(a, w)
      BY <3>1, <3>3 DEF GroupTitles
    <3>6. Plain("sub_type") \notin LinkTitles(a, w)
      <4>1. \A i : Item("power_source", i).base # "sub_type" /\ Item("power_plug_src", i).base # "sub_type"
        BY <3>1
      <4>2. \A i : Item("power_source", i) # Plain("sub_type") /\ Item("power_plug_src", i) # Plain("sub_type")
        BY <3>3, <4>1
      <4> HIDE DEF s, cols
      <4> QED
        BY <4>2 DEF LinkTitles
    <3> QED
      BY <3>2, <3>4, <3>5, <3>6 DEF OwnTitles
  <2> QED
    BY <1>1, <2>1, <2>2, ExtTakenFor
<1> QED
  BY <1>2, <1>4, <1>6

------------------------------------------------------------------------------
(* The stored asset is well formed                                           *)

(* Attributes the program itself stores.                                     *)
LEMMA OwnTagFacts ==
  ASSUME NEW n \in {"type", "location_type", "update_ts", "update_user"}
  PROVE  /\ IsKeytag(Plain(n)) /\ Plain(n) # Plain("name") /\ ~IsItem(Bare(Plain(n)))
         /\ Bare(Plain(n)) # Plain("create_mode")
<1>1. \A m : Plain(m).base = m /\ Plain(m).index = 0 /\ Plain(m).part = "" /\ Plain(m) = Key(m, 0, "")
  BY DEF Plain, Key
<1>2. Strip(n) = n /\ n \notin Referring
  BY StripFacts, OwnNamesAre DEF ReservedNames, BasicNames, Referring
<1>3. Bare(Plain(n)) = Plain(n)
  BY BareOwn DEF ReservedNames, BasicNames
<1>4. Plain(n).base = n /\ Plain("name").base = "name" /\ Plain("create_mode").base = "create_mode"
  BY <1>1
<1>5. IsKeytag(Plain(n))
  <2> DEFINE p == Plain(n)
  <2>1. p.base = n /\ p.index = 0 /\ p.part = "" /\ p = Key(n, 0, "")
    BY <1>1
  <2> HIDE DEF p
  <2>2. p.index \in Nat /\ Strip(p.base) \notin Referring
    <3>1. 0 \in Nat
      OBVIOUS
    <3> QED
      BY <1>2, <2>1, <3>1, Zenon
  <2>3. p = Key(p.base, p.index, p.part)
    BY <2>1, Zenon
  <2> QED
    BY <2>2, <2>3 DEF IsKeytag, p
<1>6. n \notin Lists
  BY DEF Lists
<1> QED
  BY <1>3, <1>4, <1>5, <1>6 DEF IsItem

(* A column that is stored anew, and its title.                              *)
LEMMA NewTagFacts ==
  ASSUME NEW a, WellFormed(a), NEW w \in Ways, ~DuplicateTitle(Document(a, w)),
         NEW k \in UnusedColumns(Document(a, w))
  PROVE  /\ IsKeytag(k) /\ k # Plain("name") /\ (IsItem(Bare(k)) => k.index \in Indexes)
         /\ Bare(k) # Plain("create_mode")
<1>1. ~Taken(k) /\ Bare(k) = k
  BY NewIsColumn
<1>2. PICK c \in Document(a, w) : Bare(c.title) = k /\ c.cell # ""
  BY NewColumn
<1>3. k # Plain("name") /\ Bare(k) # Plain("create_mode")
  BY <1>1, ReservedIs DEF Taken, ReservedNames, BasicNames
<1>4. CASE c \in Own(a, w, OwnTitles(a, w))
  <2>1. c.title \in OwnTitles(a, w)
    BY <1>4, OwnColumnFacts
  <2>2. c.title = k
    BY <1>2, <2>1, OwnTitleFacts
  <2>3. k = Plain("location_type")
    BY <1>1, <2>1, <2>2, OwnTaken
  <2> QED
    BY <1>3, <2>3, OwnTagFacts
<1>5. CASE c \in ExtColumns(a, w)
  <2> DEFINE t == c.title
  <2>1. IsKeytag(t) /\ (IsItem(Bare(t)) => t.index \in Indexes)
    BY <1>2, <1>5, ExtTitle
  <2>2. k = Key(Strip(t.base), t.index, t.part) /\ k.index = t.index /\ k.base = Strip(t.base) /\ k.part = t.part
    BY <1>2, BareFacts DEF Bare
  <2>3. Strip(k.base) = Strip(t.base)
    BY <2>2, StripFacts
  <2>4. t.index \in Nat /\ Strip(t.base) \notin Referring
    BY <2>1 DEF IsKeytag
  <2>5. IsKeytag(k)
    BY <2>2, <2>3, <2>4 DEF IsKeytag
  <2> QED
    BY <1>1, <1>2, <1>3, <2>1, <2>2, <2>5
<1> QED
  BY <1>2, <1>4, <1>5, DocumentIs

(* Every attribute that is stored is one the database may hold.              *)
LEMMA UpdateTag ==
  ASSUME NEW a, WellFormed(a), NEW w \in Ways, ~Refused(a, Document(a, w)), NEW over, NEW user,
         NEW k \in DOMAIN Update(a, w, Document(a, w), over, user).ext
  PROVE  /\ IsKeytag(k) /\ k # Plain("name") /\ (IsItem(Bare(k)) => k.index \in Indexes)
         /\ Update(a, w, Document(a, w), over, user).ext[k].value # ""
         /\ Bare(k) = Plain("create_mode") => Update(a, w, Document(a, w), over, user).ext[k].ro
<1> DEFINE cols == Document(a, w)
           e == Update(a, w, cols, over, user).ext
<1>0. ~DuplicateTitle(cols)
  BY DEF Refused
<1>1. /\ DOMAIN e = RoTags(a) \cup NewTags(a, cols) \cup Stamped(a, w, user)
      /\ \A j \in Stamped(a, w, user) : e[j] = StampOf(user, j)
      /\ \A j \in (RoTags(a) \cup NewTags(a, cols)) \ Stamped(a, w, user) :
              e[j] = IF j \in NewTags(a, cols) /\ (over \/ j \notin RoTags(a))
                     THEN [ro |-> FALSE, value |-> NewValue(a, cols, j)]
                     ELSE a.ext[j]
  BY UpdateIs
<1> HIDE DEF e
<1>2. CASE k \in Stamped(a, w, user)
  <2>1. k \in StampsBy(user) /\ e[k] = StampOf(user, k)
    BY <1>1, <1>2 DEF Stamped
  <2>2. e[k].ro /\ e[k].value # ""
    BY <2>1, StampFacts
  <2>3. PICK n \in {"update_ts", "update_user"} : k = Plain(n)
    BY <2>1, StampFacts
  <2> QED
    BY <2>2, <2>3, OwnTagFacts DEF e
<1>3. CASE k \notin Stamped(a, w, user) /\ k \in NewTags(a, cols) /\ (over \/ k \notin RoTags(a))
  <2>0. e[k] = [ro |-> FALSE, value |-> NewValue(a, cols, k)]
    BY <1>1, <1>3
  <2>1. e[k].value = NewValue(a, cols, k)
    BY <2>0
  <2>2. CASE k \in UnusedColumns(cols)
    <3>1. NewValue(a, cols, k) # ""
      BY <1>0, <2>2, NewIsColumn
    <3>2. /\ IsKeytag(k) /\ k # Plain("name") /\ (IsItem(Bare(k)) => k.index \in Indexes)
          /\ Bare(k) # Plain("create_mode")
      BY <1>0, <2>2, NewTagFacts
    <3> QED
      BY <2>1, <3>1, <3>2 DEF e
  <2>3. CASE a.type = "group" /\ k = Plain("type")
    <3>1. NewValue(a, cols, k) # ""
      BY <2>3, GroupTypeRead
    <3> QED
      BY <2>1, <2>3, <3>1, OwnTagFacts DEF e
  <2>4. k \in UnusedColumns(cols) \/ (a.type = "group" /\ k = Plain("type"))
    BY <1>3 DEF NewTags
  <2> QED
    BY <2>2, <2>3, <2>4
<1>4. CASE k \notin Stamped(a, w, user) /\ ~(k \in NewTags(a, cols) /\ (over \/ k \notin RoTags(a)))
  <2>1. k \in RoTags(a)
    BY <1>1, <1>4 DEF e
  <2>2. e[k] = a.ext[k]
    BY <1>1, <1>4, <2>1
  <2>3. k \in DOMAIN a.ext
    BY <2>1 DEF RoTags
  <2> QED
    BY <2>2, <2>3, WellFormedTag DEF e, Value
<1> QED
  BY <1>2, <1>3, <1>4

(* So is the asset.                                                          *)
LEMMA UpdateWellFormed ==
  ASSUME NEW a, WellFormed(a), NEW w \in Ways, ~Refused(a, Document(a, w)), NEW over, NEW user
  PROVE  WellFormed(Update(a, w, Document(a, w), over, user))
<1> DEFINE cols == Document(a, w)
           u == Update(a, w, cols, over, user)
<1>0. ~DuplicateTitle(cols)
  BY DEF Refused
<1>1. /\ u.type = a.type /\ u.subtype = a.subtype /\ u.located = a.located
      /\ u.groups = ReadGroups(cols) /\ u.links = ReadLinks(a, cols)
  BY DEF Update
<1>2. IsFiniteSet(u.groups)
  BY <1>0, <1>1, GroupsRead, FS_EmptySet DEF WellFormed
<1>3. IsFiniteSet(u.links) /\ (a.type # "device" => u.links = {})
  BY <1>0, <1>1, LinksRead
<1>4. \A k \in DOMAIN u.ext :
        /\ IsKeytag(k) /\ k # Plain("name") /\ (IsItem(Bare(k)) => k.index \in Indexes)
        /\ u.ext[k].value # "" /\ (Bare(k) = Plain("create_mode") => u.ext[k].ro)
  BY UpdateTag
<1>5. a.type \in {"device", "rack", "group"} /\ a.located \in BOOLEAN /\ a.subtype # ""
  BY DEF WellFormed
<1> HIDE DEF u
<1>6. WellFormed(u)
  BY <1>1, <1>2, <1>3, <1>4, <1>5 DEF WellFormed
<1> QED
  BY <1>6 DEF u

------------------------------------------------------------------------------
(* Nothing is invented                                                       *)

Explained(a, w, u, k) ==
  \/ k.base = "location_type"
  \/ k \in Stamps /\ a.type = "device" /\ w = "csv"
  \/ k.part = "label" /\ w = "list"
  \/ IsItem(k) /\ \E j \in DOMAIN a.ext :
                    j.base = k.base /\ a.ext[j].value = u.ext[k].value
  \/ \E j \in DOMAIN a.ext : k \in {j, Bare(j)}
  \/ k = Plain("type") /\ a.type = "group" /\ \E j \in DOMAIN a.ext : Bare(j) = Plain("sub_type")

(* Where each attribute that is stored comes from.                           *)
LEMMA UpdateInventsNothing ==
  ASSUME NEW a, WellFormed(a), NEW w \in Ways, ~Refused(a, Document(a, w)), NEW over, NEW user,
         NEW k \in DOMAIN Update(a, w, Document(a, w), over, user).ext
  PROVE  Explained(a, w, Update(a, w, Document(a, w), over, user), k)
<1> DEFINE cols == Document(a, w)
           u == Update(a, w, cols, over, user)
           e == u.ext
<1>0. ~DuplicateTitle(cols)
  BY DEF Refused
<1>1. /\ DOMAIN e = RoTags(a) \cup NewTags(a, cols) \cup Stamped(a, w, user)
      /\ \A j \in (RoTags(a) \cup NewTags(a, cols)) \ Stamped(a, w, user) :
              e[j] = IF j \in NewTags(a, cols) /\ (over \/ j \notin RoTags(a))
                     THEN [ro |-> FALSE, value |-> NewValue(a, cols, j)]
                     ELSE a.ext[j]
  BY UpdateIs
<1> SUFFICES Explained(a, w, u, k)
  OBVIOUS
<1> HIDE DEF u
<1>2. CASE k \in Stamped(a, w, user)
  <2>1. k \in Stamps /\ a.type = "device" /\ w = "csv"
    BY <1>2, StampFacts DEF Stamped
  <2> QED
    BY <2>1 DEF Explained
<1>3. CASE k \in DOMAIN a.ext
  BY <1>3 DEF Explained
<1>4. CASE a.type = "group" /\ k = Plain("type") /\ k \notin DOMAIN a.ext
  <2>1. \E j \in DOMAIN a.ext : Bare(j) = Plain("sub_type")
    BY <1>4, GroupTypeRead DEF Has
  <2> QED
    BY <1>4, <2>1 DEF Explained
<1>5. CASE k \in UnusedColumns(cols) /\ k \notin DOMAIN a.ext /\ k \notin Stamped(a, w, user)
  <2>1. k \in NewTags(a, cols) /\ k \notin RoTags(a)
    BY <1>5 DEF NewTags, RoTags
  <2>2. e[k] = [ro |-> FALSE, value |-> NewValue(a, cols, k)]
    BY <1>1, <1>5, <2>1
  <2>3. e[k].value = NewValue(a, cols, k)
    BY <2>2
  <2>4. ~Taken(k) /\ NewValue(a, cols, k) # ""
    BY <1>0, <1>5, NewIsColumn
  <2>5. PICK c \in cols : Bare(c.title) = k /\ NewValue(a, cols, k) = c.cell
    BY <1>0, <1>5, NewIsColumn
  <2>6. CASE c \in Own(a, w, OwnTitles(a, w))
    <3>1. c.title \in OwnTitles(a, w)
      BY <2>6, OwnColumnFacts
    <3>2. c.title = k
      BY <2>5, <3>1, OwnTitleFacts
    <3>3. k.base = "location_type"
      BY <2>4, <3>1, <3>2, OwnTaken
    <3> QED
      BY <3>3 DEF Explained
  <2>7. CASE c \in ExtColumns(a, w)
    <3>1. CASE w = "csv" /\ IsCsvColumn(a, c)
      <4>1. c.cell = CsvCell(a, c.title)
        BY <3>1, ColumnFacts DEF IsCsvColumn
      <4>2. c.title \in DOMAIN a.ext
        BY <2>4, <2>5, <4>1 DEF CsvCell, Has
      <4> QED
        BY <2>5, <4>2 DEF Explained
    <3>2. CASE IsPlainColumn(a, w, c)
      <4>1. c.title \in DOMAIN a.ext
        BY <3>2 DEF IsPlainColumn, PlainShown
      <4> QED
        BY <2>5, <4>1 DEF Explained
    <3>3. CASE ShownLabel(w, c.title)
      <4>1. w = "list" /\ k.part = "label"
        BY <2>5, <3>3, BareFacts DEF ShownLabel
      <4> QED
        BY <4>1 DEF Explained
    <3>4. CASE ShownItem(w, c.title) /\ IsItemColumn(a, c)
      <4> DEFINE list == c.title.base
      <4>1. PICK i \in StoredPlaces(a, list) : c = Attribute(c.title, Value(a, Item(list, TextOrder[i])))
        BY <3>4 DEF IsItemColumn
      <4>2. Item(list, TextOrder[i]) \in DOMAIN a.ext /\ c.cell = a.ext[Item(list, TextOrder[i])].value
        BY <4>1, StoredPlacesFacts, ColumnFacts DEF Value
      <4>3. Item(list, TextOrder[i]).base = list
        BY DEF Item, Key
      <4>4. list \in Lists /\ c.title.index > 0 /\ c.title.part = ""
        BY <3>4 DEF ShownItem, IsItem
      <4>5. Strip(list) = list
        BY <4>4, StripFacts, OwnNamesAre
      <4>6. k.base = list /\ IsItem(k)
        BY <2>5, <4>4, <4>5, BareFacts DEF IsItem
      <4>7. u.ext[k].value = c.cell
        BY <2>3, <2>5
      <4>8. \E j \in DOMAIN a.ext : j.base = k.base /\ a.ext[j].value = u.ext[k].value
        BY <4>2, <4>3, <4>6, <4>7
      <4> QED
        BY <4>6, <4>8 DEF Explained
    <3> QED
      BY <2>7, <3>1, <3>2, <3>3, <3>4, ExtIs, Zenon
  <2> QED
    BY <2>6, <2>7, DocumentIs
<1>6. \/ k \in Stamped(a, w, user) \/ k \in DOMAIN a.ext \/ k \in UnusedColumns(cols)
      \/ (a.type = "group" /\ k = Plain("type"))
  BY <1>1 DEF RoTags, NewTags, u
<1> QED
  BY <1>2, <1>3, <1>4, <1>5, <1>6, Zenon

------------------------------------------------------------------------------
(* Nothing is lost                                                           *)

KeptIn(u, k, v) ==
  \E j \in DOMAIN u.ext :
    /\ u.ext[j].value = v /\ j.base \in {k.base, Strip(k.base)} /\ j.part = k.part
    /\ j.index = k.index \/ IsItem(k)

Forgotten(a, w, k) ==
  \/ k = Plain("location_type") /\ w # "csv"
  \/ IsItem(k) /\ Collides(a, k.base) /\ w # "csv"
  \/ k = Outlet(0, "label") /\ Has(a, Master("label")) /\ w = "list"
  \/ k \in Reserved /\ w = "csv"
  \/ Bare(k) \in Stamps /\ a.type = "device" /\ w = "csv"
  \/ (\E j \in DOMAIN a.ext \ {k} : Bare(j) = Bare(k))
  \/ Bare(k) \in {Plain("asset_tag"), Plain("sub_type")}

(* The column of a list that an item stands in. *)
LEMMA ItemColumn ==
  ASSUME NEW a, WellFormed(a), NEW w \in Ways, NEW k \in DOMAIN a.ext, ShownItem(w, k)
  PROVE  \E c \in ExtColumns(a, w) :
           /\ c.cell = Value(a, k) /\ c.title.base = k.base /\ c.title.part = ""
           /\ c.title.index > 0 /\ Bare(c.title) = c.title /\ IsItem(c.title)
<1> DEFINE list == k.base
           S == StoredPlaces(a, list)
<1>1. list \in Lists /\ list \in ListsShown(w) /\ k.index > 0 /\ k.part = "" /\ IsItem(k)
  BY DEF ShownItem, IsItem
<1>2. k = Item(list, k.index)
  BY <1>1, WellFormedTag DEF IsKeytag, Item
<1>3. Bare(k) = k
  BY <1>1, <1>2, BareOwn
<1>4. k.index \in Indexes
  BY <1>1, <1>3, WellFormedTag
<1>5. PICK i \in S : TextOrder[i] = k.index
  BY <1>2, <1>4, StoredPlacesFacts
<1> DEFINE t == Item(list, PlaceOf(S, i))
           c == Attribute(t, Value(a, Item(list, TextOrder[i])))
<1>6. c \in ListItems(a, list)
  BY ListItemsAre
<1>7. c \in ExtColumns(a, w)
  BY <1>1, <1>6 DEF ExtColumns, ItemsShown
<1>8. c.title = t /\ c.cell = Value(a, k)
  BY <1>2, <1>5, ColumnFacts
<1>9. PlaceOf(S, i) \in Indexes
  BY StoredPlacesFacts
<1>10. PlaceOf(S, i) > 0
  BY <1>9, TextOrderFacts
<1>11. t.base = list /\ t.part = "" /\ t.index = PlaceOf(S, i)
  BY DEF Item, Key
<1>12. Bare(t) = t
  BY <1>1, BareOwn
<1> HIDE DEF c, t, S
<1>13. IsItem(t)
  BY <1>1, <1>10, <1>11 DEF IsItem
<1> QED
  BY <1>7, <1>8, <1>10, <1>11, <1>12, <1>13

(* The column of an attribute that is no item of a list the document shows.  *)
LEMMA TagColumnIn ==
  ASSUME NEW a, WellFormed(a), NEW w \in Ways, NEW k \in DOMAIN a.ext,
         ~ShownItem(w, k), ~Forgotten(a, w, k), ~(a.type = "group" /\ k = Plain("type")),
         w = "csv" => ~a.ext[k].ro
  PROVE  \E c \in ExtColumns(a, w) : c.title = k /\ c.cell = Value(a, k)
<1> DEFINE c == Attribute(k, Value(a, k))
<1>1. c.title = k /\ c.cell = Value(a, k)
  BY ColumnFacts
<1>2. IsKeytag(k)
  BY WellFormedTag
<1>3. CASE w = "csv"
  <2>1. k \notin Reserved
    BY <1>3 DEF Forgotten
  <2>2. k \in Keytags(a) /\ CsvCell(a, k) = Value(a, k)
    BY <1>3, <2>1 DEF Keytags, CsvCell, Has
  <2>3. c \in CellsShown(a, w)
    BY <1>3, <2>2 DEF CellsShown
  <2> QED
    BY <1>1, <2>3 DEF ExtColumns
<1>4. CASE ShownLabel(w, k)
  <2>1. w = "list" /\ k.base = "outlet" /\ k.part = "label"
    BY <1>4 DEF ShownLabel
  <2>2. IsOutlet(k)
    BY <2>1 DEF IsOutlet, OutletParts
  <2>3. k.index \in OutletNumbers(a)
    BY <2>2 DEF OutletNumbers
  <2>4. k = Outlet(k.index, "label")
    BY <1>2, <2>1 DEF IsKeytag, Outlet
  <2>5. ~(k.index = 0 /\ Has(a, Master("label")))
    BY <2>1, <2>4 DEF Forgotten
  <2>6. OutletLabel(a, k.index) = Value(a, k)
    BY <2>4, <2>5 DEF OutletLabel, Has
  <2>7. c \in LabelsShown(a, w)
    BY <2>1, <2>3, <2>4, <2>6 DEF LabelsShown
  <2> QED
    BY <1>1, <2>7 DEF ExtColumns
<1>5. CASE w # "csv" /\ ~ShownLabel(w, k)
  <2>1. k # Plain("location_type")
    BY <1>5 DEF Forgotten
  <2>2. ASSUME w = "single" PROVE k \in PlainShown(a, w)
    <3>1. ~IsItem(k)
      BY <2>2 DEF ShownItem, ListsShown, IsItem
    <3>2. ~SingleHides(a, k) \/ IsOutlet(k)
      BY <2>1, <3>1 DEF SingleHides
    <3> QED
      BY <2>2, <3>2 DEF PlainShown
  <2>3. ASSUME w = "list" PROVE k \in PlainShown(a, w)
    <3>1. ~(IsItem(k) /\ k.base = "ip")
      BY <2>3 DEF ShownItem, ListsShown
    <3>2. IsOutlet(k) => k.part # "label"
      BY <1>5, <2>3 DEF ShownLabel, IsOutlet
    <3>3. ~ListHides(a, k) \/ (IsOutlet(k) /\ k.part # "label")
      BY <2>1, <3>1, <3>2 DEF ListHides
    <3> QED
      BY <2>3, <3>3 DEF PlainShown
  <2>4. k \in PlainShown(a, w)
    BY <1>5, <2>2, <2>3 DEF Ways
  <2>5. c \in AttributesOf(a, PlainShown(a, w))
    BY <2>4 DEF AttributesOf
  <2> QED
    BY <1>1, <2>5 DEF ExtColumns
<1> QED
  BY <1>3, <1>4, <1>5

(* Its title is not that of a column the import takes for itself.            *)
LEMMA NotTaken ==
  ASSUME NEW a, WellFormed(a), NEW w \in Ways, ~DuplicateTitle(Document(a, w)),
         NEW k \in DOMAIN a.ext, ~Forgotten(a, w, k), ~a.ext[k].ro,
         NEW c \in ExtColumns(a, w), c.title = k
  PROVE  ~Taken(Bare(k))
<1> DEFINE j == Bare(k)
<1>1. j.base \notin Referring
  BY WellFormedTag, BareFacts DEF IsKeytag
<1>2. j # Plain("create_mode")
  BY WellFormedTag
<1>3. j # Plain("asset_tag") /\ j # Plain("sub_type")
  BY DEF Forgotten
<1>4. ASSUME j \in BasicTitles PROVE FALSE
  <2>1. j \in OwnTitles(a, w)
    BY <1>4 DEF OwnTitles
  <2>2. PICK d \in Document(a, w) : Bare(d.title) = j /\ d.from = "asset"
    BY <2>1, OwnColumnIn
  <2>3. c \in Document(a, w) /\ c.from = "ext" /\ Bare(c.title) = j
    BY DocumentIs, ExtCases
  <2>4. c # d /\ Title(c) = Title(d)
    BY <2>2, <2>3 DEF Title
  <2> QED
    BY <2>2, <2>3, <2>4 DEF DuplicateTitle
<1>5. j \notin Reserved
  <2> SUFFICES ASSUME j \in Reserved PROVE FALSE
    OBVIOUS
  <2>1. j = Plain(j.base) /\ j.base \in ReservedNames
    BY ReservedIs
  <2>2. j.base \in BasicNames
    BY <1>3, <2>1 DEF ReservedNames
  <2> QED
    BY <1>4, <2>1, <2>2 DEF BasicTitles
<1> HIDE DEF j
<1>6. ~Taken(j)
  BY <1>1, <1>2, <1>5 DEF Taken
<1> QED
  BY <1>6 DEF j

(* A read-only item at the place of its number is read as it is.             *)
LEMMA NoCollision ==
  ASSUME NEW a, WellFormed(a), NEW w \in Ways, ~DuplicateTitle(Document(a, w)),
         NEW k \in RoTags(a), ShownItem(w, k), ~Collides(a, k.base)
  PROVE  Get(Document(a, w), k) = Value(a, k)
<1> DEFINE c == Attribute(k, Value(a, k))
<1>1. IsItem(k) /\ k.base \in ListsShown(w) /\ k \in DOMAIN a.ext /\ a.ext[k].ro
  BY DEF ShownItem, RoTags
<1>2. c \in ListItems(a, k.base)
  BY <1>1 DEF Collides
<1>3. c \in Document(a, w)
  BY <1>1, <1>2, DocumentIs DEF ExtColumns, ItemsShown
<1>4. c.title = k /\ c.cell = Value(a, k)
  BY ColumnFacts
<1>5. Bare(k) = k
  <2>1. k.base \in Lists /\ k.part = ""
    BY <1>1 DEF IsItem
  <2>2. k = Item(k.base, k.index)
    BY <1>1, <2>1, WellFormedTag DEF IsKeytag, Item
  <2> QED
    BY <2>1, <2>2, BareOwn
<1> HIDE DEF c
<1> QED
  BY <1>3, <1>4, <1>5, GetIs

Filled(c) == c.cell # ""

(* What a column of an attribute holds is stored under its title.            *)
LEMMA ColumnKept ==
  ASSUME NEW a, WellFormed(a), NEW w \in Ways, ~DuplicateTitle(Document(a, w)), NEW over, NEW user,
         NEW k, NEW c \in ExtColumns(a, w), Filled(c),
         ~Taken(Bare(c.title)), Bare(c.title) \notin Stamped(a, w, user),
         c.title.base = k.base, c.title.part = k.part, c.title.index = k.index \/ IsItem(k),
         Bare(c.title) \in RoTags(a) => a.ext[Bare(c.title)].value = c.cell
  PROVE  KeptIn(Update(a, w, Document(a, w), over, user), k, c.cell)
<1> DEFINE cols == Document(a, w)
           u == Update(a, w, cols, over, user)
<1>2. /\ DOMAIN u.ext = RoTags(a) \cup NewTags(a, cols) \cup Stamped(a, w, user)
      /\ \A i \in (RoTags(a) \cup NewTags(a, cols)) \ Stamped(a, w, user) :
              u.ext[i] = IF i \in NewTags(a, cols) /\ (over \/ i \notin RoTags(a))
                         THEN [ro |-> FALSE, value |-> NewValue(a, cols, i)]
                         ELSE a.ext[i]
  BY UpdateIs
<1> DEFINE j == Bare(c.title)
<1>1. j \in NewTags(a, cols) /\ NewValue(a, cols, j) = c.cell
  BY ExtStored DEF Filled
<1>3. j.base = Strip(k.base) /\ j.part = k.part /\ (j.index = k.index \/ IsItem(k))
  BY BareFacts
<1> SUFFICES KeptIn(u, k, c.cell)
  OBVIOUS
<1> HIDE DEF u, j
<1>4. j \in DOMAIN u.ext
  BY <1>1, <1>2
<1>5. u.ext[j] = IF over \/ j \notin RoTags(a) THEN [ro |-> FALSE, value |-> c.cell] ELSE a.ext[j]
  BY <1>1, <1>2 DEF j
<1>6. u.ext[j].value = c.cell
  <2>1. CASE over \/ j \notin RoTags(a)
    <3>1. u.ext[j] = [ro |-> FALSE, value |-> c.cell]
      BY <1>5, <2>1
    <3> QED
      BY <3>1
  <2>2. CASE ~(over \/ j \notin RoTags(a))
    BY <1>5, <2>2 DEF j
  <2> QED
    BY <2>1, <2>2
<1> QED
  BY <1>3, <1>4, <1>6 DEF KeptIn

(* A read-only attribute keeps its value, or is given it again.              *)
LEMMA ReadOnlyKept ==
  ASSUME NEW a, WellFormed(a), NEW w \in Ways, ~DuplicateTitle(Document(a, w)), NEW over, NEW user,
         NEW k \in RoTags(a), ~Forgotten(a, w, k), ~(a.type = "group" /\ k = Plain("type"))
  PROVE  KeptIn(Update(a, w, Document(a, w), over, user), k, Value(a, k))
<1> DEFINE cols == Document(a, w)
           u == Update(a, w, cols, over, user)
<1>1. /\ DOMAIN u.ext = RoTags(a) \cup NewTags(a, cols) \cup Stamped(a, w, user)
      /\ \A i \in (RoTags(a) \cup NewTags(a, cols)) \ Stamped(a, w, user) :
              u.ext[i] = IF i \in NewTags(a, cols) /\ (over \/ i \notin RoTags(a))
                         THEN [ro |-> FALSE, value |-> NewValue(a, cols, i)]
                         ELSE a.ext[i]
  BY UpdateIs
<1>2. k \notin Stamped(a, w, user)
  <2>1. Bare(Plain("update_ts")) = Plain("update_ts") /\ Bare(Plain("update_user")) = Plain("update_user")
    BY BareOwn
  <2>2. \A j \in Stamps : Bare(j) = j
    BY <2>1 DEF Stamps
  <2> QED
    BY <2>2, StampFacts DEF Stamped, Forgotten
<1> SUFFICES u.ext[k].value = Value(a, k)
  <2>1. k \in DOMAIN u.ext
    BY <1>1
  <2> HIDE DEF u
  <2> SUFFICES ASSUME u.ext[k].value = Value(a, k) PROVE KeptIn(u, k, Value(a, k))
    BY DEF u
  <2> QED
    BY <2>1 DEF KeptIn
<1> HIDE DEF u
<1>3. CASE ~(k \in NewTags(a, cols) /\ over)
  <2>1. u.ext[k] = a.ext[k]
    BY <1>1, <1>2, <1>3
  <2> QED
    BY <2>1 DEF Value
<1>4. CASE k \in NewTags(a, cols) /\ over
  <2>1. u.ext[k] = [ro |-> FALSE, value |-> NewValue(a, cols, k)]
    BY <1>1, <1>2, <1>4
  <2>2. u.ext[k].value = NewValue(a, cols, k)
    BY <2>1
  <2> SUFFICES NewValue(a, cols, k) = Value(a, k)
    BY <2>2
  <2>3. k \in UnusedColumns(cols)
    BY <1>4 DEF NewTags
  <2>4. ~Taken(k) /\ Bare(k) = k /\ NewValue(a, cols, k) # "" /\ k # Plain("type")
    BY <2>3, NewIsColumn
  <2>5. PICK c \in cols : Bare(c.title) = k /\ c.cell # ""
    BY <2>3, NewColumn
  <2>6. Get(cols, k) = c.cell /\ NewValue(a, cols, k) = Get(cols, k)
    BY <2>4, <2>5, GetIs DEF NewValue
  <2>7. \A j \in DOMAIN a.ext : Bare(j) = k => j = k
    BY <2>4 DEF Forgotten
  <2>8. CASE c \in Own(a, w, OwnTitles(a, w))
    <3>1. c.title \in OwnTitles(a, w)
      BY <2>8, OwnColumnFacts
    <3>2. c.title = k
      BY <2>5, <3>1, OwnTitleFacts
    <3>3. k = Plain("location_type")
      BY <2>4, <3>1, <3>2, OwnTaken
    <3>4. w # "csv"
      BY <3>1, <3>2, <3>3, CsvHasNoLocationType
    <3> QED
      BY <3>3, <3>4 DEF Forgotten
  <2>9. CASE c \in ExtColumns(a, w)
    <3>1. CASE w = "csv" /\ IsCsvColumn(a, c)
      <4>1. c.cell = CsvCell(a, c.title)
        BY <3>1, ColumnFacts DEF IsCsvColumn
      <4>2. c.cell # ""
        BY <2>4, <2>6
      <4>3. c.title \in DOMAIN a.ext /\ c.cell = Value(a, c.title)
        BY <4>1, <4>2 DEF CsvCell, Has
      <4> QED
        BY <2>5, <2>6, <2>7, <4>3
    <3>2. CASE IsPlainColumn(a, w, c)
      <4>1. c.title \in DOMAIN a.ext /\ c.cell = Value(a, c.title)
        BY <3>2, ColumnFacts DEF IsPlainColumn, PlainShown
      <4> QED
        BY <2>5, <2>6, <2>7, <4>1
    <3>3. CASE ShownLabel(w, c.title) /\ IsLabelColumn(a, c)
      <4>1. c.title = Key("outlet", c.title.index, "label")
        BY <3>3 DEF IsLabelColumn, Outlet
      <4>2. \A i : Bare(Key("outlet", i, "label")) = Key("outlet", i, "label")
        BY OwnTitleFixed
      <4>3. c.title = k
        BY <2>5, <4>1, <4>2
      <4>4. k = Outlet(k.index, "label") /\ c.cell = OutletLabel(a, k.index) /\ w = "list"
        BY <3>3, <4>3, ColumnFacts DEF IsLabelColumn, ShownLabel
      <4>5. ~(k.index = 0 /\ Has(a, Master("label")))
        BY <4>4 DEF Forgotten
      <4>6. k \in DOMAIN a.ext
        BY DEF RoTags
      <4>7. c.cell = Value(a, k)
        BY <4>4, <4>5, <4>6 DEF OutletLabel, Has
      <4> QED
        BY <2>6, <4>7
    <3>4. CASE w # "csv" /\ ShownItem(w, c.title) /\ IsItemColumn(a, c)
      <4>1. c.title.base \in Lists /\ \E p : c.title = Item(c.title.base, p)
        BY <3>4 DEF ShownItem, IsItem, IsItemColumn
      <4>2. c.title = k
        BY <2>5, <4>1, BareOwn
      <4>3. ShownItem(w, k) /\ IsItem(k)
        BY <3>4, <4>2 DEF ShownItem
      <4>4. ~Collides(a, k.base)
        BY <3>4, <4>3 DEF Forgotten
      <4> QED
        BY <2>6, <4>3, <4>4, NoCollision
    <3> QED
      BY <2>9, <3>1, <3>2, <3>3, <3>4, ExtIs, Zenon
  <2> QED
    BY <2>5, <2>8, <2>9, DocumentIs
<1> QED
  BY <1>3, <1>4

(* A read-write attribute is deleted, and stored again from its column.      *)
LEMMA ReadWriteKept ==
  ASSUME NEW a, WellFormed(a), NEW w \in Ways, ~DuplicateTitle(Document(a, w)), NEW over, NEW user,
         NEW k \in DOMAIN a.ext, ~a.ext[k].ro,
         ~Forgotten(a, w, k), ~(a.type = "group" /\ k = Plain("type"))
  PROVE  KeptIn(Update(a, w, Document(a, w), over, user), k, Value(a, k))
<1> DEFINE v == Value(a, k)
<1>0. v # ""
  BY WellFormedTag
<1>1. CASE ShownItem(w, k)
  <2>1. PICK c \in ExtColumns(a, w) :
           /\ c.cell = v /\ c.title.base = k.base /\ c.title.part = ""
           /\ c.title.index > 0 /\ Bare(c.title) = c.title /\ IsItem(c.title)
    BY <1>1, ItemColumn
  <2> DEFINE t == c.title
  <2>2. IsItem(k) /\ k.base \in Lists /\ k.part = "" /\ k.base \in ListsShown(w) /\ w # "csv"
    BY <1>1 DEF ShownItem, IsItem, ListsShown
  <2>3. t.base \in Lists
    BY <2>1, <2>2
  <2>4. ~Taken(t)
    <3>1. t \notin Reserved
      BY <2>3, NamesApart, ReservedIs
    <3>2. t # Plain("create_mode")
      <4>1. Plain("create_mode").base = "create_mode"
        BY DEF Plain, Key
      <4> QED
        BY <2>3, <4>1 DEF Lists
    <3>3. t.base \notin Referring
      BY <2>3, NamesApart
    <3> QED
      BY <3>1, <3>2, <3>3 DEF Taken
  <2>5. t \notin Stamped(a, w, user)
    BY <2>2 DEF Stamped
  <2>6. t \in RoTags(a) => a.ext[t].value = v
    <3> SUFFICES ASSUME t \in RoTags(a) PROVE a.ext[t].value = v
      OBVIOUS
    <3>1. ShownItem(w, t) /\ ~Collides(a, t.base)
      BY <2>1, <2>2 DEF ShownItem, Forgotten
    <3>2. Get(Document(a, w), t) = Value(a, t)
      BY <3>1, NoCollision
    <3>3. c \in Document(a, w)
      BY DocumentIs
    <3>4. Get(Document(a, w), t) = c.cell
      BY <2>1, <3>3, GetIs
    <3> QED
      BY <2>1, <3>2, <3>4 DEF Value
  <2>7. Bare(t) = t /\ t.base = k.base /\ t.part = k.part /\ c.cell = v
    BY <2>1, <2>2
  <2> HIDE DEF v
  <2>8. Filled(c) /\ (t \in RoTags(a) => a.ext[t].value = c.cell)
    BY <1>0, <2>6, <2>7 DEF Filled
  <2>9. KeptIn(Update(a, w, Document(a, w), over, user), k, c.cell)
    BY <2>2, <2>4, <2>5, <2>7, <2>8, ColumnKept
  <2> QED
    BY <2>7, <2>9 DEF v
<1>2. CASE ~ShownItem(w, k)
  <2>1. PICK c \in ExtColumns(a, w) : c.title = k /\ c.cell = v
    BY <1>2, TagColumnIn
  <2>2. ~Taken(Bare(k))
    BY <2>1, NotTaken
  <2>3. Bare(k) \notin Stamped(a, w, user)
    BY StampFacts DEF Stamped, Forgotten
  <2>4. Bare(k) \notin RoTags(a)
    <3> SUFFICES ASSUME Bare(k) \in RoTags(a) PROVE FALSE
      OBVIOUS
    <3>1. Bare(k) \in DOMAIN a.ext /\ Bare(k) # k /\ Bare(Bare(k)) = Bare(k)
      BY BareFacts DEF RoTags
    <3> QED
      BY <3>1 DEF Forgotten
  <2> HIDE DEF v
  <2>5. Filled(c)
    BY <1>0, <2>1 DEF Filled
  <2>6. KeptIn(Update(a, w, Document(a, w), over, user), k, c.cell)
    BY <2>1, <2>2, <2>3, <2>4, <2>5, ColumnKept
  <2> QED
    BY <2>1, <2>6 DEF v
<1> QED
  BY <1>1, <1>2

(* The type of a group is stored as its subtype is read.                     *)
LEMMA GroupTypeKept ==
  ASSUME NEW a, WellFormed(a), NEW w \in Ways, ~Refused(a, Document(a, w)), NEW over, NEW user,
         a.type = "group", Has(a, Plain("type"))
  PROVE  \E v \in {Value(a, Plain("type")), Strip(Value(a, Plain("type")))} :
           KeptIn(Update(a, w, Document(a, w), over, user), Plain("type"), v)
<1> DEFINE cols == Document(a, w)
           u == Update(a, w, cols, over, user)
           k == Plain("type")
<1>1. /\ DOMAIN u.ext = RoTags(a) \cup NewTags(a, cols) \cup Stamped(a, w, user)
      /\ \A i \in (RoTags(a) \cup NewTags(a, cols)) \ Stamped(a, w, user) :
              u.ext[i] = IF i \in NewTags(a, cols) /\ (over \/ i \notin RoTags(a))
                         THEN [ro |-> FALSE, value |-> NewValue(a, cols, i)]
                         ELSE a.ext[i]
  BY UpdateIs
<1>2. k \in NewTags(a, cols) /\ k \notin Stamped(a, w, user)
  BY DEF NewTags, Stamped
<1>3. NewValue(a, cols, k) = Strip(Value(a, k))
  BY GroupTypeRead
<1> HIDE DEF u, k
<1>4. u.ext[k] = [ro |-> FALSE, value |-> Strip(Value(a, k))] \/ u.ext[k] = a.ext[k]
  BY <1>1, <1>2, <1>3
<1>5. u.ext[k].value \in {Value(a, k), Strip(Value(a, k))}
  BY <1>4 DEF Value
<1>6. k \in DOMAIN u.ext
  BY <1>1, <1>2
<1>7. KeptIn(u, k, u.ext[k].value)
  BY <1>6 DEF KeptIn
<1>8. \E v \in {Value(a, k), Strip(Value(a, k))} : KeptIn(u, k, v)
  BY <1>5, <1>7
<1> QED
  BY <1>8 DEF u, k

(* Every attribute is kept, but for what the document cannot hold.           *)
LEMMA UpdateLosesNothing ==
  ASSUME NEW a, WellFormed(a), NEW w \in Ways, ~Refused(a, Document(a, w)), NEW over, NEW user,
         NEW k \in DOMAIN a.ext
  PROVE  \/ KeptIn(Update(a, w, Document(a, w), over, user), k, Strip(Value(a, k)))
         \/ KeptIn(Update(a, w, Document(a, w), over, user), k, Value(a, k))
         \/ Forgotten(a, w, k)
<1>0. ~DuplicateTitle(Document(a, w))
  BY DEF Refused
<1>1. CASE a.type = "group" /\ k = Plain("type")
  BY <1>1, GroupTypeKept DEF Has
<1>2. CASE Forgotten(a, w, k)
  BY <1>2
<1>3. CASE ~(a.type = "group" /\ k = Plain("type")) /\ ~Forgotten(a, w, k) /\ a.ext[k].ro
  <2>1. k \in RoTags(a)
    BY <1>3 DEF RoTags
  <2> QED
    BY <1>0, <1>3, <2>1, ReadOnlyKept
<1>4. CASE ~(a.type = "group" /\ k = Plain("type")) /\ ~Forgotten(a, w, k) /\ ~a.ext[k].ro
  BY <1>0, <1>4, ReadWriteKept
<1> QED
  BY <1>1, <1>2, <1>3, <1>4

------------------------------------------------------------------------------
(* What comes back is answered by what was stored before                     *)

AnswerInv ==
  /\ reply = "stored" =>
       /\ way \in Ways /\ ~Refused(before, Document(before, way))
       /\ \E over \in BOOLEAN, user \in Users(way) :
            asset = Update(before, way, Document(before, way), over, user)
  /\ reply = "refused" => way \in Ways /\ Refused(before, Document(before, way))

DocInv == DocumentTypeOK /\ AnswerInv

(* Nothing has come back yet.                                                *)
LEMMA InitDoc == DocumentInit => DocInv
<1> SUFFICES ASSUME DocumentInit PROVE DocInv
  OBVIOUS
<1>1. asset \in Assets /\ before = asset /\ way = "none" /\ reply = "none" /\ rounds = 0
  BY DEF DocumentInit
<1>2. WellFormed(asset) /\ WellFormed(before)
  BY <1>1, AssetDocumentAssumption
<1>3. rounds \in 0..MaxRounds
  <2>1. rounds = 0
    BY <1>1
  <2>2. MaxRounds \in Nat
    BY AssetDocumentAssumption
  <2> QED
    BY <2>1, <2>2
<1> QED
  BY <1>1, <1>2, <1>3 DEF DocInv, DocumentTypeOK, AnswerInv

(* An asset that is put back is answered from what it was.                   *)
LEMMA StepDoc == DocInv /\ [DocumentNext]_documentVars => DocInv'
<1> SUFFICES ASSUME DocInv, [DocumentNext]_documentVars PROVE DocInv'
  OBVIOUS
<1>1. CASE UNCHANGED documentVars
  <2>1. asset' = asset /\ before' = before /\ way' = way /\ reply' = reply /\ rounds' = rounds
    BY <1>1 DEF documentVars
  <2> QED
    BY <2>1 DEF DocInv, DocumentTypeOK, AnswerInv
<1>2. ASSUME NEW w \in Ways, PutBack(w) PROVE DocInv'
  <2> DEFINE cols == Document(asset, w)
  <2>1. /\ rounds < MaxRounds /\ rounds' = rounds + 1 /\ way' = w /\ before' = asset
        /\ \/ Refused(asset, cols) /\ reply' = "refused" /\ asset' = asset
           \/ /\ ~Refused(asset, cols) /\ reply' = "stored"
              /\ \E over \in BOOLEAN, user \in Users(w) : asset' = Update(asset, w, cols, over, user)
    BY <1>2 DEF PutBack
  <2>2. rounds' \in 0..MaxRounds
    <3>1. rounds \in 0..MaxRounds /\ MaxRounds \in Nat
      BY AssetDocumentAssumption DEF DocInv, DocumentTypeOK
    <3>2. rounds < MaxRounds /\ rounds' = rounds + 1
      BY <2>1
    <3> QED
      BY <3>1, <3>2
  <2>3. WellFormed(asset)
    BY DEF DocInv, DocumentTypeOK
  <2>4. WellFormed(asset')
    BY <2>1, <2>3, UpdateWellFormed
  <2>5. DocumentTypeOK'
    BY <2>1, <2>2, <2>3, <2>4 DEF DocumentTypeOK
  <2>6. AnswerInv'
    <3>1. CASE Refused(asset, cols) /\ reply' = "refused" /\ asset' = asset
      BY <2>1, <3>1 DEF AnswerInv
    <3>2. CASE /\ ~Refused(asset, cols) /\ reply' = "stored"
               /\ \E over \in BOOLEAN, user \in Users(w) : asset' = Update(asset, w, cols, over, user)
      BY <2>1, <3>2 DEF AnswerInv
    <3> QED
      BY <2>1, <3>1, <3>2
  <2> QED
    BY <2>5, <2>6 DEF DocInv
<1> QED
  BY <1>1, <1>2 DEF DocumentNext

(* The invariant of an asset that is shown and put back.                     *)
LEMMA DocInductive == DocumentSpec => []DocInv
BY InitDoc, StepDoc, PTL DEF DocumentSpec

(* DocumentTypeOK: an asset that was put back is one the database could hold *)
(* before: devices only are powered, no attribute is empty, no item has a    *)
(* number beyond those of lists, the mode of creation stays read-only        *)
(* (process_row).                                                            *)
THEOREM DocumentTypeCorrect == DocumentSpec => []DocumentTypeOK
<1>1. DocInv => DocumentTypeOK
  BY DEF DocInv
<1> QED
  BY <1>1, DocInductive, PTL

(* RefusedRightly: a page or a CSV document is taken back unless two of its  *)
(* columns have one title or the subtype is none (CsvMap::deserialize,       *)
(* process_row).                                                             *)
THEOREM DocumentRefusedRightly == DocumentSpec => []RefusedRightly
<1>1. DocInv => RefusedRightly
  <2> SUFFICES ASSUME DocInv, reply = "refused" PROVE RefusedRightly
    BY DEF RefusedRightly
  <2>1. WellFormed(before) /\ way \in Ways /\ Refused(before, Document(before, way))
    BY DEF DocInv, DocumentTypeOK, AnswerInv
  <2>2. \/ Excused(before, way)
        \/ before.type = "device" /\ before.subtype = "N_A"
        \/ before.type = "group" /\ ~Has(before, Plain("type"))
    BY <2>1, RefusedOnly
  <2> QED
    BY <2>2 DEF RefusedRightly, Excused
<1> QED
  BY <1>1, DocInductive, PTL

(* NothingInvented: an attribute that is stored was there before, but for    *)
(* what a page shows besides the attributes, and the time and the user the   *)
(* import of a CSV document stores with a device (load_asset_csv).           *)
THEOREM DocumentInventsNothing == DocumentSpec => []NothingInvented
<1>1. DocInv => NothingInvented
  <2> SUFFICES ASSUME DocInv, reply = "stored", NEW k \in DOMAIN asset.ext
               PROVE  Explained(before, way, asset, k)
    BY DEF NothingInvented, Explained, Mimics
  <2>1. WellFormed(before) /\ way \in Ways /\ ~Refused(before, Document(before, way))
    BY DEF DocInv, DocumentTypeOK, AnswerInv
  <2>2. PICK over \in BOOLEAN, user \in Users(way) :
          asset = Update(before, way, Document(before, way), over, user)
    BY DEF DocInv, AnswerInv
  <2> QED
    BY <2>1, <2>2, UpdateInventsNothing
<1> QED
  BY <1>1, DocInductive, PTL

(* NothingLost: the tag, the groups, the power sources and the attributes    *)
(* are stored after an update from an asset's own page or document as        *)
(* before, but for what that page cannot hold, and the time and the user of  *)
(* the last CSV import of a device.                                          *)
THEOREM DocumentLosesNothing == DocumentSpec => []NothingLost
<1>1. DocInv => NothingLost
  <2> SUFFICES ASSUME DocInv, reply = "stored" PROVE NothingLost
    BY DEF NothingLost
  <2>1. WellFormed(before) /\ way \in Ways /\ ~Refused(before, Document(before, way))
    BY DEF DocInv, DocumentTypeOK, AnswerInv
  <2>2. PICK over \in BOOLEAN, user \in Users(way) :
          asset = Update(before, way, Document(before, way), over, user)
    BY DEF DocInv, AnswerInv
  <2>3. ~DuplicateTitle(Document(before, way))
    BY <2>1 DEF Refused
  <2>4. asset.groups = IF way = "list" THEN {} ELSE before.groups
    <3>1. asset.groups = ReadGroups(Document(before, way))
      BY <2>2 DEF Update
    <3> QED
      BY <2>1, <2>3, <3>1, GroupsRead
  <2>5. {l.source : l \in asset.links} = {l.source : l \in before.links}
    <3>1. asset.links = ReadLinks(before, Document(before, way))
      BY <2>2 DEF Update
    <3> QED
      BY <2>1, <2>3, <3>1, LinksRead
  <2>6. asset.tag = before.tag \/ (before.tag = "" /\ Mimics("asset_tag"))
    BY <2>1, <2>2, <2>3, TagRead DEF Mimics
  <2>7. ASSUME NEW k \in DOMAIN before.ext
        PROVE  \/ Kept(k, Strip(before.ext[k].value))
               \/ Kept(k, before.ext[k].value)
               \/ k = Plain("location_type") /\ way # "csv"
               \/ IsItem(k) /\ Collides(before, k.base) /\ way # "csv"
               \/ k = Outlet(0, "label") /\ Has(before, Master("label")) /\ way = "list"
               \/ k \in Reserved /\ way = "csv"
               \/ Bare(k) \in Stamps /\ before.type = "device" /\ way = "csv"
               \/ SpeltTwice(k) \/ Bare(k) \in {Plain("asset_tag"), Plain("sub_type")}
    <3>1. \/ KeptIn(asset, k, Strip(Value(before, k)))
          \/ KeptIn(asset, k, Value(before, k))
          \/ Forgotten(before, way, k)
      BY <2>1, <2>2, UpdateLosesNothing
    <3>2. \A v : KeptIn(asset, k, v) => Kept(k, v)
      BY DEF KeptIn, Kept
    <3> QED
      BY <3>1, <3>2 DEF Forgotten, SpeltTwice, Value
  <2> QED
    BY <2>4, <2>5, <2>6, <2>7 DEF NothingLost
<1> QED
  BY <1>1, DocInductive, PTL
==============================================================================
