----------------------------- MODULE BulkDelete ------------------------------
(***************************************************************************)
(* asset_manager::delete_item for many assets (data.cc): what is known of  *)
(* each asset asked for is collected and checked, the assets found are     *)
(* sorted so that an asset goes after those that need it, and they are     *)
(* deleted one by one, each in the atomic step AssetTable promises, while  *)
(* other requests go on inserting assets.                                  *)
(*                                                                         *)
(* std::sort is the one of libstdc++, an insertion sort up to 16 elements: *)
(* the comparison it is given is no strict weak order, and beyond 16 its   *)
(* behaviour is undefined.  The parents of the stored assets form a tree.  *)
(***************************************************************************)
EXTENDS Naturals, Sequences, FiniteSets

CONSTANTS
  Ids,          \* database ids, 1..n; id 1 is rackcontroller-0
  None,         \* no parent
  Databases,    \* the databases to start from, a set of functions on Ids
  Selections,   \* sequences of ids asked for
  Sensors,      \* assets a logical_asset refers to
  MaxInserts,   \* bound: assets other requests insert
  MaxFailures   \* bound: statements that fail

VARIABLES
  db,             \* [Ids -> Asset], as in AssetTable
  ids,            \* what was asked for
  stage,          \* "collect", "sort", "delete" or "done"
  at,             \* position in ids, then in toDel
  toDel,          \* what is collected: sequence of ElementInfo
  element_info,   \* ids found, for the caller
  ret,            \* the replies: sequence of [id, status]
  licensed,       \* devices the licensing agent counts as active
  inserts, failures   \* counters for the bounds
vars == <<db, ids, stage, at, toDel, element_info, ret, licensed, inserts, failures>>

Names == {}
Table == INSTANCE AssetTable WITH
  table <- db, progress <- stage, call <- ids, InitialDb <- <<>>, Threads <- {}

ASSUME BulkDeleteAssumption ==
  /\ Ids \subseteq Nat /\ IsFiniteSet(Ids) /\ 1 \in Ids /\ None \notin Ids
  /\ Databases \subseteq [Ids -> Table!Asset]
  /\ Selections \subseteq Seq(Ids) /\ Sensors \subseteq Ids
  /\ {MaxInserts, MaxFailures} \subseteq Nat

RC0 == 1
Stored == Table!Stored(db)
Places == {"datacenter", "room"}

Elements(s) == {s[k] : k \in DOMAIN s}

------------------------------------------------------------------------------
(* collectChildren: everything below an asset, down to any depth. *)
Below(i) ==
  LET down[n \in 0..Cardinality(Ids)] ==
        IF n = 0 THEN {i}
        ELSE LET above == down[n - 1] IN above \cup {j \in Stored : db[j].parent \in above}
  IN down[Cardinality(Ids)] \ {i}

(* selectAnyLinks: what an asset powers. *)
Powered(i) == {j \in Stored : i \in db[j].sources}

(* The status is not copied from what was selected. *)
ElementInfo(i) ==
  [id |-> i, type |-> db[i].type, parent |-> db[i].parent, links |-> Powered(i), status |-> ""]

Reply(i, s) == [id |-> i, status |-> s]
Refused(i) == \E r \in Elements(ret) : r.id = i /\ r.status = 0

(* Mutant: the asset is not looked for. *)
checkAndAddInfo_Twice(s, item) == Append(s, item)

checkAndAddInfo(s, item) ==
  IF \E e \in Elements(s) : e.id = item.id THEN s ELSE Append(s, item)

(* All that is below the asset and all that it powers is asked for too. *)
MayGo(i) == Below(i) \cup Powered(i) \subseteq Elements(ids)

MayFail == failures < MaxFailures /\ failures' = failures + 1

(* The iteration for one id: an asset that fails a check is refused, but it  *)
(* is collected; RC-0, or an asset above it, is not.                         *)
Collect ==
  LET i == ids[at] IN
  /\ stage = "collect" /\ at <= Len(ids)
  /\ at' = at + 1
  /\ \/ /\ i \notin Stored
        /\ ret' = Append(ret, Reply(i, 0))
        /\ UNCHANGED <<toDel, element_info, failures>>
     \/ /\ MayFail
        /\ ret' = Append(ret, Reply(i, 0))
        /\ UNCHANGED <<toDel, element_info>>
     \/ /\ i \in Stored /\ RC0 \in Below(i) \cup {i}
        /\ element_info' = Append(element_info, i)
        /\ ret' = Append(ret, Reply(i, 0))
        /\ UNCHANGED <<toDel, failures>>
     \/ /\ i \in Stored /\ RC0 \notin Below(i) \cup {i}
        /\ element_info' = Append(element_info, i)
        /\ toDel' = checkAndAddInfo(toDel, ElementInfo(i))
        /\ ret' = IF MayGo(i) THEN ret ELSE Append(ret, Reply(i, 0))
        /\ UNCHANGED failures
  /\ UNCHANGED <<db, ids, stage, licensed, inserts>>

------------------------------------------------------------------------------
(* isAnyParent: the parent of one is the other, or is above the other with   *)
(* all that is between collected.  Two children of one parent are each said  *)
(* to have the other for a parent.  What is collected is looked at while it  *)
(* is being sorted: "among" is what can be found there.                      *)
isAnyParent(item, parent, among) ==
  LET up[n \in 0..Len(toDel)] ==
        IF n = 0 THEN {parent}
        ELSE LET below == up[n - 1]
             IN below \cup {e \in among : \E p \in below : e.id = p.parent}
  IN \E p \in up[Len(toDel)] : item.parent = p.id

isLinked(item, parent) == parent.id \notin item.links /\ item.id \in parent.links

(* Mutant: links are not looked at. *)
Before_ParentsOnly(l, r, among) == isAnyParent(l, r, among)

Before(l, r, among) == isAnyParent(l, r, among) \/ isLinked(l, r)

(* An element less than the first goes to the front; any other goes left     *)
(* past the elements it is less than, and from the first it has passed on it *)
(* is out of the vector.                                                     *)
Inserted(s, x) ==
  LET among(k) == IF k \in {1, Len(s)} THEN Elements(toDel) ELSE Elements(toDel) \ {x}
      stops == {k \in DOMAIN s : ~Before(x, s[k], among(k))}
      stay == {k \in DOMAIN s : 1 \in stops /\ \E j \in stops : k <= j}
      after == Cardinality(stay)
  IN SubSeq(s, 1, after) \o <<x>> \o SubSeq(s, after + 1, Len(s))

(* One insertion is a step: requests of others go on meanwhile. *)
Sort ==
  /\ \/ /\ stage = "collect" /\ at > Len(ids)
        /\ stage' = "sort" /\ at' = 1
        /\ UNCHANGED toDel
     \/ /\ stage = "sort" /\ at <= Len(toDel)
        /\ toDel' = Inserted(SubSeq(toDel, 1, at - 1), toDel[at]) \o SubSeq(toDel, at + 1, Len(toDel))
        /\ at' = at + 1
        /\ UNCHANGED stage
     \/ /\ stage = "sort" /\ at > Len(toDel)
        /\ stage' = "delete" /\ at' = 1
        /\ UNCHANGED toDel
  /\ UNCHANGED <<db, ids, element_info, ret, licensed, inserts, failures>>

------------------------------------------------------------------------------
Deletion(e) == [op |-> "delete", id |-> e.id, type |-> e.type]

(* deleteAsset: what delete_dc_room_row_rack, delete_group or delete_device  *)
(* of asset_general.cc need.                                                 *)
CanDelete(e) ==
  /\ e.id \notin Sensors
  /\ Table!Legal(db, Deletion(e))
  /\ e.type \in Places => \E j \in Stored \ {e.id} : db[j].type = "datacenter"

(* Mutant: what was refused is tried again. *)
Wanted_All(e) == TRUE

(* What was refused before is left alone. *)
Wanted(e) == ~Refused(e.id)

Delete ==
  LET e == toDel[at] IN
  /\ stage = "delete" /\ at <= Len(toDel)
  /\ at' = at + 1
  /\ \/ /\ ~Wanted(e)
        /\ UNCHANGED <<db, ret, licensed, failures>>
     \/ /\ Wanted(e) /\ CanDelete(e)
        /\ db' = Table!Apply(db, Deletion(e))
        /\ ret' = Append(ret, Reply(e.id, 1))
        /\ licensed' = IF e.type = "device" /\ e.status = "active" THEN licensed \ {e.id}
                       ELSE licensed
        /\ UNCHANGED failures
     \/ /\ Wanted(e)
        /\ \/ ~CanDelete(e) /\ UNCHANGED failures
           \/ MayFail
        /\ ret' = Append(ret, Reply(e.id, 0))
        /\ UNCHANGED <<db, licensed>>
  /\ UNCHANGED <<ids, stage, toDel, element_info, inserts>>

Finish ==
  /\ stage = "delete" /\ at > Len(toDel)
  /\ stage' = "done"
  /\ UNCHANGED <<db, ids, at, toDel, element_info, ret, licensed, inserts, failures>>

(* Another request inserts a device, in a place or powered by a device. *)
Insert(i) ==
  /\ stage # "done" /\ inserts < MaxInserts
  /\ inserts' = inserts + 1
  /\ i \notin Stored /\ i \notin Elements(ids) /\ \A j \in Ids \ Stored : i <= j
  /\ \E j \in Stored :
       db' = [db EXCEPT ![i] = [Table!Vacant EXCEPT
                !.type = "device", !.monitored = TRUE,
                !.parent = IF db[j].type \in Places THEN j ELSE None,
                !.sources = IF db[j].type = "device" THEN {j} ELSE {}]]
  /\ UNCHANGED <<ids, stage, at, toDel, element_info, ret, licensed, failures>>

Done == stage = "done" /\ UNCHANGED vars

Init ==
  /\ db \in Databases /\ ids \in Selections
  /\ stage = "collect" /\ at = 1
  /\ toDel = <<>> /\ element_info = <<>> /\ ret = <<>>
  /\ licensed = {i \in Stored \ {RC0} : db[i].type = "device" /\ db[i].status = "active"}
  /\ inserts = 0 /\ failures = 0

delete_item == Collect \/ Sort \/ Delete \/ Finish

Next == delete_item \/ (\E i \in Ids : Insert(i)) \/ Done

Spec == Init /\ [][Next]_vars /\ WF_vars(delete_item)

------------------------------------------------------------------------------
(* Properties *)

(* Types; and checkAndAddInfo collects no asset twice. *)
TypeOK ==
  /\ db \in [Ids -> Table!Asset] /\ ids \in Selections
  /\ stage \in {"collect", "sort", "delete", "done"} /\ at \in Nat
  /\ \A j, k \in DOMAIN toDel : j # k => toDel[j].id # toDel[k].id
  /\ Elements(toDel) \subseteq [id : Ids, type : Table!Types, parent : Ids \cup {None},
                                links : SUBSET Ids, status : {""}]
  /\ Elements(element_info) \subseteq Ids
  /\ Elements(ret) \subseteq [id : Ids, status : {0, 1}] /\ licensed \subseteq Ids
  /\ inserts \in 0..MaxInserts /\ failures \in 0..MaxFailures

(* Every id asked for has an answer, and all its answers are true: an asset  *)
(* is gone if, and only if, the reply says so, even when it is asked for     *)
(* twice, a statement fails or other requests insert what depends on it.     *)
RepliesAreTrue ==
  stage = "done" =>
    \A i \in Elements(ids) :
      LET answers == {r \in Elements(ret) : r.id = i}
          gone == i \in Elements(element_info) /\ i \notin Stored
      IN answers # {} /\ \A r \in answers : (r.status = 1) <=> gone

(* Assets that others are members of though they are no groups: the import   *)
(* takes any asset for a group, and no check of a deletion looks at members.  *)
NoGroups == {i \in Ids : \E d \in Databases, j \in Ids : i \in d[j].groups /\ d[i].type # "group"}

(* What keeps an asset, whatever the order of the deletions: RC-0 among what *)
(* depends on it, too.                                                       *)
Kept(e) ==
  \/ e.id \in Sensors \cup NoGroups \/ ~MayGo(e.id)
  \/ \E j \in Below(e.id) \cup Powered(e.id) : RC0 \in Below(j) \cup {j}
  \/ e.type \in Places /\ ~\E j \in Stored \ {e.id} : db[j].type = "datacenter"

(* A head and what is directly inside it or powered by it, nothing more:     *)
(* nothing is inside those, and the head is inside none of them.             *)
Family(h) ==
  /\ \A e \in Elements(toDel) \ {h} : (e.parent = h.id \/ e.id \in h.links) /\ e.links = {}
  /\ \A d, e \in Elements(toDel) : d.parent = e.id => e = h /\ d # h

(* "can't delete the asset because it has at least one child": an asset may  *)
(* go together with what is directly inside it or powered by it, in whatever *)
(* order they are asked for; nothing stays that could go.  With a third      *)
(* level, or an unrelated asset between them, std::sort may put the parent   *)
(* first.                                                                    *)
FamiliesDeleted ==
  LET left == {e \in Elements(toDel) : e.id \in Stored}
  IN stage = "done" /\ (\E h \in Elements(toDel) : Family(h)) /\ inserts = 0 /\ failures = 0 =>
       \A e \in left :
         Kept(e) \/ \E d \in left \ {e} : Kept(d) /\ (d.parent = e.id \/ d.id \in e.links)

(* "we need device JSON in order to delete active device": a device deleted  *)
(* is no longer counted as active.                                           *)
ActiveDevicesDeactivated == licensed \subseteq Stored
==============================================================================
