----------------------------- MODULE AssetStore ------------------------------
(***************************************************************************)
(* The functions of asset_general.cc that store and delete assets, called  *)
(* by several threads at once: each runs its statements one after another  *)
(* in a transaction of its own, any of them may fail, and the database     *)
(* interleaves them.  A call implements one atomic change: AssetTable.     *)
(*                                                                         *)
(* The database is external: a statement locks the rows it writes and the  *)
(* rows a foreign key makes it look at, waits for other threads' locks or  *)
(* is chosen to break a deadlock; locks are kept until the transaction     *)
(* ends; a plain SELECT reads what is committed and locks nothing.  The    *)
(* licensing agent is external too.                                        *)
(*                                                                         *)
(* A device is stored and deleted with what process_row and delete_item do *)
(* about its licence before and after the transaction.                     *)
(*                                                                         *)
(* Abstracted: statements that change nothing modelled (read-only          *)
(* attributes, looking up monitored devices) are steps that may fail.      *)
(***************************************************************************)
EXTENDS Naturals, Sequences, FiniteSets

CONSTANTS
  Threads, Ids, Names, None, InitialDb,   \* as in AssetTable
  Calls,         \* bound: the calls made, of Table!Call; an insertion has no id yet
  MaxCalls,      \* bound: calls made
  MaxFailures    \* bound: statements and calls of the agent that fail

VARIABLES
  db,         \* what is committed
  call,       \* per thread, its call
  stage,      \* per thread: "idle", "check", "deactivate", "tx", "activate", "committed"
              \* or "failed"
  at,         \* per thread, the next statement of its script
  work,       \* per thread, the rows of its asset as its transaction sees them
  locks,      \* per thread, ids it has written and ids it has looked at
  asset_json, \* per thread: its deletion was called with the text of the device
  nextId,     \* the id of the next new asset
  licensed,   \* devices the licensing agent counts as active
  calls, failures,   \* counters for the bounds
  kept,    \* history: devices deleted by calls that replied an error
  unread,  \* history: active devices whose text could not be read for their deletion
  crossed, \* history: devices activated while another thread deleted or updated them
  raced    \* history: names two threads were about to give to two assets at once

thread == <<call, stage, at, work, locks, asset_json>>
lost == <<kept, unread, crossed>>
vars == <<db, thread, nextId, licensed, calls, failures, lost, raced>>

RC0 == 1

Table == INSTANCE AssetTable WITH
  table <- db,
  progress <- [t \in Threads |-> CASE stage[t] = "idle" -> "idle"
                                [] stage[t] \in {"check", "deactivate", "tx"} -> "running"
                                [] stage[t] \in {"activate", "committed"} -> "applied"
                                [] stage[t] = "failed" -> "refused"]

ASSUME AssetStoreAssumption ==
  /\ Table!AssetTableAssumption
  /\ Calls \subseteq Table!Call /\ RC0 \in Ids
  /\ {MaxCalls, MaxFailures} \subseteq Nat

(* The first ids are in use.  The callers look an asset up before they ask   *)
(* for its update or its deletion, and give links to devices only; a device  *)
(* to be activated, never RC-0, is stored inactive first.                    *)
ASSUME CallersAssumption ==
  LET stored == Table!Stored(InitialDb) IN
  /\ stored # Ids /\ \A i \in Ids \ stored : InitialDb[i] = Table!Vacant
  /\ \A i \in stored, j \in Ids \ stored : i < j
  /\ \A i \in stored :
       /\ InitialDb[i].type # "device" => InitialDb[i].sources = {}
       /\ \A j \in stored : InitialDb[i].name = InitialDb[j].name => i = j
  /\ Calls # {}
  /\ \A c \in Calls :
       /\ c.op # "insert" => c.id \in stored /\ c.type = InitialDb[c.id].type
       /\ c.activate => /\ c.op # "delete" /\ c.type = "device" /\ c.id # RC0
                        /\ c.status = "nonactive"
       /\ c.type # "device" => c.sources = {}

Stored == Table!Stored(db)

------------------------------------------------------------------------------
(* The statements of each function, in their order. *)

(* A datacenter, or a rack, is monitored; a room, a row or a group is not. *)
insert_dc_room_row_rack_group(c) ==
  <<"element", "ext", "extRO", "groups">> \o
  IF c.type = "datacenter" THEN <<"monitorDevice", "relation">> ELSE <<>>

insert_device(c) ==
  <<"element", "ext", "extRO", "groups", "links", "monitorType", "monitorDevice", "relation">>

update_dc_room_row_rack_group(c) ==
  <<"element", "dropExt", "ext", "extRO", "dropGroups", "groups">>

update_device(c) ==
  <<"element", "dropExt", "ext", "extRO", "dropGroups", "groups", "dropLinks", "links">>

delete_dc_room_row_rack(c) ==
  <<"countDatacenters", "dropGroups", "monitor", "dropRelation", "dropElement">>

delete_group(c) == <<"dropMembers", "dropElement">>

delete_device(c) == <<"dropGroups", "dropLinks", "dropRelation", "dropElement">>

Script(c) ==
  CASE c.op = "insert" /\ c.type = "device" -> insert_device(c)
    [] c.op = "insert" /\ c.type # "device" -> insert_dc_room_row_rack_group(c)
    [] c.op = "update" /\ c.type = "device" -> update_device(c)
    [] c.op = "update" /\ c.type # "device" -> update_dc_room_row_rack_group(c)
    [] c.op = "delete" /\ c.type = "device" -> delete_device(c)
    [] c.op = "delete" /\ c.type = "group" -> delete_group(c)
    [] c.op = "delete" /\ c.type \in {"datacenter", "room"} -> delete_dc_room_row_rack(c)

(* What a statement makes of the rows of its asset. *)
Effect(s, r, c) ==
  CASE s = "element" -> [r EXCEPT !.type = IF c.op = "insert" THEN c.type ELSE @,
                                  !.status = c.status, !.parent = c.parent]
    [] s = "dropExt" -> [r EXCEPT !.name = None]
    [] s = "ext" -> [r EXCEPT !.name = c.name]
    [] s = "dropGroups" -> [r EXCEPT !.groups = {}]
    [] s = "groups" -> [r EXCEPT !.groups = @ \cup c.groups]
    [] s = "dropLinks" -> [r EXCEPT !.sources = {}]
    [] s = "links" -> [r EXCEPT !.sources = @ \cup c.sources]
    [] s = "relation" -> [r EXCEPT !.monitored = TRUE]
    [] s = "dropRelation" -> [r EXCEPT !.monitored = FALSE]
    [] s = "dropElement" -> Table!Vacant
    [] OTHER -> r

(* The rows a statement looks at because of a foreign key. *)
LooksAt(s, c) ==
  CASE s = "element" -> {c.parent} \ {None}
    [] s = "groups" -> c.groups
    [] s = "links" -> c.sources
    [] OTHER -> {}

Writes(s) == s \notin {"countDatacenters", "monitor", "monitorType"}

(* The foreign keys, and the check for the last datacenter: it counts the    *)
(* datacenters there are besides the asset, of whatever type the asset is.   *)
Allowed(s, r, c) ==
  /\ LooksAt(s, c) \subseteq Stored
  /\ s = "ext" => r.type # "vacant"
  /\ s = "dropElement" =>
       \A j \in Table!Dependants(db, c.id) \ {c.id} :
         c.type = "group" /\ db[j].parent # c.id /\ c.id \notin db[j].sources
  /\ s = "countDatacenters" => \E j \in Stored \ {c.id} : db[j].type = "datacenter"

Free(t, s, c) ==
  \A u \in Threads \ {t} :
    /\ LooksAt(s, c) \cap locks[u].written = {}
    /\ Writes(s) => c.id \notin locks[u].written \cup locks[u].seen

------------------------------------------------------------------------------
MayFail == failures < MaxFailures /\ failures' = failures + 1

NoLocks == [written |-> {}, seen |-> {}]

(* Mutant: the locks stay. *)
Leave_Locked(t, s) ==
  /\ stage' = [stage EXCEPT ![t] = s]
  /\ work' = [work EXCEPT ![t] = Table!Vacant]
  /\ at' = [at EXCEPT ![t] = 1]
  /\ UNCHANGED locks

(* The transaction object goes out of scope. *)
Leave(t, s) ==
  /\ stage' = [stage EXCEPT ![t] = s]
  /\ locks' = [locks EXCEPT ![t] = NoLocks]
  /\ work' = [work EXCEPT ![t] = Table!Vacant]
  /\ at' = [at EXCEPT ![t] = 1]

(* A device that is deleted has a licence to give back. *)
MustReturn(c) == c.op = "delete" /\ c.type = "device" /\ db[c.id].status = "active"

(* getJsonAsset: the text of the device, for the agent.  When the database   *)
(* fails it is empty, and says so to nobody.                                 *)
getJsonAsset(t, c) ==
  \/ /\ asset_json' = [asset_json EXCEPT ![t] = MustReturn(c)]
     /\ UNCHANGED <<failures, unread>>
  \/ /\ MustReturn(c) /\ MayFail
     /\ asset_json' = [asset_json EXCEPT ![t] = FALSE]
     /\ unread' = unread \cup {c.id}

(* A request stores or deletes an asset.  asset_manager::delete_item reads   *)
(* the status of a device before it calls delete_device.                     *)
Begin(t, c) ==
  /\ stage[t] = "idle" /\ calls < MaxCalls
  /\ calls' = calls + 1
  /\ c.op = "insert" => nextId \in Ids
  /\ nextId' = IF c.op = "insert" THEN nextId + 1 ELSE nextId
  /\ call' = [call EXCEPT ![t] = IF c.op = "insert" THEN [c EXCEPT !.id = nextId] ELSE c]
  /\ getJsonAsset(t, c)
  /\ stage' = [stage EXCEPT ![t] = "check"]
  /\ UNCHANGED <<db, at, work, locks, licensed, kept, crossed, raced>>

BadStatus(c) ==
  /\ c.op # "delete" /\ c.status = "nonactive"
  /\ c.type # "device" \/ c.id = RC0

(* Mutant: no name is looked up. *)
DuplicateEntry_Never(c) == FALSE

(* The name belongs to another asset. *)
DuplicateEntry(c) ==
  c.op # "delete" /\ \E i \in Stored \ {c.id} : db[i].name = c.name

(* Of two assets that share the name the lookup finds either. *)
HasName(c) == c.op = "update" /\ c.id \in Stored /\ db[c.id].name = c.name

MustDeactivate(c) ==
  c.op = "update" /\ c.type = "device" /\ c.id # RC0 /\ db[c.id].status = "active"

(* The threads that have looked their name up and not stored it yet. *)
Naming(t) == stage[t] \in {"deactivate", "tx"} /\ call[t].op # "delete"

(* What is looked at before the transaction, and before the device that is   *)
(* to be updated is made inactive: the name, and the status of the device.   *)
Check(t) ==
  LET c == call[t] IN
  /\ stage[t] = "check"
  /\ \/ /\ BadStatus(c) \/ DuplicateEntry(c)
        /\ Leave(t, "failed")
        /\ UNCHANGED raced
     \/ /\ ~BadStatus(c) /\ (DuplicateEntry(c) => HasName(c))
        /\ stage' = [stage EXCEPT ![t] = IF MustDeactivate(c) THEN "deactivate" ELSE "tx"]
        /\ work' = [work EXCEPT ![t] = db[c.id]]
        /\ raced' = raced \cup {n \in Names :
                      /\ c.op # "delete" /\ c.name = n
                      /\ \E u \in Threads \ {t} : Naming(u) /\ call[u].name = n
                                                  /\ call[u].id # c.id}
        /\ UNCHANGED <<at, locks>>
  /\ UNCHANGED <<db, call, asset_json, nextId, licensed, calls, failures, lost>>

Device(i) == db[i].type = "device"

Unlocked(i) == \A u \in Threads : i \notin locks[u].written \cup locks[u].seen

(* The agent takes the licence of the device back, and may store its status; *)
(* or it fails and the update is refused.                                    *)
Deactivate(t) ==
  LET i == call[t].id IN
  /\ stage[t] = "deactivate"
  /\ \/ /\ licensed' = licensed \ {i}
        /\ \/ UNCHANGED db
           \/ Device(i) /\ Unlocked(i) /\ db' = [db EXCEPT ![i].status = "nonactive"]
        /\ stage' = [stage EXCEPT ![t] = "tx"]
        /\ UNCHANGED <<at, work, locks, failures>>
     \/ /\ MayFail /\ Leave(t, "failed")
        /\ UNCHANGED <<db, licensed>>
  /\ UNCHANGED <<call, asset_json, nextId, calls, lost, raced>>

Statement(t) ==
  LET c == call[t]
      s == Script(c)[at[t]]
  IN /\ stage[t] = "tx" /\ at[t] <= Len(Script(c))
     /\ Free(t, s, c) /\ Allowed(s, work[t], c)
     /\ locks' = [locks EXCEPT ![t] = [written |-> IF Writes(s) THEN @.written \cup {c.id}
                                                   ELSE @.written,
                                       seen |-> @.seen \cup LooksAt(s, c)]]
     (* The first statement that writes sees what was committed meanwhile. *)
     /\ work' = [work EXCEPT ![t] = Effect(s, IF c.id \in locks[t].written THEN @ ELSE db[c.id], c)]
     /\ at' = [at EXCEPT ![t] = @ + 1]
     /\ UNCHANGED <<db, call, stage, asset_json, nextId, licensed, calls, failures, lost, raced>>

(* Mutant: what was written is kept. *)
Rollback_Missing(t) ==
  /\ Leave(t, "failed")
  /\ db' = [db EXCEPT ![call[t].id] = work[t]]

(* trans.rollback (), or the destructor of the transaction. *)
Rollback(t) ==
  /\ Leave(t, "failed")
  /\ UNCHANGED db

(* A statement that is not allowed, is given up to break a deadlock, or      *)
(* fails otherwise; a commit may fail too.                                   *)
GiveUp(t) ==
  LET c == call[t] IN
  /\ stage[t] = "tx"
  /\ \/ /\ at[t] <= Len(Script(c))
        /\ ~(Free(t, Script(c)[at[t]], c) /\ Allowed(Script(c)[at[t]], work[t], c))
        /\ UNCHANGED failures
     \/ MayFail
  /\ Rollback(t)
  /\ UNCHANGED <<call, asset_json, nextId, licensed, calls, lost, raced>>

Commit(t) ==
  LET c == call[t] IN
  /\ stage[t] = "tx" /\ at[t] > Len(Script(c))
  /\ db' = [i \in Ids |->
              IF i = c.id THEN work[t]
              ELSE IF c.op = "delete" /\ c.type = "group" THEN [db[i] EXCEPT !.groups = @ \ {c.id}]
              ELSE db[i]]
  /\ Leave(t, IF c.activate THEN "activate" ELSE "committed")
  (* The status of a device activated meanwhile is overwritten. *)
  /\ crossed' = crossed \cup {i \in licensed : i = c.id /\ work[t].status = "nonactive"
                                                        /\ c.op # "delete"}
  /\ UNCHANGED <<call, asset_json, nextId, licensed, calls, failures, kept, unread, raced>>

(* A deletion that has read the status of the device, or is over. *)
BeingDeleted(i) ==
  \/ ~Device(i)
  \/ \E u \in Threads : stage[u] \in {"check", "tx"} /\ call[u].op = "delete" /\ call[u].id = i

(* The agent activates the device it was told of after the commit, though it *)
(* may be deleted by then, and stores its status; or it refuses, or fails,   *)
(* which is only a warning.                                                  *)
Activate(t) ==
  LET i == call[t].id IN
  /\ stage[t] = "activate"
  /\ stage' = [stage EXCEPT ![t] = "committed"]
  /\ \/ /\ licensed' = licensed \cup {i}
        /\ IF Device(i)
           THEN Unlocked(i) /\ db' = [db EXCEPT ![i].status = "active"]
           ELSE UNCHANGED db
        /\ crossed' = IF BeingDeleted(i) THEN crossed \cup {i} ELSE crossed
     \/ UNCHANGED <<db, licensed, crossed>>
  /\ UNCHANGED <<call, at, work, locks, asset_json, nextId, calls, failures, kept, unread, raced>>

(* Mutant: delete_device forgets the licence. *)
GiveBack_Forgotten(t) == UNCHANGED <<licensed, kept, failures>>

(* delete_device makes the device inactive last. *)
GiveBack(t) ==
  \/ /\ asset_json[t]
     /\ licensed' = licensed \ {call[t].id}
     /\ UNCHANGED <<kept, failures>>
  \/ /\ asset_json[t]
     /\ MayFail
     /\ kept' = kept \cup {call[t].id}
     /\ UNCHANGED licensed
  \/ /\ ~asset_json[t]
     /\ UNCHANGED <<licensed, kept, failures>>

Return(t) ==
  /\ \/ stage[t] = "committed" /\ GiveBack(t)
     \/ stage[t] = "failed" /\ UNCHANGED <<licensed, kept, failures>>
  /\ Leave(t, "idle")
  /\ UNCHANGED <<db, call, asset_json, nextId, calls, unread, crossed, raced>>

------------------------------------------------------------------------------
Init ==
  /\ db = InitialDb
  /\ call = [t \in Threads |-> CHOOSE c \in Calls : TRUE]
  /\ stage = [t \in Threads |-> "idle"] /\ at = [t \in Threads |-> 1]
  /\ work = [t \in Threads |-> Table!Vacant]
  /\ locks = [t \in Threads |-> NoLocks]
  /\ asset_json = [t \in Threads |-> FALSE]
  /\ nextId \in Ids \ Stored /\ \A j \in Ids \ Stored : nextId <= j
  /\ licensed = {i \in Stored \ {RC0} : db[i].type = "device" /\ db[i].status = "active"}
  /\ calls = 0 /\ failures = 0
  /\ kept = {} /\ unread = {} /\ crossed = {} /\ raced = {}

Next ==
  \E t \in Threads :
    \/ \E c \in Calls : Begin(t, c)
    \/ Check(t) \/ Deactivate(t)
    \/ Statement(t) \/ GiveUp(t) \/ Commit(t)
    \/ Activate(t) \/ Return(t)

Spec == Init /\ [][Next]_vars

------------------------------------------------------------------------------
(* Properties *)

(* Types; and no thread holds a lock outside of its transaction. *)
TypeOK ==
  /\ \A t \in Threads : stage[t] # "tx" => locks[t] = NoLocks
  /\ db \in [Ids -> Table!Asset] /\ call \in [Threads -> Table!Call]
  /\ stage \in [Threads -> {"idle", "check", "deactivate", "tx", "activate", "committed", "failed"}]
  /\ at \in [Threads -> Nat] /\ work \in [Threads -> Table!Asset]
  /\ locks \in [Threads -> [written : SUBSET Ids, seen : SUBSET Ids]]
  /\ asset_json \in [Threads -> BOOLEAN] /\ nextId \in Nat
  /\ {licensed, kept, unread, crossed} \subseteq SUBSET Ids /\ raced \subseteq Names
  /\ calls \in 0..MaxCalls /\ failures \in 0..MaxFailures

(* Each call is atomic and its reply is true, whatever statement fails and   *)
(* however the statements of two threads interleave.                         *)
Atomic == Table!Spec

(* An asset is neither inserted with nor renamed to a name another has.  The *)
(* name is looked up before the transaction begins, so two assets share a    *)
(* name only if two threads were giving it to them at the same time.         *)
NamesClashOnlyInRaces ==
  \A i, j \in Stored : i # j /\ db[i].name = db[j].name => db[i].name \in raced

(* The licence of a deleted device is given back before its deletion         *)
(* replies success: the deactivation comes after the commit.  It is lost     *)
(* when the text of the device could not be read, or another thread was      *)
(* activating the device while it was updated or deleted.                    *)
LicencesReturned ==
  \A i \in licensed :
    \/ i \in Stored \cup kept \cup unread \cup crossed
    \/ \E t \in Threads : stage[t] = "committed" /\ call[t].op = "delete" /\ call[t].id = i

(* delete_dc_room_row_rack: "Don't allow the deletion of the last            *)
(* datacenter".                                                              *)
DatacenterLeft == \E i \in Stored : db[i].type = "datacenter"
==============================================================================
