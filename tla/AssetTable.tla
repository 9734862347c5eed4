----------------------------- MODULE AssetTable ------------------------------
(***************************************************************************)
(* What the functions of asset_general.cc promise to the requests that     *)
(* call them: each call changes the asset tables in one atomic step, or    *)
(* not at all, and its reply tells which.  The one exception is a device   *)
(* whose licence could not be given back: it is deleted and the reply says *)
(* the call failed.  Besides them only the licensing agent writes: the     *)
(* status of a device.  AssetStore implements this specification.          *)
(***************************************************************************)
EXTENDS Naturals, FiniteSets

CONSTANTS
  Threads,    \* the threads of the server, each with one call at a time
  Ids,        \* database ids, 1..n; id 1 is rackcontroller-0
  Names,      \* external names
  None,       \* no parent, no id, no name
  InitialDb   \* the assets stored at first, [Ids -> Asset]

Types == {"datacenter", "room", "group", "device"}
Statuses == {"active", "nonactive"}

(* The rows that belong to one asset: its element, its extended attributes,  *)
(* of which the name is one, its groups, the links to it and its relation to *)
(* the monitored devices.  An id not in use is vacant.                       *)
Asset ==
  [type : Types \cup {"vacant"}, status : Statuses, parent : Ids \cup {None},
   name : Names \cup {None}, groups : SUBSET Ids, sources : SUBSET Ids, monitored : BOOLEAN]

Vacant == [type |-> "vacant", status |-> "nonactive", parent |-> None, name |-> None,
           groups |-> {}, sources |-> {}, monitored |-> FALSE]

(* What a call asks for; a new asset gets its id from the database.  A       *)
(* device may have to be activated once it is stored.                        *)
Call ==
  [op : {"insert", "update", "delete"}, id : Ids \cup {None}, type : Types, status : Statuses,
   parent : Ids \cup {None}, name : Names, groups : SUBSET Ids, sources : SUBSET Ids,
   activate : BOOLEAN]

AssetTableAssumption ==
  /\ Ids \subseteq Nat
  /\ None \notin Ids \cup Names
  /\ InitialDb \in [Ids -> Asset]

VARIABLES
  table,   \* [Ids -> Asset]
  progress,   \* per thread: "idle", "running", "applied" or "refused"
  call     \* per thread, the call it makes
vars == <<table, progress, call>>

------------------------------------------------------------------------------
Stored(t) == {i \in Ids : t[i].type # "vacant"}

(* Who names an asset as parent, group or power source. *)
Dependants(t, i) ==
  {j \in Stored(t) : t[j].parent = i \/ i \in t[j].groups \/ i \in t[j].sources}

Named(c) == ({c.parent} \ {None}) \cup c.groups \cup c.sources

ToAsset(c) ==
  [type |-> c.type, status |-> c.status, parent |-> c.parent, name |-> c.name,
   groups |-> c.groups, sources |-> c.sources, monitored |-> c.type # "room" /\ c.type # "group"]

(* An asset is stored whole, with everything it names stored too, and        *)
(* removed when nothing depends on it; the members of a group are let go.    *)
Apply(t, c) ==
  CASE c.op = "insert" -> [t EXCEPT ![c.id] = ToAsset(c)]
    [] c.op = "update" -> [t EXCEPT ![c.id] = [ToAsset(c) EXCEPT !.monitored = t[c.id].monitored]]
    [] c.op = "delete" -> [i \in Ids |->
                             IF i = c.id THEN Vacant
                             ELSE IF c.type = "group" THEN [t[i] EXCEPT !.groups = @ \ {c.id}]
                             ELSE t[i]]

Legal(t, c) ==
  CASE c.op = "insert" -> t[c.id] = Vacant /\ Named(c) \subseteq Stored(t)
    [] c.op = "update" -> c.id \in Stored(t) /\ Named(c) \subseteq Stored(t)
    [] c.op = "delete" -> \A j \in Dependants(t, c.id) \ {c.id} :
                            c.type = "group" /\ t[j].parent # c.id /\ c.id \notin t[j].sources

------------------------------------------------------------------------------
Init ==
  /\ table = InitialDb
  /\ progress = [t \in Threads |-> "idle"]
  /\ call \in [Threads -> Call]

Begin(t) ==
  /\ progress[t] = "idle"
  /\ progress' = [progress EXCEPT ![t] = "running"]
  /\ call'[t] \in Call /\ call' = [call EXCEPT ![t] = call'[t]]
  /\ UNCHANGED table

ApplyCall(t) ==
  /\ progress[t] = "running" /\ Legal(table, call[t])
  /\ table' = Apply(table, call[t])
  /\ progress' = [progress EXCEPT ![t] = "applied"]
  /\ UNCHANGED call

RefuseCall(t) ==
  /\ progress[t] = "running"
  /\ progress' = [progress EXCEPT ![t] = "refused"]
  /\ UNCHANGED <<table, call>>

(* The reply has a status of 1 or 0; only the deletion of a device may       *)
(* answer 0 although it was applied.                                         *)
Return(t, status) ==
  /\ \/ progress[t] = "applied" /\ status = 1
     \/ progress[t] = "applied" /\ status = 0 /\ call[t].op = "delete" /\ call[t].type = "device"
     \/ progress[t] = "refused" /\ status = 0
  /\ progress' = [progress EXCEPT ![t] = "idle"]
  /\ UNCHANGED <<table, call>>

(* The agent stores the status of a device it activated or made inactive.   *)
WriteStatus(i, s) ==
  /\ table[i].type = "device"
  /\ table' = [table EXCEPT ![i].status = s]
  /\ UNCHANGED <<progress, call>>

Next ==
  \/ \E i \in Ids, s \in Statuses : WriteStatus(i, s)
  \/ \E t \in Threads :
       \/ Begin(t) \/ ApplyCall(t) \/ RefuseCall(t)
       \/ \E status \in {0, 1} : Return(t, status)

Spec == Init /\ [][Next]_vars
==============================================================================
