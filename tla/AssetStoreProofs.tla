-------------------------- MODULE AssetStoreProofs ---------------------------
(***************************************************************************)
(* The calls that store and delete assets, for any number of threads,      *)
(* calls, assets and failures: AssetStore implements AssetTable, and the   *)
(* invariants of AssetStore.                                               *)
(*                                                                         *)
(* The refinement rests on what the locks are for.  A transaction locks    *)
(* the row of its asset when it first writes it, and every row it names    *)
(* when it names it (LockInv); so, until it commits, its copy of the row   *)
(* is the one statement after statement has made of it, the rows it names  *)
(* stay stored, and nobody begins to name a row that is to be dropped      *)
(* (WorkInv).  Ids are given out once (RowInv, InsertInv).                 *)
(*                                                                         *)
(* NamesInv and LicInv strengthen the two invariants that are about more   *)
(* than one call: who gives a name alone, and who still owes a licence.    *)
(***************************************************************************)
EXTENDS AssetStore, TLAPS

FirstStored == Table!Stored(InitialDb)

Stages == {"idle", "check", "deactivate", "tx", "activate", "committed", "failed"}

Running(t) == stage[t] \in {"check", "deactivate", "tx"}

Step(t) ==
  \/ \E c \in Calls : Begin(t, c)
  \/ Check(t) \/ Deactivate(t)
  \/ Statement(t) \/ GiveUp(t) \/ Commit(t)
  \/ Activate(t) \/ Return(t)

------------------------------------------------------------------------------
(* Constants *)

LEMMA StoreConstants ==
  /\ Ids \subseteq Nat /\ RC0 \in Ids /\ None \notin Ids /\ None \notin Names
  /\ InitialDb \in [Ids -> Table!Asset] /\ Calls \subseteq Table!Call
  /\ MaxCalls \in Nat /\ MaxFailures \in Nat
  /\ FirstStored \subseteq Ids /\ Table!Vacant \in Table!Asset
<1>1. Table!Vacant \in Table!Asset
  BY DEF Table!Vacant, Table!Asset, Table!Statuses
<1> QED
  BY <1>1, AssetStoreAssumption
     DEF RC0, Table!AssetTableAssumption, FirstStored, Table!Stored

LEMMA CallersFacts ==
  /\ \A i \in Ids \ FirstStored : InitialDb[i] = Table!Vacant
  /\ \A i \in FirstStored, j \in Ids \ FirstStored : i < j
  /\ \A i \in FirstStored :
       /\ InitialDb[i].type # "device" => InitialDb[i].sources = {}
       /\ \A j \in FirstStored : InitialDb[i].name = InitialDb[j].name => i = j
  /\ Calls # {}
  /\ \A c \in Calls :
       /\ c.op # "insert" => c.id \in FirstStored /\ c.type = InitialDb[c.id].type
       /\ c.activate => c.type = "device" /\ c.op # "delete"
       /\ c.type # "device" => c.sources = {}
BY CallersAssumption DEF FirstStored

------------------------------------------------------------------------------
(* Scripts *)

LEMMA InsertScript ==
  ASSUME NEW c, c.op = "insert"
  PROVE  /\ Script(c)[1] = "element" /\ Script(c)[2] = "ext" /\ Script(c)[3] = "extRO"
         /\ Script(c)[4] = "groups"
         /\ c.type = "device" =>
              /\ Script(c)[5] = "links" /\ Script(c)[6] = "monitorType"
              /\ Script(c)[7] = "monitorDevice" /\ Script(c)[8] = "relation"
              /\ Len(Script(c)) = 8
         /\ c.type = "datacenter" =>
              /\ Script(c)[5] = "monitorDevice" /\ Script(c)[6] = "relation"
              /\ Len(Script(c)) = 6
         /\ c.type \notin {"device", "datacenter"} => Len(Script(c)) = 4
BY DEF Script, insert_device, insert_dc_room_row_rack_group

LEMMA UpdateScript ==
  ASSUME NEW c, c.op = "update"
  PROVE  /\ Script(c)[1] = "element" /\ Script(c)[2] = "dropExt" /\ Script(c)[3] = "ext"
         /\ Script(c)[4] = "extRO" /\ Script(c)[5] = "dropGroups" /\ Script(c)[6] = "groups"
         /\ c.type = "device" =>
              /\ Script(c)[7] = "dropLinks" /\ Script(c)[8] = "links" /\ Len(Script(c)) = 8
         /\ c.type # "device" => Len(Script(c)) = 6
BY DEF Script, update_device, update_dc_room_row_rack_group

LEMMA DeleteScript ==
  ASSUME NEW c, c.op = "delete", c.type \in Table!Types
  PROVE  /\ Len(Script(c)) \in 2..5
         /\ Script(c)[Len(Script(c))] = "dropElement"
         /\ \A n \in 1..Len(Script(c)) :
              Script(c)[n] \notin {"element", "ext", "groups", "links"}
BY DEF Script, delete_device, delete_group, delete_dc_room_row_rack, Table!Types

------------------------------------------------------------------------------
(* Types *)

(* Between two calls nothing is locked and the next script starts anew. *)
TypeInv ==
  /\ TypeOK
  /\ \A t \in Threads : stage[t] # "tx" => at[t] = 1
  /\ \A t \in Threads : stage[t] # "idle" => call[t].id \in Ids

LEMMA SameRow ==
  ASSUME NEW q \in Table!Asset, NEW r \in Table!Asset,
         q.type = r.type, q.status = r.status, q.parent = r.parent, q.name = r.name,
         q.groups = r.groups, q.sources = r.sources, q.monitored = r.monitored
  PROVE  q = r
BY DEF Table!Asset

LEMMA EffectType ==
  ASSUME NEW s, NEW r \in Table!Asset, NEW c \in Table!Call
  PROVE  Effect(s, r, c) \in Table!Asset
<1>1. /\ c.type \in Table!Types /\ c.status \in Table!Statuses /\ c.parent \in Ids \cup {None}
      /\ c.name \in Names /\ c.groups \in SUBSET Ids /\ c.sources \in SUBSET Ids
  BY DEF Table!Call
<1>2. CASE s = "element"
  BY <1>1, <1>2 DEF Effect, Table!Asset
<1>3. CASE s \in {"dropExt", "ext", "dropGroups", "groups"}
  BY <1>1, <1>3 DEF Effect, Table!Asset
<1>4. CASE s \in {"dropLinks", "links", "relation", "dropRelation"}
  BY <1>1, <1>4 DEF Effect, Table!Asset
<1>5. CASE s = "dropElement"
  BY <1>5, StoreConstants DEF Effect
<1>6. CASE s \notin {"element", "dropExt", "ext", "dropGroups", "groups", "dropLinks", "links",
                     "relation", "dropRelation", "dropElement"}
  BY <1>6 DEF Effect
<1> QED
  BY <1>2, <1>3, <1>4, <1>5, <1>6

LEMMA LooksAtIds ==
  ASSUME NEW s, NEW c \in Table!Call
  PROVE  LooksAt(s, c) \subseteq Ids
BY DEF LooksAt, Table!Call

(* A step of one thread leaves the others where they are. *)
LEMMA Others ==
  ASSUME NEW t \in Threads, NEW u \in Threads \ {t}, Step(t), TypeOK
  PROVE  /\ stage'[u] = stage[u] /\ call'[u] = call[u] /\ at'[u] = at[u] /\ work'[u] = work[u]
         /\ locks'[u] = locks[u] /\ asset_json'[u] = asset_json[u]
<1> USE DEF TypeOK, Leave
<1>1. ASSUME NEW c \in Calls, Begin(t, c)
      PROVE  /\ stage'[u] = stage[u] /\ call'[u] = call[u] /\ at'[u] = at[u] /\ work'[u] = work[u]
             /\ locks'[u] = locks[u] /\ asset_json'[u] = asset_json[u]
  BY <1>1 DEF Begin, getJsonAsset
<1>2. CASE Check(t)
  BY <1>2 DEF Check
<1>3. CASE Statement(t)
  BY <1>3 DEF Statement
<1>4. CASE GiveUp(t)
  BY <1>4 DEF GiveUp, Rollback
<1>5. CASE Commit(t)
  BY <1>5 DEF Commit
<1>6. CASE Return(t)
  BY <1>6 DEF Return
<1>7. CASE Deactivate(t)
  BY <1>7 DEF Deactivate
<1>8. CASE Activate(t)
  BY <1>8 DEF Activate
<1> QED
  BY <1>1, <1>2, <1>3, <1>4, <1>5, <1>6, <1>7, <1>8 DEF Step

(* The step of a thread, in its own variables. *)
LEMMA BeginFacts ==
  ASSUME TypeInv, NEW t \in Threads, NEW c \in Calls, Begin(t, c)
  PROVE  /\ stage[t] = "idle" /\ stage'[t] = "check"
         /\ call'[t] = IF c.op = "insert" THEN [c EXCEPT !.id = nextId] ELSE c
         /\ call'[t] \in Table!Call /\ call'[t].id \in Ids
         /\ call'[t].op = c.op /\ call'[t].type = c.type /\ call'[t].name = c.name
         /\ call'[t].status = c.status /\ call'[t].sources = c.sources
         /\ call'[t].activate = c.activate
         /\ call'[t].id = IF c.op = "insert" THEN nextId ELSE c.id
         /\ at'[t] = at[t] /\ locks'[t] = locks[t] /\ work'[t] = work[t]
<1>1. c \in Table!Call /\ call \in [Threads -> Table!Call]
      /\ stage \in [Threads -> Stages]
  BY StoreConstants DEF TypeInv, TypeOK, Stages
<1>2. call'[t] = IF c.op = "insert" THEN [c EXCEPT !.id = nextId] ELSE c
  BY <1>1 DEF Begin
<1>3. CASE c.op = "insert"
  <2>1. nextId \in Ids /\ call'[t] = [c EXCEPT !.id = nextId]
    BY <1>2, <1>3 DEF Begin
  <2> QED
    BY <1>1, <1>3, <2>1 DEF Begin, Table!Call
<1>4. CASE c.op # "insert"
  <2>1. c.id \in Ids
    BY <1>4, CallersFacts, StoreConstants
  <2> QED
    BY <1>1, <1>2, <1>4, <2>1 DEF Begin
<1> QED
  BY <1>2, <1>3, <1>4

LEMMA StatementFacts ==
  ASSUME TypeInv, NEW t \in Threads, Statement(t)
  PROVE  LET c == call[t]
             s == Script(c)[at[t]]
             w == IF c.id \in locks[t].written THEN work[t] ELSE db[c.id]
         IN /\ stage[t] = "tx" /\ stage'[t] = "tx" /\ at[t] \in Nat /\ at'[t] = at[t] + 1
            /\ at[t] <= Len(Script(c)) /\ c \in Table!Call /\ c.id \in Ids /\ w \in Table!Asset
            /\ work'[t] = Effect(s, w, c) /\ work'[t] \in Table!Asset
            /\ locks'[t].written = IF Writes(s) THEN locks[t].written \cup {c.id}
                                   ELSE locks[t].written
            /\ locks'[t].seen = locks[t].seen \cup LooksAt(s, c)
            /\ locks'[t] \in [written : SUBSET Ids, seen : SUBSET Ids]
            /\ Free(t, s, c) /\ Allowed(s, work[t], c)
            /\ UNCHANGED <<db, call, stage, asset_json, nextId, licensed, calls, failures, lost,
                           raced>>
<1> DEFINE c == call[t]
           s == Script(c)[at[t]]
           w == IF c.id \in locks[t].written THEN work[t] ELSE db[c.id]
<1>1. /\ c \in Table!Call /\ c.id \in Ids /\ stage[t] = "tx" /\ db \in [Ids -> Table!Asset]
      /\ work \in [Threads -> Table!Asset] /\ at \in [Threads -> Nat]
      /\ locks \in [Threads -> [written : SUBSET Ids, seen : SUBSET Ids]]
  BY DEF TypeInv, TypeOK, Statement
<1>2. w \in Table!Asset
  BY <1>1
<1>3. work'[t] = Effect(s, w, c) /\ at'[t] = at[t] + 1
  BY <1>1 DEF Statement
<1>4. work'[t] \in Table!Asset
  BY <1>1, <1>2, <1>3, EffectType
<1>5. locks'[t] = [written |-> IF Writes(s) THEN locks[t].written \cup {c.id} ELSE locks[t].written,
                   seen |-> locks[t].seen \cup LooksAt(s, c)]
  BY <1>1 DEF Statement
<1>6. LooksAt(s, c) \subseteq Ids
  BY <1>1, LooksAtIds
<1>7. locks'[t] \in [written : SUBSET Ids, seen : SUBSET Ids]
  BY <1>1, <1>5, <1>6
<1>8. /\ at[t] <= Len(Script(c)) /\ Free(t, s, c) /\ Allowed(s, work[t], c)
      /\ UNCHANGED <<db, call, stage, asset_json, nextId, licensed, calls, failures, lost, raced>>
  BY DEF Statement
<1> QED
  BY <1>1, <1>2, <1>3, <1>4, <1>5, <1>7, <1>8

LEMMA LeaveFacts ==
  ASSUME TypeOK, NEW t \in Threads, NEW s, Leave(t, s)
  PROVE  stage'[t] = s /\ at'[t] = 1 /\ locks'[t] = NoLocks /\ work'[t] = Table!Vacant
BY DEF TypeOK, Leave

LEMMA CommitRows ==
  ASSUME TypeInv, NEW t \in Threads, Commit(t)
  PROVE  /\ call[t].id \in Ids /\ db' \in [Ids -> Table!Asset] /\ db'[call[t].id] = work[t]
         /\ \A i \in Ids \ {call[t].id} :
              /\ db'[i] = IF call[t].op = "delete" /\ call[t].type = "group"
                          THEN [db[i] EXCEPT !.groups = @ \ {call[t].id}] ELSE db[i]
              /\ db'[i].type = db[i].type /\ db'[i].name = db[i].name
              /\ db'[i].status = db[i].status /\ db'[i].parent = db[i].parent
              /\ db'[i].sources = db[i].sources /\ db'[i].monitored = db[i].monitored
              /\ db'[i].groups \subseteq db[i].groups
              /\ db[i] = Table!Vacant => db'[i] = Table!Vacant
<1> DEFINE c == call[t]
<1>1. /\ c.id \in Ids /\ db \in [Ids -> Table!Asset] /\ work[t] \in Table!Asset
  BY DEF TypeInv, TypeOK, Commit
<1>2. db' = [i \in Ids |->
              IF i = c.id THEN work[t]
              ELSE IF c.op = "delete" /\ c.type = "group" THEN [db[i] EXCEPT !.groups = @ \ {c.id}]
              ELSE db[i]]
  BY DEF Commit
<1>3. ASSUME NEW i \in Ids \ {c.id}
      PROVE  /\ db'[i] \in Table!Asset
             /\ db'[i] = IF c.op = "delete" /\ c.type = "group"
                         THEN [db[i] EXCEPT !.groups = @ \ {c.id}] ELSE db[i]
             /\ db'[i].type = db[i].type /\ db'[i].name = db[i].name
             /\ db'[i].status = db[i].status /\ db'[i].parent = db[i].parent
             /\ db'[i].sources = db[i].sources /\ db'[i].monitored = db[i].monitored
             /\ db'[i].groups \subseteq db[i].groups
             /\ db[i] = Table!Vacant => db'[i] = Table!Vacant
  <2> DEFINE r == db[i]
             fewer == [r EXCEPT !.groups = @ \ {c.id}]
  <2>1. r \in Table!Asset
    BY <1>1
  <2>2. db'[i] = IF c.op = "delete" /\ c.type = "group" THEN fewer ELSE r
    BY <1>2
  <2> HIDE DEF r
  <2>3. /\ fewer \in Table!Asset /\ fewer.type = r.type /\ fewer.name = r.name
        /\ fewer.status = r.status /\ fewer.parent = r.parent /\ fewer.sources = r.sources
        /\ fewer.monitored = r.monitored /\ fewer.groups = r.groups \ {c.id}
    BY <2>1 DEF Table!Asset
  <2>4. r = Table!Vacant => fewer = Table!Vacant
    <3>1. r = Table!Vacant => r.groups = {}
      BY DEF Table!Vacant
    <3>2. r = Table!Vacant => fewer.groups = r.groups
      BY <2>3, <3>1
    <3> HIDE DEF fewer
    <3>3. r = Table!Vacant => fewer = r
      BY <2>1, <2>3, <3>2, SameRow
    <3> QED
      BY <3>3
  <2>5. (db'[i] = fewer \/ db'[i] = r)
    BY <2>2
  <2>6. db'[i] = IF c.op = "delete" /\ c.type = "group"
                 THEN [db[i] EXCEPT !.groups = @ \ {c.id}] ELSE db[i]
    BY <1>2
  <2> HIDE DEF fewer
  <2>7. /\ db'[i] \in Table!Asset
        /\ db'[i].type = r.type /\ db'[i].name = r.name
        /\ db'[i].status = r.status /\ db'[i].parent = r.parent
        /\ db'[i].sources = r.sources /\ db'[i].monitored = r.monitored
        /\ db'[i].groups \subseteq r.groups
        /\ r = Table!Vacant => db'[i] = Table!Vacant
    BY <2>1, <2>3, <2>4, <2>5
  <2> QED
    BY <2>6, <2>7 DEF r
<1>4. db'[c.id] = work[t] /\ db' \in [Ids -> Table!Asset]
  BY <1>1, <1>2, <1>3
<1> QED
  BY <1>1, <1>3, <1>4

(* The agent writes nothing of a row but its status. *)
LEMMA WriteRows ==
  ASSUME TypeInv, NEW i \in Ids, Device(i), NEW s \in Table!Statuses,
         db' = [db EXCEPT ![i].status = s]
  PROVE  /\ db' \in [Ids -> Table!Asset] /\ Stored' = Stored /\ db'[i].status = s /\ i \in Stored
         /\ \A j \in Ids :
              /\ db'[j].type = db[j].type /\ db'[j].name = db[j].name
              /\ db'[j].parent = db[j].parent /\ db'[j].groups = db[j].groups
              /\ db'[j].sources = db[j].sources /\ db'[j].monitored = db[j].monitored
              /\ j # i => db'[j] = db[j]
<1> DEFINE r == db[i]
           q == [r EXCEPT !.status = s]
<1>1. db \in [Ids -> Table!Asset] /\ i \in Ids /\ r \in Table!Asset
  BY DEF TypeInv, TypeOK
<1>2. db' = [db EXCEPT ![i] = q]
  OBVIOUS
<1> HIDE DEF r
<1>3. /\ q \in Table!Asset /\ q.status = s /\ q.type = r.type /\ q.name = r.name
      /\ q.parent = r.parent /\ q.groups = r.groups /\ q.sources = r.sources
      /\ q.monitored = r.monitored
  BY <1>1 DEF Table!Asset
<1> HIDE DEF q
<1>4. db' \in [Ids -> Table!Asset] /\ db'[i] = q /\ \A j \in Ids \ {i} : db'[j] = db[j]
  BY <1>1, <1>2, <1>3
<1>5. \A j \in Ids :
        /\ db'[j].type = db[j].type /\ db'[j].name = db[j].name
        /\ db'[j].parent = db[j].parent /\ db'[j].groups = db[j].groups
        /\ db'[j].sources = db[j].sources /\ db'[j].monitored = db[j].monitored
  BY <1>3, <1>4 DEF r
<1>6. Stored' = Stored /\ i \in Stored
  BY <1>1, <1>5 DEF Stored, Table!Stored, Device
<1> QED
  BY <1>3, <1>4, <1>5, <1>6

(* What the agent does to the tables. *)
AgentWrites ==
  \E i \in Ids, s \in Table!Statuses :
    Device(i) /\ Unlocked(i) /\ db' = [db EXCEPT ![i].status = s]

LEMMA StepType == TypeInv /\ [Next]_vars => TypeInv'
<1> SUFFICES ASSUME TypeInv, [Next]_vars PROVE TypeInv'
  OBVIOUS
<1>0. TypeOK
  BY DEF TypeInv
<1>v. CASE UNCHANGED vars
  BY <1>v DEF TypeInv, TypeOK, vars, thread, lost
<1>t. ASSUME NEW t \in Threads, Step(t) PROVE TypeInv'
  <2>a. \A u \in Threads \ {t} :
          /\ stage'[u] = stage[u] /\ call'[u] = call[u] /\ at'[u] = at[u] /\ locks'[u] = locks[u]
    BY <1>0, <1>t, Others
  <2>b. ASSUME stage'[t] # "tx" => at'[t] = 1 /\ locks'[t] = NoLocks,
               stage'[t] # "idle" => call'[t].id \in Ids
        PROVE  /\ \A u \in Threads : stage'[u] # "tx" => at'[u] = 1 /\ locks'[u] = NoLocks
               /\ \A u \in Threads : stage'[u] # "idle" => call'[u].id \in Ids
    BY <2>a, <2>b DEF TypeInv, TypeOK
  <2>c. MayFail => failures' \in 0..MaxFailures
    BY <1>0, StoreConstants DEF MayFail, TypeOK
  <2>d. NoLocks \in [written : SUBSET Ids, seen : SUBSET Ids]
    BY DEF NoLocks
  <2>1. ASSUME NEW c \in Calls, Begin(t, c) PROVE TypeInv'
    <3>1. /\ stage[t] = "idle" /\ stage'[t] = "check" /\ call'[t] \in Table!Call
          /\ call'[t].id \in Ids /\ at'[t] = at[t] /\ locks'[t] = locks[t]
      BY <2>1, BeginFacts
    <3>2. at'[t] = 1 /\ locks'[t] = NoLocks
      BY <3>1 DEF TypeInv, TypeOK
    <3>3. call' \in [Threads -> Table!Call]
      BY <1>0, <2>1, <3>1 DEF Begin, TypeOK
    <3>4. nextId' \in Nat /\ calls' \in 0..MaxCalls
      BY <1>0, <2>1, StoreConstants DEF Begin, TypeOK
    <3>5. /\ asset_json' \in [Threads -> BOOLEAN] /\ failures' \in 0..MaxFailures
          /\ unread' \subseteq Ids
      <4>1. MustReturn(c) \in BOOLEAN /\ (MustReturn(c) => c.id \in Ids)
        BY CallersFacts, StoreConstants DEF MustReturn
      <4> QED
        BY <1>0, <2>1, <2>c, <4>1 DEF Begin, getJsonAsset, TypeOK
    <3>6. UNCHANGED <<db, at, work, locks, licensed, kept, crossed, raced>>
      BY <2>1 DEF Begin
    <3>7. stage' \in [Threads -> Stages]
      BY <1>0, <2>1 DEF Begin, TypeOK, Stages
    <3> QED
      BY <1>0, <2>b, <3>1, <3>2, <3>3, <3>4, <3>5, <3>6, <3>7 DEF TypeInv, TypeOK, Stages
  <2>2. CASE Check(t)
    <3>1. /\ stage[t] = "check" /\ call[t].id \in Ids /\ at[t] = 1 /\ locks[t] = NoLocks
          /\ UNCHANGED <<db, call, asset_json, nextId, licensed, calls, failures, lost>>
      BY <2>2 DEF Check, TypeInv, TypeOK
    <3>2. raced' \subseteq Names
      BY <1>0, <2>2 DEF Check, TypeOK
    <3>3. CASE Leave(t, "failed")
      <4>1. stage'[t] = "failed" /\ at'[t] = 1 /\ locks'[t] = NoLocks
        BY <1>0, <3>3, LeaveFacts
      <4> QED
        BY <1>0, <2>b, <2>d, <3>1, <3>2, <3>3, <4>1, StoreConstants
           DEF TypeInv, TypeOK, Leave, lost
    <3>4. CASE /\ stage' = [stage EXCEPT ![t] = IF MustDeactivate(call[t]) THEN "deactivate" ELSE "tx"]
               /\ work' = [work EXCEPT ![t] = db[call[t].id]]
               /\ UNCHANGED <<at, locks>>
      BY <1>0, <2>b, <3>1, <3>2, <3>4 DEF TypeInv, TypeOK, lost
    <3> QED
      BY <2>2, <3>3, <3>4 DEF Check
  <2>3. CASE Statement(t)
    <3>1. /\ stage'[t] = "tx" /\ at'[t] = at[t] + 1 /\ at[t] \in Nat /\ work'[t] \in Table!Asset
          /\ locks'[t] \in [written : SUBSET Ids, seen : SUBSET Ids] /\ call[t].id \in Ids
          /\ UNCHANGED <<db, call, stage, asset_json, nextId, licensed, calls, failures, lost, raced>>
      BY <2>3, StatementFacts
    <3>2. /\ at' \in [Threads -> Nat] /\ work' \in [Threads -> Table!Asset]
          /\ locks' \in [Threads -> [written : SUBSET Ids, seen : SUBSET Ids]]
      BY <1>0, <2>3, <3>1 DEF Statement, TypeOK
    <3> QED
      BY <1>0, <2>b, <3>1, <3>2 DEF TypeInv, TypeOK, lost
  <2>4. CASE GiveUp(t)
    <3>1. Leave(t, "failed") /\ failures' \in 0..MaxFailures /\ call[t].id \in Ids
      BY <1>0, <2>4, <2>c DEF GiveUp, Rollback, TypeInv, TypeOK
    <3>2. stage'[t] = "failed" /\ at'[t] = 1 /\ locks'[t] = NoLocks
      BY <1>0, <3>1, LeaveFacts
    <3>3. UNCHANGED <<db, call, asset_json, nextId, licensed, calls, lost, raced>>
      BY <2>4 DEF GiveUp, Rollback
    <3> QED
      BY <1>0, <2>b, <2>d, <3>1, <3>2, <3>3, StoreConstants DEF TypeInv, TypeOK, Leave, lost
  <2>5. CASE Commit(t)
    <3>1. PICK s \in {"activate", "committed"} : Leave(t, s)
      BY <2>5 DEF Commit
    <3>2. stage'[t] = s /\ at'[t] = 1 /\ locks'[t] = NoLocks
      BY <1>0, <3>1, LeaveFacts
    <3>3. /\ call[t].id \in Ids /\ db' \in [Ids -> Table!Asset] /\ crossed' \subseteq Ids
          /\ UNCHANGED <<call, asset_json, nextId, licensed, calls, failures, kept, unread, raced>>
      BY <1>0, <2>5, CommitRows DEF Commit, TypeOK
    <3> QED
      BY <1>0, <2>b, <2>d, <3>1, <3>2, <3>3, StoreConstants DEF TypeInv, TypeOK, Leave
  <2>6. CASE Return(t)
    <3>1. Leave(t, "idle") /\ UNCHANGED <<db, call, asset_json, nextId, calls, unread, crossed, raced>>
      BY <2>6 DEF Return
    <3>2. stage'[t] = "idle" /\ at'[t] = 1 /\ locks'[t] = NoLocks
      BY <1>0, <3>1, LeaveFacts
    <3>3. /\ licensed' \subseteq Ids /\ kept' \subseteq Ids /\ failures' \in 0..MaxFailures
      <4>1. CASE stage[t] = "committed" /\ GiveBack(t)
        <5>1. call[t].id \in Ids
          BY <4>1 DEF TypeInv
        <5> QED
          BY <1>0, <2>c, <4>1, <5>1 DEF GiveBack, TypeOK
      <4> QED
        BY <1>0, <2>6, <4>1 DEF Return, TypeOK
    <3> QED
      BY <1>0, <2>b, <2>d, <3>1, <3>2, <3>3, StoreConstants DEF TypeInv, TypeOK, Leave
  <2>e. ASSUME db' = db \/ AgentWrites PROVE db' \in [Ids -> Table!Asset]
    BY <1>0, <2>e, WriteRows DEF AgentWrites, TypeOK
  <2>7. CASE Deactivate(t)
    <3>1. /\ stage[t] = "deactivate" /\ call[t].id \in Ids /\ at[t] = 1 /\ locks[t] = NoLocks
          /\ licensed' \subseteq Ids /\ failures' \in 0..MaxFailures
          /\ UNCHANGED <<call, asset_json, nextId, calls, lost, raced>>
      BY <1>0, <2>7, <2>c DEF Deactivate, TypeInv, TypeOK
    <3>2. db' = db \/ AgentWrites
      BY <2>7, <3>1 DEF Deactivate, AgentWrites, Table!Statuses
    <3>3. db' \in [Ids -> Table!Asset]
      BY <2>e, <3>2
    <3>4. CASE Leave(t, "failed")
      <4>1. stage'[t] = "failed" /\ at'[t] = 1 /\ locks'[t] = NoLocks
        BY <1>0, <3>4, LeaveFacts
      <4> QED
        BY <1>0, <2>b, <2>d, <3>1, <3>3, <3>4, <4>1, StoreConstants
           DEF TypeInv, TypeOK, Leave, lost
    <3>5. CASE stage' = [stage EXCEPT ![t] = "tx"] /\ UNCHANGED <<at, work, locks>>
      BY <1>0, <2>b, <3>1, <3>3, <3>5 DEF TypeInv, TypeOK, lost
    <3> QED
      BY <2>7, <3>4, <3>5 DEF Deactivate
  <2>8. CASE Activate(t)
    <3>1. /\ stage[t] = "activate" /\ call[t].id \in Ids /\ at[t] = 1 /\ locks[t] = NoLocks
          /\ licensed' \subseteq Ids /\ crossed' \subseteq Ids
          /\ stage' = [stage EXCEPT ![t] = "committed"]
          /\ UNCHANGED <<call, at, work, locks, asset_json, nextId, calls, failures, kept, unread,
                         raced>>
      BY <1>0, <2>8 DEF Activate, TypeInv, TypeOK
    <3>2. db' = db \/ AgentWrites
      BY <2>8, <3>1 DEF Activate, AgentWrites, Table!Statuses
    <3>3. db' \in [Ids -> Table!Asset]
      BY <2>e, <3>2
    <3> QED
      BY <1>0, <2>b, <3>1, <3>3 DEF TypeInv, TypeOK
  <2> QED
    BY <1>t, <2>1, <2>2, <2>3, <2>4, <2>5, <2>6, <2>7, <2>8 DEF Step
<1> QED
  BY <1>v, <1>t DEF Next, Step

LEMMA InitFacts ==
  Init => /\ TypeInv
          /\ db = InitialDb /\ Stored = FirstStored
          /\ \A t \in Threads : stage[t] = "idle" /\ locks[t] = NoLocks /\ call[t] \in Calls
<1> SUFFICES ASSUME Init PROVE /\ TypeInv
                               /\ db = InitialDb /\ Stored = FirstStored
                               /\ \A t \in Threads : /\ stage[t] = "idle" /\ locks[t] = NoLocks
                                                     /\ call[t] \in Calls
  OBVIOUS
<1>1. db = InitialDb /\ Stored = FirstStored
  BY DEF Init, Stored, FirstStored
<1>2. (CHOOSE c \in Calls : TRUE) \in Calls
  BY CallersFacts
<1>3. call \in [Threads -> Table!Call] /\ \A t \in Threads : call[t] \in Calls
  BY <1>2, StoreConstants DEF Init
<1>4. NoLocks \in [written : SUBSET Ids, seen : SUBSET Ids]
  BY DEF NoLocks
<1>5. nextId \in Nat /\ licensed \subseteq Ids
  BY StoreConstants DEF Init, Stored, Table!Stored
<1>6. /\ stage = [t \in Threads |-> "idle"] /\ at = [t \in Threads |-> 1]
      /\ work = [t \in Threads |-> Table!Vacant] /\ locks = [t \in Threads |-> NoLocks]
      /\ asset_json = [t \in Threads |-> FALSE]
      /\ calls = 0 /\ failures = 0
      /\ kept = {} /\ unread = {} /\ crossed = {} /\ raced = {}
  BY DEF Init
<1>7. TypeOK
  BY <1>1, <1>3, <1>4, <1>5, <1>6, StoreConstants DEF TypeOK
<1> QED
  BY <1>1, <1>3, <1>6, <1>7 DEF TypeInv

LEMMA TypeInductive == Spec => []TypeInv
<1>1. Init => TypeInv
  BY InitFacts
<1> QED
  BY <1>1, StepType, PTL DEF Spec

------------------------------------------------------------------------------
(* The inductive invariant *)

References(c) == ({c.parent} \ {None}) \cup c.groups \cup c.sources

(* What the callers ask for. *)
CallInv ==
  \A t \in Threads :
    LET c == call[t] IN
    /\ c.op # "insert" => c.id \in FirstStored /\ c.type = InitialDb[c.id].type
    /\ c.op = "insert" /\ stage[t] # "idle" => c.id \notin FirstStored
    /\ c.activate => c.type = "device" /\ c.op # "delete"
    /\ c.type # "device" => c.sources = {}
    /\ stage[t] = "deactivate" => c.op = "update"
    /\ stage[t] = "activate" => c.activate

(* An id is in use from the first, or handed out, or never used yet. *)
RowInv ==
  /\ \A i \in FirstStored : i < nextId
  /\ \A i \in Ids : i >= nextId => db[i] = Table!Vacant
  /\ \A i \in Stored :
       /\ i \in FirstStored => db[i].type = InitialDb[i].type
       /\ db[i].type # "device" => db[i].sources = {}

(* The id of a new asset is one thread's, and vacant. *)
InsertInv ==
  \A t \in Threads : Running(t) /\ call[t].op = "insert" =>
    /\ call[t].id \in Ids \ FirstStored /\ call[t].id < nextId
    /\ db[call[t].id] = Table!Vacant
    /\ \A u \in Threads \ {t} : Running(u) => call[u].id # call[t].id

LockInv ==
  /\ \A t \in Threads : stage[t] = "tx" =>
       /\ locks[t].written \subseteq {call[t].id} /\ locks[t].seen \subseteq Stored
       /\ at[t] = 1 => locks[t] = NoLocks
       /\ at[t] \in 1..Len(Script(call[t])) + 1
  /\ \A t \in Threads : \A u \in Threads \ {t} :
       locks[t].written \cap (locks[u].written \cup locks[u].seen) = {}

(* The copy of the row, statement by statement. *)
Inserting(t) ==
  LET c == call[t]
      w == work[t]
      n == at[t]
      seen == locks[t].seen
  IN /\ c.id \in locks[t].written
     /\ w.type = c.type /\ w.status = c.status /\ w.parent = c.parent
     /\ {c.parent} \ {None} \subseteq seen
     /\ n > 2 => w.name = c.name
     /\ n <= 4 => w.groups = {}
     /\ n > 4 => w.groups = c.groups /\ c.groups \subseteq seen
     /\ (n <= 5 \/ c.type # "device") => w.sources = {}
     /\ (n > 5 /\ c.type = "device") => w.sources = c.sources /\ c.sources \subseteq seen
     /\ c.type \in {"room", "group"} => w.monitored = FALSE
     /\ c.type = "datacenter" /\ n > 6 => w.monitored = TRUE
     /\ c.type = "device" /\ n > 8 => w.monitored = TRUE

Updating(t) ==
  LET c == call[t]
      w == work[t]
      n == at[t]
      seen == locks[t].seen
  IN /\ c.id \in locks[t].written
     /\ w.type = db[c.id].type /\ w.monitored = db[c.id].monitored
     /\ w.status = c.status /\ w.parent = c.parent
     /\ {c.parent} \ {None} \subseteq seen
     /\ n > 3 => w.name = c.name /\ w.type # "vacant"
     /\ n = 6 => w.groups = {}
     /\ n > 6 => w.groups = c.groups /\ c.groups \subseteq seen
     /\ n <= 7 => w.sources = db[c.id].sources
     /\ n = 8 => w.sources = {}
     /\ n > 8 => w.sources = c.sources /\ c.sources \subseteq seen

Deleting(t) ==
  at[t] > Len(Script(call[t])) =>
    /\ call[t].id \in locks[t].written /\ work[t] = Table!Vacant
    /\ Table!Legal(db, call[t])

WorkInv ==
  \A t \in Threads : stage[t] = "tx" =>
    /\ call[t].op = "insert" /\ at[t] > 1 => Inserting(t)
    /\ call[t].op = "update" /\ at[t] > 1 => Updating(t)
    /\ call[t].op = "delete" => Deleting(t)

StoreInv == CallInv /\ RowInv /\ InsertInv /\ LockInv /\ WorkInv

------------------------------------------------------------------------------
(* A commit is one step of AssetTable. *)

LEMMA CommitApplies ==
  ASSUME TypeInv, StoreInv, NEW t \in Threads, Commit(t)
  PROVE  LET c == call[t]
             w == work[t]
         IN /\ c \in Table!Call /\ c.id \in Ids /\ c.id \in locks[t].written
            /\ c.op # "delete" =>
                 /\ References(c) \subseteq locks[t].seen
                 /\ w.type = c.type /\ w.name = c.name /\ w.status = c.status
                 /\ w.parent = c.parent /\ w.groups = c.groups /\ w.sources = c.sources
            /\ c.op = "delete" => w = Table!Vacant
            /\ Table!Legal(db, c) /\ db' = Table!Apply(db, c)
<1> DEFINE c == call[t]
           w == work[t]
<1>1. /\ c \in Table!Call /\ c.id \in Ids /\ w \in Table!Asset /\ stage[t] = "tx"
      /\ at[t] > Len(Script(c)) /\ db \in [Ids -> Table!Asset] /\ at[t] \in Nat
      /\ c.op \in {"insert", "update", "delete"} /\ c.type \in Table!Types
  BY DEF TypeInv, TypeOK, Commit, Table!Call
<1>2. locks[t].seen \subseteq Stored
  BY <1>1 DEF StoreInv, LockInv
<1>3. db' = [i \in Ids |->
              IF i = c.id THEN work[t]
              ELSE IF c.op = "delete" /\ c.type = "group" THEN [db[i] EXCEPT !.groups = @ \ {c.id}]
              ELSE db[i]]
  BY DEF Commit
<1>4. c.op # "delete" => db' = [db EXCEPT ![c.id] = w]
  BY <1>1, <1>3
<1>a. /\ c.type # "device" => c.sources = {}
      /\ c.op # "insert" => c.id \in FirstStored /\ c.type = InitialDb[c.id].type
  BY DEF StoreInv, CallInv
<1>b. \A i \in Stored : /\ i \in FirstStored => db[i].type = InitialDb[i].type
                        /\ db[i].type # "device" => db[i].sources = {}
  BY DEF StoreInv, RowInv
<1>5. CASE c.op = "insert"
  <2>1. at[t] > 4 /\ (c.type = "device" => at[t] > 8) /\ (c.type = "datacenter" => at[t] > 6)
    BY <1>1, <1>5, InsertScript
  <2>2. Inserting(t)
    BY <1>1, <1>5, <2>1 DEF StoreInv, WorkInv
  <2>3. /\ c.id \in locks[t].written /\ w.type = c.type /\ w.status = c.status
        /\ w.parent = c.parent /\ w.name = c.name /\ w.groups = c.groups
        /\ w.sources = c.sources /\ References(c) \subseteq locks[t].seen
    <3>1. /\ c.id \in locks[t].written /\ w.type = c.type /\ w.status = c.status
          /\ w.parent = c.parent /\ w.name = c.name /\ w.groups = c.groups
          /\ {c.parent} \ {None} \subseteq locks[t].seen /\ c.groups \subseteq locks[t].seen
      BY <1>1, <2>1, <2>2 DEF Inserting
    <3>2. w.sources = c.sources /\ c.sources \subseteq locks[t].seen
      <4>1. CASE c.type = "device"
        BY <1>1, <2>1, <2>2, <4>1 DEF Inserting
      <4>2. CASE c.type # "device"
        BY <1>a, <2>2, <4>2 DEF Inserting
      <4> QED
        BY <4>1, <4>2
    <3> QED
      BY <3>1, <3>2 DEF References
  <2>4. w.monitored = (c.type # "room" /\ c.type # "group")
    BY <1>1, <2>1, <2>2 DEF Inserting, Table!Types
  <2>5. w = Table!ToAsset(c)
    <3>1. Table!ToAsset(c) \in Table!Asset
      BY <1>1 DEF Table!ToAsset, Table!Asset, Table!Call
    <3>2. /\ Table!ToAsset(c).type = c.type /\ Table!ToAsset(c).status = c.status
          /\ Table!ToAsset(c).parent = c.parent /\ Table!ToAsset(c).name = c.name
          /\ Table!ToAsset(c).groups = c.groups /\ Table!ToAsset(c).sources = c.sources
          /\ Table!ToAsset(c).monitored = (c.type # "room" /\ c.type # "group")
      BY DEF Table!ToAsset
    <3> QED
      BY <1>1, <2>3, <2>4, <3>1, <3>2, SameRow
  <2>6. db' = Table!Apply(db, c)
    BY <1>4, <1>5, <2>5 DEF Table!Apply
  <2>7. db[c.id] = Table!Vacant
    BY <1>1, <1>5 DEF StoreInv, InsertInv, Running
  <2>8. Table!Legal(db, c)
    BY <1>2, <1>5, <2>3, <2>7 DEF Table!Legal, Table!Named, References, Stored
  <2> QED
    BY <1>1, <1>5, <2>3, <2>6, <2>8
<1>6. CASE c.op = "update"
  <2>1. at[t] > 6 /\ (c.type = "device" => at[t] > 8) /\ (c.type # "device" => at[t] = 7)
    <3>1. at[t] \in 1..Len(Script(c)) + 1
      BY <1>1 DEF StoreInv, LockInv
    <3>2. CASE c.type = "device"
      <4>1. Len(Script(c)) = 8
        BY <1>6, <3>2, UpdateScript
      <4> QED
        BY <1>1, <3>1, <3>2, <4>1
    <3>3. CASE c.type # "device"
      <4>1. Len(Script(c)) = 6
        BY <1>6, <3>3, UpdateScript
      <4> QED
        BY <1>1, <3>1, <3>3, <4>1
    <3> QED
      BY <3>2, <3>3
  <2>2. Updating(t)
    BY <1>1, <1>6, <2>1 DEF StoreInv, WorkInv
  <2>3. /\ c.id \in locks[t].written /\ w.status = c.status /\ w.type = db[c.id].type
        /\ w.parent = c.parent /\ w.name = c.name /\ w.groups = c.groups /\ w.type # "vacant"
        /\ w.monitored = db[c.id].monitored /\ {c.parent} \ {None} \subseteq locks[t].seen
        /\ c.groups \subseteq locks[t].seen
    BY <1>1, <2>1, <2>2 DEF Updating
  <2>4. c.id \in Stored
    BY <1>1, <2>3 DEF Stored, Table!Stored
  <2>5. w.type = c.type
    BY <1>6, <1>a, <1>b, <2>3, <2>4
  <2>6. w.sources = c.sources /\ c.sources \subseteq locks[t].seen
    <3>1. CASE c.type = "device"
      BY <1>1, <2>1, <2>2, <3>1 DEF Updating
    <3>2. CASE c.type # "device"
      <4>1. w.sources = db[c.id].sources
        BY <2>1, <2>2, <3>2 DEF Updating
      <4>2. db[c.id].sources = {} /\ c.sources = {}
        BY <1>a, <1>b, <2>3, <2>4, <2>5, <3>2
      <4> QED
        BY <4>1, <4>2
    <3> QED
      BY <3>1, <3>2
  <2>7. References(c) \subseteq locks[t].seen
    BY <2>3, <2>6 DEF References
  <2>8. w = [Table!ToAsset(c) EXCEPT !.monitored = db[c.id].monitored]
    <3> DEFINE q == [Table!ToAsset(c) EXCEPT !.monitored = db[c.id].monitored]
    <3>0. db[c.id].monitored \in BOOLEAN
      BY <1>1 DEF Table!Asset
    <3>1. q \in Table!Asset
      BY <1>1, <3>0 DEF Table!ToAsset, Table!Asset, Table!Call
    <3>2. /\ q.type = c.type /\ q.status = c.status /\ q.parent = c.parent /\ q.name = c.name
          /\ q.groups = c.groups /\ q.sources = c.sources /\ q.monitored = db[c.id].monitored
      BY DEF Table!ToAsset
    <3> HIDE DEF q
    <3>3. w = q
      BY <1>1, <2>3, <2>5, <2>6, <3>1, <3>2, SameRow
    <3> QED
      BY <3>3 DEF q
  <2>9. db' = Table!Apply(db, c)
    BY <1>4, <1>6, <2>8 DEF Table!Apply
  <2>10. Table!Legal(db, c)
    BY <1>2, <1>6, <2>4, <2>7 DEF Table!Legal, Table!Named, References, Stored
  <2> QED
    BY <1>1, <1>6, <2>3, <2>5, <2>6, <2>7, <2>9, <2>10
<1>7. CASE c.op = "delete"
  <2>1. Deleting(t)
    BY <1>1, <1>7 DEF StoreInv, WorkInv
  <2>2. c.id \in locks[t].written /\ w = Table!Vacant /\ Table!Legal(db, c)
    BY <1>1, <2>1 DEF Deleting
  <2>3. db' = Table!Apply(db, c)
    BY <1>3, <1>7, <2>2 DEF Table!Apply
  <2> QED
    BY <1>1, <1>7, <2>2, <2>3
<1> QED
  BY <1>1, <1>5, <1>6, <1>7

------------------------------------------------------------------------------
(* The invariant is inductive *)

LEMMA ScriptLength ==
  ASSUME NEW c \in Table!Call
  PROVE  Len(Script(c)) \in Nat /\ (c.op = "delete" => Len(Script(c)) > 1)
<1>1. c.type \in Table!Types /\ c.op \in {"insert", "update", "delete"}
  BY DEF Table!Call
<1>2. CASE c.op = "delete"
  <2>1. Len(Script(c)) \in 2..5
    BY <1>1, <1>2, DeleteScript
  <2> QED
    BY <2>1
<1>3. CASE c.op = "insert"
  <2>1. Len(Script(c)) \in {4, 6, 8}
    BY <1>1, <1>3, InsertScript DEF Table!Types
  <2> QED
    BY <1>3, <2>1
<1>4. CASE c.op = "update"
  <2>1. Len(Script(c)) \in {6, 8}
    BY <1>1, <1>4, UpdateScript DEF Table!Types
  <2> QED
    BY <1>4, <2>1
<1> QED
  BY <1>1, <1>2, <1>3, <1>4

(* What the invariant says of a transaction, kept by the steps of others. *)
LEMMA OthersWork ==
  ASSUME TypeInv, WorkInv, NEW t \in Threads, Step(t), NEW u \in Threads \ {t}, stage[u] = "tx",
         call[u].op = "update" /\ call[u].id \in locks[u].written =>
           /\ db'[call[u].id].type = db[call[u].id].type
           /\ db'[call[u].id].sources = db[call[u].id].sources
           /\ db'[call[u].id].monitored = db[call[u].id].monitored,
         call[u].op = "delete" /\ call[u].id \in locks[u].written =>
           (Table!Legal(db, call[u]) => Table!Legal(db', call[u]))
  PROVE  /\ call'[u].op = "insert" /\ at'[u] > 1 => Inserting(u)'
         /\ call'[u].op = "update" /\ at'[u] > 1 => Updating(u)'
         /\ call'[u].op = "delete" => Deleting(u)'
<1>1. /\ call'[u] = call[u] /\ at'[u] = at[u] /\ work'[u] = work[u] /\ locks'[u] = locks[u]
  BY Others DEF TypeInv
<1>2. Inserting(u) => Inserting(u)'
  BY <1>1 DEF Inserting
<1>3. call[u].op = "update" /\ Updating(u) => Updating(u)'
  BY <1>1 DEF Updating
<1>4. call[u].op = "delete" /\ Deleting(u) => Deleting(u)'
  BY <1>1 DEF Deleting
<1> QED
  BY <1>1, <1>2, <1>3, <1>4 DEF WorkInv

LEMMA BeginStore ==
  ASSUME TypeInv, StoreInv, NEW t \in Threads, NEW c \in Calls, Begin(t, c)
  PROVE  StoreInv'
<1>s. Step(t)
  BY DEF Step
<1>1. \A u \in Threads \ {t} :
        stage'[u] = stage[u] /\ call'[u] = call[u] /\ at'[u] = at[u] /\ locks'[u] = locks[u]
  BY <1>s, Others DEF TypeInv
<1>2. /\ stage[t] = "idle" /\ stage'[t] = "check" /\ call'[t].op = c.op /\ call'[t].type = c.type
      /\ call'[t].name = c.name /\ call'[t].sources = c.sources
      /\ call'[t].activate = c.activate
      /\ call'[t].id = (IF c.op = "insert" THEN nextId ELSE c.id)
  BY BeginFacts
<1>3. /\ db' = db /\ locks' = locks /\ Stored' = Stored /\ nextId \in Nat
      /\ nextId' = (IF c.op = "insert" THEN nextId + 1 ELSE nextId)
      /\ c.op = "insert" => nextId \in Ids
  BY DEF Begin, Stored, TypeInv, TypeOK
<1>4. CallInv'
  <2>1. nextId \notin FirstStored
    BY <1>3, StoreConstants DEF StoreInv, RowInv
  <2> QED
    BY <1>1, <1>2, <2>1, CallersFacts DEF StoreInv, CallInv
<1>5. RowInv'
  <2>1. \A i \in Ids : /\ i < nextId => i < nextId'
                       /\ i >= nextId' => i >= nextId
    BY <1>3, StoreConstants
  <2>2. \A i \in FirstStored : i < nextId'
    BY <2>1, StoreConstants DEF StoreInv, RowInv
  <2>3. \A i \in Ids : i >= nextId' => db'[i] = Table!Vacant
    BY <1>3, <2>1 DEF StoreInv, RowInv
  <2> QED
    BY <1>3, <2>2, <2>3 DEF StoreInv, RowInv
<1>6. \A u \in Threads \ {t} : Running(u) => call[u].id < nextId
  <2>1. \A u \in Threads : Running(u) /\ call[u].op = "insert" => call[u].id < nextId
    BY DEF StoreInv, InsertInv
  <2>2. \A u \in Threads : call[u].op # "insert" => call[u].id < nextId
    BY DEF StoreInv, CallInv, RowInv
  <2> QED
    BY <2>1, <2>2
<1>7. InsertInv'
  <2> SUFFICES ASSUME NEW v \in Threads, Running(v)', call'[v].op = "insert"
               PROVE  /\ call'[v].id \in Ids \ FirstStored /\ call'[v].id < nextId'
                      /\ db'[call'[v].id] = Table!Vacant
                      /\ \A u \in Threads \ {v} : Running(u)' => call'[u].id # call'[v].id
    BY DEF InsertInv
  <2>1. CASE v = t
    <3>1. call'[v].id = nextId /\ nextId \in Ids /\ nextId' = nextId + 1
      BY <1>2, <1>3, <2>1
    <3>2. nextId \notin FirstStored /\ db[nextId] = Table!Vacant
      BY <1>3, <3>1 DEF StoreInv, RowInv
    <3>3. \A u \in Threads \ {v} : Running(u)' => call'[u].id < nextId
      BY <1>1, <1>6, <2>1 DEF Running
    <3>4. \A u \in Threads \ {v} : Running(u)' => call'[u].id # call'[v].id
      BY <1>3, <3>1, <3>3
    <3> QED
      BY <1>3, <3>1, <3>2, <3>4
  <2>2. CASE v # t
    <3>1. /\ call'[v] = call[v] /\ Running(v) /\ call[v].id \in Ids \ FirstStored
          /\ call[v].id < nextId /\ db[call[v].id] = Table!Vacant
          /\ \A u \in Threads \ {v} : Running(u) => call[u].id # call[v].id
      BY <1>1, <2>2 DEF StoreInv, InsertInv, Running
    <3>2. call[v].id < nextId' /\ call[v].id # nextId
      <4>1. \A i \in Nat : i < nextId => i < nextId + 1 /\ i # nextId
        BY <1>3
      <4> QED
        BY <1>3, <3>1, <4>1, StoreConstants
    <3>3. call'[t].id # call[v].id
      BY <1>2, <3>1, <3>2, CallersFacts
    <3>4. \A u \in Threads \ {v} : Running(u)' => call'[u].id # call[v].id
      BY <1>1, <3>1, <3>3 DEF Running
    <3> QED
      BY <1>3, <3>1, <3>2, <3>4
  <2> QED
    BY <2>1, <2>2
<1>8. LockInv'
  BY <1>1, <1>2, <1>3 DEF StoreInv, LockInv
<1>9. WorkInv'
  <2> SUFFICES ASSUME NEW u \in Threads, stage'[u] = "tx"
               PROVE  /\ call'[u].op = "insert" /\ at'[u] > 1 => Inserting(u)'
                      /\ call'[u].op = "update" /\ at'[u] > 1 => Updating(u)'
                      /\ call'[u].op = "delete" => Deleting(u)'
    BY DEF WorkInv
  <2>1. u \in Threads \ {t} /\ stage[u] = "tx"
    BY <1>1, <1>2
  <2> QED
    BY <1>s, <1>3, <2>1, OthersWork DEF StoreInv
<1> QED
  BY <1>4, <1>5, <1>7, <1>8, <1>9 DEF StoreInv

(* A step before or after a transaction, with the agent writing a status. *)
LEMMA AroundStore ==
  ASSUME TypeInv, StoreInv, NEW t \in Threads, Step(t), stage[t] # "tx", stage[t] # "idle",
         call' = call, nextId' = nextId, at' = at, locks' = locks, stage'[t] # "activate",
         stage'[t] = "deactivate" => call[t].op = "update",
         Running(t)' => Running(t), db' = db \/ AgentWrites
  PROVE  StoreInv'
<1>1. /\ \A u \in Threads \ {t} : stage'[u] = stage[u]
      /\ at[t] = 1 /\ locks[t] = NoLocks /\ call[t] \in Table!Call
  BY Others DEF TypeInv, TypeOK
<1>2. /\ Stored' = Stored
      /\ \A j \in Ids :
           /\ db'[j].type = db[j].type /\ db'[j].name = db[j].name
           /\ db'[j].parent = db[j].parent /\ db'[j].groups = db[j].groups
           /\ db'[j].sources = db[j].sources /\ db'[j].monitored = db[j].monitored
      /\ \A j \in Ids \ Stored : db'[j] = db[j]
  <2>1. CASE db' = db
    BY <2>1 DEF Stored
  <2>2. CASE AgentWrites
    <3>1. PICK i \in Ids, s \in Table!Statuses :
              Device(i) /\ db' = [db EXCEPT ![i].status = s]
      BY <2>2 DEF AgentWrites
    <3> QED
      BY <3>1, WriteRows
  <2> QED
    BY <2>1, <2>2
<1>3. Stored \subseteq Ids /\ \A j \in Ids : db[j] = Table!Vacant => j \notin Stored
  BY DEF Stored, Table!Stored, Table!Vacant
<1>4. CallInv'
  BY <1>1 DEF StoreInv, CallInv
<1>5. RowInv'
  <2>1. \A j \in Ids : j >= nextId => db'[j] = Table!Vacant
    BY <1>2, <1>3 DEF StoreInv, RowInv
  <2> QED
    BY <1>2, <1>3, <2>1 DEF StoreInv, RowInv
<1>6. InsertInv'
  <2>1. \A u \in Threads : Running(u)' => Running(u)
    BY <1>1 DEF Running
  <2>2. \A j \in Ids : db[j] = Table!Vacant => db'[j] = Table!Vacant
    BY <1>2, <1>3
  <2> QED
    BY <2>1, <2>2 DEF StoreInv, InsertInv
<1>7. LockInv'
  <2>1. Len(Script(call[t])) \in Nat
    BY <1>1, ScriptLength
  <2>2. 1 \in 1..Len(Script(call[t])) + 1
    BY <2>1
  <2> QED
    BY <1>1, <1>2, <2>2 DEF StoreInv, LockInv, NoLocks
<1>8. WorkInv'
  <2> SUFFICES ASSUME NEW u \in Threads, stage'[u] = "tx"
               PROVE  /\ call'[u].op = "insert" /\ at'[u] > 1 => Inserting(u)'
                      /\ call'[u].op = "update" /\ at'[u] > 1 => Updating(u)'
                      /\ call'[u].op = "delete" => Deleting(u)'
    BY DEF WorkInv
  <2>1. CASE u = t
    <3>1. call[t].op = "delete" => Len(Script(call[t])) \in Nat /\ Len(Script(call[t])) > 1
      BY <1>1, ScriptLength
    <3>2. at'[u] = 1 /\ call'[u] = call[t]
      BY <1>1, <2>1
    <3>3. call'[u].op = "delete" => Deleting(u)'
      BY <3>1, <3>2 DEF Deleting
    <3> QED
      BY <3>2, <3>3
  <2>2. CASE u # t
    <3>1. \/ stage[u] = "tx" /\ call[u].id \in Ids /\ call[u].op # "insert"
          \/ call[u].op = "insert"
      BY <1>1, <2>2 DEF TypeInv
    <3>2. \A i : Table!Dependants(db', i) = Table!Dependants(db, i)
      BY <1>2 DEF Table!Dependants, Table!Stored
    <3>3. call[u].op = "delete" => (Table!Legal(db, call[u]) => Table!Legal(db', call[u]))
      <4>1. \A i : Table!Dependants(db, i) \subseteq Ids
        BY DEF Table!Dependants, Table!Stored
      <4> QED
        BY <1>2, <3>2, <4>1 DEF Table!Legal
    <3> QED
      BY <1>1, <1>2, <2>2, <3>1, <3>3, OthersWork DEF StoreInv, TypeInv
  <2> QED
    BY <2>1, <2>2
<1> QED
  BY <1>4, <1>5, <1>6, <1>7, <1>8 DEF StoreInv

(* A thread that has left its transaction, with the tables as they were. *)
LEMMA LeaveStore ==
  ASSUME TypeInv, StoreInv, NEW t \in Threads, NEW s \in {"idle", "failed"},
         Step(t), Leave(t, s), stage[t] # "idle", db' = db, call' = call, nextId' = nextId
  PROVE  StoreInv'
<1>1. \A u \in Threads \ {t} :
        stage'[u] = stage[u] /\ at'[u] = at[u] /\ locks'[u] = locks[u]
  BY Others DEF TypeInv
<1>2. stage'[t] = s /\ locks'[t] = NoLocks /\ Stored' = Stored
  BY LeaveFacts DEF TypeInv, Stored
<1>3. CallInv' /\ RowInv'
  BY <1>1, <1>2 DEF StoreInv, CallInv, RowInv
<1>4. InsertInv'
  <2>1. \A u \in Threads : Running(u)' => Running(u)
    BY <1>1, <1>2 DEF Running
  <2> QED
    BY <1>2, <2>1 DEF StoreInv, InsertInv
<1>5. LockInv'
  BY <1>1, <1>2 DEF StoreInv, LockInv, NoLocks
<1>6. WorkInv'
  <2> SUFFICES ASSUME NEW u \in Threads, stage'[u] = "tx"
               PROVE  /\ call'[u].op = "insert" /\ at'[u] > 1 => Inserting(u)'
                      /\ call'[u].op = "update" /\ at'[u] > 1 => Updating(u)'
                      /\ call'[u].op = "delete" => Deleting(u)'
    BY DEF WorkInv
  <2>1. u \in Threads \ {t} /\ stage[u] = "tx"
    BY <1>1, <1>2
  <2> QED
    BY <2>1, OthersWork DEF StoreInv
<1> QED
  BY <1>3, <1>4, <1>5, <1>6 DEF StoreInv

(* Its statements make of the row of an asset what is asked for. *)
Columns(q, s, r, c) ==
  /\ q.type = (IF s = "element" /\ c.op = "insert" THEN c.type ELSE r.type)
  /\ q.status = (IF s = "element" THEN c.status ELSE r.status)
  /\ q.parent = (IF s = "element" THEN c.parent ELSE r.parent)
  /\ q.name = (IF s = "dropExt" THEN None ELSE IF s = "ext" THEN c.name ELSE r.name)
  /\ q.groups = (IF s = "dropGroups" THEN {}
                 ELSE IF s = "groups" THEN r.groups \cup c.groups ELSE r.groups)
  /\ q.sources = (IF s = "dropLinks" THEN {}
                  ELSE IF s = "links" THEN r.sources \cup c.sources ELSE r.sources)
  /\ q.monitored = (IF s = "relation" THEN TRUE
                    ELSE IF s = "dropRelation" THEN FALSE ELSE r.monitored)

LEMMA EffectColumns ==
  ASSUME NEW s, s # "dropElement", NEW r \in Table!Asset, NEW c \in Table!Call
  PROVE  Columns(Effect(s, r, c), s, r, c)
<1> USE DEF Columns
<1>1. CASE s = "element"
  BY <1>1 DEF Effect, Table!Asset
<1>2. CASE s = "dropExt"
  BY <1>2 DEF Effect, Table!Asset
<1>3. CASE s = "ext"
  BY <1>3 DEF Effect, Table!Asset
<1>4. CASE s = "dropGroups"
  BY <1>4 DEF Effect, Table!Asset
<1>5. CASE s = "groups"
  BY <1>5 DEF Effect, Table!Asset
<1>6. CASE s = "dropLinks"
  BY <1>6 DEF Effect, Table!Asset
<1>7. CASE s = "links"
  BY <1>7 DEF Effect, Table!Asset
<1>8. CASE s = "relation"
  BY <1>8 DEF Effect, Table!Asset
<1>9. CASE s = "dropRelation"
  BY <1>9 DEF Effect, Table!Asset
<1>10. CASE s \notin {"element", "dropExt", "ext", "dropGroups", "groups", "dropLinks", "links",
                      "relation", "dropRelation"}
  BY <1>10 DEF Effect
<1> QED
  BY <1>1, <1>2, <1>3, <1>4, <1>5, <1>6, <1>7, <1>8, <1>9, <1>10

LEMMA InsertStep ==
  ASSUME TypeInv, StoreInv, NEW t \in Threads, Statement(t), call[t].op = "insert"
  PROVE  Inserting(t)'
<1> DEFINE c == call[t]
           n == at[t]
           s == Script(c)[n]
           w == IF c.id \in locks[t].written THEN work[t] ELSE db[c.id]
           q == Effect(s, w, c)
<1>1. /\ stage[t] = "tx" /\ n \in Nat /\ at'[t] = n + 1 /\ n <= Len(Script(c))
      /\ c \in Table!Call /\ w \in Table!Asset /\ work'[t] = q
      /\ locks'[t].seen = locks[t].seen \cup LooksAt(s, c) /\ call' = call
      /\ locks'[t].written = (IF Writes(s) THEN locks[t].written \cup {c.id} ELSE locks[t].written)
  BY StatementFacts
<1>2. n > 0 /\ c.type \in Table!Types /\ (c.type # "device" => c.sources = {})
  BY <1>1 DEF StoreInv, LockInv, CallInv, Table!Call
<1>3. n = 1 => w = Table!Vacant
  BY <1>1 DEF StoreInv, LockInv, InsertInv, Running, NoLocks
<1>4. n > 1 => Inserting(t) /\ w = work[t]
  BY <1>1, <1>2 DEF StoreInv, WorkInv, Inserting
<1>5. c.op = "insert"
  OBVIOUS
<1>6. /\ n = 1 => s = "element"
      /\ n = 2 => s = "ext"
      /\ n = 3 => s = "extRO"
      /\ n = 4 => s = "groups"
      /\ c.type = "device" =>
           /\ n = 5 => s = "links"
           /\ n = 6 => s = "monitorType"
           /\ n = 7 => s = "monitorDevice"
           /\ n = 8 => s = "relation"
           /\ n <= 8
      /\ c.type = "datacenter" =>
           /\ n = 5 => s = "monitorDevice"
           /\ n = 6 => s = "relation"
           /\ n <= 6
      /\ c.type \notin {"device", "datacenter"} => n <= 4
  <2> HIDE DEF c
  <2>1. /\ Script(c)[1] = "element" /\ Script(c)[2] = "ext" /\ Script(c)[3] = "extRO"
        /\ Script(c)[4] = "groups"
        /\ c.type = "device" =>
             /\ Script(c)[5] = "links" /\ Script(c)[6] = "monitorType"
             /\ Script(c)[7] = "monitorDevice" /\ Script(c)[8] = "relation"
             /\ Len(Script(c)) = 8
        /\ c.type = "datacenter" =>
             /\ Script(c)[5] = "monitorDevice" /\ Script(c)[6] = "relation"
             /\ Len(Script(c)) = 6
        /\ c.type \notin {"device", "datacenter"} => Len(Script(c)) = 4
    BY <1>5, InsertScript
  <2> HIDE DEF n
  <2> QED
    BY <1>1, <2>1
<1>7. s # "dropElement"
  BY <1>1, <1>2, <1>6
<1>8. Columns(q, s, w, c)
  <2> HIDE DEF c, s, w
  <2> QED
    BY <1>1, <1>7, EffectColumns
<1>9. Table!Vacant.groups = {} /\ Table!Vacant.sources = {} /\ Table!Vacant.monitored = FALSE
  BY DEF Table!Vacant
<1> HIDE DEF w, c, n, s, q
<1>10. /\ c.id \in locks'[t].written
       /\ q.type = c.type /\ q.status = c.status /\ q.parent = c.parent
       /\ {c.parent} \ {None} \subseteq locks'[t].seen
  <2>1. CASE n = 1
    BY <1>1, <1>5, <1>6, <1>8, <2>1 DEF Columns, LooksAt, Writes
  <2>2. CASE n # 1
    BY <1>1, <1>2, <1>4, <1>6, <1>8, <2>2 DEF Columns, Inserting, c, n
  <2> QED
    BY <2>1, <2>2
<1>11. n > 1 => q.name = c.name
  BY <1>1, <1>2, <1>4, <1>6, <1>8 DEF Columns, Inserting, c, n
<1>12. /\ n <= 3 => q.groups = {}
       /\ n > 3 => q.groups = c.groups /\ c.groups \subseteq locks'[t].seen
  <2>1. CASE n = 1
    BY <1>1, <1>3, <1>6, <1>8, <1>9, <2>1 DEF Columns
  <2>2. CASE n \in 2..3
    BY <1>1, <1>4, <1>6, <1>8, <2>2 DEF Columns, Inserting, c, n
  <2>3. CASE n = 4
    BY <1>1, <1>4, <1>6, <1>8, <2>3 DEF Columns, Inserting, LooksAt, c, n
  <2>4. CASE n > 4
    BY <1>1, <1>2, <1>4, <1>6, <1>8, <2>4 DEF Columns, Inserting, c, n
  <2> QED
    BY <1>1, <1>2, <2>1, <2>2, <2>3, <2>4
<1>13. /\ n <= 4 \/ c.type # "device" => q.sources = {}
       /\ n > 4 /\ c.type = "device" => q.sources = c.sources /\ c.sources \subseteq locks'[t].seen
  <2>1. CASE n = 1
    BY <1>1, <1>3, <1>6, <1>8, <1>9, <2>1 DEF Columns
  <2>2. CASE n \in 2..4
    BY <1>1, <1>4, <1>6, <1>8, <2>2 DEF Columns, Inserting, c, n
  <2>3. CASE n > 4 /\ c.type # "device"
    BY <1>1, <1>2, <1>4, <1>6, <1>8, <2>3 DEF Columns, Inserting, c, n
  <2>4. CASE n = 5 /\ c.type = "device"
    BY <1>1, <1>4, <1>6, <1>8, <2>4 DEF Columns, Inserting, LooksAt, c, n
  <2>5. CASE n > 5 /\ c.type = "device"
    BY <1>1, <1>2, <1>4, <1>6, <1>8, <2>5 DEF Columns, Inserting, c, n
  <2> QED
    BY <1>1, <1>2, <2>1, <2>2, <2>3, <2>4, <2>5
<1>14. /\ c.type \in {"room", "group"} => q.monitored = FALSE
       /\ c.type = "datacenter" /\ n > 5 => q.monitored = TRUE
       /\ c.type = "device" /\ n > 7 => q.monitored = TRUE
  <2>1. CASE n = 1
    <3>1. q.monitored = FALSE
      BY <1>3, <1>6, <1>8, <1>9, <2>1 DEF Columns
    <3> QED
      BY <1>1, <2>1, <3>1
  <2>2. CASE n \in 2..4
    BY <1>1, <1>4, <1>6, <1>8, <2>2 DEF Columns, Inserting, c, n
  <2>3. CASE n > 4 /\ c.type = "datacenter"
    BY <1>1, <1>4, <1>6, <1>8, <2>3 DEF Columns, Inserting, c, n
  <2>4. CASE n > 4 /\ c.type = "device"
    BY <1>1, <1>4, <1>6, <1>8, <2>4 DEF Columns, Inserting, c, n
  <2>5. \/ n = 1 \/ n \in 2..4
        \/ n > 4 /\ c.type = "datacenter"
        \/ n > 4 /\ c.type = "device"
    BY <1>1, <1>2, <1>6
  <2> QED
    BY <2>1, <2>2, <2>3, <2>4, <2>5
<1> QED
  BY <1>1, <1>10, <1>11, <1>12, <1>13, <1>14 DEF Inserting, c, n

LEMMA UpdateStep ==
  ASSUME TypeInv, StoreInv, NEW t \in Threads, Statement(t), call[t].op = "update"
  PROVE  Updating(t)'
<1> DEFINE c == call[t]
           n == at[t]
           s == Script(c)[n]
           w == IF c.id \in locks[t].written THEN work[t] ELSE db[c.id]
           q == Effect(s, w, c)
<1>1. /\ stage[t] = "tx" /\ n \in Nat /\ at'[t] = n + 1 /\ n <= Len(Script(c)) /\ db' = db
      /\ c \in Table!Call /\ w \in Table!Asset /\ work'[t] = q /\ Allowed(s, work[t], c)
      /\ locks'[t].seen = locks[t].seen \cup LooksAt(s, c) /\ call' = call
      /\ locks'[t].written = (IF Writes(s) THEN locks[t].written \cup {c.id} ELSE locks[t].written)
  BY StatementFacts
<1>2. n > 0
  BY <1>1 DEF StoreInv, LockInv
<1>3. n = 1 => w = db[c.id]
  BY <1>1 DEF StoreInv, LockInv, NoLocks
<1>4. n > 1 => Updating(t) /\ w = work[t]
  BY <1>1, <1>2 DEF StoreInv, WorkInv, Updating
<1>5. c.op = "update"
  OBVIOUS
<1>6. /\ n = 1 => s = "element"
      /\ n = 2 => s = "dropExt"
      /\ n = 3 => s = "ext"
      /\ n = 4 => s = "extRO"
      /\ n = 5 => s = "dropGroups"
      /\ n = 6 => s = "groups"
      /\ n = 7 => s = "dropLinks"
      /\ n = 8 => s = "links"
      /\ n <= 8
  <2> HIDE DEF c
  <2>1. /\ Script(c)[1] = "element" /\ Script(c)[2] = "dropExt" /\ Script(c)[3] = "ext"
        /\ Script(c)[4] = "extRO" /\ Script(c)[5] = "dropGroups" /\ Script(c)[6] = "groups"
        /\ c.type = "device" =>
             /\ Script(c)[7] = "dropLinks" /\ Script(c)[8] = "links" /\ Len(Script(c)) = 8
        /\ c.type # "device" => Len(Script(c)) = 6
    BY <1>5, UpdateScript
  <2> HIDE DEF n
  <2> QED
    BY <1>1, <2>1
<1>7. n \in 1..8
  BY <1>1, <1>2, <1>6
<1>8. Columns(q, s, w, c)
  <2>1. s # "dropElement"
    BY <1>6, <1>7
  <2> HIDE DEF c, s, w
  <2> QED
    BY <1>1, <2>1, EffectColumns
<1> HIDE DEF w, c, n, s, q
<1>9. /\ c.id \in locks'[t].written
      /\ q.type = db[c.id].type /\ q.monitored = db[c.id].monitored
      /\ q.status = c.status /\ q.parent = c.parent
      /\ {c.parent} \ {None} \subseteq locks'[t].seen
  <2>1. CASE n = 1
    BY <1>1, <1>3, <1>5, <1>6, <1>8, <2>1 DEF Columns, LooksAt, Writes
  <2>2. CASE n \in 2..8
    <3>1. /\ c.id \in locks'[t].written /\ q.type = db[c.id].type
          /\ q.status = c.status /\ q.parent = c.parent
          /\ {c.parent} \ {None} \subseteq locks'[t].seen
      BY <1>1, <1>4, <1>5, <1>6, <1>8, <2>2 DEF Columns, Updating, c, n
    <3>2. s \notin {"relation", "dropRelation"}
      BY <1>6, <2>2
    <3>3. q.monitored = w.monitored
      BY <1>8, <3>2 DEF Columns
    <3>4. w.monitored = db[c.id].monitored
      BY <1>4, <2>2 DEF Updating, c, n
    <3> QED
      BY <3>1, <3>3, <3>4
  <2> QED
    BY <1>7, <2>1, <2>2
<1>10. n > 2 => q.name = c.name /\ q.type # "vacant"
  <2>1. CASE n = 3
    BY <1>1, <1>4, <1>5, <1>6, <1>8, <2>1 DEF Columns, Allowed
  <2>2. CASE n \in 4..8
    BY <1>4, <1>5, <1>6, <1>8, <2>2 DEF Columns, Updating, c, n
  <2> QED
    BY <1>7, <2>1, <2>2
<1>11. /\ n = 5 => q.groups = {}
       /\ n > 5 => q.groups = c.groups /\ c.groups \subseteq locks'[t].seen
  <2>1. CASE n = 5
    BY <1>6, <1>8, <2>1 DEF Columns
  <2>2. CASE n = 6
    BY <1>1, <1>4, <1>6, <1>8, <2>2 DEF Columns, Updating, LooksAt, c, n
  <2>3. CASE n \in 7..8
    BY <1>1, <1>4, <1>6, <1>8, <2>3 DEF Columns, Updating, c, n
  <2> QED
    BY <1>7, <2>1, <2>2, <2>3
<1>12. /\ n <= 6 => q.sources = db[c.id].sources
       /\ n = 7 => q.sources = {}
       /\ n > 7 => q.sources = c.sources /\ c.sources \subseteq locks'[t].seen
  <2>1. CASE n = 1
    BY <1>3, <1>6, <1>8, <2>1 DEF Columns
  <2>2. CASE n \in 2..6
    BY <1>4, <1>6, <1>8, <2>2 DEF Columns, Updating, c, n
  <2>3. CASE n = 7
    BY <1>6, <1>8, <2>3 DEF Columns
  <2>4. CASE n = 8
    BY <1>1, <1>4, <1>6, <1>8, <2>4 DEF Columns, Updating, LooksAt, c, n
  <2> QED
    BY <1>7, <2>1, <2>2, <2>3, <2>4
<1> QED
  BY <1>1, <1>9, <1>10, <1>11, <1>12 DEF Updating, c, n

(* The row goes with the last statement, which the foreign keys allow. *)
LEMMA DeleteStep ==
  ASSUME TypeInv, StoreInv, NEW t \in Threads, Statement(t), call[t].op = "delete"
  PROVE  Deleting(t)'
<1> DEFINE c == call[t]
           n == at[t]
           s == Script(c)[n]
           w == IF c.id \in locks[t].written THEN work[t] ELSE db[c.id]
<1>1. /\ n \in Nat /\ at'[t] = n + 1 /\ n <= Len(Script(c)) /\ db' = db /\ call' = call
      /\ c \in Table!Call /\ work'[t] = Effect(s, w, c) /\ Allowed(s, work[t], c)
      /\ locks'[t].written = (IF Writes(s) THEN locks[t].written \cup {c.id} ELSE locks[t].written)
  BY StatementFacts
<1>2. c.op = "delete" /\ c.type \in Table!Types
  BY <1>1 DEF Table!Call
<1>3. Len(Script(c)) \in Nat
  BY <1>1, ScriptLength
<1> SUFFICES ASSUME n + 1 > Len(Script(c))
             PROVE  /\ c.id \in locks'[t].written /\ work'[t] = Table!Vacant
                    /\ Table!Legal(db, c)
  BY <1>1 DEF Deleting
<1>4. n = Len(Script(c))
  BY <1>1, <1>3
<1>5. s = "dropElement"
  BY <1>2, <1>4, DeleteScript
<1> HIDE DEF c, s, n, w
<1>6. c.id \in locks'[t].written /\ work'[t] = Table!Vacant
  BY <1>1, <1>5 DEF Writes, Effect
<1>7. Table!Legal(db, c)
  BY <1>1, <1>2, <1>5 DEF Allowed, Table!Legal
<1> QED
  BY <1>6, <1>7

LEMMA StatementStore ==
  ASSUME TypeInv, StoreInv, NEW t \in Threads, Statement(t)
  PROVE  StoreInv'
<1> DEFINE c == call[t]
           s == Script(c)[at[t]]
<1>s. Step(t)
  BY DEF Step
<1>1. \A u \in Threads \ {t} : stage'[u] = stage[u] /\ at'[u] = at[u] /\ locks'[u] = locks[u]
  BY <1>s, Others DEF TypeInv
<1>2. /\ stage[t] = "tx" /\ at[t] \in Nat /\ at'[t] = at[t] + 1 /\ at[t] <= Len(Script(c))
      /\ c \in Table!Call /\ Free(t, s, c) /\ Allowed(s, work[t], c)
      /\ locks'[t].seen = locks[t].seen \cup LooksAt(s, c)
      /\ locks'[t].written = (IF Writes(s) THEN locks[t].written \cup {c.id} ELSE locks[t].written)
      /\ db' = db /\ call' = call /\ stage' = stage /\ nextId' = nextId
  BY StatementFacts
<1>3. Stored' = Stored
  BY <1>2 DEF Stored
<1>4. CallInv' /\ RowInv' /\ InsertInv'
  BY <1>2, <1>3 DEF StoreInv, CallInv, RowInv, InsertInv, Running
<1>5. LockInv'
  <2>1. /\ locks[t].written \subseteq {c.id} /\ locks[t].seen \subseteq Stored /\ at[t] > 0
    BY <1>2 DEF StoreInv, LockInv
  <2>2. LooksAt(s, c) \subseteq Stored
    BY <1>2 DEF Allowed
  <2>3. at'[t] # 1 /\ at'[t] \in 1..Len(Script(c)) + 1
    <3>1. Len(Script(c)) \in Nat
      BY <1>2, ScriptLength
    <3> QED
      BY <1>2, <2>1, <3>1
  <2>4. \A u \in Threads \ {t} :
          /\ locks'[t].written \cap (locks[u].written \cup locks[u].seen) = {}
          /\ locks[u].written \cap (locks'[t].written \cup locks'[t].seen) = {}
    <3> SUFFICES ASSUME NEW u \in Threads \ {t}
                 PROVE  /\ locks'[t].written \cap (locks[u].written \cup locks[u].seen) = {}
                        /\ locks[u].written \cap (locks'[t].written \cup locks'[t].seen) = {}
      OBVIOUS
    <3>1. /\ locks[t].written \cap (locks[u].written \cup locks[u].seen) = {}
          /\ locks[u].written \cap (locks[t].written \cup locks[t].seen) = {}
      BY DEF StoreInv, LockInv
    <3>2. /\ LooksAt(s, c) \cap locks[u].written = {}
          /\ Writes(s) => c.id \notin locks[u].written \cup locks[u].seen
      BY <1>2 DEF Free
    <3> HIDE DEF s, c
    <3> QED
      BY <1>2, <3>1, <3>2
  <2>5. /\ locks'[t].written \subseteq {call'[t].id} /\ locks'[t].seen \subseteq Stored'
        /\ at'[t] # 1 /\ at'[t] \in 1..Len(Script(call'[t])) + 1
    BY <1>2, <1>3, <2>1, <2>2, <2>3
  <2>6. \A u \in Threads : stage'[u] = "tx" =>
          /\ locks'[u].written \subseteq {call'[u].id} /\ locks'[u].seen \subseteq Stored'
          /\ at'[u] = 1 => locks'[u] = NoLocks
          /\ at'[u] \in 1..Len(Script(call'[u])) + 1
    BY <1>1, <1>2, <1>3, <2>5 DEF StoreInv, LockInv
  <2>7. \A v \in Threads : \A u \in Threads \ {v} :
          locks'[v].written \cap (locks'[u].written \cup locks'[u].seen) = {}
    <3> SUFFICES ASSUME NEW v \in Threads, NEW u \in Threads \ {v}
                 PROVE  locks'[v].written \cap (locks'[u].written \cup locks'[u].seen) = {}
      OBVIOUS
    <3>1. CASE v = t
      BY <1>1, <2>4, <3>1
    <3>2. CASE u = t
      BY <1>1, <2>4, <3>2
    <3>3. CASE v # t /\ u # t
      BY <1>1, <3>3 DEF StoreInv, LockInv
    <3> QED
      BY <3>1, <3>2, <3>3
  <2> QED
    BY <2>6, <2>7 DEF LockInv
<1>6. WorkInv'
  <2> SUFFICES ASSUME NEW u \in Threads, stage'[u] = "tx"
               PROVE  /\ call'[u].op = "insert" /\ at'[u] > 1 => Inserting(u)'
                      /\ call'[u].op = "update" /\ at'[u] > 1 => Updating(u)'
                      /\ call'[u].op = "delete" => Deleting(u)'
    BY DEF WorkInv
  <2>1. CASE u = t
    BY <1>2, <2>1, InsertStep, UpdateStep, DeleteStep
  <2>2. CASE u # t
    BY <1>s, <1>1, <1>2, <2>2, OthersWork DEF StoreInv
  <2> QED
    BY <2>1, <2>2
<1> QED
  BY <1>4, <1>5, <1>6 DEF StoreInv

(* What another thread has locked stays as it is, and no deletion that is    *)
(* about to commit loses its right to.                                       *)
LEMMA CommitStore ==
  ASSUME TypeInv, StoreInv, NEW t \in Threads, Commit(t)
  PROVE  StoreInv'
<1> DEFINE c == call[t]
           w == work[t]
<1>s. Step(t)
  BY DEF Step
<1>1. \A u \in Threads \ {t} :
        stage'[u] = stage[u] /\ call'[u] = call[u] /\ at'[u] = at[u] /\ locks'[u] = locks[u]
  BY <1>s, Others DEF TypeInv
<1>2. /\ stage[t] = "tx" /\ call' = call /\ nextId' = nextId
      /\ stage'[t] = (IF c.activate THEN "activate" ELSE "committed") /\ locks'[t] = NoLocks
  BY LeaveFacts DEF Commit, TypeInv
<1>3. /\ c.id \in Ids /\ db' \in [Ids -> Table!Asset] /\ db'[c.id] = w
      /\ \A i \in Ids \ {c.id} :
           /\ db'[i].type = db[i].type /\ db'[i].name = db[i].name
           /\ db'[i].parent = db[i].parent /\ db'[i].sources = db[i].sources
           /\ db'[i].monitored = db[i].monitored /\ db'[i].groups \subseteq db[i].groups
           /\ db[i] = Table!Vacant => db'[i] = Table!Vacant
  BY CommitRows
<1>4. /\ c \in Table!Call /\ c.id \in locks[t].written
      /\ c.op # "delete" =>
           /\ References(c) \subseteq locks[t].seen
           /\ w.type = c.type /\ w.name = c.name /\ w.parent = c.parent
           /\ w.groups = c.groups /\ w.sources = c.sources
      /\ c.op = "delete" => w = Table!Vacant
  BY CommitApplies
<1>5. /\ c.op # "insert" => c.id \in FirstStored /\ c.type = InitialDb[c.id].type
      /\ c.type # "device" => c.sources = {}
      /\ c.op = "insert" => c.id \notin FirstStored /\ c.id < nextId
  BY <1>2 DEF StoreInv, CallInv, InsertInv, Running
<1>6. c.op \in {"insert", "update", "delete"} /\ Table!Vacant.type = "vacant"
  BY <1>4 DEF Table!Call, Table!Vacant
<1>7. Stored \subseteq Ids /\ Stored' \subseteq Ids
      /\ \A i \in Ids \ {c.id} : i \in Stored' <=> i \in Stored
  BY <1>3 DEF Stored, Table!Stored
<1>8. CallInv'
  BY <1>1, <1>2 DEF StoreInv, CallInv
<1> HIDE DEF c, w
<1>9. RowInv'
  <2>1. c.id < nextId
    BY <1>5 DEF StoreInv, RowInv
  <2>2. \A i \in Ids : i >= nextId => db'[i] = Table!Vacant
    <3>1. c.id \in Nat /\ nextId \in Nat
      BY <1>3, StoreConstants DEF TypeInv, TypeOK
    <3>2. ~(c.id >= nextId)
      BY <2>1, <3>1
    <3> QED
      BY <1>3, <3>2 DEF StoreInv, RowInv
  <2>3. ASSUME NEW i \in Stored'
        PROVE  /\ i \in FirstStored => db'[i].type = InitialDb[i].type
               /\ db'[i].type # "device" => db'[i].sources = {}
    <3>1. CASE i # c.id
      BY <1>3, <1>7, <2>3, <3>1 DEF StoreInv, RowInv
    <3>2. CASE i = c.id
      <4>1. db'[i].type # "vacant"
        BY <2>3 DEF Stored, Table!Stored
      <4>2. c.op # "delete"
        BY <1>3, <1>4, <1>6, <3>2, <4>1
      <4> QED
        BY <1>3, <1>4, <1>5, <1>6, <3>2, <4>2
    <3> QED
      BY <3>1, <3>2
  <2> QED
    BY <1>2, <2>2, <2>3 DEF StoreInv, RowInv
<1>10. InsertInv'
  <2> SUFFICES ASSUME NEW v \in Threads, Running(v)', call'[v].op = "insert"
               PROVE  /\ call'[v].id \in Ids \ FirstStored /\ call'[v].id < nextId'
                      /\ db'[call'[v].id] = Table!Vacant
                      /\ \A u \in Threads \ {v} : Running(u)' => call'[u].id # call'[v].id
    BY DEF InsertInv
  <2>1. v # t /\ Running(v) /\ Running(t) /\ \A u \in Threads : Running(u)' => Running(u)
    BY <1>1, <1>2 DEF Running
  <2>2. /\ call[v].id \in Ids \ FirstStored /\ call[v].id < nextId
        /\ db[call[v].id] = Table!Vacant
        /\ \A u \in Threads \ {v} : Running(u) => call[u].id # call[v].id
    BY <1>2, <2>1 DEF StoreInv, InsertInv
  <2>3. call[v].id # c.id
    BY <2>1, <2>2 DEF c
  <2> QED
    BY <1>2, <1>3, <2>1, <2>2, <2>3
<1>11. \A u \in Threads \ {t} :
         /\ locks[u].written \cap (locks[t].written \cup locks[t].seen) = {}
         /\ locks[t].written \cap (locks[u].written \cup locks[u].seen) = {}
  BY DEF StoreInv, LockInv
<1>12. LockInv'
  <2>1. ASSUME NEW u \in Threads, stage'[u] = "tx"
        PROVE  /\ locks'[u].written \subseteq {call'[u].id} /\ locks'[u].seen \subseteq Stored'
               /\ at'[u] = 1 => locks'[u] = NoLocks
               /\ at'[u] \in 1..Len(Script(call'[u])) + 1
    <3>1. u # t /\ stage[u] = "tx"
      BY <1>1, <1>2, <2>1
    <3>2. /\ locks[u].written \subseteq {call[u].id} /\ locks[u].seen \subseteq Stored
          /\ at[u] = 1 => locks[u] = NoLocks
          /\ at[u] \in 1..Len(Script(call[u])) + 1
      BY <3>1 DEF StoreInv, LockInv
    <3>3. locks[u].seen \subseteq Stored'
      BY <1>4, <1>7, <1>11, <3>1, <3>2
    <3> QED
      BY <1>1, <3>1, <3>2, <3>3
  <2>2. \A v \in Threads : \A u \in Threads \ {v} :
          locks'[v].written \cap (locks'[u].written \cup locks'[u].seen) = {}
    BY <1>1, <1>2 DEF StoreInv, LockInv, NoLocks
  <2> QED
    BY <2>1, <2>2 DEF LockInv
<1>13. WorkInv'
  <2> SUFFICES ASSUME NEW u \in Threads, stage'[u] = "tx"
               PROVE  /\ call'[u].op = "insert" /\ at'[u] > 1 => Inserting(u)'
                      /\ call'[u].op = "update" /\ at'[u] > 1 => Updating(u)'
                      /\ call'[u].op = "delete" => Deleting(u)'
    BY DEF WorkInv
  <2> DEFINE d == call[u]
  <2>1. u \in Threads \ {t} /\ stage[u] = "tx" /\ d.id \in Ids
    BY <1>1, <1>2 DEF TypeInv
  <2>2. ASSUME d.id \in locks[u].written
        PROVE  d.id \in Ids \ {c.id} /\ (c.op # "delete" => d.id \notin References(c))
    BY <1>4, <1>11, <2>1, <2>2
  <2>3. d.id \in locks[u].written =>
          /\ db'[d.id].type = db[d.id].type
          /\ db'[d.id].sources = db[d.id].sources
          /\ db'[d.id].monitored = db[d.id].monitored
    BY <1>3, <2>2
  <2>4. ASSUME d.op = "delete", d.id \in locks[u].written, Table!Legal(db, d)
        PROVE  Table!Legal(db', d)
    <3>1. \A j \in Table!Dependants(db, d.id) \ {d.id} :
            d.type = "group" /\ db[j].parent # d.id /\ d.id \notin db[j].sources
      BY <2>4 DEF Table!Legal
    <3>2. ASSUME NEW j \in Table!Dependants(db', d.id) \ {d.id}
          PROVE  d.type = "group" /\ db'[j].parent # d.id /\ d.id \notin db'[j].sources
      <4>1. /\ j \in Ids /\ db'[j].type # "vacant"
            /\ db'[j].parent = d.id \/ d.id \in db'[j].groups \/ d.id \in db'[j].sources
        BY <3>2 DEF Table!Dependants, Table!Stored
      <4>2. d.id # None
        BY <2>1, StoreConstants
      <4>3. j # c.id
        <5> SUFFICES ASSUME j = c.id PROVE FALSE
          OBVIOUS
        <5>1. c.op # "delete"
          BY <1>3, <1>4, <1>6, <4>1
        <5>2. d.id \in References(c)
          BY <1>3, <1>4, <4>1, <4>2, <5>1 DEF References
        <5> QED
          BY <2>2, <2>4, <5>1, <5>2
      <4>4. j \in Table!Dependants(db, d.id) \ {d.id}
        BY <1>3, <3>2, <4>1, <4>3 DEF Table!Dependants, Table!Stored
      <4> QED
        BY <1>3, <3>1, <4>1, <4>3, <4>4
    <3> QED
      BY <2>4, <3>2 DEF Table!Legal
  <2> QED
    BY <1>s, <2>1, <2>3, <2>4, OthersWork DEF StoreInv
<1> QED
  BY <1>8, <1>9, <1>10, <1>12, <1>13 DEF StoreInv

LEMMA InitStore == Init => StoreInv
<1> SUFFICES ASSUME Init PROVE StoreInv
  OBVIOUS
<1>1. /\ db = InitialDb /\ Stored = FirstStored /\ nextId \in Ids \ FirstStored
      /\ \A j \in Ids \ FirstStored : nextId <= j
      /\ \A t \in Threads : stage[t] = "idle" /\ locks[t] = NoLocks /\ call[t] \in Calls
  BY InitFacts DEF Init
<1>2. CallInv
  BY <1>1, CallersFacts DEF CallInv
<1>3. RowInv
  BY <1>1, CallersFacts, StoreConstants DEF RowInv
<1>4. InsertInv /\ LockInv /\ WorkInv
  BY <1>1 DEF InsertInv, LockInv, WorkInv, Running, NoLocks
<1> QED
  BY <1>2, <1>3, <1>4 DEF StoreInv

LEMMA StepStore == TypeInv /\ StoreInv /\ [Next]_vars => StoreInv'
<1> SUFFICES ASSUME TypeInv, StoreInv, [Next]_vars PROVE StoreInv'
  OBVIOUS
<1>1. CASE UNCHANGED vars
  BY <1>1 DEF vars, thread, StoreInv, CallInv, RowInv, InsertInv, LockInv, WorkInv, Running,
              Inserting, Updating, Deleting, Stored
<1>2. ASSUME NEW t \in Threads, Step(t) PROVE StoreInv'
  <2>1. ASSUME NEW c \in Calls, Begin(t, c) PROVE StoreInv'
    BY <2>1, BeginStore
  <2>2. CASE Check(t)
    <3>1. stage[t] = "check" /\ db' = db /\ call' = call /\ nextId' = nextId
      BY <2>2 DEF Check
    <3>2. CASE Leave(t, "failed")
      BY <1>2, <3>1, <3>2, LeaveStore
    <3>3. CASE /\ stage' = [stage EXCEPT ![t] = IF MustDeactivate(call[t]) THEN "deactivate" ELSE "tx"]
               /\ UNCHANGED <<at, locks>>
      <4>1. /\ stage'[t] \in {"deactivate", "tx"}
            /\ stage'[t] = "deactivate" => call[t].op = "update"
        BY <3>3 DEF MustDeactivate, TypeInv, TypeOK
      <4> QED
        BY <1>2, <3>1, <3>3, <4>1, AroundStore DEF Running
    <3> QED
      BY <2>2, <3>2, <3>3 DEF Check
  <2>3. CASE Deactivate(t)
    <3>1. stage[t] = "deactivate" /\ call' = call /\ nextId' = nextId
      BY <2>3 DEF Deactivate
    <3>2. CASE Leave(t, "failed") /\ UNCHANGED <<db, licensed>>
      BY <1>2, <3>1, <3>2, LeaveStore
    <3>3. CASE /\ stage' = [stage EXCEPT ![t] = "tx"] /\ UNCHANGED <<at, work, locks, failures>>
               /\ \/ UNCHANGED db
                  \/ /\ Device(call[t].id) /\ Unlocked(call[t].id)
                     /\ db' = [db EXCEPT ![call[t].id].status = "nonactive"]
      <4>1. stage'[t] = "tx"
        BY <3>3 DEF TypeInv, TypeOK
      <4>2. db' = db \/ AgentWrites
        BY <2>3, <3>3 DEF AgentWrites, Table!Statuses, Deactivate, TypeInv
      <4> QED
        BY <1>2, <3>1, <3>3, <4>1, <4>2, AroundStore DEF Running
    <3> QED
      BY <2>3, <3>2, <3>3 DEF Deactivate
  <2>4. CASE Statement(t)
    BY <2>4, StatementStore
  <2>5. CASE GiveUp(t)
    <3>1. stage[t] = "tx" /\ Leave(t, "failed") /\ db' = db /\ call' = call /\ nextId' = nextId
      BY <2>5 DEF GiveUp, Rollback
    <3> QED
      BY <1>2, <3>1, LeaveStore
  <2>6. CASE Commit(t)
    BY <2>6, CommitStore
  <2>7. CASE Activate(t)
    <3>1. /\ stage[t] = "activate" /\ call' = call /\ nextId' = nextId /\ at' = at
          /\ locks' = locks /\ stage'[t] = "committed"
      BY <2>7 DEF Activate, TypeInv, TypeOK
    <3>2. db' = db \/ AgentWrites
      BY <2>7 DEF Activate, AgentWrites, Table!Statuses, TypeInv
    <3> QED
      BY <1>2, <3>1, <3>2, AroundStore DEF Running
  <2>8. CASE Return(t)
    <3>1. /\ stage[t] \in {"committed", "failed"} /\ Leave(t, "idle")
          /\ db' = db /\ call' = call /\ nextId' = nextId
      BY <2>8 DEF Return
    <3> QED
      BY <1>2, <3>1, LeaveStore
  <2> QED
    BY <1>2, <2>1, <2>2, <2>3, <2>4, <2>5, <2>6, <2>7, <2>8 DEF Step
<1> QED
  BY <1>1, <1>2 DEF Next, Step

LEMMA StoreInductive == Spec => [](TypeInv /\ StoreInv)
<1>1. Init => TypeInv /\ StoreInv
  BY InitFacts, InitStore
<1>2. (TypeInv /\ StoreInv) /\ [Next]_vars => (TypeInv /\ StoreInv)'
  BY StepType, StepStore
<1> QED
  BY <1>1, <1>2, PTL DEF Spec

------------------------------------------------------------------------------
(* A step of AssetStore is a step of AssetTable, or changes nothing of it *)

Progress ==
  [t \in Threads |-> CASE stage[t] = "idle" -> "idle"
                      [] stage[t] \in {"check", "deactivate", "tx"} -> "running"
                      [] stage[t] \in {"activate", "committed"} -> "applied"
                      [] stage[t] = "failed" -> "refused"]

Word(s) ==
  CASE s = "idle" -> "idle" [] s \in {"check", "deactivate", "tx"} -> "running"
    [] s \in {"activate", "committed"} -> "applied" [] s = "failed" -> "refused"

LEMMA ProgressStep ==
  ASSUME TypeOK, NEW t \in Threads, NEW s, stage' = [stage EXCEPT ![t] = s]
  PROVE  Progress' = [Progress EXCEPT ![t] = Word(s)] /\ Progress[t] = Word(stage[t])
<1>1. Progress = [u \in Threads |-> Word(stage[u])]
  BY DEF Progress, Word
<1>2. Progress' = [u \in Threads |-> Word(stage'[u])]
  BY DEF Progress, Word
<1>3. \A u \in Threads : stage'[u] = IF u = t THEN s ELSE stage[u]
  BY DEF TypeOK
<1>4. Progress' = [u \in Threads |-> IF u = t THEN Word(s) ELSE Word(stage[u])]
  BY <1>2, <1>3
<1> HIDE DEF Progress
<1> QED
  BY <1>1, <1>4

LEMMA AtomicInit == Init => Table!Init
<1> SUFFICES ASSUME Init PROVE Table!Init
  OBVIOUS
<1>1. db = InitialDb /\ call \in [Threads -> Table!Call]
  BY InitFacts DEF TypeInv, TypeOK
<1>2. Progress = [t \in Threads |-> "idle"]
  BY InitFacts DEF Progress
<1> QED
  BY <1>1, <1>2 DEF Table!Init, Progress

LEMMA AtomicStep == TypeInv /\ StoreInv /\ [Next]_vars => [Table!Next]_(Table!vars)
<1> SUFFICES ASSUME TypeInv, StoreInv, [Next]_vars PROVE [Table!Next]_(Table!vars)
  OBVIOUS
<1>a. TypeOK
  BY DEF TypeInv
<1>c. /\ Word("idle") = "idle" /\ Word("check") = "running" /\ Word("tx") = "running"
      /\ Word("deactivate") = "running" /\ Word("activate") = "applied"
      /\ Word("committed") = "applied" /\ Word("failed") = "refused"
  BY DEF Word
<1>d. ASSUME db' = db, call' = call, Progress' = Progress PROVE [Table!Next]_(Table!vars)
  BY <1>d DEF Table!vars, Progress
<1>e. ASSUME db' = db \/ AgentWrites, call' = call, Progress' = Progress
      PROVE  [Table!Next]_(Table!vars)
  <2>1. ASSUME NEW i \in Ids, NEW s \in Table!Statuses, Device(i), db' = [db EXCEPT ![i].status = s]
        PROVE  [Table!Next]_(Table!vars)
    <3>1. Table!WriteStatus(i, s)
      BY <1>e, <2>1 DEF Table!WriteStatus, Progress, Device
    <3> QED
      BY <3>1 DEF Table!Next
  <2> QED
    BY <1>d, <1>e, <2>1 DEF AgentWrites
<1>f. ASSUME NEW t \in Threads, NEW s, stage' = [stage EXCEPT ![t] = s], Word(s) = Word(stage[t])
      PROVE  Progress' = Progress
  <2>1. Progress' = [Progress EXCEPT ![t] = Word(s)] /\ Progress[t] = Word(s)
    BY <1>a, <1>f, ProgressStep
  <2> QED
    BY <2>1 DEF Progress
<1>1. CASE UNCHANGED vars
  BY <1>1, <1>d DEF vars, thread, Progress
<1>2. ASSUME NEW t \in Threads, Step(t) PROVE [Table!Next]_(Table!vars)
  <2>a. ASSUME stage[t] \in {"check", "deactivate", "tx"}, Leave(t, "failed"), db' = db, call' = call
        PROVE  [Table!Next]_(Table!vars)
    <3>1. Progress' = [Progress EXCEPT ![t] = "refused"] /\ Progress[t] = "running"
      <4>1. stage' = [stage EXCEPT ![t] = "failed"] /\ Word(stage[t]) = "running"
        BY <1>c, <2>a DEF Leave
      <4>2. Progress' = [Progress EXCEPT ![t] = Word("failed")] /\ Progress[t] = Word(stage[t])
        BY <1>a, <4>1, ProgressStep
      <4> QED
        BY <1>c, <4>1, <4>2
    <3>2. Table!RefuseCall(t)
      BY <2>a, <3>1 DEF Table!RefuseCall, Progress
    <3> QED
      BY <3>2 DEF Table!Next
  <2>1. ASSUME NEW c \in Calls, Begin(t, c) PROVE [Table!Next]_(Table!vars)
    <3>1. stage[t] = "idle" /\ call'[t] \in Table!Call
      BY <2>1, BeginFacts
    <3>2. /\ stage' = [stage EXCEPT ![t] = "check"] /\ db' = db
          /\ \E d : call' = [call EXCEPT ![t] = d]
      BY <2>1 DEF Begin
    <3>3. call' = [call EXCEPT ![t] = call'[t]]
      BY <1>a, <3>2 DEF TypeOK
    <3>4. Progress' = [Progress EXCEPT ![t] = "running"] /\ Progress[t] = "idle"
      <4>1. Progress' = [Progress EXCEPT ![t] = Word("check")] /\ Progress[t] = Word(stage[t])
        BY <1>a, <3>2, ProgressStep
      <4> QED
        BY <1>c, <3>1, <4>1
    <3>5. Table!Begin(t)
      BY <3>1, <3>2, <3>3, <3>4 DEF Table!Begin, Progress
    <3> QED
      BY <3>5 DEF Table!Next
  <2>2. CASE Check(t)
    <3>1. stage[t] = "check" /\ db' = db /\ call' = call
      BY <2>2 DEF Check
    <3>2. CASE Leave(t, "failed")
      BY <2>a, <3>1, <3>2
    <3>3. CASE stage' = [stage EXCEPT ![t] = IF MustDeactivate(call[t]) THEN "deactivate" ELSE "tx"]
      <4>1. Progress' = Progress
        BY <1>c, <1>f, <3>1, <3>3
      <4> QED
        BY <1>d, <3>1, <4>1
    <3> QED
      BY <2>2, <3>2, <3>3 DEF Check
  <2>3. CASE Statement(t)
    <3>1. db' = db /\ call' = call /\ stage' = stage
      BY <2>3 DEF Statement
    <3> QED
      BY <1>d, <3>1 DEF Progress
  <2>4. CASE GiveUp(t)
    <3>1. stage[t] = "tx" /\ Leave(t, "failed") /\ db' = db /\ call' = call
      BY <2>4 DEF GiveUp, Rollback
    <3> QED
      BY <2>a, <3>1
  <2>5. CASE Commit(t)
    <3>1. PICK s \in {"activate", "committed"} : Leave(t, s)
      BY <2>5 DEF Commit
    <3>2. Progress' = [Progress EXCEPT ![t] = "applied"] /\ Progress[t] = "running"
      <4>1. /\ stage' = [stage EXCEPT ![t] = s] /\ Word(s) = "applied"
            /\ Word(stage[t]) = "running"
        BY <1>c, <2>5, <3>1 DEF Commit, Leave
      <4>2. Progress' = [Progress EXCEPT ![t] = Word(s)] /\ Progress[t] = Word(stage[t])
        BY <1>a, <4>1, ProgressStep
      <4> QED
        BY <4>1, <4>2
    <3>3. Table!Legal(db, call[t]) /\ db' = Table!Apply(db, call[t])
      BY <2>5, CommitApplies
    <3>4. Table!ApplyCall(t)
      BY <2>5, <3>2, <3>3 DEF Table!ApplyCall, Progress, Commit
    <3> QED
      BY <3>4 DEF Table!Next
  <2>6. CASE Return(t)
    <3>1. stage[t] \in {"committed", "failed"} /\ Leave(t, "idle") /\ db' = db /\ call' = call
      BY <2>6 DEF Return
    <3>2. Progress' = [Progress EXCEPT ![t] = "idle"] /\ Progress[t] = Word(stage[t])
      BY <1>a, <1>c, <3>1, ProgressStep DEF Leave
    <3>3. CASE stage[t] = "committed"
      <4>1. Table!Return(t, 1)
        BY <1>c, <3>1, <3>2, <3>3 DEF Table!Return, Progress
      <4> QED
        BY <4>1 DEF Table!Next
    <3>4. CASE stage[t] = "failed"
      <4>1. Table!Return(t, 0)
        BY <1>c, <3>1, <3>2, <3>4 DEF Table!Return, Progress
      <4> QED
        BY <4>1 DEF Table!Next
    <3> QED
      BY <3>1, <3>3, <3>4
  <2>7. CASE Deactivate(t)
    <3>1. stage[t] = "deactivate" /\ call' = call /\ call[t].id \in Ids
      BY <2>7 DEF Deactivate, TypeInv
    <3>2. CASE Leave(t, "failed") /\ db' = db
      BY <2>a, <3>1, <3>2
    <3>3. CASE stage' = [stage EXCEPT ![t] = "tx"] /\ (db' = db \/ AgentWrites)
      <4>1. Progress' = Progress
        BY <1>c, <1>f, <3>1, <3>3
      <4> QED
        BY <1>e, <3>1, <3>3, <4>1
    <3> QED
      BY <2>7, <3>1, <3>2, <3>3 DEF Deactivate, AgentWrites, Table!Statuses
  <2>8. CASE Activate(t)
    <3>1. /\ stage[t] = "activate" /\ call' = call /\ stage' = [stage EXCEPT ![t] = "committed"]
          /\ db' = db \/ AgentWrites
      BY <2>8 DEF Activate, AgentWrites, Table!Statuses, TypeInv
    <3>2. Progress' = Progress
      BY <1>c, <1>f, <3>1
    <3> QED
      BY <1>e, <3>1, <3>2
  <2> QED
    BY <1>2, <2>1, <2>2, <2>3, <2>4, <2>5, <2>6, <2>7, <2>8 DEF Step
<1> QED
  BY <1>1, <1>2 DEF Next, Step

------------------------------------------------------------------------------
(* Names *)

(* While a name is not raced for, the thread that gives it is alone, and     *)
(* what it has looked up before its transaction stays true.                  *)
Alone(t) ==
  /\ \A i \in Stored \ {call[t].id} : db[i].name # call[t].name
  /\ \A u \in Threads : Naming(u) /\ call[u].name = call[t].name => call[u].id = call[t].id

NamesInv ==
  /\ NamesClashOnlyInRaces
  /\ \A t \in Threads : Naming(t) /\ call[t].name \notin raced => Alone(t)

(* A step that stores no name and looks none up. *)
LEMMA QuietNames ==
  ASSUME TypeInv, NamesInv, NEW t \in Threads, Step(t), raced' = raced, Stored' = Stored,
         \A i \in Stored : db'[i].name = db[i].name,
         Naming(t)' => Naming(t) /\ call'[t] = call[t]
  PROVE  NamesInv'
<1>1. \A u \in Threads \ {t} : stage'[u] = stage[u] /\ call'[u] = call[u]
  BY Others DEF TypeInv
<1>2. \A u \in Threads : Naming(u)' => Naming(u) /\ call'[u] = call[u]
  BY <1>1 DEF Naming
<1>3. NamesClashOnlyInRaces'
  BY DEF NamesInv, NamesClashOnlyInRaces
<1>4. ASSUME NEW u \in Threads, Naming(u)', call'[u].name \notin raced' PROVE Alone(u)'
  <2>1. Alone(u) /\ call'[u] = call[u]
    BY <1>2, <1>4 DEF NamesInv
  <2> QED
    BY <1>2, <2>1 DEF Alone
<1> QED
  BY <1>3, <1>4 DEF NamesInv

LEMMA CommitNames ==
  ASSUME TypeInv, StoreInv, NamesInv, NEW t \in Threads, Commit(t)
  PROVE  NamesInv'
<1> DEFINE c == call[t]
<1>s. Step(t)
  BY DEF Step
<1>1. /\ stage[t] = "tx" /\ stage'[t] \in {"activate", "committed"} /\ call' = call /\ raced' = raced
      /\ \A u \in Threads \ {t} : stage'[u] = stage[u]
  BY <1>s, Others, LeaveFacts DEF Commit, TypeInv
<1>2. /\ c.id \in Ids /\ db'[c.id] = work[t]
      /\ \A i \in Ids \ {c.id} : db'[i].type = db[i].type /\ db'[i].name = db[i].name
  BY CommitRows
<1>3. /\ c.op \in {"insert", "update", "delete"}
      /\ c.op # "delete" => work[t].name = c.name
      /\ c.op = "delete" => work[t].type = "vacant"
  BY CommitApplies DEF Table!Call, Table!Vacant
<1>4. /\ Stored \subseteq Ids /\ Stored' \subseteq Ids
      /\ \A i \in Ids \ {c.id} : i \in Stored' <=> i \in Stored
      /\ c.op = "delete" => c.id \notin Stored'
  BY <1>2, <1>3 DEF Stored, Table!Stored
<1>5. \A u \in Threads : Naming(u)' => Naming(u) /\ u # t
  BY <1>1 DEF Naming
<1>6. CASE c.op = "delete"
  <2>1. \A i \in Stored' : i \in Stored /\ db'[i].name = db[i].name
    BY <1>2, <1>4, <1>6
  <2>2. NamesClashOnlyInRaces'
    BY <1>1, <2>1 DEF NamesInv, NamesClashOnlyInRaces
  <2>3. \A u \in Threads : Alone(u) => Alone(u)'
    BY <1>1, <1>5, <2>1 DEF Alone
  <2> QED
    BY <1>1, <1>5, <2>2, <2>3 DEF NamesInv
<1>7. CASE c.op # "delete"
  <2>1. Naming(t) /\ (c.name \notin raced => Alone(t))
    BY <1>1, <1>7 DEF NamesInv, Naming
  <2>2. db'[c.id].name = c.name
    BY <1>2, <1>3, <1>7
  <2>3. ASSUME NEW i \in Stored', NEW j \in Stored', i # j, db'[i].name = db'[j].name
        PROVE  db'[i].name \in raced
    <3>1. CASE i # c.id /\ j # c.id
      BY <1>2, <1>4, <2>3, <3>1 DEF NamesInv, NamesClashOnlyInRaces
    <3>2. CASE i = c.id
      <4>1. j \in Stored \ {c.id} /\ db[j].name = c.name
        BY <1>2, <1>4, <2>2, <2>3, <3>2
      <4> QED
        BY <2>1, <2>2, <3>2, <4>1 DEF Alone
    <3>3. CASE j = c.id
      <4>1. i \in Stored \ {c.id} /\ db[i].name = c.name
        BY <1>2, <1>4, <2>2, <2>3, <3>3
      <4> QED
        BY <2>1, <2>2, <2>3, <3>3, <4>1 DEF Alone
    <3> QED
      BY <3>1, <3>2, <3>3
  <2>4. ASSUME NEW u \in Threads, Naming(u)', call'[u].name \notin raced'
        PROVE  Alone(u)'
    <3>1. Naming(u) /\ u # t /\ Alone(u)
      BY <1>1, <1>5, <2>4 DEF NamesInv
    <3>2. c.name = call[u].name => c.id = call[u].id
      BY <2>1, <3>1 DEF Alone
    <3>3. \A i \in Stored' \ {call[u].id} : db'[i].name # call[u].name
      BY <1>2, <1>4, <2>2, <3>1, <3>2 DEF Alone
    <3> QED
      BY <1>1, <1>5, <3>1, <3>3 DEF Alone
  <2> QED
    BY <1>1, <2>3, <2>4 DEF NamesInv, NamesClashOnlyInRaces
<1> QED
  BY <1>6, <1>7

LEMMA CheckNames ==
  ASSUME TypeInv, NamesInv, NEW t \in Threads, Check(t)
  PROVE  NamesInv'
<1> DEFINE c == call[t]
<1>s. Step(t)
  BY DEF Step
<1>1. /\ db' = db /\ call' = call /\ Stored' = Stored /\ c.name \in Names /\ stage[t] = "check"
      /\ \A u \in Threads \ {t} : stage'[u] = stage[u]
  BY <1>s, Others DEF Check, Stored, TypeInv, TypeOK, Table!Call
<1>2. CASE Leave(t, "failed") /\ raced' = raced
  <2>1. stage'[t] = "failed"
    BY <1>2, LeaveFacts DEF TypeInv
  <2> QED
    BY <1>s, <1>1, <1>2, <2>1, QuietNames DEF Naming
<1>3. CASE /\ DuplicateEntry(c) => HasName(c)
           /\ raced' = raced \cup {n \in Names :
                 /\ c.op # "delete" /\ c.name = n
                 /\ \E u \in Threads \ {t} : Naming(u) /\ call[u].name = n
                                             /\ call[u].id # c.id}
  <2>1. raced \subseteq raced'
    BY <1>3
  <2>2. NamesClashOnlyInRaces'
    BY <1>1, <2>1 DEF NamesInv, NamesClashOnlyInRaces
  <2>3. \A u \in Threads \ {t} : Naming(u)' = Naming(u)
    BY <1>1 DEF Naming
  <2>4. ASSUME NEW u \in Threads \ {t}, Naming(u), c.op # "delete", call[u].name = c.name,
               c.name \notin raced'
        PROVE  call[u].id = c.id
    BY <1>1, <1>3, <2>4
  <2>5. ASSUME NEW u \in Threads, Naming(u)', call'[u].name \notin raced'
        PROVE  Alone(u)'
    <3>1. CASE u = t
      <4>1. c.op # "delete" /\ c.name \notin raced'
        BY <1>1, <2>5, <3>1 DEF Naming
      <4>2. \A i \in Stored \ {c.id} : db[i].name # c.name
        <5> SUFFICES ASSUME NEW i \in Stored \ {c.id}, db[i].name = c.name PROVE FALSE
          OBVIOUS
        <5>1. c.id \in Stored /\ db[c.id].name = c.name
          BY <1>3, <4>1 DEF DuplicateEntry, HasName
        <5>2. c.name \in raced
          BY <5>1 DEF NamesInv, NamesClashOnlyInRaces
        <5> QED
          BY <2>1, <4>1, <5>2
      <4> QED
        BY <1>1, <2>3, <2>4, <3>1, <4>1, <4>2 DEF Alone
    <3>2. CASE u # t
      <4>1. Naming(u) /\ Alone(u)
        BY <1>1, <2>1, <2>3, <2>5, <3>2 DEF NamesInv
      <4>2. Naming(t)' /\ c.name = call[u].name => c.id = call[u].id
        BY <1>1, <2>4, <2>5, <3>2, <4>1 DEF Naming
      <4> QED
        BY <1>1, <2>3, <4>1, <4>2 DEF Alone
    <3> QED
      BY <3>1, <3>2
  <2> QED
    BY <2>2, <2>5 DEF NamesInv
<1> QED
  BY <1>2, <1>3 DEF Check

LEMMA StepNames == TypeInv /\ StoreInv /\ NamesInv /\ [Next]_vars => NamesInv'
<1> SUFFICES ASSUME TypeInv, StoreInv, NamesInv, [Next]_vars PROVE NamesInv'
  OBVIOUS
<1>1. CASE UNCHANGED vars
  BY <1>1 DEF vars, thread, NamesInv, NamesClashOnlyInRaces, Alone, Naming, Stored
<1>2. ASSUME NEW t \in Threads, Step(t) PROVE NamesInv'
  <2>a. ASSUME db' = db \/ AgentWrites
        PROVE  Stored' = Stored /\ \A i \in Stored : db'[i].name = db[i].name
    <3>1. CASE db' = db
      BY <3>1 DEF Stored
    <3>2. CASE AgentWrites
      <4>1. PICK i \in Ids, s \in Table!Statuses :
              Device(i) /\ db' = [db EXCEPT ![i].status = s]
        BY <3>2 DEF AgentWrites
      <4>2. Stored \subseteq Ids
        BY DEF Stored, Table!Stored
      <4> QED
        BY <4>1, <4>2, WriteRows
    <3> QED
      BY <2>a, <3>1, <3>2
  <2>1. ASSUME NEW c \in Calls, Begin(t, c) PROVE NamesInv'
    <3>1. db' = db /\ raced' = raced /\ stage'[t] = "check"
      BY <2>1, BeginFacts DEF Begin
    <3> QED
      BY <1>2, <2>a, <3>1, QuietNames DEF Naming
  <2>2. CASE Check(t)
    BY <2>2, CheckNames
  <2>3. CASE Deactivate(t)
    <3>1. /\ db' = db \/ AgentWrites
          /\ raced' = raced /\ call' = call /\ stage[t] = "deactivate"
      BY <2>3 DEF Deactivate, AgentWrites, Table!Statuses, TypeInv
    <3> QED
      BY <1>2, <2>a, <3>1, QuietNames DEF Naming
  <2>4. CASE Statement(t)
    <3>1. db' = db /\ raced' = raced /\ stage' = stage /\ call' = call
      BY <2>4 DEF Statement
    <3> QED
      BY <1>2, <2>a, <3>1, QuietNames DEF Naming
  <2>5. CASE GiveUp(t)
    <3>1. db' = db /\ raced' = raced /\ stage'[t] = "failed"
      BY <2>5, LeaveFacts DEF GiveUp, Rollback, TypeInv
    <3> QED
      BY <1>2, <2>a, <3>1, QuietNames DEF Naming
  <2>6. CASE Commit(t)
    BY <2>6, CommitNames
  <2>7. CASE Activate(t)
    <3>1. /\ db' = db \/ AgentWrites
          /\ raced' = raced /\ stage'[t] = "committed"
      BY <2>7 DEF Activate, AgentWrites, Table!Statuses, TypeInv, TypeOK
    <3> QED
      BY <1>2, <2>a, <3>1, QuietNames DEF Naming
  <2>8. CASE Return(t)
    <3>1. db' = db /\ raced' = raced /\ stage'[t] = "idle"
      BY <2>8, LeaveFacts DEF Return, TypeInv
    <3> QED
      BY <1>2, <2>a, <3>1, QuietNames DEF Naming
  <2> QED
    BY <1>2, <2>1, <2>2, <2>3, <2>4, <2>5, <2>6, <2>7, <2>8 DEF Step
<1> QED
  BY <1>1, <1>2 DEF Next, Step

------------------------------------------------------------------------------
(* Licences *)

(* The deletion of i has been committed and will give the licence back. *)
Owing(t, i) ==
  stage[t] = "committed" /\ call[t].op = "delete" /\ call[t].id = i /\ asset_json[t]

(* Only active devices are counted, but for those that two threads have      *)
(* changed at once; so a deletion that has read a device as not active finds *)
(* no licence of it.                                                         *)
LicInv ==
  /\ \A i \in licensed \cap FirstStored : InitialDb[i].type = "device"
  /\ \A i \in licensed \cap Stored : db[i].status = "active" \/ i \in crossed
  /\ \A i \in licensed : \/ i \in Stored \cup kept \cup unread \cup crossed
                        \/ \E t \in Threads : Owing(t, i)
  /\ \A t \in Threads :
       /\ stage[t] \in {"check", "tx"} /\ call[t].op = "delete" /\ ~asset_json[t]
       /\ call[t].id \in licensed \cap Stored
       => call[t].id \in unread \cup crossed

LEMMA BeginLicences ==
  ASSUME TypeInv, StoreInv, LicInv, NEW t \in Threads, NEW c \in Calls, Begin(t, c)
  PROVE  LicInv'
<1>s. Step(t)
  BY DEF Step
<1>1. \A u \in Threads \ {t} :
        stage'[u] = stage[u] /\ call'[u] = call[u] /\ asset_json'[u] = asset_json[u]
  BY <1>s, Others DEF TypeInv
<1>2. /\ stage[t] = "idle" /\ stage'[t] = "check" /\ call'[t].op = c.op
      /\ call'[t].status = c.status /\ (c.op # "insert" => call'[t].id = c.id)
  BY BeginFacts
<1>3. /\ db' = db /\ Stored' = Stored /\ kept' = kept /\ licensed' = licensed
      /\ crossed' = crossed /\ unread \subseteq unread'
      /\ ~asset_json'[t] => ~MustReturn(c) \/ c.id \in unread'
  BY DEF Begin, getJsonAsset, Stored, TypeInv, TypeOK
<1>4. \A i \in licensed' :
        i \in Stored' \cup kept' \cup unread' \cup crossed' \/ \E u \in Threads : Owing(u, i)'
  <2> SUFFICES ASSUME NEW i \in licensed', i \notin Stored' \cup kept' \cup unread' \cup crossed'
               PROVE  \E u \in Threads : Owing(u, i)'
    OBVIOUS
  <2>1. PICK u \in Threads : Owing(u, i)
    BY <1>3 DEF LicInv
  <2>2. u # t
    BY <1>2, <2>1 DEF Owing
  <2> QED
    BY <1>1, <2>1, <2>2 DEF Owing
<1>5. ASSUME c.op = "delete", ~asset_json'[t], c.id \in licensed \cap Stored
      PROVE  c.id \in unread' \cup crossed'
  <2>1. c.type = InitialDb[c.id].type /\ c.id \in FirstStored
    BY <1>5, CallersFacts
  <2>2. c.type = "device" /\ (db[c.id].status = "active" \/ c.id \in crossed)
    BY <1>5, <2>1 DEF LicInv
  <2> QED
    BY <1>3, <1>5, <2>2 DEF MustReturn
<1>6. ASSUME NEW u \in Threads, stage'[u] \in {"check", "tx"}, call'[u].op = "delete",
             ~asset_json'[u], call'[u].id \in licensed' \cap Stored'
      PROVE  call'[u].id \in unread' \cup crossed'
  <2>1. CASE u = t
    BY <1>2, <1>3, <1>5, <1>6, <2>1
  <2>2. CASE u # t
    BY <1>1, <1>3, <1>6, <2>2 DEF LicInv
  <2> QED
    BY <2>1, <2>2
<1> QED
  BY <1>3, <1>4, <1>6 DEF LicInv

(* A step that changes nothing but the statement a thread is at. *)
LEMMA QuietLicences ==
  ASSUME TypeInv, LicInv, NEW t \in Threads, Step(t), db' = db, call' = call,
         asset_json' = asset_json, lost' = lost, licensed' = licensed,
         stage[t] \in {"check", "tx"}
  PROVE  LicInv'
<1>1. \A u \in Threads \ {t} : stage'[u] = stage[u]
  BY Others DEF TypeInv
<1>2. Stored' = Stored /\ kept' = kept /\ unread' = unread /\ crossed' = crossed
  BY DEF Stored, lost
<1>3. \A u \in Threads, i \in licensed : Owing(u, i) => Owing(u, i)'
  BY <1>1 DEF Owing
<1>4. ASSUME NEW u \in Threads, stage'[u] \in {"check", "tx"}, call[u].op = "delete"
      PROVE  stage[u] \in {"check", "tx"}
  BY <1>1, <1>4
<1> QED
  BY <1>2, <1>3, <1>4 DEF LicInv

LEMMA CommitLicences ==
  ASSUME TypeInv, StoreInv, LicInv, NEW t \in Threads, Commit(t)
  PROVE  LicInv'
<1> DEFINE c == call[t]
<1>s. Step(t)
  BY DEF Step
<1>1. \A u \in Threads \ {t} : stage'[u] = stage[u]
  BY <1>s, Others DEF TypeInv
<1>2. /\ stage[t] = "tx" /\ stage'[t] = (IF c.activate THEN "activate" ELSE "committed")
      /\ call' = call /\ kept' = kept /\ unread' = unread
      /\ licensed' = licensed /\ asset_json' = asset_json
      /\ crossed' = crossed \cup {i \in licensed : i = c.id /\ work[t].status = "nonactive"
                                                            /\ c.op # "delete"}
  BY LeaveFacts DEF Commit, TypeInv
<1>3. /\ c.id \in Ids /\ db'[c.id] = work[t] /\ work[t] \in Table!Asset
      /\ \A i \in Ids \ {c.id} : db'[i].type = db[i].type /\ db'[i].status = db[i].status
  BY CommitRows DEF TypeInv, TypeOK
<1>a. c \in Table!Call
  BY CommitApplies
<1>b. c.op \in {"insert", "update", "delete"} /\ c.type # "vacant"
  BY <1>a DEF Table!Call, Table!Types
<1>c. work[t].status \in {"active", "nonactive"}
  BY <1>3 DEF Table!Asset, Table!Statuses
<1>d. c.op = "delete" => work[t].type = "vacant"
  BY CommitApplies DEF Table!Vacant
<1>e. c.op = "update" => work[t].type # "vacant" /\ c.id \in Stored
  BY <1>b, CommitApplies DEF Table!Legal, Stored
<1>f. c.op = "insert" => c.id \notin FirstStored
  BY <1>2 DEF StoreInv, CallInv
<1>4. /\ c.op \in {"insert", "update", "delete"}
      /\ c.op = "delete" => work[t].type = "vacant"
      /\ c.op = "update" => work[t].type # "vacant" /\ c.id \in Stored
      /\ c.op = "insert" => c.id \notin FirstStored
      /\ work[t].status \in {"active", "nonactive"}
  BY <1>b, <1>c, <1>d, <1>e, <1>f
<1>5. /\ Stored' \subseteq Ids /\ Stored \subseteq Ids
      /\ \A i \in Ids \ {c.id} : i \in Stored' <=> i \in Stored
      /\ c.op = "delete" => c.id \notin Stored'
      /\ c.op = "update" => c.id \in Stored /\ c.id \in Stored'
  BY <1>3, <1>4 DEF Stored, Table!Stored
<1>6. /\ ~c.activate \/ c.op # "delete"
      /\ \A u \in Threads : call[u].op = "delete" => call[u].id \in FirstStored
      /\ c.op = "delete" /\ ~asset_json[t] /\ c.id \in licensed \cap Stored =>
           c.id \in unread \cup crossed
  <2>1. \A u \in Threads : call[u].op = "delete" => call[u].id \in FirstStored
    BY DEF StoreInv, CallInv
  <2>2. c.activate => c.op # "delete"
    BY DEF StoreInv, CallInv
  <2> QED
    BY <1>2, <2>1, <2>2 DEF LicInv
<1> HIDE DEF c
<1>7. \A i \in licensed \cap Stored' : db'[i].status = "active" \/ i \in crossed'
  <2> SUFFICES ASSUME NEW i \in licensed \cap Stored' PROVE db'[i].status = "active" \/ i \in crossed'
    OBVIOUS
  <2>1. CASE i = c.id
    BY <1>2, <1>3, <1>4, <1>5, <2>1
  <2>2. CASE i # c.id
    BY <1>2, <1>3, <1>5, <2>2 DEF LicInv
  <2> QED
    BY <2>1, <2>2
<1>8. \A i \in licensed :
        i \in Stored' \cup kept' \cup unread' \cup crossed' \/ \E u \in Threads : Owing(u, i)'
  <2> SUFFICES ASSUME NEW i \in licensed, i \notin Stored' \cup kept' \cup unread' \cup crossed'
               PROVE  \E u \in Threads : Owing(u, i)'
    OBVIOUS
  <2>1. CASE i \in Stored
    <3>1. i = c.id /\ i \notin Stored'
      BY <1>5, <2>1
    <3>2. CASE c.op = "delete"
      <4>1. asset_json[t] /\ stage'[t] = "committed"
        BY <1>2, <1>6, <2>1, <3>1, <3>2
      <4> QED
        BY <1>2, <3>1, <3>2, <4>1 DEF Owing, c
    <3>3. CASE c.op = "insert"
      <4>1. i \in Stored'
        BY CommitApplies, <1>3, <3>1, <3>3 DEF c, Stored, Table!Stored, Table!Call, Table!Types
      <4> QED
        BY <3>1, <4>1
    <3> QED
      BY <1>4, <1>5, <3>1, <3>2, <3>3
  <2>2. CASE i \notin Stored
    <3>1. PICK u \in Threads : Owing(u, i)
      BY <1>2, <2>2 DEF LicInv
    <3>2. u # t
      BY <1>2, <3>1 DEF Owing
    <3> QED
      BY <1>1, <1>2, <3>1, <3>2 DEF Owing
  <2> QED
    BY <2>1, <2>2
<1>9. ASSUME NEW u \in Threads, stage'[u] \in {"check", "tx"}, call'[u].op = "delete",
             ~asset_json'[u], call'[u].id \in licensed' \cap Stored'
      PROVE  call'[u].id \in unread' \cup crossed'
  <2>1. u # t /\ stage[u] \in {"check", "tx"}
    BY <1>1, <1>2, <1>9
  <2>2. call[u].id \in licensed \cap Stored
    BY <1>2, <1>4, <1>5, <1>6, <1>9
  <2> QED
    BY <1>2, <1>9, <2>1, <2>2 DEF LicInv
<1> QED
  BY <1>2, <1>7, <1>8, <1>9 DEF LicInv

(* The agent takes a licence back, or counts one more. *)
LEMMA DeactivateLicences ==
  ASSUME TypeInv, StoreInv, LicInv, NEW t \in Threads, Deactivate(t)
  PROVE  LicInv'
<1> DEFINE i == call[t].id
<1>s. Step(t)
  BY DEF Step
<1>1. \A u \in Threads \ {t} : stage'[u] = stage[u]
  BY <1>s, Others DEF TypeInv
<1>2. /\ stage[t] = "deactivate" /\ i \in Ids /\ call' = call /\ asset_json' = asset_json
      /\ kept' = kept /\ unread' = unread /\ crossed' = crossed
  BY DEF Deactivate, lost, TypeInv
<1>3. call[t].op = "update"
  BY <1>2 DEF StoreInv, CallInv
<1>4. \A u \in Threads, j \in licensed : Owing(u, j) => Owing(u, j)'
  BY <1>1, <1>2 DEF Owing
<1>5. \A u \in Threads : stage'[u] \in {"check", "tx"} /\ call[u].op = "delete" =>
                           stage[u] \in {"check", "tx"}
  BY <1>1, <1>3
<1>6. CASE db' = db /\ licensed' \subseteq licensed
  <2>1. Stored' = Stored
    BY <1>6 DEF Stored
  <2> QED
    BY <1>2, <1>4, <1>5, <1>6, <2>1 DEF LicInv
<1>7. CASE /\ licensed' = licensed \ {i} /\ Device(i)
           /\ db' = [db EXCEPT ![i].status = "nonactive"]
  <2>1. Stored' = Stored /\ \A j \in Ids \ {i} : db'[j] = db[j]
    BY <1>2, <1>7, WriteRows DEF Table!Statuses
  <2>2. \A j \in licensed' : j \in licensed /\ j # i
    BY <1>7
  <2>3. \A j \in licensed' \cap Stored' : db'[j].status = "active" \/ j \in crossed'
    <3>1. Stored \subseteq Ids
      BY DEF Stored, Table!Stored
    <3> QED
      BY <1>2, <2>1, <2>2, <3>1 DEF LicInv
  <2> HIDE DEF i
  <2> QED
    BY <1>2, <1>4, <1>5, <2>1, <2>2, <2>3 DEF LicInv
<1> QED
  BY <1>6, <1>7 DEF Deactivate

LEMMA ActivateLicences ==
  ASSUME TypeInv, StoreInv, LicInv, NEW t \in Threads, Activate(t)
  PROVE  LicInv'
<1> DEFINE i == call[t].id
<1>s. Step(t)
  BY DEF Step
<1>1. \A u \in Threads \ {t} : stage'[u] = stage[u]
  BY <1>s, Others DEF TypeInv
<1>2. /\ stage[t] = "activate" /\ stage'[t] = "committed" /\ i \in Ids
      /\ call' = call /\ asset_json' = asset_json /\ kept' = kept /\ unread' = unread
  BY DEF Activate, TypeInv, TypeOK
<1>3. i \in FirstStored => InitialDb[i].type = "device"
  BY <1>2 DEF StoreInv, CallInv
<1>4. \A u \in Threads, j \in licensed : Owing(u, j) => Owing(u, j)'
  BY <1>1, <1>2 DEF Owing
<1>5. \A u \in Threads : stage'[u] \in {"check", "tx"} => u # t /\ stage[u] \in {"check", "tx"}
  BY <1>1, <1>2
<1>6. CASE UNCHANGED <<db, licensed, crossed>>
  <2>1. Stored' = Stored
    BY <1>6 DEF Stored
  <2> QED
    BY <1>2, <1>4, <1>5, <1>6, <2>1 DEF LicInv
<1>7. CASE /\ licensed' = licensed \cup {i}
           /\ IF Device(i) THEN db' = [db EXCEPT ![i].status = "active"] ELSE db' = db
           /\ crossed' = IF BeingDeleted(i) THEN crossed \cup {i} ELSE crossed
  <2>1. /\ Stored' = Stored /\ \A j \in Ids \ {i} : db'[j] = db[j]
        /\ Device(i) => i \in Stored /\ db'[i].status = "active"
    <3>1. CASE Device(i)
      BY <1>2, <1>7, <3>1, WriteRows DEF Table!Statuses
    <3>2. CASE ~Device(i)
      BY <1>7, <3>2 DEF Stored
    <3> QED
      BY <3>1, <3>2
  <2>2. crossed \subseteq crossed' /\ (~Device(i) => i \in crossed')
    BY <1>7 DEF BeingDeleted
  <2>3. Stored \subseteq Ids
    BY DEF Stored, Table!Stored
  <2>4. ASSUME NEW u \in Threads, stage'[u] \in {"check", "tx"}, call'[u].op = "delete",
               ~asset_json'[u], call'[u].id \in licensed' \cap Stored'
        PROVE  call'[u].id \in unread' \cup crossed'
    <3>1. stage[u] \in {"check", "tx"} /\ call[u].op = "delete" /\ ~asset_json[u]
      BY <1>2, <1>5, <2>4
    <3>2. CASE call[u].id = i
      BY <1>2, <1>7, <3>1, <3>2 DEF BeingDeleted
    <3>3. CASE call[u].id # i
      BY <1>2, <1>7, <2>1, <2>2, <2>4, <3>1, <3>3 DEF LicInv
    <3> QED
      BY <3>2, <3>3
  <2> HIDE DEF i
  <2>5. \A j \in licensed' \cap Stored' : db'[j].status = "active" \/ j \in crossed'
    BY <1>7, <2>1, <2>2, <2>3 DEF LicInv
  <2>6. \A j \in licensed' :
          j \in Stored' \cup kept' \cup unread' \cup crossed' \/ \E u \in Threads : Owing(u, j)'
    BY <1>2, <1>4, <1>7, <2>1, <2>2 DEF LicInv
  <2>7. \A j \in licensed' \cap FirstStored : InitialDb[j].type = "device"
    BY <1>3, <1>7 DEF LicInv
  <2> QED
    BY <2>4, <2>5, <2>6, <2>7 DEF LicInv
<1> QED
  BY <1>6, <1>7 DEF Activate

LEMMA ReturnLicences ==
  ASSUME TypeInv, LicInv, NEW t \in Threads, Return(t)
  PROVE  LicInv'
<1>s. Step(t)
  BY DEF Step
<1>1. \A u \in Threads \ {t} : stage'[u] = stage[u]
  BY <1>s, Others DEF TypeInv
<1>2. /\ stage'[t] = "idle" /\ call' = call /\ db' = db /\ asset_json' = asset_json
      /\ unread' = unread /\ crossed' = crossed /\ Stored' = Stored
  BY LeaveFacts DEF Return, TypeInv, Stored
<1>3. /\ licensed' \subseteq licensed /\ kept \subseteq kept'
      /\ stage[t] = "committed" /\ asset_json[t] =>
           call[t].id \notin licensed' \/ call[t].id \in kept'
  <2>1. CASE stage[t] = "committed" /\ GiveBack(t)
    BY <2>1 DEF GiveBack
  <2>2. CASE stage[t] = "failed" /\ UNCHANGED <<licensed, kept, failures>>
    BY <2>2
  <2> QED
    BY <2>1, <2>2 DEF Return
<1>4. \A i \in licensed' :
        i \in Stored' \cup kept' \cup unread' \cup crossed' \/ \E u \in Threads : Owing(u, i)'
  <2> SUFFICES ASSUME NEW i \in licensed', i \notin Stored' \cup kept' \cup unread' \cup crossed'
               PROVE  \E u \in Threads : Owing(u, i)'
    OBVIOUS
  <2>1. PICK u \in Threads : Owing(u, i)
    BY <1>2, <1>3 DEF LicInv
  <2>2. u # t
    BY <1>3, <2>1 DEF Owing
  <2> QED
    BY <1>1, <1>2, <2>1, <2>2 DEF Owing
<1>5. \A u \in Threads : stage'[u] \in {"check", "tx"} => stage[u] \in {"check", "tx"}
  BY <1>1, <1>2
<1> QED
  BY <1>2, <1>3, <1>4, <1>5 DEF LicInv

LEMMA StepLicences == TypeInv /\ StoreInv /\ LicInv /\ [Next]_vars => LicInv'
<1> SUFFICES ASSUME TypeInv, StoreInv, LicInv, [Next]_vars PROVE LicInv'
  OBVIOUS
<1>1. CASE UNCHANGED vars
  BY <1>1 DEF vars, thread, lost, LicInv, Owing, Stored
<1>2. ASSUME NEW t \in Threads, NEW c \in Calls, Begin(t, c) PROVE LicInv'
  BY <1>2, BeginLicences
<1>3. ASSUME NEW t \in Threads, Check(t) PROVE LicInv'
  BY <1>3, QuietLicences DEF Check, Step
<1>4. ASSUME NEW t \in Threads, Deactivate(t) PROVE LicInv'
  BY <1>4, DeactivateLicences
<1>5. ASSUME NEW t \in Threads, Statement(t) PROVE LicInv'
  BY <1>5, QuietLicences DEF Statement, Step
<1>6. ASSUME NEW t \in Threads, GiveUp(t) PROVE LicInv'
  BY <1>6, QuietLicences DEF GiveUp, Rollback, Step
<1>7. ASSUME NEW t \in Threads, Commit(t) PROVE LicInv'
  BY <1>7, CommitLicences
<1>8. ASSUME NEW t \in Threads, Activate(t) PROVE LicInv'
  BY <1>8, ActivateLicences
<1>9. ASSUME NEW t \in Threads, Return(t) PROVE LicInv'
  BY <1>9, ReturnLicences
<1> QED
  BY <1>1, <1>2, <1>3, <1>4, <1>5, <1>6, <1>7, <1>8, <1>9 DEF Next

------------------------------------------------------------------------------
(* Theorems *)

(* The variables have their types, and no lock outlives its transaction.     *)
THEOREM StoreTypeCorrect == Spec => []TypeOK
<1>1. TypeInv => TypeOK
  BY DEF TypeInv
<1> QED
  BY <1>1, TypeInductive, PTL

(* Every call changes the tables in one step or not at all, and its reply    *)
(* tells which.                                                              *)
THEOREM StoreIsAtomic == Spec => Atomic
<1> QED
  BY AtomicInit, AtomicStep, StoreInductive, PTL DEF Spec, Atomic, Table!Spec

(* Two assets share a name only if two threads were giving it to them, by an *)
(* insertion or by renaming, at the same time.                               *)
THEOREM StoreNamesClashOnlyInRaces == Spec => []NamesClashOnlyInRaces
<1>1. Init => NamesInv
  <2> SUFFICES ASSUME Init PROVE NamesInv
    OBVIOUS
  <2>1. db = InitialDb /\ Stored = FirstStored /\ \A t \in Threads : stage[t] = "idle"
    BY InitFacts
  <2> QED
    BY <2>1, CallersFacts DEF NamesInv, NamesClashOnlyInRaces, Naming
<1>2. NamesInv => NamesClashOnlyInRaces
  BY DEF NamesInv
<1> QED
  BY <1>1, <1>2, StepNames, StoreInductive, PTL DEF Spec

(* The licence of a deleted device is given back before its deletion replies *)
(* success, unless its text could not be read or it was activated meanwhile. *)
THEOREM StoreReturnsLicences == Spec => []LicencesReturned
<1>1. Init => LicInv
  <2> SUFFICES ASSUME Init PROVE LicInv
    OBVIOUS
  <2>1. /\ Stored = FirstStored /\ db = InitialDb /\ \A t \in Threads : stage[t] = "idle"
        /\ licensed = {i \in Stored \ {RC0} : db[i].type = "device" /\ db[i].status = "active"}
    BY InitFacts DEF Init
  <2> QED
    BY <2>1 DEF LicInv, Running
<1>2. LicInv => LicencesReturned
  BY DEF LicInv, LicencesReturned, Owing
<1> QED
  BY <1>1, <1>2, StepLicences, StoreInductive, PTL DEF Spec
==============================================================================
