------------------------------- MODULE SseFeed -------------------------------
(***************************************************************************)
(* One server-sent-events session of the REST server (class Sse and the    *)
(* page admin_sse) beside the asset database it filters by and the         *)
(* announcements other requests make (send_configure).                     *)
(*                                                                         *)
(* A session takes two snapshots of the database (the assets below its     *)
(* datacenter, then the devices without a location), only then subscribes  *)
(* to the streams, and from there keeps the two lists up to date from the  *)
(* messages alone.  Requests commit to the database first and announce     *)
(* afterwards, each in its own thread, so announcements of one asset may   *)
(* leave in another order than their commits.                              *)
(*                                                                         *)
(* Abstracted: an asset's row is its location; a JSON payload is the       *)
(* location it shows; a message carries what the session reads of it.      *)
(* The pacing of the loop (timeouts, token, heartbeat) is in SseLoop.      *)
(* Generic messages of the stream SSE only pass through and are left out.  *)
(***************************************************************************)
EXTENDS Naturals, Sequences, FiniteSets

CONSTANTS
  Assets,        \* internal names; a name is never used twice by the database
  Devices,       \* those of type device
  Rules,         \* alert rule names
  AlertStates,   \* pairs (state, severity) an alert can carry
  MaxChanges,    \* bound: commits to the database
  MaxAlerts,     \* bound: alerts published
  MaxRepublish,  \* bound: inventory messages of the asset agent
  MaxFailures    \* bound: failed sends and failed payload reads

ASSUME SseFeedAssumption ==
  /\ Devices \subseteq Assets
  /\ {MaxChanges, MaxAlerts, MaxRepublish, MaxFailures} \subseteq Nat

(* Where an asset is: below the session's datacenter, below another one,   *)
(* nowhere.  Names not yet used, and names of deleted assets, have no row. *)
InDc == "dc"
Elsewhere == "other"
Nowhere == "none"
Locations == {InDc, Elsewhere, Nowhere}
Unborn == "unborn"
Gone == "gone"

Nothing == "nothing"   \* the client was told nothing of the asset or rule
Removed == "removed"   \* the client got an empty payload: remove the asset

VARIABLES
  db,        \* the asset table, [Assets -> Locations \cup {Unborn, Gone}]
  notices,   \* committed changes whose send_configure has not sent yet
  inbox,     \* messages malamute holds for the session's client, oldest first
  pc,        \* where the session is
  subscribed,             \* the streams it consumes
  assetsOfDatacenter,     \* _assetsOfDatacenter
  assetsWithNoLocation,   \* _assetsWithNoLocation
  alertStates,            \* _alertStates
  told,      \* per asset, the last event the client received
  alarm,     \* per rule, the last alarm event the client received
  changes, alerts, republished,  \* counters for the bounds
  dropped,   \* history: <<operation, asset>> of announcements never sent
  missed,    \* history: assets whose removal the session could not hear of
  unread     \* history: assets whose payload could not be built for a message

world   == <<db, notices, changes, dropped>>
lists   == <<assetsOfDatacenter, assetsWithNoLocation>>
client  == <<told, alarm>>
session == <<pc, subscribed, lists, alertStates>>
vars == <<world, inbox, session, client, alerts, republished, missed, unread>>

------------------------------------------------------------------------------
(* Messages, as far as the session looks into them. *)

Ops == {"create", "update", "inventory", "delete"}

AssetMessage(op, a, hasParent, inDc) ==
  [kind |-> "asset", op |-> op, asset |-> a, hasParent |-> hasParent, inDc |-> inDc]
AlertMessage(r, a, s) == [kind |-> "alert", rule |-> r, asset |-> a, state |-> s]

AssetMessages ==
  [kind : {"asset"}, op : Ops, asset : Assets, hasParent : BOOLEAN, inDc : BOOLEAN]
AlertMessages == [kind : {"alert"}, rule : Rules, asset : Assets, state : AlertStates]

(* A change that was committed: id tells the commits apart; inDc is read    *)
(* from the database only when the message is being built (addressed).      *)
Notices ==
  [id : 1..MaxChanges, op : {"create", "update", "delete"}, asset : Assets,
   hasParent : BOOLEAN, addressed : BOOLEAN, inDc : BOOLEAN]

Deliver(stream, m) ==
  inbox' = IF stream \in subscribed THEN Append(inbox, m) ELSE inbox

------------------------------------------------------------------------------
(* Other requests: a commit, then send_configure of the row. *)

Commit(a, op, loc) ==
  /\ changes < MaxChanges
  /\ changes' = changes + 1
  /\ db' = [db EXCEPT ![a] = loc]
  /\ notices' = notices \cup
       {[id |-> changes + 1, op |-> op, asset |-> a, hasParent |-> loc # Nowhere,
         addressed |-> FALSE, inDc |-> FALSE]}
  /\ UNCHANGED <<inbox, session, client, alerts, republished, dropped, missed, unread>>

CreateAsset(a) ==
  /\ db[a] = Unborn
  /\ \E loc \in Locations : Commit(a, "create", loc)

UpdateAsset(a) ==
  /\ db[a] \in Locations
  /\ \E loc \in Locations : Commit(a, "update", loc)

DeleteAsset(a) ==
  /\ db[a] \in Locations
  /\ Commit(a, "delete", Gone)

(* select_asset_element_super_parent: the parents are those of the moment.  *)
AddressNotice(n) ==
  /\ ~n.addressed
  /\ notices' = (notices \ {n}) \cup
       {[n EXCEPT !.addressed = TRUE, !.inDc = (db[n.asset] = InDc)]}
  /\ UNCHANGED <<db, changes, dropped, inbox, session, client, alerts, republished,
                 missed, unread>>

(* History only.  A removal the session cannot learn of: its message leaves *)
(* between the snapshot that listed the asset and the subscription, or      *)
(* another message of the asset leaves after it.                            *)
Unheard(op, a) ==
  /\ db[a] = Gone
  /\ \/ /\ op = "delete" /\ "ASSETS" \notin subscribed
        /\ a \in assetsOfDatacenter \cup assetsWithNoLocation
     \/ /\ op # "delete"
        /\ ~ \E n \in notices : n.asset = a /\ n.op = "delete"

SendNotice(n) ==
  /\ n.addressed
  /\ notices' = notices \ {n}
  /\ Deliver("ASSETS", AssetMessage(n.op, n.asset, n.hasParent, n.inDc))
  /\ missed' = IF Unheard(n.op, n.asset) THEN missed \cup {n.asset} ELSE missed
  /\ UNCHANGED <<db, changes, dropped, session, client, alerts, republished, unread>>

(* send_configure throws: this row is not announced, nor any row after it.  *)
FailNotice(n) ==
  /\ Cardinality(dropped) + Cardinality(unread) < MaxFailures
  /\ notices' = notices \ {n}
  /\ dropped' = dropped \cup {<<n.op, n.asset>>}
  /\ UNCHANGED <<db, changes, inbox, session, client, alerts, republished, missed, unread>>

(* The asset agent republishes a row it has just read. *)
Republish(a) ==
  /\ republished < MaxRepublish
  /\ db[a] \in Locations
  /\ republished' = republished + 1
  /\ Deliver("ASSETS", AssetMessage("inventory", a, db[a] # Nowhere, db[a] = InDc))
  /\ UNCHANGED <<world, session, client, alerts, missed, unread>>

PublishAlert(r, a, s) ==
  /\ alerts < MaxAlerts
  /\ alerts' = alerts + 1
  /\ Deliver("ALERTS", AlertMessage(r, a, s))
  /\ UNCHANGED <<world, session, client, republished, missed, unread>>

------------------------------------------------------------------------------
(* Setting the session up (admin_sse.ecpp before its loop). *)

ReadDatacenter ==
  /\ pc = "readDatacenter"
  /\ assetsOfDatacenter' = {a \in Assets : db[a] = InDc}
  /\ pc' = "readNoLocation"
  /\ UNCHANGED <<world, inbox, subscribed, assetsWithNoLocation, alertStates, client,
                 alerts, republished, missed, unread>>

ReadNoLocation ==
  /\ pc = "readNoLocation"
  /\ assetsWithNoLocation' = {a \in Devices : db[a] = Nowhere}
  /\ pc' = "ALERTS"
  /\ UNCHANGED <<world, inbox, subscribed, assetsOfDatacenter, alertStates, client,
                 alerts, republished, missed, unread>>

(* consumeStream, three times: pc names the stream consumed next. *)
AfterStream == [ALERTS |-> "ASSETS", ASSETS |-> "SSE", SSE |-> "loop"]

ConsumeStream ==
  /\ pc \in DOMAIN AfterStream
  /\ subscribed' = subscribed \cup {pc}
  /\ pc' = AfterStream[pc]
  /\ UNCHANGED <<world, inbox, lists, alertStates, client, alerts, republished, missed,
                 unread>>

(* http_die during the setup, any of the breaks of the loop, or its end:    *)
(* the client object goes, and what it had not received with it.            *)
Close ==
  /\ pc # "closed"
  /\ pc' = "closed"
  /\ subscribed' = {}
  /\ inbox' = <<>>
  /\ UNCHANGED <<world, lists, alertStates, client, alerts, republished, missed, unread>>

------------------------------------------------------------------------------
(* changeFtyProtoAsset2Json *)

Listed(a) == a \in assetsOfDatacenter
Unplaced(a) == a \in assetsWithNoLocation /\ ~Listed(a)

(* Mutant: the removal is not put in json. *)
TellRemoved_Forgotten(a) == UNCHANGED <<told, unread>>

TellRemoved(a) ==
  /\ told' = [told EXCEPT ![a] = Removed]
  /\ UNCHANGED unread

(* Mutants: the row is not looked up first; an asset shown once is not      *)
(* shown again, as alerts are not.                                          *)
TellPayload_Unchecked(a) == told' = [told EXCEPT ![a] = db[a]] /\ UNCHANGED unread
TellPayload_Once(a) ==
  /\ told' = [told EXCEPT ![a] = IF db[a] \in Locations /\ @ \notin Locations THEN db[a] ELSE @]
  /\ UNCHANGED unread

(* The payload shows the row of the moment it is built. *)
getJsonAsset(a) == db[a]

(* No row, no event; a database error leaves the payload empty. *)
TellPayload(a) ==
  \/ /\ db[a] \in Locations
     /\ told' = [told EXCEPT ![a] = getJsonAsset(a)]
     /\ UNCHANGED unread
  \/ /\ db[a] \in Locations
     /\ Cardinality(dropped) + Cardinality(unread) < MaxFailures
     /\ unread' = unread \cup {a}
     /\ UNCHANGED told
  \/ /\ db[a] \notin Locations
     /\ UNCHANGED <<told, unread>>

TellNothing == UNCHANGED <<told, unread>>

(* Mutants: the other list is searched first; nothing is erased. *)
Erase_WrongFirst(a) ==
  IF a \in assetsWithNoLocation
  THEN assetsWithNoLocation' = assetsWithNoLocation \ {a} /\ UNCHANGED assetsOfDatacenter
  ELSE assetsOfDatacenter' = assetsOfDatacenter \ {a} /\ UNCHANGED assetsWithNoLocation
Erase_Nothing(a) == UNCHANGED lists

Erase(a) ==
  IF Listed(a)
  THEN assetsOfDatacenter' = assetsOfDatacenter \ {a} /\ UNCHANGED assetsWithNoLocation
  ELSE assetsWithNoLocation' = assetsWithNoLocation \ {a} /\ UNCHANGED assetsOfDatacenter

OnDelete(m) ==
  /\ m.op = "delete"
  /\ Erase(m.asset)
  /\ IF Listed(m.asset) \/ Unplaced(m.asset) THEN TellRemoved(m.asset) ELSE TellNothing

(* A listed asset stays listed wherever it moved; one without a location is *)
(* placed or, placed elsewhere, given up; any other is skipped.             *)
OnUpdate(m) ==
  /\ m.op \in {"update", "inventory"}
  /\ \/ /\ Listed(m.asset)
        /\ UNCHANGED lists
        /\ TellPayload(m.asset)
     \/ /\ Unplaced(m.asset)
        /\ assetsWithNoLocation' = assetsWithNoLocation \ {m.asset}
        /\ IF m.inDc
           THEN /\ assetsOfDatacenter' = assetsOfDatacenter \cup {m.asset}
                /\ TellPayload(m.asset)
           ELSE /\ UNCHANGED assetsOfDatacenter
                /\ TellRemoved(m.asset)
     \/ /\ ~Listed(m.asset) /\ ~Unplaced(m.asset)
        /\ UNCHANGED lists
        /\ TellNothing

(* Mutant: a created asset joins the other list. *)
OnCreate_Swapped(m) ==
  /\ m.op = "create"
  /\ assetsWithNoLocation' = assetsWithNoLocation \cup {m.asset}
  /\ UNCHANGED assetsOfDatacenter
  /\ TellPayload(m.asset)

OnCreate(m) ==
  /\ m.op = "create"
  /\ \/ /\ ~m.hasParent /\ m.asset \in Devices
        /\ assetsWithNoLocation' = assetsWithNoLocation \cup {m.asset}
        /\ UNCHANGED assetsOfDatacenter
        /\ TellPayload(m.asset)
     \/ /\ m.hasParent /\ m.inDc
        /\ assetsOfDatacenter' = assetsOfDatacenter \cup {m.asset}
        /\ UNCHANGED assetsWithNoLocation
        /\ TellPayload(m.asset)
     \/ /\ IF m.hasParent THEN ~m.inDc ELSE m.asset \notin Devices
        /\ UNCHANGED lists
        /\ TellNothing

Receive(kind) == pc = "loop" /\ inbox # <<>> /\ Head(inbox).kind = kind

HandleAsset ==
  /\ Receive("asset")
  /\ inbox' = Tail(inbox)
  /\ \/ OnDelete(Head(inbox))
     \/ OnUpdate(Head(inbox))
     \/ OnCreate(Head(inbox))
  /\ UNCHANGED <<world, pc, subscribed, alertStates, alarm, alerts, republished, missed>>

------------------------------------------------------------------------------
(* changeFtyProtoAlert2Json; getJsonAlert needs the asset's row, and any     *)
(* database error leaves its payload empty.                                 *)

shouldPublishAlert(m) == alertStates[m.rule] # m.state

(* Mutant: the state is remembered although no payload could be built. *)
TellAlert_RememberedFirst(m) ==
  /\ shouldPublishAlert(m)
  /\ alertStates' = [alertStates EXCEPT ![m.rule] = m.state]
  /\ alarm' = IF db[m.asset] \in Locations THEN [alarm EXCEPT ![m.rule] = m.state] ELSE alarm

TellAlert(m) ==
  /\ db[m.asset] \in Locations
  /\ shouldPublishAlert(m)
  /\ alertStates' = [alertStates EXCEPT ![m.rule] = m.state]
  /\ alarm' = [alarm EXCEPT ![m.rule] = m.state]

HandleAlert ==
  /\ Receive("alert")
  /\ inbox' = Tail(inbox)
  /\ \/ Listed(Head(inbox).asset) /\ TellAlert(Head(inbox))
     \/ UNCHANGED <<alertStates, alarm>>
  /\ UNCHANGED <<world, pc, subscribed, lists, told, alerts, republished, missed, unread>>

------------------------------------------------------------------------------
Init ==
  /\ db \in [Assets -> Locations \cup {Unborn}]
  /\ notices = {} /\ inbox = <<>>
  /\ pc = "readDatacenter" /\ subscribed = {}
  /\ assetsOfDatacenter = {} /\ assetsWithNoLocation = {}
  /\ alertStates = [r \in Rules |-> Nothing]
  /\ told = [a \in Assets |-> Nothing] /\ alarm = [r \in Rules |-> Nothing]
  /\ changes = 0 /\ alerts = 0 /\ republished = 0
  /\ dropped = {} /\ missed = {} /\ unread = {}

Change == \E a \in Assets : CreateAsset(a) \/ UpdateAsset(a) \/ DeleteAsset(a)
Announce == \E n \in notices : AddressNotice(n) \/ SendNotice(n)
Lose == \E n \in notices : FailNotice(n)
Publish == \E a \in Assets :
             \/ Republish(a)
             \/ \E r \in Rules, s \in AlertStates : PublishAlert(r, a, s)
Setup == ReadDatacenter \/ ReadNoLocation \/ ConsumeStream
Handle == HandleAsset \/ HandleAlert

(* The world goes on after the session, but nothing here looks at it. *)
Next == pc # "closed" /\ (Change \/ Announce \/ Lose \/ Publish \/ Setup \/ Handle \/ Close)

Spec == Init /\ [][Next]_vars

(* A thread that committed goes on to announce, and the session works       *)
(* through its setup and its inbox; nobody has to change anything.          *)
FairSpec == Spec /\ WF_vars(Announce) /\ WF_vars(Setup) /\ WF_vars(Handle)

------------------------------------------------------------------------------
(* Properties *)

TypeOK ==
  /\ db \in [Assets -> Locations \cup {Unborn, Gone}]
  /\ notices \subseteq Notices
  /\ inbox \in Seq(AssetMessages \cup AlertMessages)
  /\ pc \in {"readDatacenter", "readNoLocation", "loop", "closed"} \cup DOMAIN AfterStream
  /\ subscribed \subseteq DOMAIN AfterStream
  /\ assetsOfDatacenter \subseteq Assets /\ assetsWithNoLocation \subseteq Assets
  /\ alertStates \in [Rules -> AlertStates \cup {Nothing}]
  /\ told \in [Assets -> Locations \cup {Nothing, Removed}]
  /\ alarm \in [Rules -> AlertStates \cup {Nothing}]
  /\ changes \in 0..MaxChanges /\ alerts \in 0..MaxAlerts
  /\ republished \in 0..MaxRepublish
  /\ dropped \subseteq Ops \X Assets /\ missed \subseteq Assets /\ unread \subseteq Assets

Pending(a, ops) == \E n \in notices : n.asset = a /\ n.op \in ops
InInbox(a, ops) == \E i \in 1..Len(inbox) :
                     inbox[i].kind = "asset" /\ inbox[i].asset = a /\ inbox[i].op \in ops

(* Every asset the client was shown and not told to remove is in one of the *)
(* two lists: the handlers drop the messages of assets in neither, so an    *)
(* asset shown but unlisted would stay on the client's screen for good.     *)
ShownIsListed ==
  \A a \in Assets : told[a] \in Locations => a \in assetsOfDatacenter \cup assetsWithNoLocation

(* What the client was last shown of an asset is what the database holds,   *)
(* or a message about the asset is still to be sent or handled: requests    *)
(* may announce in any order, because the payload is read when a message is *)
(* handled.  The exceptions are a send_configure that failed and a payload  *)
(* the session could not read.                                              *)
StaleIsOnItsWay ==
  pc # "closed" =>
    \A a \in Assets :
      told[a] \in Locations /\ told[a] # db[a] =>
        \/ Pending(a, Ops) \/ InInbox(a, Ops)
        \/ a \in unread \/ \E op \in Ops : <<op, a>> \in dropped

(* The list that filters alerts and updates holds no deleted asset, except  *)
(* while its removal is on its way, or after one of three losses: nobody    *)
(* sent it, it was sent between the snapshot and the subscription, or a     *)
(* message of another request overtook it.                                  *)
GhostsAreAnnounced ==
  pc # "closed" =>
    \A a \in assetsOfDatacenter :
      db[a] = Gone =>
        \/ Pending(a, {"delete"}) \/ InInbox(a, {"delete"})
        \/ a \in missed \/ <<"delete", a>> \in dropped

(* The session's memory of alerts is what the client was told: an alert is  *)
(* held back only if the client has that very state of its rule already.    *)
AlertsRemembered == alertStates = alarm

(* A deleted asset leaves the filtering list, with the same exceptions.     *)
DeletedIsUnlisted ==
  \A a \in Assets :
    db[a] = Gone ~> \/ a \notin assetsOfDatacenter \/ pc = "closed"
                    \/ a \in missed \/ <<"delete", a>> \in dropped

(* An asset created in the datacenter once the session listens is listed,   *)
(* unless it moves, goes, or is never announced: a creation is the only     *)
(* message that lists an asset which was elsewhere before, so one that is   *)
(* missed hides the asset and its alerts from the session for good.         *)
NewcomersAreListed ==
  \A a \in Assets :
    (/\ db[a] = InDc /\ "ASSETS" \in subscribed
     /\ \E n \in notices : n.asset = a /\ n.op = "create" /\ n.hasParent /\ ~n.addressed)
    ~> \/ a \in assetsOfDatacenter \/ db[a] # InDc \/ pc = "closed"
       \/ <<"create", a>> \in dropped
==============================================================================
