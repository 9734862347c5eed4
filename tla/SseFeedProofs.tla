---------------------------- MODULE SseFeedProofs ----------------------------
(***************************************************************************)
(* What holds of an SSE session for any set of assets, rules and alert     *)
(* states and any number of changes, failures and messages.                *)
(*                                                                         *)
(* ShownIsListed and AlertsRemembered are inductive once types are known.  *)
(* StaleIsOnItsWay is not: that a handler may drop a message depends on    *)
(* which message can still be the last word about an asset.  FreshInv says *)
(* so: an outdated payload waits for an update, and a payload of a deleted *)
(* asset for the removal, never for a creation.                            *)
(*                                                                         *)
(* Nor is GhostsAreAnnounced: a message of a deleted asset may list it     *)
(* again, so GhostInv also says that a removal follows every such message  *)
(* in the inbox.                                                           *)
(***************************************************************************)
EXTENDS SseFeed, TLAPS

LEMMA MessageTypes ==
  ASSUME NEW a \in Assets, NEW p \in BOOLEAN, NEW d \in BOOLEAN
  PROVE  /\ \A op \in Ops : AssetMessage(op, a, p, d) \in AssetMessages
         /\ \A r \in Rules, s \in AlertStates : AlertMessage(r, a, s) \in AlertMessages
BY DEF AssetMessage, AlertMessage, AssetMessages, AlertMessages

LEMMA DeliverType ==
  ASSUME TypeOK, NEW stream, NEW m \in AssetMessages \cup AlertMessages, Deliver(stream, m)
  PROVE  inbox' \in Seq(AssetMessages \cup AlertMessages)
BY DEF Deliver, TypeOK

(* A message of kind "asset" is an asset message, and likewise for alerts. *)
LEMMA ReceiveType ==
  ASSUME TypeOK, NEW k \in {"asset", "alert"}, Receive(k)
  PROVE  /\ inbox # <<>> /\ pc = "loop"
         /\ Tail(inbox) \in Seq(AssetMessages \cup AlertMessages)
         /\ k = "asset" => Head(inbox) \in AssetMessages
         /\ k = "alert" => Head(inbox) \in AlertMessages
<1>1. inbox # <<>> /\ pc = "loop" /\ Head(inbox).kind = k
  BY DEF Receive
<1>2. Head(inbox) \in AssetMessages \cup AlertMessages
  BY <1>1 DEF TypeOK
<1>3. Tail(inbox) \in Seq(AssetMessages \cup AlertMessages)
  BY <1>1 DEF TypeOK
<1> QED
  BY <1>1, <1>2, <1>3 DEF AssetMessages, AlertMessages

(* The initial states are well typed. *)
LEMMA InitType == Init => TypeOK
<1> SUFFICES ASSUME Init PROVE TypeOK
  OBVIOUS
<1> USE SseFeedAssumption
<1>1. {0} \subseteq Nat /\ inbox \in Seq(AssetMessages \cup AlertMessages)
  BY DEF Init
<1> QED
  BY <1>1 DEF Init, TypeOK, AfterStream

LEMMA ChangeType ==
  ASSUME TypeOK, NEW a \in Assets, CreateAsset(a) \/ UpdateAsset(a) \/ DeleteAsset(a)
  PROVE  TypeOK'
<1>1. PICK op \in {"create", "update", "delete"}, loc \in Locations \cup {Gone} :
        Commit(a, op, loc)
  BY DEF CreateAsset, UpdateAsset, DeleteAsset
<1>2. changes + 1 \in 1..MaxChanges /\ changes' = changes + 1
  BY <1>1, SseFeedAssumption DEF Commit, TypeOK
<1>3. notices' \subseteq Notices
  <2> DEFINE n == [id |-> changes + 1, op |-> op, asset |-> a, hasParent |-> loc # Nowhere,
                   addressed |-> FALSE, inDc |-> FALSE]
  <2>1. n \in Notices
    BY <1>2 DEF Notices
  <2>2. notices' = notices \cup {n}
    BY <1>1 DEF Commit
  <2> QED
    BY <2>1, <2>2 DEF TypeOK
<1>4. db' \in [Assets -> Locations \cup {Unborn, Gone}]
  BY <1>1 DEF Commit, TypeOK
<1> QED
  BY <1>1, <1>2, <1>3, <1>4 DEF Commit, TypeOK, session, client, lists

LEMMA AnnounceType ==
  ASSUME TypeOK, NEW n \in notices, AddressNotice(n) \/ SendNotice(n) \/ FailNotice(n)
  PROVE  TypeOK'
<1>1. n \in Notices
  BY DEF TypeOK
<1>2. CASE AddressNotice(n)
  <2>1. [n EXCEPT !.addressed = TRUE, !.inDc = (db[n.asset] = InDc)] \in Notices
    BY <1>1 DEF Notices
  <2>2. notices' \subseteq Notices
    BY <1>2, <2>1 DEF AddressNotice, TypeOK
  <2> QED
    BY <1>2, <2>2 DEF AddressNotice, TypeOK, session, client, lists
<1>3. CASE SendNotice(n)
  <2>1. n.asset \in Assets /\ n.op \in Ops /\ n.hasParent \in BOOLEAN /\ n.inDc \in BOOLEAN
    BY <1>1 DEF Notices, Ops
  <2>2. AssetMessage(n.op, n.asset, n.hasParent, n.inDc) \in AssetMessages
    BY <2>1, MessageTypes
  <2>3. inbox' \in Seq(AssetMessages \cup AlertMessages)
    BY <1>3, <2>2, DeliverType DEF SendNotice
  <2> QED
    BY <1>3, <2>1, <2>3 DEF SendNotice, TypeOK, session, client, lists
<1>4. CASE FailNotice(n)
  <2>1. n.asset \in Assets /\ n.op \in Ops
    BY <1>1 DEF Notices, Ops
  <2> QED
    BY <1>4, <2>1 DEF FailNotice, TypeOK, session, client, lists
<1> QED
  BY <1>2, <1>3, <1>4

LEMMA PublishType ==
  ASSUME TypeOK, Publish
  PROVE  TypeOK'
<1>1. ASSUME NEW a \in Assets, Republish(a)
      PROVE  TypeOK'
  <2>1. AssetMessage("inventory", a, db[a] # Nowhere, db[a] = InDc) \in AssetMessages
    BY MessageTypes DEF Ops
  <2>2. inbox' \in Seq(AssetMessages \cup AlertMessages)
    BY <1>1, <2>1, DeliverType DEF Republish
  <2>3. republished' \in 0..MaxRepublish
    BY <1>1, SseFeedAssumption DEF Republish, TypeOK
  <2> QED
    BY <1>1, <2>2, <2>3 DEF Republish, TypeOK, world, session, client, lists
<1>2. ASSUME NEW a \in Assets, NEW r \in Rules, NEW s \in AlertStates, PublishAlert(r, a, s)
      PROVE  TypeOK'
  <2>1. AlertMessage(r, a, s) \in AlertMessages
    BY MessageTypes
  <2>2. inbox' \in Seq(AssetMessages \cup AlertMessages)
    BY <1>2, <2>1, DeliverType DEF PublishAlert
  <2>3. alerts' \in 0..MaxAlerts
    BY <1>2, SseFeedAssumption DEF PublishAlert, TypeOK
  <2> QED
    BY <1>2, <2>2, <2>3 DEF PublishAlert, TypeOK, world, session, client, lists
<1> QED
  BY <1>1, <1>2 DEF Publish

LEMMA SetupType ==
  ASSUME TypeOK, Setup \/ Close
  PROVE  TypeOK'
<1>1. CASE ReadDatacenter
  BY <1>1 DEF ReadDatacenter, TypeOK, world, client, AfterStream
<1>2. CASE ReadNoLocation
  BY <1>2, SseFeedAssumption DEF ReadNoLocation, TypeOK, world, client, AfterStream
<1>3. CASE ConsumeStream
  <2>1. DOMAIN AfterStream = {"ALERTS", "ASSETS", "SSE"} /\ AfterStream[pc] \in {"ASSETS", "SSE", "loop"}
    BY <1>3 DEF ConsumeStream, AfterStream
  <2> QED
    BY <1>3, <2>1 DEF ConsumeStream, TypeOK, world, lists, client
<1>4. CASE Close
  <2>1. <<>> \in Seq(AssetMessages \cup AlertMessages)
    OBVIOUS
  <2> QED
    BY <1>4, <2>1 DEF Close, TypeOK, world, lists, client
<1> QED
  BY <1>1, <1>2, <1>3, <1>4 DEF Setup

(* What the handlers tell keeps the client's view well typed. *)
LEMMA TellType ==
  ASSUME TypeOK, NEW a \in Assets, TellRemoved(a) \/ TellPayload(a) \/ TellNothing
  PROVE  told' \in [Assets -> Locations \cup {Nothing, Removed}] /\ unread' \subseteq Assets
BY DEF TypeOK, TellRemoved, TellPayload, getJsonAsset, TellNothing

LEMMA HandleType ==
  ASSUME TypeOK, Handle
  PROVE  TypeOK'
<1>1. CASE HandleAsset
  <2> DEFINE m == Head(inbox)
  <2>1. m \in AssetMessages /\ Tail(inbox) \in Seq(AssetMessages \cup AlertMessages)
    BY <1>1, ReceiveType DEF HandleAsset
  <2>2. m.asset \in Assets
    BY <2>1 DEF AssetMessages
  <2>3. TellRemoved(m.asset) \/ TellPayload(m.asset) \/ TellNothing
    BY <1>1 DEF HandleAsset, OnDelete, OnUpdate, OnCreate
  <2>4. told' \in [Assets -> Locations \cup {Nothing, Removed}] /\ unread' \subseteq Assets
    BY <2>2, <2>3, TellType
  <2>5. assetsOfDatacenter' \subseteq Assets /\ assetsWithNoLocation' \subseteq Assets
    BY <1>1, <2>2 DEF HandleAsset, OnDelete, OnUpdate, OnCreate, Erase, TypeOK, lists
  <2> QED
    BY <1>1, <2>1, <2>4, <2>5 DEF HandleAsset, TypeOK, world
<1>2. CASE HandleAlert
  <2> DEFINE m == Head(inbox)
  <2>1. m \in AlertMessages /\ Tail(inbox) \in Seq(AssetMessages \cup AlertMessages)
    BY <1>2, ReceiveType DEF HandleAlert
  <2>2. m.rule \in Rules /\ m.state \in AlertStates
    BY <2>1 DEF AlertMessages
  <2>3. /\ alertStates' \in [Rules -> AlertStates \cup {Nothing}]
        /\ alarm' \in [Rules -> AlertStates \cup {Nothing}]
    BY <1>2, <2>2 DEF HandleAlert, TellAlert, TypeOK
  <2> QED
    BY <1>2, <2>1, <2>3 DEF HandleAlert, TypeOK, world, lists
<1> QED
  BY <1>1, <1>2 DEF Handle

LEMMA StutterType == TypeOK /\ UNCHANGED vars => TypeOK'
BY DEF TypeOK, vars, world, session, client, lists

LEMMA StepType == TypeOK /\ [Next]_vars => TypeOK'
<1> SUFFICES ASSUME TypeOK, [Next]_vars PROVE TypeOK'
  OBVIOUS
<1>1. CASE Change
  BY <1>1, ChangeType DEF Change
<1>2. CASE Announce \/ Lose
  BY <1>2, AnnounceType DEF Announce, Lose
<1>3. CASE Publish
  BY <1>3, PublishType
<1>4. CASE Setup \/ Close
  BY <1>4, SetupType
<1>5. CASE Handle
  BY <1>5, HandleType
<1>6. CASE UNCHANGED vars
  BY <1>6, StutterType
<1> QED
  BY <1>1, <1>2, <1>3, <1>4, <1>5, <1>6 DEF Next

(* The lists, the messages and the client's view keep their types in every  *)
(* behaviour of the session and of the requests beside it.                  *)
THEOREM TypeCorrect == Spec => []TypeOK
<1>1. Init => TypeOK
  BY InitType
<1>2. TypeOK /\ [Next]_vars => TypeOK'
  BY StepType
<1> QED
  BY <1>1, <1>2, PTL DEF Spec
------------------------------------------------------------------------------
(* The session tells nothing before its loop, and consumes the assets then. *)
PhaseInv ==
  /\ pc \in {"SSE", "loop"} => "ASSETS" \in subscribed
  /\ pc \notin {"loop", "closed"} => \A a \in Assets : told[a] = Nothing

LEMMA InitPhase == Init => PhaseInv
BY DEF Init, PhaseInv

LEMMA StepPhase == TypeOK /\ PhaseInv /\ [Next]_vars => PhaseInv'
<1> SUFFICES ASSUME TypeOK, PhaseInv, [Next]_vars PROVE PhaseInv'
  OBVIOUS
<1> USE DEF PhaseInv
<1>1. ASSUME UNCHANGED <<pc, subscribed, told>> PROVE PhaseInv'
  BY <1>1
<1>2. CASE Change
  BY <1>1, <1>2 DEF Change, CreateAsset, UpdateAsset, DeleteAsset, Commit, session, client
<1>3. CASE Announce \/ Lose
  BY <1>1, <1>3 DEF Announce, Lose, AddressNotice, SendNotice, FailNotice, session, client
<1>4. CASE Publish
  BY <1>1, <1>4 DEF Publish, Republish, PublishAlert, session, client
<1>5. CASE Setup
  BY <1>5 DEF Setup, ReadDatacenter, ReadNoLocation, ConsumeStream, AfterStream, client
<1>6. CASE Close
  BY <1>6 DEF Close
<1>7. CASE Handle
  BY <1>7 DEF Handle, HandleAsset, HandleAlert, Receive
<1>8. CASE UNCHANGED vars
  BY <1>1, <1>8 DEF vars, session, client
<1> QED
  BY <1>2, <1>3, <1>4, <1>5, <1>6, <1>7, <1>8 DEF Next

(* The effect of one handled message on the two lists and the client. *)
LEMMA HandledAsset ==
  ASSUME TypeOK, HandleAsset
  PROVE  LET m == Head(inbox) IN
         /\ m \in AssetMessages /\ m.asset \in Assets /\ pc = "loop"
         /\ \A b \in Assets : b # m.asset =>
              /\ told'[b] = told[b]
              /\ b \in assetsOfDatacenter' <=> b \in assetsOfDatacenter
              /\ b \in assetsWithNoLocation' <=> b \in assetsWithNoLocation
<1> DEFINE m == Head(inbox)
<1>1. m \in AssetMessages /\ pc = "loop"
  BY ReceiveType DEF HandleAsset
<1>2. m.asset \in Assets
  BY <1>1 DEF AssetMessages
<1>3. ASSUME NEW b \in Assets, b # m.asset
      PROVE  told'[b] = told[b]
  <2>1. TellRemoved(m.asset) \/ TellPayload(m.asset) \/ TellNothing
    BY DEF HandleAsset, OnDelete, OnUpdate, OnCreate
  <2> QED
    BY <1>2, <1>3, <2>1 DEF TellRemoved, TellPayload, getJsonAsset, TellNothing, TypeOK
<1>4. ASSUME NEW b \in Assets, b # m.asset
      PROVE  /\ b \in assetsOfDatacenter' <=> b \in assetsOfDatacenter
             /\ b \in assetsWithNoLocation' <=> b \in assetsWithNoLocation
  BY <1>4 DEF HandleAsset, OnDelete, OnUpdate, OnCreate, Erase, lists
<1> QED
  BY <1>1, <1>2, <1>3, <1>4

LEMMA InitShown == Init => ShownIsListed
BY DEF Init, ShownIsListed, Locations, Nothing, InDc, Elsewhere, Nowhere

LEMMA StepShown == TypeOK /\ PhaseInv /\ ShownIsListed /\ [Next]_vars => ShownIsListed'
<1> SUFFICES ASSUME TypeOK, PhaseInv, ShownIsListed, [Next]_vars,
                    NEW b \in Assets, told'[b] \in Locations
             PROVE  b \in assetsOfDatacenter' \cup assetsWithNoLocation'
  BY DEF ShownIsListed
<1> DEFINE Kept == UNCHANGED <<told, assetsOfDatacenter, assetsWithNoLocation>>
<1>1. ASSUME Kept PROVE b \in assetsOfDatacenter' \cup assetsWithNoLocation'
  BY <1>1 DEF ShownIsListed
<1>2. CASE Change
  <2>1. Kept
    BY <1>2 DEF Change, CreateAsset, UpdateAsset, DeleteAsset, Commit, session, client, lists
  <2> QED
    BY <1>1, <2>1
<1>3. CASE Announce \/ Lose
  <2>1. Kept
    BY <1>3 DEF Announce, Lose, AddressNotice, SendNotice, FailNotice, session, client, lists
  <2> QED
    BY <1>1, <2>1
<1>4. CASE Publish
  <2>1. Kept
    BY <1>4 DEF Publish, Republish, PublishAlert, session, client, lists
  <2> QED
    BY <1>1, <2>1
<1>5. CASE Setup
  <2>1. told' = told /\ pc \notin {"loop", "closed"}
    BY <1>5 DEF Setup, ReadDatacenter, ReadNoLocation, ConsumeStream, AfterStream, client
  <2> QED
    BY <2>1 DEF PhaseInv, Nothing, Locations, InDc, Elsewhere, Nowhere
<1>6. CASE Close
  <2>1. Kept
    BY <1>6 DEF Close, client, lists
  <2> QED
    BY <1>1, <2>1
<1>7. CASE HandleAsset
  <2> DEFINE m == Head(inbox)
  <2>1. m.asset \in Assets
    BY <1>7, HandledAsset
  <2>2. CASE b # m.asset
    BY <1>7, <2>2, HandledAsset DEF ShownIsListed
  <2>3. CASE b = m.asset
    <3>1. CASE OnDelete(m)
      <4>1. Listed(b) \/ Unplaced(b) => told'[b] = Removed
        BY <2>1, <2>3, <3>1 DEF OnDelete, TellRemoved, TypeOK
      <4>2. Listed(b) \/ Unplaced(b)
        BY <2>3, <3>1 DEF OnDelete, TellNothing, ShownIsListed, Listed, Unplaced
      <4> QED
        BY <4>1, <4>2 DEF Removed, Locations, InDc, Elsewhere, Nowhere
    <3>2. CASE OnUpdate(m)
      <4>1. TellRemoved(b) => told'[b] = Removed
        BY <2>1, <2>3 DEF TellRemoved, TypeOK
      <4>2. ~TellRemoved(b)
        BY <4>1 DEF Removed, Locations, InDc, Elsewhere, Nowhere
      <4> QED
        BY <2>3, <3>2, <4>2 DEF OnUpdate, Listed, Unplaced, TellNothing, ShownIsListed, lists
    <3>3. CASE OnCreate(m)
      BY <2>3, <3>3 DEF OnCreate, TellNothing, ShownIsListed, lists
    <3> QED
      BY <1>7, <3>1, <3>2, <3>3 DEF HandleAsset
  <2> QED
    BY <2>2, <2>3
<1>8. CASE HandleAlert
  <2>1. Kept
    BY <1>8 DEF HandleAlert, lists
  <2> QED
    BY <1>1, <2>1
<1>9. CASE UNCHANGED vars
  <2>1. Kept
    BY <1>9 DEF vars, session, client, lists
  <2> QED
    BY <1>1, <2>1
<1> QED
  BY <1>2, <1>3, <1>4, <1>5, <1>6, <1>7, <1>8, <1>9 DEF Next, Handle

(* No asset is on the client's screen that the session has stopped          *)
(* following: whatever was shown and not removed is in one of the lists     *)
(* changeFtyProtoAsset2Json filters by.                                     *)
THEOREM ShownAssetsAreFollowed == Spec => []ShownIsListed
<1>1. Init => TypeOK /\ PhaseInv /\ ShownIsListed
  BY InitType, InitPhase, InitShown
<1>2. TypeOK /\ PhaseInv /\ ShownIsListed /\ [Next]_vars => (TypeOK /\ PhaseInv /\ ShownIsListed)'
  BY StepType, StepPhase, StepShown
<1> QED
  BY <1>1, <1>2, PTL DEF Spec

(* The session holds an alert back only if the client was told that very    *)
(* state of its rule last: _alertStates and the client's screen agree.      *)
THEOREM AlertsAgree == Spec => []AlertsRemembered
<1>1. Init => AlertsRemembered
  BY DEF Init, AlertsRemembered
<1>2. AlertsRemembered /\ [Next]_vars => AlertsRemembered'
  <2> SUFFICES ASSUME AlertsRemembered, [Next]_vars PROVE AlertsRemembered'
    OBVIOUS
  <2> USE DEF AlertsRemembered
  <2>1. CASE HandleAlert
    BY <2>1 DEF HandleAlert, TellAlert
  <2>2. ASSUME UNCHANGED <<alertStates, alarm>> PROVE AlertsRemembered'
    BY <2>2
  <2>3. CASE Change
    BY <2>2, <2>3 DEF Change, CreateAsset, UpdateAsset, DeleteAsset, Commit, session, client
  <2>4. CASE Announce \/ Lose
    BY <2>2, <2>4 DEF Announce, Lose, AddressNotice, SendNotice, FailNotice, session, client
  <2>5. CASE Publish
    BY <2>2, <2>5 DEF Publish, Republish, PublishAlert, session, client
  <2>6. CASE Setup \/ Close
    BY <2>2, <2>6 DEF Setup, ReadDatacenter, ReadNoLocation, ConsumeStream, Close, client
  <2>7. CASE HandleAsset
    BY <2>2, <2>7 DEF HandleAsset
  <2>8. CASE UNCHANGED vars
    BY <2>2, <2>8 DEF vars, session, client
  <2> QED
    BY <2>1, <2>3, <2>4, <2>5, <2>6, <2>7, <2>8 DEF Next, Handle
<1> QED
  BY <1>1, <1>2, PTL DEF Spec
------------------------------------------------------------------------------
(* Freshness *)

OnItsWay(a, ops) == Pending(a, ops) \/ InInbox(a, ops)

(* An outdated payload of an asset that exists waits for an update, or the  *)
(* update was lost; one of a deleted asset waits for the removal.           *)
Fresh(a) ==
  \/ told[a] = db[a]
  \/ /\ db[a] \in Locations
     /\ OnItsWay(a, {"update"}) \/ a \in unread \/ <<"update", a>> \in dropped
  \/ /\ db[a] = Gone
     /\ OnItsWay(a, {"delete"}) \/ <<"delete", a>> \in dropped

FreshInv == pc # "closed" => \A a \in Assets : told[a] \in Locations => Fresh(a)

FollowInv == TypeOK /\ PhaseInv /\ ShownIsListed

(* Delivering a message loses none that is in the inbox, ... *)
LEMMA AppendKeeps ==
  ASSUME TypeOK, NEW m \in AssetMessages \cup AlertMessages, inbox' = Append(inbox, m),
         NEW a, NEW ops
  PROVE  /\ InInbox(a, ops) => InInbox(a, ops)'
         /\ m.kind = "asset" /\ m.asset = a /\ m.op \in ops => InInbox(a, ops)'
<1>1. /\ Len(inbox') = Len(inbox) + 1 /\ Len(inbox) \in Nat
      /\ \A i \in 1..Len(inbox) : inbox'[i] = inbox[i]
      /\ inbox'[Len(inbox) + 1] = m
  BY DEF TypeOK
<1>2. InInbox(a, ops) => InInbox(a, ops)'
  BY <1>1 DEF InInbox
<1>3. m.kind = "asset" /\ m.asset = a /\ m.op \in ops => InInbox(a, ops)'
  BY <1>1 DEF InInbox
<1> QED
  BY <1>2, <1>3

(* ... and handling one only loses that one. *)
LEMMA TailKeeps ==
  ASSUME TypeOK, inbox # <<>>, inbox' = Tail(inbox), NEW a, NEW ops,
         ~ (Head(inbox).kind = "asset" /\ Head(inbox).asset = a /\ Head(inbox).op \in ops)
  PROVE  InInbox(a, ops) => InInbox(a, ops)'
<1> SUFFICES ASSUME InInbox(a, ops) PROVE InInbox(a, ops)'
  OBVIOUS
<1>1. PICK i \in 1..Len(inbox) :
        inbox[i].kind = "asset" /\ inbox[i].asset = a /\ inbox[i].op \in ops
  BY DEF InInbox
<1>2. inbox[1] = Head(inbox)
  BY DEF TypeOK
<1>3. i # 1
  BY <1>1, <1>2
<1>4. Len(inbox) \in Nat /\ Len(inbox') = Len(inbox) - 1 /\ i - 1 \in 1..Len(inbox')
  BY <1>3 DEF TypeOK
<1>5. inbox'[i - 1] = inbox[i]
  BY <1>3, <1>4 DEF TypeOK
<1> QED
  BY <1>1, <1>4, <1>5 DEF InInbox

LEMMA InitFresh == Init => FreshInv
BY DEF Init, FreshInv, Locations, Nothing, InDc, Elsewhere, Nowhere

LEMMA ChangeFresh ==
  ASSUME FollowInv, FreshInv, NEW c \in Assets, CreateAsset(c) \/ UpdateAsset(c) \/ DeleteAsset(c),
         NEW a \in Assets, told'[a] \in Locations, pc # "closed"
  PROVE  Fresh(a)'
<1> USE DEF FollowInv, TypeOK
<1>1. /\ told' = told /\ inbox' = inbox /\ unread' = unread /\ dropped' = dropped
      /\ notices \subseteq notices'
  BY DEF CreateAsset, UpdateAsset, DeleteAsset, Commit, client
<1>2. Fresh(a)
  BY <1>1 DEF FreshInv
<1>3. \A ops : OnItsWay(a, ops) => OnItsWay(a, ops)'
  BY <1>1 DEF OnItsWay, Pending, InInbox
<1>4. CASE c # a
  <2>1. db'[a] = db[a]
    BY <1>4 DEF CreateAsset, UpdateAsset, DeleteAsset, Commit
  <2> QED
    BY <1>1, <1>2, <1>3, <2>1 DEF Fresh
<1>5. CASE c = a /\ CreateAsset(c)
  <2>1. db[a] = Unborn
    BY <1>5 DEF CreateAsset
  <2> QED
    BY <1>1, <1>2, <2>1 DEF Fresh, Unborn, Gone, Locations, InDc, Elsewhere, Nowhere
<1>6. CASE c = a /\ UpdateAsset(c)
  <2>1. PICK loc \in Locations : Commit(a, "update", loc)
    BY <1>6 DEF UpdateAsset
  <2>2. db'[a] \in Locations
    BY <2>1 DEF Commit
  <2>3. Pending(a, {"update"})'
    <3> DEFINE n == [id |-> changes + 1, op |-> "update", asset |-> a,
                     hasParent |-> loc # Nowhere, addressed |-> FALSE, inDc |-> FALSE]
    <3>1. n \in notices' /\ n.asset = a /\ n.op \in {"update"}
      BY <2>1 DEF Commit
    <3> QED
      BY <3>1 DEF Pending
  <2> QED
    BY <2>2, <2>3 DEF Fresh, OnItsWay
<1>7. CASE c = a /\ DeleteAsset(c)
  <2>1. Commit(a, "delete", Gone)
    BY <1>7 DEF DeleteAsset
  <2>2. db'[a] = Gone
    BY <2>1 DEF Commit
  <2>3. Pending(a, {"delete"})'
    <3> DEFINE n == [id |-> changes + 1, op |-> "delete", asset |-> a,
                     hasParent |-> Gone # Nowhere, addressed |-> FALSE, inDc |-> FALSE]
    <3>1. n \in notices' /\ n.asset = a /\ n.op \in {"delete"}
      BY <2>1 DEF Commit
    <3> QED
      BY <3>1 DEF Pending
  <2> QED
    BY <2>2, <2>3 DEF Fresh, OnItsWay
<1> QED
  BY <1>4, <1>5, <1>6, <1>7

LEMMA AnnounceFresh ==
  ASSUME FollowInv, FreshInv, NEW n \in notices,
         AddressNotice(n) \/ SendNotice(n) \/ FailNotice(n),
         NEW a \in Assets, told'[a] \in Locations, pc # "closed"
  PROVE  Fresh(a)'
<1> USE DEF FollowInv, TypeOK
<1>1. told' = told /\ db' = db /\ unread' = unread /\ dropped \subseteq dropped'
  BY DEF AddressNotice, SendNotice, FailNotice, client
<1>2. Fresh(a)
  BY <1>1 DEF FreshInv
<1>3. n \in Notices
  OBVIOUS
<1>4. "ASSETS" \in subscribed
  <2>1. told[a] # Nothing
    BY <1>1 DEF Nothing, Locations, InDc, Elsewhere, Nowhere
  <2> QED
    BY <2>1 DEF PhaseInv
<1>5. ASSUME NEW op \in {"update", "delete"}
      PROVE  OnItsWay(a, {op}) => OnItsWay(a, {op})' \/ <<op, a>> \in dropped'
  <2>1. CASE AddressNotice(n)
    <3>1. inbox' = inbox
      BY <2>1 DEF AddressNotice
    <3> DEFINE k == [n EXCEPT !.addressed = TRUE, !.inDc = (db[n.asset] = InDc)]
    <3>2. notices' = (notices \ {n}) \cup {k} /\ k.op = n.op /\ k.asset = n.asset
      <4>1. k.op = n.op /\ k.asset = n.asset
        BY <1>3 DEF Notices
      <4>2. notices' = (notices \ {n}) \cup {k}
        BY <2>1 DEF AddressNotice
      <4> QED
        BY <4>1, <4>2
    <3> HIDE DEF k
    <3> QED
      BY <3>1, <3>2 DEF OnItsWay, Pending, InInbox
  <2>2. CASE SendNotice(n)
    <3> DEFINE m == AssetMessage(n.op, n.asset, n.hasParent, n.inDc)
    <3>1. m \in AssetMessages
      BY <1>3, MessageTypes DEF Notices, Ops
    <3>2. inbox' = Append(inbox, m) /\ notices' = notices \ {n}
      BY <1>4, <2>2 DEF SendNotice, Deliver
    <3>3. m.kind = "asset" /\ m.asset = n.asset /\ m.op = n.op
      BY DEF AssetMessage
    <3>4. /\ InInbox(a, {op}) => InInbox(a, {op})'
          /\ n.asset = a /\ n.op = op => InInbox(a, {op})'
      BY <3>1, <3>2, <3>3, AppendKeeps
    <3> QED
      BY <3>2, <3>4 DEF OnItsWay, Pending
  <2>3. CASE FailNotice(n)
    <3>1. inbox' = inbox /\ notices' = notices \ {n} /\ dropped' = dropped \cup {<<n.op, n.asset>>}
      BY <2>3 DEF FailNotice
    <3> QED
      BY <3>1 DEF OnItsWay, Pending, InInbox
  <2> QED
    BY <2>1, <2>2, <2>3
<1> QED
  BY <1>1, <1>2, <1>5 DEF Fresh

LEMMA PublishFresh ==
  ASSUME FollowInv, FreshInv, Publish, NEW a \in Assets, told'[a] \in Locations, pc # "closed"
  PROVE  Fresh(a)'
<1> USE DEF FollowInv, TypeOK
<1>1. /\ told' = told /\ db' = db /\ unread' = unread /\ dropped' = dropped /\ notices' = notices
  BY DEF Publish, Republish, PublishAlert, client, world
<1>2. Fresh(a)
  BY <1>1 DEF FreshInv
<1>3. PICK m \in AssetMessages \cup AlertMessages : \E stream : Deliver(stream, m)
  <2>1. ASSUME NEW b \in Assets, Republish(b)
        PROVE  \E m \in AssetMessages : Deliver("ASSETS", m)
    <3>1. AssetMessage("inventory", b, db[b] # Nowhere, db[b] = InDc) \in AssetMessages
      BY MessageTypes DEF Ops
    <3> QED
      BY <2>1, <3>1 DEF Republish
  <2>2. ASSUME NEW b \in Assets, NEW r \in Rules, NEW s \in AlertStates, PublishAlert(r, b, s)
        PROVE  \E m \in AlertMessages : Deliver("ALERTS", m)
    BY <2>2, MessageTypes DEF PublishAlert
  <2> QED
    BY <2>1, <2>2 DEF Publish
<1>4. inbox' = inbox \/ inbox' = Append(inbox, m)
  BY <1>3 DEF Deliver
<1>5. \A ops : InInbox(a, ops) => InInbox(a, ops)'
  BY <1>4, AppendKeeps DEF InInbox
<1> QED
  BY <1>1, <1>2, <1>5 DEF Fresh, OnItsWay, Pending

LEMMA HandleFresh ==
  ASSUME FollowInv, FreshInv, HandleAsset, NEW a \in Assets, told'[a] \in Locations
  PROVE  Fresh(a)'
<1> USE DEF FollowInv, TypeOK
<1> DEFINE m == Head(inbox)
<1>1. /\ db' = db /\ dropped' = dropped /\ notices' = notices
      /\ inbox # <<>> /\ inbox' = Tail(inbox) /\ pc = "loop"
  BY DEF HandleAsset, Receive, world
<1>2. m \in AssetMessages /\ m.asset \in Assets
  BY HandledAsset
<1>3. unread \subseteq unread'
  BY DEF HandleAsset, OnDelete, OnUpdate, OnCreate, TellRemoved, TellPayload, getJsonAsset, TellNothing
<1>4. ASSUME NEW op \in {"update", "delete"}, m.asset # a \/ m.op # op
      PROVE  OnItsWay(a, {op}) => OnItsWay(a, {op})'
  <2>1. InInbox(a, {op}) => InInbox(a, {op})'
    BY <1>1, <1>4, TailKeeps
  <2> QED
    BY <1>1, <2>1 DEF OnItsWay, Pending
<1>5. CASE m.asset # a
  <2>1. told'[a] = told[a]
    BY <1>5, HandledAsset
  <2>2. Fresh(a)
    BY <1>1, <2>1 DEF FreshInv
  <2> QED
    BY <1>1, <1>3, <1>4, <1>5, <2>1, <2>2 DEF Fresh
<1>6. CASE m.asset = a
  <2>1. ~TellRemoved(a)
    BY <1>2 DEF TellRemoved, Removed, Locations, InDc, Elsewhere, Nowhere
  <2>2. CASE OnDelete(m)
    <3>1. told' = told /\ ~Listed(a) /\ ~Unplaced(a)
      BY <1>6, <2>1, <2>2 DEF OnDelete, TellNothing
    <3> QED
      BY <3>1 DEF ShownIsListed, Listed, Unplaced
  <2>3. CASE TellPayload(a) /\ (OnUpdate(m) \/ OnCreate(m))
    <3>1. CASE db[a] \in Locations
      BY <1>1, <2>3, <3>1 DEF TellPayload, getJsonAsset, Fresh
    <3>2. CASE db[a] \notin Locations
      <4>1. told' = told /\ m.op # "delete"
        BY <2>3, <3>2 DEF TellPayload, getJsonAsset, OnUpdate, OnCreate
      <4>2. Fresh(a)
        BY <1>1, <4>1 DEF FreshInv
      <4> QED
        BY <1>1, <1>4, <3>2, <4>1, <4>2 DEF Fresh
    <3> QED
      BY <3>1, <3>2
  <2>4. CASE OnUpdate(m) /\ ~TellPayload(a)
    <3>1. told' = told /\ ~Listed(a) /\ ~Unplaced(a)
      BY <1>6, <2>1, <2>4 DEF OnUpdate, TellNothing
    <3> QED
      BY <3>1 DEF ShownIsListed, Listed, Unplaced
  <2>5. CASE OnCreate(m) /\ ~TellPayload(a)
    <3>1. told' = told /\ m.op = "create"
      BY <1>6, <2>5 DEF OnCreate, TellNothing
    <3>2. Fresh(a)
      BY <1>1, <3>1 DEF FreshInv
    <3> QED
      BY <1>1, <1>3, <1>4, <3>1, <3>2 DEF Fresh
  <2> QED
    BY <2>2, <2>3, <2>4, <2>5 DEF HandleAsset
<1> QED
  BY <1>5, <1>6

(* Steps of the session that tell nothing about assets. *)
LEMMA SilentFresh ==
  ASSUME FollowInv, FreshInv, Setup \/ HandleAlert \/ UNCHANGED vars,
         NEW a \in Assets, told'[a] \in Locations, pc # "closed"
  PROVE  Fresh(a)'
<1> USE DEF FollowInv
<1>1. /\ told' = told /\ db' = db /\ unread' = unread /\ dropped' = dropped /\ notices' = notices
  BY DEF Setup, ReadDatacenter, ReadNoLocation, ConsumeStream, HandleAlert, vars, world, client
<1>2. Fresh(a)
  BY <1>1 DEF FreshInv
<1>3. \A ops : InInbox(a, ops) => InInbox(a, ops)'
  <2>1. CASE inbox' = inbox
    BY <2>1 DEF InInbox
  <2>2. CASE HandleAlert
    <3>1. inbox # <<>> /\ inbox' = Tail(inbox) /\ Head(inbox).kind = "alert"
      BY <2>2 DEF HandleAlert, Receive
    <3> QED
      BY <3>1, TailKeeps
  <2> QED
    BY <2>1, <2>2 DEF Setup, ReadDatacenter, ReadNoLocation, ConsumeStream, vars
<1> QED
  BY <1>1, <1>2, <1>3 DEF Fresh, OnItsWay, Pending

LEMMA StepFresh == FollowInv /\ FreshInv /\ [Next]_vars => FreshInv'
<1> SUFFICES ASSUME FollowInv, FreshInv, [Next]_vars, pc' # "closed",
                    NEW a \in Assets, told'[a] \in Locations
             PROVE  Fresh(a)'
  BY DEF FreshInv
<1>1. pc # "closed"
  BY DEF Next, vars, session
<1>2. ~Close
  BY DEF Close
<1>3. CASE Change
  BY <1>1, <1>3, ChangeFresh DEF Change
<1>4. CASE Announce \/ Lose
  BY <1>1, <1>4, AnnounceFresh DEF Announce, Lose
<1>5. CASE Publish
  BY <1>1, <1>5, PublishFresh
<1>6. CASE HandleAsset
  BY <1>6, HandleFresh
<1>7. CASE Setup \/ HandleAlert \/ UNCHANGED vars
  BY <1>1, <1>7, SilentFresh
<1> QED
  BY <1>2, <1>3, <1>4, <1>5, <1>6, <1>7 DEF Next, Handle

(* However the announcements of several requests are ordered, a client that *)
(* shows an outdated asset will hear of it: the message is on its way, or   *)
(* one was lost by a failed send or a failed read.                          *)
THEOREM StaleIsAnnounced == Spec => []StaleIsOnItsWay
<1>1. Init => FollowInv /\ FreshInv
  BY InitType, InitPhase, InitShown, InitFresh DEF FollowInv
<1>2. FollowInv /\ FreshInv /\ [Next]_vars => (FollowInv /\ FreshInv)'
  BY StepType, StepPhase, StepShown, StepFresh DEF FollowInv
<1>3. FollowInv /\ FreshInv => StaleIsOnItsWay
  <2> SUFFICES ASSUME FreshInv, pc # "closed", NEW a \in Assets, told[a] \in Locations,
                      told[a] # db[a]
               PROVE  \/ Pending(a, Ops) \/ InInbox(a, Ops)
                      \/ a \in unread \/ \E op \in Ops : <<op, a>> \in dropped
    BY DEF StaleIsOnItsWay
  <2>1. Fresh(a)
    BY DEF FreshInv
  <2>2. {"update"} \subseteq Ops /\ {"delete"} \subseteq Ops
    BY DEF Ops
  <2>3. \A ops \in SUBSET Ops : OnItsWay(a, ops) => Pending(a, Ops) \/ InInbox(a, Ops)
    BY DEF OnItsWay, Pending, InInbox
  <2> QED
    BY <2>1, <2>2, <2>3 DEF Fresh
<1> QED
  BY <1>1, <1>2, <1>3, PTL DEF Spec
------------------------------------------------------------------------------
(* Ghosts *)

IsRemoval(m, a) == m.kind = "asset" /\ m.asset = a /\ m.op = "delete"
IsOther(m, a) == m.kind = "asset" /\ m.asset = a /\ m.op # "delete"

(* The removal has the last word: whatever the inbox holds that could list  *)
(* the asset again is followed by it.                                       *)
LastWord(a) ==
  \A i \in 1..Len(inbox) : IsOther(inbox[i], a) =>
    \E j \in i + 1..Len(inbox) : IsRemoval(inbox[j], a)

Heard(a) == (a \in assetsOfDatacenter => InInbox(a, {"delete"})) /\ LastWord(a)

Lost(a) == a \in missed \/ <<"delete", a>> \in dropped

GhostInv ==
  pc # "closed" =>
    \A a \in Assets : db[a] = Gone => Lost(a) \/ Pending(a, {"delete"}) \/ Heard(a)

(* No asset message before the session listens. *)
QuietInv ==
  "ASSETS" \notin subscribed => \A i \in 1..Len(inbox) : inbox[i].kind # "asset"

(* A delivered message of another asset, or an alert, changes nothing; ... *)
LEMMA AppendLastWord ==
  ASSUME TypeOK, NEW m \in AssetMessages \cup AlertMessages, inbox' = Append(inbox, m), NEW a
  PROVE  /\ ~IsOther(m, a) /\ LastWord(a) => LastWord(a)'
         /\ IsRemoval(m, a) => LastWord(a)'
<1>1. /\ Len(inbox') = Len(inbox) + 1 /\ Len(inbox) \in Nat
      /\ \A i \in 1..Len(inbox) : inbox'[i] = inbox[i]
      /\ inbox'[Len(inbox) + 1] = m
  BY DEF TypeOK
<1>2. ASSUME ~IsOther(m, a), LastWord(a), NEW i \in 1..Len(inbox'), IsOther(inbox'[i], a)
      PROVE  \E j \in i + 1..Len(inbox') : IsRemoval(inbox'[j], a)
  <2>1. i \in 1..Len(inbox) /\ IsOther(inbox[i], a)
    BY <1>1, <1>2
  <2>2. PICK j \in i + 1..Len(inbox) : IsRemoval(inbox[j], a)
    BY <1>2, <2>1 DEF LastWord
  <2>3. j \in i + 1..Len(inbox') /\ inbox'[j] = inbox[j]
    BY <1>1, <2>1, <2>2
  <2> QED
    BY <2>2, <2>3
<1>3. ASSUME IsRemoval(m, a), NEW i \in 1..Len(inbox'), IsOther(inbox'[i], a)
      PROVE  \E j \in i + 1..Len(inbox') : IsRemoval(inbox'[j], a)
  <2>1. i # Len(inbox) + 1
    BY <1>1, <1>3 DEF IsOther, IsRemoval
  <2>2. Len(inbox) + 1 \in i + 1..Len(inbox')
    BY <1>1, <2>1
  <2> QED
    BY <1>1, <1>3, <2>2
<1> QED
  BY <1>2, <1>3 DEF LastWord

(* ... and handling the first message leaves the last word to the removal. *)
LEMMA TailLastWord ==
  ASSUME TypeOK, inbox # <<>>, inbox' = Tail(inbox), NEW a, LastWord(a)
  PROVE  /\ LastWord(a)'
         /\ IsOther(Head(inbox), a) => InInbox(a, {"delete"})'
<1>1. /\ Len(inbox) \in Nat /\ Len(inbox) # 0 /\ Len(inbox') = Len(inbox) - 1
      /\ \A i \in 1..Len(inbox') : inbox'[i] = inbox[i + 1]
      /\ Head(inbox) = inbox[1]
  BY DEF TypeOK
<1>2. ASSUME NEW i \in 1..Len(inbox), IsOther(inbox[i], a)
      PROVE  \E j \in i..Len(inbox') : IsRemoval(inbox'[j], a)
  <2>1. PICK j \in i + 1..Len(inbox) : IsRemoval(inbox[j], a)
    BY <1>2 DEF LastWord
  <2>2. j - 1 \in i..Len(inbox') /\ j - 1 \in 1..Len(inbox') /\ (j - 1) + 1 = j
    BY <1>1, <2>1
  <2>3. inbox'[j - 1] = inbox[j]
    BY <1>1, <2>2
  <2> QED
    BY <2>1, <2>2, <2>3
<1>3. LastWord(a)'
  <2> SUFFICES ASSUME NEW i \in 1..Len(inbox'), IsOther(inbox'[i], a)
               PROVE  \E j \in i + 1..Len(inbox') : IsRemoval(inbox'[j], a)
    BY DEF LastWord
  <2>1. i + 1 \in 1..Len(inbox) /\ inbox'[i] = inbox[i + 1]
    BY <1>1
  <2> QED
    BY <1>2, <2>1
<1>4. ASSUME IsOther(Head(inbox), a) PROVE InInbox(a, {"delete"})'
  <2>1. 1 \in 1..Len(inbox) /\ IsOther(inbox[1], a)
    BY <1>1, <1>4
  <2>2. PICK j \in 1..Len(inbox') : IsRemoval(inbox'[j], a)
    BY <1>2, <2>1
  <2> QED
    BY <2>2 DEF InInbox, IsRemoval
<1> QED
  BY <1>3, <1>4

LEMMA InitGhost == Init => GhostInv /\ QuietInv
<1> SUFFICES ASSUME Init PROVE GhostInv /\ QuietInv
  OBVIOUS
<1>1. \A a \in Assets : db[a] # Gone
  BY DEF Init, Gone, Unborn, Locations, InDc, Elsewhere, Nowhere
<1>2. Len(inbox) = 0
  BY DEF Init
<1> QED
  BY <1>1, <1>2 DEF GhostInv, QuietInv

LEMMA ChangeGhost ==
  ASSUME TypeOK, GhostInv, NEW c \in Assets, CreateAsset(c) \/ UpdateAsset(c) \/ DeleteAsset(c),
         NEW a \in Assets, db'[a] = Gone, pc # "closed"
  PROVE  (Lost(a) \/ Pending(a, {"delete"}) \/ Heard(a))'
<1>1. /\ inbox' = inbox /\ missed' = missed /\ dropped' = dropped
      /\ assetsOfDatacenter' = assetsOfDatacenter /\ notices \subseteq notices'
  BY DEF CreateAsset, UpdateAsset, DeleteAsset, Commit, session, lists
<1>2. CASE db[a] = Gone
  <2>1. Lost(a) \/ Pending(a, {"delete"}) \/ Heard(a)
    BY <1>2 DEF GhostInv
  <2> QED
    BY <1>1, <2>1 DEF Lost, Pending, Heard, InInbox, LastWord
<1>3. CASE db[a] # Gone
  <2>1. c = a /\ DeleteAsset(c)
    BY <1>3 DEF TypeOK, CreateAsset, UpdateAsset, DeleteAsset, Commit, Gone, Locations,
                InDc, Elsewhere, Nowhere
  <2>2. Commit(a, "delete", Gone)
    BY <2>1 DEF DeleteAsset
  <2> DEFINE n == [id |-> changes + 1, op |-> "delete", asset |-> a,
                   hasParent |-> Gone # Nowhere, addressed |-> FALSE, inDc |-> FALSE]
  <2>3. n \in notices' /\ n.asset = a /\ n.op \in {"delete"}
    BY <2>2 DEF Commit
  <2> QED
    BY <2>3 DEF Pending
<1> QED
  BY <1>2, <1>3

LEMMA SendGhost ==
  ASSUME TypeOK, GhostInv, QuietInv, NEW n \in notices, SendNotice(n),
         NEW a \in Assets, db[a] = Gone, pc # "closed"
  PROVE  (Lost(a) \/ Pending(a, {"delete"}) \/ Heard(a))'
<1> DEFINE m == AssetMessage(n.op, n.asset, n.hasParent, n.inDc)
<1>1. m \in AssetMessages
  <2>1. n \in Notices
    BY DEF TypeOK
  <2> QED
    BY <2>1, MessageTypes DEF Notices, Ops
<1>2. /\ dropped' = dropped /\ missed \subseteq missed' /\ notices' = notices \ {n}
      /\ assetsOfDatacenter' = assetsOfDatacenter
      /\ inbox' = IF "ASSETS" \in subscribed THEN Append(inbox, m) ELSE inbox
  BY DEF SendNotice, Deliver, session, lists
<1>3. m.kind = "asset" /\ m.asset = n.asset /\ m.op = n.op
  BY DEF AssetMessage
<1>4. Lost(a) \/ Pending(a, {"delete"}) \/ Heard(a)
  BY DEF GhostInv
<1>5. Lost(a) => Lost(a)'
  BY <1>2 DEF Lost
<1>6. InInbox(a, {"delete"}) => InInbox(a, {"delete"})'
  BY <1>1, <1>2, AppendKeeps DEF InInbox
<1>7. CASE n.asset # a
  <2>1. Pending(a, {"delete"}) => Pending(a, {"delete"})'
    BY <1>2, <1>7 DEF Pending
  <2>2. LastWord(a) => LastWord(a)'
    <3>1. CASE "ASSETS" \in subscribed
      BY <1>1, <1>2, <1>3, <1>7, <3>1, AppendLastWord DEF IsOther
    <3>2. CASE "ASSETS" \notin subscribed
      BY <1>2, <3>2 DEF LastWord
    <3> QED
      BY <3>1, <3>2
  <2> QED
    BY <1>2, <1>4, <1>5, <1>6, <2>1, <2>2 DEF Heard
<1>8. CASE n.asset = a /\ n.op # "delete"
  <2>1. CASE \E k \in notices : k.asset = a /\ k.op = "delete"
    <3>1. Pending(a, {"delete"})'
      BY <1>2, <1>8, <2>1 DEF Pending
    <3> QED
      BY <3>1
  <2>2. CASE ~ \E k \in notices : k.asset = a /\ k.op = "delete"
    <3>1. a \in missed'
      BY <1>8, <2>2 DEF SendNotice, Unheard
    <3> QED
      BY <3>1 DEF Lost
  <2> QED
    BY <2>1, <2>2
<1>9. CASE n.asset = a /\ n.op = "delete"
  <2>1. CASE "ASSETS" \in subscribed
    <3>1. InInbox(a, {"delete"})'
      BY <1>1, <1>2, <1>3, <1>9, <2>1, AppendKeeps
    <3>2. LastWord(a)'
      BY <1>1, <1>2, <1>3, <1>9, <2>1, AppendLastWord DEF IsRemoval
    <3> QED
      BY <3>1, <3>2 DEF Heard
  <2>2. CASE "ASSETS" \notin subscribed
    <3>1. a \in assetsOfDatacenter => a \in missed'
      BY <1>9, <2>2 DEF SendNotice, Unheard
    <3>2. LastWord(a)'
      BY <1>2, <2>2 DEF QuietInv, LastWord, IsOther
    <3> QED
      BY <1>2, <3>1, <3>2 DEF Heard, Lost
  <2> QED
    BY <2>1, <2>2
<1> QED
  BY <1>7, <1>8, <1>9

LEMMA AnnounceGhost ==
  ASSUME TypeOK, GhostInv, NEW n \in notices, AddressNotice(n) \/ FailNotice(n),
         NEW a \in Assets, db[a] = Gone, pc # "closed"
  PROVE  (Lost(a) \/ Pending(a, {"delete"}) \/ Heard(a))'
<1>1. /\ inbox' = inbox /\ missed' = missed /\ assetsOfDatacenter' = assetsOfDatacenter
      /\ dropped \subseteq dropped'
  BY DEF AddressNotice, FailNotice, session, lists
<1>2. Lost(a) \/ Pending(a, {"delete"}) \/ Heard(a)
  BY DEF GhostInv
<1>3. Pending(a, {"delete"}) => Pending(a, {"delete"})' \/ Lost(a)'
  <2>1. CASE AddressNotice(n)
    <3> DEFINE k == [n EXCEPT !.addressed = TRUE, !.inDc = (db[n.asset] = InDc)]
    <3>1. n \in Notices
      BY DEF TypeOK
    <3>2. k.op = n.op /\ k.asset = n.asset
      BY <3>1 DEF Notices
    <3>3. notices' = (notices \ {n}) \cup {k}
      BY <2>1 DEF AddressNotice
    <3> HIDE DEF k
    <3> QED
      BY <3>2, <3>3 DEF Pending
  <2>2. CASE FailNotice(n)
    <3>1. notices' = notices \ {n} /\ dropped' = dropped \cup {<<n.op, n.asset>>}
      BY <2>2 DEF FailNotice
    <3> QED
      BY <3>1 DEF Pending, Lost
  <2> QED
    BY <2>1, <2>2
<1> QED
  BY <1>1, <1>2, <1>3 DEF Lost, Heard, InInbox, LastWord

LEMMA PublishGhost ==
  ASSUME TypeOK, GhostInv, Publish, NEW a \in Assets, db[a] = Gone, pc # "closed"
  PROVE  (Lost(a) \/ Pending(a, {"delete"}) \/ Heard(a))'
<1>1. /\ missed' = missed /\ dropped' = dropped /\ notices' = notices
      /\ assetsOfDatacenter' = assetsOfDatacenter
  BY DEF Publish, Republish, PublishAlert, world, session, lists
<1>2. Lost(a) \/ Pending(a, {"delete"}) \/ Heard(a)
  BY DEF GhostInv
<1>3. PICK m \in AssetMessages \cup AlertMessages :
        ~IsOther(m, a) /\ \E stream : Deliver(stream, m)
  <2>1. ASSUME NEW b \in Assets, Republish(b)
        PROVE  \E m \in AssetMessages : ~IsOther(m, a) /\ Deliver("ASSETS", m)
    <3> DEFINE m == AssetMessage("inventory", b, db[b] # Nowhere, db[b] = InDc)
    <3>1. m \in AssetMessages
      BY MessageTypes DEF Ops
    <3>2. m.asset = b
      BY DEF AssetMessage
    <3>3. b # a
      BY <2>1 DEF Republish, Gone, Locations, InDc, Elsewhere, Nowhere
    <3>4. Deliver("ASSETS", m)
      BY <2>1 DEF Republish
    <3> QED
      BY <3>1, <3>2, <3>3, <3>4 DEF IsOther
  <2>2. ASSUME NEW b \in Assets, NEW r \in Rules, NEW s \in AlertStates, PublishAlert(r, b, s)
        PROVE  \E m \in AlertMessages : ~IsOther(m, a) /\ Deliver("ALERTS", m)
    <3>1. AlertMessage(r, b, s) \in AlertMessages /\ AlertMessage(r, b, s).kind = "alert"
      BY MessageTypes DEF AlertMessage
    <3> QED
      BY <2>2, <3>1 DEF PublishAlert, IsOther
  <2> QED
    BY <2>1, <2>2 DEF Publish
<1>4. inbox' = inbox \/ inbox' = Append(inbox, m)
  BY <1>3 DEF Deliver
<1>5. InInbox(a, {"delete"}) => InInbox(a, {"delete"})'
  BY <1>4, AppendKeeps DEF InInbox
<1>6. LastWord(a) => LastWord(a)'
  BY <1>3, <1>4, AppendLastWord DEF LastWord
<1> QED
  BY <1>1, <1>2, <1>5, <1>6 DEF Lost, Pending, Heard

LEMMA HandleGhost ==
  ASSUME TypeOK, GhostInv, Handle, NEW a \in Assets, db[a] = Gone
  PROVE  (Lost(a) \/ Pending(a, {"delete"}) \/ Heard(a))'
<1> DEFINE m == Head(inbox)
<1>1. /\ missed' = missed /\ dropped' = dropped /\ notices' = notices
      /\ inbox # <<>> /\ inbox' = Tail(inbox) /\ pc = "loop"
  BY DEF Handle, HandleAsset, HandleAlert, Receive, world
<1>2. CASE Lost(a) \/ Pending(a, {"delete"})
  BY <1>1, <1>2 DEF Lost, Pending
<1>3. CASE Heard(a)
  <2>1. LastWord(a)' /\ (IsOther(m, a) => InInbox(a, {"delete"})')
    BY <1>1, <1>3, TailLastWord DEF Heard
  <2>2. CASE IsOther(m, a)
    BY <2>1, <2>2 DEF Heard
  <2>3. CASE IsRemoval(m, a)
    <3>1. HandleAsset /\ OnDelete(m)
      BY <2>3 DEF IsRemoval, Handle, HandleAsset, HandleAlert, Receive, OnUpdate, OnCreate
    <3>2. a \notin assetsOfDatacenter'
      BY <2>3, <3>1 DEF IsRemoval, OnDelete, Erase, Listed
    <3> QED
      BY <2>1, <3>2 DEF Heard
  <2>4. CASE ~IsOther(m, a) /\ ~IsRemoval(m, a)
    <3>1. InInbox(a, {"delete"}) => InInbox(a, {"delete"})'
      BY <1>1, <2>4, TailKeeps DEF IsRemoval
    <3>2. a \in assetsOfDatacenter' => a \in assetsOfDatacenter
      <4>1. CASE HandleAlert
        BY <4>1 DEF HandleAlert, lists
      <4>2. CASE HandleAsset
        <5>1. m \in AssetMessages
          BY <4>2, HandledAsset
        <5>2. m.asset # a
          BY <2>4, <5>1 DEF IsOther, IsRemoval, AssetMessages
        <5> QED
          BY <4>2, <5>2, HandledAsset
      <4> QED
        BY <4>1, <4>2 DEF Handle
    <3> QED
      BY <1>3, <2>1, <3>1, <3>2 DEF Heard
  <2> QED
    BY <2>2, <2>3, <2>4
<1> QED
  BY <1>1, <1>2, <1>3 DEF GhostInv

LEMMA SetupGhost ==
  ASSUME TypeOK, GhostInv, Setup \/ UNCHANGED vars, NEW a \in Assets, db[a] = Gone, pc # "closed"
  PROVE  (Lost(a) \/ Pending(a, {"delete"}) \/ Heard(a))'
<1>1. /\ missed' = missed /\ dropped' = dropped /\ notices' = notices /\ inbox' = inbox
  BY DEF Setup, ReadDatacenter, ReadNoLocation, ConsumeStream, vars, world
<1>2. a \in assetsOfDatacenter' => a \in assetsOfDatacenter
  BY DEF Setup, ReadDatacenter, ReadNoLocation, ConsumeStream, vars, session, lists, Gone, InDc
<1>3. Lost(a) \/ Pending(a, {"delete"}) \/ Heard(a)
  BY DEF GhostInv
<1> QED
  BY <1>1, <1>2, <1>3 DEF Lost, Pending, Heard, InInbox, LastWord

LEMMA StepGhost == TypeOK /\ QuietInv /\ GhostInv /\ [Next]_vars => GhostInv'
<1> SUFFICES ASSUME TypeOK, QuietInv, GhostInv, [Next]_vars, pc' # "closed",
                    NEW a \in Assets, db'[a] = Gone
             PROVE  (Lost(a) \/ Pending(a, {"delete"}) \/ Heard(a))'
  BY DEF GhostInv
<1>1. pc # "closed" /\ ~Close
  BY DEF Next, vars, session, Close
<1>2. CASE Change
  BY <1>1, <1>2, ChangeGhost DEF Change
<1>3. ASSUME db' = db PROVE db[a] = Gone
  BY <1>3
<1>4. CASE Announce \/ Lose
  BY <1>1, <1>3, <1>4, SendGhost, AnnounceGhost
     DEF Announce, Lose, AddressNotice, SendNotice, FailNotice
<1>5. CASE Publish
  BY <1>1, <1>3, <1>5, PublishGhost DEF Publish, Republish, PublishAlert, world
<1>6. CASE Handle
  BY <1>3, <1>6, HandleGhost DEF Handle, HandleAsset, HandleAlert, world
<1>7. CASE Setup \/ UNCHANGED vars
  BY <1>1, <1>3, <1>7, SetupGhost DEF Setup, ReadDatacenter, ReadNoLocation, ConsumeStream, vars, world
<1> QED
  BY <1>1, <1>2, <1>4, <1>5, <1>6, <1>7 DEF Next

LEMMA StepQuiet == TypeOK /\ QuietInv /\ [Next]_vars => QuietInv'
<1> SUFFICES ASSUME TypeOK, QuietInv, [Next]_vars, "ASSETS" \notin subscribed',
                    NEW i \in 1..Len(inbox')
             PROVE  inbox'[i].kind # "asset"
  BY DEF QuietInv
<1>1. ASSUME inbox' = inbox, "ASSETS" \notin subscribed PROVE inbox'[i].kind # "asset"
  BY <1>1 DEF QuietInv
<1>2. CASE Change
  BY <1>1, <1>2 DEF Change, CreateAsset, UpdateAsset, DeleteAsset, Commit, session
<1>3. CASE Announce \/ Lose
  BY <1>1, <1>3 DEF Announce, Lose, AddressNotice, SendNotice, FailNotice, Deliver, session
<1>4. CASE Publish
  <2>1. CASE \E b \in Assets : Republish(b)
    BY <1>1, <2>1 DEF Republish, Deliver, session
  <2>2. CASE \E b \in Assets, r \in Rules, s \in AlertStates : PublishAlert(r, b, s)
    <3>1. PICK b \in Assets, r \in Rules, s \in AlertStates : PublishAlert(r, b, s)
      BY <2>2
    <3> DEFINE m == AlertMessage(r, b, s)
    <3>2. m.kind = "alert" /\ "ASSETS" \notin subscribed /\ (inbox' = inbox \/ inbox' = Append(inbox, m))
      BY <3>1 DEF PublishAlert, Deliver, AlertMessage, session
    <3>3. CASE inbox' = Append(inbox, m)
      <4>1. i \in 1..Len(inbox) \/ inbox'[i] = m
        BY <3>3 DEF TypeOK
      <4>2. i \in 1..Len(inbox) => inbox'[i] = inbox[i]
        BY <3>3 DEF TypeOK
      <4> QED
        BY <3>2, <4>1, <4>2 DEF QuietInv
    <3> QED
      BY <1>1, <3>2, <3>3
  <2> QED
    BY <1>4, <2>1, <2>2 DEF Publish
<1>5. CASE Setup
  BY <1>1, <1>5 DEF Setup, ReadDatacenter, ReadNoLocation, ConsumeStream
<1>6. CASE Close
  <2>1. Len(inbox') = 0
    BY <1>6 DEF Close
  <2> QED
    BY <2>1
<1>7. CASE Handle
  <2>1. inbox # <<>> /\ inbox' = Tail(inbox) /\ subscribed' = subscribed
    BY <1>7 DEF Handle, HandleAsset, HandleAlert, Receive
  <2>2. i + 1 \in 1..Len(inbox) /\ inbox'[i] = inbox[i + 1]
    BY <2>1 DEF TypeOK
  <2> QED
    BY <2>1, <2>2 DEF QuietInv
<1>8. CASE UNCHANGED vars
  BY <1>1, <1>8 DEF vars, session
<1> QED
  BY <1>2, <1>3, <1>4, <1>5, <1>6, <1>7, <1>8 DEF Next

(* A deleted asset stays in the list the session filters by only while its  *)
(* removal is on its way, or after one of three losses: it was never sent,  *)
(* it left before the session listened, or another message overtook it.     *)
THEOREM GhostsAreTold == Spec => []GhostsAreAnnounced
<1>1. Init => TypeOK /\ QuietInv /\ GhostInv
  BY InitType, InitGhost
<1>2. TypeOK /\ QuietInv /\ GhostInv /\ [Next]_vars => (TypeOK /\ QuietInv /\ GhostInv)'
  BY StepType, StepQuiet, StepGhost
<1>3. TypeOK /\ GhostInv => GhostsAreAnnounced
  <2> SUFFICES ASSUME TypeOK, GhostInv, pc # "closed", NEW a \in assetsOfDatacenter, db[a] = Gone
               PROVE  \/ Pending(a, {"delete"}) \/ InInbox(a, {"delete"})
                      \/ a \in missed \/ <<"delete", a>> \in dropped
    BY DEF GhostsAreAnnounced
  <2>1. a \in Assets
    BY DEF TypeOK
  <2>2. Lost(a) \/ Pending(a, {"delete"}) \/ Heard(a)
    BY <2>1 DEF GhostInv
  <2> QED
    BY <2>2 DEF Lost, Heard
<1> QED
  BY <1>1, <1>2, <1>3, PTL DEF Spec
==============================================================================
