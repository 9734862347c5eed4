------------------------------- MODULE SseLoop -------------------------------
(***************************************************************************)
(* The loop of an SSE session (admin_sse.ecpp): how long it may run, how   *)
(* soon it notices that its token was revoked, that the server stops or    *)
(* that its client left, and how often the client is told when its login   *)
(* expires.  What the messages say is in SseFeed.                          *)
(*                                                                         *)
(* Time is zclock_mono in ticks.  It passes while the loop waits in        *)
(* zpoller_wait and while a message is being handled (database reads), at  *)
(* most Work ticks; every other step is instantaneous.                     *)
(***************************************************************************)
EXTENDS Naturals

CONSTANTS
  MaxRequest,  \* tntnet's maxRequestTime: a longer request kills the server
  Poll,        \* the timeout of zpoller_wait
  ExpPeriod,   \* the client is told its expiration time this often
  Work,        \* the longest time one message takes
  Starts,      \* values of zclock_mono when a session may start
  MaxQueue     \* bound: messages waiting for the session

(* The session gives itself half the limit: the other half must cover the   *)
(* iterations that run after the last look at the clock.                    *)
ASSUME SseLoopAssumption ==
  /\ {MaxRequest, Poll, ExpPeriod, Work, MaxQueue} \subseteq Nat
  /\ Starts \subseteq Nat
  /\ MaxRequest > 0
  /\ 2 * (Poll + Work) < MaxRequest - MaxRequest \div 2

VARIABLES
  clock,            \* zclock_mono ()
  pc,               \* "top", "exptime", "poll", "handle" or "closed"
  start, now, diff, sendNextExpTime,  \* the loop's own variables
  deadline,         \* when the wait or the handling must end
  queue,            \* messages waiting
  stopping,         \* tnt::Tntnet::shouldStop ()
  valid,            \* the token is valid
  connected,        \* the client still reads: a flush succeeds
  since,            \* history: when stopping, valid and connected changed
  lateEvents,       \* history: events sent since the token was revoked
  lastExptime       \* history: when the expiration time was last told

loop == <<start, now, diff, sendNextExpTime>>
world == <<queue, stopping, valid, connected, since>>
vars == <<clock, pc, loop, deadline, world, lateEvents, lastExptime>>

tntRequestTimeout == MaxRequest \div 2

------------------------------------------------------------------------------
(* The world: time, messages, and what the loop has to notice. *)

Tick ==
  /\ \/ pc = "poll" /\ queue = 0
     \/ pc = "handle"
  /\ clock < deadline
  /\ clock' = clock + 1
  /\ UNCHANGED <<pc, loop, deadline, world, lateEvents, lastExptime>>

Arrive ==
  /\ pc # "closed" /\ queue < MaxQueue
  /\ queue' = queue + 1
  /\ UNCHANGED <<clock, pc, loop, deadline, stopping, valid, connected, since, lateEvents,
                 lastExptime>>

Shutdown ==
  /\ pc # "closed" /\ ~stopping
  /\ stopping' = TRUE
  /\ since' = [since EXCEPT !.stopping = clock]
  /\ UNCHANGED <<clock, pc, loop, deadline, queue, valid, connected, lateEvents, lastExptime>>

Revoke ==
  /\ pc # "closed" /\ valid
  /\ valid' = FALSE
  /\ since' = [since EXCEPT !.revoked = clock]
  /\ UNCHANGED <<clock, pc, loop, deadline, queue, stopping, connected, lateEvents, lastExptime>>

Disconnect ==
  /\ pc # "closed" /\ connected
  /\ connected' = FALSE
  /\ since' = [since EXCEPT !.disconnected = clock]
  /\ UNCHANGED <<clock, pc, loop, deadline, queue, stopping, valid, lateEvents, lastExptime>>

------------------------------------------------------------------------------
(* The loop *)

(* Mutant: the result of the flush is not looked at. *)
Send_Unflushed(next) ==
  /\ pc' = next
  /\ lateEvents' = IF valid THEN 0 ELSE lateEvents + 1

(* reply.out() << json, then flush: a failure ends the session. *)
Send(next) ==
  IF connected
  THEN /\ pc' = next
       /\ lateEvents' = IF valid THEN 0 ELSE lateEvents + 1
  ELSE /\ pc' = "closed"
       /\ UNCHANGED lateEvents

(* Mutant: the time is counted from the last expiration message. *)
elapsed_SinceExptime == clock - (IF sendNextExpTime > start THEN sendNextExpTime ELSE start)

elapsed == clock - start

(* Mutant: the token is checked only when its expiration is to be told. *)
checkTokenValidity_WithExptime == clock - sendNextExpTime > ExpPeriod => valid

checkTokenValidity == valid

(* The while condition, shouldStop, the clock and the token. *)
Top ==
  /\ pc = "top"
  /\ IF diff < tntRequestTimeout /\ ~stopping
     THEN /\ now' = clock
          /\ diff' = elapsed
          /\ pc' = IF checkTokenValidity THEN "exptime" ELSE "closed"
     ELSE /\ pc' = "closed"
          /\ UNCHANGED <<now, diff>>
  /\ UNCHANGED <<clock, start, sendNextExpTime, deadline, world, lateEvents, lastExptime>>

(* Mutant: only the first expiration time is told. *)
exptimeDue_Once == sendNextExpTime = 0 /\ now > ExpPeriod

exptimeDue == now - sendNextExpTime > ExpPeriod

(* The expiration time, if a period has passed; then the wait begins. *)
Exptime ==
  /\ pc = "exptime"
  /\ IF exptimeDue
     THEN /\ Send("poll")
          /\ sendNextExpTime' = IF connected THEN now ELSE sendNextExpTime
          /\ lastExptime' = IF connected THEN clock ELSE lastExptime
     ELSE /\ pc' = "poll"
          /\ UNCHANGED <<sendNextExpTime, lateEvents, lastExptime>>
  /\ deadline' = clock + Poll
  /\ UNCHANGED <<clock, start, now, diff, world>>

Receive ==
  /\ pc = "poll" /\ queue > 0
  /\ queue' = queue - 1
  /\ pc' = "handle"
  /\ deadline' = clock + Work
  /\ UNCHANGED <<clock, loop, stopping, valid, connected, since, lateEvents, lastExptime>>

(* Mutant: the wait has no timeout, only a message ends it. *)
Heartbeat_OnlyWithMessage ==
  /\ pc = "poll" /\ queue > 0 /\ clock = deadline
  /\ Send("top")
  /\ UNCHANGED <<clock, loop, deadline, world, lastExptime>>

(* zpoller_expired: nothing came in time. *)
Heartbeat ==
  /\ pc = "poll" /\ queue = 0 /\ clock = deadline
  /\ Send("top")
  /\ UNCHANGED <<clock, loop, deadline, world, lastExptime>>

(* zpoller_terminated. *)
Terminated ==
  /\ pc = "poll"
  /\ pc' = "closed"
  /\ UNCHANGED <<clock, loop, deadline, world, lateEvents, lastExptime>>

(* A message turned into an event, or one the client need not see, or none *)
(* because mlm_client_recv returned NULL.                                   *)
Handle ==
  /\ pc = "handle"
  /\ \/ Send("top")
     \/ pc' = "top" /\ UNCHANGED lateEvents
  /\ UNCHANGED <<clock, loop, deadline, world, lastExptime>>

------------------------------------------------------------------------------
Init ==
  /\ clock \in Starts /\ start = clock
  /\ pc = "top" /\ now = 0 /\ diff = 0 /\ sendNextExpTime = 0 /\ deadline = clock
  /\ queue = 0 /\ stopping = FALSE /\ valid = TRUE /\ connected = TRUE
  /\ since = [stopping |-> clock, revoked |-> clock, disconnected |-> clock]
  /\ lateEvents = 0 /\ lastExptime = clock

Environment == Arrive \/ Shutdown \/ Revoke \/ Disconnect
Loop == Top \/ Exptime \/ Receive \/ Heartbeat \/ Handle

Next == Tick \/ Environment \/ Loop \/ Terminated

Spec == Init /\ [][Next]_vars

(* The thread runs, and time passes: strongly, because a message that       *)
(* arrives only interrupts the wait.  Nothing terminates the poller.         *)
FairSpec == Spec /\ WF_vars(Loop) /\ SF_vars(Tick)

------------------------------------------------------------------------------
(* Properties *)

TypeOK ==
  /\ {clock, start, now, diff, sendNextExpTime, deadline, lastExptime} \subseteq Nat
  /\ pc \in {"top", "exptime", "poll", "handle", "closed"}
  /\ queue \in 0..MaxQueue
  /\ {stopping, valid, connected} \subseteq BOOLEAN
  /\ since \in [{"stopping", "revoked", "disconnected"} -> Nat]
  /\ lateEvents \in Nat

(* admin_sse.ecpp closes the connection itself "to avoid a connection       *)
(* timeout which would kill tntnet": the request ends before maxRequestTime *)
(* although the clock is read once per iteration and the condition tests    *)
(* the reading of the iteration before.                                     *)
ClosedInTime == clock - start < MaxRequest

(* A revoked token or a shutdown ends the session with the iteration in     *)
(* progress: no later than one wait and one message, and the client of a    *)
(* revoked token sees at most the expiration time and one event more.       *)
CutOffInTime ==
  pc # "closed" =>
    /\ ~valid => clock - since.revoked <= Poll + Work /\ lateEvents <= 2
    /\ stopping => clock - since.stopping <= Poll + Work

(* A session whose client left ends with the first event it cannot send.    *)
(* Messages filtered out restart the wait without a heartbeat, so it is the *)
(* expiration time that bounds how long a dead session can stay.            *)
DeadClientNoticed ==
  pc # "closed" /\ ~connected =>
    clock - since.disconnected <= ExpPeriod + 2 * (Poll + Work)

(* The client is told its expiration time once per period and iteration.    *)
ExptimeKept == pc # "closed" => clock - lastExptime <= ExpPeriod + 2 * (Poll + Work)

(* No stream of messages keeps a session open for ever. *)
Terminates == <>(pc = "closed")
==============================================================================
