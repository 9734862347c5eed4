--------------------------- MODULE SseLoopProofs -----------------------------
(***************************************************************************)
(* How long a session lives, for every limit, timeout and period: proofs   *)
(* of the time bounds of SseLoop by one inductive invariant, which says    *)
(* for each place in the loop how far the clock may be from the last look  *)
(* at it, from the last expiration time told and from what changed.        *)
(***************************************************************************)
EXTENDS SseLoop, TLAPS

Iteration == Poll + Work

(* The clock against the start of the session and the last look at it. *)
RequestTime ==
  /\ start <= clock
  /\ diff = 0 \/ diff < tntRequestTimeout + Iteration
  /\ pc \in {"top", "closed"} => clock - start <= diff + Iteration
  /\ pc = "exptime" => clock - start = diff
  /\ pc = "poll" => /\ clock <= deadline /\ deadline - clock <= Poll
                    /\ deadline - start <= diff + Poll
  /\ pc = "handle" => /\ clock <= deadline /\ deadline - clock <= Work
                      /\ deadline - start <= diff + Iteration

(* The clock against a change the loop has not seen yet, made at time t. *)
Unseen(t) ==
  /\ t <= clock
  /\ pc = "top" => clock - t <= Iteration
  /\ pc = "exptime" => t = clock
  /\ pc = "poll" => deadline - t <= Poll
  /\ pc = "handle" => deadline - t <= Iteration

(* What the client of a revoked token may have been sent by then. *)
LateEvents ==
  /\ valid => lateEvents = 0
  /\ pc = "top" => lateEvents <= 2
  /\ pc = "exptime" => lateEvents = 0
  /\ pc \in {"poll", "handle"} => lateEvents <= 1

(* The clock against the last expiration time told. *)
Told ==
  /\ lastExptime <= clock /\ sendNextExpTime <= lastExptime
  /\ pc = "top" => clock - lastExptime <= ExpPeriod + Iteration
  /\ pc = "exptime" => now = clock /\ clock - lastExptime <= ExpPeriod + Iteration
  /\ pc = "poll" => deadline - lastExptime <= ExpPeriod + Poll
  /\ pc = "handle" => deadline - lastExptime <= ExpPeriod + Iteration

LoopInv ==
  /\ TypeOK
  /\ pc # "closed" => LateEvents /\ Told
  /\ RequestTime
  /\ pc # "closed" /\ ~valid => Unseen(since.revoked)
  /\ pc # "closed" /\ stopping => Unseen(since.stopping)
  /\ pc # "closed" /\ ~connected => lastExptime <= since.disconnected
                                    /\ since.disconnected <= clock

------------------------------------------------------------------------------
(* The limit the session sets itself is a number, and leaves room for two   *)
(* iterations.                                                              *)
LEMMA LimitFacts ==
  /\ MaxRequest \in Nat /\ Poll \in Nat /\ ExpPeriod \in Nat /\ Work \in Nat /\ MaxQueue \in Nat
  /\ tntRequestTimeout \in Nat
  /\ tntRequestTimeout + 2 * (Poll + Work) < MaxRequest
  /\ MaxRequest > 0
<1>1. MaxRequest \in Nat /\ Poll \in Nat /\ ExpPeriod \in Nat /\ Work \in Nat /\ MaxQueue \in Nat
  BY SseLoopAssumption DEF SseLoopAssumption
<1>2. MaxRequest > 0 /\ 2 * (Poll + Work) < MaxRequest - MaxRequest \div 2
  BY SseLoopAssumption DEF SseLoopAssumption
<1>3. MaxRequest \div 2 \in Nat
  BY <1>1
<1>4. QED
  BY <1>1, <1>2, <1>3 DEF tntRequestTimeout

(* A session begins within every bound. *)
LEMMA LoopInvInit == Init => LoopInv
<1> SUFFICES ASSUME Init PROVE LoopInv
  OBVIOUS
<1>1. clock \in Nat
  BY SseLoopAssumption DEF Init, SseLoopAssumption
<1>2. TypeOK
  <2>1. {clock, start, now, diff, sendNextExpTime, deadline, lastExptime} \subseteq Nat
    BY <1>1 DEF Init
  <2>2. pc \in {"top", "exptime", "poll", "handle", "closed"} /\ lateEvents \in Nat
    BY DEF Init
  <2>3. queue \in 0..MaxQueue
    BY LimitFacts DEF Init
  <2>4. {stopping, valid, connected} \subseteq BOOLEAN
    BY DEF Init
  <2>5. since \in [{"stopping", "revoked", "disconnected"} -> Nat]
    BY <1>1 DEF Init
  <2>6. QED
    BY <2>1, <2>2, <2>3, <2>4, <2>5 DEF TypeOK
<1>3. LateEvents /\ Told
  BY <1>1, LimitFacts DEF Init, LateEvents, Told, Iteration
<1>4. RequestTime
  BY <1>1, LimitFacts DEF Init, RequestTime, Iteration
<1>5. QED
  BY <1>2, <1>3, <1>4 DEF Init, LoopInv

(* The numbers among the variables. *)
LEMMA Numbers ==
  ASSUME TypeOK
  PROVE  /\ clock \in Nat /\ start \in Nat /\ now \in Nat /\ diff \in Nat
         /\ sendNextExpTime \in Nat /\ deadline \in Nat /\ lastExptime \in Nat
         /\ lateEvents \in Nat /\ queue \in 0..MaxQueue
         /\ since.revoked \in Nat /\ since.stopping \in Nat /\ since.disconnected \in Nat
         /\ stopping \in BOOLEAN /\ valid \in BOOLEAN /\ connected \in BOOLEAN
BY DEF TypeOK

(* Time passes in a wait or in the handling of a message, to the deadline. *)
LEMMA TickKeeps == LoopInv /\ Tick => LoopInv'
<1> SUFFICES ASSUME LoopInv, Tick PROVE LoopInv'
  OBVIOUS
<1> USE LimitFacts, Numbers DEF LoopInv, Tick, loop, world
<1>1. TypeOK'
  BY DEF TypeOK
<1>2. pc \in {"poll", "handle"} /\ pc' = pc /\ clock' = clock + 1
  OBVIOUS
<1>3. LateEvents' /\ Told'
  BY <1>2 DEF LateEvents, Told, Iteration
<1>4. RequestTime'
  BY <1>2 DEF RequestTime, Iteration
<1>5. (~valid => Unseen(since.revoked)') /\ (stopping => Unseen(since.stopping)')
  BY <1>2 DEF Unseen, Iteration
<1>6. QED
  BY <1>1, <1>2, <1>3, <1>4, <1>5

(* What changes in the world is unseen from now on. *)
LEMMA EnvironmentKeeps == LoopInv /\ Environment => LoopInv'
<1> SUFFICES ASSUME LoopInv, Environment PROVE LoopInv'
  OBVIOUS
<1> USE LimitFacts, Numbers DEF LoopInv, loop, world
<1>0. pc # "closed" /\ RequestTime /\ LateEvents /\ Told
  BY DEF Environment, Arrive, Shutdown, Revoke, Disconnect
<1>1. Unseen(clock)
  BY <1>0 DEF RequestTime, Unseen, Iteration
<1>2. CASE Arrive
  <2>1. TypeOK'
    BY <1>2 DEF Arrive, TypeOK
  <2>2. QED
    BY <1>0, <1>2, <2>1 DEF Arrive, LateEvents, Told, RequestTime, Unseen
<1>3. CASE Shutdown
  <2>1. TypeOK' /\ since' = [since EXCEPT !.stopping = clock]
    BY <1>3 DEF Shutdown, TypeOK
  <2>2. /\ since'.revoked = since.revoked /\ since'.disconnected = since.disconnected
        /\ since'.stopping = clock
    BY <2>1 DEF TypeOK
  <2>3. QED
    BY <1>0, <1>1, <1>3, <2>1, <2>2 DEF Shutdown, LateEvents, Told, RequestTime, Unseen
<1>4. CASE Revoke
  <2>1. TypeOK' /\ since' = [since EXCEPT !.revoked = clock]
    BY <1>4 DEF Revoke, TypeOK
  <2>2. /\ since'.stopping = since.stopping /\ since'.disconnected = since.disconnected
        /\ since'.revoked = clock
    BY <2>1 DEF TypeOK
  <2>3. LateEvents'
    BY <1>0, <1>4 DEF Revoke, LateEvents
  <2>4. QED
    BY <1>0, <1>1, <1>4, <2>1, <2>2, <2>3 DEF Revoke, Told, RequestTime, Unseen
<1>5. CASE Disconnect
  <2>1. TypeOK' /\ since' = [since EXCEPT !.disconnected = clock]
    BY <1>5 DEF Disconnect, TypeOK
  <2>2. /\ since'.stopping = since.stopping /\ since'.revoked = since.revoked
        /\ since'.disconnected = clock
    BY <2>1 DEF TypeOK
  <2>3. QED
    BY <1>0, <1>5, <2>1, <2>2 DEF Disconnect, LateEvents, Told, RequestTime, Unseen
<1>6. QED
  BY <1>2, <1>3, <1>4, <1>5 DEF Environment

(* The while condition bounds the reading of the clock; the token and the    *)
(* shutdown are looked at.                                                   *)
LEMMA TopKeeps == LoopInv /\ Top => LoopInv'
<1> SUFFICES ASSUME LoopInv, Top PROVE LoopInv'
  OBVIOUS
<1> USE LimitFacts, Numbers DEF LoopInv, loop, world
<1>1. pc = "top" /\ RequestTime /\ LateEvents /\ Told /\ clock - start \in Nat
  BY DEF Top, RequestTime
<1>2. CASE pc' = "closed" /\ UNCHANGED <<now, diff>>
  <2>1. TypeOK'
    BY <1>2 DEF Top, TypeOK
  <2>2. RequestTime'
    BY <1>1, <1>2 DEF Top, RequestTime
  <2>3. QED
    BY <1>2, <2>1, <2>2
<1>3. CASE /\ diff < tntRequestTimeout /\ ~stopping /\ now' = clock /\ diff' = clock - start
           /\ pc' = IF valid THEN "exptime" ELSE "closed"
  <2>1. TypeOK'
    BY <1>1, <1>3 DEF Top, TypeOK
  <2>2. RequestTime'
    BY <1>1, <1>3 DEF Top, RequestTime, Iteration
  <2>3. valid => LateEvents' /\ Told'
    BY <1>1, <1>3 DEF Top, LateEvents, Told, Iteration
  <2>4. pc' # "closed" => valid' /\ ~stopping'
    BY <1>3 DEF Top
  <2>5. ~connected => lastExptime <= since.disconnected /\ since.disconnected <= clock
    BY <1>1
  <2>6. QED
    BY <1>3, <2>1, <2>2, <2>3, <2>4, <2>5 DEF Top
<1>4. QED
  BY <1>2, <1>3 DEF Top, elapsed, checkTokenValidity

(* The expiration time is told, or need not be; a client that left is found  *)
(* out.                                                                      *)
LEMMA ExptimeKeeps == LoopInv /\ Exptime => LoopInv'
<1> SUFFICES ASSUME LoopInv, Exptime PROVE LoopInv'
  OBVIOUS
<1> USE LimitFacts, Numbers DEF LoopInv, loop, world
<1>1. /\ pc = "exptime" /\ RequestTime /\ LateEvents /\ Told
      /\ deadline' = clock + Poll /\ clock' = clock /\ start' = start /\ diff' = diff
      /\ now' = now /\ valid' = valid /\ stopping' = stopping /\ connected' = connected
      /\ since' = since /\ queue' = queue
  BY DEF Exptime
<1>2. CASE now - sendNextExpTime > ExpPeriod /\ connected
  <2>1. /\ pc' = "poll" /\ lateEvents' = (IF valid THEN 0 ELSE lateEvents + 1)
        /\ sendNextExpTime' = now /\ lastExptime' = clock
    BY <1>2 DEF Exptime, exptimeDue, Send
  <2>2. TypeOK'
    BY <1>1, <2>1 DEF TypeOK
  <2>3. LateEvents' /\ Told' /\ RequestTime'
    BY <1>1, <2>1 DEF LateEvents, Told, RequestTime, Iteration
  <2>4. QED
    BY <1>1, <1>2, <2>1, <2>2, <2>3 DEF Unseen
<1>3. CASE now - sendNextExpTime > ExpPeriod /\ ~connected
  <2>1. /\ pc' = "closed" /\ lateEvents' = lateEvents /\ lastExptime' = lastExptime
        /\ sendNextExpTime' = sendNextExpTime
    BY <1>3 DEF Exptime, exptimeDue, Send
  <2>2. TypeOK'
    BY <1>1, <2>1 DEF TypeOK
  <2>3. RequestTime'
    BY <1>1, <2>1 DEF RequestTime, Iteration
  <2>4. QED
    BY <2>1, <2>2, <2>3
<1>4. CASE ~(now - sendNextExpTime > ExpPeriod)
  <2>1. /\ pc' = "poll" /\ lateEvents' = lateEvents /\ lastExptime' = lastExptime
        /\ sendNextExpTime' = sendNextExpTime
    BY <1>4 DEF Exptime, exptimeDue
  <2>2. TypeOK'
    BY <1>1, <2>1 DEF TypeOK
  <2>3. LateEvents' /\ Told' /\ RequestTime'
    BY <1>1, <1>4, <2>1 DEF LateEvents, Told, RequestTime, Iteration
  <2>4. QED
    BY <1>1, <2>1, <2>2, <2>3 DEF Unseen
<1>5. QED
  BY <1>2, <1>3, <1>4

(* A message is taken from the queue, and handled for Work ticks at most. *)
LEMMA ReceiveKeeps == LoopInv /\ Receive => LoopInv'
<1> SUFFICES ASSUME LoopInv, Receive PROVE LoopInv'
  OBVIOUS
<1> USE LimitFacts, Numbers DEF LoopInv, Receive, loop
<1>1. TypeOK'
  BY DEF TypeOK
<1>2. LateEvents' /\ Told' /\ RequestTime'
  BY DEF LateEvents, Told, RequestTime, Iteration
<1>3. (~valid => Unseen(since.revoked)') /\ (stopping => Unseen(since.stopping)')
  BY DEF Unseen, RequestTime, Iteration
<1>4. QED
  BY <1>1, <1>2, <1>3

(* The end of a wait or of a message: an event is sent, or not, and the loop *)
(* goes on or ends.                                                          *)
LEMMA EndKeeps == LoopInv /\ (Heartbeat \/ Terminated \/ Handle) => LoopInv'
<1> SUFFICES ASSUME LoopInv, Heartbeat \/ Terminated \/ Handle PROVE LoopInv'
  OBVIOUS
<1> USE LimitFacts, Numbers DEF LoopInv, loop, world
<1>1. /\ pc \in {"poll", "handle"} /\ RequestTime /\ LateEvents /\ Told
      /\ clock' = clock /\ deadline' = deadline /\ UNCHANGED loop /\ UNCHANGED world
      /\ lastExptime' = lastExptime
  BY DEF Heartbeat, Terminated, Handle
<1>2. \/ pc' = "top" /\ lateEvents' = (IF valid THEN 0 ELSE lateEvents + 1)
      \/ pc' \in {"top", "closed"} /\ lateEvents' = lateEvents
  BY DEF Heartbeat, Terminated, Handle, Send
<1>3. TypeOK'
  BY <1>1, <1>2 DEF TypeOK
<1>4. RequestTime'
  BY <1>1, <1>2 DEF RequestTime, Iteration
<1>5. LateEvents' /\ Told'
  BY <1>1, <1>2 DEF LateEvents, Told, RequestTime, Iteration
<1>6. (~valid => Unseen(since.revoked)') /\ (stopping => Unseen(since.stopping)')
  BY <1>1, <1>2 DEF Unseen, RequestTime, Iteration
<1>7. QED
  BY <1>1, <1>2, <1>3, <1>4, <1>5, <1>6

(* The bounds hold at every place of the loop. *)
LEMMA LoopInvHolds == Spec => []LoopInv
<1>1. LoopInv /\ [Next]_vars => LoopInv'
  <2> SUFFICES ASSUME LoopInv, [Next]_vars PROVE LoopInv'
    OBVIOUS
  <2>1. CASE UNCHANGED vars
    BY <2>1 DEF vars, loop, world, LoopInv, TypeOK, LateEvents, Told, RequestTime, Unseen
  <2>2. CASE Next
    BY <2>2, TickKeeps, EnvironmentKeeps, TopKeeps, ExptimeKeeps, ReceiveKeeps, EndKeeps
       DEF Next, Loop
  <2>3. QED
    BY <2>1, <2>2
<1>2. QED
  BY <1>1, LoopInvInit, PTL DEF Spec

------------------------------------------------------------------------------
(* The variables of the loop keep their types. *)
THEOREM LoopTypeCorrect == Spec => []TypeOK
<1>1. LoopInv => TypeOK
  BY DEF LoopInv
<1>2. QED
  BY <1>1, LoopInvHolds, PTL

(* admin_sse.ecpp ends a session before tntnet kills the server, whatever    *)
(* the limit, if two iterations fit into half of it.                         *)
THEOREM EndsBeforeTheLimit == Spec => []ClosedInTime
<1>1. LoopInv => ClosedInTime
  BY LimitFacts, Numbers DEF LoopInv, ClosedInTime, RequestTime, Iteration, TypeOK
<1>2. QED
  BY <1>1, LoopInvHolds, PTL

(* A revoked token and a shutdown are noticed within one iteration, and at   *)
(* most two events are sent after a revocation.                              *)
THEOREM RevocationNoticed == Spec => []CutOffInTime
<1>1. LoopInv => CutOffInTime
  BY LimitFacts, Numbers
     DEF LoopInv, CutOffInTime, RequestTime, LateEvents, Unseen, Iteration, TypeOK
<1>2. QED
  BY <1>1, LoopInvHolds, PTL

(* The client is told when its login expires, once per period and iteration. *)
THEOREM ExpirationTold == Spec => []ExptimeKept
<1>1. LoopInv => ExptimeKept
  BY LimitFacts, Numbers DEF LoopInv, ExptimeKept, RequestTime, Told, Iteration, TypeOK
<1>2. QED
  BY <1>1, LoopInvHolds, PTL

(* A session whose client left does not outlive a period and two iterations: *)
(* it cannot tell the expiration time.                                       *)
THEOREM DepartureNoticed == Spec => []DeadClientNoticed
<1>1. LoopInv => DeadClientNoticed
  BY LimitFacts, Numbers DEF LoopInv, DeadClientNoticed, RequestTime, Told, Iteration, TypeOK
<1>2. QED
  BY <1>1, LoopInvHolds, PTL
==============================================================================
