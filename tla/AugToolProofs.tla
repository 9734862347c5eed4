--------------------------- MODULE AugToolProofs -----------------------------
(***************************************************************************)
(* For any number of threads, interfaces and requests: whose answers a     *)
(* thread reads (AnswersAreOwn), what is left unsaved (NothingLeftUnsaved), *)
(* what a reader is shown (ReadersSeeTheStart) and what becomes of a       *)
(* request to change settings (AloneAsAsked).  The mutex is held for one   *)
(* command only; that it is enough for the first rests on what it leaves   *)
(* behind (OwnInv).  For the second, who has set something writes a save   *)
(* after it: SavedInv says who has yet to write one, or where in the queue *)
(* it is.  For the third, ReadersInv says what a GET has collected at each *)
(* of its steps, as long as no process was late or has died.  For the last, *)
(* Right says what tree and files are, and which files could not be stored, *)
(* before each command of a PUT or a POST, and AloneInv that they are so   *)
(* for who changes settings alone.  A save can fail: for the second,       *)
(* WatchInv says that while the interfaces are not stored, and no request  *)
(* has failed, some PUT has yet to save or will see it when it looks.      *)
(***************************************************************************)
EXTENDS AugTool, NaturalRecursion, FiniteSetTheorems, TLAPS

(* One entry, of thread t: a command not executed, or an answer not read. *)
OneOf(s, t) == s = <<s[1]>> /\ s[1].by = t

(* A process that was never late has at most one command under way, that of  *)
(* the thread which holds the mutex; while nobody holds it there is nothing  *)
(* to execute and nothing to read.                                           *)
InOrder(p) ==
  \/ queue[p] = <<>> /\ printed[p] = <<>>
  \/ /\ holder[p] \in Threads
     /\ \/ OneOf(queue[p], holder[p]) /\ printed[p] = <<>>
        \/ queue[p] = <<>> /\ OneOf(printed[p], holder[p])

OwnInv ==
  /\ queue = [p \in Processes |-> queue[p]]
  /\ printed = [p \in Processes |-> printed[p]]
  /\ holder \in [Processes -> Threads \cup {""}]
  /\ \A p \in Processes \ slow : InOrder(p)
  /\ mixed \subseteq slow

------------------------------------------------------------------------------
(* Sequences of at most one entry.                                           *)
LEMMA OneEntry ==
  ASSUME NEW x
  PROVE  /\ Append(<<>>, x) = <<x>> /\ Head(<<x>>) = x /\ Tail(<<x>>) = <<>>
         /\ <<x>>[1] = x /\ <<x>> # <<>> /\ DOMAIN <<x>> = {1}
OBVIOUS

LEMMA ProcessOf == \A t \in Threads : Process(t) \in Processes
BY DEF Process, Processes

(* Reading or executing nothing: the other steps leave the pipes alone.      *)
LEMMA QuietStep ==
  ASSUME OwnInv, UNCHANGED <<queue, printed, holder, mixed, slow>>
  PROVE  OwnInv'
BY DEF OwnInv, InOrder, OneOf

(* Written under the mutex, a command finds nothing before it.               *)
LEMMA WriteStep ==
  ASSUME OwnInv, NEW t \in Threads, Write(t)
  PROVE  OwnInv'
<1> DEFINE p == Process(t)
<1>1. p \in Processes
  BY ProcessOf
<1>2. /\ holder[p] = "" /\ holder' = [holder EXCEPT ![p] = t]
      /\ UNCHANGED <<printed, mixed, slow>>
  BY DEF Write, Free
<1>3. queue' = IF p \in alive THEN [queue EXCEPT ![p] = Append(@, CommandOf(t))] ELSE queue
  BY DEF Write
<1> HIDE DEF p
<1>4. queue' = [q \in Processes |-> queue'[q]] /\ \A q \in Processes \ {p} : queue'[q] = queue[q]
  BY <1>1, <1>3 DEF OwnInv
<1>5. ASSUME NEW q \in Processes \ slow
      PROVE  InOrder(q)'
  <2>1. InOrder(q)
    BY DEF OwnInv
  <2>2. CASE q # p
    BY <1>1, <1>2, <1>4, <2>1, <2>2 DEF InOrder, OneOf, OwnInv
  <2>3. CASE q = p
    <3>1. queue[p] = <<>> /\ printed[p] = <<>>
      BY <1>2, <2>1, <2>3, AugToolAssumption DEF InOrder
    <3>2. holder'[p] = t
      BY <1>1, <1>2 DEF OwnInv
    <3>3. queue'[p] = <<>> \/ queue'[p] = <<CommandOf(t)>>
      BY <1>1, <1>3, <3>1, OneEntry DEF OwnInv
    <3>4. CommandOf(t).by = t
      BY DEF CommandOf
    <3> QED
      BY <1>2, <2>3, <3>1, <3>2, <3>3, <3>4, OneEntry DEF InOrder, OneOf
  <2> QED
    BY <2>2, <2>3
<1>6. holder' \in [Processes -> Threads \cup {""}]
  BY <1>1, <1>2 DEF OwnInv
<1> QED
  BY <1>2, <1>4, <1>5, <1>6 DEF OwnInv

(* The process executes what it was sent, and signs the answer with it.      *)
LEMMA ExecuteStep ==
  ASSUME OwnInv, NEW p \in Processes, Execute(p)
  PROVE  OwnInv'
<1> DEFINE c == Head(queue[p])
           answer == [by |-> c.by, values |-> Values(tree[p], Errors(p), c.does),
                      paths |-> Paths(tree[p], c.does)]
<1>1. /\ queue[p] # <<>> /\ queue' = [queue EXCEPT ![p] = Tail(@)]
      /\ UNCHANGED <<holder, mixed, slow>>
  BY DEF Execute
<1>2. printed' = [printed EXCEPT ![p] = Append(@, answer)]
  BY DEF Execute
<1>3. answer.by = c.by
  OBVIOUS
<1> HIDE DEF answer
<1>4. ASSUME NEW q \in Processes \ slow
      PROVE  InOrder(q)'
  <2>1. InOrder(q)
    BY DEF OwnInv
  <2>2. CASE q # p
    BY <1>1, <1>2, <2>1, <2>2 DEF InOrder, OneOf, OwnInv
  <2>3. CASE q = p
    <3>1. /\ holder[p] \in Threads /\ OneOf(queue[p], holder[p]) /\ printed[p] = <<>>
      BY <1>1, <2>1, <2>3 DEF InOrder
    <3>2. c.by = holder[p] /\ Tail(queue[p]) = <<>>
      BY <3>1, OneEntry DEF OneOf
    <3>3. queue'[p] = <<>> /\ printed'[p] = <<answer>>
      BY <1>1, <1>2, <3>1, <3>2, OneEntry DEF OwnInv
    <3> QED
      BY <1>1, <1>3, <2>3, <3>1, <3>2, <3>3, OneEntry DEF InOrder, OneOf
  <2> QED
    BY <2>2, <2>3
<1> QED
  BY <1>1, <1>2, <1>4 DEF OwnInv

(* What a process that died had not executed is gone; what it had printed is *)
(* still the last command's.                                                 *)
LEMMA CrashStep ==
  ASSUME OwnInv, NEW p \in Processes, Crash(p)
  PROVE  OwnInv'
<1>1. queue' = [queue EXCEPT ![p] = <<>>] /\ UNCHANGED <<printed, holder, mixed, slow>>
  BY DEF Crash
<1>2. ASSUME NEW q \in Processes \ slow
      PROVE  InOrder(q)'
  <2>1. InOrder(q)
    BY DEF OwnInv
  <2> QED
    BY <1>1, <2>1 DEF InOrder, OneOf, OwnInv
<1> QED
  BY <1>1, <1>2 DEF OwnInv

(* A thread reads under the mutex: what is there is its own answer, or the   *)
(* process is late by then.                                                  *)
LEMMA ReadStep ==
  ASSUME OwnInv, NEW t \in Threads, Read(t)
  PROVE  OwnInv'
<1> DEFINE p == Process(t)
           answers == IF p \in alive THEN printed[p] ELSE <<>>
<1>1. p \in Processes
  BY ProcessOf
<1>2. /\ holder[p] = t /\ UNCHANGED queue
      /\ printed' = [printed EXCEPT ![p] = <<>>]
      /\ holder' = [holder EXCEPT ![p] = ""]
  BY DEF Read, Waiting, Released
<1>3. /\ slow' = IF queue[p] # <<>> THEN slow \cup {p} ELSE slow
      /\ mixed' = IF \E i \in DOMAIN answers : answers[i].by # t THEN mixed \cup {p} ELSE mixed
  BY DEF Read
<1> HIDE DEF p
<1>4. ASSUME NEW q \in Processes \ slow'
      PROVE  InOrder(q)'
  <2>1. InOrder(q) /\ (q = p => queue[p] = <<>>)
    BY <1>1, <1>3 DEF OwnInv
  <2> QED
    BY <1>1, <1>2, <2>1 DEF InOrder, OneOf, OwnInv
<1>5. p \notin slow => \A i \in DOMAIN answers : answers[i].by = t
  <2> SUFFICES ASSUME p \notin slow, NEW i \in DOMAIN answers, answers # <<>>
               PROVE  answers[i].by = t
    OBVIOUS
  <2>1. InOrder(p) /\ answers = printed[p]
    BY <1>1 DEF OwnInv
  <2>2. OneOf(printed[p], t)
    BY <1>2, <2>1 DEF InOrder
  <2> QED
    BY <2>1, <2>2, OneEntry DEF OneOf
<1>6. mixed' \subseteq slow'
  BY <1>1, <1>3, <1>5 DEF OwnInv
<1> QED
  BY <1>1, <1>2, <1>4, <1>6 DEF OwnInv

LEMMA StepOwn == OwnInv /\ [Next]_vars => OwnInv'
<1> SUFFICES ASSUME OwnInv, [Next]_vars PROVE OwnInv'
  OBVIOUS
<1>1. ASSUME NEW p \in Processes, Execute(p) PROVE OwnInv'
  BY <1>1, ExecuteStep
<1>2. ASSUME NEW p \in Processes, Crash(p) PROVE OwnInv'
  BY <1>2, CrashStep
<1>3. ASSUME NEW t \in Threads, Write(t) PROVE OwnInv'
  BY <1>3, WriteStep
<1>4. ASSUME NEW t \in Threads, Read(t) PROVE OwnInv'
  BY <1>4, ReadStep
<1>5. ASSUME NEW t \in Threads, Services(t) PROVE OwnInv'
  BY <1>5, QuietStep DEF Services
<1>6. ASSUME NEW t \in Threads, NEW r \in Requests, Take(t, r) PROVE OwnInv'
  BY <1>6, QuietStep DEF Take
<1>7. CASE UNCHANGED vars
  BY <1>7, QuietStep DEF vars
<1> QED
  BY <1>1, <1>2, <1>3, <1>4, <1>5, <1>6, <1>7 DEF Next, Work

(* However many workers ask at once, a thread reads the answer to another's  *)
(* command only from a process that has been late before: the mutex of       *)
(* get_cmd_out_raw, taken anew for each command, is enough otherwise.        *)
THEOREM OwnAnswers == Spec => []AnswersAreOwn
<1>1. Init => OwnInv
  BY DEF Init, OwnInv, InOrder
<1>2. OwnInv => AnswersAreOwn
  BY DEF OwnInv, AnswersAreOwn
<1> QED
  BY <1>1, <1>2, StepOwn, PTL DEF Spec
------------------------------------------------------------------------------
(* Where requests are *)

Loop == {"setMethod", "getMethod", "rmAddress", "rmGateway", "setAddress", "setGateway",
         "interfaces", "setServers"}
BeforeSave == Loop \cup {"checkInterfaces", "checkResolv", "find", "getFirst", "setNtp"}
Saves == {"save", "saveNtp"}
AfterSave == {"recheckInterfaces", "recheckResolv", "showMethod", "showAddress", "showGateway",
              "showServers", "services", "showNtp", "done", "failed"}

StepsOf(kind) ==
  CASE kind = "GET" -> {"checkInterfaces", "checkResolv", "find", "getFirst", "showMethod",
                        "showAddress", "showGateway", "done", "failed"}
    [] kind = "PUT" -> (BeforeSave \ {"setNtp"}) \cup {"save"}
                       \cup (AfterSave \ {"services", "showNtp"})
    [] kind = "POST" -> {"setNtp", "saveNtp", "services", "showNtp", "done", "failed"}

Placed(l) ==
  \/ l.step = "idle"
  \/ /\ {"step", "request"} \subseteq DOMAIN l
     /\ l.request.kind \in {"GET", "PUT", "POST"} /\ l.step \in StepsOf(l.request.kind)

PlaceInv == at = [t \in Threads |-> at[t]] /\ \A t \in Threads : Placed(at[t])

(* The local variables l, as they were but for the step and what it sets.    *)
Onto(n, l, steps) ==
  {"step", "request"} \subseteq DOMAIN n /\ n.request = l.request /\ n.step \in steps

LEMMA GotoOnto ==
  ASSUME NEW l, {"step", "request"} \subseteq DOMAIN l, NEW step
  PROVE  Onto(Goto(l, step), l, {step}) /\ Onto(Fail(l), l, {"failed"})
BY DEF Goto, Fail, Onto

LEMMA NextMemberOnto ==
  ASSUME NEW l, {"step", "request"} \subseteq DOMAIN l
  PROVE  Onto(NextMember(l), l, {"save", "getMethod", "setMethod", "failed"})
<1> DEFINE n == [l EXCEPT !.member = @ + 1]
<1>1. {"step", "request"} \subseteq DOMAIN n /\ n.request = l.request
  OBVIOUS
<1> HIDE DEF n
<1>2. NextMember(l) \in {Goto(l, "save"), Goto(n, "getMethod"), Goto(n, "setMethod"), Fail(n)}
  BY DEF NextMember, n
<1> QED
  BY <1>1, <1>2 DEF Goto, Fail, Onto

LEMMA HandleRestOnto ==
  ASSUME NEW l, {"step", "request"} \subseteq DOMAIN l
  PROVE  Onto(HandleRest(l), l, Loop \cup {"save", "failed"})
<1>1. HandleRest(l) \in {Goto(l, "setGateway"), Goto(l, "interfaces"), Fail(l), NextMember(l)}
  BY DEF HandleRest
<1>2. /\ Onto(Goto(l, "setGateway"), l, {"setGateway"})
      /\ Onto(Goto(l, "interfaces"), l, {"interfaces"})
      /\ Onto(Fail(l), l, {"failed"})
  BY GotoOnto
<1>3. Onto(NextMember(l), l, {"save", "getMethod", "setMethod", "failed"})
  BY NextMemberOnto
<1> QED
  BY <1>1, <1>2, <1>3 DEF Onto, Loop

LEMMA AfterGetMethodOnto ==
  ASSUME NEW l, {"step", "request"} \subseteq DOMAIN l
  PROVE  Onto(AfterGetMethod(l), l, Loop \cup {"save", "failed"})
<1>1. AfterGetMethod(l) \in {Goto(l, "setAddress"), Goto(l, "rmAddress"), Fail(l), HandleRest(l)}
  BY DEF AfterGetMethod
<1> QED
  BY <1>1, GotoOnto, HandleRestOnto DEF Onto, Loop

LEMMA NextInterfaceOnto ==
  ASSUME NEW l, {"step", "request"} \subseteq DOMAIN l
  PROVE  Onto(NextInterface(l), l, Loop \cup {"save", "failed"})
<1>1. NextInterface(l) \in {Goto(l, "setServers"), NextMember(l)}
  BY DEF NextInterface
<1> QED
  BY <1>1, GotoOnto, NextMemberOnto DEF Onto, Loop

(* Where an answer leads: not to the end without a save, except by a failure, *)
(* and not back before it.                                                    *)
LEMMA AfterOnto ==
  ASSUME NEW l, Placed(l), l.step \notin Finished \cup {"services"}, NEW answers
  PROVE  LET n == After(l, answers) IN
         /\ Placed(n) /\ n.request = l.request /\ n.step # "idle"
         /\ l.step \in BeforeSave /\ l.request.kind # "GET" =>
              n.step \in BeforeSave \cup Saves \cup {"failed"}
         /\ l.step \in Saves \cup AfterSave => n.step \in AfterSave
<1> DEFINE n == After(l, answers)
           text == Text(answers)
<1>1. /\ {"step", "request"} \subseteq DOMAIN l
      /\ l.request.kind \in {"GET", "PUT", "POST"} /\ l.step \in StepsOf(l.request.kind)
  BY DEF Placed, Finished
<1>2. ASSUME NEW steps, Onto(n, l, steps), steps \subseteq StepsOf(l.request.kind),
             /\ l.step \in BeforeSave /\ l.request.kind # "GET" =>
                  steps \subseteq BeforeSave \cup Saves \cup {"failed"}
             /\ l.step \in Saves \cup AfterSave => steps \subseteq AfterSave
      PROVE  /\ Placed(n) /\ n.request = l.request /\ n.step # "idle"
             /\ l.step \in BeforeSave /\ l.request.kind # "GET" =>
                  n.step \in BeforeSave \cup Saves \cup {"failed"}
             /\ l.step \in Saves \cup AfterSave => n.step \in AfterSave
  <2>1. n.step \in steps /\ n.request = l.request /\ {"step", "request"} \subseteq DOMAIN n
    BY <1>2 DEF Onto
  <2>2. "idle" \notin StepsOf(l.request.kind)
    BY <1>1 DEF StepsOf, BeforeSave, AfterSave, Loop
  <2> QED
    BY <1>1, <1>2, <2>1, <2>2 DEF Placed
<1> DEFINE Leads(steps) ==
      /\ Onto(n, l, steps) /\ steps \subseteq StepsOf(l.request.kind)
      /\ l.step \in BeforeSave /\ l.request.kind # "GET" =>
           steps \subseteq BeforeSave \cup Saves \cup {"failed"}
      /\ l.step \in Saves \cup AfterSave => steps \subseteq AfterSave
<1>3. \E steps : Leads(steps)
  <2> USE DEF StepsOf, BeforeSave, Saves, AfterSave, Loop
  <2>1. CASE l.step = "checkInterfaces"
    <3>1. n \in {Goto(l, "checkResolv"), Fail(l)}
      BY <2>1 DEF After
    <3>2. Onto(n, l, {"checkResolv", "failed"})
      BY <1>1, <3>1, GotoOnto DEF Onto
    <3>3. Leads({"checkResolv", "failed"})
      BY <1>1, <2>1, <3>2
    <3> QED
      BY <3>3
  <2>2. CASE l.step = "checkResolv"
    <3>1. n \in {Goto(l, "find"), Fail(l)}
      BY <2>2 DEF After
    <3>2. Onto(n, l, {"find", "failed"})
      BY <1>1, <3>1, GotoOnto DEF Onto
    <3>3. Leads({"find", "failed"})
      BY <1>1, <2>2, <3>2
    <3> QED
      BY <3>3
  <2>3. CASE l.step = "find"
    <3>1. n \in {[l EXCEPT !.path = Lines(answers), !.step = "getFirst"], Fail(l)}
      BY <2>3 DEF After
    <3>2. Onto(n, l, {"getFirst", "failed"})
      BY <1>1, <3>1, GotoOnto DEF Onto
    <3>3. Leads({"getFirst", "failed"})
      BY <1>1, <2>3, <3>2
    <3> QED
      BY <3>3
  <2>4. CASE l.step = "getFirst"
    <3> DEFINE k == [l EXCEPT !.method = text]
    <3>1. {"step", "request"} \subseteq DOMAIN k /\ k.request = l.request
      BY <1>1
    <3>2. n = IF l.request.kind = "PUT" THEN NextMember(k) ELSE Goto(k, "showMethod")
      BY <2>4 DEF After
    <3> HIDE DEF k
    <3>3. CASE l.request.kind = "PUT"
      <4>1. Onto(n, l, Loop \cup {"save", "failed"})
        BY <3>1, <3>2, <3>3, NextMemberOnto DEF Onto
      <4>2. Leads(Loop \cup {"save", "failed"})
        BY <2>4, <3>3, <4>1
      <4> QED
        BY <4>2
    <3>4. CASE l.request.kind # "PUT"
      <4>1. Onto(n, l, {"showMethod"})
        BY <3>1, <3>2, <3>4, GotoOnto DEF Onto
      <4>2. l.request.kind = "GET"
        BY <1>1, <2>4, <3>4
      <4>3. Leads({"showMethod"})
        BY <2>4, <4>1, <4>2
      <4> QED
        BY <4>3
    <3> QED
      BY <3>3, <3>4
  <2>5. CASE l.step \in Loop
    <3>1. Onto(n, l, Loop \cup {"save", "failed"})
      <4>1. CASE l.step = "setMethod"
        BY <1>1, <4>1, GotoOnto DEF After, Onto
      <4>2. CASE l.step = "getMethod"
        <5> DEFINE k == [l EXCEPT !.method = text]
        <5>1. {"step", "request"} \subseteq DOMAIN k /\ k.request = l.request
          BY <1>1
        <5>2. n = AfterGetMethod(k)
          BY <4>2 DEF After
        <5> HIDE DEF k
        <5> QED
          BY <5>1, <5>2, AfterGetMethodOnto DEF Onto
      <4>3. CASE l.step = "rmAddress"
        BY <1>1, <4>3, GotoOnto DEF After, Onto
      <4>4. CASE l.step \in {"setAddress", "rmGateway"}
        <5>1. n = HandleRest(l)
          BY <4>4 DEF After
        <5> QED
          BY <1>1, <5>1, HandleRestOnto
      <4>5. CASE l.step = "setGateway"
        <5>1. n = NextMember(l)
          BY <4>5 DEF After
        <5> QED
          BY <1>1, <5>1, NextMemberOnto DEF Onto
      <4>6. CASE l.step = "interfaces"
        <5> DEFINE k == [l EXCEPT !.todo = AllPaths(answers)]
        <5>1. {"step", "request"} \subseteq DOMAIN k /\ k.request = l.request
          BY <1>1
        <5>2. n \in {NextInterface(k), Fail(l)}
          BY <4>6 DEF After
        <5> HIDE DEF k
        <5> QED
          BY <1>1, <5>1, <5>2, NextInterfaceOnto, GotoOnto DEF Onto
      <4>7. CASE l.step = "setServers"
        <5> DEFINE k == [l EXCEPT !.todo = @ \ {Interface(l)}]
        <5>1. {"step", "request"} \subseteq DOMAIN k /\ k.request = l.request
          BY <1>1
        <5>2. n = NextInterface(k)
          BY <4>7 DEF After
        <5> HIDE DEF k
        <5> QED
          BY <5>1, <5>2, NextInterfaceOnto DEF Onto
      <4> QED
        BY <2>5, <4>1, <4>2, <4>3, <4>4, <4>5, <4>6, <4>7
    <3>2. l.request.kind = "PUT"
      BY <1>1, <2>5
    <3>3. Leads(Loop \cup {"save", "failed"})
      BY <2>5, <3>1, <3>2
    <3> QED
      BY <3>3
  <2>6. CASE l.step = "save"
    <3>1. Onto(n, l, {"recheckInterfaces"})
      BY <1>1, <2>6, GotoOnto DEF After
    <3>2. Leads({"recheckInterfaces"})
      BY <1>1, <2>6, <3>1
    <3> QED
      BY <3>2
  <2>7. CASE l.step = "recheckInterfaces"
    <3>1. n \in {Goto(l, "recheckResolv"), Fail(l)}
      BY <2>7 DEF After
    <3>2. Onto(n, l, {"recheckResolv", "failed"})
      BY <1>1, <3>1, GotoOnto DEF Onto
    <3>3. Leads({"recheckResolv", "failed"})
      BY <1>1, <2>7, <3>2
    <3> QED
      BY <3>3
  <2>8. CASE l.step = "recheckResolv"
    <3>1. n \in {Goto(l, "showMethod"), Fail(l)}
      BY <2>8 DEF After
    <3>2. Onto(n, l, {"showMethod", "failed"})
      BY <1>1, <3>1, GotoOnto DEF Onto
    <3>3. Leads({"showMethod", "failed"})
      BY <1>1, <2>8, <3>2
    <3> QED
      BY <3>3
  <2>9. CASE l.step = "showMethod"
    <3>1. Onto(n, l, {"showAddress"})
      BY <1>1, <2>9 DEF After, Show, Onto
    <3>2. Leads({"showAddress"})
      BY <1>1, <2>9, <3>1
    <3> QED
      BY <3>2
  <2>10. CASE l.step = "showAddress"
    <3>1. Onto(n, l, {"showGateway"})
      BY <1>1, <2>10 DEF After, Show, Onto
    <3>2. Leads({"showGateway"})
      BY <1>1, <2>10, <3>1
    <3> QED
      BY <3>2
  <2>11. CASE l.step = "showGateway"
    <3> DEFINE step == IF l.request.kind = "PUT" THEN "showServers" ELSE "done"
    <3>1. Onto(n, l, {step})
      BY <1>1, <2>11 DEF After, Show, Onto
    <3>2. Leads({step})
      BY <1>1, <2>11, <3>1
    <3> QED
      BY <3>2
  <2>12. CASE l.step \in {"showServers", "showNtp"}
    <3>1. /\ n \in {Show(l, text, "done"), Fail(l)}
          /\ l.step = "showNtp" => n = Show(l, text, "done")
      BY <2>12 DEF After
    <3>2. Onto(Show(l, text, "done"), l, {"done"}) /\ Onto(Fail(l), l, {"failed"})
      BY <1>1, GotoOnto DEF Show, Onto
    <3>3. Onto(n, l, {"done", "failed"})
      BY <3>1, <3>2 DEF Onto
    <3>4. Leads({"done", "failed"})
      BY <1>1, <2>12, <3>3
    <3> QED
      BY <3>4
  <2>13. CASE l.step = "setNtp"
    <3>1. Onto(n, l, {"saveNtp"})
      BY <1>1, <2>13, GotoOnto DEF After, AfterSetNtp
    <3>2. Leads({"saveNtp"})
      BY <1>1, <2>13, <3>1
    <3> QED
      BY <3>2
  <2>14. CASE l.step = "saveNtp"
    <3>1. Onto(n, l, {"services"})
      BY <1>1, <2>14, GotoOnto DEF After
    <3>2. Leads({"services"})
      BY <1>1, <2>14, <3>1
    <3> QED
      BY <3>2
  <2> QED
    BY <1>1, <2>1, <2>2, <2>3, <2>4, <2>5, <2>6, <2>7, <2>8, <2>9, <2>10, <2>11, <2>12,
       <2>13, <2>14 DEF Finished
<1> HIDE DEF n
<1>4. PICK steps : Leads(steps)
  BY <1>3
<1> QED
  BY <1>2, <1>4 DEF n

(* What a step writes to the process. *)
LEMMA AskedBy ==
  ASSUME NEW l, Placed(l), l.step \notin Finished \cup {"services"}
  PROVE  /\ l.step \in Saves => Asks(l).op = "save"
         /\ l.step \in AfterSave => Asks(l).op \notin {"set", "rm"}
         /\ l.request.kind # "GET" => l.step \in BeforeSave \cup Saves \cup AfterSave
<1>1. l.step \in Saves => Asks(l).op = "save"
  BY DEF Asks, Saves, Command
<1>2. l.step \in AfterSave => Asks(l).op \notin {"set", "rm"}
  BY DEF Asks, AfterSave, Command, Finished
<1>3. l.request.kind # "GET" => l.step \in BeforeSave \cup Saves \cup AfterSave
  BY DEF Placed, StepsOf, BeforeSave, Saves, AfterSave, Loop, Finished
<1> QED
  BY <1>1, <1>2, <1>3

------------------------------------------------------------------------------
(* What is still to be saved *)

IsSeq(q) == \E S : q \in Seq(S)

LEMMA AppendFacts ==
  ASSUME NEW q, IsSeq(q), NEW x
  PROVE  /\ IsSeq(Append(q, x)) /\ Len(q) \in Nat /\ Len(Append(q, x)) = Len(q) + 1
         /\ \A i \in 1..Len(q) : Append(q, x)[i] = q[i]
         /\ Append(q, x)[Len(q) + 1] = x
<1>1. PICK S : q \in Seq(S)
  BY DEF IsSeq
<1> DEFINE U == S \cup {x}
<1>2. q \in Seq(U) /\ x \in U
  BY <1>1
<1> HIDE DEF U
<1>3. Append(q, x) \in Seq(U)
  BY <1>2
<1>4. /\ Len(q) \in Nat /\ Len(Append(q, x)) = Len(q) + 1
      /\ \A i \in 1..Len(q) : Append(q, x)[i] = q[i]
      /\ Append(q, x)[Len(q) + 1] = x
  BY <1>2
<1> QED
  BY <1>3, <1>4 DEF IsSeq

LEMMA TailFacts ==
  ASSUME NEW q, IsSeq(q), q # <<>>
  PROVE  /\ IsSeq(Tail(q)) /\ Len(q) \in Nat /\ Len(q) >= 1 /\ Len(Tail(q)) = Len(q) - 1
         /\ \A i \in 1..Len(q) - 1 : Tail(q)[i] = q[i + 1]
         /\ Head(q) = q[1]
<1>1. PICK S : q \in Seq(S)
  BY DEF IsSeq
<1>2. Tail(q) \in Seq(S)
  BY <1>1
<1>3. /\ Len(q) \in Nat /\ Len(q) >= 1 /\ Len(Tail(q)) = Len(q) - 1
      /\ \A i \in 1..Len(q) - 1 : Tail(q)[i] = q[i + 1]
      /\ Head(q) = q[1]
  BY <1>1
<1> QED
  BY <1>2, <1>3 DEF IsSeq

QueueInv ==
  /\ queue = [p \in Processes |-> queue[p]] /\ \A p \in Processes : IsSeq(queue[p])
  /\ tree = [p \in Processes |-> tree[p]]
  /\ holder = [p \in Processes |-> holder[p]]

Touches(e) == e.does.op \in {"set", "rm"}
Stores(e) == e.does.op = "save"

(* Once the process has worked off its queue, tree and files agree but for   *)
(* what could not be stored.                                                 *)
Settled(q) ==
  \/ \E i \in 1..Len(q) : Stores(q[i]) /\ \A j \in i + 1..Len(q) : ~Touches(q[j])
  \/ Unsaved \subseteq errors /\ \A j \in 1..Len(q) : ~Touches(q[j])

(* A request that has yet to write its save.                                 *)
Owes(t) ==
  /\ at[t].step # "idle" /\ at[t].request.kind # "GET"
  /\ at[t].step \in BeforeSave \/ (at[t].step \in Saves /\ holder["sudo"] # t)

SavedInv ==
  "sudo" \in alive => (\E t \in Threads : Owes(t)) \/ rejected \/ Settled(queue["sudo"])

UnsavedInv == PlaceInv /\ QueueInv /\ SavedInv

(* One thread writes, reads or begins: the others have no less to save.      *)
LEMMA OthersUnsaved ==
  ASSUME NEW t \in Threads, NEW u \in Threads \ {t}, Owes(u),
         at'[u] = at[u], holder'["sudo"] \in {holder["sudo"], t, ""}
  PROVE  Owes(u)'
BY AugToolAssumption DEF Owes

LEMMA WriteUnsaved ==
  ASSUME UnsavedInv, NEW t \in Threads, Write(t)
  PROVE  UnsavedInv'
<1> DEFINE p == Process(t)
           x == CommandOf(t)
<1>1. /\ Busy(t) /\ at[t].step # "services" /\ Placed(at[t]) /\ p \in Processes
      /\ holder' = [holder EXCEPT ![p] = t]
      /\ queue' = IF p \in alive THEN [queue EXCEPT ![p] = Append(@, x)] ELSE queue
      /\ UNCHANGED <<file, errors, tree, alive, at, rejected>>
  BY ProcessOf DEF Write, Sends, UnsavedInv, PlaceInv
<1>2. p = "sudo" <=> at[t].request.kind # "GET"
  BY <1>1 DEF Process, Busy, Finished
<1>3. Asks(at[t]) = x.does
  BY DEF CommandOf
<1> HIDE DEF p, x
<1>4. PlaceInv'
  BY <1>1 DEF UnsavedInv, PlaceInv
<1>5. QueueInv'
  <2>1. \A q \in Processes : IsSeq(queue'[q])
    BY <1>1, AppendFacts DEF UnsavedInv, QueueInv
  <2>2. queue' = [q \in Processes |-> queue'[q]]
    BY <1>1 DEF UnsavedInv, QueueInv
  <2>3. holder' = [q \in Processes |-> holder'[q]]
    BY <1>1 DEF UnsavedInv, QueueInv
  <2> QED
    BY <1>1, <2>1, <2>2, <2>3 DEF UnsavedInv, QueueInv
<1>6. SavedInv'
  <2> SUFFICES ASSUME "sudo" \in alive
               PROVE  (\E u \in Threads : Owes(u)') \/ rejected' \/ Settled(queue["sudo"])'
    BY <1>1 DEF SavedInv
  <2>1. (\E u \in Threads : Owes(u)) \/ rejected \/ Settled(queue["sudo"])
    BY DEF UnsavedInv, SavedInv
  <2>2. "sudo" \in Processes /\ holder'["sudo"] \in {holder["sudo"], t, ""}
    BY <1>1 DEF UnsavedInv, QueueInv, Processes
  <2>3. CASE p # "sudo"
    <3>1. queue'["sudo"] = queue["sudo"] /\ holder'["sudo"] = holder["sudo"]
      BY <1>1, <2>2, <2>3 DEF UnsavedInv, QueueInv
    <3> QED
      BY <1>1, <2>1, <3>1 DEF Owes, Settled, Unsaved
  <2>4. CASE p = "sudo"
    <3> DEFINE q == queue["sudo"]
               r == queue'["sudo"]
    <3>1. r = Append(q, x) /\ IsSeq(q)
      BY <1>1, <2>2, <2>4 DEF UnsavedInv, QueueInv
    <3>2. /\ Len(q) \in Nat /\ Len(r) = Len(q) + 1 /\ r[Len(q) + 1] = x
          /\ \A i \in 1..Len(q) : r[i] = q[i]
      BY <3>1, AppendFacts
    <3> HIDE DEF q, r
    <3>3. CASE at[t].step \in BeforeSave
      <4>1. Owes(t)'
        BY <1>1, <1>2, <2>4, <3>3 DEF Owes, Busy, Finished
      <4> QED
        BY <4>1
    <3>4. CASE at[t].step \in Saves
      <4>1. Stores(x)
        BY <1>1, <1>3, <3>4, AskedBy DEF Stores, Busy
      <4>2. Len(r) \in 1..Len(r) /\ Stores(r[Len(r)]) /\ \A j \in Len(r) + 1..Len(r) : ~Touches(r[j])
        BY <3>2, <4>1
      <4> QED
        BY <4>2 DEF Settled, r
    <3>5. CASE at[t].step \in AfterSave
      <4>1. ~Touches(x)
        BY <1>1, <1>3, <3>5, AskedBy DEF Touches, Busy
      <4>2. ASSUME NEW i \in 1..Len(q), Stores(q[i]), \A j \in i + 1..Len(q) : ~Touches(q[j])
            PROVE  i \in 1..Len(r) /\ Stores(r[i]) /\ \A j \in i + 1..Len(r) : ~Touches(r[j])
        BY <3>2, <4>1, <4>2
      <4>3. (\A j \in 1..Len(q) : ~Touches(q[j])) => \A j \in 1..Len(r) : ~Touches(r[j])
        BY <3>2, <4>1
      <4>4. Settled(queue["sudo"]) => Settled(queue["sudo"])'
        BY <1>1, <4>2, <4>3 DEF Settled, Unsaved, q, r
      <4>5. ~Owes(t)
        BY <3>5 DEF Owes, AfterSave, BeforeSave, Saves, Loop
      <4>6. \A u \in Threads : Owes(u) => Owes(u)'
        BY <1>1, <2>2, <4>5, OthersUnsaved
      <4> QED
        BY <1>1, <2>1, <4>4, <4>6
    <3>6. at[t].step \in BeforeSave \cup Saves \cup AfterSave
      BY <1>1, <1>2, <2>4, AskedBy DEF Busy
    <3> QED
      BY <3>3, <3>4, <3>5, <3>6
  <2> QED
    BY <2>3, <2>4
<1> QED
  BY <1>4, <1>5, <1>6 DEF UnsavedInv

LEMMA SaveFacts ==
  ASSUME Save
  PROVE  /\ errors' \subseteq Unsaved \cup errors
         /\ file' = [k \in Keys |-> IF FileOf(k) \in errors' THEN file[k] ELSE tree["sudo"][k]]
         /\ rejected' => rejected
         /\ rejected /\ ~rejected' => Len(queue["sudo"]) = 1
BY DEF Save

(* Only what could not be stored differs then.                               *)
LEMMA SaveUnsaved ==
  ASSUME Save, tree'["sudo"] = tree["sudo"]
  PROVE  Unsaved' \subseteq errors'
<1>1. \A k \in Keys : FileOf(k) \notin errors' => file'[k] = tree'["sudo"][k]
  BY SaveFacts
<1> QED
  BY <1>1 DEF Unsaved

LEMMA ExecuteUnsaved ==
  ASSUME UnsavedInv, NEW p \in Processes, Execute(p)
  PROVE  UnsavedInv'
<1> DEFINE c == Head(queue[p]).does
<1>1. /\ queue[p] # <<>> /\ queue' = [queue EXCEPT ![p] = Tail(@)]
      /\ tree' = [tree EXCEPT ![p] = Changed(@, c)]
      /\ IF c.op = "save" /\ p = "sudo" THEN Save ELSE UNCHANGED <<file, errors, rejected>>
      /\ UNCHANGED <<alive, holder, at>>
  BY DEF Execute
<1>2. PlaceInv'
  BY <1>1 DEF UnsavedInv, PlaceInv
<1>3. QueueInv'
  <2>1. \A q \in Processes : IsSeq(queue'[q])
    BY <1>1, TailFacts DEF UnsavedInv, QueueInv
  <2>2. queue' = [q \in Processes |-> queue'[q]] /\ tree' = [q \in Processes |-> tree'[q]]
    BY <1>1 DEF UnsavedInv, QueueInv
  <2> QED
    BY <1>1, <2>1, <2>2 DEF UnsavedInv, QueueInv
<1>4. SavedInv'
  <2> SUFFICES ASSUME "sudo" \in alive, ~ \E u \in Threads : Owes(u), ~rejected'
               PROVE  Settled(queue["sudo"])'
    BY <1>1 DEF SavedInv, Owes
  <2>1. rejected \/ Settled(queue["sudo"])
    BY DEF UnsavedInv, SavedInv
  <2>2. "sudo" \in Processes
    BY DEF Processes
  <2>3. CASE p # "sudo"
    <3>1. /\ queue'["sudo"] = queue["sudo"] /\ tree'["sudo"] = tree["sudo"]
          /\ UNCHANGED <<file, errors, rejected>>
      BY <1>1, <2>2, <2>3 DEF UnsavedInv, QueueInv
    <3> QED
      BY <2>1, <3>1 DEF Settled, Unsaved
  <2>4. CASE p = "sudo"
    <3> DEFINE q == queue["sudo"]
               r == queue'["sudo"]
    <3>1. /\ r = Tail(q) /\ IsSeq(q) /\ q # <<>> /\ c = Head(q).does
          /\ tree'["sudo"] = Changed(tree["sudo"], c)
          /\ IF c.op = "save" THEN Save ELSE UNCHANGED <<file, errors, rejected>>
      BY <1>1, <2>2, <2>4 DEF UnsavedInv, QueueInv
    <3>2. /\ Len(q) \in Nat /\ Len(q) >= 1 /\ Len(r) = Len(q) - 1
          /\ \A i \in 1..Len(q) - 1 : r[i] = q[i + 1]
          /\ Head(q) = q[1]
      BY <3>1, TailFacts
    <3>3. rejected => c.op = "save" /\ Len(q) = 1
      BY <3>1, SaveFacts
    <3> HIDE DEF q, r, c
    <3>4. c.op = "save" => Unsaved' \subseteq errors'
      <4>1. c.op = "save" => tree'["sudo"] = tree["sudo"]
        BY <3>1 DEF Changed
      <4> QED
        BY <3>1, <4>1, SaveUnsaved
    <3>5. CASE rejected
      <4>1. c.op = "save" /\ Len(q) = 1
        BY <3>3, <3>5
      <4>2. Len(r) = 0 /\ Unsaved' \subseteq errors'
        BY <3>2, <3>4, <4>1
      <4>3. \A j \in 1..Len(r) : ~Touches(r[j])
        BY <4>2
      <4> QED
        BY <4>2, <4>3 DEF Settled, r
    <3>6. CASE Settled(queue["sudo"])
      <4>1. CASE \E i \in 1..Len(q) : Stores(q[i]) /\ \A j \in i + 1..Len(q) : ~Touches(q[j])
        <5>1. PICK i \in 1..Len(q) : Stores(q[i]) /\ \A j \in i + 1..Len(q) : ~Touches(q[j])
          BY <4>1
        <5>2. \A j \in 1..Len(r) : j >= i => ~Touches(r[j])
          <6> SUFFICES ASSUME NEW j \in 1..Len(r), j >= i PROVE ~Touches(r[j])
            OBVIOUS
          <6>1. j + 1 \in i + 1..Len(q) /\ r[j] = q[j + 1]
            BY <3>2
          <6> QED
            BY <5>1, <6>1
        <5>3. CASE i = 1
          <6>1. Unsaved' \subseteq errors'
            BY <3>1, <3>2, <3>4, <5>1, <5>3 DEF Stores
          <6>2. \A j \in 1..Len(r) : ~Touches(r[j])
            BY <3>2, <5>2, <5>3
          <6> QED
            BY <6>1, <6>2 DEF Settled, r
        <5>4. CASE i # 1
          <6>1. i - 1 \in 1..Len(r) /\ Stores(r[i - 1])
            <7>1. i - 1 \in 1..Len(q) - 1 /\ (i - 1) + 1 = i
              BY <3>2, <5>4
            <7> QED
              BY <3>2, <5>1, <7>1
          <6>2. \A j \in (i - 1) + 1..Len(r) : ~Touches(r[j])
            BY <3>2, <5>2
          <6> QED
            BY <6>1, <6>2 DEF Settled, r
        <5> QED
          BY <5>3, <5>4
      <4>2. CASE Unsaved \subseteq errors /\ \A j \in 1..Len(q) : ~Touches(q[j])
        <5>1. ~Touches(q[1])
          BY <3>2, <4>2
        <5>2. c.op # "save" => tree'["sudo"] = tree["sudo"] /\ UNCHANGED <<file, errors>>
          BY <3>1, <3>2, <5>1 DEF Touches, Changed
        <5>4. Unsaved' \subseteq errors'
          BY <3>4, <4>2, <5>2 DEF Unsaved
        <5>3. \A j \in 1..Len(r) : ~Touches(r[j])
          <6> SUFFICES ASSUME NEW j \in 1..Len(r) PROVE ~Touches(r[j])
            OBVIOUS
          <6>1. j + 1 \in 1..Len(q) /\ r[j] = q[j + 1]
            BY <3>2
          <6> QED
            BY <4>2, <6>1
        <5> QED
          BY <5>3, <5>4 DEF Settled, r
      <4> QED
        BY <3>6, <4>1, <4>2 DEF Settled, q
    <3> QED
      BY <2>1, <3>5, <3>6
  <2> QED
    BY <2>3, <2>4
<1> QED
  BY <1>2, <1>3, <1>4 DEF UnsavedInv

(* Nobody starts a process again that died. *)
LEMMA CrashUnsaved ==
  ASSUME UnsavedInv, NEW p \in Processes, Crash(p)
  PROVE  UnsavedInv'
<1>1. /\ alive' = alive \ {p} /\ queue' = [queue EXCEPT ![p] = <<>>]
      /\ UNCHANGED <<file, errors, tree, holder, at, rejected>>
  BY DEF Crash
<1>2. IsSeq(<<>>)
  <2>1. <<>> \in Seq({})
    OBVIOUS
  <2> QED
    BY <2>1 DEF IsSeq
<1>3. QueueInv'
  BY <1>1, <1>2 DEF UnsavedInv, QueueInv
<1>4. SavedInv'
  <2> SUFFICES ASSUME "sudo" \in alive, p # "sudo"
               PROVE  SavedInv'
    BY <1>1 DEF SavedInv
  <2>1. queue'["sudo"] = queue["sudo"]
    BY <1>1 DEF UnsavedInv, QueueInv, Processes
  <2> QED
    BY <1>1, <2>1 DEF UnsavedInv, SavedInv, Settled, Unsaved, Owes
<1> QED
  BY <1>1, <1>3, <1>4 DEF UnsavedInv, PlaceInv

LEMMA ReadUnsaved ==
  ASSUME UnsavedInv, NEW t \in Threads, Read(t)
  PROVE  UnsavedInv'
<1> DEFINE p == Process(t)
           l == at[t]
           answers == IF p \in alive THEN printed[p] ELSE <<>>
           n == After(l, answers)
<1>1. /\ Busy(t) /\ l.step # "services" /\ Placed(l) /\ p \in Processes
      /\ holder[p] = t /\ holder' = [holder EXCEPT ![p] = ""]
      /\ at' = [at EXCEPT ![t] = n]
      /\ UNCHANGED <<file, errors, tree, alive, queue>>
  BY ProcessOf DEF Read, Waiting, Sends, Released, UnsavedInv, PlaceInv
<1>2. rejected' = (rejected \/ at'[t].step = "failed")
  BY DEF Read
<1>3. p = "sudo" <=> l.request.kind # "GET"
  BY <1>1 DEF Process, Busy, Finished
<1>4. /\ Placed(n) /\ n.request = l.request /\ n.step # "idle"
      /\ l.step \in BeforeSave /\ l.request.kind # "GET" =>
           n.step \in BeforeSave \cup Saves \cup {"failed"}
  BY <1>1, AfterOnto DEF Busy
<1> HIDE DEF p, l, answers, n
<1>5. at'[t] = n /\ \A u \in Threads \ {t} : at'[u] = at[u]
  BY <1>1 DEF UnsavedInv, PlaceInv
<1>6. PlaceInv'
  BY <1>1, <1>4, <1>5 DEF UnsavedInv, PlaceInv
<1>7. QueueInv'
  BY <1>1 DEF UnsavedInv, QueueInv
<1>8. SavedInv'
  <2> SUFFICES ASSUME "sudo" \in alive
               PROVE  (\E u \in Threads : Owes(u)') \/ rejected' \/ Settled(queue["sudo"])'
    BY <1>1 DEF SavedInv
  <2>1. (\E u \in Threads : Owes(u)) \/ rejected \/ Settled(queue["sudo"])
    BY DEF UnsavedInv, SavedInv
  <2>2. "sudo" \in Processes /\ holder'["sudo"] \in {holder["sudo"], t, ""}
    BY <1>1 DEF UnsavedInv, QueueInv, Processes
  <2>3. ASSUME Owes(t) PROVE Owes(t)' \/ rejected'
    <3>1. l.request.kind # "GET" /\ l.step \in BeforeSave \cup Saves
      BY <2>3 DEF Owes, l
    <3>2. p = "sudo" /\ holder'["sudo"] # t
      BY <1>1, <1>3, <2>2, <3>1, AugToolAssumption DEF UnsavedInv, QueueInv
    <3>3. l.step \in BeforeSave
      BY <1>1, <2>3, <3>1, <3>2 DEF Owes, l
    <3>4. n.step \in BeforeSave \cup Saves \cup {"failed"}
      BY <1>4, <3>1, <3>3
    <3> QED
      BY <1>2, <1>4, <1>5, <3>1, <3>2, <3>4 DEF Owes
  <2>4. \A u \in Threads \ {t} : Owes(u) => Owes(u)'
    BY <1>5, <2>2, OthersUnsaved
  <2>5. Settled(queue["sudo"]) => Settled(queue["sudo"])'
    BY <1>1 DEF Settled, Unsaved
  <2>6. rejected => rejected'
    BY <1>2
  <2> QED
    BY <2>1, <2>3, <2>4, <2>5, <2>6
<1> QED
  BY <1>6, <1>7, <1>8 DEF UnsavedInv

(* A step of a request that has saved, or that begins another. *)
LEMMA GoOnUnsaved ==
  ASSUME UnsavedInv, NEW t \in Threads, NEW n, Placed(n), at' = [at EXCEPT ![t] = n], ~Owes(t),
         UNCHANGED <<file, errors, tree, alive, queue, holder, rejected>>
  PROVE  UnsavedInv'
<1>1. at'[t] = n /\ \A u \in Threads \ {t} : at'[u] = at[u]
  BY DEF UnsavedInv, PlaceInv
<1>2. PlaceInv'
  BY <1>1 DEF UnsavedInv, PlaceInv
<1>3. QueueInv'
  BY DEF UnsavedInv, QueueInv
<1>4. \A u \in Threads : Owes(u) => Owes(u)'
  BY <1>1 DEF Owes
<1>5. SavedInv'
  BY <1>4 DEF UnsavedInv, SavedInv, Settled, Unsaved
<1> QED
  BY <1>2, <1>3, <1>5 DEF UnsavedInv

LEMMA ServicesUnsaved ==
  ASSUME UnsavedInv, NEW t \in Threads, Services(t)
  PROVE  UnsavedInv'
<1>1. PICK step \in {"showNtp", "failed"} : at' = [at EXCEPT ![t] = Goto(@, step)]
  BY DEF Services
<1> DEFINE n == Goto(at[t], step)
<1>2. at[t].step = "services" /\ Placed(at[t])
  BY DEF Services, UnsavedInv, PlaceInv
<1>3. /\ {"step", "request"} \subseteq DOMAIN at[t] /\ at[t].request.kind = "POST"
  BY <1>2 DEF Placed, StepsOf, BeforeSave, AfterSave, Loop
<1>4. Onto(n, at[t], {step})
  BY <1>3, GotoOnto
<1>5. Placed(n)
  BY <1>3, <1>4 DEF Onto, Placed, StepsOf
<1> HIDE DEF n
<1>6. ~Owes(t)
  BY <1>2 DEF Owes, BeforeSave, Saves, Loop
<1>7. at' = [at EXCEPT ![t] = n]
  BY <1>1 DEF n, UnsavedInv, PlaceInv
<1> QED
  BY <1>5, <1>6, <1>7, GoOnUnsaved DEF Services

LEMMA TakeUnsaved ==
  ASSUME UnsavedInv, NEW t \in Threads, NEW r \in Requests, Take(t, r)
  PROVE  UnsavedInv'
<1>1. /\ ~Busy(t) /\ at' = [at EXCEPT ![t] = Begin(r)]
      /\ UNCHANGED <<file, errors, tree, alive, queue, holder, rejected>>
  BY DEF Take
<1>2. r.kind \in {"GET", "PUT", "POST"}
  BY AugToolAssumption
<1>3. Placed(Begin(r))
  BY <1>2 DEF Placed, Begin, StepsOf, BeforeSave
<1>4. ~Owes(t)
  BY <1>1 DEF Owes, Busy, Finished, BeforeSave, Saves, Loop
<1> QED
  BY <1>1, <1>3, <1>4, GoOnUnsaved

LEMMA StepUnsaved == UnsavedInv /\ [Next]_vars => UnsavedInv'
<1> SUFFICES ASSUME UnsavedInv, [Next]_vars PROVE UnsavedInv'
  OBVIOUS
<1>1. ASSUME NEW p \in Processes, Execute(p) PROVE UnsavedInv'
  BY <1>1, ExecuteUnsaved
<1>2. ASSUME NEW p \in Processes, Crash(p) PROVE UnsavedInv'
  BY <1>2, CrashUnsaved
<1>3. ASSUME NEW t \in Threads, Write(t) PROVE UnsavedInv'
  BY <1>3, WriteUnsaved
<1>4. ASSUME NEW t \in Threads, Read(t) PROVE UnsavedInv'
  BY <1>4, ReadUnsaved
<1>5. ASSUME NEW t \in Threads, Services(t) PROVE UnsavedInv'
  BY <1>5, ServicesUnsaved
<1>6. ASSUME NEW t \in Threads, NEW r \in Requests, Take(t, r) PROVE UnsavedInv'
  BY <1>6, TakeUnsaved
<1>7. CASE UNCHANGED vars
  BY <1>7 DEF vars, UnsavedInv, PlaceInv, QueueInv, SavedInv, Settled, Unsaved, Owes
<1> QED
  BY <1>1, <1>2, <1>3, <1>4, <1>5, <1>6, <1>7 DEF Next, Work

LEMMA InitUnsaved == Init => UnsavedInv
<1> SUFFICES ASSUME Init PROVE UnsavedInv
  OBVIOUS
<1>1. PlaceInv
  BY DEF Init, PlaceInv, Placed, Idle
<1>2. \A p \in Processes : queue[p] = <<>> /\ tree[p] = Start
  BY DEF Init
<1>3. IsSeq(<<>>) /\ Len(<<>>) = 0
  <2>1. <<>> \in Seq({}) /\ Len(<<>>) = 0
    OBVIOUS
  <2> QED
    BY <2>1 DEF IsSeq
<1>4. QueueInv
  BY <1>2, <1>3 DEF Init, QueueInv
<1>5. Settled(queue["sudo"])
  <2>1. Len(queue["sudo"]) = 0 /\ Unsaved = {}
    BY <1>2, <1>3 DEF Init, Processes, Unsaved
  <2>2. \A j \in 1..Len(queue["sudo"]) : ~Touches(queue["sudo"][j])
    BY <2>1
  <2> QED
    BY <2>1, <2>2 DEF Settled
<1>6. SavedInv
  BY <1>5 DEF SavedInv
<1> QED
  BY <1>1, <1>4, <1>6 DEF UnsavedInv

(* A command's answer, read alone, is its values.                            *)
LEMMA OneText == ASSUME NEW a PROVE Text(<<a>>) = a.values
<1> DEFINE v == a.values
           s == [i \in DOMAIN <<a>> |-> <<a>>[i].values]
<1>1. s = <<v>>
  OBVIOUS
<1>2. Len(<<v>>) = 1 /\ <<v>>[1] = v
  OBVIOUS
<1>3. FlattenSeq(<<v>>) = v
  <2> DEFINE Flat(f) == f = [i \in 1..1 |-> IF i = 1 THEN <<v>>[i] ELSE f[i - 1] \o <<v>>[i]]
  <2>1. Flat([i \in 1..1 |-> v])
    OBVIOUS
  <2>2. ASSUME NEW f, Flat(f) PROVE f[1] = v
    BY <2>2
  <2> HIDE DEF Flat
  <2>3. (CHOOSE f : Flat(f))[1] = v
    BY <2>1, <2>2
  <2>4. FlattenSeq(<<v>>) = (CHOOSE f : Flat(f))[1]
    BY <1>2 DEF FlattenSeq, Flat
  <2> QED
    BY <2>3, <2>4
<1> QED
  BY <1>1, <1>3 DEF Text

(* While it has never been late, what the privileged process has not executed *)
(* is the command of the thread that holds the mutex.                        *)
Sent ==
  "sudo" \notin slow /\ queue["sudo"] # <<>> =>
    /\ holder["sudo"] \in Threads /\ Sends(holder["sudo"]) /\ Process(holder["sudo"]) = "sudo"
    /\ queue["sudo"] = <<CommandOf(holder["sudo"])>>

(* A PUT that has yet to save, or to look whether all was saved, and then    *)
(* will see that it was not.                                                 *)
Looks(t) ==
  /\ at[t].step # "idle" /\ at[t].request.kind = "PUT"
  /\ \/ at[t].step \in BeforeSave
     \/ /\ at[t].step = "save"
        /\ holder["sudo"] = t => queue["sudo"] # <<>> \/ "interfaces" \in errors
     \/ /\ at[t].step = "recheckInterfaces" /\ "interfaces" \in errors
        /\ holder["sudo"] = t =>
             queue["sudo"] # <<>> \/ \E e : printed["sudo"] = <<e>> /\ e.values # <<>>

Unseen == "sudo" \in alive /\ "sudo" \notin slow /\ ~rejected /\ "interfaces" \in Unsaved

WatchInv == Sent /\ (Unseen => \E t \in Threads : Looks(t))

(* The others neither work for the holder's command nor lose what they look for. *)
LEMMA OthersLook ==
  ASSUME NEW t, Looks(t), at'[t] = at[t], "interfaces" \in errors => "interfaces" \in errors',
         holder'["sudo"] = t =>
           /\ holder["sudo"] = t /\ queue'["sudo"] = queue["sudo"]
           /\ printed'["sudo"] = printed["sudo"]
  PROVE  Looks(t)'
BY DEF Looks

(* A step that leaves the privileged process alone, by a thread that has     *)
(* nothing to look for.                                                      *)
LEMMA WatchLeft ==
  ASSUME PlaceInv, WatchInv, NEW t,
         UNCHANGED <<file, errors>>, tree'["sudo"] = tree["sudo"],
         queue'["sudo"] = queue["sudo"], printed'["sudo"] = printed["sudo"],
         holder'["sudo"] = holder["sudo"], rejected => rejected', slow \subseteq slow',
         alive' \subseteq alive, \A u \in Threads \ {t} : at'[u] = at[u],
         at'[t] = at[t] \/ ~(Sends(t) /\ Process(t) = "sudo"), at'[t] = at[t] \/ ~Looks(t)
  PROVE  WatchInv'
<1>1. Sent'
  <2> SUFFICES ASSUME "sudo" \notin slow, queue["sudo"] # <<>>
               PROVE  /\ holder["sudo"] \in Threads /\ Sends(holder["sudo"])'
                      /\ Process(holder["sudo"])' = "sudo"
                      /\ queue["sudo"] = <<CommandOf(holder["sudo"])'>>
    BY DEF Sent, Sends, Process, CommandOf, Busy
  <2> DEFINE h == holder["sudo"]
  <2>1. h \in Threads /\ Sends(h) /\ Process(h) = "sudo" /\ queue["sudo"] = <<CommandOf(h)>>
    BY DEF WatchInv, Sent
  <2>2. at'[h] = at[h]
    BY <2>1
  <2> HIDE DEF h
  <2>3. Sends(h)' /\ Process(h)' = "sudo" /\ CommandOf(h)' = CommandOf(h)
    BY <2>1, <2>2 DEF h, Sends, Busy, Process, CommandOf
  <2> QED
    BY <2>1, <2>3 DEF h
<1>2. ASSUME Unseen' PROVE \E u \in Threads : Looks(u)'
  <2>1. Unseen
    BY <1>2 DEF Unseen, Unsaved
  <2>2. PICK u \in Threads : Looks(u)
    BY <2>1 DEF WatchInv
  <2>3. at'[u] = at[u]
    BY <2>2
  <2>4. Looks(u)'
    BY <2>2, <2>3, OthersLook
  <2> QED
    BY <2>4
<1> QED
  BY <1>1, <1>2 DEF WatchInv

LEMMA WriteWatch ==
  ASSUME OwnInv, UnsavedInv, WatchInv, NEW t \in Threads, Write(t)
  PROVE  WatchInv'
<1> DEFINE p == Process(t)
<1>1. /\ Sends(t) /\ p \in Processes /\ holder[p] = "" /\ holder' = [holder EXCEPT ![p] = t]
      /\ queue' = IF p \in alive THEN [queue EXCEPT ![p] = Append(@, CommandOf(t))] ELSE queue
      /\ UNCHANGED <<file, errors, tree, alive, printed, at, slow, rejected>>
  BY ProcessOf DEF Write, Free
<1> HIDE DEF p
<1>2. /\ queue = [q \in Processes |-> queue[q]] /\ holder = [q \in Processes |-> holder[q]]
  BY DEF UnsavedInv, QueueInv
<1>3. CASE p # "sudo"
  <2>1. queue'["sudo"] = queue["sudo"] /\ holder'["sudo"] = holder["sudo"]
    BY <1>1, <1>2, <1>3 DEF Processes
  <2> QED
    BY <1>1, <2>1, WatchLeft DEF UnsavedInv
<1>4. CASE p = "sudo"
  <2>1. holder'["sudo"] = t /\ holder["sudo"] = ""
    BY <1>1, <1>2, <1>4
  <2>2. "sudo" \notin slow => queue["sudo"] = <<>> /\ printed["sudo"] = <<>>
    <3>1. "sudo" \notin slow => InOrder("sudo")
      BY DEF OwnInv, Processes
    <3> QED
      BY <2>1, <3>1, AugToolAssumption DEF InOrder
  <2>3. CommandOf(t)' = CommandOf(t) /\ Sends(t)' /\ Process(t)' = "sudo"
    BY <1>1, <1>4 DEF p, CommandOf, Sends, Busy, Process
  <2>4. ASSUME "sudo" \notin slow
        PROVE  queue'["sudo"] = IF "sudo" \in alive THEN <<CommandOf(t)>> ELSE <<>>
    BY <1>1, <1>2, <1>4, <2>2, <2>4, OneEntry
  <2>5. Sent'
    BY <1>1, <2>1, <2>3, <2>4 DEF Sent
  <2>6. ASSUME Unseen' PROVE \E u \in Threads : Looks(u)'
    <3>1. Unseen
      BY <1>1, <2>6 DEF Unseen, Unsaved
    <3>2. PICK u \in Threads : Looks(u)
      BY <3>1 DEF WatchInv
    <3>3. CASE u # t
      <4>1. Looks(u)'
        BY <1>1, <2>1, <3>2, <3>3, OthersLook
      <4> QED
        BY <4>1
    <3>4. CASE u = t
      <4>1. queue'["sudo"] # <<>>
        BY <2>4, <3>1, OneEntry DEF Unseen
      <4>2. Looks(t)'
        BY <1>1, <3>2, <3>4, <4>1 DEF Looks
      <4> QED
        BY <4>2
    <3> QED
      BY <3>3, <3>4
  <2> QED
    BY <2>5, <2>6 DEF WatchInv
<1> QED
  BY <1>3, <1>4

(* What a request asks the privileged process to do.                         *)
LEMMA SudoAsks ==
  ASSUME NEW t, Placed(at[t]), Sends(t), Process(t) = "sudo"
  PROVE  LET c == Asks(at[t]) IN
         /\ c.op \in {"set", "rm"} /\ at[t].request.kind = "PUT" => Looks(t)
         /\ c.op \in {"set", "rm"} /\ at[t].request.kind # "PUT" => c.key = Ntp
         /\ at[t].step = "save" => c.op = "save"
         /\ at[t].step = "recheckInterfaces" => c.op = "ls" /\ c.key = <<"interfaces">>
<1> DEFINE l == at[t]
<1>1. /\ l.step \notin Finished \cup {"services"} /\ l.step # "idle" /\ l.request.kind # "GET"
  BY DEF Sends, Busy, Process, Finished
<1>2. l.request.kind \in {"PUT", "POST"} /\ l.step \in StepsOf(l.request.kind)
  BY <1>1 DEF Placed, Finished
<1>3. Asks(l).op \in {"set", "rm"} => l.step \in BeforeSave
  <2>1. /\ l.step \in Saves => Asks(l).op = "save"
        /\ l.step \in AfterSave => Asks(l).op \notin {"set", "rm"}
        /\ l.step \in BeforeSave \cup Saves \cup AfterSave
    BY <1>1, AskedBy
  <2> QED
    BY <2>1
<1>4. l.request.kind = "POST" /\ l.step \in BeforeSave => l.step = "setNtp"
  BY <1>2 DEF StepsOf, BeforeSave, Loop
<1>5. /\ l.step = "setNtp" => Asks(l).key = Ntp
      /\ l.step = "save" => Asks(l).op = "save"
      /\ l.step = "recheckInterfaces" => Asks(l).op = "ls" /\ Asks(l).key = <<"interfaces">>
  BY DEF Asks, Command
<1> QED
  BY <1>1, <1>2, <1>3, <1>4, <1>5 DEF Looks

LEMMA ExecuteWatch ==
  ASSUME OwnInv, UnsavedInv, WatchInv, NEW p \in Processes, Execute(p)
  PROVE  WatchInv'
<1> DEFINE c == Head(queue[p]).does
           answer == [by |-> Head(queue[p]).by, values |-> Values(tree[p], Errors(p), c),
                      paths |-> Paths(tree[p], c)]
<1>1. /\ queue[p] # <<>> /\ queue' = [queue EXCEPT ![p] = Tail(@)]
      /\ tree' = [tree EXCEPT ![p] = Changed(@, c)]
      /\ IF c.op = "save" /\ p = "sudo" THEN Save ELSE UNCHANGED <<file, errors, rejected>>
      /\ printed' = [printed EXCEPT ![p] = Append(@, answer)]
      /\ UNCHANGED <<alive, holder, at, slow>>
  BY DEF Execute
<1>2. /\ queue = [q \in Processes |-> queue[q]] /\ tree = [q \in Processes |-> tree[q]]
      /\ printed = [q \in Processes |-> printed[q]]
  BY DEF UnsavedInv, QueueInv, OwnInv
<1>3. CASE p # "sudo"
  <2>1. /\ queue'["sudo"] = queue["sudo"] /\ tree'["sudo"] = tree["sudo"]
        /\ printed'["sudo"] = printed["sudo"]
    BY <1>1, <1>2, <1>3 DEF Processes
  <2> QED
    BY <1>1, <1>3, <2>1, WatchLeft DEF UnsavedInv
<1>4. CASE p = "sudo" /\ "sudo" \in slow
  BY <1>1, <1>4 DEF WatchInv, Sent, Unseen
<1>5. CASE p = "sudo" /\ "sudo" \notin slow
  <2>0. PICK h : h = holder["sudo"]
    OBVIOUS
  <2>1. /\ h \in Threads /\ Sends(h) /\ Process(h) = "sudo" /\ queue["sudo"] = <<CommandOf(h)>>
    BY <1>1, <1>5, <2>0 DEF WatchInv, Sent
  <2>2. printed["sudo"] = <<>>
    <3>1. InOrder("sudo")
      BY <1>5 DEF OwnInv, Processes
    <3> QED
      BY <1>1, <1>5, <3>1 DEF InOrder
  <2>3. Head(queue[p]) = CommandOf(h) /\ Tail(queue[p]) = <<>>
    BY <1>5, <2>1, OneEntry
  <2>4. c = Asks(at[h])
    BY <2>3 DEF CommandOf
  <2>5. answer.values = Values(tree["sudo"], errors, c)
    BY <1>5 DEF Errors
  <2> HIDE DEF c, answer
  <2>6. queue'["sudo"] = <<>> /\ printed'["sudo"] = <<answer>>
    BY <1>1, <1>2, <1>5, <2>2, <2>3, OneEntry
  <2>7. tree'["sudo"] = Changed(tree["sudo"], c)
    BY <1>1, <1>2, <1>5
  <2>8. Sent'
    BY <2>6 DEF Sent
  <2>9. Placed(at[h])
    BY <2>1 DEF UnsavedInv, PlaceInv
  <2>10. /\ c.op \in {"set", "rm"} /\ at[h].request.kind = "PUT" => Looks(h)
         /\ c.op \in {"set", "rm"} /\ at[h].request.kind # "PUT" => c.key = Ntp
         /\ at[h].step = "save" => c.op = "save"
         /\ at[h].step = "recheckInterfaces" => c.op = "ls" /\ c.key = <<"interfaces">>
    BY <2>1, <2>4, <2>9, SudoAsks
  <2>11. ASSUME Unseen' PROVE \E u \in Threads : Looks(u)'
    <3>1. ASSUME NEW u \in Threads, Looks(u), u # h,
                 "interfaces" \in errors => "interfaces" \in errors'
          PROVE  Looks(u)'
      BY <1>1, <2>0, <3>1, OthersLook
    <3>2. ASSUME c.op \in {"set", "rm"} PROVE \E u \in Threads : Looks(u)'
      <4>1. UNCHANGED <<file, errors, rejected>>
        BY <1>1, <3>2
      <4>2. CASE at[h].request.kind = "PUT"
        <5>1. Looks(h) /\ at[h].step \notin {"save", "recheckInterfaces"}
          BY <2>10, <3>2, <4>2
        <5>2. Looks(h)'
          BY <1>1, <5>1 DEF Looks
        <5> QED
          BY <2>1, <5>2
      <4>3. CASE at[h].request.kind # "PUT"
        <5>1. c.key = Ntp
          BY <2>10, <3>2, <4>3
        <5>2. \A k \in Keys : FileOf(k) = "interfaces" => tree'["sudo"][k] = tree["sudo"][k]
          BY <2>7, <5>1 DEF Changed, FileOf
        <5>3. Unseen
          <6>1. "interfaces" \in Unsaved
            BY <2>11, <4>1, <5>2 DEF Unseen, Unsaved
          <6> QED
            BY <1>1, <2>11, <4>1, <6>1 DEF Unseen
        <5>4. PICK u \in Threads : Looks(u)
          BY <5>3 DEF WatchInv
        <5>5. u # h
          BY <4>3, <5>4 DEF Looks
        <5> QED
          BY <3>1, <4>1, <5>4, <5>5
      <4> QED
        BY <4>2, <4>3
    <3>3. ASSUME c.op = "save" PROVE \E u \in Threads : Looks(u)'
      <4>1. Save /\ tree'["sudo"] = tree["sudo"]
        BY <1>1, <1>5, <2>7, <3>3 DEF Changed
      <4>2. "interfaces" \in Unsaved' /\ "interfaces" \in errors'
        BY <2>11, <4>1, SaveUnsaved DEF Unseen
      <4>3. Unseen
        <5>1. PICK k \in Keys : FileOf(k) = "interfaces" /\ tree'["sudo"][k] # file'[k]
          BY <4>2 DEF Unsaved
        <5>2. file'[k] = file[k]
          BY <4>1, <4>2, <5>1, SaveFacts
        <5>3. "interfaces" \in Unsaved
          BY <4>1, <5>1, <5>2 DEF Unsaved
        <5>4. ~rejected
          BY <2>11, <4>1, <4>2 DEF Save, Unseen
        <5> QED
          BY <1>1, <2>11, <5>3, <5>4 DEF Unseen
      <4>4. PICK u \in Threads : Looks(u)
        BY <4>3 DEF WatchInv
      <4>5. CASE u # h
        BY <3>1, <4>2, <4>4, <4>5
      <4>6. CASE u = h
        <5>1. at[h].step # "recheckInterfaces"
          BY <2>10, <3>3
        <5>2. Looks(h)'
          BY <1>1, <4>2, <4>4, <4>6, <5>1 DEF Looks
        <5> QED
          BY <2>1, <5>2
      <4> QED
        BY <4>5, <4>6
    <3>4. ASSUME c.op \notin {"set", "rm", "save"} PROVE \E u \in Threads : Looks(u)'
      <4>1. UNCHANGED <<file, errors, rejected>> /\ tree'["sudo"] = tree["sudo"]
        BY <1>1, <2>7, <3>4 DEF Changed
      <4>2. Unseen
        BY <1>1, <2>11, <4>1 DEF Unseen, Unsaved
      <4>3. PICK u \in Threads : Looks(u)
        BY <4>2 DEF WatchInv
      <4>4. CASE u # h
        BY <3>1, <4>1, <4>3, <4>4
      <4>5. CASE u = h
        <5>1. at[h].step # "save"
          BY <2>10, <3>4
        <5>2. ASSUME at[h].step = "recheckInterfaces", "interfaces" \in errors
              PROVE  answer.values # <<>>
          <6>1. c.op = "ls" /\ c.key = <<"interfaces">> /\ c.key[1] = "interfaces"
            BY <2>10, <5>2, OneEntry
          <6>2. answer.values = <<"interfaces">>
            BY <2>5, <5>2, <6>1 DEF Values
          <6> QED
            BY <6>2, OneEntry
        <5>3. Looks(h)'
          BY <1>1, <2>6, <4>1, <4>3, <4>5, <5>1, <5>2 DEF Looks
        <5> QED
          BY <2>1, <5>3
      <4> QED
        BY <4>4, <4>5
    <3> QED
      BY <3>2, <3>3, <3>4
  <2> QED
    BY <2>8, <2>11 DEF WatchInv
<1> QED
  BY <1>3, <1>4, <1>5

LEMMA CrashWatch ==
  ASSUME UnsavedInv, WatchInv, NEW p \in Processes, Crash(p)
  PROVE  WatchInv'
<1>1. /\ alive' = alive \ {p} /\ queue' = [queue EXCEPT ![p] = <<>>]
      /\ UNCHANGED <<file, errors, tree, printed, holder, at, slow, rejected>>
  BY DEF Crash
<1>2. CASE p = "sudo"
  <2>1. queue'["sudo"] = <<>>
    BY <1>1, <1>2 DEF UnsavedInv, QueueInv
  <2> QED
    BY <1>1, <1>2, <2>1 DEF WatchInv, Sent, Unseen
<1>3. CASE p # "sudo"
  <2>1. queue'["sudo"] = queue["sudo"]
    BY <1>1, <1>3 DEF UnsavedInv, QueueInv, Processes
  <2> QED
    BY <1>1, <2>1, WatchLeft DEF UnsavedInv
<1> QED
  BY <1>2, <1>3

(* Whoever reads of the error fails; whoever has saved will read of it.      *)
LEMMA ReadWatch ==
  ASSUME OwnInv, UnsavedInv, WatchInv, NEW t \in Threads, Read(t)
  PROVE  WatchInv'
<1> DEFINE p == Process(t)
           l == at[t]
           answers == IF p \in alive THEN printed[p] ELSE <<>>
           n == After(l, answers)
<1>1. /\ Sends(t) /\ Placed(l) /\ p \in Processes
      /\ holder[p] = t /\ holder' = [holder EXCEPT ![p] = ""]
      /\ printed' = [printed EXCEPT ![p] = <<>>]
      /\ at' = [at EXCEPT ![t] = n]
      /\ UNCHANGED <<file, errors, tree, alive, queue>>
  BY ProcessOf DEF Read, Waiting, Released, UnsavedInv, PlaceInv
<1>2. /\ slow' = IF queue[p] # <<>> THEN slow \cup {p} ELSE slow
      /\ rejected' = (rejected \/ at'[t].step = "failed")
  BY DEF Read
<1>3. l.step \notin Finished \cup {"services"}
  BY <1>1 DEF Sends, Busy
<1>4. p = "sudo" <=> l.request.kind # "GET"
  BY <1>3 DEF Process, Finished
<1>5. /\ Placed(n) /\ n.request = l.request /\ n.step # "idle"
      /\ l.step \in BeforeSave /\ l.request.kind # "GET" =>
           n.step \in BeforeSave \cup Saves \cup {"failed"}
  BY <1>1, <1>3, AfterOnto
<1>6. answers = IF p \in alive THEN printed[p] ELSE <<>>
  OBVIOUS
<1>7. n = After(l, answers)
  OBVIOUS
<1>8. l = at[t]
  OBVIOUS
<1> HIDE DEF p, l, answers, n
<1>9. at'[t] = n /\ \A u \in Threads \ {t} : at'[u] = at[u]
  BY <1>1 DEF UnsavedInv, PlaceInv
<1>10. /\ holder = [q \in Processes |-> holder[q]] /\ printed = [q \in Processes |-> printed[q]]
  BY DEF UnsavedInv, QueueInv, OwnInv
<1>11. CASE p # "sudo"
  <2>1. holder'["sudo"] = holder["sudo"] /\ printed'["sudo"] = printed["sudo"]
    BY <1>1, <1>10, <1>11 DEF Processes
  <2>2. ~Looks(t) /\ ~(Sends(t) /\ Process(t) = "sudo")
    BY <1>4, <1>8, <1>11 DEF Looks, p
  <2>3. rejected => rejected'
    BY <1>2
  <2> QED
    BY <1>1, <1>2, <1>9, <2>1, <2>2, <2>3, WatchLeft DEF UnsavedInv
<1>12. CASE p = "sudo" /\ queue["sudo"] # <<>>
  BY <1>2, <1>12 DEF WatchInv, Sent, Unseen
<1>13. CASE p = "sudo" /\ queue["sudo"] = <<>>
  <2>1. Sent' /\ holder'["sudo"] = "" /\ holder["sudo"] = t
    BY <1>1, <1>10, <1>13 DEF Sent
  <2>2. ASSUME Unseen' PROVE \E u \in Threads : Looks(u)'
    <3>1. Unseen /\ n.step # "failed"
      BY <1>1, <1>2, <1>9, <1>13, <2>2 DEF Unseen, Unsaved
    <3>2. PICK u \in Threads : Looks(u)
      BY <3>1 DEF WatchInv
    <3>3. u # ""
      BY AugToolAssumption
    <3>4. CASE u # t
      <4>1. Looks(u)'
        BY <1>1, <1>9, <2>1, <3>2, <3>3, <3>4, OthersLook
      <4> QED
        BY <4>1
    <3>5. CASE u = t
      <4>1. l.request.kind = "PUT"
        BY <1>8, <3>2, <3>5 DEF Looks
      <4>2. CASE l.step \in BeforeSave
        <5>1. n.step \in BeforeSave \cup Saves
          BY <1>5, <3>1, <4>1, <4>2
        <5>2. n.step # "saveNtp"
          BY <1>5, <4>1 DEF Placed, StepsOf, BeforeSave, AfterSave, Loop
        <5>3. Looks(t)'
          BY <1>5, <1>9, <2>1, <3>3, <3>5, <4>1, <5>1, <5>2 DEF Looks, Saves
        <5> QED
          BY <5>3
      <4>3. CASE l.step = "save"
        <5>1. "interfaces" \in errors
          BY <1>8, <1>13, <2>1, <3>2, <3>5, <4>3 DEF Looks, BeforeSave, Loop
        <5>2. n = Goto(l, "recheckInterfaces")
          BY <1>7, <4>3 DEF After
        <5>3. {"step", "request"} \subseteq DOMAIN l
          BY <1>1, <1>3 DEF Placed, Finished
        <5>4. n.step = "recheckInterfaces"
          BY <5>2, <5>3 DEF Goto
        <5>5. Looks(t)'
          BY <1>1, <1>5, <1>9, <2>1, <3>3, <3>5, <4>1, <5>1, <5>4 DEF Looks
        <5> QED
          BY <5>5
      <4>4. CASE l.step = "recheckInterfaces"
        <5>1. PICK e : printed["sudo"] = <<e>> /\ e.values # <<>>
          BY <1>8, <1>13, <2>1, <3>2, <3>5, <4>4 DEF Looks, BeforeSave, Loop
        <5>2. Text(answers) # <<>>
          <6>1. Text(<<e>>) = e.values
            BY OneText
          <6> QED
            BY <1>6, <1>13, <3>1, <5>1, <6>1 DEF Unseen
        <5>3. n = Fail(l)
          BY <1>7, <4>4, <5>2 DEF After
        <5>4. {"step", "request"} \subseteq DOMAIN l
          BY <1>1, <1>3 DEF Placed, Finished
        <5> QED
          BY <3>1, <5>3, <5>4 DEF Fail, Goto
      <4> QED
        BY <1>8, <3>2, <3>5, <4>2, <4>3, <4>4 DEF Looks
    <3> QED
      BY <3>4, <3>5
  <2> QED
    BY <2>1, <2>2 DEF WatchInv
<1> QED
  BY <1>11, <1>12, <1>13

LEMMA StepWatch == OwnInv /\ UnsavedInv /\ WatchInv /\ [Next]_vars => WatchInv'
<1> SUFFICES ASSUME OwnInv, UnsavedInv, WatchInv, [Next]_vars PROVE WatchInv'
  OBVIOUS
<1>1. ASSUME NEW p \in Processes, Execute(p) PROVE WatchInv'
  BY <1>1, ExecuteWatch
<1>2. ASSUME NEW p \in Processes, Crash(p) PROVE WatchInv'
  BY <1>2, CrashWatch
<1>3. ASSUME NEW t \in Threads, Write(t) PROVE WatchInv'
  BY <1>3, WriteWatch
<1>4. ASSUME NEW t \in Threads, Read(t) PROVE WatchInv'
  BY <1>4, ReadWatch
<1>5. ASSUME NEW t \in Threads, Services(t) PROVE WatchInv'
  <2>1. /\ at[t].step = "services" /\ \A u \in Threads \ {t} : at'[u] = at[u]
        /\ UNCHANGED <<file, errors, tree, alive, queue, printed, holder, slow, rejected>>
    BY <1>5 DEF Services, UnsavedInv, PlaceInv
  <2>2. ~Sends(t) /\ ~Looks(t)
    BY <2>1 DEF Sends, Looks, BeforeSave, Loop
  <2> QED
    BY <2>1, <2>2, WatchLeft DEF UnsavedInv
<1>6. ASSUME NEW t \in Threads, NEW r \in Requests, Take(t, r) PROVE WatchInv'
  <2>1. /\ ~Busy(t) /\ \A u \in Threads \ {t} : at'[u] = at[u]
        /\ UNCHANGED <<file, errors, tree, alive, queue, printed, holder, slow, rejected>>
    BY <1>6 DEF Take, UnsavedInv, PlaceInv
  <2>2. ~Sends(t) /\ ~Looks(t)
    BY <2>1 DEF Sends, Busy, Finished, Looks, BeforeSave, Loop
  <2> QED
    BY <2>1, <2>2, WatchLeft DEF UnsavedInv
<1>7. CASE UNCHANGED vars
  BY <1>7, WatchLeft DEF vars, UnsavedInv
<1> QED
  BY <1>1, <1>2, <1>3, <1>4, <1>5, <1>6, <1>7 DEF Next, Work

(* The tree of the privileged process differs from the files only while a    *)
(* request is at work or commands wait to be executed, or since a request    *)
(* has failed: whoever else succeeds has had all that was set before stored. *)
(* Or a file could not be stored: but of the interfaces this is noticed,     *)
(* whoever saved them and whoever else was at work, unless the process has   *)
(* been late.                                                                *)
THEOREM SavedByThen == Spec => []NothingLeftUnsaved
<1>1. Init => OwnInv /\ UnsavedInv /\ WatchInv
  <2>1. Init => OwnInv
    BY DEF Init, OwnInv, InOrder
  <2>2. Init => WatchInv
    <3> SUFFICES ASSUME Init PROVE WatchInv
      OBVIOUS
    <3>1. queue["sudo"] = <<>> /\ tree["sudo"] = file
      BY DEF Init, Processes
    <3> QED
      BY <3>1 DEF WatchInv, Sent, Unseen, Unsaved
  <2> QED
    BY <2>1, <2>2, InitUnsaved
<1>2. UnsavedInv /\ WatchInv => NothingLeftUnsaved
  <2> SUFFICES ASSUME UnsavedInv, WatchInv, Unsaved # {}, "sudo" \in alive, ~rejected,
                      queue["sudo"] = <<>>, Changing = {}
               PROVE  Unsaved \subseteq errors /\ ("interfaces" \in Unsaved => "sudo" \in slow)
    BY DEF NothingLeftUnsaved
  <2>1. ASSUME NEW t \in Threads, Owes(t) \/ Looks(t) PROVE FALSE
    <3>1. Busy(t) /\ Process(t) = "sudo"
      BY <2>1 DEF Owes, Looks, Busy, Process, Finished, BeforeSave, Saves, Loop
    <3> QED
      BY <3>1 DEF Changing
  <2>2. Unsaved \subseteq errors
    <3>1. Settled(queue["sudo"])
      BY <2>1 DEF UnsavedInv, SavedInv
    <3>2. Len(queue["sudo"]) = 0
      OBVIOUS
    <3> QED
      BY <3>1, <3>2 DEF Settled
  <2>3. "interfaces" \in Unsaved => "sudo" \in slow
    BY <2>1 DEF WatchInv, Unseen
  <2> QED
    BY <2>2, <2>3
<1> QED
  BY <1>1, <1>2, StepOwn, StepUnsaved, StepWatch, PTL DEF Spec
------------------------------------------------------------------------------
(* What readers are shown *)

(* No process was ever late or died: while that is so, the reader's answers  *)
(* are its own and there is one for every command.                           *)
Quiet == slow = {} /\ alive = Processes

Answer(t) ==
  [by |-> t, values |-> Values(Start, {}, Asks(at[t])), paths |-> Paths(Start, Asks(at[t]))]

(* The pipes of the unprivileged process hold nothing but the command of the *)
(* thread that has the mutex, or the answer of the tree read at the start.   *)
PipeInv ==
  LET h == holder["nopriv"] IN
  IF h = "" THEN queue["nopriv"] = <<>> /\ printed["nopriv"] = <<>>
  ELSE /\ h \in Threads /\ Sends(h) /\ Process(h) = "nopriv"
       /\ \/ queue["nopriv"] = <<CommandOf(h)>> /\ printed["nopriv"] = <<>>
          \/ queue["nopriv"] = <<>> /\ printed["nopriv"] = <<Answer(h)>>

(* How far a GET has come, and what it has collected by then.                *)
GetFields == {"step", "request", "member", "path", "method", "todo", "shown"}
Collects(l) ==
  LET iface == l.request.iface
      found(name) == Found(Start, <<iface, name>>)
  IN /\ GetFields \subseteq DOMAIN l
     /\ l.step \in {"checkInterfaces", "checkResolv", "find", "getFirst", "showMethod"} =>
          l.shown = <<>>
     /\ l.step \in {"getFirst", "showMethod", "showAddress", "showGateway"} =>
          iface \in Ifaces /\ l.path = <<iface>>
     /\ l.step = "showAddress" => l.shown = <<found("method")>>
     /\ l.step = "showGateway" => l.shown = <<found("method"), found("address")>>
     /\ l.step = "done" => l.shown = Shown(Start, l.request)
     /\ l.step = "failed" => iface \notin Ifaces

Reader(t) == at[t].step # "idle" /\ at[t].request.kind = "GET"

ReadersInv ==
  /\ base = [t \in Threads |-> base[t]] /\ printed = [p \in Processes |-> printed[p]]
  /\ \A t \in Threads : base[t] # Disturbed => Quiet /\ at[t].step # "idle"
  /\ Quiet => /\ tree["nopriv"] = Start /\ PipeInv
              /\ \A t \in Threads : Reader(t) => Collects(at[t])

LEMMA OneMore ==
  ASSUME NEW a, NEW b, NEW c
  PROVE  /\ Append(<<>>, a) = <<a>> /\ Append(<<a>>, b) = <<a, b>>
         /\ Append(<<a, b>>, c) = <<a, b, c>>
<1> DEFINE S == {a, b, c}
<1>1. <<a>> \in Seq(S) /\ <<a, b>> \in Seq(S) /\ <<a, b, c>> \in Seq(S)
  OBVIOUS
<1>2. Append(<<a>>, b) = <<a, b>>
  <2>1. Append(<<a>>, b) \in Seq(S) /\ Len(Append(<<a>>, b)) = 2
    BY <1>1
  <2>2. Append(<<a>>, b)[1] = a /\ Append(<<a>>, b)[2] = b
    OBVIOUS
  <2>3. Append(<<a>>, b) = [i \in 1..2 |-> Append(<<a>>, b)[i]]
    BY <2>1
  <2>4. <<a, b>> = [i \in 1..2 |-> <<a, b>>[i]]
    OBVIOUS
  <2>5. \A i \in 1..2 : Append(<<a>>, b)[i] = <<a, b>>[i]
    BY <2>2
  <2> DEFINE r == Append(<<a>>, b)
             u == <<a, b>>
  <2> HIDE DEF r, u
  <2>6. r = u
    BY <2>3, <2>4, <2>5 DEF r, u
  <2> QED
    BY <2>6 DEF r, u
<1>3. Append(<<a, b>>, c) = <<a, b, c>>
  <2>1. Append(<<a, b>>, c) \in Seq(S) /\ Len(Append(<<a, b>>, c)) = 3
    BY <1>1
  <2>2. /\ Append(<<a, b>>, c)[1] = a /\ Append(<<a, b>>, c)[2] = b
        /\ Append(<<a, b>>, c)[3] = c
    OBVIOUS
  <2>3. Append(<<a, b>>, c) = [i \in 1..3 |-> Append(<<a, b>>, c)[i]]
    BY <2>1
  <2>4. <<a, b, c>> = [i \in 1..3 |-> <<a, b, c>>[i]]
    OBVIOUS
  <2>5. \A i \in 1..3 : Append(<<a, b>>, c)[i] = <<a, b, c>>[i]
    BY <2>2
  <2> DEFINE r == Append(<<a, b>>, c)
             u == <<a, b, c>>
  <2> HIDE DEF r, u
  <2>6. r = u
    BY <2>3, <2>4, <2>5 DEF r, u
  <2> QED
    BY <2>6 DEF r, u
<1> QED
  BY <1>2, <1>3

(* Where a reader is, one answer takes it on with what the start holds.      *)
LEMMA ReaderGoesOn ==
  ASSUME NEW l, Placed(l), l.step \notin Finished, l.request.kind = "GET", Collects(l), NEW t
  PROVE  LET answer == [by |-> t, values |-> Values(Start, {}, Asks(l)),
                        paths |-> Paths(Start, Asks(l))]
         IN Collects(After(l, <<answer>>))
<1> DEFINE values == Values(Start, {}, Asks(l))
           answer == [by |-> t, values |-> values, paths |-> Paths(Start, Asks(l))]
           n == After(l, <<answer>>)
           iface == l.request.iface
           found(name) == Found(Start, <<iface, name>>)
<1> SUFFICES Collects(n)
  OBVIOUS
<1>1. /\ GetFields \subseteq DOMAIN l
      /\ l.step \in {"checkInterfaces", "checkResolv", "find", "getFirst", "showMethod",
                     "showAddress", "showGateway"}
  BY DEF Placed, StepsOf, Finished, Collects
<1>2. Text(<<answer>>) = values
  BY OneText
<1>3. Len(<<answer>>) = 1
  OBVIOUS
<1> HIDE DEF answer, values
<1>4. CASE l.step \in {"checkInterfaces", "checkResolv"}
  <2>1. values = <<>>
    BY <1>4 DEF values, Values, Asks, Command
  <2>2. n = Goto(l, "checkResolv") \/ n = Goto(l, "find")
    BY <1>2, <1>4, <2>1 DEF After
  <2>3. l.shown = <<>>
    BY <1>4 DEF Collects
  <2>4. /\ n.request = l.request /\ n.step \in {"checkResolv", "find"} /\ n.shown = <<>>
        /\ GetFields \subseteq DOMAIN n
    BY <1>1, <2>2, <2>3 DEF Goto, GetFields
  <2> HIDE DEF n
  <2> QED
    BY <2>4 DEF Collects
<1>5. CASE l.step = "find"
  <2>1. values = IF iface \in Ifaces THEN <<iface>> ELSE <<>>
    BY <1>5 DEF values, Values, Asks, Command
  <2>2. Lines(<<answer>>) = values
    BY <1>2, <1>3, <2>1 DEF Lines
  <2>3. n = IF values = <<>> THEN Fail(l) ELSE [l EXCEPT !.path = values, !.step = "getFirst"]
    BY <1>5, <2>2 DEF After
  <2>4. l.shown = <<>>
    BY <1>5 DEF Collects
  <2>5. CASE iface \in Ifaces
    <3>1. n = [l EXCEPT !.path = <<iface>>, !.step = "getFirst"]
      BY <2>1, <2>3, <2>5
    <3>2. /\ n.request = l.request /\ n.step = "getFirst" /\ n.shown = <<>> /\ n.path = <<iface>>
          /\ GetFields \subseteq DOMAIN n
      BY <1>1, <2>4, <3>1 DEF GetFields
    <3> HIDE DEF n
    <3> QED
      BY <2>5, <3>2 DEF Collects
  <2>6. CASE iface \notin Ifaces
    <3>1. n = Fail(l)
      BY <2>1, <2>3, <2>6
    <3>2. n.request = l.request /\ n.step = "failed" /\ GetFields \subseteq DOMAIN n
      BY <1>1, <3>1 DEF GetFields, Fail, Goto
    <3> HIDE DEF n
    <3> QED
      BY <2>6, <3>2 DEF Collects
  <2> QED
    BY <2>5, <2>6
<1>6. CASE l.step = "getFirst"
  <2>1. n = Goto([l EXCEPT !.method = values], "showMethod")
    BY <1>2, <1>6 DEF After
  <2>2. l.shown = <<>> /\ iface \in Ifaces /\ l.path = <<iface>>
    BY <1>6 DEF Collects
  <2>3. /\ n.request = l.request /\ n.step = "showMethod" /\ n.shown = l.shown /\ n.path = l.path
        /\ GetFields \subseteq DOMAIN n
    BY <1>1, <2>1 DEF GetFields, Goto
  <2> HIDE DEF n
  <2> QED
    BY <2>2, <2>3 DEF Collects
<1>7. ASSUME l.step \in {"showMethod", "showAddress", "showGateway"}
      PROVE  /\ iface \in Ifaces /\ l.path = <<iface>>
             /\ \A name : Key(l, name) = <<iface, name>>
  <2>1. iface \in Ifaces /\ l.path = <<iface>>
    BY <1>7 DEF Collects
  <2>2. Len(<<iface>>) = 1 /\ <<iface>>[1] = iface
    OBVIOUS
  <2> HIDE DEF iface
  <2> QED
    BY <2>1, <2>2 DEF Key
<1>8. CASE l.step = "showMethod"
  <2>1. values = found("method")
    BY <1>7, <1>8 DEF values, Values, Asks, Command
  <2>2. n = [l EXCEPT !.shown = Append(@, values), !.step = "showAddress"]
    BY <1>2, <1>8 DEF After, Show
  <2>3. Append(l.shown, values) = <<found("method")>>
    <3>1. l.shown = <<>>
      BY <1>8 DEF Collects
    <3> QED
      BY <2>1, <3>1, OneMore
  <2>4. /\ n.request = l.request /\ n.path = l.path /\ n.step = "showAddress"
        /\ n.shown = Append(l.shown, values) /\ GetFields \subseteq DOMAIN n
    BY <1>1, <2>2 DEF GetFields
  <2> HIDE DEF n
  <2> QED
    BY <1>7, <1>8, <2>3, <2>4 DEF Collects
<1>9. CASE l.step = "showAddress"
  <2>1. values = found("address")
    BY <1>7, <1>9 DEF values, Values, Asks, Command
  <2>2. n = [l EXCEPT !.shown = Append(@, values), !.step = "showGateway"]
    BY <1>2, <1>9 DEF After, Show
  <2>3. Append(l.shown, values) = <<found("method"), found("address")>>
    <3>1. l.shown = <<found("method")>>
      BY <1>9 DEF Collects
    <3> QED
      BY <2>1, <3>1, OneMore
  <2>4. /\ n.request = l.request /\ n.path = l.path /\ n.step = "showGateway"
        /\ n.shown = Append(l.shown, values) /\ GetFields \subseteq DOMAIN n
    BY <1>1, <2>2 DEF GetFields
  <2> HIDE DEF n
  <2> QED
    BY <1>7, <1>9, <2>3, <2>4 DEF Collects
<1>10. CASE l.step = "showGateway"
  <2>1. values = found("gateway")
    BY <1>7, <1>10 DEF values, Values, Asks, Command
  <2>2. n = [l EXCEPT !.shown = Append(@, values), !.step = "done"]
    BY <1>2, <1>10 DEF After, Show
  <2>3. Append(l.shown, values) = <<found("method"), found("address"), found("gateway")>>
    <3>1. l.shown = <<found("method"), found("address")>>
      BY <1>10 DEF Collects
    <3> QED
      BY <2>1, <3>1, OneMore
  <2>4. Shown(Start, l.request) = <<found("method"), found("address"), found("gateway")>>
    <3> DEFINE s == [k \in 1..3 |-> Found(Start, <<iface, <<"method", "address", "gateway">>[k]>>)]
    <3>1. s = <<found("method"), found("address"), found("gateway")>>
      OBVIOUS
    <3>2. Shown(Start, l.request) = s \o <<>>
      BY DEF Shown
    <3> HIDE DEF s, found
    <3> QED
      BY <3>1, <3>2
  <2>5. n.request = l.request /\ n.step = "done" /\ GetFields \subseteq DOMAIN n
        /\ n.shown = Append(l.shown, values)
    BY <1>1, <2>2 DEF GetFields
  <2> HIDE DEF n, found
  <2> QED
    BY <2>3, <2>4, <2>5 DEF Collects
<1> QED
  BY <1>1, <1>4, <1>5, <1>6, <1>8, <1>9, <1>10

(* What the unprivileged process is asked, and what the steps of others      *)
(* leave as it is.                                                           *)
LEMMA ReaderAsks ==
  ASSUME NEW l, Placed(l), l.step \notin Finished, l.request.kind = "GET"
  PROVE  Asks(l).op \notin {"set", "rm", "save"}
<1>1. l.step \in {"checkInterfaces", "checkResolv", "find", "getFirst", "showMethod",
                  "showAddress", "showGateway"}
  BY DEF Placed, StepsOf, Finished
<1> QED
  BY <1>1 DEF Asks, Command

(* A change of the other process, or of a request that does not read.        *)
LEMMA OthersLeave ==
  ASSUME UnsavedInv, ReadersInv, NEW u,
         tree'["nopriv"] = tree["nopriv"], queue'["nopriv"] = queue["nopriv"],
         printed'["nopriv"] = printed["nopriv"], holder'["nopriv"] = holder["nopriv"],
         \A t \in Threads \ {u} : at'[t] = at[t],
         at'[u] = at[u] \/ ~ Reader(u),
         Reader(u)' /\ ~ Reader(u) => Collects(at'[u]),
         Quiet' => Quiet, base' = [t \in Threads |-> base'[t]],
         printed' = [p \in Processes |-> printed'[p]],
         \A t \in Threads : base'[t] # Disturbed => Quiet' /\ at'[t].step # "idle"
  PROVE  ReadersInv'
<1> SUFFICES ASSUME Quiet'
             PROVE  /\ tree'["nopriv"] = Start /\ PipeInv'
                    /\ \A t \in Threads : Reader(t)' => Collects(at'[t])
  BY DEF ReadersInv
<1>1. Quiet
  OBVIOUS
<1>2. /\ tree["nopriv"] = Start /\ PipeInv
      /\ \A t \in Threads : Reader(t) => Collects(at[t])
  BY <1>1 DEF ReadersInv
<1>3. PipeInv'
  <2> DEFINE h == holder["nopriv"]
  <2>1. CASE h = ""
    BY <1>2, <2>1 DEF PipeInv
  <2>2. CASE h # ""
    <3>1. h \in Threads /\ Sends(h) /\ Process(h) = "nopriv"
      BY <1>2, <2>2 DEF PipeInv
    <3>2. Reader(h)
      BY <3>1 DEF Reader, Process
    <3>3. at'[h] = at[h]
      BY <3>1, <3>2
    <3> QED
      BY <1>2, <2>2, <3>1, <3>3 DEF PipeInv, Sends, Process, Busy, CommandOf, Answer
  <2> QED
    BY <2>1, <2>2
<1>4. ASSUME NEW t \in Threads, Reader(t)' PROVE Collects(at'[t])
  BY <1>2, <1>4 DEF Reader
<1> QED
  BY <1>2, <1>3, <1>4

LEMMA WriteReaders ==
  ASSUME UnsavedInv, ReadersInv, NEW t \in Threads, Write(t)
  PROVE  ReadersInv'
<1> DEFINE p == Process(t)
<1>1. /\ Sends(t) /\ p \in Processes /\ holder[p] = "" /\ holder' = [holder EXCEPT ![p] = t]
      /\ queue' = IF p \in alive THEN [queue EXCEPT ![p] = Append(@, CommandOf(t))] ELSE queue
      /\ UNCHANGED <<tree, alive, printed, at, base, slow>>
  BY ProcessOf DEF Write, Free
<1> HIDE DEF p
<1>2. /\ queue = [q \in Processes |-> queue[q]] /\ holder = [q \in Processes |-> holder[q]]
  BY DEF UnsavedInv, QueueInv
<1>3. CASE p = "nopriv"
  <2> SUFFICES ASSUME Quiet PROVE PipeInv'
    BY <1>1 DEF ReadersInv, Quiet, Reader
  <2>1. queue["nopriv"] = <<>> /\ printed["nopriv"] = <<>>
    BY <1>1, <1>3 DEF ReadersInv, PipeInv
  <2>2. holder'["nopriv"] = t /\ t # ""
    BY <1>1, <1>2, <1>3, AugToolAssumption
  <2>3. queue'["nopriv"] = <<CommandOf(t)>>
    BY <1>1, <1>2, <1>3, <2>1, OneEntry DEF Quiet
  <2>4. Sends(t)' /\ Process(t)' = "nopriv" /\ CommandOf(t)' = CommandOf(t)
    BY <1>1, <1>3 DEF p, Sends, Busy, Process, CommandOf
  <2> QED
    BY <1>1, <2>1, <2>2, <2>3, <2>4 DEF PipeInv
<1>4. CASE p # "nopriv"
  <2>1. queue'["nopriv"] = queue["nopriv"] /\ holder'["nopriv"] = holder["nopriv"]
    BY <1>1, <1>2, <1>4 DEF Processes
  <2>2. \A u \in Threads : base'[u] # Disturbed => Quiet' /\ at'[u].step # "idle"
    BY <1>1 DEF ReadersInv, Quiet
  <2>3. (Reader(t)' <=> Reader(t)) /\ (Quiet' <=> Quiet)
    BY <1>1 DEF Reader, Quiet
  <2>4. printed' = [q \in Processes |-> printed'[q]] /\ base' = [u \in Threads |-> base'[u]]
    BY <1>1 DEF ReadersInv
  <2> QED
    BY <1>1, <2>1, <2>2, <2>3, <2>4, OthersLeave
<1> QED
  BY <1>3, <1>4

LEMMA ExecuteReaders ==
  ASSUME UnsavedInv, ReadersInv, NEW p \in Processes, Execute(p)
  PROVE  ReadersInv'
<1> DEFINE c == Head(queue[p]).does
           answer == [by |-> Head(queue[p]).by, values |-> Values(tree[p], Errors(p), c),
                      paths |-> Paths(tree[p], c)]
<1>1. /\ queue[p] # <<>> /\ queue' = [queue EXCEPT ![p] = Tail(@)]
      /\ tree' = [tree EXCEPT ![p] = Changed(@, c)]
      /\ printed' = [printed EXCEPT ![p] = Append(@, answer)]
      /\ UNCHANGED <<alive, holder, at, base, slow>>
  BY DEF Execute
<1>2. /\ queue = [q \in Processes |-> queue[q]] /\ tree = [q \in Processes |-> tree[q]]
      /\ printed = [q \in Processes |-> printed[q]]
  BY DEF UnsavedInv, QueueInv, ReadersInv
<1>3. CASE p = "nopriv"
  <2>1. printed' = [q \in Processes |-> printed'[q]]
    BY <1>1, <1>2
  <2> SUFFICES ASSUME Quiet PROVE tree'["nopriv"] = Start /\ PipeInv'
    BY <1>1, <2>1 DEF ReadersInv, Quiet, Reader
  <2> DEFINE h == holder["nopriv"]
  <2>2. tree["nopriv"] = Start /\ PipeInv
    BY DEF ReadersInv
  <2>3. /\ h # "" /\ h \in Threads /\ Sends(h) /\ Process(h) = "nopriv"
        /\ queue["nopriv"] = <<CommandOf(h)>> /\ printed["nopriv"] = <<>>
    BY <1>1, <1>3, <2>2 DEF PipeInv
  <2>4. Head(queue[p]) = CommandOf(h) /\ Tail(queue[p]) = <<>>
    BY <1>3, <2>3, OneEntry
  <2>5. c = Asks(at[h]) /\ Head(queue[p]).by = h
    BY <2>4 DEF CommandOf
  <2>6. Placed(at[h]) /\ at[h].step \notin Finished /\ at[h].request.kind = "GET"
    BY <2>3 DEF UnsavedInv, PlaceInv, Sends, Busy, Process
  <2>7. Changed(Start, c) = Start
    BY <2>5, <2>6, ReaderAsks DEF Changed
  <2>8. answer = Answer(h)
    BY <1>3, <2>2, <2>5 DEF Answer, Errors
  <2> HIDE DEF c, answer
  <2>9. tree'["nopriv"] = Start
    BY <1>1, <1>2, <1>3, <2>2, <2>7
  <2>10. queue'["nopriv"] = <<>> /\ printed'["nopriv"] = <<Answer(h)>>
    BY <1>1, <1>2, <1>3, <2>3, <2>4, <2>8, OneEntry
  <2>11. Sends(h)' /\ Process(h)' = "nopriv" /\ Answer(h)' = Answer(h)
    BY <1>1, <2>3 DEF Sends, Busy, Process, Answer
  <2> QED
    BY <1>1, <2>3, <2>9, <2>10, <2>11 DEF PipeInv
<1>4. CASE p # "nopriv"
  <2>1. /\ queue'["nopriv"] = queue["nopriv"] /\ tree'["nopriv"] = tree["nopriv"]
        /\ printed'["nopriv"] = printed["nopriv"]
    BY <1>1, <1>2, <1>4 DEF Processes
  <2>2. printed' = [q \in Processes |-> printed'[q]]
    BY <1>1, <1>2
  <2>3. \A u \in Threads : base'[u] # Disturbed => Quiet' /\ at'[u].step # "idle"
    BY <1>1 DEF ReadersInv, Quiet
  <2>4. (Reader("")' <=> Reader("")) /\ (Quiet' <=> Quiet)
    BY <1>1 DEF Reader, Quiet
  <2>5. base' = [u \in Threads |-> base'[u]]
    BY <1>1 DEF ReadersInv
  <2> QED
    BY <1>1, <2>1, <2>2, <2>3, <2>4, <2>5, OthersLeave
<1> QED
  BY <1>3, <1>4

(* Once a process has died or was late nobody counts as undisturbed.         *)
LEMMA CrashReaders ==
  ASSUME UnsavedInv, ReadersInv, NEW p \in Processes, Crash(p)
  PROVE  ReadersInv'
<1>1. /\ p \in alive /\ alive' = alive \ {p} /\ base' = [t \in Threads |-> Disturbed]
      /\ UNCHANGED printed
  BY DEF Crash
<1>2. ~ Quiet'
  BY <1>1 DEF Quiet
<1> QED
  BY <1>1, <1>2 DEF ReadersInv

LEMMA ReadReaders ==
  ASSUME UnsavedInv, ReadersInv, NEW t \in Threads, Read(t)
  PROVE  ReadersInv'
<1> DEFINE p == Process(t)
           l == at[t]
           answers == IF p \in alive THEN printed[p] ELSE <<>>
           n == After(l, answers)
<1>1. /\ Sends(t) /\ Placed(l) /\ p \in Processes
      /\ holder[p] = t /\ holder' = [holder EXCEPT ![p] = ""]
      /\ printed' = [printed EXCEPT ![p] = <<>>]
      /\ at' = [at EXCEPT ![t] = n]
      /\ UNCHANGED <<tree, alive, queue>>
  BY ProcessOf DEF Read, Waiting, Released, UnsavedInv, PlaceInv
<1>2. /\ slow' = IF queue[p] # <<>> THEN slow \cup {p} ELSE slow
      /\ base' = IF queue[p] # <<>> THEN [u \in Threads |-> Disturbed] ELSE base
  BY DEF Read
<1>3. p = "nopriv" <=> l.request.kind = "GET"
  BY <1>1 DEF Process, Sends, Busy, Finished
<1>4. Placed(n) /\ n.request = l.request /\ n.step # "idle"
  BY <1>1, AfterOnto DEF Sends, Busy
<1>5. l.step \notin Finished
  BY <1>1 DEF Sends, Busy
<1>6. answers = IF p \in alive THEN printed[p] ELSE <<>>
  OBVIOUS
<1>7. n = After(l, answers)
  OBVIOUS
<1> HIDE DEF p, answers, n
<1>8. /\ at'[t] = n /\ \A u \in Threads \ {t} : at'[u] = at[u]
  BY <1>1 DEF UnsavedInv, PlaceInv
<1>9. /\ base' = [u \in Threads |-> base'[u]] /\ printed' = [q \in Processes |-> printed'[q]]
      /\ holder = [q \in Processes |-> holder[q]] /\ printed = [q \in Processes |-> printed[q]]
  BY <1>1, <1>2 DEF ReadersInv, UnsavedInv, QueueInv
<1>10. CASE queue[p] # <<>>
  <2>1. ~ Quiet' /\ \A u \in Threads : base'[u] = Disturbed
    BY <1>1, <1>2, <1>10 DEF Quiet
  <2> QED
    BY <1>9, <2>1 DEF ReadersInv
<1>11. CASE queue[p] = <<>>
  <2>1. UNCHANGED <<slow, base>> /\ (Quiet' <=> Quiet)
    BY <1>1, <1>2, <1>11 DEF Quiet
  <2>2. \A u \in Threads : base'[u] # Disturbed => Quiet' /\ at'[u].step # "idle"
    BY <1>4, <1>8, <2>1 DEF ReadersInv
  <2>3. CASE p = "nopriv"
    <3> SUFFICES ASSUME Quiet
                 PROVE  /\ tree'["nopriv"] = Start /\ PipeInv'
                        /\ \A u \in Threads : Reader(u)' => Collects(at'[u])
      BY <1>9, <2>1, <2>2 DEF ReadersInv
    <3>1. tree["nopriv"] = Start /\ PipeInv /\ \A u \in Threads : Reader(u) => Collects(at[u])
      BY DEF ReadersInv
    <3>2. printed["nopriv"] = <<Answer(t)>>
      <4>1. holder["nopriv"] = t /\ t # "" /\ queue["nopriv"] = <<>>
        BY <1>1, <1>11, <2>3, AugToolAssumption
      <4>2. <<CommandOf(t)>> # <<>>
        BY OneEntry
      <4> QED
        BY <3>1, <4>1, <4>2 DEF PipeInv
    <3>3. answers = <<Answer(t)>>
      BY <1>1, <1>6, <2>3, <3>2 DEF Quiet
    <3>4. Collects(l)
      BY <1>3, <1>5, <2>3, <3>1 DEF Reader, Finished
    <3>5. Collects(n)
      BY <1>1, <1>3, <1>5, <1>7, <2>3, <3>3, <3>4, ReaderGoesOn DEF Answer
    <3>6. holder'["nopriv"] = "" /\ queue'["nopriv"] = <<>> /\ printed'["nopriv"] = <<>>
      BY <1>1, <1>9, <1>11, <2>3
    <3>7. PipeInv'
      BY <3>6 DEF PipeInv
    <3>8. \A u \in Threads : Reader(u)' => Collects(at'[u])
      BY <1>8, <3>1, <3>5 DEF Reader
    <3> QED
      BY <1>1, <3>1, <3>7, <3>8
  <2>4. CASE p # "nopriv"
    <3>1. holder'["nopriv"] = holder["nopriv"] /\ printed'["nopriv"] = printed["nopriv"]
      BY <1>1, <1>9, <2>4 DEF Processes
    <3>2. ~ Reader(t) /\ ~ Reader(t)'
      BY <1>3, <1>4, <1>8, <2>4 DEF Reader
    <3> QED
      BY <1>1, <1>8, <1>9, <2>1, <2>2, <3>1, <3>2, OthersLeave
  <2> QED
    BY <2>3, <2>4
<1> QED
  BY <1>10, <1>11

LEMMA ServicesReaders ==
  ASSUME UnsavedInv, ReadersInv, NEW t \in Threads, Services(t)
  PROVE  ReadersInv'
<1>1. PICK step \in {"showNtp", "failed"} : at' = [at EXCEPT ![t] = Goto(@, step)]
  BY DEF Services
<1>2. at[t].step = "services" /\ UNCHANGED <<tree, alive, queue, printed, holder, base, slow>>
      /\ Placed(at[t])
  BY DEF Services, UnsavedInv, PlaceInv
<1>3. /\ {"step", "request"} \subseteq DOMAIN at[t] /\ at[t].request.kind = "POST"
  BY <1>2 DEF Placed, StepsOf, BeforeSave, AfterSave, Loop
<1>4. Onto(Goto(at[t], step), at[t], {step})
  BY <1>3, GotoOnto
<1>5. at'[t] = Goto(at[t], step) /\ \A u \in Threads \ {t} : at'[u] = at[u]
  BY <1>1 DEF UnsavedInv, PlaceInv
<1>6. ~ Reader(t) /\ ~ Reader(t)' /\ at'[t].step # "idle"
  BY <1>3, <1>4, <1>5 DEF Reader, Onto
<1>7. \A u \in Threads : base'[u] # Disturbed => Quiet' /\ at'[u].step # "idle"
  BY <1>2, <1>5, <1>6 DEF ReadersInv, Quiet
<1> QED
  BY <1>2, <1>5, <1>6, <1>7, OthersLeave DEF ReadersInv, Quiet

LEMMA TakeReaders ==
  ASSUME UnsavedInv, ReadersInv, NEW t \in Threads, NEW r \in Requests, Take(t, r)
  PROVE  ReadersInv'
<1>1. /\ ~Busy(t) /\ at' = [at EXCEPT ![t] = Begin(r)]
      /\ UNCHANGED <<tree, alive, queue, printed, holder, slow>>
  BY DEF Take
<1>2. /\ base' = [u \in Threads |-> base'[u]]
      /\ base'[t] # Disturbed => Quiet
      /\ \A u \in Threads \ {t} : base'[u] \in {Disturbed, base[u]}
  BY DEF Take, Quiet
<1>3. at'[t] = Begin(r) /\ \A u \in Threads \ {t} : at'[u] = at[u]
  BY <1>1 DEF UnsavedInv, PlaceInv
<1>4. Begin(r).request = r /\ Begin(r).step # "idle" /\ GetFields \subseteq DOMAIN Begin(r)
      /\ Begin(r).shown = <<>> /\ Begin(r).step \in {"setNtp", "checkInterfaces"}
  BY DEF Begin, GetFields
<1>5. Collects(Begin(r))
  BY <1>4 DEF Collects
<1>6. Quiet' <=> Quiet
  BY <1>1 DEF Quiet
<1>7. \A u \in Threads : base'[u] # Disturbed => Quiet' /\ at'[u].step # "idle"
  BY <1>2, <1>3, <1>4, <1>6 DEF ReadersInv
<1> SUFFICES ASSUME Quiet
             PROVE  /\ tree'["nopriv"] = Start /\ PipeInv'
                    /\ \A u \in Threads : Reader(u)' => Collects(at'[u])
  BY <1>1, <1>2, <1>6, <1>7 DEF ReadersInv
<1>8. tree["nopriv"] = Start /\ PipeInv /\ \A u \in Threads : Reader(u) => Collects(at[u])
  BY DEF ReadersInv
<1>9. PipeInv'
  <2> DEFINE h == holder["nopriv"]
  <2>1. CASE h = ""
    BY <1>1, <1>8, <2>1 DEF PipeInv
  <2>2. CASE h # ""
    <3>1. h \in Threads /\ Sends(h) /\ Process(h) = "nopriv"
      BY <1>8, <2>2 DEF PipeInv
    <3>2. at'[h] = at[h]
      BY <1>1, <1>3, <3>1 DEF Sends
    <3> QED
      BY <1>1, <1>8, <2>2, <3>1, <3>2 DEF PipeInv, Sends, Process, Busy, CommandOf, Answer
  <2> QED
    BY <2>1, <2>2
<1>10. \A u \in Threads : Reader(u)' => Collects(at'[u])
  BY <1>3, <1>5, <1>8 DEF Reader
<1> QED
  BY <1>1, <1>8, <1>9, <1>10

LEMMA StepReaders == UnsavedInv /\ ReadersInv /\ [Next]_vars => ReadersInv'
<1> SUFFICES ASSUME UnsavedInv, ReadersInv, [Next]_vars PROVE ReadersInv'
  OBVIOUS
<1>1. ASSUME NEW p \in Processes, Execute(p) PROVE ReadersInv'
  BY <1>1, ExecuteReaders
<1>2. ASSUME NEW p \in Processes, Crash(p) PROVE ReadersInv'
  BY <1>2, CrashReaders
<1>3. ASSUME NEW t \in Threads, Write(t) PROVE ReadersInv'
  BY <1>3, WriteReaders
<1>4. ASSUME NEW t \in Threads, Read(t) PROVE ReadersInv'
  BY <1>4, ReadReaders
<1>5. ASSUME NEW t \in Threads, Services(t) PROVE ReadersInv'
  BY <1>5, ServicesReaders
<1>6. ASSUME NEW t \in Threads, NEW r \in Requests, Take(t, r) PROVE ReadersInv'
  BY <1>6, TakeReaders
<1>7. CASE UNCHANGED vars
  <2>1. UNCHANGED <<tree, alive, queue, printed, holder, at, base, slow>>
    BY <1>7 DEF vars
  <2>2. \A u \in Threads : base'[u] # Disturbed => Quiet' /\ at'[u].step # "idle"
    BY <2>1 DEF ReadersInv, Quiet
  <2>3. (Reader("")' <=> Reader("")) /\ (Quiet' <=> Quiet)
    BY <2>1 DEF Reader, Quiet
  <2>4. printed' = [q \in Processes |-> printed'[q]] /\ base' = [u \in Threads |-> base'[u]]
    BY <2>1 DEF ReadersInv
  <2> QED
    BY <2>1, <2>2, <2>3, <2>4, OthersLeave
<1> QED
  BY <1>1, <1>2, <1>3, <1>4, <1>5, <1>6, <1>7 DEF Next, Work

(* Nothing has been asked or printed at the start.                           *)
LEMMA InitReaders == Init => ReadersInv
<1> SUFFICES ASSUME Init PROVE ReadersInv
  OBVIOUS
<1>1. /\ tree["nopriv"] = Start /\ queue["nopriv"] = <<>> /\ printed["nopriv"] = <<>>
      /\ holder["nopriv"] = "" /\ printed = [p \in Processes |-> printed[p]]
  BY DEF Init, Processes
<1>2. base = [t \in Threads |-> base[t]] /\ \A t \in Threads : base[t] = Disturbed
  BY DEF Init
<1>3. \A t \in Threads : ~ Reader(t)
  BY DEF Init, Reader, Idle
<1> QED
  BY <1>1, <1>2, <1>3 DEF ReadersInv, PipeInv

(* A page is shown what was stored when the server was started, whatever has *)
(* been changed since and by whomever; and it is refused only where there is *)
(* no such interface.                                                        *)
THEOREM ShownFromTheStart == Spec => []ReadersSeeTheStart
<1>1. UnsavedInv /\ ReadersInv => ReadersSeeTheStart
  <2> SUFFICES ASSUME UnsavedInv, ReadersInv, NEW t \in Threads, base[t] # Disturbed,
                      at[t].request.kind = "GET"
               PROVE  /\ at[t].step = "done" => at[t].shown = Shown(Start, at[t].request)
                      /\ at[t].step = "failed" => at[t].request.iface \notin Ifaces
    BY DEF ReadersSeeTheStart
  <2>1. Quiet /\ Reader(t)
    BY DEF ReadersInv, Reader
  <2>2. Collects(at[t])
    BY <2>1 DEF ReadersInv
  <2> QED
    BY <2>2 DEF Collects
<1> QED
  BY <1>1, InitUnsaved, InitReaders, StepUnsaved, StepReaders, PTL DEF Spec

------------------------------------------------------------------------------
(* What a request asks *)

IsConf(f) == f = [k \in Keys |-> f[k]]

(* A setting is an interface's, or the time server.                          *)
LEMMA InterfaceKeys ==
  /\ \A i \in Ifaces : \A name \in Names : <<i, name>> \in Keys /\ <<i, name>> # Ntp
  /\ Ntp \in Keys /\ Ntp[2] \notin Names
  /\ \A k \in Keys \ {Ntp} : k = <<k[1], k[2]>> /\ k[1] \in Ifaces /\ k[2] \in Names
BY DEF Keys, Names, Ntp

(* What one member of a PUT's body does to the result of those before it.    *)
Accepts(conf, i, m) ==
  LET method == conf[<<i, "method">>] IN
  \/ m.name = "method" /\ method \in Methods
  \/ m.name = "address" /\ m.valid /\ method = "static"
  \/ m.name = "gateway" /\ (m.valid \/ m.value = "") /\ method = "static"
  \/ m.name = "nameservers" /\ m.valid

(* With the nameservers of the interfaces set to those of member m.          *)
Served(conf, ifaces, m) ==
  [k \in Keys |-> IF k[2] = "nameservers" /\ k[1] \in ifaces THEN m.value ELSE conf[k]]

Setting(conf, i, m) ==
  IF m.name = "nameservers" THEN Served(conf, Ifaces, m)
  ELSE [conf EXCEPT ![<<i, m.name>>] = m.value]

(* A member is accepted and its setting made, or nothing changes any more.   *)
LEMMA AskedMemberFacts ==
  ASSUME NEW a, NEW i \in Ifaces, NEW m, m.valid \in BOOLEAN
  PROVE  AskedMember(i, a, m) =
           IF a.ok /\ Accepts(a.conf, i, m)
           THEN [ok |-> TRUE, conf |-> Cleared(Setting(a.conf, i, m), i)]
           ELSE [ok |-> FALSE, conf |-> a.conf]
<1> DEFINE n == AskedMember(i, a, m)
           method == a.conf[<<i, "method">>]
           accepted ==
             CASE m.name = "method" -> method \in Methods
               [] m.name = "address" -> m.valid /\ method = "static"
               [] m.name = "gateway" -> (m.valid \/ m.value = "") /\ method = "static"
               [] m.name = "nameservers" -> m.valid
               [] OTHER -> FALSE
           Set(conf) == [ok |-> TRUE, conf |-> Cleared(conf, i)]
           all == [k \in Keys |-> IF k[2] = m.name THEN m.value ELSE a.conf[k]]
<1>1. accepted <=> Accepts(a.conf, i, m)
  BY DEF Accepts
<1>2. n = IF ~a.ok \/ ~accepted THEN [ok |-> FALSE, conf |-> a.conf]
          ELSE IF m.name = "nameservers" THEN Set(all)
          ELSE Set([a.conf EXCEPT ![<<i, m.name>>] = m.value])
  BY DEF AskedMember
<1>3. m.name = "nameservers" => all = Served(a.conf, Ifaces, m)
  <2> SUFFICES ASSUME m.name = "nameservers", NEW k \in Keys
               PROVE  (k[2] = m.name) <=> (k[2] = "nameservers" /\ k[1] \in Ifaces)
    BY DEF Served
  <2> QED
    BY InterfaceKeys DEF Names, Ntp
<1> HIDE DEF n, accepted, all
<1> QED
  BY <1>1, <1>2, <1>3 DEF n, Setting

(* What requests and commands make of settings are settings.                 *)
LEMMA ConfFacts ==
  ASSUME NEW conf, IsConf(conf)
  PROVE  /\ \A key \in Keys : \A value : IsConf([conf EXCEPT ![key] = value])
         /\ \A i : IsConf(Cleared(conf, i))
         /\ \A ifaces, m : IsConf(Served(conf, ifaces, m))
         /\ \A c : IsConf(Changed(conf, c))
<1>1. DOMAIN conf = Keys /\ conf = [k \in DOMAIN conf |-> conf[k]]
  BY DEF IsConf
<1>2. ASSUME NEW key, NEW value PROVE IsConf([conf EXCEPT ![key] = value])
  BY <1>1 DEF IsConf
<1>3. ASSUME NEW c PROVE IsConf(Changed(conf, c))
  BY <1>2 DEF Changed, IsConf
<1>4. ASSUME NEW i PROVE IsConf(Cleared(conf, i))
  <2>1. IsConf([conf EXCEPT ![<<i, "address">>] = "", ![<<i, "gateway">>] = ""])
    BY <1>1 DEF IsConf
  <2> QED
    BY <2>1 DEF Cleared
<1>5. ASSUME NEW ifaces, NEW m PROVE IsConf(Served(conf, ifaces, m))
  BY DEF IsConf, Served
<1> QED
  BY <1>2, <1>3, <1>4, <1>5

(* An entry of a sequence is of the set it is over.                          *)
LEMMA EntryOf ==
  ASSUME NEW S, NEW s \in Seq(S)
  PROVE  Len(s) \in Nat /\ \A k \in 1..Len(s) : s[k] \in S
OBVIOUS

(* The results member by member, as functions of how many there were.        *)
LEMMA AskedUpToFacts ==
  ASSUME NEW b, IsConf(b), NEW r \in Requests, r.kind = "PUT"
  PROVE  /\ Len(r.members) \in Nat
         /\ AskedUpTo(b, r)[0] = [ok |-> r.iface \in Ifaces, conf |-> b]
         /\ \A k \in 1..Len(r.members) :
              /\ AskedUpTo(b, r)[k] = AskedMember(r.iface, AskedUpTo(b, r)[k - 1], r.members[k])
              /\ r.members[k].valid \in BOOLEAN
         /\ \A k \in 0..Len(r.members) :
              LET a == AskedUpTo(b, r)[k] IN
              /\ a.ok \in BOOLEAN /\ a = [ok |-> a.ok, conf |-> a.conf]
              /\ IsConf(a.conf) /\ (a.ok => r.iface \in Ifaces)
<1> DEFINE n == Len(r.members)
           i == r.iface
           Vals == {b[k] : k \in Keys} \cup {""} \cup {r.members[k].value : k \in 1..n}
           S == {a \in [ok : BOOLEAN, conf : [Keys -> Vals]] : a.ok => i \in Ifaces}
           first == [ok |-> i \in Ifaces, conf |-> b]
           step == [x \in (1..n) \X S |-> AskedMember(i, x[2], r.members[x[1]])]
           By(f) == f = [k \in 0..n |-> IF k = 0 THEN first
                                        ELSE AskedMember(i, f[k - 1], r.members[k])]
<1>1. n \in Nat /\ \A k \in 1..n : r.members[k].valid \in BOOLEAN
  <2>1. r.members \in Seq([name : STRING, value : STRING, valid : BOOLEAN])
    BY AugToolAssumption
  <2>2. \A k \in 1..n : r.members[k] \in [name : STRING, value : STRING, valid : BOOLEAN]
    BY <2>1, EntryOf
  <2>3. n \in Nat
    BY <2>1
  <2> QED
    BY <2>2, <2>3
<1>13. \A o \in BOOLEAN : \A c \in [Keys -> Vals] :
         (o => i \in Ifaces) => [ok |-> o, conf |-> c] \in S
  <2> HIDE DEF Vals, i
  <2> QED
    OBVIOUS
<1>2. first \in S
  <2>1. b \in [Keys -> Vals]
    BY DEF IsConf
  <2>2. (i \in Ifaces) \in BOOLEAN
    OBVIOUS
  <2> HIDE DEF Vals, S, i
  <2> QED
    BY <1>13, <2>1, <2>2
<1>3. \A a \in S : /\ a.ok \in BOOLEAN /\ a = [ok |-> a.ok, conf |-> a.conf]
                   /\ IsConf(a.conf) /\ (a.ok => i \in Ifaces)
  <2> SUFFICES ASSUME NEW a \in S
               PROVE  /\ a.ok \in BOOLEAN /\ a = [ok |-> a.ok, conf |-> a.conf]
                      /\ IsConf(a.conf) /\ (a.ok => i \in Ifaces)
    OBVIOUS
  <2> HIDE DEF Vals
  <2>1. a \in [ok : BOOLEAN, conf : [Keys -> Vals]] /\ (a.ok => i \in Ifaces)
    OBVIOUS
  <2>2. a.ok \in BOOLEAN /\ a = [ok |-> a.ok, conf |-> a.conf] /\ a.conf \in [Keys -> Vals]
    BY <2>1
  <2> QED
    BY <2>1, <2>2 DEF IsConf
<1>4. ASSUME NEW a \in S, NEW k \in 1..n PROVE AskedMember(i, a, r.members[k]) \in S
  <2> DEFINE m == r.members[k]
  <2>1. m.value \in Vals /\ "" \in Vals /\ a.conf \in [Keys -> Vals]
    <3>1. m.value \in Vals /\ "" \in Vals
      OBVIOUS
    <3>2. a.conf \in [Keys -> Vals]
      OBVIOUS
    <3> QED
      BY <3>1, <3>2
  <2>2. m.valid \in BOOLEAN
    BY <1>1
  <2> SUFFICES AskedMember(i, a, m) \in S
    OBVIOUS
  <2> HIDE DEF m, Vals
  <2>3. CASE ~a.ok
    <3>1. AskedMember(i, a, m) = [ok |-> FALSE, conf |-> a.conf]
      BY <2>3 DEF AskedMember
    <3> HIDE DEF S, i
    <3> QED
      BY <1>13, <2>1, <3>1
  <2>4. CASE a.ok
    <3>1. i \in Ifaces
      BY <2>4, <1>3
    <3> DEFINE set == Setting(a.conf, i, m)
    <3>2. AskedMember(i, a, m) \in {[ok |-> FALSE, conf |-> a.conf],
                                   [ok |-> TRUE, conf |-> Cleared(set, i)]}
      <4> HIDE DEF S, i, set
      <4>1. AskedMember(i, a, m) =
              IF a.ok /\ Accepts(a.conf, i, m)
              THEN [ok |-> TRUE, conf |-> Cleared(Setting(a.conf, i, m), i)]
              ELSE [ok |-> FALSE, conf |-> a.conf]
        BY <2>2, <3>1, AskedMemberFacts
      <4> QED
        BY <4>1, Zenon DEF set
    <3>3. set \in [Keys -> Vals]
      BY <2>1 DEF Setting, Served
    <3> HIDE DEF set
    <3>4. Cleared(set, i) \in [Keys -> Vals]
      BY <2>1, <3>3 DEF Cleared
    <3> HIDE DEF S
    <3> QED
      BY <1>13, <2>1, <3>1, <3>2, <3>4
  <2> QED
    BY <1>3, <2>3, <2>4
<1>5. step \in Steps(n, S)
  BY <1>4 DEF Steps
<1> HIDE DEF S, first
<1>6. PICK g : Recurses(g, n, S, first, step)
  BY <1>1, <1>2, <1>5, Recursion
<1>7. By(g)
  <2>1. g \in [0..n -> S] /\ g[0] = first /\ \A k \in 1..n : g[k] = step[<<k, g[k - 1]>>]
    BY <1>6 DEF Recurses
  <2>2. \A k \in 1..n : g[k] = AskedMember(i, g[k - 1], r.members[k])
    <3> SUFFICES ASSUME NEW k \in 1..n PROVE g[k] = AskedMember(i, g[k - 1], r.members[k])
      OBVIOUS
    <3>1. k - 1 \in 0..n /\ g[k - 1] \in S
      BY <1>1, <2>1
    <3> QED
      BY <2>1, <3>1
  <2>3. \A k \in 0..n : k # 0 => k \in 1..n
    BY <1>1
  <2> HIDE DEF step
  <2> QED
    BY <2>1, <2>2, <2>3
<1> DEFINE f == AskedUpTo(b, r)
<1>8. f = CHOOSE h : By(h)
  BY DEF AskedUpTo, first
<1> HIDE DEF By, f
<1>9. By(f)
  BY <1>7, <1>8
<1> USE DEF By
<1>10. f[0] = first /\ \A k \in 1..n : f[k] = AskedMember(i, f[k - 1], r.members[k])
  <2>1. 0 \in 0..n /\ \A k \in 1..n : k \in 0..n /\ k # 0
    BY <1>1
  <2> HIDE DEF n, i
  <2> QED
    BY <1>9, <2>1
<1> HIDE DEF By
<1>11. 0..n \subseteq {k \in Nat : f[k] \in S}
  <2> DEFINE T == {k \in Nat : f[k] \in S}
  <2>1. 0 \in T
    BY <1>2, <1>10
  <2>2. ASSUME NEW k \in 0..(n - 1), k \in T PROVE k + 1 \in T
    <3>1. k + 1 \in 1..n /\ (k + 1) - 1 = k
      BY <1>1
    <3> QED
      BY <1>4, <1>10, <2>2, <3>1
  <2> HIDE DEF T, n
  <2>3. n \in Nat
    BY <1>1
  <2> QED
    BY <2>1, <2>2, <2>3, UpTo DEF T
<1> QED
  BY <1>1, <1>3, <1>10, <1>11 DEF f, first

(* A member that is rejected is the end of it. *)
LEMMA RefusedIsRefused ==
  ASSUME NEW b, IsConf(b), NEW r \in Requests, r.kind = "PUT", NEW k \in 0..Len(r.members),
         ~ AskedUpTo(b, r)[k].ok
  PROVE  ~ Asked(b, r).ok
<1> DEFINE n == Len(r.members)
           f == AskedUpTo(b, r)
           T == {j \in Nat : j <= n - k => ~ f[k + j].ok}
<1>1. n \in Nat /\ k \in 0..n /\ n - k \in Nat
  BY AskedUpToFacts
<1>2. 0 \in T
  BY <1>1
<1>3. ASSUME NEW j \in 0..(n - k - 1), j \in T PROVE j + 1 \in T
  <2>1. /\ k + j + 1 \in 1..n /\ (k + j + 1) - 1 = k + j /\ k + (j + 1) = k + j + 1
        /\ k + j \in 0..n
    BY <1>1
  <2>2. ~ f[k + j].ok
    BY <1>1, <1>3
  <2> HIDE DEF f, n, T
  <2>3. \A h \in 1..n : f[h] = AskedMember(r.iface, f[h - 1], r.members[h])
    <3>1. \A h \in 1..Len(r.members) :
              /\ AskedUpTo(b, r)[h] = AskedMember(r.iface, AskedUpTo(b, r)[h - 1], r.members[h])
              /\ r.members[h].valid \in BOOLEAN
      BY AskedUpToFacts, Zenon
    <3> QED
      BY <3>1, Zenon DEF f, n
  <2>4. f[k + j + 1] = AskedMember(r.iface, f[k + j], r.members[k + j + 1])
    BY <2>1, <2>3
  <2>5. f[k + j + 1] = [ok |-> FALSE, conf |-> f[k + j].conf]
    BY <2>2, <2>4 DEF AskedMember
  <2>6. ~ f[k + j + 1].ok
    BY <2>5
  <2> QED
    BY <1>1, <2>1, <2>6 DEF T
<1> HIDE DEF T
<1>4. 0..(n - k) \subseteq T
  BY <1>1, <1>2, <1>3, UpTo
<1>5. ~ f[n].ok
  <2>1. n - k \in T /\ k + (n - k) = n
    BY <1>1, <1>4
  <2> QED
    BY <1>1, <2>1 DEF T
<1>6. Asked(b, r) = f[n]
  BY DEF Asked
<1> QED
  BY <1>5, <1>6

(* What a PUT asks for are settings, and the time server is not among them.  *)
LEMMA ServerStays ==
  ASSUME NEW b, IsConf(b), NEW r \in Requests, r.kind = "PUT"
  PROVE  IsConf(Asked(b, r).conf) /\ Asked(b, r).conf[Ntp] = b[Ntp]
<1> DEFINE n == Len(r.members)
           f == AskedUpTo(b, r)
           T == {j \in Nat : j <= n => f[j].conf[Ntp] = b[Ntp]}
<1>1. n \in Nat /\ f[0] = [ok |-> r.iface \in Ifaces, conf |-> b]
  BY AskedUpToFacts, Zenon
<1>2. \A k \in 1..n : /\ f[k] = AskedMember(r.iface, f[k - 1], r.members[k])
                      /\ r.members[k].valid \in BOOLEAN
  BY AskedUpToFacts, Zenon
<1>3. \A k \in 0..n : IsConf(f[k].conf) /\ f[k].ok \in BOOLEAN /\ (f[k].ok => r.iface \in Ifaces)
  BY AskedUpToFacts, Zenon
<1>4. Asked(b, r) = f[n]
  BY DEF Asked
<1> HIDE DEF n, f
<1>5. 0 \in T
  BY <1>1
<1>6. ASSUME NEW j \in 0..(n - 1), j \in T PROVE j + 1 \in T
  <2> DEFINE i == r.iface
             m == r.members[j + 1]
             a == f[j]
             z == f[j + 1]
  <2>1. /\ j + 1 \in 1..n /\ (j + 1) - 1 = j /\ j \in 0..n /\ j + 1 \in Nat
        /\ a.conf[Ntp] = b[Ntp]
    BY <1>1, <1>6
  <2>2. z = AskedMember(i, a, m) /\ m.valid \in BOOLEAN
    BY <1>2, <2>1
  <2>3. IsConf(a.conf) /\ a.ok \in BOOLEAN /\ (a.ok => i \in Ifaces)
    BY <1>3, <2>1
  <2> HIDE DEF i, m, a, z, T
  <2>4. CASE ~ a.ok
    <3>1. z = [ok |-> FALSE, conf |-> a.conf]
      BY <2>2, <2>4 DEF AskedMember
    <3> QED
      BY <2>1, <3>1 DEF T, z
  <2>5. CASE a.ok
    <3>1. i \in Ifaces
      BY <2>3, <2>5
    <3> DEFINE set == Setting(a.conf, i, m)
    <3>2. z = IF a.ok /\ Accepts(a.conf, i, m)
              THEN [ok |-> TRUE, conf |-> Cleared(Setting(a.conf, i, m), i)]
              ELSE [ok |-> FALSE, conf |-> a.conf]
      BY <2>2, <3>1, AskedMemberFacts
    <3>3. CASE Accepts(a.conf, i, m)
      <4>1. m.name \in Names
        BY <3>3 DEF Accepts, Names
      <4>2. /\ <<i, m.name>> \in Keys /\ <<i, m.name>> # Ntp
            /\ <<i, "address">> # Ntp /\ <<i, "gateway">> # Ntp
            /\ Ntp \in Keys /\ Ntp[2] # "nameservers"
            /\ <<i, "address">> \in Keys /\ <<i, "gateway">> \in Keys
        BY <3>1, <4>1, InterfaceKeys DEF Names
      <4>3. IsConf(set) /\ set[Ntp] = a.conf[Ntp]
        <5>1. IsConf(Served(a.conf, Ifaces, m)) /\ Served(a.conf, Ifaces, m)[Ntp] = a.conf[Ntp]
          BY <2>3, <4>2, ConfFacts DEF Served
        <5>2. IsConf([a.conf EXCEPT ![<<i, m.name>>] = m.value])
          BY <2>3, <4>2, ConfFacts
        <5>3. [a.conf EXCEPT ![<<i, m.name>>] = m.value][Ntp] = a.conf[Ntp]
          BY <2>3, <4>2 DEF IsConf
        <5> QED
          BY <5>1, <5>2, <5>3 DEF Setting
      <4> HIDE DEF set
      <4>4. Cleared(set, i)[Ntp] = set[Ntp]
        BY <4>2, <4>3 DEF Cleared, IsConf
      <4>5. z = [ok |-> TRUE, conf |-> Cleared(set, i)]
        BY <2>5, <3>2, <3>3 DEF set
      <4> QED
        BY <2>1, <4>3, <4>4, <4>5 DEF T, z
    <3>4. CASE ~ Accepts(a.conf, i, m)
      <4>1. z = [ok |-> FALSE, conf |-> a.conf]
        BY <3>2, <3>4
      <4> QED
        BY <2>1, <4>1 DEF T, z
    <3> QED
      BY <3>3, <3>4
  <2> QED
    BY <2>3, <2>4, <2>5
<1>7. 0..n \subseteq T
  <2> HIDE DEF T
  <2> QED
    BY <1>1, <1>5, <1>6, UpTo
<1>8. n \in 0..n /\ n \in T /\ n <= n
  BY <1>1, <1>7
<1> QED
  BY <1>3, <1>4, <1>8

(* A page shows no nameservers only where there are none.                    *)
LEMMA NoServers ==
  ASSUME NEW conf,
         SetToSeq({conf[<<i, "nameservers">>] : i \in WithServers(conf)}) = <<>>
  PROVE  WithServers(conf) = {}
<1> DEFINE W == WithServers(conf)
           S == {conf[<<i, "nameservers">>] : i \in W}
           f == [i \in W |-> conf[<<i, "nameservers">>]]
<1>1. IsFiniteSet(W)
  BY FS_Subset, AugToolAssumption DEF WithServers
<1>2. f \in Surjection(W, S)
  BY DEF Surjection
<1>3. IsFiniteSet(S)
  BY <1>1, <1>2, FS_Surjection
<1> HIDE DEF S
<1>4. PICK g : g \in Bijection(1..Cardinality(S), S)
  BY <1>3, FS_CardinalityType DEF ExistsBijection
<1>5. \E h \in [1..Cardinality(S) -> S] : IsInjective(h)
  BY <1>4 DEF Bijection, Injection
<1>6. SetToSeq(S) \in [1..Cardinality(S) -> S]
  BY <1>5 DEF SetToSeq
<1>7. SetToSeq(S) = <<>>
  BY DEF S
<1>8. Cardinality(S) = 0
  <2>1. DOMAIN SetToSeq(S) = 1..Cardinality(S) /\ DOMAIN <<>> = {}
    BY <1>6
  <2>2. 1..Cardinality(S) = {} /\ Cardinality(S) \in Nat
    BY <1>3, <1>7, <2>1, FS_CardinalityType
  <2> QED
    BY <2>2
<1>9. S = {}
  BY <1>3, <1>8, FS_EmptySet
<1> QED
  BY <1>9 DEF S

------------------------------------------------------------------------------
(* How a request changes the settings, command by command *)

(* The result of the members before the one in hand, and the tree once its   *)
(* method is set, if it has one.                                             *)
Before(l, b) == AskedUpTo(b, l.request)[l.member - 1]
Midway(l, b) ==
  IF Member(l).name = "method"
  THEN [Before(l, b).conf EXCEPT ![<<l.request.iface, "method">>] = Member(l).value]
  ELSE Before(l, b).conf

InLoop(l, b) ==
  /\ l.member \in 1..Len(l.request.members) /\ Before(l, b).ok
  /\ Member(l).name = "method" => Before(l, b).conf[<<l.request.iface, "method">>] \in Methods

(* Where a PUT is with the member in hand, and the tree before the command.  *)
Handling(l, tr, b) ==
  LET i == l.request.iface
      m == Member(l)
      midway == Midway(l, b)
      static == midway[<<i, "method">>] = "static"
  IN /\ InLoop(l, b)
     /\ l.step \notin {"setMethod", "getMethod"} => l.method = Found(midway, <<i, "method">>)
     /\ l.step = "setMethod" => m.name = "method" /\ tr = Before(l, b).conf
     /\ l.step = "getMethod" => tr = midway
     /\ l.step = "setAddress" => m.name = "address" /\ m.valid /\ static /\ tr = midway
     /\ l.step \in {"rmAddress", "rmGateway"} => m.name # "address" /\ ~static
     /\ l.step = "rmAddress" => tr = midway
     /\ l.step = "rmGateway" => tr = [midway EXCEPT ![<<i, "address">>] = ""]
     /\ l.step = "setGateway" =>
          m.name = "gateway" /\ static /\ (m.value = "" \/ m.valid) /\ tr = midway
     /\ l.step \in {"interfaces", "setServers"} => m.name = "nameservers"
     /\ l.step = "interfaces" => tr = Cleared(midway, i)
     /\ l.step = "setServers" =>
          /\ m.valid /\ l.todo \subseteq Ifaces /\ l.todo # {}
          /\ tr = Served(Cleared(midway, i), Ifaces \ l.todo, m)

Rechecks == {"recheckInterfaces", "recheckResolv"}
Shows == {"showMethod", "showAddress", "showGateway", "showServers"}

OnPath(l) == l.request.iface \in Ifaces /\ l.path = <<l.request.iface>>

(* Where a PUT is, with the tree, the files and which of them could not be    *)
(* stored, as they are before its next command, when tree and files were both *)
(* b to begin with.                                                           *)
Puts(l, tr, fl, er, b) ==
  LET r == l.request
      asked == Asked(b, r)
      found(name) == Found(fl, <<r.iface, name>>)
  IN /\ l.step \notin Shows \cup {"done", "failed"} => l.shown = <<>>
     /\ l.step \in {"checkInterfaces", "checkResolv", "find", "getFirst"} =>
          tr = b /\ fl = b /\ er = {} /\ l.member = 0
     /\ l.step \in {"getFirst", "save"} \cup Loop \cup Rechecks \cup Shows => OnPath(l)
     /\ l.step \in Loop => fl = b /\ er = {} /\ Handling(l, tr, b)
     /\ l.step = "save" => asked.ok /\ fl = b /\ er = {} /\ tr = asked.conf
     /\ l.step \in Rechecks \cup Shows => asked.ok /\ tr = asked.conf
     /\ l.step \in Rechecks => "resolv.conf" \notin er
     /\ l.step = "recheckInterfaces" => fl = IF "interfaces" \in er THEN b ELSE asked.conf
     /\ l.step \in {"recheckResolv"} \cup Shows => fl = asked.conf
     /\ l.step = "showMethod" => l.shown = <<>>
     /\ l.step = "showAddress" => l.shown = <<found("method")>>
     /\ l.step = "showGateway" => l.shown = <<found("method"), found("address")>>
     /\ l.step = "showServers" =>
          l.shown = <<found("method"), found("address"), found("gateway")>>
     /\ l.step = "done" => asked.ok /\ fl = asked.conf /\ l.shown = Shown(fl, r)
     /\ l.step = "failed" =>
          \/ fl = b /\ (asked.ok => "interfaces" \in er)
          \/ asked.ok /\ fl = asked.conf /\ WithServers(fl) = {}

(* ... and where a POST is, which does not ask whether its file was stored.  *)
Posts(l, tr, fl, er, b) ==
  LET asked == Asked(b, l.request).conf IN
  /\ l.step = "setNtp" => tr = b /\ fl = b /\ er = {}
  /\ l.step = "saveNtp" => tr = asked /\ fl = b /\ er = {}
  /\ l.step \in {"services", "showNtp"} => tr = asked
  /\ l.step \in {"services", "showNtp", "done", "failed"} =>
       fl = IF "ntp" \in er THEN b ELSE asked
  /\ l.step \in {"setNtp", "saveNtp", "services", "showNtp"} => l.shown = <<>>
  /\ l.step = "done" => l.shown = Shown(asked, l.request)

Right(l, tr, fl, er, b) ==
  /\ GetFields \subseteq DOMAIN l /\ l.request \in Requests /\ IsConf(b)
  /\ l.request.kind = "PUT" => Puts(l, tr, fl, er, b)
  /\ l.request.kind = "POST" => Posts(l, tr, fl, er, b)

(* A command leaves the files, or stores what has changed: but for some.     *)
Saved(c, tr, fl, er, fl2, er2) ==
  IF c.op = "save"
  THEN /\ er2 \subseteq {FileOf(k) : k \in {key \in Keys : tr[key] # fl[key]}} \cup er
       /\ fl2 = [k \in Keys |-> IF FileOf(k) \in er2 THEN fl[k] ELSE tr[k]]
  ELSE fl2 = fl /\ er2 = er

(* What holds of the local variables from the first answer to the save.      *)
Putting(l, b) ==
  /\ GetFields \subseteq DOMAIN l /\ l.request \in Requests /\ l.request.kind = "PUT"
  /\ IsConf(b) /\ OnPath(l) /\ l.shown = <<>>

Alike(n, l) ==
  /\ GetFields \subseteq DOMAIN n
  /\ n.request = l.request /\ n.member = l.member /\ n.path = l.path /\ n.shown = l.shown

(* Going to another step leaves the rest.                                    *)
LEMMA GotoAlike ==
  ASSUME NEW l, GetFields \subseteq DOMAIN l, NEW step
  PROVE  /\ Alike(Goto(l, step), l) /\ Goto(l, step).step = step
         /\ Goto(l, step).method = l.method /\ Goto(l, step).todo = l.todo
         /\ Fail(l) = Goto(l, "failed")
BY DEF GetFields, Alike, Goto, Fail

(* So the member in hand, and what is to become of it, stay as well.         *)
LEMMA AlikeFacts ==
  ASSUME NEW l, NEW n, Alike(n, l), NEW b
  PROVE  /\ Putting(l, b) => Putting(n, b)
         /\ InLoop(n, b) <=> InLoop(l, b)
         /\ Member(n) = Member(l) /\ Before(n, b) = Before(l, b) /\ Midway(n, b) = Midway(l, b)
<1>1. Member(n) = Member(l) /\ Before(n, b) = Before(l, b)
  BY DEF Alike, Member, Before
<1>2. Midway(n, b) = Midway(l, b)
  BY <1>1 DEF Midway, Alike
<1>3. InLoop(n, b) <=> InLoop(l, b)
  BY <1>1 DEF InLoop, Alike
<1>4. Putting(l, b) => Putting(n, b)
  BY DEF Putting, Alike, OnPath
<1> QED
  BY <1>1, <1>2, <1>3, <1>4

(* The next command of the loop, or its end.                                 *)
LEMMA PutsOnward ==
  ASSUME NEW l, NEW b, NEW tr, Putting(l, b)
  PROVE  /\ l.step \in Loop /\ Handling(l, tr, b) => Right(l, tr, b, {}, b)
         /\ l.step = "save" /\ Asked(b, l.request).ok /\ tr = Asked(b, l.request).conf
              => Right(l, tr, b, {}, b)
         /\ l.step = "failed" /\ ~ Asked(b, l.request).ok => Right(l, tr, b, {}, b)
BY DEF Right, Putting, Puts, Loop, Rechecks, Shows

(* What the member in hand makes of the result of those before it.           *)
LEMMA MemberResult ==
  ASSUME NEW l, NEW b, Putting(l, b), InLoop(l, b)
  PROVE  LET conf == Before(l, b).conf
             i == l.request.iface
         IN /\ IsConf(conf) /\ IsConf(Midway(l, b)) /\ l.member \in Nat
            /\ ~ Accepts(conf, i, Member(l)) => ~ Asked(b, l.request).ok
            /\ Accepts(conf, i, Member(l)) =>
                 AskedUpTo(b, l.request)[l.member] =
                   [ok |-> TRUE, conf |-> Cleared(Setting(conf, i, Member(l)), i)]
<1> DEFINE r == l.request
           i == r.iface
           k == l.member
           m == Member(l)
           a == Before(l, b)
           n == AskedUpTo(b, r)[k]
<1>1. r \in Requests /\ r.kind = "PUT" /\ IsConf(b) /\ i \in Ifaces
  BY DEF Putting, OnPath
<1>2. k \in 1..Len(r.members) /\ a.ok
  BY DEF InLoop
<1>3. Len(r.members) \in Nat
  BY <1>1, AskedUpToFacts, Zenon
<1>4. k \in 1..Len(r.members) /\ k \in 0..Len(r.members) /\ k - 1 \in 0..Len(r.members) /\ k \in Nat
  BY <1>2, <1>3
<1>5. n = AskedMember(i, a, m) /\ m.valid \in BOOLEAN
  BY <1>1, <1>4, AskedUpToFacts, Zenon DEF Before, Member
<1>6. IsConf(a.conf)
  BY <1>1, <1>4, AskedUpToFacts, Zenon DEF Before
<1>7. IsConf(Midway(l, b))
  <2>1. <<i, "method">> \in Keys
    BY <1>1, InterfaceKeys DEF Names
  <2> QED
    BY <1>6, <2>1, ConfFacts DEF Midway
<1>8. m.valid \in BOOLEAN /\ i \in Ifaces
  BY <1>1, <1>5
<1> HIDE DEF a, m, i, n
<1>9. n = IF a.ok /\ Accepts(a.conf, i, m)
          THEN [ok |-> TRUE, conf |-> Cleared(Setting(a.conf, i, m), i)]
          ELSE [ok |-> FALSE, conf |-> a.conf]
  BY <1>5, <1>8, AskedMemberFacts
<1>10. ~ Accepts(a.conf, i, m) => ~ Asked(b, r).ok
  <2> SUFFICES ASSUME ~ Accepts(a.conf, i, m) PROVE ~ Asked(b, r).ok
    OBVIOUS
  <2>1. ~ n.ok
    BY <1>9
  <2> QED
    BY <1>1, <1>4, <2>1, RefusedIsRefused, Zenon DEF n
<1>11. Accepts(a.conf, i, m) => n = [ok |-> TRUE, conf |-> Cleared(Setting(a.conf, i, m), i)]
  BY <1>2, <1>9 DEF a
<1> QED
  BY <1>4, <1>6, <1>7, <1>10, <1>11 DEF a, m, i, n

(* All members up to the one in hand are in the tree. *)
MemberDone(l, tr, b) ==
  /\ l.member \in 0..Len(l.request.members)
  /\ AskedUpTo(b, l.request)[l.member].ok /\ tr = AskedUpTo(b, l.request)[l.member].conf
  /\ l.method = Found(tr, <<l.request.iface, "method">>)

(* What the program takes from the answer is what the setting says.          *)
LEMMA StaticMethod ==
  ASSUME NEW conf, NEW i \in Ifaces, NEW method, method = Found(conf, <<i, "method">>)
  PROVE  /\ method = <<"static">> <=> conf[<<i, "method">>] = "static"
         /\ (Len(method) = 1 /\ method[1] \in Methods) <=> conf[<<i, "method">>] \in Methods
<1> DEFINE v == conf[<<i, "method">>]
<1>1. <<i, "method">> \in Keys
  BY InterfaceKeys DEF Names
<1>2. method = IF v # "" THEN <<v>> ELSE <<>>
  BY <1>1 DEF Found
<1>3. "" \notin Methods
  BY DEF Methods
<1> HIDE DEF v
<1>4. CASE v # ""
  <2>1. method = <<v>>
    BY <1>2, <1>4
  <2>2. (<<v>> = <<"static">> <=> v = "static") /\ Len(<<v>>) = 1 /\ <<v>>[1] = v
    OBVIOUS
  <2> QED
    BY <2>1, <2>2 DEF v
<1>5. CASE v = ""
  <2>1. method = <<>>
    BY <1>2, <1>5
  <2>2. <<>> # <<"static">> /\ Len(<<>>) # 1
    OBVIOUS
  <2> QED
    BY <1>3, <1>5, <2>1, <2>2 DEF v
<1> QED
  BY <1>4, <1>5

(* With a member done, the next one begins right, or the save.               *)
LEMMA NextMemberRight ==
  ASSUME NEW l, NEW b, NEW tr, Putting(l, b), MemberDone(l, tr, b)
  PROVE  Right(NextMember(l), tr, b, {}, b)
<1> DEFINE r == l.request
           i == r.iface
           k == l.member
           n == [l EXCEPT !.member = @ + 1]
<1>1. /\ r \in Requests /\ r.kind = "PUT" /\ IsConf(b) /\ i \in Ifaces
      /\ GetFields \subseteq DOMAIN l
  BY DEF Putting, OnPath
<1>2. Len(r.members) \in Nat
  BY <1>1, AskedUpToFacts, Zenon
<1>3. k \in 0..Len(r.members) /\ AskedUpTo(b, r)[k].ok /\ tr = AskedUpTo(b, r)[k].conf
  BY DEF MemberDone
<1>4. CASE k = Len(r.members)
  <2>1. NextMember(l) = Goto(l, "save")
    BY <1>4 DEF NextMember
  <2>2. Asked(b, r) = AskedUpTo(b, r)[Len(r.members)]
    BY <1>1 DEF Asked
  <2> DEFINE s == Goto(l, "save")
  <2>3. Alike(s, l) /\ s.step = "save"
    BY <1>1, GotoAlike
  <2> HIDE DEF s
  <2>4. Putting(s, b) /\ s.request = r
    BY <2>3, AlikeFacts DEF Alike
  <2>5. Right(s, tr, b, {}, b)
    BY <1>3, <1>4, <2>2, <2>3, <2>4, PutsOnward
  <2> QED
    BY <2>1, <2>5 DEF s
<1>5. CASE k # Len(r.members)
  <2>1. /\ GetFields \subseteq DOMAIN n /\ n.request = r /\ n.path = l.path /\ n.shown = l.shown
        /\ n.member = k + 1 /\ n.method = l.method
    BY <1>1 DEF GetFields
  <2>2. NextMember(l) = IF Member(n).name # "method" THEN Goto(n, "getMethod")
                        ELSE IF SetMethodAllowed(n) THEN Goto(n, "setMethod") ELSE Fail(n)
    BY <1>5 DEF NextMember
  <2> HIDE DEF n
  <2>3. n.member \in 1..Len(r.members) /\ n.member - 1 = k
    BY <1>2, <1>3, <1>5, <2>1
  <2>4. Before(n, b) = AskedUpTo(b, r)[k]
    BY <2>1, <2>3 DEF Before
  <2>5. Putting(n, b)
    BY <2>1 DEF Putting, OnPath
  <2>6. SetMethodAllowed(n) <=> Before(n, b).conf[<<i, "method">>] \in Methods
    BY <1>1, <1>3, <2>1, <2>4, StaticMethod DEF SetMethodAllowed, MemberDone
  <2>7. ASSUME NEW step, step \in {"getMethod", "setMethod", "failed"}
        PROVE  LET s == Goto(n, step) IN
               Alike(s, n) /\ s.step = step /\ Putting(s, b) /\ s.request = r
    <3> DEFINE s == Goto(n, step)
    <3>1. Alike(s, n) /\ s.step = step
      BY <2>1, GotoAlike
    <3> HIDE DEF s
    <3>2. Putting(s, b) /\ s.request = r
      BY <2>1, <2>5, <3>1, AlikeFacts DEF Alike
    <3> QED
      BY <3>1, <3>2 DEF s
  <2>8. CASE Member(n).name # "method"
    <3> DEFINE s == Goto(n, "getMethod")
    <3>1. Alike(s, n) /\ s.step = "getMethod" /\ Putting(s, b)
      BY <2>7
    <3> HIDE DEF s
    <3>2. InLoop(n, b)
      BY <1>3, <2>1, <2>3, <2>4, <2>8 DEF InLoop
    <3>3. Midway(n, b) = tr
      BY <1>3, <2>4, <2>8 DEF Midway
    <3>4. Handling(s, tr, b)
      BY <3>1, <3>2, <3>3, AlikeFacts DEF Handling
    <3>5. Right(s, tr, b, {}, b)
      BY <3>1, <3>4, PutsOnward DEF Loop
    <3> QED
      BY <2>2, <2>8, <3>5 DEF s
  <2>9. CASE Member(n).name = "method" /\ SetMethodAllowed(n)
    <3> DEFINE s == Goto(n, "setMethod")
    <3>1. Alike(s, n) /\ s.step = "setMethod" /\ Putting(s, b)
      BY <2>7
    <3> HIDE DEF s
    <3>2. InLoop(n, b)
      BY <1>3, <2>1, <2>3, <2>4, <2>6, <2>9 DEF InLoop
    <3>3. Before(n, b).conf = tr
      BY <1>3, <2>4
    <3>4. Handling(s, tr, b)
      BY <2>9, <3>1, <3>2, <3>3, AlikeFacts DEF Handling
    <3>5. Right(s, tr, b, {}, b)
      BY <3>1, <3>4, PutsOnward DEF Loop
    <3> QED
      BY <2>2, <2>9, <3>5 DEF s
  <2>10. CASE Member(n).name = "method" /\ ~SetMethodAllowed(n)
    <3> DEFINE s == Goto(n, "failed")
    <3>1. s.step = "failed" /\ Putting(s, b) /\ s.request = r
      BY <2>7
    <3>2. Fail(n) = s
      BY <2>1, GotoAlike
    <3> HIDE DEF s
    <3> DEFINE a == AskedUpTo(b, r)[k]
               m == Member(n)
    <3>3. ~ Accepts(a.conf, i, m)
      BY <2>4, <2>6, <2>10 DEF Accepts
    <3>4. AskedUpTo(b, r)[k + 1] = AskedMember(i, a, m) /\ m.valid \in BOOLEAN
      <4>1. k + 1 \in 1..Len(r.members) /\ (k + 1) - 1 = k
        BY <2>1, <2>3
      <4>2. /\ AskedUpTo(b, r)[k + 1] = AskedMember(i, AskedUpTo(b, r)[(k + 1) - 1], r.members[k + 1])
            /\ r.members[k + 1].valid \in BOOLEAN
        BY <1>1, <4>1, AskedUpToFacts, Zenon
      <4>3. m = r.members[k + 1]
        BY <2>1 DEF Member
      <4> QED
        BY <4>1, <4>2, <4>3
    <3>5. i \in Ifaces
      BY <1>1
    <3> DEFINE c == AskedUpTo(b, r)[k + 1]
    <3> HIDE DEF a, m, i
    <3>6. c = [ok |-> FALSE, conf |-> a.conf]
      BY <3>3, <3>4, <3>5, AskedMemberFacts
    <3> HIDE DEF c
    <3>7. ~ c.ok
      BY <3>6
    <3>8. k + 1 \in 0..Len(r.members)
      BY <1>2, <2>1, <2>3
    <3>9. ~ Asked(b, r).ok
      BY <1>1, <3>7, <3>8, RefusedIsRefused, Zenon DEF c
    <3>10. Right(s, tr, b, {}, b)
      BY <3>1, <3>9, PutsOnward
    <3> QED
      BY <2>2, <2>10, <3>2, <3>10
  <2> QED
    BY <2>8, <2>9, <2>10
<1> QED
  BY <1>4, <1>5

(* Only a member method changes the method.                                  *)
LEMMA MethodStays ==
  ASSUME NEW conf, IsConf(conf), NEW i \in Ifaces, NEW m, m.name # "method"
  PROVE  /\ Cleared(conf, i)[<<i, "method">>] = conf[<<i, "method">>]
         /\ Setting(conf, i, m)[<<i, "method">>] = conf[<<i, "method">>]
<1> DEFINE key == <<i, "method">>
<1>1. key \in Keys /\ key[1] = i /\ key[2] = "method"
  BY InterfaceKeys DEF Names
<1>2. DOMAIN conf = Keys
  BY DEF IsConf
<1>3. \A name, v : name # "method" => [conf EXCEPT ![<<i, name>>] = v][key] = conf[key]
  BY <1>1, <1>2
<1>4. [conf EXCEPT ![<<i, "address">>] = "", ![<<i, "gateway">>] = ""][key] = conf[key]
  BY <1>1, <1>2
<1>5. Served(conf, Ifaces, m)[key] = conf[key]
  BY <1>1 DEF Served
<1> HIDE DEF key
<1> QED
  BY <1>3, <1>4, <1>5 DEF Cleared, Setting, key

(* A member whose setting is in the tree is done with.                       *)
LEMMA Accepted ==
  ASSUME NEW l, NEW b, NEW tr, Putting(l, b), InLoop(l, b),
         l.method = Found(Midway(l, b), <<l.request.iface, "method">>),
         Accepts(Before(l, b).conf, l.request.iface, Member(l)),
         tr = Cleared(Setting(Before(l, b).conf, l.request.iface, Member(l)), l.request.iface)
  PROVE  Right(NextMember(l), tr, b, {}, b)
<1> DEFINE i == l.request.iface
           m == Member(l)
           conf == Before(l, b).conf
           set == Setting(conf, i, m)
           key == <<i, "method">>
<1>1. i \in Ifaces /\ key \in Keys
  BY InterfaceKeys DEF Putting, OnPath, Names
<1>2. /\ IsConf(conf) /\ IsConf(Midway(l, b)) /\ l.member \in Nat
      /\ AskedUpTo(b, l.request)[l.member] = [ok |-> TRUE, conf |-> tr]
  BY MemberResult
<1>3. Midway(l, b) = IF m.name = "method" THEN [conf EXCEPT ![key] = m.value] ELSE conf
  BY DEF Midway
<1> HIDE DEF i, m, conf, key
<1>4. m.name = "method" => set = [conf EXCEPT ![key] = m.value]
  BY DEF Setting, key
<1>5. IsConf(set)
  <2>1. m.name = "nameservers" => IsConf(set)
    BY <1>2, ConfFacts DEF Setting
  <2>2. m.name \in Names => <<i, m.name>> \in Keys
    BY <1>1, InterfaceKeys
  <2>3. m.name \in Names
    BY DEF Accepts, Names, m, i, conf
  <2> QED
    BY <1>2, <2>1, <2>2, <2>3, ConfFacts DEF Setting
<1>6. set[key] = Midway(l, b)[key]
  <2>1. CASE m.name = "method"
    BY <1>3, <1>4, <2>1
  <2>2. CASE m.name # "method"
    BY <1>1, <1>2, <1>3, <2>2, MethodStays DEF key
  <2> QED
    BY <2>1, <2>2
<1>7. Cleared(set, i)[key] = set[key]
  <2> HIDE DEF set
  <2>1. [name |-> ""].name # "method"
    OBVIOUS
  <2> QED
    BY <1>1, <1>5, <2>1, MethodStays DEF key
<1>8. tr = Cleared(set, i)
  BY DEF i, m, conf
<1>9. l.method = Found(tr, key)
  <2>1. l.method = Found(Midway(l, b), key)
    BY DEF key, i
  <2> HIDE DEF set
  <2> QED
    BY <1>6, <1>7, <1>8, <2>1 DEF Found
<1>10. l.member \in 0..Len(l.request.members)
  BY <1>2 DEF InLoop
<1>11. MemberDone(l, tr, b)
  BY <1>2, <1>9, <1>10 DEF MemberDone, key, i
<1> QED
  BY <1>11, NextMemberRight

(* Where a member is not accepted the request fails rightly.                 *)
LEMMA Refused ==
  ASSUME NEW l, NEW b, NEW tr, Putting(l, b), InLoop(l, b),
         ~ Accepts(Before(l, b).conf, l.request.iface, Member(l))
  PROVE  Right(Fail(l), tr, b, {}, b)
<1> DEFINE s == Fail(l)
<1>1. Alike(s, l) /\ s.step = "failed"
  BY GotoAlike DEF Putting
<1> HIDE DEF s
<1>2. Putting(s, b) /\ s.request = l.request
  BY <1>1, AlikeFacts DEF Alike
<1>3. ~ Asked(b, l.request).ok
  BY MemberResult
<1> QED
  BY <1>1, <1>2, <1>3, PutsOnward DEF s

(* To another command for the same member. *)
LEMMA GoesOn ==
  ASSUME NEW l, NEW b, NEW tr, Putting(l, b), InLoop(l, b), NEW step \in Loop,
         Handling(Goto(l, step), tr, b)
  PROVE  Right(Goto(l, step), tr, b, {}, b)
<1> DEFINE s == Goto(l, step)
<1>1. Alike(s, l) /\ s.step = step
  BY GotoAlike DEF Putting
<1> HIDE DEF s
<1>2. Putting(s, b)
  BY <1>1, AlikeFacts
<1>3. Handling(s, tr, b)
  BY DEF s
<1> QED
  BY <1>1, <1>2, <1>3, PutsOnward DEF s

(* The end of the body of the loop, from the gateway on.                     *)
LEMMA HandleRestRight ==
  ASSUME NEW l, NEW b, NEW tr, Putting(l, b), InLoop(l, b),
         l.method = Found(Midway(l, b), <<l.request.iface, "method">>),
         Member(l).name # "address", tr = Cleared(Midway(l, b), l.request.iface)
  PROVE  Right(HandleRest(l), tr, b, {}, b)
<1> DEFINE i == l.request.iface
           m == Member(l)
           conf == Before(l, b).conf
           midway == Midway(l, b)
           key == <<i, "method">>
<1>1. i \in Ifaces /\ GetFields \subseteq DOMAIN l
  BY DEF Putting, OnPath
<1>2. IsStatic(l) <=> midway[key] = "static"
  BY <1>1, StaticMethod DEF IsStatic
<1>3. midway[key] = "static" => tr = midway
  BY DEF Cleared
<1>4. midway = IF m.name = "method" THEN [conf EXCEPT ![key] = m.value] ELSE conf
  BY DEF Midway
<1>5. m.name = "method" => conf[key] \in Methods
  BY DEF InLoop
<1>6. ASSUME NEW step
      PROVE  LET s == Goto(l, step) IN
             /\ s.step = step /\ s.request = l.request /\ s.method = l.method
             /\ InLoop(s, b) /\ Member(s) = m /\ Before(s, b) = Before(l, b) /\ Midway(s, b) = midway
  <2> DEFINE s == Goto(l, step)
  <2>1. Alike(s, l) /\ s.step = step /\ s.method = l.method
    BY <1>1, GotoAlike
  <2> HIDE DEF s
  <2> QED
    BY <2>1, AlikeFacts DEF Alike, s
<1>7. CASE m.name = "gateway" /\ IsStatic(l) /\ (m.value = "" \/ m.valid)
  <2>1. HandleRest(l) = Goto(l, "setGateway")
    BY <1>7 DEF HandleRest
  <2> DEFINE s == Goto(l, "setGateway")
  <2>2. /\ s.step = "setGateway" /\ s.request = l.request /\ s.method = l.method
        /\ InLoop(s, b) /\ Member(s) = m /\ Midway(s, b) = midway
    BY <1>6
  <2> HIDE DEF s
  <2>3. Handling(s, tr, b)
    BY <1>2, <1>3, <1>7, <2>2 DEF Handling
  <2> QED
    BY <2>1, <2>3, GoesOn DEF s, Loop
<1>8. CASE m.name = "gateway" /\ IsStatic(l) /\ ~(m.value = "" \/ m.valid)
  <2>1. HandleRest(l) = Fail(l)
    BY <1>8 DEF HandleRest
  <2>2. ~ Accepts(conf, i, m)
    BY <1>8 DEF Accepts
  <2> QED
    BY <2>1, <2>2, Refused
<1>9. CASE m.name = "nameservers"
  <2>1. HandleRest(l) = Goto(l, "interfaces")
    BY <1>9 DEF HandleRest
  <2> DEFINE s == Goto(l, "interfaces")
  <2>2. /\ s.step = "interfaces" /\ s.request = l.request /\ s.method = l.method
        /\ InLoop(s, b) /\ Member(s) = m /\ Midway(s, b) = midway
    BY <1>6
  <2> HIDE DEF s
  <2>3. Handling(s, tr, b)
    BY <1>9, <2>2 DEF Handling
  <2> QED
    BY <2>1, <2>3, GoesOn DEF s, Loop
<1>10. CASE m.name = "method"
  <2>1. HandleRest(l) = NextMember(l)
    BY <1>10 DEF HandleRest
  <2>2. Accepts(conf, i, m)
    BY <1>5, <1>10 DEF Accepts
  <2>3. Setting(conf, i, m) = midway
    BY <1>4, <1>10 DEF Setting
  <2> QED
    BY <2>1, <2>2, <2>3, Accepted
<1>11. CASE m.name \notin {"method", "nameservers"} /\ ~(m.name = "gateway" /\ IsStatic(l))
  <2>1. HandleRest(l) = Fail(l)
    BY <1>11 DEF HandleRest
  <2>2. ~ Accepts(conf, i, m)
    BY <1>2, <1>4, <1>11 DEF Accepts
  <2> QED
    BY <2>1, <2>2, Refused
<1> QED
  BY <1>7, <1>8, <1>9, <1>10, <1>11

(* One more interface gets the nameservers.                                  *)
LEMMA ServedOneMore ==
  ASSUME NEW conf, NEW m, NEW J, NEW j \in Ifaces, NEW c,
         c.op = "set", c.key = <<j, "nameservers">>, c.value = m.value
  PROVE  Changed(Served(conf, J, m), c) = Served(conf, J \cup {j}, m)
<1> DEFINE key == <<j, "nameservers">>
           f == [Served(conf, J, m) EXCEPT ![key] = m.value]
           g == Served(conf, J \cup {j}, m)
<1>1. f = [k \in Keys |-> IF k = key THEN m.value ELSE Served(conf, J, m)[k]]
  BY DEF Served
<1>2. \A k \in Keys : k = key <=> k[1] = j /\ k[2] = "nameservers"
  <2>1. key[1] = j /\ key[2] = "nameservers"
    OBVIOUS
  <2>2. ASSUME NEW k \in Keys, k[1] = j, k[2] = "nameservers" PROVE k = key
    <3>1. k # Ntp
      BY <2>2, InterfaceKeys DEF Names
    <3>2. k = <<k[1], k[2]>>
      BY <3>1, InterfaceKeys
    <3> QED
      BY <2>2, <3>2
  <2> QED
    BY <2>1, <2>2
<1>3. \A k \in Keys : Served(conf, J, m)[k] =
        IF k[2] = "nameservers" /\ k[1] \in J THEN m.value ELSE conf[k]
  BY DEF Served
<1>4. g = [k \in Keys |-> IF k[2] = "nameservers" /\ k[1] \in J \cup {j} THEN m.value ELSE conf[k]]
  BY DEF Served
<1> HIDE DEF f, g, key
<1>5. f = g
  BY <1>1, <1>2, <1>3, <1>4
<1>6. key \in Keys
  BY InterfaceKeys DEF key, Names
<1>7. Changed(Served(conf, J, m), c) = f
  BY <1>6 DEF Changed, f, key
<1> QED
  BY <1>5, <1>7 DEF g

(* It makes no difference whether the address is cleared before or after.    *)
LEMMA ServedFacts ==
  ASSUME NEW conf, IsConf(conf), NEW m
  PROVE  /\ Served(conf, {}, m) = conf
         /\ \A i : i \in Ifaces =>
              Served(Cleared(conf, i), Ifaces, m) = Cleared(Served(conf, Ifaces, m), i)
<1>1. Served(conf, {}, m) = conf
  BY DEF IsConf, Served
<1>2. ASSUME NEW i \in Ifaces
      PROVE  Served(Cleared(conf, i), Ifaces, m) = Cleared(Served(conf, Ifaces, m), i)
  <2> DEFINE method == <<i, "method">>
             clear(c) == [c EXCEPT ![<<i, "address">>] = "", ![<<i, "gateway">>] = ""]
             served == Served(conf, Ifaces, m)
  <2>1. method \in Keys /\ method[2] = "method"
    BY InterfaceKeys DEF Names
  <2>2. served[method] = conf[method]
    BY <2>1 DEF Served
  <2>3. /\ <<i, "address">> \in Keys /\ <<i, "gateway">> \in Keys
        /\ <<i, "address">>[2] = "address" /\ <<i, "gateway">>[2] = "gateway"
    BY InterfaceKeys DEF Names
  <2>4. Served(clear(conf), Ifaces, m) = clear(served)
    <3> DEFINE a == <<i, "address">>
               g == <<i, "gateway">>
               ns(k) == k[2] = "nameservers" /\ k[1] \in Ifaces
    <3> HIDE DEF a, g
    <3>1. a \in Keys /\ g \in Keys /\ ~ ns(a) /\ ~ ns(g)
      BY <2>3 DEF a, g
    <3> HIDE DEF ns
    <3>2. \A c : IsConf(c) => [c EXCEPT ![a] = "", ![g] = ""] =
                    [k \in Keys |-> IF k \in {a, g} THEN "" ELSE c[k]]
      BY DEF IsConf
    <3>3. IsConf(served)
      BY ConfFacts
    <3>4. \A c : Served(c, Ifaces, m) = [k \in Keys |-> IF ns(k) THEN m.value ELSE c[k]]
      BY DEF Served, ns
    <3> DEFINE cleared == [conf EXCEPT ![a] = "", ![g] = ""]
               left == Served(cleared, Ifaces, m)
               right == [served EXCEPT ![a] = "", ![g] = ""]
    <3>5. left = [k \in Keys |-> IF ns(k) THEN m.value ELSE IF k \in {a, g} THEN "" ELSE conf[k]]
      <4>1. cleared = [k \in Keys |-> IF k \in {a, g} THEN "" ELSE conf[k]]
        BY <3>2
      <4> HIDE DEF cleared
      <4>2. \A k \in Keys : cleared[k] = IF k \in {a, g} THEN "" ELSE conf[k]
        BY <4>1
      <4>3. left = [k \in Keys |-> IF ns(k) THEN m.value ELSE cleared[k]]
        BY <3>4
      <4> HIDE DEF left
      <4> QED
        BY <4>2, <4>3
    <3>6. right = [k \in Keys |-> IF k \in {a, g} THEN "" ELSE IF ns(k) THEN m.value ELSE conf[k]]
      <4>1. served = [k \in Keys |-> IF ns(k) THEN m.value ELSE conf[k]]
        BY <3>4
      <4> HIDE DEF served
      <4>2. \A k \in Keys : served[k] = IF ns(k) THEN m.value ELSE conf[k]
        BY <4>1
      <4>3. right = [k \in Keys |-> IF k \in {a, g} THEN "" ELSE served[k]]
        BY <3>2, <3>3
      <4> HIDE DEF right
      <4> QED
        BY <4>2, <4>3
    <3> HIDE DEF left, right
    <3>7. left = right
      BY <3>1, <3>5, <3>6
    <3> QED
      BY <3>7 DEF left, right, a, g
  <2> HIDE DEF clear, served, method
  <2>5. Cleared(conf, i) = IF conf[method] = "static" THEN conf ELSE clear(conf)
    BY DEF Cleared, clear, method
  <2>6. Cleared(served, i) = IF served[method] = "static" THEN served ELSE clear(served)
    BY DEF Cleared, clear, method
  <2>7. Served(Cleared(conf, i), Ifaces, m) = Cleared(served, i)
    BY <2>2, <2>4, <2>5, <2>6 DEF served
  <2> QED
    BY <2>7 DEF served
<1> QED
  BY <1>1, <1>2

------------------------------------------------------------------------------
(* One answer takes a PUT on *)

(* What is read of a single answer.                                          *)
LEMMA OneAnswer ==
  ASSUME NEW a
  PROVE  Text(<<a>>) = a.values /\ AllPaths(<<a>>) = a.paths /\ Len(<<a>>) = 1
<1>1. DOMAIN <<a>> = {1} /\ <<a>>[1] = a /\ Len(<<a>>) = 1
  OBVIOUS
<1>2. UNION {<<a>>[i].paths : i \in {1}} = a.paths
  BY <1>1
<1> QED
  BY <1>1, <1>2, OneText DEF AllPaths

(* The path is the one of the interface asked for.                           *)
LEMMA OnPathKey ==
  ASSUME NEW l, OnPath(l)
  PROVE  \A name : Key(l, name) = <<l.request.iface, name>>
<1> DEFINE i == l.request.iface
<1>1. i \in Ifaces /\ l.path = <<i>>
  BY DEF OnPath
<1>2. Len(<<i>>) = 1 /\ <<i>>[1] = i
  OBVIOUS
<1> HIDE DEF i
<1>3. \A name : Key(l, name) = <<i, name>>
  BY <1>1, <1>2 DEF Key
<1> QED
  BY <1>3 DEF i

(* A step to another command for the same member.                            *)
LEMMA GotoKeeps ==
  ASSUME NEW l, GetFields \subseteq DOMAIN l, NEW b, NEW step
  PROVE  /\ Goto(l, step).step = step /\ Goto(l, step).request = l.request
         /\ Goto(l, step).method = l.method /\ Goto(l, step).todo = l.todo
         /\ InLoop(Goto(l, step), b) <=> InLoop(l, b)
         /\ Member(Goto(l, step)) = Member(l) /\ Before(Goto(l, step), b) = Before(l, b)
         /\ Midway(Goto(l, step), b) = Midway(l, b)
<1> DEFINE s == Goto(l, step)
<1>1. Alike(s, l) /\ s.step = step /\ s.method = l.method /\ s.todo = l.todo
  BY GotoAlike
<1> HIDE DEF s
<1>2. /\ s.step = step /\ s.request = l.request /\ s.method = l.method /\ s.todo = l.todo
      /\ InLoop(s, b) <=> InLoop(l, b)
      /\ Member(s) = Member(l) /\ Before(s, b) = Before(l, b) /\ Midway(s, b) = Midway(l, b)
  BY <1>1, AlikeFacts DEF Alike
<1> QED
  BY <1>2 DEF s

(* What the answer's command was, and what its step does not touch.          *)
Answered(l, tr, b, a) ==
  /\ Putting(l, b) /\ Handling(l, tr, b)
  /\ a.values = Values(tr, {}, Asks(l)) /\ a.paths = Paths(tr, Asks(l))

(* The method is set, and then asked for.                                    *)
LEMMA MethodSet ==
  ASSUME NEW l, NEW tr, NEW b, NEW a, Answered(l, tr, b, a), l.step = "setMethod"
  PROVE  Right(After(l, <<a>>), Changed(tr, Asks(l)), b, {}, b)
<1> DEFINE i == l.request.iface
           m == Member(l)
           key == <<i, "method">>
           s == Goto(l, "getMethod")
<1>1. Putting(l, b) /\ InLoop(l, b) /\ GetFields \subseteq DOMAIN l
  BY DEF Answered, Handling, Putting
<1>2. m.name = "method" /\ tr = Before(l, b).conf
  BY DEF Answered, Handling
<1>3. After(l, <<a>>) = s
  BY DEF After
<1>4. key \in Keys /\ Key(l, "method") = key
  BY <1>1, OnPathKey, InterfaceKeys DEF Names, Putting, OnPath
<1>5. Asks(l) = Command("set", key, m.value)
  BY <1>4 DEF Asks
<1> HIDE DEF key
<1>6. Changed(tr, Asks(l)) = [tr EXCEPT ![key] = m.value]
  BY <1>4, <1>5 DEF Changed, Command
<1>7. Changed(tr, Asks(l)) = Midway(l, b)
  BY <1>2, <1>6 DEF Midway, key
<1>8. /\ s.step = "getMethod" /\ InLoop(s, b) /\ Midway(s, b) = Midway(l, b)
  BY <1>1, GotoKeeps
<1> HIDE DEF s
<1>9. Handling(s, Midway(l, b), b)
  BY <1>8 DEF Handling
<1>10. Right(s, Midway(l, b), b, {}, b)
  BY <1>1, <1>9, GoesOn DEF s, Loop
<1> QED
  BY <1>3, <1>7, <1>10

(* With the method known: the address, or what must not stay.                *)
LEMMA MethodGot ==
  ASSUME NEW l, NEW tr, NEW b, NEW a, Answered(l, tr, b, a), l.step = "getMethod"
  PROVE  Right(After(l, <<a>>), Changed(tr, Asks(l)), b, {}, b)
<1> DEFINE i == l.request.iface
           m == Member(l)
           key == <<i, "method">>
           midway == Midway(l, b)
           n == [l EXCEPT !.method = a.values]
           static == midway[key] = "static"
<1>1. /\ Putting(l, b) /\ InLoop(l, b) /\ GetFields \subseteq DOMAIN l /\ i \in Ifaces
      /\ l.shown = <<>>
  BY DEF Answered, Handling, Putting, OnPath
<1>2. tr = midway
  BY DEF Answered, Handling
<1>3. After(l, <<a>>) = AfterGetMethod(n)
  BY OneAnswer DEF After
<1>4. key \in Keys /\ Key(l, "method") = key
  BY <1>1, OnPathKey, InterfaceKeys DEF Names, Putting, OnPath
<1>5. Asks(l).op = "get" /\ Asks(l).key = Key(l, "method")
  BY DEF Asks, Command
<1>6. a.values = Found(midway, key) /\ Changed(tr, Asks(l)) = midway
  <2> HIDE DEF key, midway
  <2>1. Asks(l).op = "get" /\ Asks(l).key = key
    BY <1>4, <1>5
  <2>2. Values(tr, {}, Asks(l)) = Found(midway, key)
    BY <1>2, <2>1 DEF Values
  <2>3. Changed(tr, Asks(l)) = midway
    BY <1>2, <2>1 DEF Changed
  <2> QED
    BY <2>2, <2>3 DEF Answered
<1>7. Changed(tr, Asks(l)) = midway
  BY <1>6
<1>8. Alike(n, l) /\ n.method = a.values
  BY <1>1 DEF GetFields, Alike
<1> HIDE DEF n, m
<1>9. /\ Putting(n, b) /\ InLoop(n, b) /\ Member(n) = m /\ Before(n, b) = Before(l, b)
      /\ Midway(n, b) = midway
  BY <1>1, <1>8, AlikeFacts DEF m
<1>10. n.request = l.request /\ GetFields \subseteq DOMAIN n
  BY <1>8 DEF Alike
<1>11. IsStatic(n) <=> static
  BY <1>1, <1>6, <1>8, StaticMethod DEF IsStatic
<1>12. m.name # "method" => midway = Before(l, b).conf
  BY DEF Midway, m
<1>13. CASE m.name = "address" /\ m.valid /\ static
  <2> DEFINE s == Goto(n, "setAddress")
  <2>1. AfterGetMethod(n) = s
    BY <1>9, <1>11, <1>13 DEF AfterGetMethod
  <2>2. /\ s.step = "setAddress" /\ InLoop(s, b) /\ Midway(s, b) = midway /\ Member(s) = m
        /\ s.request = l.request /\ s.method = n.method
    BY <1>9, <1>10, GotoKeeps
  <2> HIDE DEF s
  <2>3. Handling(s, midway, b)
    BY <1>6, <1>8, <1>13, <2>2 DEF Handling
  <2>4. Right(s, midway, b, {}, b)
    BY <1>9, <2>3, GoesOn DEF s, Loop
  <2> QED
    BY <1>3, <1>7, <2>1, <2>4
<1>14. CASE m.name = "address" /\ ~(m.valid /\ static)
  <2>1. AfterGetMethod(n) = Fail(n)
    BY <1>9, <1>11, <1>14 DEF AfterGetMethod
  <2>2. ~ Accepts(Before(n, b).conf, n.request.iface, Member(n))
    BY <1>9, <1>10, <1>12, <1>14 DEF Accepts
  <2>3. Right(Fail(n), midway, b, {}, b)
    BY <1>9, <2>2, Refused
  <2> QED
    BY <1>3, <1>7, <2>1, <2>3
<1>15. CASE m.name # "address" /\ static
  <2>1. AfterGetMethod(n) = HandleRest(n)
    BY <1>9, <1>11, <1>15 DEF AfterGetMethod
  <2>2. midway = Cleared(Midway(n, b), n.request.iface)
    BY <1>9, <1>10, <1>15 DEF Cleared
  <2>3. n.method = Found(Midway(n, b), <<n.request.iface, "method">>)
    BY <1>6, <1>8, <1>9, <1>10
  <2>4. Right(HandleRest(n), midway, b, {}, b)
    BY <1>9, <1>15, <2>2, <2>3, HandleRestRight
  <2> QED
    BY <1>3, <1>7, <2>1, <2>4
<1>16. CASE m.name # "address" /\ ~static
  <2> DEFINE s == Goto(n, "rmAddress")
  <2>1. AfterGetMethod(n) = s
    BY <1>9, <1>11, <1>16 DEF AfterGetMethod
  <2>2. /\ s.step = "rmAddress" /\ InLoop(s, b) /\ Midway(s, b) = midway /\ Member(s) = m
        /\ s.request = l.request /\ s.method = n.method
    BY <1>9, <1>10, GotoKeeps
  <2> HIDE DEF s
  <2>3. Handling(s, midway, b)
    BY <1>6, <1>8, <1>16, <2>2 DEF Handling
  <2>4. Right(s, midway, b, {}, b)
    BY <1>9, <2>3, GoesOn DEF s, Loop
  <2> QED
    BY <1>3, <1>7, <2>1, <2>4
<1> QED
  BY <1>13, <1>14, <1>15, <1>16

(* What an interface that is not static may not keep.                        *)
LEMMA AddressRemoved ==
  ASSUME NEW l, NEW tr, NEW b, NEW a, Answered(l, tr, b, a),
         l.step \in {"rmAddress", "rmGateway"}
  PROVE  Right(After(l, <<a>>), Changed(tr, Asks(l)), b, {}, b)
<1> DEFINE i == l.request.iface
           midway == Midway(l, b)
           address == <<i, "address">>
           gateway == <<i, "gateway">>
<1>1. /\ Putting(l, b) /\ InLoop(l, b) /\ GetFields \subseteq DOMAIN l /\ i \in Ifaces
      /\ Member(l).name # "address" /\ midway[<<i, "method">>] # "static"
      /\ l.method = Found(midway, <<i, "method">>)
  BY DEF Answered, Handling, Putting, OnPath
<1>2. /\ address \in Keys /\ Key(l, "address") = address
      /\ gateway \in Keys /\ Key(l, "gateway") = gateway
  BY <1>1, OnPathKey, InterfaceKeys DEF Names, Putting, OnPath
<1>3. /\ Asks(l).op = "rm" /\ Asks(l).value = ""
      /\ Asks(l).key = IF l.step = "rmAddress" THEN Key(l, "address") ELSE Key(l, "gateway")
  BY DEF Asks, Command
<1>4. Cleared(midway, i) = [midway EXCEPT ![address] = "", ![gateway] = ""]
  BY <1>1 DEF Cleared
<1>5. /\ l.step = "rmAddress" => tr = midway
      /\ l.step = "rmGateway" => tr = [midway EXCEPT ![address] = ""]
  BY DEF Answered, Handling
<1> HIDE DEF address, gateway, midway
<1>6. /\ l.step = "rmAddress" => Changed(tr, Asks(l)) = [tr EXCEPT ![address] = ""]
      /\ l.step = "rmGateway" => Changed(tr, Asks(l)) = [tr EXCEPT ![gateway] = ""]
  <2>1. Asks(l).key = IF l.step = "rmAddress" THEN address ELSE gateway
    BY <1>2, <1>3
  <2> QED
    BY <1>2, <1>3, <2>1 DEF Changed
<1>7. CASE l.step = "rmAddress"
  <2> DEFINE s == Goto(l, "rmGateway")
  <2>1. After(l, <<a>>) = s
    BY <1>7 DEF After
  <2>2. /\ s.step = "rmGateway" /\ InLoop(s, b) /\ Midway(s, b) = midway /\ Member(s) = Member(l)
        /\ s.request = l.request /\ s.method = l.method
    BY <1>1, GotoKeeps DEF midway
  <2> HIDE DEF s
  <2> DEFINE new == [midway EXCEPT ![address] = ""]
  <2>3. Handling(s, new, b)
    BY <1>1, <2>2 DEF Handling, address
  <2>4. Right(s, new, b, {}, b)
    BY <1>1, <2>3, GoesOn DEF s, Loop
  <2> QED
    BY <1>5, <1>6, <1>7, <2>1, <2>4
<1>8. CASE l.step = "rmGateway"
  <2>1. After(l, <<a>>) = HandleRest(l)
    BY <1>8 DEF After
  <2>2. Changed(tr, Asks(l)) = Cleared(midway, i)
    BY <1>4, <1>5, <1>6, <1>8
  <2>3. Right(HandleRest(l), Cleared(midway, i), b, {}, b)
    BY <1>1, HandleRestRight DEF midway
  <2> QED
    BY <2>1, <2>2, <2>3
<1> QED
  BY <1>7, <1>8

(* Address and gateway of a static interface.                                *)
LEMMA AddressSet ==
  ASSUME NEW l, NEW tr, NEW b, NEW a, Answered(l, tr, b, a),
         l.step \in {"setAddress", "setGateway"}
  PROVE  Right(After(l, <<a>>), Changed(tr, Asks(l)), b, {}, b)
<1> DEFINE i == l.request.iface
           m == Member(l)
           conf == Before(l, b).conf
           key == <<i, m.name>>
           method == <<i, "method">>
           set == Setting(conf, i, m)
<1>1. /\ Putting(l, b) /\ InLoop(l, b) /\ GetFields \subseteq DOMAIN l /\ i \in Ifaces
      /\ m.name = (IF l.step = "setAddress" THEN "address" ELSE "gateway")
      /\ m.valid \/ (m.name = "gateway" /\ m.value = "")
      /\ Midway(l, b)[method] = "static" /\ tr = Midway(l, b)
      /\ l.method = Found(Midway(l, b), method)
  BY DEF Answered, Handling, Putting, OnPath
<1>2. tr = conf
  BY <1>1 DEF Midway
<1>3. key \in Keys /\ Asks(l).op = "set" /\ Asks(l).key = key /\ Asks(l).value = m.value
  <2>1. Key(l, m.name) = key
    BY <1>1, OnPathKey DEF Putting
  <2>2. Asks(l).op = "set" /\ Asks(l).key = Key(l, m.name) /\ Asks(l).value = m.value
    BY <1>1 DEF Asks, Command
  <2>3. key \in Keys
    BY <1>1, InterfaceKeys DEF Names
  <2> QED
    BY <2>1, <2>2, <2>3
<1>4. After(l, <<a>>) = NextMember(l)
  BY <1>1 DEF After, HandleRest
<1>5. IsConf(conf)
  BY <1>1, MemberResult
<1>6. Accepts(conf, i, m)
  BY <1>1, <1>2 DEF Accepts
<1>7. m.name # "method" /\ m.name # "nameservers" /\ i \in Ifaces /\ conf[method] = "static"
  BY <1>1, <1>2
<1> HIDE DEF i, m, conf, key, method
<1>8. set = [conf EXCEPT ![key] = m.value]
  BY <1>7 DEF Setting, key
<1>9. Changed(tr, Asks(l)) = set
  <2> HIDE DEF set
  <2> QED
    BY <1>2, <1>3, <1>8 DEF Changed
<1>10. set[method] = conf[method]
  BY <1>5, <1>7, MethodStays DEF method
<1> HIDE DEF set
<1>11. Cleared(set, i) = set
  BY <1>7, <1>10 DEF Cleared, method
<1>12. Right(NextMember(l), set, b, {}, b)
  <2>1. set = Cleared(Setting(conf, i, m), i)
    BY <1>11 DEF set
  <2> QED
    BY <1>1, <1>6, <2>1, Accepted DEF i, m, conf, method
<1> QED
  BY <1>4, <1>9, <1>12

(* The nameservers are for every interface.                                  *)
LEMMA InterfacesListed ==
  ASSUME NEW l, NEW tr, NEW b, NEW a, Answered(l, tr, b, a), l.step = "interfaces"
  PROVE  Right(After(l, <<a>>), Changed(tr, Asks(l)), b, {}, b)
<1> DEFINE i == l.request.iface
           m == Member(l)
           n == [l EXCEPT !.todo = Ifaces]
           s == Goto(n, "setServers")
<1>1. /\ Putting(l, b) /\ InLoop(l, b) /\ GetFields \subseteq DOMAIN l /\ i \in Ifaces
      /\ m.name = "nameservers" /\ tr = Cleared(Midway(l, b), i)
      /\ l.method = Found(Midway(l, b), <<i, "method">>)
  BY DEF Answered, Handling, Putting, OnPath
<1>2. Asks(l).op = "interfaces"
  BY DEF Asks, Command
<1>3. Changed(tr, Asks(l)) = tr /\ AllPaths(<<a>>) = Ifaces
  BY <1>2, OneAnswer DEF Changed, Answered, Paths
<1>4. CASE ~ m.valid
  <2>1. After(l, <<a>>) = Fail(l)
    BY <1>4 DEF After
  <2>2. ~ Accepts(Before(l, b).conf, i, m)
    BY <1>1, <1>4 DEF Accepts
  <2>3. Right(Fail(l), tr, b, {}, b)
    BY <1>1, <2>2, Refused
  <2> QED
    BY <1>3, <2>1, <2>3
<1>5. CASE m.valid
  <2>1. n.todo = Ifaces /\ n.method = l.method /\ Alike(n, l)
    BY <1>1 DEF GetFields, Alike
  <2>2. After(l, <<a>>) = NextInterface(n)
    BY <1>3, <1>5 DEF After
  <2>3. NextInterface(n) = s
    BY <1>1, <2>1 DEF NextInterface
  <2> HIDE DEF n, m
  <2>4. Putting(n, b) /\ InLoop(n, b) /\ Member(n) = m /\ Midway(n, b) = Midway(l, b)
    BY <1>1, <2>1, AlikeFacts DEF m
  <2>5. n.request = l.request /\ GetFields \subseteq DOMAIN n
    BY <2>1 DEF Alike
  <2>6. /\ s.step = "setServers" /\ InLoop(s, b) /\ Midway(s, b) = Midway(l, b) /\ Member(s) = m
        /\ s.request = l.request /\ s.method = l.method /\ s.todo = Ifaces
    BY <2>1, <2>4, <2>5, GotoKeeps
  <2> HIDE DEF s
  <2>7. IsConf(tr)
    <3>1. IsConf(Midway(l, b))
      BY <1>1, MemberResult
    <3> QED
      BY <1>1, <3>1, ConfFacts
  <2>8. tr = Served(tr, Ifaces \ Ifaces, m)
    <3>1. Ifaces \ Ifaces = {}
      OBVIOUS
    <3> QED
      BY <2>7, <3>1, ServedFacts
  <2>9. tr = Served(Cleared(Midway(l, b), i), Ifaces \ Ifaces, m)
    BY <1>1, <2>8
  <2>10. Handling(s, tr, b)
    BY <1>1, <1>5, <2>6, <2>9 DEF Handling
  <2>11. Right(s, tr, b, {}, b)
    BY <2>4, <2>10, GoesOn DEF s, Loop
  <2> QED
    BY <1>3, <2>2, <2>3, <2>11
<1> QED
  BY <1>4, <1>5

(* One interface after the other, in whatever order.                         *)
LEMMA ServersSet ==
  ASSUME NEW l, NEW tr, NEW b, NEW a, Answered(l, tr, b, a), l.step = "setServers"
  PROVE  Right(After(l, <<a>>), Changed(tr, Asks(l)), b, {}, b)
<1> DEFINE i == l.request.iface
           m == Member(l)
           conf == Before(l, b).conf
           clear == Cleared(conf, i)
           j == Interface(l)
           key == <<j, "nameservers">>
           left == l.todo \ {j}
           n == [l EXCEPT !.todo = left]
           new == Served(clear, Ifaces \ left, m)
<1>1. /\ Putting(l, b) /\ InLoop(l, b) /\ GetFields \subseteq DOMAIN l /\ i \in Ifaces
      /\ m.name = "nameservers" /\ m.valid /\ l.todo \subseteq Ifaces /\ l.todo # {}
      /\ tr = Served(Cleared(Midway(l, b), i), Ifaces \ l.todo, m)
      /\ l.method = Found(Midway(l, b), <<i, "method">>)
  BY DEF Answered, Handling, Putting, OnPath
<1>2. Midway(l, b) = conf
  BY <1>1 DEF Midway
<1>3. j \in l.todo /\ j \in Ifaces
  BY <1>1 DEF Interface
<1>4. After(l, <<a>>) = NextInterface(n)
  BY DEF After
<1>5. Alike(n, l) /\ n.todo = left /\ n.method = l.method
  BY <1>1 DEF GetFields, Alike
<1>6. Asks(l).op = "set" /\ Asks(l).key = key /\ Asks(l).value = m.value
  BY DEF Asks, Command
<1>7. IsConf(conf) /\ IsConf(clear)
  <2>1. IsConf(conf)
    BY <1>1, MemberResult
  <2> QED
    BY <2>1, ConfFacts
<1>8. key \in Keys
  BY <1>3, InterfaceKeys DEF Names
<1> HIDE DEF n, m, conf, j
<1>9. Changed(tr, Asks(l)) = new
  <2>1. (Ifaces \ l.todo) \cup {j} = Ifaces \ left
    BY <1>3
  <2> HIDE DEF clear
  <2>2. tr = Served(clear, Ifaces \ l.todo, m)
    BY <1>1, <1>2 DEF clear, m
  <2>3. Changed(tr, Asks(l)) = Served(clear, (Ifaces \ l.todo) \cup {j}, m)
    BY <1>3, <1>6, <1>7, <2>2, ServedOneMore
  <2> HIDE DEF left
  <2> QED
    BY <2>1, <2>3 DEF new
<1>10. Putting(n, b) /\ InLoop(n, b) /\ Member(n) = m /\ Before(n, b).conf = conf
       /\ Midway(n, b) = conf /\ n.request = l.request /\ GetFields \subseteq DOMAIN n
  BY <1>1, <1>2, <1>5, AlikeFacts DEF m, conf, Alike
<1>11. n.method = Found(conf, <<i, "method">>)
  BY <1>1, <1>2, <1>5
<1>12. CASE left = {}
  <2>1. NextInterface(n) = NextMember(n)
    BY <1>5, <1>12 DEF NextInterface
  <2>2. new = Served(clear, Ifaces, m)
    BY <1>12
  <2>3. Served(clear, Ifaces, m) = Cleared(Served(conf, Ifaces, m), i)
    BY <1>1, <1>7, ServedFacts
  <2>4. new = Cleared(Setting(conf, i, m), i)
    BY <1>1, <2>2, <2>3 DEF Setting, m
  <2>5. Accepts(conf, i, m)
    BY <1>1 DEF Accepts, m
  <2> HIDE DEF new
  <2>6. Right(NextMember(n), new, b, {}, b)
    BY <1>10, <1>11, <2>4, <2>5, Accepted
  <2> QED
    BY <1>4, <1>9, <2>1, <2>6
<1>13. CASE left # {}
  <2> DEFINE s == Goto(n, "setServers")
  <2>1. NextInterface(n) = s
    BY <1>5, <1>13 DEF NextInterface
  <2>2. /\ s.step = "setServers" /\ InLoop(s, b) /\ Midway(s, b) = conf /\ Member(s) = m
        /\ s.request = l.request /\ s.method = n.method /\ s.todo = left
    BY <1>5, <1>10, GotoKeeps
  <2> HIDE DEF s
  <2>3. /\ left \subseteq Ifaces /\ m.valid /\ m.name = "nameservers"
    BY <1>1 DEF m
  <2>4. Handling(s, new, b)
    BY <1>11, <1>13, <2>2, <2>3 DEF Handling
  <2>5. Right(s, new, b, {}, b)
    BY <1>10, <2>4, GoesOn DEF s, Loop
  <2> QED
    BY <1>4, <1>9, <2>1, <2>5
<1> QED
  BY <1>12, <1>13

(* Within the loop over the members nothing is saved.                        *)
LEMMA LoopGoesOn ==
  ASSUME NEW l, NEW tr, NEW b, NEW a, Answered(l, tr, b, a), l.step \in Loop
  PROVE  Right(After(l, <<a>>), Changed(tr, Asks(l)), b, {}, b) /\ Asks(l).op # "save"
<1>1. Asks(l).op # "save"
  BY DEF Asks, Loop, Command
<1> QED
  BY <1>1, MethodSet, MethodGot, AddressRemoved, AddressSet, InterfacesListed, ServersSet DEF Loop

(* From the first command to the first member of the body.                   *)
LEMMA BeginGoesOn ==
  ASSUME NEW l, NEW tr, NEW fl, NEW er, NEW b, NEW a, l.request.kind = "PUT",
         Right(l, tr, fl, er, b),
         l.step \in {"checkInterfaces", "checkResolv", "find", "getFirst"},
         a.values = Values(tr, er, Asks(l))
  PROVE  Right(After(l, <<a>>), Changed(tr, Asks(l)), fl, er, b) /\ Asks(l).op # "save"
<1> DEFINE r == l.request
           i == r.iface
           n == After(l, <<a>>)
<1>1. /\ GetFields \subseteq DOMAIN l /\ r \in Requests /\ IsConf(b) /\ r.kind = "PUT"
      /\ Puts(l, tr, fl, er, b)
  BY DEF Right
<1>2. tr = b /\ fl = b /\ er = {} /\ l.member = 0 /\ l.shown = <<>>
  BY <1>1 DEF Puts, Shows
<1>3. Text(<<a>>) = a.values /\ Len(<<a>>) = 1
  BY OneAnswer
<1>4. Asks(l).op = IF l.step = "find" THEN "find" ELSE IF l.step = "getFirst" THEN "get" ELSE "ls"
  BY DEF Asks, Command
<1>5. Changed(tr, Asks(l)) = b /\ fl = b /\ er = {}
  BY <1>2, <1>4 DEF Changed
<1>6. /\ 0 \in 0..Len(r.members)
      /\ AskedUpTo(b, r)[0].ok <=> i \in Ifaces
      /\ AskedUpTo(b, r)[0].conf = b
  <2>1. Len(r.members) \in Nat /\ AskedUpTo(b, r)[0] = [ok |-> r.iface \in Ifaces, conf |-> b]
    BY <1>1, AskedUpToFacts, Zenon
  <2> DEFINE first == AskedUpTo(b, r)[0]
             ok == r.iface \in Ifaces
  <2>2. ok \in BOOLEAN /\ first = [ok |-> ok, conf |-> b]
    BY <2>1
  <2>3. 0 \in 0..Len(r.members) /\ (ok <=> i \in Ifaces)
    BY <2>1
  <2> HIDE DEF first, ok, i
  <2>4. first.ok = ok /\ first.conf = b
    BY <2>2
  <2> QED
    BY <2>2, <2>3, <2>4 DEF first
<1>7. ASSUME l.step \in {"checkInterfaces", "checkResolv"} PROVE Right(n, b, b, {}, b)
  <2>1. a.values = <<>>
    BY <1>2, <1>4, <1>7 DEF Values
  <2>2. n = Goto(l, IF l.step = "checkInterfaces" THEN "checkResolv" ELSE "find")
    BY <1>3, <1>7, <2>1 DEF After
  <2>3. /\ n.request = r /\ n.step \in {"checkResolv", "find"} /\ n.shown = <<>> /\ n.member = 0
        /\ GetFields \subseteq DOMAIN n
    BY <1>1, <1>2, <2>2, GotoAlike DEF Alike
  <2> HIDE DEF n
  <2>4. Puts(n, b, b, {}, b)
    BY <2>3 DEF Puts, Loop, Rechecks, Shows
  <2> QED
    BY <1>1, <2>3, <2>4 DEF Right
<1>8. ASSUME l.step = "find" PROVE Right(n, b, b, {}, b)
  <2>1. Asks(l).key = <<i>> /\ <<i>>[1] = i
    BY <1>8 DEF Asks, Command
  <2>2. a.values = IF i \in Ifaces THEN <<i>> ELSE <<>>
    BY <1>4, <1>8, <2>1 DEF Values
  <2>3. Lines(<<a>>) = a.values
    <3>1. Lines(<<a>>) = a.values \o <<>>
      BY <1>3 DEF Lines
    <3> HIDE DEF i
    <3> QED
      BY <2>2, <3>1
  <2>4. n = IF a.values = <<>> THEN Fail(l) ELSE [l EXCEPT !.path = a.values, !.step = "getFirst"]
    BY <1>8, <2>3 DEF After
  <2>5. CASE i \in Ifaces
    <3>1. n = [l EXCEPT !.path = <<i>>, !.step = "getFirst"]
      BY <2>2, <2>4, <2>5
    <3>2. /\ n.request = r /\ n.step = "getFirst" /\ n.shown = <<>> /\ n.path = <<i>> /\ n.member = 0
          /\ GetFields \subseteq DOMAIN n
      BY <1>1, <1>2, <3>1 DEF GetFields
    <3> HIDE DEF n
    <3>3. Puts(n, b, b, {}, b)
      BY <2>5, <3>2 DEF Puts, Loop, Rechecks, Shows, OnPath
    <3> QED
      BY <1>1, <3>2, <3>3 DEF Right
  <2>6. CASE i \notin Ifaces
    <3>1. n = Fail(l)
      BY <2>2, <2>4, <2>6
    <3>2. n.request = r /\ n.step = "failed" /\ GetFields \subseteq DOMAIN n
      BY <1>1, <3>1, GotoAlike DEF Alike
    <3>3. ~ AskedUpTo(b, r)[0].ok
      BY <1>6, <2>6
    <3>4. ~ Asked(b, r).ok
      BY <1>1, <1>6, <3>3, RefusedIsRefused, Zenon
    <3> HIDE DEF n
    <3>5. Puts(n, b, b, {}, b)
      BY <3>2, <3>4 DEF Puts, Loop, Rechecks, Shows
    <3> QED
      BY <1>1, <3>2, <3>5 DEF Right
  <2> QED
    BY <2>5, <2>6
<1>9. ASSUME l.step = "getFirst" PROVE Right(n, b, b, {}, b)
  <2> DEFINE m == [l EXCEPT !.method = a.values]
  <2>1. n = NextMember(m)
    BY <1>1, <1>3, <1>9 DEF After
  <2>2. OnPath(l)
    BY <1>1, <1>9 DEF Puts
  <2>3. a.values = Found(b, <<i, "method">>)
    <3>1. Asks(l).key = Key(l, "method") /\ Key(l, "method") = <<i, "method">>
      BY <1>9, <2>2, OnPathKey DEF Asks, Command
    <3> QED
      BY <1>2, <1>4, <1>9, <3>1 DEF Values
  <2>4. Alike(m, l) /\ m.method = a.values
    BY <1>1 DEF GetFields, Alike
  <2> HIDE DEF m, n
  <2>5. Putting(l, b)
    BY <1>1, <1>2, <2>2 DEF Putting
  <2>6. Putting(m, b)
    BY <2>4, <2>5, AlikeFacts
  <2>7. AskedUpTo(b, r)[0].ok /\ AskedUpTo(b, r)[0].conf = b
    <3>1. i \in Ifaces
      BY <2>2 DEF OnPath
    <3> QED
      BY <1>6, <3>1
  <2>8. MemberDone(m, b, b)
    BY <1>2, <1>6, <2>3, <2>4, <2>7 DEF MemberDone, Alike
  <2> QED
    BY <2>1, <2>6, <2>8, NextMemberRight
<1> QED
  BY <1>4, <1>5, <1>7, <1>8, <1>9

(* From the save to the reply.                                               *)
LEMMA EndGoesOn ==
  ASSUME NEW l, NEW tr, NEW fl, NEW er, NEW fl2, NEW er2, NEW b, NEW a,
         l.request.kind = "PUT", Right(l, tr, fl, er, b),
         l.step \in {"save"} \cup Rechecks \cup Shows, a.values = Values(tr, er, Asks(l)),
         Saved(Asks(l), tr, fl, er, fl2, er2)
  PROVE  Right(After(l, <<a>>), Changed(tr, Asks(l)), fl2, er2, b)
<1> DEFINE r == l.request
           i == r.iface
           n == After(l, <<a>>)
           conf == Asked(b, r).conf
           found(name) == Found(conf, <<i, name>>)
           servers == SetToSeq({conf[<<j, "nameservers">>] : j \in WithServers(conf)})
<1>1. /\ GetFields \subseteq DOMAIN l /\ r \in Requests /\ IsConf(b) /\ r.kind = "PUT"
      /\ Puts(l, tr, fl, er, b)
  BY DEF Right
<1>2. /\ OnPath(l) /\ Asked(b, r).ok /\ tr = conf
      /\ l.step = "save" => fl = b /\ er = {}
      /\ l.step \in Rechecks => "resolv.conf" \notin er
      /\ l.step = "recheckInterfaces" => fl = IF "interfaces" \in er THEN b ELSE conf
      /\ l.step \in {"recheckResolv"} \cup Shows => fl = conf
      /\ l.step \notin Shows => l.shown = <<>>
  BY <1>1 DEF Puts, Shows, Rechecks
<1>3. Text(<<a>>) = a.values
  BY OneAnswer
<1>4. /\ l.step = "save" => Asks(l).op = "save"
      /\ l.step = "recheckInterfaces" => Asks(l).op = "ls" /\ Asks(l).key = <<"interfaces">>
      /\ l.step = "recheckResolv" => Asks(l).op = "ls" /\ Asks(l).key = <<"resolv.conf">>
      /\ l.step \in {"showMethod", "showAddress", "showGateway"} => Asks(l).op = "get"
      /\ l.step = "showServers" => Asks(l).op = "servers"
  BY DEF Asks, Command, Rechecks
<1>5. /\ Changed(tr, Asks(l)) = conf
      /\ l.step # "save" => fl2 = fl /\ er2 = er
  BY <1>2, <1>4 DEF Changed, Shows, Rechecks, Saved
<1> HIDE DEF conf
<1>6. ASSUME l.step \in {"save"} \cup Rechecks PROVE Right(n, conf, fl2, er2, b)
  <2>1. l.shown = <<>>
    BY <1>2, <1>6 DEF Shows, Rechecks
  <2>2. ASSUME NEW step \in {"recheckInterfaces", "recheckResolv", "showMethod"}, n = Goto(l, step)
        PROVE  /\ n.request = r /\ n.step = step /\ n.shown = <<>> /\ OnPath(n)
               /\ GetFields \subseteq DOMAIN n
    <3>1. /\ n.request = r /\ n.step = step /\ n.shown = <<>> /\ n.path = l.path
          /\ GetFields \subseteq DOMAIN n
      BY <1>1, <2>1, <2>2, GotoAlike DEF Alike
    <3> HIDE DEF n
    <3> QED
      BY <1>2, <3>1 DEF OnPath
  <2>3. CASE l.step = "save"
    <3>1. n = Goto(l, "recheckInterfaces")
      BY <2>3 DEF After
    <3>2. /\ n.request = r /\ n.step = "recheckInterfaces" /\ n.shown = <<>> /\ OnPath(n)
          /\ GetFields \subseteq DOMAIN n
      BY <2>2, <3>1
    <3> HIDE DEF n
    <3>3. /\ er2 \subseteq {FileOf(k) : k \in {key \in Keys : conf[key] # b[key]}}
          /\ fl2 = [k \in Keys |-> IF FileOf(k) \in er2 THEN b[k] ELSE conf[k]]
      BY <1>2, <1>4, <2>3 DEF Saved
    <3>4. IsConf(conf) /\ IsConf(b) /\ conf[Ntp] = b[Ntp]
      BY <1>1, ServerStays DEF conf
    <3>5. "resolv.conf" \notin er2
      BY <3>3 DEF FileOf
    <3>6. fl2 = IF "interfaces" \in er2 THEN b ELSE conf
      <4>1. \A k \in Keys : k # Ntp => FileOf(k) = "interfaces"
        BY DEF FileOf
      <4>2. \A k \in Keys : fl2[k] = IF "interfaces" \in er2 THEN b[k] ELSE conf[k]
        BY <3>3, <3>4, <4>1
      <4>3. IsConf(fl2)
        BY <3>3 DEF IsConf
      <4> QED
        BY <3>4, <4>2, <4>3 DEF IsConf
    <3>7. Puts(n, conf, fl2, er2, b)
      BY <1>2, <3>2, <3>5, <3>6 DEF Puts, Loop, Rechecks, Shows, conf
    <3> QED
      BY <1>1, <3>2, <3>7 DEF Right
  <2>4. CASE l.step = "recheckInterfaces"
    <3>1. a.values = IF "interfaces" \in er THEN <<"interfaces">> ELSE <<>>
      BY <1>4, <2>4 DEF Values
    <3>2. <<"interfaces">> # <<>>
      BY OneEntry
    <3>3. n = IF "interfaces" \in er THEN Fail(l) ELSE Goto(l, "recheckResolv")
      BY <1>3, <2>4, <3>1, <3>2 DEF After
    <3>4. fl2 = fl /\ er2 = er
      BY <1>5, <2>4
    <3>5. CASE "interfaces" \in er
      <4>1. n.request = r /\ n.step = "failed" /\ GetFields \subseteq DOMAIN n
        BY <1>1, <3>3, <3>5, GotoAlike DEF Alike
      <4>2. fl2 = b /\ "interfaces" \in er2
        BY <1>2, <2>4, <3>4, <3>5
      <4> HIDE DEF n
      <4>3. Puts(n, conf, fl2, er2, b)
        BY <4>1, <4>2 DEF Puts, Loop, Rechecks, Shows
      <4> QED
        BY <1>1, <4>1, <4>3 DEF Right
    <3>6. CASE "interfaces" \notin er
      <4>1. /\ n.request = r /\ n.step = "recheckResolv" /\ n.shown = <<>> /\ OnPath(n)
            /\ GetFields \subseteq DOMAIN n
        BY <2>2, <3>3, <3>6
      <4>2. fl2 = conf /\ "resolv.conf" \notin er2
        BY <1>2, <2>4, <3>4, <3>6 DEF Rechecks
      <4> HIDE DEF n
      <4>3. Puts(n, conf, fl2, er2, b)
        BY <1>2, <4>1, <4>2 DEF Puts, Loop, Rechecks, Shows, conf
      <4> QED
        BY <1>1, <4>1, <4>3 DEF Right
    <3> QED
      BY <3>5, <3>6
  <2>5. CASE l.step = "recheckResolv"
    <3>1. a.values = <<>>
      BY <1>2, <1>4, <2>5 DEF Values, Rechecks
    <3>2. n = Goto(l, "showMethod")
      BY <1>3, <2>5, <3>1 DEF After
    <3>3. /\ n.request = r /\ n.step = "showMethod" /\ n.shown = <<>> /\ OnPath(n)
          /\ GetFields \subseteq DOMAIN n
      BY <2>2, <3>2
    <3>4. fl2 = conf
      BY <1>2, <1>5, <2>5
    <3> HIDE DEF n
    <3>5. Puts(n, conf, fl2, er2, b)
      BY <1>2, <3>3, <3>4 DEF Puts, Loop, Rechecks, Shows, conf
    <3> QED
      BY <1>1, <3>3, <3>5 DEF Right
  <2> QED
    BY <1>6, <2>3, <2>4, <2>5 DEF Rechecks
<1>7. ASSUME NEW name, NEW step, a.values = found(name), n = Show(l, a.values, step)
      PROVE  /\ n.request = r /\ n.step = step /\ n.path = l.path /\ GetFields \subseteq DOMAIN n
             /\ n.shown = Append(l.shown, found(name)) /\ OnPath(n)
  <2> DEFINE s == Append(l.shown, a.values)
  <2>1. n = [l EXCEPT !.shown = s, !.step = step]
    BY <1>7 DEF Show
  <2> HIDE DEF s, n
  <2>2. /\ n.request = r /\ n.step = step /\ n.path = l.path /\ GetFields \subseteq DOMAIN n
        /\ n.shown = s
    BY <1>1, <2>1 DEF GetFields
  <2>3. OnPath(n)
    BY <1>2, <2>2 DEF OnPath
  <2> QED
    BY <1>7, <2>2, <2>3 DEF s
<1>8. ASSUME NEW name, Asks(l).op = "get", Asks(l).key = Key(l, name) PROVE a.values = found(name)
  <2>1. Key(l, name) = <<i, name>>
    BY <1>2, OnPathKey
  <2> QED
    BY <1>2, <1>8, <2>1 DEF Values
<1>9. ASSUME l.step = "showMethod" PROVE Right(n, conf, conf, er, b)
  <2>1. Asks(l).key = Key(l, "method")
    BY <1>9 DEF Asks, Command
  <2>2. a.values = found("method") /\ n = Show(l, a.values, "showAddress")
    BY <1>3, <1>4, <1>8, <1>9, <2>1 DEF After
  <2> HIDE DEF n, found
  <2>3. l.shown = <<>> /\ Append(<<>>, found("method")) = <<found("method")>>
    BY <1>1, <1>9, OneMore DEF Puts
  <2>4. /\ n.request = r /\ n.step = "showAddress" /\ GetFields \subseteq DOMAIN n /\ OnPath(n)
        /\ n.shown = <<found("method")>>
    BY <1>7, <2>2, <2>3
  <2>5. Puts(n, conf, conf, er, b)
    BY <1>2, <2>4 DEF Puts, Loop, Rechecks, Shows, found, conf
  <2> QED
    BY <1>1, <2>4, <2>5 DEF Right
<1>10. ASSUME l.step = "showAddress" PROVE Right(n, conf, conf, er, b)
  <2>1. Asks(l).key = Key(l, "address")
    BY <1>10 DEF Asks, Command
  <2>2. a.values = found("address") /\ n = Show(l, a.values, "showGateway")
    BY <1>3, <1>4, <1>8, <1>10, <2>1 DEF After
  <2>3. l.shown = <<found("method")>>
    BY <1>1, <1>2, <1>10 DEF Puts
  <2> HIDE DEF n, found
  <2>4. Append(l.shown, found("address")) = <<found("method"), found("address")>>
    BY <2>3, OneMore
  <2>5. /\ n.request = r /\ n.step = "showGateway" /\ GetFields \subseteq DOMAIN n /\ OnPath(n)
        /\ n.shown = <<found("method"), found("address")>>
    BY <1>7, <2>2, <2>4
  <2>6. Puts(n, conf, conf, er, b)
    BY <1>2, <2>5 DEF Puts, Loop, Rechecks, Shows, found, conf
  <2> QED
    BY <1>1, <2>5, <2>6 DEF Right
<1>11. ASSUME l.step = "showGateway" PROVE Right(n, conf, conf, er, b)
  <2>1. Asks(l).key = Key(l, "gateway")
    BY <1>11 DEF Asks, Command
  <2>2. a.values = found("gateway") /\ n = Show(l, a.values, "showServers")
    BY <1>1, <1>3, <1>4, <1>8, <1>11, <2>1 DEF After
  <2>3. l.shown = <<found("method"), found("address")>>
    BY <1>1, <1>2, <1>11 DEF Puts
  <2> HIDE DEF n, found
  <2>4. Append(l.shown, found("gateway")) = <<found("method"), found("address"), found("gateway")>>
    BY <2>3, OneMore
  <2>5. /\ n.request = r /\ n.step = "showServers" /\ GetFields \subseteq DOMAIN n /\ OnPath(n)
        /\ n.shown = <<found("method"), found("address"), found("gateway")>>
    BY <1>7, <2>2, <2>4
  <2>6. Puts(n, conf, conf, er, b)
    BY <1>2, <2>5 DEF Puts, Loop, Rechecks, Shows, found, conf
  <2> QED
    BY <1>1, <2>5, <2>6 DEF Right
<1>12. ASSUME l.step = "showServers" PROVE Right(n, conf, conf, er, b)
  <2>1. a.values = servers
    BY <1>2, <1>4, <1>12 DEF Values
  <2> SUFFICES ASSUME a.values # <<>> PROVE Right(n, conf, conf, er, b)
    <3>1. CASE a.values = <<>>
      <4>1. n = Fail(l)
        BY <1>3, <1>12, <3>1 DEF After
      <4>2. n.request = r /\ n.step = "failed" /\ GetFields \subseteq DOMAIN n
        BY <1>1, <4>1, GotoAlike DEF Alike
      <4>3. WithServers(conf) = {}
        BY <2>1, <3>1, NoServers
      <4> HIDE DEF n
      <4>4. Puts(n, conf, conf, er, b)
        BY <1>2, <4>2, <4>3 DEF Puts, Loop, Rechecks, Shows, conf
      <4> QED
        BY <1>1, <4>2, <4>4 DEF Right
    <3> QED
      BY <3>1
  <2>2. n = Show(l, a.values, "done")
    BY <1>3, <1>12 DEF After
  <2>3. l.shown = <<found("method"), found("address"), found("gateway")>>
    BY <1>1, <1>2, <1>12 DEF Puts
  <2> DEFINE three == [k \in 1..3 |-> Found(conf, <<i, <<"method", "address", "gateway">>[k]>>)]
  <2>4. Shown(conf, r) = three \o <<servers>>
    BY <1>1 DEF Shown
  <2>5. three = <<found("method"), found("address"), found("gateway")>>
    OBVIOUS
  <2> HIDE DEF three, servers, found
  <2>6. Append(l.shown, servers) = three \o <<servers>>
    BY <2>3, <2>5
  <2> DEFINE s == Append(l.shown, a.values)
  <2>7. n = [l EXCEPT !.shown = s, !.step = "done"]
    BY <2>2 DEF Show
  <2> HIDE DEF s, n
  <2>8. n.request = r /\ n.step = "done" /\ GetFields \subseteq DOMAIN n /\ n.shown = s
    BY <1>1, <2>7 DEF GetFields
  <2>9. s = Shown(conf, r)
    BY <2>1, <2>4, <2>6 DEF s
  <2>10. Puts(n, conf, conf, er, b)
    BY <1>2, <2>8, <2>9 DEF Puts, Loop, Rechecks, Shows, conf
  <2> QED
    BY <1>1, <2>8, <2>10 DEF Right
<1> HIDE DEF n
<1>13. CASE l.step \in {"save"} \cup Rechecks
  BY <1>5, <1>6, <1>13 DEF n
<1>14. CASE l.step \in Shows
  <2>1. fl2 = conf /\ er2 = er
    BY <1>2, <1>5, <1>14 DEF Shows
  <2> QED
    BY <1>5, <1>9, <1>10, <1>11, <1>12, <1>14, <2>1 DEF Shows, n
<1> QED
  BY <1>13, <1>14

(* The page time.                                                            *)
LEMMA PostGoesOn ==
  ASSUME NEW l, NEW tr, NEW fl, NEW er, NEW fl2, NEW er2, NEW b, NEW a,
         l.request.kind = "POST", Right(l, tr, fl, er, b),
         l.step \in {"setNtp", "saveNtp", "showNtp"}, a.values = Values(tr, er, Asks(l)),
         Saved(Asks(l), tr, fl, er, fl2, er2)
  PROVE  Right(After(l, <<a>>), Changed(tr, Asks(l)), fl2, er2, b)
<1> DEFINE r == l.request
           n == After(l, <<a>>)
           conf == Asked(b, r).conf
<1>1. /\ GetFields \subseteq DOMAIN l /\ r \in Requests /\ IsConf(b) /\ r.kind = "POST"
      /\ Posts(l, tr, fl, er, b)
  BY DEF Right
<1>2. conf = [b EXCEPT ![Ntp] = r.value] /\ Ntp \in Keys
  BY <1>1, InterfaceKeys DEF Asked
<1>3. l.shown = <<>>
  BY <1>1 DEF Posts
<1>4. /\ l.step = "setNtp" => Asks(l).op = "set" /\ Asks(l).key = Ntp /\ Asks(l).value = r.value
      /\ l.step = "saveNtp" => Asks(l).op = "save"
      /\ l.step = "showNtp" => Asks(l).op = "get" /\ Asks(l).key = Ntp
  BY DEF Asks, Command
<1>5. /\ l.step = "setNtp" => tr = b /\ fl = b /\ er = {}
      /\ l.step = "saveNtp" => tr = conf /\ fl = b /\ er = {}
      /\ l.step = "showNtp" => tr = conf /\ fl = IF "ntp" \in er THEN b ELSE conf
  BY <1>1 DEF Posts
<1>8. l.step # "saveNtp" => fl2 = fl /\ er2 = er
  BY <1>4 DEF Saved
<1> HIDE DEF conf, n
<1>6. CASE l.step \in {"setNtp", "saveNtp"}
  <2>1. Changed(tr, Asks(l)) = conf
    BY <1>2, <1>4, <1>5, <1>6 DEF Changed
  <2>2. n = Goto(l, IF l.step = "setNtp" THEN "saveNtp" ELSE "services")
    BY <1>6 DEF After, AfterSetNtp, n
  <2>3. /\ n.request = r /\ n.step = (IF l.step = "setNtp" THEN "saveNtp" ELSE "services")
        /\ n.shown = <<>> /\ GetFields \subseteq DOMAIN n
    BY <1>1, <1>3, <2>2, GotoAlike DEF Alike
  <2>4. l.step = "saveNtp" => fl2 = IF "ntp" \in er2 THEN b ELSE conf
    <3> SUFFICES ASSUME l.step = "saveNtp" PROVE fl2 = IF "ntp" \in er2 THEN b ELSE conf
      OBVIOUS
    <3>1. fl2 = [k \in Keys |-> IF FileOf(k) \in er2 THEN b[k] ELSE conf[k]]
      BY <1>4, <1>5 DEF Saved
    <3>2. IsConf(conf) /\ \A k \in Keys : k # Ntp => conf[k] = b[k]
      BY <1>1, <1>2, ConfFacts DEF IsConf
    <3>3. \A k \in Keys : fl2[k] = IF "ntp" \in er2 THEN b[k] ELSE conf[k]
      BY <3>1, <3>2 DEF FileOf
    <3>4. IsConf(fl2)
      BY <3>1 DEF IsConf
    <3> QED
      BY <1>1, <3>2, <3>3, <3>4 DEF IsConf
  <2>5. Posts(n, conf, fl2, er2, b)
    BY <1>5, <1>6, <1>8, <2>3, <2>4 DEF Posts, conf
  <2>6. Right(n, conf, fl2, er2, b)
    BY <1>1, <2>3, <2>5 DEF Right
  <2> QED
    BY <2>1, <2>6 DEF n
<1>7. CASE l.step = "showNtp"
  <2>1. Changed(tr, Asks(l)) = conf /\ a.values = Found(conf, Ntp)
    BY <1>4, <1>5, <1>7 DEF Changed, Values
  <2> DEFINE s == Append(l.shown, a.values)
  <2>2. n = [l EXCEPT !.shown = s, !.step = "done"]
    BY <1>7, OneAnswer DEF After, Show, n
  <2>3. s = Shown(conf, r)
    <3> DEFINE v == Found(conf, Ntp)
    <3>1. Shown(conf, r) = <<v>>
      BY <1>1 DEF Shown
    <3> HIDE DEF v
    <3>2. Append(<<>>, v) = <<v>>
      BY OneMore
    <3> QED
      BY <1>3, <2>1, <3>1, <3>2 DEF v
  <2> HIDE DEF s
  <2>4. n.request = r /\ n.step = "done" /\ n.shown = s /\ GetFields \subseteq DOMAIN n
    BY <1>1, <2>2 DEF GetFields
  <2>5. Posts(n, conf, fl2, er2, b)
    BY <1>5, <1>7, <1>8, <2>3, <2>4 DEF Posts, conf
  <2>6. Right(n, conf, fl2, er2, b)
    BY <1>1, <2>4, <2>5 DEF Right
  <2> QED
    BY <2>1, <2>6 DEF n
<1> QED
  BY <1>6, <1>7

(* The services of the page time change no setting.                          *)
LEMMA ServicesGoOn ==
  ASSUME NEW l, NEW tr, NEW fl, NEW er, NEW b, l.request.kind = "POST", Right(l, tr, fl, er, b),
         l.step = "services", NEW step \in {"showNtp", "failed"}
  PROVE  Right(Goto(l, step), tr, fl, er, b)
<1> DEFINE n == Goto(l, step)
<1>1. GetFields \subseteq DOMAIN l /\ l.request \in Requests /\ IsConf(b) /\ Posts(l, tr, fl, er, b)
  BY DEF Right
<1>2. n.request = l.request /\ n.step = step /\ n.shown = l.shown /\ GetFields \subseteq DOMAIN n
  BY <1>1, GotoAlike DEF Alike
<1> HIDE DEF n
<1>3. Posts(n, tr, fl, er, b)
  BY <1>1, <1>2 DEF Posts
<1>4. Right(n, tr, fl, er, b)
  BY <1>1, <1>2, <1>3 DEF Right
<1> QED
  BY <1>4 DEF n

(* A request begins right where tree and files agree.                        *)
LEMMA BeginRight ==
  ASSUME NEW r \in Requests, NEW b, IsConf(b)
  PROVE  Right(Begin(r), b, b, {}, b)
<1> DEFINE l == Begin(r)
<1>1. /\ l.request = r /\ l.shown = <<>> /\ l.member = 0 /\ GetFields \subseteq DOMAIN l
      /\ l.step = IF r.kind = "POST" THEN "setNtp" ELSE "checkInterfaces"
  BY DEF Begin, GetFields
<1> HIDE DEF l
<1>2. r.kind = "PUT" => Puts(l, b, b, {}, b)
  BY <1>1 DEF Puts, Loop, Rechecks, Shows
<1>3. r.kind = "POST" => Posts(l, b, b, {}, b)
  BY <1>1 DEF Posts
<1>4. Right(l, b, b, {}, b)
  BY <1>1, <1>2, <1>3 DEF Right
<1> QED
  BY <1>4 DEF l

(* Of a request that changes settings, one command and its answer.           *)
LEMMA ChangeGoesOn ==
  ASSUME NEW l, NEW tr, NEW fl, NEW er, NEW fl2, NEW er2, NEW b, NEW a,
         Placed(l), l.step \notin Finished \cup {"services"},
         l.request.kind # "GET", Right(l, tr, fl, er, b),
         a.values = Values(tr, er, Asks(l)), a.paths = Paths(tr, Asks(l)),
         Saved(Asks(l), tr, fl, er, fl2, er2)
  PROVE  Right(After(l, <<a>>), Changed(tr, Asks(l)), fl2, er2, b)
<1>1. CASE l.request.kind = "PUT"
  <2>1. l.step \in Loop \cup {"checkInterfaces", "checkResolv", "find", "getFirst", "save"}
                   \cup Rechecks \cup Shows
    BY <1>1 DEF Placed, StepsOf, BeforeSave, AfterSave, Finished, Rechecks, Shows
  <2>2. CASE l.step \in Loop
    <3>1. Puts(l, tr, fl, er, b)
      BY <1>1 DEF Right
    <3>2. l.shown = <<>> /\ OnPath(l) /\ fl = b /\ er = {} /\ Handling(l, tr, b)
      BY <2>2, <3>1 DEF Puts, Shows, Loop
    <3>3. Answered(l, tr, b, a)
      BY <1>1, <3>2 DEF Answered, Putting, Right
    <3> QED
      BY <2>2, <3>2, <3>3, LoopGoesOn DEF Saved
  <2>3. CASE l.step \in {"checkInterfaces", "checkResolv", "find", "getFirst"}
    BY <1>1, <2>3, BeginGoesOn DEF Saved
  <2>4. CASE l.step \in {"save"} \cup Rechecks \cup Shows
    BY <1>1, <2>4, EndGoesOn
  <2> QED
    BY <2>1, <2>2, <2>3, <2>4
<1>2. CASE l.request.kind = "POST"
  <2>1. l.step \in {"setNtp", "saveNtp", "showNtp"}
    BY <1>2 DEF Placed, StepsOf, Finished
  <2> QED
    BY <1>2, <2>1, PostGoesOn
<1>3. l.request.kind \in {"PUT", "POST"}
  BY DEF Placed, Finished
<1> QED
  BY <1>1, <1>2, <1>3

------------------------------------------------------------------------------
(* Who changes settings undisturbed                                          *)

(* The pipes of the privileged process: the command of the thread that has   *)
(* the mutex, or its answer.                                                 *)
ChangerPipe ==
  LET h == holder["sudo"] IN
  IF h = "" THEN queue["sudo"] = <<>> /\ printed["sudo"] = <<>>
  ELSE /\ h \in Threads /\ Sends(h) /\ Process(h) = "sudo"
       /\ \/ queue["sudo"] = <<CommandOf(h)>> /\ printed["sudo"] = <<>>
          \/ queue["sudo"] = <<>> /\ printed["sudo"] # <<>>

Undisturbed(t) == base[t] # Disturbed /\ at[t].request.kind # "GET"
Alone(t) == \A u \in Threads \ {t} : Process(u) = "sudo" => ~Busy(u)

(* Tree and files are as the request of t needs them before its next command; *)
(* or they were, and the command has been executed and its answer not read.   *)
Answers(l, tr, er, t) ==
  [by |-> t, values |-> Values(tr, er, Asks(l)), paths |-> Paths(tr, Asks(l))]
OnCourse(t) ==
  LET l == at[t] IN
  IF printed["sudo"] = <<>> THEN Right(l, tree["sudo"], file, errors, base[t])
  ELSE \E tr, fl, er :
         /\ Right(l, tr, fl, er, base[t]) /\ tree["sudo"] = Changed(tr, Asks(l))
         /\ Saved(Asks(l), tr, fl, er, file, errors)
         /\ printed["sudo"] = <<Answers(l, tr, er, t)>>

AloneInv ==
  /\ IsConf(file) /\ IsConf(tree["sudo"])
  /\ Quiet => ChangerPipe
  /\ \A t \in Threads : Undisturbed(t) => Alone(t) /\ OnCourse(t)

(* Whoever is undisturbed is the one the privileged process works for.       *)
LEMMA AloneFacts ==
  ASSUME UnsavedInv, ReadersInv, AloneInv, NEW t \in Threads, Undisturbed(t)
  PROVE  /\ Quiet /\ Process(t) = "sudo" /\ at[t].step # "idle" /\ Placed(at[t])
         /\ queue["sudo"] # <<>> \/ printed["sudo"] # <<>> => holder["sudo"] = t
         /\ holder["sudo"] # "" => holder["sudo"] = t /\ Sends(t)
<1>1. Quiet /\ Process(t) = "sudo" /\ at[t].step # "idle" /\ Placed(at[t])
  BY DEF ReadersInv, Undisturbed, Process, UnsavedInv, PlaceInv
<1>2. ChangerPipe /\ Alone(t)
  BY <1>1 DEF AloneInv
<1>3. holder["sudo"] # "" => holder["sudo"] = t /\ Sends(t)
  BY <1>2 DEF ChangerPipe, Alone, Sends
<1>4. queue["sudo"] # <<>> \/ printed["sudo"] # <<>> => holder["sudo"] = t
  BY <1>2, <1>3 DEF ChangerPipe
<1> QED
  BY <1>1, <1>3, <1>4

(* A step that leaves the privileged process and whoever changes settings.   *)
LEMMA AloneLeft ==
  ASSUME AloneInv, Quiet' => Quiet,
         UNCHANGED <<file, errors>>, tree'["sudo"] = tree["sudo"], queue'["sudo"] = queue["sudo"],
         printed'["sudo"] = printed["sudo"], holder'["sudo"] = holder["sudo"],
         \A t \in Threads : at'[t] = at[t] \/ (Process(t)' # "sudo" /\ ~ Undisturbed(t)'
                                              /\ t # holder["sudo"]),
         \A t \in Threads : at'[t] = at[t] => base'[t] \in {Disturbed, base[t]}
  PROVE  AloneInv'
<1>1. IsConf(file)' /\ IsConf(tree["sudo"])'
  BY DEF AloneInv
<1>2. Quiet' => ChangerPipe'
  <2> SUFFICES ASSUME Quiet' PROVE ChangerPipe'
    OBVIOUS
  <2>1. ChangerPipe
    BY DEF AloneInv
  <2> DEFINE h == holder["sudo"]
  <2>2. CASE h = ""
    BY <2>1, <2>2 DEF ChangerPipe
  <2>3. CASE h # ""
    <3>1. h \in Threads /\ Sends(h) /\ Process(h) = "sudo"
      BY <2>1, <2>3 DEF ChangerPipe
    <3>2. at'[h] = at[h]
      BY <3>1
    <3> QED
      BY <2>1, <2>3, <3>1, <3>2 DEF ChangerPipe, Sends, Busy, Process, CommandOf
  <2> QED
    BY <2>2, <2>3
<1>3. ASSUME NEW t \in Threads, Undisturbed(t)' PROVE Alone(t)' /\ OnCourse(t)'
  <2>1. at'[t] = at[t] /\ base'[t] = base[t] /\ Undisturbed(t)
    BY <1>3 DEF Undisturbed
  <2>2. Alone(t) /\ OnCourse(t)
    BY <2>1 DEF AloneInv
  <2>3. Alone(t)'
    <3> SUFFICES ASSUME NEW u \in Threads \ {t}, Process(u)' = "sudo" PROVE ~Busy(u)'
      BY DEF Alone
    <3>1. at'[u] = at[u]
      OBVIOUS
    <3> QED
      BY <2>2, <3>1 DEF Alone, Process, Busy
  <2>4. OnCourse(t)'
    BY <2>1, <2>2 DEF OnCourse
  <2> QED
    BY <2>3, <2>4
<1> QED
  BY <1>1, <1>2, <1>3 DEF AloneInv

(* Who writes finds the pipes empty.                                         *)
LEMMA WriteAlone ==
  ASSUME UnsavedInv, ReadersInv, AloneInv, NEW t \in Threads, Write(t)
  PROVE  AloneInv'
<1> DEFINE p == Process(t)
<1>1. /\ Sends(t) /\ p \in Processes /\ holder[p] = "" /\ holder' = [holder EXCEPT ![p] = t]
      /\ queue' = IF p \in alive THEN [queue EXCEPT ![p] = Append(@, CommandOf(t))] ELSE queue
      /\ UNCHANGED <<file, errors, tree, alive, printed, at, base, slow>>
  BY ProcessOf DEF Write, Free
<1> HIDE DEF p
<1>2. /\ queue = [q \in Processes |-> queue[q]] /\ holder = [q \in Processes |-> holder[q]]
  BY DEF UnsavedInv, QueueInv
<1>3. Quiet' <=> Quiet
  BY <1>1 DEF Quiet
<1>4. CASE p = "sudo"
  <2>1. \A u \in Threads : Undisturbed(u)' => Alone(u)' /\ OnCourse(u)'
    BY <1>1 DEF AloneInv, Undisturbed, Alone, OnCourse, Process, Busy
  <2>2. ASSUME Quiet PROVE ChangerPipe'
    <3>1. queue["sudo"] = <<>> /\ printed["sudo"] = <<>>
      BY <1>1, <1>4, <2>2 DEF AloneInv, ChangerPipe
    <3>2. holder'["sudo"] = t /\ t # ""
      BY <1>1, <1>2, <1>4, AugToolAssumption
    <3>3. queue'["sudo"] = <<CommandOf(t)>>
      BY <1>1, <1>2, <1>4, <2>2, <3>1, OneEntry DEF Quiet
    <3>4. Sends(t)' /\ Process(t)' = "sudo" /\ CommandOf(t)' = CommandOf(t)
      BY <1>1, <1>4 DEF p, Sends, Busy, Process, CommandOf
    <3> QED
      BY <1>1, <3>1, <3>2, <3>3, <3>4 DEF ChangerPipe
  <2> QED
    BY <1>1, <1>3, <2>1, <2>2 DEF AloneInv
<1>5. CASE p # "sudo"
  <2>1. queue'["sudo"] = queue["sudo"] /\ holder'["sudo"] = holder["sudo"]
    BY <1>1, <1>2, <1>5 DEF Processes
  <2> QED
    BY <1>1, <1>3, <2>1, AloneLeft
<1> QED
  BY <1>4, <1>5

(* What is executed is the command of who is undisturbed, if anybody is.     *)
LEMMA ExecuteAlone ==
  ASSUME UnsavedInv, ReadersInv, AloneInv, NEW p \in Processes, Execute(p)
  PROVE  AloneInv'
<1> DEFINE c == Head(queue[p]).does
           answer == [by |-> Head(queue[p]).by, values |-> Values(tree[p], Errors(p), c),
                      paths |-> Paths(tree[p], c)]
<1>1. /\ queue[p] # <<>> /\ queue' = [queue EXCEPT ![p] = Tail(@)]
      /\ tree' = [tree EXCEPT ![p] = Changed(@, c)]
      /\ IF c.op = "save" /\ p = "sudo" THEN Save ELSE UNCHANGED <<file, errors>>
      /\ printed' = [printed EXCEPT ![p] = Append(@, answer)]
      /\ UNCHANGED <<alive, holder, at, base, slow>>
  BY DEF Execute
<1>2. /\ queue = [q \in Processes |-> queue[q]] /\ tree = [q \in Processes |-> tree[q]]
      /\ printed = [q \in Processes |-> printed[q]]
  BY DEF UnsavedInv, QueueInv, ReadersInv
<1>3. Quiet' <=> Quiet
  BY <1>1 DEF Quiet
<1>4. CASE p = "sudo"
  <2> DEFINE tr == tree["sudo"]
             h == holder["sudo"]
  <2>1. tree'["sudo"] = Changed(tr, c) /\ Saved(c, tr, file, errors, file', errors')
    <3>1. IF c.op = "save" THEN Save ELSE UNCHANGED <<file, errors>>
      BY <1>1, <1>4
    <3> HIDE DEF c
    <3> QED
      BY <1>1, <1>2, <1>4, <3>1, SaveFacts DEF Saved, Unsaved
  <2>2. IsConf(file)' /\ IsConf(tree["sudo"])'
    <3>1. IsConf(tr) /\ IsConf(file)
      BY DEF AloneInv
    <3>2. IsConf(Changed(tr, c))
      BY <3>1, ConfFacts
    <3>3. IsConf(file')
      BY <2>1, <3>1 DEF Saved, IsConf
    <3> QED
      BY <2>1, <3>2, <3>3
  <2>3. ASSUME Quiet
        PROVE  /\ ChangerPipe' /\ h \in Threads /\ h # "" /\ printed["sudo"] = <<>>
               /\ c = Asks(at[h]) /\ printed'["sudo"] = <<Answers(at[h], tr, errors, h)>>
    <3>1. ChangerPipe
      BY <2>3 DEF AloneInv
    <3>2. /\ h # "" /\ h \in Threads /\ Sends(h) /\ Process(h) = "sudo"
          /\ queue["sudo"] = <<CommandOf(h)>> /\ printed["sudo"] = <<>>
      BY <1>1, <1>4, <3>1 DEF ChangerPipe
    <3>3. Head(queue[p]) = CommandOf(h) /\ Tail(queue[p]) = <<>>
      BY <1>4, <3>2, OneEntry
    <3>4. c = Asks(at[h]) /\ Head(queue[p]).by = h
      BY <3>3 DEF CommandOf
    <3>5. answer = Answers(at[h], tr, errors, h)
      BY <1>4, <3>4 DEF Answers, Errors
    <3> HIDE DEF c, answer
    <3>6. queue'["sudo"] = <<>> /\ printed'["sudo"] = <<answer>>
      BY <1>1, <1>2, <1>4, <3>2, <3>3, OneEntry
    <3>7. Sends(h)' /\ Process(h)' = "sudo" /\ <<answer>> # <<>>
      BY <1>1, <3>2, OneEntry DEF Sends, Busy, Process
    <3>8. ChangerPipe'
      BY <1>1, <3>2, <3>6, <3>7 DEF ChangerPipe
    <3> QED
      BY <3>2, <3>4, <3>5, <3>6, <3>8
  <2> HIDE DEF c, answer
  <2>4. ASSUME NEW t \in Threads, Undisturbed(t)' PROVE Alone(t)' /\ OnCourse(t)'
    <3>1. Undisturbed(t)
      BY <1>1, <2>4 DEF Undisturbed
    <3>2. Quiet /\ h = t
      BY <1>1, <1>4, <3>1, AloneFacts
    <3>3. Alone(t)'
      BY <1>1, <3>1 DEF AloneInv, Alone, Process, Busy
    <3>4. Right(at[t], tr, file, errors, base[t])
      BY <2>3, <3>1, <3>2 DEF AloneInv, OnCourse
    <3>5. printed'["sudo"] = <<Answers(at[t], tr, errors, t)>> /\ c = Asks(at[t])
      BY <2>3, <3>2
    <3>6. printed'["sudo"] # <<>>
      BY <3>5, OneEntry
    <3>7. OnCourse(t)'
      BY <1>1, <2>1, <3>4, <3>5, <3>6 DEF OnCourse, Answers
    <3> QED
      BY <3>3, <3>7
  <2> QED
    BY <1>3, <2>2, <2>3, <2>4 DEF AloneInv
<1>5. CASE p # "sudo"
  <2>1. /\ queue'["sudo"] = queue["sudo"] /\ tree'["sudo"] = tree["sudo"]
        /\ printed'["sudo"] = printed["sudo"] /\ UNCHANGED <<file, errors>>
    BY <1>1, <1>2, <1>5 DEF Processes
  <2> QED
    BY <1>1, <1>3, <2>1, AloneLeft
<1> QED
  BY <1>4, <1>5

(* Once a process has died nobody is undisturbed.                            *)
LEMMA CrashAlone ==
  ASSUME UnsavedInv, ReadersInv, AloneInv, NEW p \in Processes, Crash(p)
  PROVE  AloneInv'
<1>1. /\ p \in alive /\ alive' = alive \ {p} /\ base' = [t \in Threads |-> Disturbed]
      /\ UNCHANGED <<file, errors, tree>>
  BY DEF Crash
<1>2. ~ Quiet' /\ \A t \in Threads : ~ Undisturbed(t)'
  BY <1>1 DEF Quiet, Undisturbed
<1> QED
  BY <1>1, <1>2 DEF AloneInv

(* The answer is its own, to the one command there was.                      *)
LEMMA ReadAlone ==
  ASSUME UnsavedInv, ReadersInv, AloneInv, NEW t \in Threads, Read(t)
  PROVE  AloneInv'
<1> DEFINE p == Process(t)
           l == at[t]
           answers == IF p \in alive THEN printed[p] ELSE <<>>
           n == After(l, answers)
<1>1. /\ Sends(t) /\ Placed(l) /\ p \in Processes
      /\ holder[p] = t /\ holder' = [holder EXCEPT ![p] = ""]
      /\ printed' = [printed EXCEPT ![p] = <<>>]
      /\ at' = [at EXCEPT ![t] = n]
      /\ UNCHANGED <<file, errors, tree, alive, queue>>
  BY ProcessOf DEF Read, Waiting, Released, UnsavedInv, PlaceInv
<1>2. /\ slow' = IF queue[p] # <<>> THEN slow \cup {p} ELSE slow
      /\ base' = IF queue[p] # <<>> THEN [u \in Threads |-> Disturbed] ELSE base
  BY DEF Read
<1>3. p = "nopriv" <=> l.request.kind = "GET"
  BY <1>1 DEF Process, Sends, Busy, Finished
<1>4. Placed(n) /\ n.request = l.request /\ n.step # "idle"
  BY <1>1, AfterOnto DEF Sends, Busy
<1>5. l.step \notin Finished \cup {"services"}
  BY <1>1 DEF Sends, Busy
<1>6. answers = IF p \in alive THEN printed[p] ELSE <<>>
  OBVIOUS
<1>7. n = After(l, answers)
  OBVIOUS
<1> HIDE DEF p, answers, n
<1>8. /\ at'[t] = n /\ \A u \in Threads \ {t} : at'[u] = at[u]
  BY <1>1 DEF UnsavedInv, PlaceInv
<1>9. holder = [q \in Processes |-> holder[q]] /\ printed = [q \in Processes |-> printed[q]]
  BY DEF ReadersInv, UnsavedInv, QueueInv
<1>10. CASE queue[p] # <<>>
  <2>1. ~ Quiet' /\ \A u \in Threads : ~ Undisturbed(u)'
    BY <1>1, <1>2, <1>10 DEF Quiet, Undisturbed
  <2> QED
    BY <1>1, <2>1 DEF AloneInv
<1>11. CASE queue[p] = <<>>
  <2>1. UNCHANGED <<slow, base>> /\ (Quiet' <=> Quiet)
    BY <1>1, <1>2, <1>11 DEF Quiet
  <2>2. CASE p = "sudo"
    <3>1. holder'["sudo"] = "" /\ queue'["sudo"] = <<>> /\ printed'["sudo"] = <<>>
      BY <1>1, <1>9, <1>11, <2>2
    <3>2. ChangerPipe'
      BY <3>1 DEF ChangerPipe
    <3>3. ASSUME NEW u \in Threads, Undisturbed(u)' PROVE Alone(u)' /\ OnCourse(u)'
      <4>1. base[u] # Disturbed /\ at'[u].request.kind # "GET"
        BY <2>1, <3>3 DEF Undisturbed
      <4>2. Undisturbed(u)
        <5>1. CASE u = t
          BY <1>4, <1>8, <4>1, <5>1 DEF Undisturbed
        <5>2. CASE u # t
          BY <1>8, <4>1, <5>2 DEF Undisturbed
        <5> QED
          BY <5>1, <5>2
      <4>3. holder["sudo"] # ""
        BY <1>1, <2>2, AugToolAssumption
      <4>4. u = t /\ Quiet
        BY <1>1, <2>2, <4>2, <4>3, AloneFacts
      <4>5. Alone(t)'
        BY <1>8, <4>2, <4>4 DEF AloneInv, Alone, Process, Busy
      <4>6. printed["sudo"] # <<>>
        <5>1. ChangerPipe
          BY <4>4 DEF AloneInv
        <5>2. <<CommandOf(t)>> # <<>>
          BY OneEntry
        <5> QED
          BY <1>1, <1>11, <2>2, <4>3, <5>1, <5>2 DEF ChangerPipe
      <4>7. OnCourse(t)
        BY <4>2, <4>4 DEF AloneInv
      <4>8. PICK tr, fl, er :
              /\ Right(l, tr, fl, er, base[t]) /\ tree["sudo"] = Changed(tr, Asks(l))
              /\ Saved(Asks(l), tr, fl, er, file, errors)
              /\ printed["sudo"] = <<Answers(l, tr, er, t)>>
        BY <4>6, <4>7 DEF OnCourse
      <4> DEFINE a == Answers(l, tr, er, t)
      <4>9. answers = <<a>>
        BY <1>1, <1>6, <2>2, <4>4, <4>8 DEF Quiet
      <4>10. a.values = Values(tr, er, Asks(l)) /\ a.paths = Paths(tr, Asks(l))
        BY DEF Answers
      <4>11. l.request.kind # "GET"
        BY <1>3, <2>2
      <4> HIDE DEF a
      <4>12. Right(After(l, <<a>>), Changed(tr, Asks(l)), file, errors, base[t])
        <5> HIDE DEF l
        <5> QED
          BY <1>1, <1>5, <4>8, <4>10, <4>11, ChangeGoesOn
      <4>13. Right(n, tree["sudo"], file, errors, base[t])
        BY <1>7, <4>8, <4>9, <4>12
      <4>14. OnCourse(t)'
        BY <1>1, <1>8, <2>1, <3>1, <4>13 DEF OnCourse
      <4> QED
        BY <4>4, <4>5, <4>14
    <3> QED
      BY <1>1, <3>2, <3>3 DEF AloneInv
  <2>3. CASE p # "sudo"
    <3>1. holder'["sudo"] = holder["sudo"] /\ printed'["sudo"] = printed["sudo"]
      BY <1>1, <1>9, <2>3 DEF Processes
    <3>2. l.request.kind = "GET"
      BY <1>1, <1>3, <2>3 DEF Processes
    <3>3. Process(t)' # "sudo" /\ ~ Undisturbed(t)'
      BY <1>4, <1>8, <3>2 DEF Process, Undisturbed
    <3>4. Quiet => t # holder["sudo"]
      <4>1. Process(t) # "sudo" /\ t # ""
        BY <2>3, AugToolAssumption DEF p
      <4> QED
        BY <4>1 DEF AloneInv, ChangerPipe
    <3>5. CASE Quiet
      BY <1>1, <1>8, <2>1, <3>1, <3>3, <3>4, <3>5, AloneLeft
    <3>6. CASE ~ Quiet
      <4>1. \A u \in Threads : base'[u] = Disturbed
        BY <2>1, <3>6 DEF ReadersInv
      <4> QED
        BY <1>1, <2>1, <3>6, <4>1 DEF AloneInv, Undisturbed
    <3> QED
      BY <3>5, <3>6
  <2> QED
    BY <2>2, <2>3
<1> QED
  BY <1>10, <1>11

(* The services run between two commands.                                    *)
LEMMA ServicesAlone ==
  ASSUME UnsavedInv, ReadersInv, AloneInv, NEW t \in Threads, Services(t)
  PROVE  AloneInv'
<1>1. PICK step \in {"showNtp", "failed"} : at' = [at EXCEPT ![t] = Goto(@, step)]
  BY DEF Services
<1>2. /\ at[t].step = "services"
      /\ UNCHANGED <<file, errors, tree, alive, queue, printed, holder, base, slow>>
      /\ Placed(at[t])
  BY DEF Services, UnsavedInv, PlaceInv
<1>3. /\ {"step", "request"} \subseteq DOMAIN at[t] /\ at[t].request.kind = "POST"
  BY <1>2 DEF Placed, StepsOf, BeforeSave, AfterSave, Loop
<1>4. Onto(Goto(at[t], step), at[t], {step})
  BY <1>3, GotoOnto
<1>5. at'[t] = Goto(at[t], step) /\ \A u \in Threads \ {t} : at'[u] = at[u]
  BY <1>1 DEF UnsavedInv, PlaceInv
<1>6. ~ Sends(t) /\ Busy(t) /\ Process(t) = "sudo" /\ at'[t].request = at[t].request
  BY <1>2, <1>3, <1>4, <1>5 DEF Sends, Busy, Finished, Process, Onto
<1>7. Quiet' <=> Quiet
  BY <1>2 DEF Quiet
<1>8. ASSUME Quiet PROVE ChangerPipe'
  <2> DEFINE h == holder["sudo"]
  <2>1. ChangerPipe
    BY <1>8 DEF AloneInv
  <2>2. CASE h = ""
    BY <1>2, <2>1, <2>2 DEF ChangerPipe
  <2>3. CASE h # ""
    <3>1. h \in Threads /\ Sends(h) /\ Process(h) = "sudo" /\ h # t
      BY <1>6, <2>1, <2>3 DEF ChangerPipe
    <3>2. at'[h] = at[h]
      BY <1>5, <3>1
    <3> QED
      BY <1>2, <2>1, <2>3, <3>1, <3>2 DEF ChangerPipe, Sends, Busy, Process, CommandOf
  <2> QED
    BY <2>2, <2>3
<1>9. ASSUME NEW u \in Threads, Undisturbed(u)' PROVE Alone(u)' /\ OnCourse(u)'
  <2>1. Undisturbed(u)
    BY <1>2, <1>5, <1>6, <1>9 DEF Undisturbed
  <2>2. Alone(u)
    BY <2>1 DEF AloneInv
  <2>3. u = t
    BY <1>6, <2>2 DEF Alone
  <2>4. Alone(t)'
    BY <1>5, <2>2, <2>3 DEF Alone, Process, Busy
  <2>5. printed["sudo"] = <<>>
    BY <1>6, <2>1, <2>3, AugToolAssumption, AloneFacts
  <2>6. Right(at[t], tree["sudo"], file, errors, base[t])
    BY <2>1, <2>3, <2>5 DEF AloneInv, OnCourse
  <2>7. Right(Goto(at[t], step), tree["sudo"], file, errors, base[t])
    BY <1>2, <1>3, <2>6, ServicesGoOn
  <2>8. OnCourse(t)'
    BY <1>2, <1>5, <2>5, <2>7 DEF OnCourse
  <2> QED
    BY <2>3, <2>4, <2>8
<1> QED
  BY <1>2, <1>7, <1>8, <1>9 DEF AloneInv

(* Who begins alone finds tree and files agreeing; who does not, disturbs.   *)
LEMMA TakeAlone ==
  ASSUME UnsavedInv, ReadersInv, AloneInv, NEW t \in Threads, NEW r \in Requests, Take(t, r)
  PROVE  AloneInv'
<1>1. /\ ~Busy(t) /\ at' = [at EXCEPT ![t] = Begin(r)]
      /\ UNCHANGED <<file, errors, tree, alive, queue, printed, holder, slow>>
  BY DEF Take
<1>2. /\ base'[t] # Disturbed /\ r.kind # "GET" =>
           Quiet /\ Changing = {} /\ tree["sudo"] = file /\ errors = {} /\ base'[t] = file
      /\ \A u \in Threads \ {t} : base'[u] # Disturbed =>
           base'[u] = base[u] /\ ~(r.kind # "GET" /\ Process(u) = "sudo")
  BY DEF Take, Quiet
<1>3. at'[t] = Begin(r) /\ \A u \in Threads \ {t} : at'[u] = at[u]
  BY <1>1 DEF UnsavedInv, PlaceInv
<1>4. Begin(r).request = r /\ Begin(r).step # "idle"
  BY DEF Begin
<1>5. Quiet' <=> Quiet
  BY <1>1 DEF Quiet
<1>6. ASSUME Quiet PROVE ChangerPipe'
  <2> DEFINE h == holder["sudo"]
  <2>1. ChangerPipe
    BY <1>6 DEF AloneInv
  <2>2. CASE h = ""
    BY <1>1, <2>1, <2>2 DEF ChangerPipe
  <2>3. CASE h # ""
    <3>1. h \in Threads /\ Sends(h) /\ Process(h) = "sudo" /\ h # t
      BY <1>1, <2>1, <2>3 DEF ChangerPipe, Sends
    <3>2. at'[h] = at[h]
      BY <1>3, <3>1
    <3> QED
      BY <1>1, <2>1, <2>3, <3>1, <3>2 DEF ChangerPipe, Sends, Busy, Process, CommandOf
  <2> QED
    BY <2>2, <2>3
<1>7. ASSUME NEW u \in Threads, Undisturbed(u)' PROVE Alone(u)' /\ OnCourse(u)'
  <2>1. CASE u = t
    <3>1. base'[t] # Disturbed /\ r.kind # "GET"
      BY <1>3, <1>4, <1>7, <2>1 DEF Undisturbed
    <3>2. Quiet /\ Changing = {} /\ tree["sudo"] = file /\ errors = {} /\ base'[t] = file
      BY <1>2, <3>1
    <3>3. Alone(t)'
      BY <1>3, <3>2 DEF Alone, Changing, Process, Busy
    <3>4. printed["sudo"] = <<>>
      BY <3>2 DEF AloneInv, ChangerPipe, Changing, Sends
    <3>5. Right(Begin(r), file, file, {}, file)
      BY BeginRight DEF AloneInv
    <3>6. OnCourse(t)'
      BY <1>1, <1>3, <3>2, <3>4, <3>5 DEF OnCourse
    <3> QED
      BY <2>1, <3>3, <3>6
  <2>2. CASE u # t
    <3>1. at'[u] = at[u] /\ base'[u] = base[u] /\ Undisturbed(u)
      BY <1>2, <1>3, <1>7, <2>2 DEF Undisturbed
    <3>2. Process(u) = "sudo"
      BY <3>1, AloneFacts
    <3>3. r.kind = "GET"
      BY <1>2, <1>7, <2>2, <3>2 DEF Undisturbed
    <3>4. Process(t)' # "sudo"
      BY <1>3, <1>4, <3>3 DEF Process
    <3>5. Alone(u) /\ OnCourse(u)
      BY <3>1 DEF AloneInv
    <3>6. Alone(u)'
      <4> SUFFICES ASSUME NEW w \in Threads \ {u}, Process(w)' = "sudo" PROVE ~Busy(w)'
        BY DEF Alone
      <4>1. at'[w] = at[w]
        BY <1>3, <3>4
      <4> QED
        BY <3>5, <4>1 DEF Alone, Process, Busy
    <3>7. OnCourse(u)'
      BY <1>1, <3>1, <3>5 DEF OnCourse
    <3> QED
      BY <3>6, <3>7
  <2> QED
    BY <2>1, <2>2
<1> QED
  BY <1>1, <1>5, <1>6, <1>7 DEF AloneInv

LEMMA StepAlone == UnsavedInv /\ ReadersInv /\ AloneInv /\ [Next]_vars => AloneInv'
<1> SUFFICES ASSUME UnsavedInv, ReadersInv, AloneInv, [Next]_vars PROVE AloneInv'
  OBVIOUS
<1>1. ASSUME NEW p \in Processes, Execute(p) PROVE AloneInv'
  BY <1>1, ExecuteAlone
<1>2. ASSUME NEW p \in Processes, Crash(p) PROVE AloneInv'
  BY <1>2, CrashAlone
<1>3. ASSUME NEW t \in Threads, Write(t) PROVE AloneInv'
  BY <1>3, WriteAlone
<1>4. ASSUME NEW t \in Threads, Read(t) PROVE AloneInv'
  BY <1>4, ReadAlone
<1>5. ASSUME NEW t \in Threads, Services(t) PROVE AloneInv'
  BY <1>5, ServicesAlone
<1>6. ASSUME NEW t \in Threads, NEW r \in Requests, Take(t, r) PROVE AloneInv'
  BY <1>6, TakeAlone
<1>7. CASE UNCHANGED vars
  <2>1. UNCHANGED <<file, errors, tree, alive, queue, printed, holder, at, base, slow>>
    BY <1>7 DEF vars
  <2>2. Quiet' <=> Quiet
    BY <2>1 DEF Quiet
  <2> QED
    BY <2>1, <2>2, AloneLeft
<1> QED
  BY <1>1, <1>2, <1>3, <1>4, <1>5, <1>6, <1>7 DEF Next, Work

(* Whoever changes settings without being disturbed gets what was asked for, *)
(* or changes nothing, and is told so: from the first command on, tree and   *)
(* files are where the members handled so far have brought them.  After the  *)
(* save this holds only as far as the page looks: netcfg asks whether the    *)
(* file was stored, and fails for want of nameservers; time does not ask.    *)
THEOREM DoneAsAsked == Spec => []AloneAsAsked
<1>1. Init => AloneInv
  <2> SUFFICES ASSUME Init PROVE AloneInv
    OBVIOUS
  <2>1. \A t \in Threads : base[t] = Disturbed
    BY DEF Init
  <2>2. /\ tree["sudo"] = Start /\ file = Start /\ queue["sudo"] = <<>> /\ printed["sudo"] = <<>>
        /\ holder["sudo"] = ""
    BY DEF Init, Processes
  <2>3. IsConf(Start)
    BY AugToolAssumption DEF IsConf
  <2> QED
    BY <2>1, <2>2, <2>3 DEF AloneInv, ChangerPipe, Undisturbed
<1>2. UnsavedInv /\ ReadersInv /\ AloneInv => AloneAsAsked
  <2> SUFFICES ASSUME UnsavedInv, ReadersInv, AloneInv, NEW t \in Threads,
                      base[t] # Disturbed, at[t].request.kind # "GET"
               PROVE  LET r == at[t].request
                          asked == Asked(base[t], r)
                          stored == file = asked.conf
                          nothing == file = base[t]
                      IN /\ at[t].step = "done" =>
                              asked.ok /\ at[t].shown = Shown(asked.conf, r)
                         /\ r.kind = "POST" /\ ~Busy(t) =>
                              stored \/ (nothing /\ "ntp" \in errors)
                         /\ r.kind = "PUT" /\ at[t].step = "done" => stored
                         /\ r.kind = "PUT" /\ at[t].step = "failed" =>
                              \/ nothing /\ (asked.ok => "interfaces" \in errors)
                              \/ asked.ok /\ stored /\ WithServers(file) = {}
    BY DEF AloneAsAsked
  <2>1. Undisturbed(t) /\ at[t].step # "idle" /\ Placed(at[t])
    BY AloneFacts DEF Undisturbed
  <2>2. at[t].request.kind \in {"PUT", "POST"}
    BY <2>1 DEF Placed
  <2>3. ASSUME at[t].step \in Finished PROVE Right(at[t], tree["sudo"], file, errors, base[t])
    <3>1. ~ Sends(t) /\ t # ""
      BY <2>3, AugToolAssumption DEF Sends, Busy
    <3>2. printed["sudo"] = <<>>
      BY <2>1, <3>1, AloneFacts
    <3> QED
      BY <2>1, <3>2 DEF AloneInv, OnCourse
  <2>4. at[t].request.kind = "POST" => Asked(base[t], at[t].request).ok
    BY DEF Asked
  <2> QED
    BY <2>1, <2>2, <2>3, <2>4 DEF Right, Puts, Posts, Finished, Busy
<1> QED
  BY <1>1, <1>2, InitUnsaved, InitReaders, StepUnsaved, StepReaders, StepAlone, PTL DEF Spec
==============================================================================
