------------------------------ MODULE AugTool ------------------------------
(***************************************************************************)
(* Network and time settings through augtool (class augtool, the pages     *)
(* netcfg and time).  Two augtool processes run beside the server, one     *)
(* with and one without privileges; each has read the configuration once,  *)
(* when it was started, into a tree of its own.  A page talks to one of    *)
(* them command by command; every command is written to the process, which *)
(* executes in order and prints, and what it has printed within half a     *)
(* second is read.  The mutex is held for one command, not for a request.  *)
(*                                                                         *)
(* Abstracted: an answer is read whole or not at all; "address" stands for *)
(* "netmask" too; the files have no syntax errors, so "ls .../error" finds *)
(* what a save left there, or nothing; of the page time, setting the clock *)
(* is left out; the list of interfaces (netcfgs) and resolv.conf, which    *)
(* nobody changes and a GET takes its nameservers from, as well.           *)
(***************************************************************************)
EXTENDS Naturals, Sequences, FiniteSets, SequencesExt

CONSTANTS
  Threads,      \* workers of the server
  Ifaces,       \* interfaces that can be configured
  Requests,     \* what clients may ask, see the assumption
  Start,        \* the settings in the files to begin with
  MaxRequests,  \* bound: requests taken
  MaxFaults     \* bound: late answers, processes that die, files that cannot be stored

Names == {"method", "address", "gateway", "nameservers"}
Ntp == <<"ntp", "server">>
Keys == (Ifaces \X Names) \cup {Ntp}
FileOf(key) == IF key = Ntp THEN "ntp" ELSE "interfaces"
Methods == {"dhcp", "static", "none", "manual"}
Processes == {"sudo", "nopriv"}

(* A member of a PUT's body: valid is what CIDRAddress says of its value.    *)
ASSUME AugToolAssumption ==
  /\ "" \notin Ifaces /\ IsFiniteSet(Ifaces) /\ "" \notin Threads /\ Start \in [Keys -> STRING]
  /\ \A r \in Requests :
       /\ r.kind \in {"GET", "PUT", "POST"}
       /\ r.kind = "PUT" => r.members \in Seq([name : STRING, value : STRING, valid : BOOLEAN])
  /\ {MaxRequests, MaxFaults} \subseteq Nat

VARIABLES
  file,     \* what is stored
  errors,   \* the files the last save could not store
  tree,     \* per process, what it holds
  alive,    \* the processes that run
  queue,    \* per process, commands written and not executed
  printed,  \* per process, answers printed and not read
  holder,   \* per process, m_cmd_mutex: a thread, or ""
  at,       \* per thread, where its request is: step and local variables
  taken, faults,  \* counters for the bounds
  base,     \* history: per thread, the file when its request began, if nothing disturbed it
  mixed,    \* history: processes of which a thread read another command's answer
  slow,     \* history: processes that were late
  rejected  \* history: a request has failed since a save last stored everything
vars == <<file, errors, tree, alive, queue, printed, holder, at, taken, faults, base, mixed, slow,
          rejected>>

Disturbed == <<>>   \* no file

------------------------------------------------------------------------------
(* The process.  A command that names no node of the tree finds and changes  *)
(* nothing.                                                                  *)

Command(op, key, value) == [op |-> op, key |-> key, value |-> value]

Found(tr, key) == IF key \in Keys /\ tr[key] # "" THEN <<tr[key]>> ELSE <<>>
WithServers(tr) == {i \in Ifaces : tr[<<i, "nameservers">>] # ""}

(* The values an answer carries, "key = value" (of the error of a file, that  *)
(* there is one), and the interfaces whose path is in it; iface[*] does not   *)
(* count.                                                                     *)
Values(tr, errs, c) ==
  CASE c.op = "get" -> Found(tr, c.key)
    [] c.op = "ls" -> IF c.key[1] \in errs THEN c.key ELSE <<>>
    [] c.op = "find" -> IF c.key[1] \in Ifaces THEN <<c.key[1]>> ELSE <<>>
    [] c.op = "servers" -> SetToSeq({tr[<<i, "nameservers">>] : i \in WithServers(tr)})
    [] OTHER -> <<>>

Paths(tr, c) ==
  CASE c.op = "interfaces" -> Ifaces
    [] c.op = "servers" -> WithServers(tr)
    [] c.op \in {"get", "set", "rm", "find"} -> {c.key[1]} \cap Ifaces
    [] OTHER -> {}

Changed(tr, c) ==
  IF c.op \in {"set", "rm"} /\ c.key \in Keys THEN [tr EXCEPT ![c.key] = c.value] ELSE tr

(* The files whose part of the tree has changed since it was stored. *)
Unsaved == {FileOf(k) : k \in {key \in Keys : tree["sudo"][key] # file[key]}}

(* Each of them is stored or not; what once could not be, may fail again.    *)
Save ==
  \E failing \in SUBSET (Unsaved \cup errors) :
    /\ failing \subseteq errors \/ faults < MaxFaults
    /\ faults' = IF failing \subseteq errors THEN faults ELSE faults + 1
    /\ errors' = failing
    /\ file' = [k \in Keys |-> IF FileOf(k) \in failing THEN file[k] ELSE tree["sudo"][k]]
    /\ rejected' = (rejected /\ ~(failing = {} /\ Len(queue["sudo"]) = 1))

Errors(p) == IF p = "sudo" THEN errors ELSE {}

(* augtool works off its standard input. *)
Execute(p) ==
  /\ queue[p] # <<>>
  /\ LET c == Head(queue[p]).does IN
       /\ tree' = [tree EXCEPT ![p] = Changed(@, c)]
       /\ IF c.op = "save" /\ p = "sudo" THEN Save
          ELSE UNCHANGED <<file, errors, faults, rejected>>
       /\ printed' = [printed EXCEPT ![p] =
            Append(@, [by |-> Head(queue[p]).by,
                       values |-> Values(tree[p], Errors(p), c), paths |-> Paths(tree[p], c)])]
  /\ queue' = [queue EXCEPT ![p] = Tail(@)]
  /\ UNCHANGED <<alive, holder, at, taken, base, mixed, slow>>

(* Nobody starts it again: the singleton keeps its m_process. *)
Crash(p) ==
  /\ p \in alive /\ faults < MaxFaults
  /\ faults' = faults + 1
  /\ alive' = alive \ {p}
  /\ queue' = [queue EXCEPT ![p] = <<>>]
  /\ base' = [t \in Threads |-> Disturbed]
  /\ UNCHANGED <<file, errors, tree, printed, holder, at, taken, mixed, slow, rejected>>

------------------------------------------------------------------------------
(* What the pages do, step by step: a step is a command and what follows its *)
(* answer up to the next one.                                                *)

Idle == [step |-> "idle"]
Goto(l, step) == [l EXCEPT !.step = step]
Fail(l) == Goto(l, "failed")

(* address is the path "match" has found; anything but one path is no path.  *)
Key(l, name) ==
  <<IF Len(l.path) = 1 /\ l.path[1] \in Ifaces THEN l.path[1] ELSE "", name>>

Member(l) == l.request.members[l.member]
IsStatic(l) == l.method = <<"static">>

(* AUG_SET ("method", rex_method.match (method)): the method there is. *)
SetMethodAllowed(l) == Len(l.method) = 1 /\ l.method[1] \in Methods

(* The next member of the body, or the end of the loop. *)
NextMember(l) ==
  IF l.member = Len(l.request.members) THEN Goto(l, "save")
  ELSE LET n == [l EXCEPT !.member = @ + 1] IN
       IF Member(n).name # "method" THEN Goto(n, "getMethod")
       ELSE IF SetMethodAllowed(n) THEN Goto(n, "setMethod") ELSE Fail(n)

(* From the gateway to the end of the loop's body. *)
HandleRest(l) ==
  CASE Member(l).name = "gateway" /\ IsStatic(l) ->
         IF Member(l).value = "" \/ Member(l).valid THEN Goto(l, "setGateway") ELSE Fail(l)
    [] Member(l).name = "nameservers" -> Goto(l, "interfaces")
    [] Member(l).name \in {"method", "address"} -> NextMember(l)
    [] OTHER -> Fail(l)

(* Mutant: the address of an interface that is no longer static stays. *)
AfterGetMethod_Keeping(l) ==
  IF Member(l).name = "address"
  THEN IF Member(l).valid /\ IsStatic(l) THEN Goto(l, "setAddress") ELSE Fail(l)
  ELSE HandleRest(l)

AfterGetMethod(l) ==
  IF Member(l).name = "address"
  THEN IF Member(l).valid /\ IsStatic(l) THEN Goto(l, "setAddress") ELSE Fail(l)
  ELSE IF IsStatic(l) THEN HandleRest(l) ELSE Goto(l, "rmAddress")

NextInterface(l) == IF l.todo = {} THEN NextMember(l) ELSE Goto(l, "setServers")
Interface(l) == CHOOSE i \in l.todo : TRUE

(* Mutant: the page time leaves the saving to others. *)
AfterSetNtp_Unsaved(l) == Goto(l, "services")
AfterSetNtp(l) == Goto(l, "saveNtp")

Begin(r) ==
  [step |-> IF r.kind = "POST" THEN "setNtp" ELSE "checkInterfaces", request |-> r, member |-> 0,
   path |-> <<>>, method |-> <<>>, todo |-> {}, shown |-> <<>>]

Asks(l) ==
  LET m == Member(l) IN
  CASE l.step \in {"checkInterfaces", "recheckInterfaces"} -> Command("ls", <<"interfaces">>, "")
    [] l.step \in {"checkResolv", "recheckResolv"} -> Command("ls", <<"resolv.conf">>, "")
    [] l.step = "find" -> Command("find", <<l.request.iface>>, "")
    [] l.step \in {"getFirst", "getMethod", "showMethod"} -> Command("get", Key(l, "method"), "")
    [] l.step = "setMethod" -> Command("set", Key(l, "method"), m.value)
    [] l.step = "setAddress" -> Command("set", Key(l, "address"), m.value)
    [] l.step = "rmAddress" -> Command("rm", Key(l, "address"), "")
    [] l.step = "rmGateway" -> Command("rm", Key(l, "gateway"), "")
    [] l.step = "setGateway" -> Command("set", Key(l, "gateway"), m.value)
    [] l.step = "interfaces" -> Command("interfaces", <<>>, "")
    [] l.step = "setServers" -> Command("set", <<Interface(l), "nameservers">>, m.value)
    [] l.step \in {"save", "saveNtp"} -> Command("save", <<>>, "")
    [] l.step = "showAddress" -> Command("get", Key(l, "address"), "")
    [] l.step = "showGateway" -> Command("get", Key(l, "gateway"), "")
    [] l.step = "showServers" -> Command("servers", <<>>, "")
    [] l.step = "setNtp" -> Command("set", Ntp, l.request.value)
    [] l.step = "showNtp" -> Command("get", Ntp, "")

CommandOf(t) == [by |-> t, does |-> Asks(at[t])]

(* get_cmd_out: the values of all that was read; of several answers without  *)
(* key_value, the lines between them as well.                                *)
Text(answers) == FlattenSeq([i \in DOMAIN answers |-> answers[i].values])
Lines(answers) == Text(answers) \o (IF Len(answers) > 1 THEN <<"augtool>">> ELSE <<>>)
AllPaths(answers) == UNION {answers[i].paths : i \in DOMAIN answers}

Show(l, text, step) == [l EXCEPT !.shown = Append(@, text), !.step = step]

After(l, answers) ==
  LET text == Text(answers)
      Check(step) == IF text = <<>> THEN Goto(l, step) ELSE Fail(l)
  IN CASE l.step = "checkInterfaces" -> Check("checkResolv")
       [] l.step = "checkResolv" -> Check("find")
       [] l.step = "find" -> IF Lines(answers) = <<>> THEN Fail(l)
                             ELSE [l EXCEPT !.path = Lines(answers), !.step = "getFirst"]
       [] l.step = "getFirst" -> LET n == [l EXCEPT !.method = text] IN
                                 IF l.request.kind = "PUT" THEN NextMember(n)
                                 ELSE Goto(n, "showMethod")
       [] l.step = "setMethod" -> Goto(l, "getMethod")
       [] l.step = "getMethod" -> AfterGetMethod([l EXCEPT !.method = text])
       [] l.step = "rmAddress" -> Goto(l, "rmGateway")
       [] l.step \in {"setAddress", "rmGateway"} -> HandleRest(l)
       [] l.step = "setGateway" -> NextMember(l)
       [] l.step = "interfaces" ->
            IF Member(l).valid THEN NextInterface([l EXCEPT !.todo = AllPaths(answers)])
            ELSE Fail(l)
       [] l.step = "setServers" -> NextInterface([l EXCEPT !.todo = @ \ {Interface(l)}])
       [] l.step = "save" -> Goto(l, "recheckInterfaces")
       [] l.step = "recheckInterfaces" -> Check("recheckResolv")
       [] l.step = "recheckResolv" -> Check("showMethod")
       [] l.step = "showMethod" -> Show(l, text, "showAddress")
       [] l.step = "showAddress" -> Show(l, text, "showGateway")
       [] l.step = "showGateway" ->
            Show(l, text, IF l.request.kind = "PUT" THEN "showServers" ELSE "done")
       (* Of an empty list nothing can be cut off: an exception. *)
       [] l.step = "showServers" -> IF text = <<>> THEN Fail(l) ELSE Show(l, text, "done")
       [] l.step = "showNtp" -> Show(l, text, "done")
       [] l.step = "setNtp" -> AfterSetNtp(l)
       [] l.step = "saveNtp" -> Goto(l, "services")

------------------------------------------------------------------------------
Finished == {"idle", "done", "failed"}
Busy(t) == at[t].step \notin Finished

(* Mutant: one process for everybody. *)
Process_Shared(t) == "sudo"
Process(t) == IF at[t].step # "idle" /\ at[t].request.kind = "GET" THEN "nopriv" ELSE "sudo"
Changing == {t \in Threads : Busy(t) /\ Process(t) = "sudo"}

(* A worker takes a request.  History: it is disturbed from the start, or    *)
(* disturbs, where two change settings at once or something was left over.   *)
Take(t, r) ==
  /\ ~Busy(t) /\ taken < MaxRequests
  /\ taken' = taken + 1
  /\ at' = [at EXCEPT ![t] = Begin(r)]
  /\ LET quiet == slow = {} /\ alive = Processes
         alone == Changing = {} /\ tree["sudo"] = file /\ errors = {}
         others == IF r.kind = "GET" THEN {} ELSE {u \in Threads : Process(u) = "sudo"}
     IN base' = [u \in Threads |->
                   IF u = t THEN IF quiet /\ (alone \/ r.kind = "GET") THEN file ELSE Disturbed
                   ELSE IF u \in others THEN Disturbed ELSE base[u]]
  /\ UNCHANGED <<file, errors, tree, alive, queue, printed, holder, faults, mixed, slow, rejected>>

(* get_cmd_out_raw, up to the read.  Mutant: without the lock. *)
Free_Unlocked(p) == TRUE
Free(p) == holder[p] = ""

Sends(t) == Busy(t) /\ at[t].step # "services"
Waiting(t) == Sends(t) /\ holder[Process(t)] = t

Write(t) ==
  /\ Sends(t) /\ Free(Process(t)) /\ ~Waiting(t)
  /\ holder' = [holder EXCEPT ![Process(t)] = t]
  /\ queue' = IF Process(t) \in alive
              THEN [queue EXCEPT ![Process(t)] = Append(@, CommandOf(t))] ELSE queue
  /\ UNCHANGED <<file, errors, tree, alive, printed, at, taken, faults, base, mixed, slow,
                 rejected>>

(* Mutant: the lock is kept when nothing was read. *)
Released_Answered(p) == IF printed[p] = <<>> THEN holder ELSE [holder EXCEPT ![p] = ""]
Released(p) == [holder EXCEPT ![p] = ""]

(* The rest of get_cmd_out_raw: what is there is read, when the process has  *)
(* answered, when it is dead, or when the half second is over.               *)
Read(t) ==
  LET p == Process(t)
      answers == IF p \in alive THEN printed[p] ELSE <<>>
      timeout == queue[p] # <<>>
  IN /\ Waiting(t)
     /\ timeout => faults < MaxFaults
     /\ faults' = IF timeout THEN faults + 1 ELSE faults
     /\ slow' = IF timeout THEN slow \cup {p} ELSE slow
     /\ mixed' = IF \E i \in DOMAIN answers : answers[i].by # t THEN mixed \cup {p} ELSE mixed
     /\ base' = IF timeout THEN [u \in Threads |-> Disturbed] ELSE base
     /\ printed' = [printed EXCEPT ![p] = <<>>]
     /\ holder' = Released(p)
     /\ at' = [at EXCEPT ![t] = After(@, answers)]
     /\ rejected' = (rejected \/ at'[t].step = "failed")
  /\ UNCHANGED <<file, errors, tree, alive, queue, taken>>

(* time: systemctl enable and restart, either of which may fail. *)
Services(t) ==
  /\ at[t].step = "services"
  /\ \E step \in {"showNtp", "failed"} : at' = [at EXCEPT ![t] = Goto(@, step)]
  /\ UNCHANGED <<file, errors, tree, alive, queue, printed, holder, taken, faults, base, mixed,
                 slow, rejected>>

------------------------------------------------------------------------------
Init ==
  /\ file = Start /\ errors = {} /\ tree = [p \in Processes |-> Start] /\ alive = Processes
  /\ queue = [p \in Processes |-> <<>>] /\ printed = [p \in Processes |-> <<>>]
  /\ holder = [p \in Processes |-> ""] /\ at = [t \in Threads |-> Idle]
  /\ taken = 0 /\ faults = 0
  /\ base = [t \in Threads |-> Disturbed] /\ mixed = {} /\ slow = {} /\ rejected = FALSE

Work(t) == Write(t) \/ Read(t) \/ Services(t)

Next ==
  \/ \E p \in Processes : Execute(p) \/ Crash(p)
  \/ \E t \in Threads : Work(t) \/ \E r \in Requests : Take(t, r)

(* The processes execute, and a worker goes on; nobody has to ask, be late   *)
(* or crash.                                                                 *)
Fairness ==
  /\ \A p \in Processes : WF_vars(Execute(p))
  /\ \A t \in Threads : WF_vars(Write(t)) /\ WF_vars(Read(t)) /\ WF_vars(Services(t))

Spec == Init /\ [][Next]_vars /\ Fairness

------------------------------------------------------------------------------
(* Properties *)

(* What a request asks of the settings: no trees, no commands, no others.    *)
Cleared(conf, i) ==
  IF conf[<<i, "method">>] = "static" THEN conf
  ELSE [conf EXCEPT ![<<i, "address">>] = "", ![<<i, "gateway">>] = ""]

AskedMember(i, r, m) ==
  LET Set(conf) == [ok |-> TRUE, conf |-> Cleared(conf, i)]
      method == r.conf[<<i, "method">>]
      accepted ==
        CASE m.name = "method" -> method \in Methods
          [] m.name = "address" -> m.valid /\ method = "static"
          [] m.name = "gateway" -> (m.valid \/ m.value = "") /\ method = "static"
          [] m.name = "nameservers" -> m.valid
          [] OTHER -> FALSE
  IN IF ~r.ok \/ ~accepted THEN [ok |-> FALSE, conf |-> r.conf]
     ELSE IF m.name = "nameservers"
     THEN Set([k \in Keys |-> IF k[2] = m.name THEN m.value ELSE r.conf[k]])
     ELSE Set([r.conf EXCEPT ![<<i, m.name>>] = m.value])

(* By the members of a PUT's body, one after the other. *)
AskedUpTo(conf, r) ==
  LET by[k \in 0..Len(r.members)] ==
        IF k = 0 THEN [ok |-> r.iface \in Ifaces, conf |-> conf]
        ELSE AskedMember(r.iface, by[k - 1], r.members[k])
  IN by

Asked(conf, r) ==
  CASE r.kind = "POST" -> [ok |-> TRUE, conf |-> [conf EXCEPT ![Ntp] = r.value]]
    [] r.kind = "GET" -> [ok |-> r.iface \in Ifaces, conf |-> conf]
    [] r.kind = "PUT" -> AskedUpTo(conf, r)[Len(r.members)]

Shown(conf, r) ==
  LET servers == {conf[<<i, "nameservers">>] : i \in WithServers(conf)}
  IN CASE r.kind = "POST" -> <<Found(conf, Ntp)>>
       [] r.kind \in {"GET", "PUT"} ->
            [n \in 1..3 |-> Found(conf, <<r.iface, <<"method", "address", "gateway">>[n]>>)]
            \o (IF r.kind = "PUT" THEN <<SetToSeq(servers)>> ELSE <<>>)

(* A request that nobody disturbs, and finds nothing left over, does what it *)
(* asks or nothing, and says so.  A change of an interface that is answered  *)
(* is stored and shown; one that fails has changed nothing, unless it was    *)
(* stored and left no nameserver to show.  The page time is not so good: the *)
(* server it shows is stored even if a service does not start then, or, if   *)
(* the file cannot be written, is not stored and shown all the same.         *)
AloneAsAsked ==
  \A t \in Threads :
    LET r == at[t].request
        asked == Asked(base[t], r)
        stored == file = asked.conf
        nothing == file = base[t]
    IN base[t] # Disturbed /\ r.kind # "GET" =>
      /\ at[t].step = "done" => asked.ok /\ at[t].shown = Shown(asked.conf, r)
      /\ r.kind = "POST" /\ ~Busy(t) => stored \/ (nothing /\ "ntp" \in errors)
      /\ r.kind = "PUT" /\ at[t].step = "done" => stored
      /\ r.kind = "PUT" /\ at[t].step = "failed" =>
           \/ nothing /\ (asked.ok => "interfaces" \in errors)
           \/ asked.ok /\ stored /\ WithServers(file) = {}

(* The page shows the settings the unprivileged process has read when it was *)
(* started: no change made since, by whatever request, is ever shown.        *)
ReadersSeeTheStart ==
  \A t \in Threads :
    LET r == at[t].request IN
    base[t] # Disturbed /\ r.kind = "GET" =>
      /\ at[t].step = "done" => at[t].shown = Shown(Start, r)
      /\ at[t].step = "failed" => r.iface \notin Ifaces

(* The mutex of a process keeps command and answer together: a thread reads  *)
(* the answer to another's command only once an answer has come late, and    *)
(* the mutex does not help against that one.                                 *)
AnswersAreOwn == mixed \subseteq slow

(* The tree differs from the files only while a request is at work, or since *)
(* one has failed: its settings wait there for the save of somebody else.    *)
(* Or nobody has noticed that a file could not be stored: the page time does *)
(* not look, the page netcfg misses it only when an answer comes late.       *)
NothingLeftUnsaved ==
  Unsaved # {} /\ "sudo" \in alive =>
    \/ Changing # {} \/ rejected \/ queue["sudo"] # <<>>
    \/ Unsaved \subseteq errors /\ ("interfaces" \in Unsaved => "sudo" \in slow)

(* Every request is answered, however late the process and if it has died.   *)
EveryRequestEnds == \A t \in Threads : Busy(t) ~> ~Busy(t)
==============================================================================
