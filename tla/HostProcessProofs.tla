------------------------- MODULE HostProcessProofs -------------------------
(* No process of the product runs unknown to the commands that manage it,    *)
(* and what those commands report is so: for every number of commands,       *)
(* processes, ports and faults.                                              *)
(* ProcessesOwned is not inductive.  That one broker lives rests on where    *)
(* the lifecycle lock is while a child is launched, that a serving one stays *)
(* published rests on who may remove the files when (OnMacos, OnLinux,       *)
(* Published); that one worker lives and is found rests on the same for the  *)
(* worker's lifetime lock and its record (LifeHeld, Awaited, Recorded), and  *)
(* what a login hands it on what an undisturbed command has read (Alone).    *)
EXTENDS MCHost, TLAPS

-----------------------------------------------------------------------------
(* The deployment commands keep their invariant whatever their number, the   *)
(* number of services, ports and faults: no two processes of one service, a  *)
(* record that names the holder of the lifetime, verified artifacts, and     *)
(* for a command that came back the outcome it reports.                      *)
(* DeployOwned and DeployOutcome are not inductive: a stop is right about    *)
(* what it killed because records name lifetimes (Lifetimes), a state file   *)
(* is right about what runs because the services reused are those of the     *)
(* file that was read (Placing, Backends, Placed), and a failed start leaves *)
(* nothing because it accounts for what it started at each point (Accounts). *)

(* A port of the system, or none. *)
PortNumbers == Ports \cup {0}
(* deployment.json: the two ports, and whether this version wrote it. *)
StateRecord == [b : PortNumbers, d : PortNumbers, current : BOOLEAN]
(* The services a command can have left to stop, in its order. *)
Todos == {<<>>, <<"backend">>, <<"dashboard">>, <<"dashboard", "backend">>}
(* The points between which a command can be interrupted. *)
DeployStates == {"begin", "lock", "needs", "binary", "checksum", "staging", "rename", "token", "auth", "load", "look", "launch",
                 "record", "wait", "stop", "term", "state", "config", "status", "proxy", "rollback", "ok", "failed"}
(* The locals of a command. *)
DeployRecord == [op : {"none", "start", "stop", "status"}, pc : DeployStates, prev : StateRecord,
                 ports : [b : PortNumbers, d : PortNumbers], new : SUBSET Services, at : Services, child : Procs \cup {0},
                 todo : Todos, then : {"none", "look", "ok", "failed"}, hard : BOOLEAN, stuck : BOOLEAN,
                 cached : BOOLEAN, said : SUBSET Services]
(* A service process. *)
ServiceRecord == [svc : Services \cup {"none"}, st : {"none", "boot", "up", "dying", "dead"}, port : PortNumbers,
                  target : PortNumbers, art : 0..2, token : {-1, 0, 1}, by : Deploys \cup {0}]
(* Every command keeps well-formed locals. *)
DeployRecords == deploy \in [Deploys -> DeployRecord]
(* Every service process is well formed. *)
ServiceRecords == svc \in [Procs -> ServiceRecord]
(* Locks, records, the state file and the installed files have their types; *)
(* the ports of a state file differ.                                        *)
DeployFiles ==
    /\ opLock \in Deploys \cup {0} /\ taken \subseteq Ports
    /\ owner \in [Services -> {Unowned} \cup ({"proc"} \X Procs)] /\ record \in [Services -> Procs \cup {0}]
    /\ dstate \in StateRecord /\ (dstate # NoState => dstate.b \in Ports /\ dstate.d \in Ports /\ dstate.b # dstate.d)
    /\ files \in [bin : 0..2, sum : {0, Good}, dash : 0..2, token : {-1, 0, 1}, auth : {-1, 0, 1}]

(* Where a command is. *)
Installing == {"begin", "lock", "needs", "binary", "checksum", "staging", "rename", "token", "auth", "load", "status"}
Holding == {"needs", "binary", "checksum", "staging", "rename", "token", "auth", "load", "look", "launch", "record", "wait",
            "stop", "term", "state", "config", "status"}
Starting == (Holding \ {"stop", "term", "status"}) \cup {"proxy", "rollback"}
Stopping(c) == deploy[c].pc \in {"stop", "term"}
StopsBefore(c) == Stopping(c) /\ deploy[c].then = "look"
Ensuring(c) == deploy[c].pc \in {"look", "launch", "record", "wait"} \/ StopsBefore(c)
InTodo(s, t) == \/ s = "backend" /\ t \in {<<"backend">>, <<"dashboard", "backend">>}
                \/ s = "dashboard" /\ t \in {<<"dashboard">>, <<"dashboard", "backend">>}

(* Only the command that holds deployment.lock is between taking and *)
(* dropping it.                                                      *)
OneOperation == \A c \in Deploys : deploy[c].pc \in Holding => opLock = c
(* A lifetime lock and the living process of that service name each other; *)
(* a service that answers is not at a port another program holds.          *)
Lifetimes ==
    /\ \A p \in Procs : Living(p) => svc[p].svc \in Services /\ owner[svc[p].svc] = <<"proc", p>> /\ svc[p].token = 1
    /\ \A s \in Services, p \in Procs : owner[s] = <<"proc", p>> => Living(p) /\ svc[p].svc = s
    /\ \A p \in Procs : svc[p].st = "up" => svc[p].port \notin taken

(* The service runs published artifacts for the deployment whose backend is *)
(* at this port.                                                            *)
Fits(p, port) ==
    /\ svc[p].art = Good /\ svc[p].target = port
    /\ svc[p].svc = "backend" => svc[p].port = port
    /\ svc[p].svc = "dashboard" => svc[p].port # port
(* Unless another program took the backend port of a current state file, *)
(* what lives belongs to that deployment.                                *)
Deployed == dstate # NoState /\ dstate.current /\ dstate.b \notin taken => \A p \in Procs : Living(p) => Fits(p, dstate.b)
(* Without a state file, every living service was started by one of the *)
(* commands.                                                            *)
Known == dstate = NoState => \A p \in Procs : Living(p) => svc[p].by \in Deploys

(* Where a command can be, given what it does and has done. *)
Course(c) ==
    /\ deploy[c].pc \in Installing => /\ deploy[c].prev = NoState /\ deploy[c].at = "backend"
                                      /\ deploy[c].new = {} /\ ~deploy[c].stuck
    /\ deploy[c].pc \in Starting => deploy[c].op = "start"
    /\ deploy[c].pc = "status" => deploy[c].op = "status"
    /\ Stopping(c) =>
        \/ deploy[c].op = "stop" /\ deploy[c].then = "ok" /\ deploy[c].hard
        \/ deploy[c].op = "start" /\ deploy[c].then = "look" /\ deploy[c].hard
        \/ deploy[c].op = "start" /\ deploy[c].then = "failed" /\ ~deploy[c].hard
    /\ deploy[c].pc = "term" => deploy[c].todo # <<>>
    /\ Ensuring(c) => /\ deploy[c].at = "backend" => deploy[c].new = {}
                      /\ "dashboard" \notin deploy[c].new
(* The process a start waits for is the one that may hold the lifetime it *)
(* took.                                                                  *)
Children(c) ==
    deploy[c].pc \in {"record", "wait"} =>
        /\ deploy[c].child \in Procs /\ owner[deploy[c].at] \in {Unowned, <<"proc", deploy[c].child>>}
        /\ svc[deploy[c].child].st # "none"
        /\ Living(deploy[c].child) =>
              /\ svc[deploy[c].child].svc = deploy[c].at /\ svc[deploy[c].child].art = Good
              /\ svc[deploy[c].child].target = deploy[c].ports.b /\ svc[deploy[c].child].port = MyPort(c)
(* What the installer has verified by each point of a start. *)
ArtifactsBy(c) ==
    /\ deploy[c].pc \in {"checksum", "staging", "rename"} => files.bin = Good
    /\ deploy[c].pc \in {"binary", "checksum", "staging"} /\ deploy[c].cached => files.dash = Good
    /\ deploy[c].pc \in {"token", "auth", "load", "state", "config"} \/ Ensuring(c) => files.bin = Good /\ files.dash = Good
    /\ deploy[c].pc \in {"auth", "load", "state", "config"} \/ Ensuring(c) => files.token = 1
    /\ deploy[c].pc \in {"load", "state", "config"} \/ Ensuring(c) => files.auth = 1
(* What a stop has put out, and what a start therefore finds free. *)
Cleared(c) ==
    /\ Stopping(c) /\ deploy[c].then # "failed" => \A s \in Services :
          InTodo(s, deploy[c].todo) \/ owner[s] = Unowned \/ (deploy[c].then = "look" /\ deploy[c].at = "dashboard" /\ s = "backend")
    /\ deploy[c].pc = "launch" => owner[deploy[c].at] = Unowned
    /\ deploy[c].pc \in {"look", "launch", "record", "wait"} /\ deploy[c].prev = NoState /\ deploy[c].at = "backend" =>
          owner["dashboard"] = Unowned /\ (deploy[c].pc = "look" => owner["backend"] = Unowned)
(* What a start that ensures its services took over from the earlier state *)
(* file.                                                                   *)
Placing(c) ==
    Ensuring(c) \/ deploy[c].pc = "state" =>
        /\ \/ deploy[c].prev = NoState /\ (dstate = NoState \/ ~dstate.current)
           \/ deploy[c].prev = dstate /\ dstate # NoState /\ dstate.current
        /\ deploy[c].prev # NoState /\ (deploy[c].at = "dashboard" \/ deploy[c].pc # "look") =>
              deploy[c].ports.b = deploy[c].prev.b \/ deploy[c].prev.b \in taken
        /\ deploy[c].at = "backend" /\ StopsBefore(c) => deploy[c].prev = NoState
        /\ deploy[c].at = "dashboard" \/ deploy[c].pc \in {"launch", "record", "wait"} => deploy[c].ports.b \in Ports
        /\ deploy[c].pc \in {"launch", "record", "wait"} /\ deploy[c].at = "dashboard" =>
              deploy[c].ports.d \in Ports /\ deploy[c].ports.d # deploy[c].ports.b
(* Once the backend is ensured, every living backend fits it. *)
Backends(c) ==
    deploy[c].at = "dashboard" /\ Ensuring(c) =>
        /\ \A p \in Procs : Living(p) /\ svc[p].svc = "backend" => Fits(p, deploy[c].ports.b)
        /\ deploy[c].pc = "look" /\ owner["dashboard"] # Unowned =>
              /\ deploy[c].prev # NoState /\ deploy[c].ports.b = deploy[c].prev.b
              /\ \A p \in Procs : Living(p) => Fits(p, deploy[c].ports.b)
(* Once both services are ensured, everything that lives is at the chosen *)
(* ports.                                                                 *)
Placed(c) ==
    deploy[c].pc \in {"state", "config"} =>
        /\ deploy[c].ports.b \in Ports /\ deploy[c].ports.d \in Ports /\ deploy[c].ports.b # deploy[c].ports.d
        /\ deploy[c].pc = "config" => dstate = [b |-> deploy[c].ports.b, d |-> deploy[c].ports.d, current |-> TRUE]
        /\ \A p \in Procs : Living(p) =>
              /\ svc[p].art = Good /\ svc[p].target = deploy[c].ports.b
              /\ svc[p].port = IF svc[p].svc = "backend" THEN deploy[c].ports.b ELSE deploy[c].ports.d
(* Why a service that this command started may still be alive. *)
Accounted(c, p) ==
    \/ deploy[c].pc \in {"record", "wait"} /\ p = deploy[c].child
    \/ (Ensuring(c) \/ deploy[c].pc \in {"state", "config", "proxy", "rollback"}) /\ svc[p].svc \in deploy[c].new
    \/ Stopping(c) /\ deploy[c].then = "failed" /\ (InTodo(svc[p].svc, deploy[c].todo) \/ deploy[c].stuck)
    \/ deploy[c].pc = "ok" /\ deploy[c].op = "start"
    \/ deploy[c].pc = "failed" /\ deploy[c].stuck
(* A command accounts for every living service it started. *)
Accounts(c) ==
    /\ \A p \in Procs : Living(p) /\ svc[p].by = c => Accounted(c, p)
    /\ deploy[c].pc \in {"config", "proxy", "rollback"} \/ (deploy[c].pc = "ok" /\ deploy[c].op = "start") => dstate # NoState
(* The inductive invariant of one command. *)
CommandOK(c) == Course(c) /\ Children(c) /\ ArtifactsBy(c) /\ Cleared(c) /\ Placing(c) /\ Backends(c) /\ Placed(c) /\ Accounts(c)
(* The inductive invariant of the deployment commands. *)
DeployInv ==
    /\ DeployRecords /\ ServiceRecords /\ DeployFiles /\ OneOperation /\ Lifetimes /\ RecordNamesHolder
    /\ Deployed /\ Known /\ \A c \in Deploys : CommandOK(c)

(* Stopping the first service of a list leaves the list of the others. *)
LEMMA TodoFacts ==
    ASSUME NEW t \in Todos, t # <<>>
    PROVE /\ Head(t) \in Services /\ Tail(t) \in Todos
          /\ \A s \in Services : InTodo(s, Tail(t)) <=> InTodo(s, t) /\ s # Head(t)
<1>1. CASE t = <<"backend">> BY <1>1 DEF Services, Todos, InTodo
<1>2. CASE t = <<"dashboard">> BY <1>2 DEF Services, Todos, InTodo
<1>3. CASE t = <<"dashboard", "backend">> BY <1>3 DEF Services, Todos, InTodo
<1> QED BY <1>1, <1>2, <1>3 DEF Todos

(* The two services, dashboard first (LocalDeployment::stop). *)
LEMMA BothNamed == <<"dashboard">> \o <<"backend">> = <<"dashboard", "backend">>
<1> DEFINE s == <<"dashboard">> \o <<"backend">>
<1>1. <<"dashboard">> \in Seq({"dashboard", "backend"}) /\ <<"backend">> \in Seq({"dashboard", "backend"})
  OBVIOUS
<1>2. s \in Seq({"dashboard", "backend"}) /\ Len(s) = 2 /\ s[1] = "dashboard" /\ s[2] = "backend"
  BY <1>1
<1> HIDE DEF s
<1>3. s = <<"dashboard", "backend">>
  BY <1>2
<1> QED BY <1>3 DEF s

(* A fallback stops exactly the services this command started. *)
LEMMA StartedFacts ==
    ASSUME NEW c \in Deploys
    PROVE Started(c) \in Todos /\ \A s \in Services : InTodo(s, Started(c)) <=> s \in deploy[c].new
<1>1. CASE "dashboard" \in deploy[c].new /\ "backend" \in deploy[c].new
  BY <1>1, BothNamed DEF Started, Services, Todos, InTodo
<1>2. CASE "dashboard" \in deploy[c].new /\ "backend" \notin deploy[c].new
  BY <1>2 DEF Started, Services, Todos, InTodo
<1>3. CASE "dashboard" \notin deploy[c].new /\ "backend" \in deploy[c].new
  BY <1>3 DEF Started, Services, Todos, InTodo
<1>4. CASE "dashboard" \notin deploy[c].new /\ "backend" \notin deploy[c].new
  BY <1>4 DEF Started, Services, Todos, InTodo
<1> QED BY <1>1, <1>2, <1>3, <1>4

(* The other commands keep their locals. *)
Others(c) == \A d \in Deploys \ {c} : deploy'[d] = deploy[d]

(* A command that has not begun has well-formed locals. *)
LEMMA IdleRecord == ASSUME DeployLocalAssumption PROVE Idle \in DeployRecord /\ NoState \in StateRecord
<1>1. TRUE \in BOOLEAN /\ FALSE \in BOOLEAN OBVIOUS
<1>2. 0 \in PortNumbers BY DEF PortNumbers
<1>3. NoState \in StateRecord BY <1>1, <1>2, Zenon DEF NoState, StateRecord
<1>4. NoConf \in [b : PortNumbers, d : PortNumbers] BY <1>2 DEF NoConf
<1>5. /\ "none" \in {"none", "start", "stop", "status"} /\ "begin" \in DeployStates /\ {} \in SUBSET Services /\ "backend" \in Services
      /\ 0 \in Procs \cup {0} /\ <<>> \in Todos /\ "none" \in {"none", "look", "ok", "failed"}
  BY DEF DeployStates, Services, Todos
<1>6. Idle \in DeployRecord
  BY <1>1, <1>3, <1>4, <1>5, Zenon DEF Idle, DeployRecord
<1> QED BY <1>3, <1>6

(* The command moves on and keeps its locals. *)
Same(c) ==
    /\ deploy'[c].op = deploy[c].op /\ deploy'[c].prev = deploy[c].prev /\ deploy'[c].ports = deploy[c].ports
    /\ deploy'[c].new = deploy[c].new /\ deploy'[c].at = deploy[c].at /\ deploy'[c].child = deploy[c].child
    /\ deploy'[c].todo = deploy[c].todo /\ deploy'[c].then = deploy[c].then /\ deploy'[c].hard = deploy[c].hard
    /\ deploy'[c].stuck = deploy[c].stuck /\ deploy'[c].cached = deploy[c].cached

(* A command that only moves on keeps its locals, and the others theirs. *)
LEMMA MovedOn ==
    ASSUME DeployRecords, NEW c \in Deploys, NEW x \in DeployStates, To(c, x)
    PROVE DeployRecords' /\ Others(c) /\ Same(c) /\ deploy'[c].pc = x
<1>1. DeployRecords'
  <2>1. \A r \in DeployRecord, y \in DeployStates : [r EXCEPT !.pc = y] \in DeployRecord BY DEF DeployRecord
  <2>2. [deploy[c] EXCEPT !.pc = x] \in DeployRecord BY <2>1 DEF DeployRecords
  <2>3. deploy' = [deploy EXCEPT ![c] = [deploy[c] EXCEPT !.pc = x]] BY DEF To
  <2> QED BY <2>2, <2>3 DEF DeployRecords
<1>2. Others(c) BY DEF DeployRecords, To, Others
<1>3. Same(c) /\ deploy'[c].pc = x BY DEF DeployRecords, DeployRecord, To, Same
<1> QED BY <1>1, <1>2, <1>3
(* What a command that has ended, or falls back to stopping what it started, keeps. *)
Reset(c, op, pc, todo, then, stuck, new) ==
    /\ deploy'[c].op = op /\ deploy'[c].pc = pc /\ deploy'[c].prev = NoState /\ deploy'[c].new = new /\ deploy'[c].at = "backend"
    /\ deploy'[c].todo = todo /\ deploy'[c].then = then /\ deploy'[c].hard = FALSE /\ deploy'[c].stuck = stuck /\ deploy'[c].cached = FALSE

(* A command that has ended keeps its operation and its outcome, and *)
(* nothing else.                                                     *)
LEMMA EndsWith ==
    ASSUME DeployLocalAssumption, DeployRecords, NEW c \in Deploys, NEW pc \in DeployStates, NEW stuck \in BOOLEAN, NEW said \in SUBSET Services,
           deploy' = Ended(c, pc, stuck, said)
    PROVE DeployRecords' /\ Others(c) /\ Reset(c, deploy[c].op, pc, <<>>, "none", stuck, {}) /\ deploy'[c].said = said
<1> DEFINE r == [Idle EXCEPT !.op = deploy[c].op, !.pc = pc, !.stuck = stuck, !.said = said]
<1>1. Idle \in DeployRecord /\ deploy[c].op \in {"none", "start", "stop", "status"}
  BY IdleRecord DEF DeployRecords, DeployRecord
<1>2. \A i \in DeployRecord, o \in {"none", "start", "stop", "status"}, x \in DeployStates, u \in BOOLEAN, y \in SUBSET Services :
          [i EXCEPT !.op = o, !.pc = x, !.stuck = u, !.said = y] \in DeployRecord
  BY DEF DeployRecord
<1>3. r \in DeployRecord BY <1>1, <1>2, Zenon
<1>4. deploy' = [deploy EXCEPT ![c] = r] BY DEF Ended
<1>5. DeployRecords' /\ Others(c) /\ deploy'[c] = r
  <2> HIDE DEF r
  <2> QED BY <1>3, <1>4 DEF DeployRecords, Others
<1>6. Reset(c, deploy[c].op, pc, <<>>, "none", stuck, {}) /\ deploy'[c].said = said BY <1>5, Zenon DEF Idle, Reset
<1> QED BY <1>5, <1>6

(* A failed start goes on to stop what it started. *)
LEMMA FallsBack ==
    ASSUME DeployLocalAssumption, DeployRecords, NEW c \in Deploys, FailsAfterStopping(c)
    PROVE DeployRecords' /\ Others(c) /\ Reset(c, "start", "stop", Started(c), "failed", deploy[c].stuck, {})
<1> DEFINE r == [Idle EXCEPT !.op = "start", !.pc = "stop", !.todo = Started(c), !.then = "failed", !.stuck = deploy[c].stuck]
<1>1. Idle \in DeployRecord /\ deploy[c].stuck \in BOOLEAN /\ Started(c) \in Todos
  BY IdleRecord, StartedFacts DEF DeployRecords, DeployRecord
<1>2. \A i \in DeployRecord : \A t \in Todos : [i EXCEPT !.op = "start", !.pc = "stop", !.todo = t] \in DeployRecord
  BY ZenonT(60) DEF DeployRecord, DeployStates
<1>3. \A i \in DeployRecord : \A u \in BOOLEAN : [i EXCEPT !.then = "failed", !.stuck = u] \in DeployRecord
  BY DEF DeployRecord
<1>4. r \in DeployRecord BY <1>1, <1>2, <1>3
<1>5. deploy' = [deploy EXCEPT ![c] = r] BY DEF FailsAfterStopping
<1>6. DeployRecords' /\ Others(c) /\ deploy'[c] = r
  <2> HIDE DEF r
  <2> QED BY <1>4, <1>5 DEF DeployRecords, Others
<1>7. Reset(c, "start", "stop", Started(c), "failed", deploy[c].stuck, {}) BY <1>6, Zenon DEF Idle, Reset
<1> QED BY <1>6, <1>7

(* A command that stops services first keeps the locals it goes on with. *)
LEMMA StopsFirstRecord ==
    ASSUME DeployRecords, NEW c \in Deploys, NEW todo \in Todos, NEW then \in {"look", "ok"}, StopsFirst(c, todo, then, TRUE)
    PROVE /\ DeployRecords' /\ Others(c) /\ deploy'[c].pc = "stop" /\ deploy'[c].op = deploy[c].op /\ deploy'[c].todo = todo
          /\ deploy'[c].then = then /\ deploy'[c].hard = TRUE /\ deploy'[c].prev = deploy[c].prev /\ deploy'[c].at = deploy[c].at
          /\ deploy'[c].new = deploy[c].new /\ deploy'[c].stuck = deploy[c].stuck
<1>1. \A r \in DeployRecord : [r EXCEPT !.pc = "stop", !.todo = todo, !.then = then] \in DeployRecord
  BY DEF DeployRecord, DeployStates
<1>2. \A r \in DeployRecord : \A b \in BOOLEAN : [r EXCEPT !.hard = b, !.child = 0] \in DeployRecord
  BY DEF DeployRecord
<1>3. deploy[c] \in DeployRecord BY DEF DeployRecords
<1> DEFINE r == [deploy[c] EXCEPT !.pc = "stop", !.todo = todo, !.then = then, !.hard = TRUE, !.child = 0]
<1>4. r = [[deploy[c] EXCEPT !.pc = "stop", !.todo = todo, !.then = then] EXCEPT !.hard = TRUE, !.child = 0] OBVIOUS
<1>5. TRUE \in BOOLEAN OBVIOUS
<1>6. r \in DeployRecord BY <1>1, <1>2, <1>3, <1>4, <1>5, Zenon
<1>7. deploy' = [deploy EXCEPT ![c] = r] BY DEF StopsFirst
<1>8. /\ r.pc = "stop" /\ r.op = deploy[c].op /\ r.todo = todo /\ r.then = then /\ r.hard = TRUE /\ r.prev = deploy[c].prev
      /\ r.at = deploy[c].at /\ r.new = deploy[c].new /\ r.stuck = deploy[c].stuck
  BY <1>3 DEF DeployRecord
<1> HIDE DEF r
<1>9. DeployRecords' /\ Others(c) /\ deploy'[c] = r BY <1>6, <1>7 DEF DeployRecords, Others
<1> QED BY <1>8, <1>9

(* A step in which services at most go away or change their state. *)
Survivors ==
    /\ \A p \in Procs : Living(p)' =>
          /\ Living(p) /\ svc'[p].svc = svc[p].svc /\ svc'[p].port = svc[p].port /\ svc'[p].target = svc[p].target
          /\ svc'[p].art = svc[p].art /\ svc'[p].token = svc[p].token /\ svc'[p].by = svc[p].by
    /\ \A p \in Procs : svc[p].st # "none" => svc'[p].st # "none"
    /\ \A s \in Services : owner'[s] \in {owner[s], Unowned}

(* The death or the progress of a service harms no invariant of a command *)
(* that does not move.                                                    *)
LEMMA StaysOK ==
    ASSUME DeployRecords, NEW c \in Deploys, CommandOK(c), deploy'[c] = deploy[c], UNCHANGED <<files, dstate, taken>>, Survivors
    PROVE CommandOK(c)'
<1>0. deploy[c].at \in Services /\ "backend" \in Services /\ "dashboard" \in Services
  BY DEF DeployRecords, DeployRecord, Services
<1>1. Course(c)' BY DEF CommandOK, Course, Stopping, Ensuring, StopsBefore
<1>2. Children(c)' BY <1>0 DEF CommandOK, Children, Survivors, MyPort
<1>3. ArtifactsBy(c)' BY DEF CommandOK, ArtifactsBy, Stopping, Ensuring, StopsBefore
<1>4. Cleared(c)' BY <1>0 DEF CommandOK, Cleared, Survivors, Stopping
<1>5. Placing(c)' BY DEF CommandOK, Placing, Stopping, Ensuring, StopsBefore
<1>6. Backends(c)' BY <1>0 DEF CommandOK, Backends, Survivors, Fits, Stopping, Ensuring, StopsBefore
<1>7. Placed(c)' BY DEF CommandOK, Placed, Survivors
<1>8. Accounts(c)' BY DEF CommandOK, Accounts, Accounted, Survivors, Stopping, Ensuring, StopsBefore
<1> QED BY <1>1, <1>2, <1>3, <1>4, <1>5, <1>6, <1>7, <1>8 DEF CommandOK

(* A command without the operation lock promises only its course and its *)
(* account.                                                              *)
LEMMA QuietOK ==
    ASSUME NEW c \in Deploys, deploy'[c].pc \notin Holding, Course(c)', Accounts(c)'
    PROVE CommandOK(c)'
  BY DEF CommandOK, Children, ArtifactsBy, Cleared, Placing, Backends, Placed, Stopping, Ensuring, StopsBefore, Holding

(* No other command holds the operation lock. *)
Exclusive(c) == \A d \in Deploys \ {c} : deploy[d].pc \notin Holding

(* The operation lock excludes: its holder, or a command that finds it *)
(* free, is alone.                                                     *)
LEMMA HolderAlone ==
    ASSUME DeployInv, NEW c \in Deploys, deploy[c].pc \in Holding \/ opLock = 0, DeployLocalAssumption
    PROVE Exclusive(c)
  BY DEF DeployInv, OneOperation, Exclusive, DeployLocalAssumption

(* What the holder of the operation lock does leaves the invariants of the *)
(* other commands.                                                         *)
LEMMA OthersAside ==
    ASSUME DeployInv, NEW c \in Deploys, Exclusive(c), Others(c), dstate # NoState => dstate' # NoState,
           \A p \in Procs : Living(p)' /\ svc'[p].by # c => Living(p) /\ svc[p].by = svc'[p].by /\ svc'[p].svc = svc[p].svc,
           deploy'[c].pc \in Holding => opLock' = c, CommandOK(c)'
    PROVE OneOperation' /\ \A d \in Deploys : CommandOK(d)'
<1>1. OneOperation'
  BY DEF OneOperation, Exclusive, Others
<1>2. ASSUME NEW d \in Deploys \ {c} PROVE CommandOK(d)'
  <2>1. deploy'[d] = deploy[d] /\ deploy[d].pc \notin Holding /\ CommandOK(d)
    BY DEF Others, Exclusive, DeployInv
  <2>2. Course(d)' BY <2>1 DEF CommandOK, Course, Stopping, Ensuring, StopsBefore
  <2>3. Accounts(d)' BY <2>1 DEF CommandOK, Accounts, Accounted, Stopping, Ensuring, StopsBefore, Holding
  <2> QED BY <2>1, <2>2, <2>3, QuietOK
<1> QED BY <1>1, <1>2

(* A command that only drops out leaves the invariants of the other *)
(* commands.                                                        *)
LEMMA OthersUntouched ==
    ASSUME DeployInv, NEW c \in Deploys, Others(c), UNCHANGED <<svc, owner, dstate, taken, files>>,
           opLock' = opLock \/ (opLock = c /\ opLock' = 0), deploy'[c].pc \notin Holding, CommandOK(c)'
    PROVE OneOperation' /\ \A d \in Deploys : CommandOK(d)'
<1>1. OneOperation'
  BY DEF OneOperation, Others, DeployInv
<1>2. ASSUME NEW d \in Deploys \ {c} PROVE CommandOK(d)' BY StaysOK DEF Others, DeployInv, Survivors, Living
<1> QED BY <1>1, <1>2

(* Process records are kept or removed. *)
RecordsKept == record' \in [Services -> Procs \cup {0}] /\ \A s \in Services : record'[s] \in {record[s], 0}
(* The installed files have their types. *)
FilesTyped == files \in [bin : 0..2, sum : {0, Good}, dash : 0..2, token : {-1, 0, 1}, auth : {-1, 0, 1}]

(* A step that touches no service keeps the invariant when it keeps that of *)
(* the commands.                                                            *)
LEMMA ServicesUntouched ==
    ASSUME DeployInv, UNCHANGED <<svc, owner, dstate, taken>>, RecordsKept, FilesTyped', opLock' \in Deploys \cup {0},
           DeployRecords', OneOperation', \A d \in Deploys : CommandOK(d)'
    PROVE DeployInv'
<1>1. ServiceRecords' BY DEF DeployInv, ServiceRecords
<1>2. DeployFiles' BY DEF DeployInv, DeployFiles, RecordsKept, FilesTyped
<1>3. Lifetimes' BY DEF DeployInv, Lifetimes, Living
<1>4. RecordNamesHolder' BY DEF DeployInv, RecordNamesHolder, RecordsKept
<1>5. Deployed' BY DEF DeployInv, Deployed, Living, Fits
<1>6. Known' BY DEF DeployInv, Known, Living
<1> QED BY <1>1, <1>2, <1>3, <1>4, <1>5, <1>6 DEF DeployInv

(* A command may end when it has nothing of its own alive, or says that it *)
(* is stuck.                                                               *)
LEMMA EndedOK ==
    ASSUME DeployLocalAssumption, DeployInv, NEW c \in Deploys, NEW pc \in {"ok", "failed"}, NEW stuck \in BOOLEAN, NEW said \in SUBSET Services,
           deploy' = Ended(c, pc, stuck, said),
           pc = "failed" /\ ~stuck => \A p \in Procs : Living(p)' => svc'[p].by # c,
           pc = "ok" /\ deploy[c].op # "start" => \A p \in Procs : Living(p)' => svc'[p].by # c,
           pc = "ok" /\ deploy[c].op = "start" => dstate' # NoState
    PROVE CommandOK(c)' /\ DeployRecords' /\ Others(c) /\ deploy'[c].pc = pc /\ deploy'[c].stuck = stuck /\ deploy'[c].said = said
<1>1. DeployRecords' /\ Others(c) /\ Reset(c, deploy[c].op, pc, <<>>, "none", stuck, {}) /\ deploy'[c].said = said
  <2>1. pc \in DeployStates BY DEF DeployStates
  <2> QED BY <2>1, EndsWith DEF DeployInv
<1>2. deploy'[c].pc = pc /\ deploy'[c].op = deploy[c].op /\ deploy'[c].stuck = stuck BY <1>1 DEF Reset
<1>3. Course(c)' BY <1>2 DEF Course, Installing, Starting, Holding, Stopping, Ensuring, StopsBefore
<1>4. Accounts(c)' BY <1>2 DEF Accounts, Accounted
<1>5. deploy'[c].pc \notin Holding BY <1>2 DEF Holding
<1> QED BY <1>1, <1>2, <1>3, <1>4, <1>5, QuietOK

(* Until it ensures services a command has started none. *)
LEMMA NothingYet ==
    ASSUME DeployInv, NEW c \in Deploys, deploy[c].pc \in Installing
    PROVE \A p \in Procs : Living(p) => svc[p].by # c
  BY DEF DeployInv, CommandOK, Accounts, Accounted, Installing, Stopping, Ensuring, StopsBefore

(* A step that leaves the files alone leaves their types. *)
LEMMA FilesStay ==
    ASSUME DeployInv, UNCHANGED <<record, files>> PROVE RecordsKept /\ FilesTyped'
  BY DEF DeployInv, DeployFiles, RecordsKept, FilesTyped

(* A command is given (deploy_local/mod.rs). *)
LEMMA BeginDeployKeeps ==
    ASSUME DeployLocalAssumption, DeployInv, NEW c \in Deploys, BeginDeploy(c) PROVE DeployInv'
<1>1. PICK op \in {"start", "stop", "status"} : deploy' = [deploy EXCEPT ![c].op = op, ![c].pc = "lock"]
  BY DEF BeginDeploy
<1>2. UNCHANGED <<opLock, svc, owner, record, dstate, files, taken>> /\ deploy[c].pc = "begin"
  BY DEF BeginDeploy
<1>3. DeployRecords' /\ Others(c)
  <2>1. \A r \in DeployRecord, o \in {"start", "stop", "status"} : [r EXCEPT !.op = o, !.pc = "lock"] \in DeployRecord
    BY ZenonT(60) DEF DeployRecord, DeployStates
  <2>2. [deploy[c] EXCEPT !.op = op, !.pc = "lock"] \in DeployRecord BY <2>1, Zenon DEF DeployRecords, DeployInv
  <2>3. deploy' = [deploy EXCEPT ![c] = [deploy[c] EXCEPT !.op = op, !.pc = "lock"]] BY <1>1
  <2> QED BY <2>2, <2>3 DEF DeployRecords, DeployInv, Others
<1>4. /\ deploy'[c].pc = "lock" /\ deploy'[c].prev = deploy[c].prev /\ deploy'[c].at = deploy[c].at
      /\ deploy'[c].new = deploy[c].new /\ deploy'[c].stuck = deploy[c].stuck
  BY <1>1 DEF DeployInv, DeployRecords, DeployRecord
<1>5. CommandOK(c) BY DEF DeployInv
<1>6. Course(c)'
  BY <1>2, <1>4, <1>5 DEF CommandOK, Course, Installing, Starting, Holding, Stopping, Ensuring, StopsBefore
<1>7. \A p \in Procs : Living(p) => svc[p].by # c BY <1>2, NothingYet DEF Installing
<1>8. Accounts(c)' BY <1>2, <1>4, <1>7 DEF Accounts, Living
<1>9. CommandOK(c)' /\ deploy'[c].pc \notin Holding BY <1>4, <1>6, <1>8, QuietOK DEF Holding
<1>10. OneOperation' /\ \A d \in Deploys : CommandOK(d)' BY <1>2, <1>3, <1>9, OthersUntouched
<1>11. opLock' \in Deploys \cup {0} BY <1>2 DEF DeployInv, DeployFiles
<1> QED BY <1>2, <1>3, <1>10, <1>11, FilesStay, ServicesUntouched

(* A command that started nothing may fail and drop the lock. *)
LEMMA LeavesKeeps ==
    ASSUME DeployLocalAssumption, DeployInv, NEW c \in Deploys, Exclusive(c), Leaves(c, "failed"),
           UNCHANGED <<svc, owner, dstate, taken>>, RecordsKept, FilesTyped', \A p \in Procs : Living(p) => svc[p].by # c
    PROVE DeployInv'
<1>1. deploy[c].stuck \in BOOLEAN /\ {} \in SUBSET Services BY DEF DeployInv, DeployRecords, DeployRecord
<1>2. deploy' = Ended(c, "failed", deploy[c].stuck, {}) /\ opLock' = 0 BY DEF Leaves
<1>3. \A p \in Procs : Living(p)' => svc'[p].by # c BY DEF Living
<1>4. CommandOK(c)' /\ DeployRecords' /\ Others(c) /\ deploy'[c].pc = "failed" BY <1>1, <1>2, <1>3, EndedOK
<1>5. OneOperation' /\ \A d \in Deploys : CommandOK(d)' BY <1>4, OthersAside DEF Living, Holding
<1> QED BY <1>2, <1>4, <1>5, ServicesUntouched

(* A step of the holder that touches no service. *)
LEMMA MovesKeeps ==
    ASSUME DeployInv, NEW c \in Deploys, Exclusive(c), DeployRecords', Others(c), UNCHANGED <<svc, owner, dstate, taken>>,
           RecordsKept, FilesTyped', opLock' = c, CommandOK(c)'
    PROVE DeployInv'
<1>1. OneOperation' /\ \A d \in Deploys : CommandOK(d)' BY OthersAside DEF Living
<1> QED BY <1>1, ServicesUntouched

(* DeploymentOperationLock::acquire keeps the invariant. *)
LEMMA DeployLockKeeps ==
    ASSUME DeployLocalAssumption, DeployInv, NEW c \in Deploys, DeployLock(c) PROVE DeployInv'
<1>1. UNCHANGED <<svc, owner, record, dstate, files, taken>> /\ deploy[c].pc = "lock" BY DEF DeployLock
<1>2. \A p \in Procs : Living(p) => svc[p].by # c BY <1>1, NothingYet DEF Installing
<1>3. RecordsKept /\ FilesTyped' BY <1>1, FilesStay
<1>4. CommandOK(c) /\ DeployRecords BY DEF DeployInv
<1>5. CASE opLock = 0 /\ deploy[c].op = "stop" /\ opLock' = c /\ StopsFirst(c, <<"dashboard", "backend">>, "ok", TRUE)
  <2>1. <<"dashboard", "backend">> \in Todos /\ "ok" \in {"look", "ok"} BY DEF Todos
  <2>2. DeployRecords' /\ Others(c) /\ deploy'[c].pc = "stop" /\ deploy'[c].op = deploy[c].op /\ deploy'[c].todo = <<"dashboard", "backend">>
        /\ deploy'[c].then = "ok" /\ deploy'[c].hard = TRUE
    BY <1>4, <1>5, <2>1, StopsFirstRecord
  <2>3. Course(c)' BY <1>5, <2>2 DEF Course, Installing, Starting, Holding, Stopping, Ensuring, StopsBefore
  <2>4. Cleared(c)' BY <2>2 DEF Cleared, Services, InTodo, Stopping
  <2>5. Accounts(c)' BY <1>1, <1>2, <2>2 DEF Accounts, Living
  <2>6. CommandOK(c)'
    BY <2>2, <2>3, <2>4, <2>5 DEF CommandOK, Children, ArtifactsBy, Placing, Backends, Placed, Stopping, Ensuring, StopsBefore
  <2> QED BY <1>1, <1>3, <1>5, <2>2, <2>6, HolderAlone, MovesKeeps
<1>6. CASE opLock = 0 /\ deploy[c].op = "status" /\ opLock' = c /\ To(c, "status")
  <2>1. DeployRecords' /\ Others(c) /\ Same(c) /\ deploy'[c].pc = "status" BY <1>4, <1>6, MovedOn DEF DeployStates
  <2>2. Course(c)'
    BY <1>1, <1>4, <1>6, <2>1 DEF Same, CommandOK, Course, Installing, Starting, Holding, Stopping, Ensuring, StopsBefore
  <2>3. Accounts(c)' BY <1>1, <1>2, <2>1 DEF Accounts, Living
  <2>4. CommandOK(c)'
    BY <2>1, <2>2, <2>3 DEF CommandOK, Children, ArtifactsBy, Cleared, Placing, Backends, Placed, Stopping, Ensuring, StopsBefore
  <2> QED BY <1>1, <1>3, <1>6, <2>1, <2>4, HolderAlone, MovesKeeps
<1>7. CASE opLock = 0 /\ deploy[c].op = "start" /\ To(c, "needs") /\ opLock' = c
  <2>1. DeployRecords' /\ Others(c) /\ Same(c) /\ deploy'[c].pc = "needs" BY <1>4, <1>7, MovedOn DEF DeployStates
  <2>2. Course(c)'
    BY <1>1, <1>4, <1>7, <2>1 DEF Same, CommandOK, Course, Installing, Starting, Holding, Stopping, Ensuring, StopsBefore
  <2>3. Accounts(c)' BY <1>1, <1>2, <2>1 DEF Accounts, Living
  <2>4. CommandOK(c)'
    BY <2>1, <2>2, <2>3 DEF CommandOK, Children, ArtifactsBy, Cleared, Placing, Backends, Placed, Stopping, Ensuring, StopsBefore
  <2> QED BY <1>1, <1>3, <1>7, <2>1, <2>4, HolderAlone, MovesKeeps
<1>8. CASE opLock = 0 /\ Leaves(c, "failed")
  BY <1>1, <1>2, <1>3, <1>8, HolderAlone, LeavesKeeps
<1>9. CASE opLock # 0 /\ deploy' = Ended(c, "failed", FALSE, {}) /\ UNCHANGED opLock
  <2>1. {} \in SUBSET Services /\ \A p \in Procs : Living(p)' => svc'[p].by # c BY <1>1, <1>2 DEF Living
  <2>2. FALSE \in BOOLEAN OBVIOUS
  <2>3. CommandOK(c)' /\ DeployRecords' /\ Others(c) /\ deploy'[c].pc = "failed" BY <1>9, <2>1, <2>2, EndedOK
  <2>4. OneOperation' /\ \A d \in Deploys : CommandOK(d)' BY <1>1, <1>9, <2>3, OthersUntouched DEF Holding
  <2>5. opLock' \in Deploys \cup {0} BY <1>9 DEF DeployInv, DeployFiles
  <2> QED BY <1>1, <1>3, <2>3, <2>4, <2>5, ServicesUntouched
<1> QED BY <1>5, <1>6, <1>7, <1>8, <1>9 DEF DeployLock

(* The steps of the installer and of the credentials. *)
Fetches == {"binary", "checksum", "staging", "rename", "token", "auth", "load"}

(* A step of the installer that goes on. *)
LEMMA InstallMoves ==
    ASSUME DeployLocalAssumption, DeployInv, NEW c \in Deploys, deploy[c].pc \in {"needs"} \cup Fetches,
           NEW x \in Fetches, DeployRecords', Others(c), deploy'[c].pc = x, deploy'[c].op = deploy[c].op,
           deploy'[c].prev = deploy[c].prev, deploy'[c].at = deploy[c].at, deploy'[c].new = deploy[c].new,
           deploy'[c].stuck = deploy[c].stuck, UNCHANGED <<opLock, svc, owner, record, dstate, taken>>, FilesTyped', ArtifactsBy(c)'
    PROVE DeployInv'
<1>1. CommandOK(c) /\ OneOperation BY DEF DeployInv
<1>2. Exclusive(c) /\ opLock' = c BY <1>1, HolderAlone DEF OneOperation, Holding, Fetches
<1>3. \A p \in Procs : Living(p) => svc[p].by # c BY NothingYet DEF Installing, Fetches
<1>4. Course(c)'
  BY <1>1 DEF CommandOK, Course, Installing, Starting, Holding, Stopping, Ensuring, StopsBefore, Fetches
<1>5. Accounts(c)' BY <1>3 DEF Accounts, Living, Fetches
<1>6. Children(c)' /\ Cleared(c)' /\ Placing(c)' /\ Backends(c)' /\ Placed(c)'
  BY DEF Children, Cleared, Placing, Backends, Placed, Stopping, Ensuring, StopsBefore, Fetches
<1>7. CommandOK(c)' BY <1>4, <1>5, <1>6 DEF CommandOK
<1>8. RecordsKept BY DEF DeployInv, DeployFiles, RecordsKept
<1> QED BY <1>2, <1>7, <1>8, MovesKeeps

(* A step of the installer that fails. *)
LEMMA InstallFails ==
    ASSUME DeployLocalAssumption, DeployInv, NEW c \in Deploys, deploy[c].pc \in {"needs"} \cup Fetches, Leaves(c, "failed"),
           UNCHANGED <<svc, owner, record, dstate, files, taken>>
    PROVE DeployInv'
<1>1. Exclusive(c) BY HolderAlone DEF Holding, Fetches
<1>2. \A p \in Procs : Living(p) => svc[p].by # c BY NothingYet DEF Installing, Fetches
<1> QED BY <1>1, <1>2, FilesStay, LeavesKeeps

(* check_dependencies keeps the invariant. *)
LEMMA check_dependenciesKeeps ==
    ASSUME DeployLocalAssumption, DeployInv, NEW c \in Deploys, check_dependencies(c) PROVE DeployInv'
<1>1. UNCHANGED <<svc, owner, record, dstate, files, taken>> /\ deploy[c].pc = "needs" BY DEF check_dependencies
<1> DEFINE b == files.dash = Good
           r == [deploy[c] EXCEPT !.pc = "binary", !.cached = b]
<1>2. CASE deploy' = [deploy EXCEPT ![c].pc = "binary", ![c].cached = (files.dash = Good)] /\ UNCHANGED opLock
  <2>1. deploy' = [deploy EXCEPT ![c] = r] BY <1>2
  <2>2. b \in BOOLEAN OBVIOUS
  <2>3. b => files.dash = Good OBVIOUS
  <2> HIDE DEF b
  <2>4. \A i \in DeployRecord : \A u \in BOOLEAN : [i EXCEPT !.pc = "binary", !.cached = u] \in DeployRecord
    BY DEF DeployRecord, DeployStates
  <2>5. deploy[c] \in DeployRecord BY DEF DeployInv, DeployRecords
  <2>6. r \in DeployRecord BY <2>2, <2>4, <2>5, Zenon
  <2>7. /\ r.pc = "binary" /\ r.op = deploy[c].op /\ r.prev = deploy[c].prev /\ r.at = deploy[c].at /\ r.new = deploy[c].new
        /\ r.stuck = deploy[c].stuck /\ r.cached = b
    BY <2>5, Zenon DEF DeployRecord
  <2> HIDE DEF r
  <2>8. DeployRecords' /\ Others(c) /\ deploy'[c] = r BY <2>1, <2>6 DEF DeployInv, DeployRecords, Others
  <2>9. ArtifactsBy(c)' BY <1>1, <2>3, <2>7, <2>8 DEF ArtifactsBy, Ensuring, StopsBefore, Stopping
  <2> QED BY <1>1, <1>2, <2>7, <2>8, <2>9, FilesStay, InstallMoves DEF Fetches
<1>3. CASE Leaves(c, "failed") BY <1>1, <1>3, InstallFails
<1> QED BY <1>2, <1>3 DEF check_dependencies

(* A step of the installer that wrote a file. *)
LEMMA StagedOn ==
    ASSUME DeployLocalAssumption, DeployInv, NEW c \in Deploys, deploy[c].pc \in {"needs"} \cup Fetches,
           NEW x \in Fetches, To(c, x), UNCHANGED <<opLock, svc, owner, record, dstate, taken>>, FilesTyped',
           x \in {"checksum", "staging", "rename"} => files'.bin = Good,
           x \in {"checksum", "staging"} /\ deploy[c].cached => files'.dash = Good,
           x # "binary",
           x \in {"token", "auth", "load"} => files'.bin = Good /\ files'.dash = Good,
           x \in {"auth", "load"} => files'.token = 1,
           x = "load" => files'.auth = 1
    PROVE DeployInv'
<1>1. x \in DeployStates BY DEF Fetches, DeployStates
<1>2. DeployRecords' /\ Others(c) /\ Same(c) /\ deploy'[c].pc = x BY <1>1, MovedOn DEF DeployInv
<1>3. ArtifactsBy(c)' BY <1>2 DEF ArtifactsBy, Ensuring, StopsBefore, Stopping, Fetches, Same
<1> QED BY <1>2, <1>3, InstallMoves DEF Same

(* Each write of the installer leaves files of their types. *)
LEMMA FileWritten ==
    ASSUME FilesTyped
    PROVE /\ [files EXCEPT !.bin = Good] \in [bin : 0..2, sum : {0, Good}, dash : 0..2, token : {-1, 0, 1}, auth : {-1, 0, 1}]
          /\ [files EXCEPT !.sum = Good] \in [bin : 0..2, sum : {0, Good}, dash : 0..2, token : {-1, 0, 1}, auth : {-1, 0, 1}]
          /\ [files EXCEPT !.dash = 0] \in [bin : 0..2, sum : {0, Good}, dash : 0..2, token : {-1, 0, 1}, auth : {-1, 0, 1}]
          /\ [files EXCEPT !.dash = Good] \in [bin : 0..2, sum : {0, Good}, dash : 0..2, token : {-1, 0, 1}, auth : {-1, 0, 1}]
          /\ [files EXCEPT !.token = 1] \in [bin : 0..2, sum : {0, Good}, dash : 0..2, token : {-1, 0, 1}, auth : {-1, 0, 1}]
          /\ [files EXCEPT !.auth = files.token] \in [bin : 0..2, sum : {0, Good}, dash : 0..2, token : {-1, 0, 1}, auth : {-1, 0, 1}]
  BY DEF FilesTyped, Good

(* ensure_backend: a binary that passes for cached is the published one,    *)
(* since its digest equals a checksum that only a verified download leaves. *)
LEMMA InstallBackendKeeps ==
    ASSUME DeployLocalAssumption, DeployInv, NEW c \in Deploys, InstallBackend(c) PROVE DeployInv'
<1>1. UNCHANGED <<svc, owner, record, dstate, taken>> /\ deploy[c].pc = "binary" BY DEF InstallBackend
<1>2. CommandOK(c) /\ FilesTyped BY DEF DeployInv, DeployFiles, FilesTyped
<1>3. deploy[c].cached => files.dash = Good BY <1>1, <1>2 DEF CommandOK, ArtifactsBy
<1>4. CASE installed_backend_is_valid /\ deploy' = [deploy EXCEPT ![c].pc = "staging"] /\ UNCHANGED <<opLock, files>>
  BY <1>1, <1>2, <1>3, <1>4, FilesStay, StagedOn DEF installed_backend_is_valid, FilesTyped, To, Fetches
<1>5. CASE files' = [files EXCEPT !.bin = Good] /\ To(c, "checksum") /\ UNCHANGED opLock
  BY <1>1, <1>2, <1>3, <1>5, FileWritten, StagedOn DEF FilesTyped, Fetches
<1>6. CASE Leaves(c, "failed") /\ UNCHANGED files BY <1>1, <1>6, InstallFails DEF Fetches
<1> QED BY <1>4, <1>5, <1>6 DEF InstallBackend

(* The checksum is written after the binary it describes. *)
LEMMA WriteChecksumKeeps ==
    ASSUME DeployLocalAssumption, DeployInv, NEW c \in Deploys, WriteChecksum(c) PROVE DeployInv'
<1>1. UNCHANGED <<svc, owner, record, dstate, taken>> /\ deploy[c].pc = "checksum" BY DEF WriteChecksum
<1>2. CommandOK(c) /\ FilesTyped BY DEF DeployInv, DeployFiles, FilesTyped
<1>3. files.bin = Good /\ (deploy[c].cached => files.dash = Good) BY <1>1, <1>2 DEF CommandOK, ArtifactsBy
<1>4. CASE files' = [files EXCEPT !.sum = Good] /\ To(c, "staging") /\ UNCHANGED opLock
  BY <1>1, <1>2, <1>3, <1>4, FileWritten, StagedOn DEF FilesTyped, Fetches
<1>5. CASE Leaves(c, "failed") /\ UNCHANGED files BY <1>1, <1>5, InstallFails DEF Fetches
<1> QED BY <1>4, <1>5 DEF WriteChecksum

(* ensure_dashboard up to the removal of the old directory. *)
LEMMA InstallDashboardKeeps ==
    ASSUME DeployLocalAssumption, DeployInv, NEW c \in Deploys, InstallDashboard(c) PROVE DeployInv'
<1>1. UNCHANGED <<svc, owner, record, dstate, taken>> /\ deploy[c].pc = "staging" BY DEF InstallDashboard
<1>2. CommandOK(c) /\ FilesTyped BY DEF DeployInv, DeployFiles, FilesTyped
<1>3. files.bin = Good /\ (deploy[c].cached => files.dash = Good) BY <1>1, <1>2 DEF CommandOK, ArtifactsBy
<1>4. CASE deploy[c].cached /\ deploy' = [deploy EXCEPT ![c].pc = "token", ![c].cached = FALSE] /\ UNCHANGED <<opLock, files>>
  <2> DEFINE r == [deploy[c] EXCEPT !.pc = "token", !.cached = FALSE]
  <2>1. deploy' = [deploy EXCEPT ![c] = r] BY <1>4
  <2>2. FALSE \in BOOLEAN OBVIOUS
  <2>4. \A i \in DeployRecord : \A u \in BOOLEAN : [i EXCEPT !.pc = "token", !.cached = u] \in DeployRecord
    BY DEF DeployRecord, DeployStates
  <2>5. deploy[c] \in DeployRecord BY DEF DeployInv, DeployRecords
  <2>6. r \in DeployRecord BY <2>2, <2>4, <2>5, Zenon
  <2>7. /\ r.pc = "token" /\ r.op = deploy[c].op /\ r.prev = deploy[c].prev /\ r.at = deploy[c].at /\ r.new = deploy[c].new
        /\ r.stuck = deploy[c].stuck
    BY <2>5, Zenon DEF DeployRecord
  <2> HIDE DEF r
  <2>8. DeployRecords' /\ Others(c) /\ deploy'[c] = r BY <2>1, <2>6 DEF DeployInv, DeployRecords, Others
  <2>9. ArtifactsBy(c)' BY <1>3, <1>4, <2>7, <2>8 DEF ArtifactsBy, Ensuring, StopsBefore, Stopping
  <2> QED BY <1>1, <1>4, <2>7, <2>8, <2>9, FilesStay, InstallMoves DEF Fetches
<1>5. CASE files' = [files EXCEPT !.dash = 0] /\ To(c, "rename") /\ UNCHANGED opLock
  BY <1>1, <1>2, <1>3, <1>5, FileWritten, StagedOn DEF FilesTyped, Fetches
<1>6. CASE Leaves(c, "failed") /\ UNCHANGED files BY <1>1, <1>6, InstallFails DEF Fetches
<1> QED BY <1>4, <1>5, <1>6 DEF InstallDashboard

(* The staged dashboard takes the place of the old one. *)
LEMMA RenameDashboardKeeps ==
    ASSUME DeployLocalAssumption, DeployInv, NEW c \in Deploys, RenameDashboard(c) PROVE DeployInv'
<1>1. UNCHANGED <<svc, owner, record, dstate, taken>> /\ deploy[c].pc = "rename" BY DEF RenameDashboard
<1>2. CommandOK(c) /\ FilesTyped BY DEF DeployInv, DeployFiles, FilesTyped
<1>3. files.bin = Good BY <1>1, <1>2 DEF CommandOK, ArtifactsBy
<1>4. CASE files' = [files EXCEPT !.dash = Good] /\ To(c, "token") /\ UNCHANGED opLock
  BY <1>1, <1>2, <1>3, <1>4, FileWritten, StagedOn DEF FilesTyped, Fetches
<1>5. CASE Leaves(c, "failed") /\ UNCHANGED files BY <1>1, <1>5, InstallFails DEF Fetches
<1> QED BY <1>4, <1>5 DEF RenameDashboard

(* LocalCredentials::ensure, the token. *)
LEMMA EnsureTokenKeeps ==
    ASSUME DeployLocalAssumption, DeployInv, NEW c \in Deploys, EnsureToken(c) PROVE DeployInv'
<1>1. UNCHANGED <<svc, owner, record, dstate, taken>> /\ deploy[c].pc = "token" BY DEF EnsureToken
<1>2. CommandOK(c) /\ FilesTyped BY DEF DeployInv, DeployFiles, FilesTyped
<1>3. files.bin = Good /\ files.dash = Good BY <1>1, <1>2 DEF CommandOK, ArtifactsBy
<1>4. CASE files' = [files EXCEPT !.token = 1] /\ To(c, "auth") /\ UNCHANGED opLock
  BY <1>1, <1>2, <1>3, <1>4, FileWritten, StagedOn DEF FilesTyped, Fetches
<1>5. CASE Leaves(c, "failed") /\ UNCHANGED files BY <1>1, <1>5, InstallFails DEF Fetches
<1> QED BY <1>4, <1>5 DEF EnsureToken

(* LocalCredentials::ensure, the header file derived from the token. *)
LEMMA WriteAuthorizationKeeps ==
    ASSUME DeployLocalAssumption, DeployInv, NEW c \in Deploys, WriteAuthorization(c) PROVE DeployInv'
<1>1. UNCHANGED <<opLock, svc, owner, record, dstate, taken>> /\ deploy[c].pc = "auth" BY DEF WriteAuthorization
<1>2. CommandOK(c) /\ FilesTyped BY DEF DeployInv, DeployFiles, FilesTyped
<1>3. files.bin = Good /\ files.dash = Good /\ files.token = 1 BY <1>1, <1>2 DEF CommandOK, ArtifactsBy
<1>4. files' = [files EXCEPT !.auth = files.token] /\ To(c, "load") BY DEF WriteAuthorization
<1>5. FilesTyped' /\ files'.bin = files.bin /\ files'.dash = files.dash /\ files'.token = files.token /\ files'.auth = files.token
  BY <1>2, <1>4, FileWritten DEF FilesTyped
<1> QED BY <1>1, <1>3, <1>4, <1>5, StagedOn DEF Fetches

(* The lifetime locks. *)
LifetimeFiles == [Services -> {Unowned} \cup ({"proc"} \X Procs)]

(* A step in which services at most go away keeps the invariant when it *)
(* keeps that of the commands and the lifetimes.                        *)
LEMMA SurvivorsKeep ==
    ASSUME DeployInv, Survivors, ServiceRecords', Lifetimes', owner' \in LifetimeFiles, UNCHANGED <<dstate, taken>>, RecordsKept,
           FilesTyped', opLock' \in Deploys \cup {0}, DeployRecords', OneOperation', \A d \in Deploys : CommandOK(d)'
    PROVE DeployInv'
<1>1. DeployFiles' BY DEF DeployInv, DeployFiles, RecordsKept, FilesTyped, LifetimeFiles
<1>2. RecordNamesHolder' BY DEF DeployInv, RecordNamesHolder, RecordsKept, Survivors
<1>3. Deployed' BY DEF DeployInv, Deployed, Survivors, Fits
<1>4. Known' BY DEF DeployInv, Known, Survivors
<1> QED BY <1>1, <1>2, <1>3, <1>4 DEF DeployInv

(* A process that is gone is a well-formed process. *)
LEMMA Gone == ASSUME DeployLocalAssumption PROVE [NoService EXCEPT !.st = "dead"] \in ServiceRecord /\ [NoService EXCEPT !.st = "dead"].st = "dead"
  BY DEF NoService, ServiceRecord, PortNumbers

(* A killed service frees its lifetime lock and nothing else. *)
LEMMA KillFacts ==
    ASSUME DeployLocalAssumption, DeployInv, NEW p \in Procs, Kill(p), svc[p].st # "none", UNCHANGED taken
    PROVE /\ Survivors /\ ServiceRecords' /\ Lifetimes' /\ owner' \in LifetimeFiles /\ ~Living(p)'
          /\ \A s \in Services : owner[s] = <<"proc", p>> => owner'[s] = Unowned
<1> DEFINE g == [NoService EXCEPT !.st = "dead"]
<1>1. g \in ServiceRecord /\ g.st = "dead" BY Gone
<1>2. svc' = [svc EXCEPT ![p] = g] BY DEF Kill
<1> HIDE DEF g
<1>3. svc \in [Procs -> ServiceRecord] /\ owner \in LifetimeFiles
  BY DEF DeployInv, ServiceRecords, DeployFiles, LifetimeFiles
<1>4. ServiceRecords' BY <1>1, <1>2, <1>3 DEF ServiceRecords
<1>5. svc'[p].st = "dead" /\ \A q \in Procs \ {p} : svc'[q] = svc[q] BY <1>1, <1>2, <1>3
<1>6. owner' = [s \in Services |-> IF owner[s] = <<"proc", p>> THEN Unowned ELSE owner[s]] BY DEF Kill, KillFreesOwner
<1>7. owner' \in LifetimeFiles BY <1>3, <1>6 DEF LifetimeFiles
<1>8. \A s \in Services : owner'[s] = IF owner[s] = <<"proc", p>> THEN Unowned ELSE owner[s] BY <1>6
<1>9. ~Living(p)' /\ \A q \in Procs : Living(q)' => q # p /\ Living(q) /\ svc'[q] = svc[q] BY <1>5 DEF Living
<1>10. Survivors BY <1>5, <1>8, <1>9 DEF Survivors
<1>11. Lifetimes'
  <2>0. Lifetimes BY DEF DeployInv
  <2>1. \A q \in Procs : Living(q)' => svc'[q].svc \in Services /\ owner'[svc'[q].svc] = <<"proc", q>> /\ svc'[q].token = 1
    BY <1>8, <1>9, <2>0 DEF Lifetimes
  <2>2. ASSUME NEW s \in Services, NEW q \in Procs, owner'[s] = <<"proc", q>> PROVE Living(q)' /\ svc'[q].svc = s
    BY <1>5, <1>8, <2>0, <2>2 DEF Unowned, Lifetimes, Living
  <2>3. \A q \in Procs : svc'[q].st = "up" => svc'[q].port \notin taken' BY <2>0, <1>5 DEF Lifetimes
  <2> QED BY <2>1, <2>2, <2>3 DEF Lifetimes
<1> QED BY <1>4, <1>7, <1>8, <1>9, <1>10, <1>11

(* The fallback of a start accounts for everything it started. *)
LEMMA FallsBackOK ==
    ASSUME DeployLocalAssumption, DeployInv, NEW c \in Deploys, FailsAfterStopping(c),
           \A p \in Procs : Living(p)' /\ svc'[p].by = c => svc'[p].svc \in deploy[c].new
    PROVE CommandOK(c)' /\ DeployRecords' /\ Others(c) /\ deploy'[c].pc = "stop"
<1>1. DeployRecords' /\ Others(c) /\ Reset(c, "start", "stop", Started(c), "failed", deploy[c].stuck, {})
  BY FallsBack DEF DeployInv
<1>2. /\ deploy'[c].op = "start" /\ deploy'[c].pc = "stop" /\ deploy'[c].todo = Started(c) /\ deploy'[c].then = "failed" /\ ~deploy'[c].hard
  BY <1>1 DEF Reset
<1>3. deploy[c].new \subseteq Services BY DEF DeployInv, DeployRecords, DeployRecord
<1>4. Course(c)' BY <1>2 DEF Course, Installing, Starting, Holding, Stopping, Ensuring, StopsBefore
<1>5. Accounts(c)' BY <1>2, <1>3, StartedFacts DEF Accounts, Accounted, Stopping
<1>6. Children(c)' /\ ArtifactsBy(c)' /\ Cleared(c)' /\ Placing(c)' /\ Backends(c)' /\ Placed(c)'
  BY <1>2 DEF Children, ArtifactsBy, Cleared, Placing, Backends, Placed, Stopping, Ensuring, StopsBefore
<1> QED BY <1>1, <1>2, <1>4, <1>5, <1>6 DEF CommandOK

(* The fallback of a start, seen with the other commands. *)
LEMMA FallsBackAside ==
    ASSUME DeployLocalAssumption, DeployInv, NEW c \in Deploys, Exclusive(c), opLock' = c, FailsAfterStopping(c), Survivors, UNCHANGED dstate,
           \A p \in Procs : Living(p)' /\ svc'[p].by = c => svc'[p].svc \in deploy[c].new
    PROVE DeployRecords' /\ OneOperation' /\ (\A d \in Deploys : CommandOK(d)') /\ opLock' \in Deploys \cup {0}
<1>1. CommandOK(c)' /\ DeployRecords' /\ Others(c) /\ deploy'[c].pc = "stop" BY FallsBackOK
<1>2. OneOperation' /\ \A d \in Deploys : CommandOK(d)' BY <1>1, OthersAside DEF Survivors
<1> QED BY <1>1, <1>2

(* A command that ends while it holds the lock, seen with the other *)
(* commands.                                                        *)
LEMMA EndsAside ==
    ASSUME DeployLocalAssumption, DeployInv, NEW c \in Deploys, Exclusive(c), opLock' = 0,
           NEW pc \in {"ok", "failed"}, NEW stuck \in BOOLEAN, NEW said \in SUBSET Services,
           deploy' = Ended(c, pc, stuck, said), pc = "ok" => deploy[c].op # "start", Survivors, UNCHANGED dstate,
           stuck \/ \A p \in Procs : Living(p)' => svc'[p].by # c, pc = "ok" => ~stuck
    PROVE DeployRecords' /\ OneOperation' /\ (\A d \in Deploys : CommandOK(d)') /\ opLock' \in Deploys \cup {0}
<1>1. CommandOK(c)' /\ DeployRecords' /\ Others(c) /\ deploy'[c].pc = pc BY EndedOK
<1>2. OneOperation' /\ \A d \in Deploys : CommandOK(d)' BY <1>1, OthersAside DEF Survivors, Holding
<1> QED BY <1>1, <1>2

(* An error of ensure_backend or ensure_dashboard, seen with the other *)
(* commands.                                                           *)
LEMMA EnsureFailsAside ==
    ASSUME DeployLocalAssumption, DeployInv, NEW c \in Deploys, deploy[c].pc \in {"look", "launch", "record", "wait"},
           EnsureFails(c), Survivors, UNCHANGED dstate,
           \A p \in Procs : Living(p)' /\ svc'[p].by = c => svc'[p].svc \in deploy[c].new
    PROVE DeployRecords' /\ OneOperation' /\ (\A d \in Deploys : CommandOK(d)') /\ opLock' \in Deploys \cup {0}
<1>1. Exclusive(c) /\ opLock = c BY HolderAlone DEF Holding, OneOperation, DeployInv
<1>2. CASE deploy[c].at = "backend"
  BY <1>1, <1>2, EndsAside DEF DeployInv, CommandOK, Course, Ensuring, DeployRecords, DeployRecord, Leaves,
     EnsureFails
<1>3. CASE deploy[c].at # "backend" BY <1>1, <1>3, FallsBackAside DEF EnsureFails
<1> QED BY <1>2, <1>3

(* A step that touches no service lets all survive. *)
LEMMA Unmoved == ASSUME DeployInv, UNCHANGED <<svc, owner>> PROVE Survivors
  BY DEF Survivors, Living

(* DeploymentState::load: services of no, or of another version's,          *)
(* deployment are stopped first, the ports of a current one are taken over. *)
LEMMA LoadStateKeeps ==
    ASSUME DeployLocalAssumption, DeployInv, NEW c \in Deploys, LoadState(c) PROVE DeployInv'
<1>1. UNCHANGED <<opLock, svc, owner, record, dstate, files, taken>> /\ deploy[c].pc = "load" BY DEF LoadState
<1>2. \A p \in Procs : Living(p) => svc[p].by # c BY <1>1, NothingYet DEF Installing
<1>3. RecordsKept /\ FilesTyped' BY <1>1, FilesStay
<1>4. CommandOK(c) /\ DeployRecords /\ Exclusive(c) /\ opLock = c
  BY <1>1, HolderAlone DEF DeployInv, Holding, OneOperation
<1>5. deploy[c].prev = NoState /\ deploy[c].at = "backend" /\ deploy[c].new = {} /\ deploy[c].op = "start"
  BY <1>1, <1>4 DEF CommandOK, Course, Installing, Starting, Holding
<1>6. files.bin = Good /\ files.dash = Good /\ files.token = 1 /\ files.auth = 1
  BY <1>1, <1>4 DEF CommandOK, ArtifactsBy
<1>7. CASE (dstate = NoState \/ ~dstate.current) /\ StopsFirst(c, <<"dashboard", "backend">>, "look", TRUE)
  <2>1. <<"dashboard", "backend">> \in Todos /\ "look" \in {"look", "ok"} BY DEF Todos
  <2>2. /\ DeployRecords' /\ Others(c) /\ deploy'[c].pc = "stop" /\ deploy'[c].op = deploy[c].op /\ deploy'[c].todo = <<"dashboard", "backend">>
        /\ deploy'[c].then = "look" /\ deploy'[c].hard = TRUE /\ deploy'[c].prev = deploy[c].prev /\ deploy'[c].at = deploy[c].at
        /\ deploy'[c].new = deploy[c].new
    BY <1>4, <1>7, <2>1, StopsFirstRecord
  <2>3. Course(c)' BY <1>5, <2>2 DEF Course, Installing, Starting, Holding, Stopping, Ensuring, StopsBefore
  <2>4. Cleared(c)' BY <2>2 DEF Cleared, Services, InTodo, Stopping
  <2>5. Accounts(c)' BY <1>1, <1>2, <2>2 DEF Accounts, Living
  <2>6. ArtifactsBy(c)' BY <1>1, <1>6, <2>2 DEF ArtifactsBy
  <2>7. Placing(c)' BY <1>1, <1>5, <1>7, <2>2 DEF Placing, Stopping, Ensuring, StopsBefore
  <2>8. Children(c)' /\ Backends(c)' /\ Placed(c)' BY <1>5, <2>2 DEF Children, Backends, Placed
  <2>9. CommandOK(c)' BY <2>3, <2>4, <2>5, <2>6, <2>7, <2>8 DEF CommandOK
  <2> QED BY <1>1, <1>3, <1>4, <2>2, <2>9, MovesKeeps
<1>8. CASE dstate # NoState /\ dstate.current /\ deploy' = [deploy EXCEPT ![c].pc = "look", ![c].prev = dstate]
  <2> DEFINE r == [deploy[c] EXCEPT !.pc = "look", !.prev = dstate]
  <2>1. deploy' = [deploy EXCEPT ![c] = r] BY <1>8
  <2>2. dstate \in StateRecord BY DEF DeployInv, DeployFiles
  <2>3. \A i \in DeployRecord : \A x \in StateRecord : [i EXCEPT !.pc = "look", !.prev = x] \in DeployRecord
    BY DEF DeployRecord, DeployStates
  <2>4. deploy[c] \in DeployRecord BY <1>4 DEF DeployRecords
  <2>5. r \in DeployRecord BY <2>2, <2>3, <2>4, Zenon
  <2>6. r.pc = "look" /\ r.op = deploy[c].op /\ r.prev = dstate /\ r.at = deploy[c].at /\ r.new = deploy[c].new
    BY <2>4, Zenon DEF DeployRecord
  <2> HIDE DEF r
  <2>7. DeployRecords' /\ Others(c) /\ deploy'[c] = r BY <1>4, <2>1, <2>5 DEF DeployRecords, Others
  <2>8. Course(c)' BY <1>5, <2>6, <2>7 DEF Course, Installing, Starting, Holding, Stopping, Ensuring, StopsBefore
  <2>9. Cleared(c)' BY <1>1, <1>8, <2>6, <2>7 DEF Cleared, Stopping
  <2>10. Accounts(c)' BY <1>1, <1>2, <2>6, <2>7 DEF Accounts, Living
  <2>11. ArtifactsBy(c)' BY <1>1, <1>6, <2>6, <2>7 DEF ArtifactsBy
  <2>12. Placing(c)' BY <1>1, <1>5, <1>8, <2>6, <2>7 DEF Placing, Stopping, Ensuring, StopsBefore
  <2>13. Children(c)' /\ Backends(c)' /\ Placed(c)' BY <1>5, <2>6, <2>7 DEF Children, Backends, Placed
  <2>14. CommandOK(c)' BY <2>8, <2>9, <2>10, <2>11, <2>12, <2>13 DEF CommandOK
  <2> QED BY <1>1, <1>3, <1>4, <2>7, <2>14, MovesKeeps
<1> QED BY <1>7, <1>8 DEF LoadState

(* The end of a stop: a start finds both lifetimes free, a stop has left *)
(* nothing of its own.                                                   *)
LEMMA StopsDoneKeeps ==
    ASSUME DeployLocalAssumption, DeployInv, NEW c \in Deploys, StopsDone(c) PROVE DeployInv'
<1>1. UNCHANGED <<svc, owner, record, dstate, files, taken>> /\ deploy[c].pc = "stop" /\ deploy[c].todo = <<>>
  BY DEF StopsDone
<1>2. RecordsKept /\ FilesTyped' /\ Survivors BY <1>1, FilesStay, Unmoved
<1>3. CommandOK(c) /\ DeployRecords /\ Exclusive(c) /\ opLock = c
  BY <1>1, HolderAlone DEF DeployInv, Holding, OneOperation
<1>4. \A s \in Services : ~InTodo(s, deploy[c].todo) BY <1>1 DEF InTodo
<1>5. "backend" \in Services /\ "dashboard" \in Services BY DEF Services
<1>6. CASE deploy[c].then = "look" /\ deploy' = [deploy EXCEPT ![c].pc = "look", ![c].then = "none", ![c].hard = FALSE] /\ UNCHANGED opLock
  <2> DEFINE r == [deploy[c] EXCEPT !.pc = "look", !.then = "none", !.hard = FALSE]
  <2>1. deploy' = [deploy EXCEPT ![c] = r] BY <1>6
  <2>2. FALSE \in BOOLEAN OBVIOUS
  <2>3. \A i \in DeployRecord : \A u \in BOOLEAN : [i EXCEPT !.pc = "look", !.then = "none", !.hard = u] \in DeployRecord
    BY ZenonT(60) DEF DeployRecord, DeployStates
  <2>4. deploy[c] \in DeployRecord BY <1>3 DEF DeployRecords
  <2>5. r \in DeployRecord BY <2>2, <2>3, <2>4, Zenon
  <2>6. r.pc = "look" /\ r.op = deploy[c].op /\ r.prev = deploy[c].prev /\ r.at = deploy[c].at /\ r.new = deploy[c].new /\ r.ports = deploy[c].ports
    BY <2>4, Zenon DEF DeployRecord
  <2> HIDE DEF r
  <2>7. DeployRecords' /\ Others(c) /\ deploy'[c] = r BY <1>3, <2>1, <2>5 DEF DeployRecords, Others
  <2>8. StopsBefore(c) /\ Ensuring(c) BY <1>1, <1>6 DEF StopsBefore, Stopping, Ensuring
  <2>9. Course(c)'
    BY <1>3, <1>6, <2>6, <2>7, <2>8 DEF CommandOK, Course, Installing, Starting, Holding, Stopping, Ensuring, StopsBefore
  <2>10. owner["dashboard"] = Unowned /\ (deploy[c].at = "backend" => owner["backend"] = Unowned)
    BY <1>3, <1>4, <1>5, <1>6, <2>8 DEF CommandOK, Cleared, StopsBefore
  <2>11. Cleared(c)' BY <1>1, <2>6, <2>7, <2>10 DEF Cleared, Stopping
  <2>12. Accounts(c)' BY <1>1, <1>3, <1>6, <2>6, <2>7, <2>8 DEF CommandOK, Accounts, Accounted, Ensuring, Living
  <2>13. ArtifactsBy(c)' BY <1>1, <1>3, <2>6, <2>7, <2>8 DEF CommandOK, ArtifactsBy
  <2>14. Placing(c)' BY <1>1, <1>3, <2>6, <2>7, <2>8 DEF CommandOK, Placing, Stopping, Ensuring, StopsBefore
  <2>15. Backends(c)' BY <1>1, <1>3, <2>6, <2>7, <2>8, <2>10 DEF CommandOK, Backends, Living, Fits
  <2>16. Children(c)' /\ Placed(c)' BY <2>6, <2>7 DEF Children, Placed
  <2>17. CommandOK(c)' BY <2>9, <2>11, <2>12, <2>13, <2>14, <2>15, <2>16 DEF CommandOK
  <2> QED BY <1>1, <1>2, <1>3, <1>6, <2>7, <2>17, MovesKeeps
<1>7. CASE deploy[c].then # "look" /\ Leaves(c, deploy[c].then)
  <2>1. \/ deploy[c].op = "stop" /\ deploy[c].then = "ok"
        \/ deploy[c].op = "start" /\ deploy[c].then = "failed"
    BY <1>1, <1>3, <1>7 DEF CommandOK, Course, Stopping
  <2>2. deploy[c].stuck \in BOOLEAN /\ {} \in SUBSET Services /\ FALSE \in BOOLEAN
    BY <1>3 DEF DeployRecords, DeployRecord
  <2>3. \A p \in Procs : Living(p) => svc[p].svc \in Services BY DEF DeployInv, Lifetimes
  <2>4. deploy[c].stuck \/ \A p \in Procs : Living(p) => svc[p].by # c
    BY <1>1, <1>3, <1>4, <1>7, <2>3 DEF CommandOK, Accounts, Accounted, Ensuring, StopsBefore
  <2>5. deploy' = Ended(c, deploy[c].then, deploy[c].stuck, {}) /\ opLock' = 0 BY <1>7 DEF Leaves
  <2>6. deploy[c].then = "ok" => \A p \in Procs : Living(p)' => svc'[p].by # c
    BY <1>1, <1>3, <1>7 DEF CommandOK, Accounts, Accounted, Ensuring, StopsBefore, Living
  <2>7. CommandOK(c)' /\ DeployRecords' /\ Others(c) /\ deploy'[c].pc = deploy[c].then
    BY <1>1, <2>1, <2>2, <2>4, <2>5, <2>6, EndedOK DEF Living
  <2>8. OneOperation' /\ \A d \in Deploys : CommandOK(d)' BY <1>1, <1>3, <2>1, <2>7, OthersAside DEF Living, Holding
  <2> QED BY <1>1, <1>2, <2>5, <2>7, <2>8, ServicesUntouched
<1> QED BY <1>6, <1>7 DEF StopsDone

(* The locals of a command that goes on to the next service it has to stop. *)
NextStop(c, r, u) ==
    /\ r.pc = "stop" /\ r.op = deploy[c].op /\ r.prev = deploy[c].prev /\ r.at = deploy[c].at /\ r.new = deploy[c].new /\ r.ports = deploy[c].ports
    /\ r.then = deploy[c].then /\ r.hard = deploy[c].hard /\ r.todo = Tail(deploy[c].todo) /\ r.stuck = u

(* A stop that goes on to its next service: the one it leaves is out, or *)
(* the stop is soft and remembers that it is stuck.                      *)
LEMMA StopMovesOn ==
    ASSUME DeployLocalAssumption, DeployInv, NEW c \in Deploys, deploy[c].pc \in {"stop", "term"}, deploy[c].todo # <<>>, NEW u \in BOOLEAN,
           NEW r \in DeployRecord, deploy' = [deploy EXCEPT ![c] = r], NextStop(c, r, u),
           deploy[c].stuck => u, Survivors, UNCHANGED <<opLock, dstate, files, taken>>,
           owner'[Head(deploy[c].todo)] = Unowned \/ (u /\ deploy[c].then = "failed"), Lifetimes'
    PROVE DeployRecords' /\ OneOperation' /\ (\A d \in Deploys : CommandOK(d)') /\ opLock' \in Deploys \cup {0}
<1> DEFINE t == Tail(deploy[c].todo)
           h == Head(deploy[c].todo)
<1>1. CommandOK(c) /\ DeployRecords /\ Exclusive(c) /\ opLock = c BY HolderAlone DEF DeployInv, Holding, OneOperation
<1>2. deploy[c] \in DeployRecord /\ deploy[c].todo \in Todos BY <1>1 DEF DeployRecords, DeployRecord
<1>3. h \in Services /\ t \in Todos /\ \A s \in Services : InTodo(s, t) <=> InTodo(s, deploy[c].todo) /\ s # h
  BY <1>2, TodoFacts
<1>4. owner'[h] = Unowned \/ (u /\ deploy[c].then = "failed") OBVIOUS
<1>5. r.todo = t BY DEF NextStop
<1> HIDE DEF t, h
<1>8. /\ r.pc = "stop" /\ r.op = deploy[c].op /\ r.prev = deploy[c].prev /\ r.at = deploy[c].at /\ r.new = deploy[c].new /\ r.ports = deploy[c].ports
      /\ r.then = deploy[c].then /\ r.hard = deploy[c].hard /\ r.todo = t /\ r.stuck = u
  BY <1>5 DEF NextStop
<1>9. DeployRecords' /\ Others(c) /\ deploy'[c] = r BY <1>1 DEF DeployRecords, Others
<1>10. Stopping(c) /\ (Ensuring(c)' <=> Ensuring(c)) /\ (StopsBefore(c)' <=> StopsBefore(c)) /\ Stopping(c)' /\ deploy'[c].pc = "stop"
  BY <1>8, <1>9 DEF Stopping, Ensuring, StopsBefore
<1>11. Course(c)' BY <1>1, <1>8, <1>9, <1>10 DEF CommandOK, Course, Installing, Starting, Holding
<1>12. Cleared(c)' BY <1>1, <1>3, <1>4, <1>8, <1>9, <1>10 DEF CommandOK, Cleared, Survivors
<1>13. Accounts(c)'
  BY <1>1, <1>3, <1>4, <1>8, <1>9, <1>10 DEF Survivors, CommandOK, Accounts, Lifetimes, Unowned, Accounted, Stopping
<1>14. ArtifactsBy(c)' BY <1>1, <1>8, <1>9, <1>10 DEF CommandOK, ArtifactsBy
<1>15. Placing(c)' BY <1>1, <1>8, <1>9, <1>10 DEF CommandOK, Placing, Stopping
<1>16. Backends(c)' BY <1>1, <1>8, <1>9, <1>10 DEF CommandOK, Backends, Survivors, Fits
<1>17. Children(c)' /\ Placed(c)' BY <1>8, <1>9 DEF Children, Placed
<1>18. CommandOK(c)' BY <1>11, <1>12, <1>13, <1>14, <1>15, <1>16, <1>17 DEF CommandOK
<1>19. OneOperation' /\ \A d \in Deploys : CommandOK(d)' BY <1>1, <1>9, <1>18, OthersAside DEF Survivors
<1> QED BY <1>1, <1>9, <1>19

(* The locals of a stop that goes on are well formed. *)
LEMMA NextStops ==
    ASSUME DeployRecords, NEW c \in Deploys, deploy[c].todo # <<>>
    PROVE /\ deploy[c].pc = "stop" => /\ [deploy[c] EXCEPT !.todo = Tail(@)] \in DeployRecord
                                      /\ NextStop(c, [deploy[c] EXCEPT !.todo = Tail(@)], deploy[c].stuck)
          /\ deploy[c].pc = "stop" => /\ [deploy[c] EXCEPT !.todo = Tail(@), !.stuck = TRUE] \in DeployRecord
                                      /\ NextStop(c, [deploy[c] EXCEPT !.todo = Tail(@), !.stuck = TRUE], TRUE)
          /\ [deploy[c] EXCEPT !.pc = "stop", !.todo = Tail(@)] \in DeployRecord
          /\ NextStop(c, [deploy[c] EXCEPT !.pc = "stop", !.todo = Tail(@)], deploy[c].stuck)
          /\ [deploy[c] EXCEPT !.pc = "stop", !.todo = Tail(@), !.stuck = TRUE] \in DeployRecord
          /\ NextStop(c, [deploy[c] EXCEPT !.pc = "stop", !.todo = Tail(@), !.stuck = TRUE], TRUE)
<1> DEFINE t == Tail(deploy[c].todo)
<1>1. deploy[c] \in DeployRecord /\ deploy[c].todo \in Todos BY DEF DeployRecords, DeployRecord
<1>2. t \in Todos BY <1>1, TodoFacts
<1>3. TRUE \in BOOLEAN OBVIOUS
<1>4. /\ \A i \in DeployRecord : \A x \in Todos : [i EXCEPT !.todo = x] \in DeployRecord
      /\ \A i \in DeployRecord : \A x \in Todos : [i EXCEPT !.pc = "stop", !.todo = x] \in DeployRecord
  BY DEF DeployRecord, DeployStates
<1>40. \A i \in DeployRecord : \A x \in Todos, y \in BOOLEAN : [i EXCEPT !.todo = x, !.stuck = y] \in DeployRecord
  BY DEF DeployRecord
<1>41. \A i \in DeployRecord : \A x \in Todos, y \in BOOLEAN : [i EXCEPT !.pc = "stop", !.todo = x, !.stuck = y] \in DeployRecord
  BY DEF DeployRecord, DeployStates
<1>5. /\ [deploy[c] EXCEPT !.todo = t] \in DeployRecord /\ [deploy[c] EXCEPT !.todo = t, !.stuck = TRUE] \in DeployRecord
      /\ [deploy[c] EXCEPT !.pc = "stop", !.todo = t] \in DeployRecord /\ [deploy[c] EXCEPT !.pc = "stop", !.todo = t, !.stuck = TRUE] \in DeployRecord
  <2> HIDE DEF t
  <2> QED BY <1>1, <1>2, <1>3, <1>4, <1>40, <1>41, Zenon
<1>6. deploy[c].pc = "stop" => NextStop(c, [deploy[c] EXCEPT !.todo = Tail(@)], deploy[c].stuck)
  BY <1>1 DEF NextStop, DeployRecord
<1>7. deploy[c].pc = "stop" => NextStop(c, [deploy[c] EXCEPT !.todo = Tail(@), !.stuck = TRUE], TRUE)
  BY <1>1 DEF NextStop, DeployRecord
<1>8. NextStop(c, [deploy[c] EXCEPT !.pc = "stop", !.todo = Tail(@)], deploy[c].stuck)
  BY <1>1 DEF NextStop, DeployRecord
<1>9. NextStop(c, [deploy[c] EXCEPT !.pc = "stop", !.todo = Tail(@), !.stuck = TRUE], TRUE)
  BY <1>1 DEF NextStop, DeployRecord
<1> QED BY <1>5, <1>6, <1>7, <1>8, <1>9

(* The removals of a record are removals. *)
LEMMA Forgotten ==
    ASSUME DeployInv, NEW s \in Services PROVE
        /\ record' = [record EXCEPT ![s] = 0] => RecordsKept
        /\ record' = RecordAfterLook(s) => RecordsKept
        /\ record' = [x \in Services |-> IF owner[x] = Unowned THEN 0 ELSE record[x]] => RecordsKept
<1>1. record \in [Services -> Procs \cup {0}] BY DEF DeployInv, DeployFiles
<1>2. record' = [record EXCEPT ![s] = 0] => RecordsKept BY <1>1 DEF RecordsKept
<1>3. record' = RecordAfterLook(s) => RecordsKept BY <1>1 DEF RecordsKept, RecordAfterLook
<1>4. record' = [x \in Services |-> IF owner[x] = Unowned THEN 0 ELSE record[x]] => RecordsKept
  BY <1>1 DEF RecordsKept
<1> QED BY <1>2, <1>3, <1>4

(* A step that touches no service keeps the lifetimes. *)
LEMMA LifetimesStay == ASSUME DeployInv, UNCHANGED <<svc, owner, taken>> PROVE Lifetimes' /\ ServiceRecords' /\ owner' \in LifetimeFiles
  BY DEF DeployInv, Lifetimes, Living, ServiceRecords, DeployFiles, LifetimeFiles

(* A service that comes up, or is asked to end, keeps its lifetime and its *)
(* place.                                                                  *)
LEMMA StateChanged ==
    ASSUME DeployInv, NEW p \in Procs, Living(p), NEW st \in {"up", "dying"}, svc' = [svc EXCEPT ![p].st = st], UNCHANGED <<owner, taken>>,
           st = "up" => svc[p].port \notin taken
    PROVE Survivors /\ ServiceRecords' /\ Lifetimes' /\ owner' \in LifetimeFiles
<1> DEFINE r == [svc[p] EXCEPT !.st = st]
<1>1. svc \in [Procs -> ServiceRecord] /\ owner \in LifetimeFiles
  BY DEF DeployInv, ServiceRecords, DeployFiles, LifetimeFiles
<1>2. \A i \in ServiceRecord : [i EXCEPT !.st = st] \in ServiceRecord BY DEF ServiceRecord
<1>3. svc[p] \in ServiceRecord BY <1>1
<1>4. r \in ServiceRecord BY <1>2, <1>3, Zenon
<1>5. r.st = st /\ r.svc = svc[p].svc /\ r.port = svc[p].port /\ r.target = svc[p].target /\ r.art = svc[p].art /\ r.token = svc[p].token /\ r.by = svc[p].by
  BY <1>3, Zenon DEF ServiceRecord
<1>6. svc' = [svc EXCEPT ![p] = r] OBVIOUS
<1> HIDE DEF r
<1>7. ServiceRecords' BY <1>1, <1>4, <1>6 DEF ServiceRecords
<1>8. svc'[p] = r /\ \A q \in Procs \ {p} : svc'[q] = svc[q] BY <1>1, <1>6
<1>9. \A q \in Procs : /\ Living(q)' <=> Living(q)
                       /\ svc'[q].svc = svc[q].svc /\ svc'[q].port = svc[q].port /\ svc'[q].target = svc[q].target
                       /\ svc'[q].art = svc[q].art /\ svc'[q].token = svc[q].token /\ svc'[q].by = svc[q].by
  BY <1>5, <1>8 DEF Living
<1>10. Survivors BY <1>5, <1>8, <1>9 DEF Survivors
<1>11. Lifetimes' BY <1>5, <1>8, <1>9 DEF DeployInv, Lifetimes
<1> QED BY <1>1, <1>7, <1>10, <1>11

(* A step that leaves the installed files alone leaves their types. *)
LEMMA FilesAlone == ASSUME DeployInv, UNCHANGED files PROVE FilesTyped'
  BY DEF DeployInv, DeployFiles, FilesTyped

(* ManagedService::stop up to SIGTERM keeps the invariant. *)
LEMMA StopServiceKeeps ==
    ASSUME DeployLocalAssumption, DeployInv, NEW c \in Deploys, StopService(c) PROVE DeployInv'
<1> DEFINE s == Head(deploy[c].todo)
<1>1. UNCHANGED <<owner, dstate, files, taken>> /\ deploy[c].pc = "stop" /\ deploy[c].todo # <<>> BY DEF StopService
<1>2. CommandOK(c) /\ DeployRecords /\ Exclusive(c) /\ opLock = c
  BY <1>1, HolderAlone DEF DeployInv, Holding, OneOperation
<1>3. deploy[c].todo \in Todos /\ deploy[c].stuck \in BOOLEAN BY <1>2 DEF DeployRecords, DeployRecord
<1>4. s \in Services BY <1>1, <1>3, TodoFacts
<1>5. FilesTyped' /\ TRUE \in BOOLEAN BY <1>1, FilesAlone
<1>6. CASE owner[s] = Unowned /\ record' = RecordAfterLook(s) /\ deploy' = [deploy EXCEPT ![c].todo = Tail(@)] /\ UNCHANGED <<opLock, svc>>
  <2> DEFINE r == [deploy[c] EXCEPT !.todo = Tail(@)]
  <2>1. r \in DeployRecord /\ NextStop(c, r, deploy[c].stuck) BY <1>1, <1>2, NextStops
  <2>2. deploy' = [deploy EXCEPT ![c] = r] BY <1>6
  <2> HIDE DEF r
  <2>3. RecordsKept BY <1>4, <1>6, Forgotten
  <2>4. Survivors /\ Lifetimes' /\ ServiceRecords' /\ owner' \in LifetimeFiles BY <1>1, <1>6, Unmoved, LifetimesStay
  <2>5. DeployRecords' /\ OneOperation' /\ (\A d \in Deploys : CommandOK(d)') /\ opLock' \in Deploys \cup {0}
    BY <1>1, <1>3, <1>6, <2>1, <2>2, <2>4, StopMovesOn
  <2> QED BY <1>1, <1>5, <2>3, <2>4, <2>5, SurvivorsKeep
<1>7. CASE owner[s] # Unowned /\ process_matches(s) /\ svc' = [svc EXCEPT ![record[s]].st = "dying"] /\ To(c, "term") /\ UNCHANGED <<opLock, record>>
  <2>1. record[s] \in Procs /\ Living(record[s]) BY <1>4, <1>7 DEF process_matches, DeployInv, DeployFiles
  <2>2. Survivors /\ ServiceRecords' /\ Lifetimes' /\ owner' \in LifetimeFiles BY <1>1, <1>7, <2>1, StateChanged
  <2>3. DeployRecords' /\ Others(c) /\ Same(c) /\ deploy'[c].pc = "term" BY <1>2, <1>7, MovedOn DEF DeployStates
  <2>4. Stopping(c) /\ (Ensuring(c)' <=> Ensuring(c)) /\ (StopsBefore(c)' <=> StopsBefore(c)) /\ Stopping(c)'
    BY <1>1, <2>3 DEF Stopping, Ensuring, StopsBefore, Same
  <2>5. Course(c)' BY <1>1, <1>2, <2>3, <2>4 DEF CommandOK, Course, Installing, Starting, Holding, Same
  <2>6. Cleared(c)' BY <1>1, <1>2, <2>3, <2>4 DEF CommandOK, Cleared, Same
  <2>7. Accounts(c)' BY <1>1, <1>2, <2>2, <2>3, <2>4 DEF CommandOK, Accounts, Accounted, Survivors, Same
  <2>8. ArtifactsBy(c)' BY <1>1, <1>2, <2>3, <2>4 DEF CommandOK, ArtifactsBy, Same
  <2>9. Placing(c)' BY <1>1, <1>2, <2>3, <2>4 DEF CommandOK, Placing, Same
  <2>10. Backends(c)' BY <1>1, <1>2, <2>2, <2>3, <2>4 DEF CommandOK, Backends, Survivors, Fits, Same
  <2>11. Children(c)' /\ Placed(c)' BY <2>3 DEF Children, Placed
  <2>12. CommandOK(c)' BY <2>5, <2>6, <2>7, <2>8, <2>9, <2>10, <2>11 DEF CommandOK
  <2>13. OneOperation' /\ \A d \in Deploys : CommandOK(d)'
    BY <1>1, <1>2, <1>7, <2>2, <2>3, <2>12, OthersAside DEF Survivors
  <2>14. opLock' \in Deploys \cup {0} /\ RecordsKept BY <1>2, <1>7 DEF DeployInv, DeployFiles, RecordsKept
  <2> QED BY <1>1, <1>5, <2>2, <2>3, <2>13, <2>14, SurvivorsKeep
<1>8. CASE deploy[c].hard /\ deploy' = Ended(c, "failed", TRUE, {}) /\ opLock' = 0 /\ UNCHANGED <<svc, record>>
  <2>1. Survivors /\ RecordsKept /\ {} \in SUBSET Services /\ "failed" \in {"ok", "failed"}
    BY <1>1, <1>8, Unmoved, FilesStay
  <2>2. DeployRecords' /\ OneOperation' /\ (\A d \in Deploys : CommandOK(d)') /\ opLock' \in Deploys \cup {0}
    BY <1>1, <1>2, <1>5, <1>8, <2>1, EndsAside
  <2> QED BY <1>1, <1>5, <1>8, <2>1, <2>2, ServicesUntouched
<1>9. CASE ~deploy[c].hard /\ deploy' = [deploy EXCEPT ![c].todo = Tail(@), ![c].stuck = TRUE] /\ UNCHANGED <<opLock, svc, record>>
  <2> DEFINE r == [deploy[c] EXCEPT !.todo = Tail(@), !.stuck = TRUE]
  <2>1. r \in DeployRecord /\ NextStop(c, r, TRUE) BY <1>1, <1>2, NextStops
  <2>2. deploy' = [deploy EXCEPT ![c] = r] BY <1>9
  <2> HIDE DEF r
  <2>3. Survivors /\ Lifetimes' /\ RecordsKept BY <1>1, <1>9, Unmoved, LifetimesStay, FilesStay
  <2>4. deploy[c].then = "failed" BY <1>1, <1>2, <1>9 DEF CommandOK, Course, Stopping
  <2>5. DeployRecords' /\ OneOperation' /\ (\A d \in Deploys : CommandOK(d)') /\ opLock' \in Deploys \cup {0}
    BY <1>1, <1>5, <1>9, <2>1, <2>2, <2>3, <2>4, StopMovesOn
  <2> QED BY <1>1, <1>5, <1>9, <2>3, <2>5, ServicesUntouched
<1> QED BY <1>6, <1>7, <1>8, <1>9 DEF StopService

(* wait_for_unlock and SIGKILL: the record names the holder, so what is *)
(* killed is what held the lifetime.                                    *)
LEMMA WaitStoppedKeeps ==
    ASSUME DeployLocalAssumption, DeployInv, NEW c \in Deploys, WaitStopped(c) PROVE DeployInv'
<1> DEFINE s == Head(deploy[c].todo)
           r == [deploy[c] EXCEPT !.pc = "stop", !.todo = Tail(@)]
           z == [deploy[c] EXCEPT !.pc = "stop", !.todo = Tail(@), !.stuck = TRUE]
<1>1. UNCHANGED <<dstate, files, taken>> /\ deploy[c].pc = "term" BY DEF WaitStopped
<1>2. CommandOK(c) /\ DeployRecords /\ Exclusive(c) /\ opLock = c
  BY <1>1, HolderAlone DEF DeployInv, Holding, OneOperation
<1>3. deploy[c].todo \in Todos /\ deploy[c].stuck \in BOOLEAN /\ deploy[c].todo # <<>>
  BY <1>1, <1>2 DEF DeployRecords, DeployRecord, CommandOK, Course
<1>4. s \in Services BY <1>3, TodoFacts
<1>5. FilesTyped' /\ TRUE \in BOOLEAN BY <1>1, FilesAlone
<1>6. r \in DeployRecord /\ NextStop(c, r, deploy[c].stuck) /\ z \in DeployRecord /\ NextStop(c, z, TRUE)
  BY <1>2, <1>3, NextStops
<1>7. CASE owner[s] = Unowned /\ record' = [record EXCEPT ![s] = 0] /\ deploy' = [deploy EXCEPT ![c] = r] /\ UNCHANGED <<opLock, svc, owner>>
  <2> HIDE DEF r
  <2>3. RecordsKept BY <1>4, <1>7, Forgotten
  <2>4. Survivors /\ Lifetimes' /\ ServiceRecords' /\ owner' \in LifetimeFiles BY <1>1, <1>7, Unmoved, LifetimesStay
  <2>5. DeployRecords' /\ OneOperation' /\ (\A d \in Deploys : CommandOK(d)') /\ opLock' \in Deploys \cup {0}
    BY <1>1, <1>3, <1>6, <1>7, <2>4, StopMovesOn
  <2> QED BY <1>1, <1>5, <2>3, <2>4, <2>5, SurvivorsKeep
<1>8. CASE owner[s] # Unowned /\ process_matches(s) /\ Kill(record[s]) /\ record' = [record EXCEPT ![s] = 0] /\ deploy' = [deploy EXCEPT ![c] = r] /\ UNCHANGED opLock
  <2> HIDE DEF r
  <2>1. record[s] \in Procs /\ svc[record[s]].st # "none"
    BY <1>4, <1>8 DEF process_matches, Living, DeployInv, DeployFiles
  <2>2. owner[s] = <<"proc", record[s]>> BY <1>4, <1>8 DEF process_matches, DeployInv, RecordNamesHolder
  <2>3. RecordsKept BY <1>4, <1>8, Forgotten
  <2>4. Survivors /\ Lifetimes' /\ ServiceRecords' /\ owner' \in LifetimeFiles /\ owner'[s] = Unowned
    BY <1>1, <1>4, <1>8, <2>1, <2>2, KillFacts
  <2>5. DeployRecords' /\ OneOperation' /\ (\A d \in Deploys : CommandOK(d)') /\ opLock' \in Deploys \cup {0}
    BY <1>1, <1>3, <1>6, <1>8, <2>4, StopMovesOn
  <2> QED BY <1>1, <1>5, <2>3, <2>4, <2>5, SurvivorsKeep
<1>9. CASE deploy[c].hard /\ deploy' = Ended(c, "failed", TRUE, {}) /\ opLock' = 0 /\ UNCHANGED <<svc, owner, record>>
  <2>1. Survivors /\ RecordsKept /\ {} \in SUBSET Services /\ "failed" \in {"ok", "failed"}
    BY <1>1, <1>9, Unmoved, FilesStay
  <2>2. DeployRecords' /\ OneOperation' /\ (\A d \in Deploys : CommandOK(d)') /\ opLock' \in Deploys \cup {0}
    BY <1>1, <1>2, <1>5, <1>9, <2>1, EndsAside
  <2> QED BY <1>1, <1>5, <1>9, <2>1, <2>2, ServicesUntouched
<1>10. CASE ~deploy[c].hard /\ deploy' = [deploy EXCEPT ![c] = z] /\ UNCHANGED <<opLock, svc, owner, record>>
  <2> HIDE DEF z
  <2>3. Survivors /\ Lifetimes' /\ RecordsKept BY <1>1, <1>10, Unmoved, LifetimesStay, FilesStay
  <2>4. deploy[c].then = "failed" BY <1>1, <1>2, <1>10 DEF CommandOK, Course, Stopping
  <2>5. DeployRecords' /\ OneOperation' /\ (\A d \in Deploys : CommandOK(d)') /\ opLock' \in Deploys \cup {0}
    BY <1>1, <1>3, <1>5, <1>6, <1>10, <2>3, <2>4, StopMovesOn
  <2> QED BY <1>1, <1>5, <1>10, <2>3, <2>5, ServicesUntouched
<1> QED BY <1>7, <1>8, <1>9, <1>10 DEF WaitStopped

(* The locals of a command that has ensured a service. *)
EnsuredAs(c, r, port, new) ==
    /\ r.op = deploy[c].op /\ r.prev = deploy[c].prev /\ r.stuck = deploy[c].stuck /\ r.new = new /\ r.at = "dashboard"
    /\ deploy[c].at = "dashboard" => r.pc = "state" /\ r.ports.b = deploy[c].ports.b /\ r.ports.d = port
    /\ deploy[c].at = "backend" =>
          /\ r.ports.b = port
          /\ deploy[c].prev.b = 0 \/ deploy[c].prev.b = port => r.pc = "look"
          /\ ~(deploy[c].prev.b = 0 \/ deploy[c].prev.b = port) => r.pc = "stop" /\ r.hard = TRUE /\ r.then = "look" /\ r.todo = <<"dashboard">>

(* What a command goes on with once a service is ensured. *)
LEMMA EnsuredRecord ==
    ASSUME DeployLocalAssumption, DeployRecords, NEW c \in Deploys, NEW port \in PortNumbers, NEW started \in BOOLEAN,
           NEW new \in SUBSET Services, new = IF started THEN deploy[c].new \cup {deploy[c].at} ELSE deploy[c].new
    PROVE Ensured(c, port, started) \in DeployRecord /\ EnsuredAs(c, Ensured(c, port, started), port, new)
<1> DEFINE ps == SetPort(c, port)
           d == [deploy[c] EXCEPT !.ports = ps, !.new = new, !.child = 0]
           d1 == [d EXCEPT !.pc = "state"]
           d2 == [d EXCEPT !.at = "dashboard", !.pc = "look"]
           d3 == [d EXCEPT !.at = "dashboard", !.pc = "stop", !.hard = TRUE, !.then = "look", !.todo = <<"dashboard">>]
<1>1. deploy[c] \in DeployRecord BY DEF DeployRecords
<1>2. deploy[c].ports \in [b : PortNumbers, d : PortNumbers] /\ deploy[c].at \in {"backend", "dashboard"}
  BY <1>1 DEF DeployRecord, Services
<1>3. /\ ps \in [b : PortNumbers, d : PortNumbers]
      /\ deploy[c].at = "backend" => ps.b = port
      /\ deploy[c].at = "dashboard" => ps.b = deploy[c].ports.b /\ ps.d = port
  BY <1>2 DEF SetPort
<1>4. Ensured(c, port, started) = IF deploy[c].at = "dashboard" THEN d1 ELSE IF deploy[c].prev.b = 0 \/ deploy[c].prev.b = port THEN d2 ELSE d3
  BY <1>1 DEF DeployRecord, Ensured
<1> HIDE DEF ps
<1>5. \A i \in DeployRecord : \A x \in [b : PortNumbers, d : PortNumbers], n \in SUBSET Services : [i EXCEPT !.ports = x, !.new = n, !.child = 0] \in DeployRecord
  BY DEF DeployRecord
<1>6. d \in DeployRecord BY <1>1, <1>3, <1>5, Zenon
<1>7. /\ d.op = deploy[c].op /\ d.prev = deploy[c].prev /\ d.stuck = deploy[c].stuck /\ d.new = new /\ d.ports = ps /\ d.at = deploy[c].at
  BY <1>1, Zenon DEF DeployRecord
<1> HIDE DEF d
<1>8. d1 \in DeployRecord /\ d1.op = d.op /\ d1.prev = d.prev /\ d1.stuck = d.stuck /\ d1.new = d.new /\ d1.ports = d.ports /\ d1.at = d.at /\ d1.pc = "state"
  BY <1>6 DEF DeployRecord, DeployStates
<1>9. d2 \in DeployRecord /\ d2.op = d.op /\ d2.prev = d.prev /\ d2.stuck = d.stuck /\ d2.new = d.new /\ d2.ports = d.ports /\ d2.at = "dashboard" /\ d2.pc = "look"
  BY <1>6 DEF DeployRecord, DeployStates, Services
<1>10. d3 \in DeployRecord BY <1>6 DEF Services, DeployStates, DeployRecord, Todos
<1>11. /\ d3.op = d.op /\ d3.prev = d.prev /\ d3.stuck = d.stuck /\ d3.new = d.new /\ d3.ports = d.ports /\ d3.at = "dashboard" /\ d3.pc = "stop"
       /\ d3.hard = TRUE /\ d3.then = "look" /\ d3.todo = <<"dashboard">>
  BY <1>6 DEF DeployRecord
<1> HIDE DEF d1, d2, d3
<1>12. CASE deploy[c].at = "dashboard" BY <1>3, <1>4, <1>7, <1>8, <1>12 DEF EnsuredAs
<1>13. CASE deploy[c].at = "backend" /\ (deploy[c].prev.b = 0 \/ deploy[c].prev.b = port)
  BY <1>3, <1>4, <1>7, <1>9, <1>13 DEF EnsuredAs
<1>14. CASE deploy[c].at = "backend" /\ ~(deploy[c].prev.b = 0 \/ deploy[c].prev.b = port)
  BY <1>3, <1>4, <1>7, <1>10, <1>11, <1>14 DEF EnsuredAs
<1> QED BY <1>2, <1>12, <1>13, <1>14

(* The ports a start took over are those of a current state file, or none. *)
LEMMA PreviousPorts ==
    ASSUME DeployLocalAssumption, DeployInv, NEW c \in Deploys, Ensuring(c)
    PROVE /\ deploy[c].prev.b = 0 <=> deploy[c].prev = NoState
          /\ deploy[c].prev.d = 0 <=> deploy[c].prev = NoState
          /\ deploy[c].prev # NoState => /\ deploy[c].prev = dstate /\ dstate # NoState /\ dstate.current
                                         /\ deploy[c].prev.b \in Ports /\ deploy[c].prev.d \in Ports /\ deploy[c].prev.b # deploy[c].prev.d
<1>1. \/ deploy[c].prev = NoState
      \/ deploy[c].prev = dstate /\ dstate # NoState /\ dstate.current
  BY DEF DeployInv, CommandOK, Placing
<1>2. dstate # NoState => dstate.b \in Ports /\ dstate.d \in Ports /\ dstate.b # dstate.d
  BY DEF DeployInv, DeployFiles
<1>3. 0 \notin Ports BY DEF DeployLocalAssumption
<1> QED BY <1>1, <1>2, <1>3 DEF NoState

(* A service that answers at a port shows that no other program took it. *)
LEMMA AnswerShows ==
    ASSUME DeployInv, NEW port, http_ready(port)
    PROVE /\ port \notin taken
          /\ \E p \in Procs : Living(p) /\ svc[p].port = port /\ svc[p].svc \in Services /\ owner[svc[p].svc] = <<"proc", p>>
<1>1. PICK p \in Procs : svc[p].st = "up" /\ svc[p].port = port BY DEF http_ready
<1>2. Living(p) BY <1>1 DEF Living
<1> QED BY <1>1, <1>2 DEF DeployInv, Lifetimes

(* A service has one living process. *)
LEMMA TheOne ==
    ASSUME DeployInv, NEW p \in Procs, NEW q \in Procs, Living(p), Living(q), svc[p].svc = svc[q].svc
    PROVE p = q
<1>1. owner[svc[p].svc] = <<"proc", p>> /\ owner[svc[q].svc] = <<"proc", q>> BY DEF DeployInv, Lifetimes
<1> QED BY <1>1

(* A backend in place: the dashboard is looked at next, or stopped because *)
(* it served another address.                                              *)
LEMMA BackendEnsured ==
    ASSUME DeployLocalAssumption, DeployInv, NEW c \in Deploys, deploy[c].pc \in {"look", "wait"}, deploy[c].at = "backend",
           NEW port \in Ports, NEW new \in SUBSET Services, NEW r \in DeployRecord,
           deploy' = [deploy EXCEPT ![c] = r], EnsuredAs(c, r, port, new), "dashboard" \notin new,
           UNCHANGED <<opLock, svc, owner, dstate, files, taken>>, RecordsKept,
           deploy[c].prev # NoState => port = deploy[c].prev.b \/ deploy[c].prev.b \in taken,
           deploy[c].prev = NoState => owner["dashboard"] = Unowned,
           port \notin taken,
           \A p \in Procs : Living(p) /\ svc[p].svc = "backend" => Fits(p, port),
           \A p \in Procs : Living(p) /\ svc[p].by = c => svc[p].svc \in new
    PROVE DeployInv'
<1>1. CommandOK(c) /\ DeployRecords /\ Exclusive(c) /\ opLock = c BY HolderAlone DEF DeployInv, Holding, OneOperation
<1>2. DeployRecords' /\ Others(c) /\ deploy'[c] = r BY <1>1 DEF DeployRecords, Others
<1>3. r.op = "start" /\ r.prev = deploy[c].prev /\ r.new = new /\ r.at = "dashboard" /\ r.ports.b = port
  BY <1>1 DEF EnsuredAs, CommandOK, Course, Starting, Holding
<1>4. \/ r.pc = "look" /\ (deploy[c].prev.b = 0 \/ deploy[c].prev.b = port)
      \/ r.pc = "stop" /\ r.hard = TRUE /\ r.then = "look" /\ r.todo = <<"dashboard">> /\ ~(deploy[c].prev.b = 0 \/ deploy[c].prev.b = port)
  BY DEF EnsuredAs
<1>5. Ensuring(c) /\ Ensuring(c)' BY <1>2, <1>4 DEF Ensuring, StopsBefore, Stopping
<1>6. Course(c)' BY <1>2, <1>3, <1>4 DEF Course, Installing, Starting, Holding, Stopping
<1>7. Cleared(c)' BY <1>2, <1>3, <1>4 DEF Cleared, Services, InTodo, Stopping
<1>8. Accounts(c)' BY <1>2, <1>3, <1>4, <1>5 DEF Accounts, Accounted, Living
<1>9. ArtifactsBy(c)' BY <1>1, <1>2, <1>4, <1>5 DEF CommandOK, ArtifactsBy
<1>10. Placing(c)' BY <1>1, <1>2, <1>3, <1>4, <1>5 DEF CommandOK, Placing
<1>11. Backends(c)'
  <2>1. ASSUME r.pc = "look", owner["dashboard"] # Unowned
        PROVE r.prev # NoState /\ port = r.prev.b /\ \A p \in Procs : Living(p) => Fits(p, port)
    BY <1>3, <1>4, <1>5, <2>1, PreviousPorts DEF DeployInv, Deployed
  <2> QED BY <1>2, <1>3, <2>1 DEF Backends, Living, Fits
<1>12. Children(c)' /\ Placed(c)' BY <1>2, <1>4 DEF Children, Placed
<1>13. CommandOK(c)' BY <1>6, <1>7, <1>8, <1>9, <1>10, <1>11, <1>12 DEF CommandOK
<1>14. FilesTyped' BY FilesAlone
<1> QED BY <1>1, <1>2, <1>13, <1>14, MovesKeeps

(* Every living dashboard is of published artifacts, for the chosen *)
(* backend, at this port.                                           *)
DashboardAt(c, port) ==
    \A p \in Procs : Living(p) /\ svc[p].svc = "dashboard" =>
        svc[p].art = Good /\ svc[p].target = deploy[c].ports.b /\ svc[p].port = port
(* The living services a command started are among these. *)
OwnIn(c, new) == \A p \in Procs : Living(p) /\ svc[p].by = c => svc[p].svc \in new

(* A dashboard in place: everything that lives is at the chosen ports. *)
LEMMA DashboardEnsured ==
    ASSUME DeployLocalAssumption, DeployInv, NEW c \in Deploys, deploy[c].pc \in {"look", "wait"}, deploy[c].at = "dashboard",
           NEW port \in Ports, NEW new \in SUBSET Services, NEW r \in DeployRecord,
           deploy' = [deploy EXCEPT ![c] = r], EnsuredAs(c, r, port, new),
           UNCHANGED <<opLock, svc, owner, dstate, files, taken>>, RecordsKept,
           port # deploy[c].ports.b,
           DashboardAt(c, port), OwnIn(c, new)
    PROVE DeployInv'
<1>1. CommandOK(c) /\ DeployRecords /\ Exclusive(c) /\ opLock = c BY HolderAlone DEF DeployInv, Holding, OneOperation
<1>2. DeployRecords' /\ Others(c) /\ deploy'[c] = r BY <1>1 DEF DeployRecords, Others
<1>3. r.op = "start" /\ r.prev = deploy[c].prev /\ r.new = new /\ r.at = "dashboard" /\ r.ports.b = deploy[c].ports.b /\ r.ports.d = port /\ r.pc = "state"
  BY <1>1 DEF EnsuredAs, CommandOK, Course, Starting, Holding
<1>4. Ensuring(c) BY DEF Ensuring
<1>5. Course(c)' BY <1>2, <1>3 DEF Course, Installing, Starting, Holding, Stopping, Ensuring, StopsBefore
<1>6. Accounts(c)' BY <1>2, <1>3 DEF Accounts, Accounted, Living, OwnIn
<1>7. ArtifactsBy(c)' BY <1>1, <1>2, <1>3, <1>4 DEF CommandOK, ArtifactsBy
<1>8. Placing(c)' BY <1>1, <1>2, <1>3, <1>4 DEF CommandOK, Placing, StopsBefore, Stopping
<1>9. Placed(c)'
  <2>1. deploy[c].ports.b \in Ports BY <1>1, <1>4 DEF CommandOK, Placing
  <2>2. \A p \in Procs : Living(p) /\ svc[p].svc = "backend" => Fits(p, deploy[c].ports.b)
    BY <1>1, <1>4 DEF CommandOK, Backends
  <2>3. \A p \in Procs : Living(p) => svc[p].svc \in {"backend", "dashboard"} BY DEF DeployInv, Lifetimes, Services
  <2> QED BY <1>2, <1>3, <2>1, <2>2, <2>3 DEF Placed, Living, Fits, DashboardAt
<1>10. Children(c)' /\ Cleared(c)' /\ Backends(c)'
  BY <1>2, <1>3 DEF Children, Cleared, Backends, Stopping, Ensuring, StopsBefore
<1>11. CommandOK(c)' BY <1>5, <1>6, <1>7, <1>8, <1>9, <1>10 DEF CommandOK
<1>12. FilesTyped' BY FilesAlone
<1> QED BY <1>1, <1>2, <1>11, <1>12, MovesKeeps

(* wait_until_ready: the child that answers holds the lifetime, so it is *)
(* the service.                                                          *)
LEMMA ServiceReadyKeeps ==
    ASSUME DeployLocalAssumption, DeployInv, NEW c \in Deploys, ServiceReady(c) PROVE DeployInv'
<1> DEFINE new == deploy[c].new \cup {deploy[c].at}
           r == Ensured(c, MyPort(c), TRUE)
<1>1. UNCHANGED <<opLock, svc, owner, record, dstate, files, taken>> /\ deploy[c].pc = "wait" /\ http_ready(MyPort(c))
  BY DEF ServiceReady
<1>2. CommandOK(c) /\ DeployRecords /\ RecordsKept BY <1>1, FilesStay DEF DeployInv
<1>3. deploy[c].at \in {"backend", "dashboard"} /\ deploy[c].new \in SUBSET Services
  BY <1>2 DEF DeployRecords, DeployRecord, Services
<1>4. new \in SUBSET Services /\ TRUE \in BOOLEAN BY <1>3 DEF Services
<1>5. Ensuring(c) BY <1>1 DEF Ensuring
<1>6. MyPort(c) \in Ports BY <1>1, <1>2, <1>3, <1>5 DEF CommandOK, Placing, MyPort
<1>7. MyPort(c) \in PortNumbers BY <1>6 DEF PortNumbers
<1>8. r \in DeployRecord /\ EnsuredAs(c, r, MyPort(c), new) BY <1>2, <1>4, <1>7, EnsuredRecord
<1>9. deploy' = [deploy EXCEPT ![c] = r] BY DEF ServiceReady
<1>10. deploy[c].child \in Procs /\ owner[deploy[c].at] \in {Unowned, <<"proc", deploy[c].child>>}
       /\ (Living(deploy[c].child) => /\ svc[deploy[c].child].svc = deploy[c].at /\ svc[deploy[c].child].art = Good
                                      /\ svc[deploy[c].child].target = deploy[c].ports.b /\ svc[deploy[c].child].port = MyPort(c))
  BY <1>1, <1>2 DEF CommandOK, Children
<1>11. \A p \in Procs : Living(p) /\ svc[p].svc = deploy[c].at => p = deploy[c].child
  BY <1>10 DEF DeployInv, Lifetimes, Unowned
<1>12. \A p \in Procs : Living(p) /\ svc[p].by = c => svc[p].svc \in new
  BY <1>1, <1>2, <1>10 DEF CommandOK, Accounts, Accounted, Stopping
<1>13. MyPort(c) \notin taken BY <1>1, AnswerShows
<1> HIDE DEF new, r
<1>14. CASE deploy[c].at = "backend"
  <2>1. MyPort(c) = deploy[c].ports.b BY <1>14 DEF MyPort
  <2>2. \A p \in Procs : Living(p) /\ svc[p].svc = "backend" => Fits(p, MyPort(c))
    BY <1>10, <1>11, <1>14, <2>1 DEF Fits
  <2>3. deploy[c].prev # NoState => MyPort(c) = deploy[c].prev.b \/ deploy[c].prev.b \in taken
    BY <1>1, <1>2, <1>5, <2>1 DEF CommandOK, Placing
  <2>4. deploy[c].prev = NoState => owner["dashboard"] = Unowned BY <1>1, <1>2, <1>14 DEF CommandOK, Cleared
  <2>5. "dashboard" \notin new BY <1>2, <1>5, <1>14 DEF new, CommandOK, Course
  <2> QED BY <1>1, <1>2, <1>4, <1>6, <1>8, <1>9, <1>12, <1>13, <1>14, <2>2, <2>3, <2>4, <2>5, BackendEnsured
<1>15. CASE deploy[c].at = "dashboard"
  <2>1. MyPort(c) # deploy[c].ports.b BY <1>1, <1>2, <1>5, <1>15 DEF CommandOK, Placing, MyPort
  <2>2. DashboardAt(c, MyPort(c)) /\ OwnIn(c, new) BY <1>10, <1>11, <1>12, <1>15 DEF DashboardAt, OwnIn
  <2>3. deploy[c].pc \in {"look", "wait"} BY <1>1
  <2>4. UNCHANGED <<opLock, svc, owner, dstate, files, taken>> BY <1>1
  <2> QED BY <1>2, <1>4, <1>6, <1>8, <1>9, <1>15, <2>1, <2>2, <2>3, <2>4, DashboardEnsured
<1> QED BY <1>3, <1>14, <1>15

(* ensure_backend and ensure_dashboard reuse what runs: it answers at the *)
(* port of a current state file, so it belongs to that deployment.        *)
LEMMA LookReuses ==
    ASSUME DeployLocalAssumption, DeployInv, NEW c \in Deploys, deploy[c].pc = "look", PrevPort(c) # 0,
           ServiceStatus(deploy[c].at, PrevPort(c)) = "Running", deploy' = [deploy EXCEPT ![c] = Ensured(c, PrevPort(c), FALSE)],
           UNCHANGED <<opLock, svc, owner, dstate, files, taken>>, RecordsKept
    PROVE DeployInv'
<1> DEFINE new == deploy[c].new
           r == Ensured(c, PrevPort(c), FALSE)
<1>1. owner[deploy[c].at] # Unowned /\ http_ready(PrevPort(c)) BY DEF ServiceStatus
<1>2. CommandOK(c) /\ DeployRecords /\ Ensuring(c) BY DEF DeployInv, Ensuring
<1>3. deploy[c].at \in {"backend", "dashboard"} /\ new \in SUBSET Services /\ FALSE \in BOOLEAN
  BY <1>2 DEF DeployRecords, DeployRecord, Services
<1>4. deploy[c].prev # NoState BY <1>2, PreviousPorts DEF PrevPort
<1>5. /\ deploy[c].prev = dstate /\ dstate # NoState /\ dstate.current
      /\ deploy[c].prev.b \in Ports /\ deploy[c].prev.d \in Ports /\ deploy[c].prev.b # deploy[c].prev.d
  BY <1>2, <1>4, PreviousPorts
<1>6. PrevPort(c) \in Ports BY <1>5 DEF PrevPort
<1>7. PrevPort(c) \in PortNumbers BY <1>6 DEF PortNumbers
<1>8. r \in DeployRecord /\ EnsuredAs(c, r, PrevPort(c), new) BY <1>2, <1>3, <1>7, EnsuredRecord
<1>9. deploy' = [deploy EXCEPT ![c] = r] OBVIOUS
<1>10. OwnIn(c, new) BY <1>2 DEF CommandOK, Accounts, Accounted, Stopping, OwnIn
<1>11. PrevPort(c) \notin taken BY <1>1, AnswerShows
<1>12. "dashboard" \notin new BY <1>2 DEF CommandOK, Course
<1>13. deploy[c].pc \in {"look", "wait"} OBVIOUS
<1> HIDE DEF new, r
<1>14. CASE deploy[c].at = "backend"
  <2>1. PrevPort(c) = deploy[c].prev.b BY <1>14 DEF PrevPort
  <2>2. \A p \in Procs : Living(p) => Fits(p, PrevPort(c)) BY <1>5, <1>11, <2>1 DEF DeployInv, Deployed
  <2>3. \A p \in Procs : Living(p) /\ svc[p].by = c => svc[p].svc \in new BY <1>10 DEF OwnIn
  <2> QED BY <1>3, <1>4, <1>6, <1>8, <1>9, <1>11, <1>12, <1>13, <1>14, <2>1, <2>2, <2>3, BackendEnsured
<1>15. CASE deploy[c].at = "dashboard"
  <2>1. PrevPort(c) = deploy[c].prev.d BY <1>15 DEF PrevPort
  <2>2. deploy[c].ports.b = deploy[c].prev.b /\ \A p \in Procs : Living(p) => Fits(p, deploy[c].ports.b)
    BY <1>1, <1>2, <1>15 DEF CommandOK, Backends
  <2>3. PrevPort(c) # deploy[c].ports.b BY <1>5, <2>1, <2>2
  <2>4. PICK q \in Procs : Living(q) /\ svc[q].port = PrevPort(c) /\ svc[q].svc \in Services BY <1>1, AnswerShows
  <2>5. svc[q].svc = "dashboard" BY <2>2, <2>3, <2>4 DEF Fits, Services
  <2>6. DashboardAt(c, PrevPort(c)) BY <2>2, <2>4, <2>5, TheOne DEF DashboardAt, Fits
  <2> QED BY <1>3, <1>6, <1>8, <1>9, <1>10, <1>13, <1>15, <2>3, <2>6, DashboardEnsured
<1> QED BY <1>3, <1>14, <1>15

(* ensure_backend and ensure_dashboard choose a port: the previous backend *)
(* port is not free only when another program took it, since a backend at  *)
(* it would hold its lifetime.                                             *)
LEMMA LookLaunches ==
    ASSUME DeployLocalAssumption, DeployInv, NEW c \in Deploys, deploy[c].pc = "look",
           PrevPort(c) # 0 => owner[deploy[c].at] = Unowned,
           NEW port \in available_port(PrevPort(c), IF deploy[c].at = "backend" THEN 0 ELSE deploy[c].ports.b),
           deploy' = [deploy EXCEPT ![c].pc = "launch", ![c].ports = SetPort(c, port)],
           UNCHANGED <<opLock, svc, owner, dstate, files, taken>>, RecordsKept
    PROVE DeployInv'
<1> DEFINE ps == SetPort(c, port)
           r == [deploy[c] EXCEPT !.pc = "launch", !.ports = ps]
<1>1. CommandOK(c) /\ DeployRecords /\ Ensuring(c) /\ Exclusive(c) /\ opLock = c
  BY HolderAlone DEF DeployInv, Ensuring, Holding, OneOperation
<1>2. deploy[c] \in DeployRecord BY <1>1 DEF DeployRecords
<1>3. /\ deploy[c].at \in {"backend", "dashboard"} /\ deploy[c].ports \in [b : PortNumbers, d : PortNumbers]
      /\ deploy[c].prev.b \in PortNumbers /\ deploy[c].prev.d \in PortNumbers
  BY <1>2 DEF DeployRecord, Services, StateRecord
<1>4. port \in Ports BY <1>3 DEF available_port, PrevPort, PortNumbers
<1>5. /\ deploy[c].at = "backend" /\ deploy[c].prev.b # 0 /\ ~PortInUse(deploy[c].prev.b) => port = deploy[c].prev.b
      /\ deploy[c].at = "dashboard" => port # deploy[c].ports.b
  BY <1>3 DEF available_port, PrevPort
<1>6. /\ ps \in [b : PortNumbers, d : PortNumbers]
      /\ deploy[c].at = "backend" => ps.b = port
      /\ deploy[c].at = "dashboard" => ps.b = deploy[c].ports.b /\ ps.d = port
  BY <1>3, <1>4 DEF SetPort, PortNumbers
<1>7. deploy' = [deploy EXCEPT ![c] = r] OBVIOUS
<1> HIDE DEF ps
<1>8. \A i \in DeployRecord : \A x \in [b : PortNumbers, d : PortNumbers] : [i EXCEPT !.pc = "launch", !.ports = x] \in DeployRecord
  BY DEF DeployRecord, DeployStates
<1>9. r \in DeployRecord BY <1>2, <1>6, <1>8, Zenon
<1>10. r.pc = "launch" /\ r.op = deploy[c].op /\ r.prev = deploy[c].prev /\ r.at = deploy[c].at /\ r.new = deploy[c].new /\ r.ports = ps
  BY <1>2, Zenon DEF DeployRecord
<1> HIDE DEF r
<1>11. DeployRecords' /\ Others(c) /\ deploy'[c] = r BY <1>1, <1>7, <1>9, ZenonT(30) DEF DeployRecords, Others
<1>12. Course(c)'
  BY <1>1, <1>10, <1>11 DEF CommandOK, Course, Installing, Starting, Holding, Stopping, Ensuring, StopsBefore
<1>13. owner[deploy[c].at] = Unowned BY <1>1, <1>3, PreviousPorts DEF PrevPort, CommandOK, Cleared, Backends
<1>14. Cleared(c)' BY <1>1, <1>10, <1>11, <1>13 DEF CommandOK, Cleared, Stopping
<1>15. Accounts(c)' BY <1>1, <1>10, <1>11 DEF CommandOK, Accounts, Accounted, Ensuring, Living, Stopping
<1>16. ArtifactsBy(c)' BY <1>1, <1>10, <1>11 DEF CommandOK, ArtifactsBy
<1>17. deploy[c].prev # NoState /\ deploy[c].at = "backend" => port = deploy[c].prev.b \/ deploy[c].prev.b \in taken
  BY <1>1, <1>5, <1>13, PreviousPorts DEF DeployInv, Deployed, Lifetimes, Living, Fits, Services, Unowned, PortInUse
<1>18. Placing(c)'
  <2>1. deploy[c].at = "dashboard" => deploy[c].ports.b \in Ports BY <1>1 DEF CommandOK, Placing
  <2>2. \/ deploy[c].prev = NoState /\ (dstate = NoState \/ ~dstate.current)
        \/ deploy[c].prev = dstate /\ dstate # NoState /\ dstate.current
    BY <1>1 DEF CommandOK, Placing
  <2>3. deploy[c].prev # NoState => r.ports.b = deploy[c].prev.b \/ deploy[c].prev.b \in taken
    BY <1>1, <1>3, <1>6, <1>10, <1>17 DEF CommandOK, Placing
  <2>4. r.ports.b \in Ports /\ (r.at = "dashboard" => r.ports.d \in Ports /\ r.ports.d # r.ports.b)
    BY <1>3, <1>4, <1>5, <1>6, <1>10, <2>1
  <2>5. ~StopsBefore(c)' BY <1>10, <1>11 DEF StopsBefore, Stopping
  <2>6. deploy'[c].pc = "launch" /\ deploy'[c].prev = deploy[c].prev /\ deploy'[c].ports = r.ports /\ deploy'[c].at = r.at
    BY <1>10, <1>11
  <2> QED BY <2>2, <2>3, <2>4, <2>5, <2>6 DEF Placing
<1>19. Backends(c)' BY <1>1, <1>6, <1>10, <1>11 DEF CommandOK, Backends, Living, Fits
<1>20. Children(c)' /\ Placed(c)' BY <1>10, <1>11 DEF Children, Placed
<1>21. CommandOK(c)' BY <1>12, <1>14, <1>15, <1>16, <1>18, <1>19, <1>20 DEF CommandOK
<1>22. FilesTyped' BY FilesAlone
<1> QED BY <1>1, <1>11, <1>21, <1>22, MovesKeeps

(* A command that looks or launches names every living service it started. *)
LEMMA OwnStarted ==
    ASSUME DeployInv, NEW c \in Deploys, deploy[c].pc \in {"look", "launch"} PROVE OwnIn(c, deploy[c].new)
  BY DEF DeployInv, CommandOK, Accounts, Accounted, Stopping, OwnIn

(* ensure_backend and ensure_dashboard, up to the launch, keep the *)
(* invariant.                                                      *)
LEMMA LookKeeps ==
    ASSUME DeployLocalAssumption, DeployInv, NEW c \in Deploys, Look(c) PROVE DeployInv'
<1> DEFINE s == deploy[c].at
<1>1. UNCHANGED <<svc, owner, dstate, files, taken>> /\ deploy[c].pc = "look" BY DEF Look
<1>2. s \in Services BY DEF DeployInv, DeployRecords, DeployRecord
<1>3. record' = record \/ record' = RecordAfterLook(s) BY DEF Look
<1>4. RecordsKept /\ FilesTyped' BY <1>1, <1>2, <1>3, Forgotten, FilesStay, FilesAlone
<1>5. CASE PrevPort(c) # 0 /\ ServiceStatus(s, PrevPort(c)) = "Running" /\ deploy' = [deploy EXCEPT ![c] = Ensured(c, PrevPort(c), FALSE)] /\ UNCHANGED opLock
  BY <1>1, <1>4, <1>5, LookReuses
<1>6. CASE EnsureFails(c)
  BY <1>1, <1>4, <1>6, Unmoved, OwnStarted, EnsureFailsAside, ServicesUntouched DEF OwnIn, Living
<1>7. CASE (PrevPort(c) = 0 \/ ServiceStatus(s, PrevPort(c)) = "Stopped") /\ UNCHANGED opLock
           /\ \E port \in available_port(PrevPort(c), IF s = "backend" THEN 0 ELSE deploy[c].ports.b) :
                 deploy' = [deploy EXCEPT ![c].pc = "launch", ![c].ports = SetPort(c, port)]
  BY <1>1, <1>4, <1>7, LookLaunches DEF ServiceStatus
<1> QED BY <1>5, <1>6, <1>7 DEF Look

(* ManagedService::start: the new process gets the lifetime its command *)
(* holds, and fits the deployment.                                      *)
LEMMA LaunchHeld ==
    ASSUME DeployLocalAssumption, DeployInv, NEW c \in Deploys, deploy[c].pc = "launch", NEW p \in NewProc,
           svc' = [svc EXCEPT ![p] = [svc |-> deploy[c].at, st |-> "boot", port |-> MyPort(c), target |-> deploy[c].ports.b,
                                      art |-> ArtifactOf(c), token |-> files.token, by |-> c]],
           owner' = [owner EXCEPT ![deploy[c].at] = <<"proc", p>>], deploy' = [deploy EXCEPT ![c].pc = "record", ![c].child = p],
           record' = [record EXCEPT ![deploy[c].at] = 0], UNCHANGED <<opLock, dstate, files, taken>>
    PROVE DeployInv'
<1> DEFINE s == deploy[c].at
           n == [svc |-> s, st |-> "boot", port |-> MyPort(c), target |-> deploy[c].ports.b, art |-> ArtifactOf(c), token |-> files.token, by |-> c]
           r == [deploy[c] EXCEPT !.pc = "record", !.child = p]
<1>1. CommandOK(c) /\ DeployRecords /\ Ensuring(c) /\ Exclusive(c) /\ opLock = c
  BY HolderAlone DEF DeployInv, Ensuring, Holding, OneOperation
<1>2. deploy[c] \in DeployRecord BY <1>1 DEF DeployRecords
<1>3. s \in Services /\ s \in {"backend", "dashboard"} BY <1>2 DEF DeployRecord, Services
<1>4. p \in Procs /\ svc[p].st = "none" /\ ~Living(p) BY DEF NewProc, Living
<1>5. files.bin = Good /\ files.dash = Good /\ files.token = 1 BY <1>1 DEF CommandOK, ArtifactsBy
<1>6. /\ deploy[c].ports.b \in Ports
      /\ s = "dashboard" => deploy[c].ports.d \in Ports /\ deploy[c].ports.d # deploy[c].ports.b
  BY <1>1 DEF CommandOK, Placing
<1>7. MyPort(c) \in Ports /\ (s = "backend" => MyPort(c) = deploy[c].ports.b) /\ (s = "dashboard" => MyPort(c) # deploy[c].ports.b)
  BY <1>3, <1>6 DEF MyPort
<1>8. ArtifactOf(c) = Good BY <1>5 DEF ArtifactOf
<1>9. owner[s] = Unowned BY <1>1 DEF CommandOK, Cleared
<1>10. n \in ServiceRecord BY <1>3, <1>5, <1>6, <1>7, <1>8 DEF ServiceRecord, PortNumbers, Good
<1>11. n.svc = s /\ n.st = "boot" /\ n.port = MyPort(c) /\ n.target = deploy[c].ports.b /\ n.art = Good /\ n.token = 1 /\ n.by = c
  BY <1>5, <1>8
<1>12. svc' = [svc EXCEPT ![p] = n] OBVIOUS
<1>13. deploy' = [deploy EXCEPT ![c] = r] OBVIOUS
<1>14. r \in DeployRecord BY <1>2, <1>4 DEF DeployRecord, DeployStates
<1>15. r.pc = "record" /\ r.op = deploy[c].op /\ r.prev = deploy[c].prev /\ r.at = s /\ r.new = deploy[c].new /\ r.ports = deploy[c].ports /\ r.child = p
  BY <1>2, Zenon DEF DeployRecord
<1> HIDE DEF n, r
<1>16. svc \in [Procs -> ServiceRecord] /\ owner \in LifetimeFiles /\ record \in [Services -> Procs \cup {0}]
  BY DEF DeployInv, ServiceRecords, DeployFiles, LifetimeFiles
<1>17. svc'[p] = n /\ \A q \in Procs \ {p} : svc'[q] = svc[q] BY <1>4, <1>12, <1>16
<1>18. owner' \in LifetimeFiles /\ owner'[s] = <<"proc", p>> /\ \A x \in Services \ {s} : owner'[x] = owner[x]
  BY <1>3, <1>4, <1>16 DEF LifetimeFiles
<1>19. record' \in [Services -> Procs \cup {0}] /\ record'[s] = 0 /\ \A x \in Services \ {s} : record'[x] = record[x]
  BY <1>3, <1>16
<1>20. ServiceRecords' BY <1>4, <1>10, <1>12, <1>16 DEF ServiceRecords
<1>21. DeployRecords' /\ Others(c) /\ deploy'[c] = r BY <1>1, <1>13, <1>14 DEF DeployRecords, Others
<1>22. DeployFiles' BY <1>18, <1>19 DEF DeployInv, DeployFiles, LifetimeFiles
<1>23. \A q \in Procs : Living(q)' => q = p \/ (Living(q) /\ svc'[q] = svc[q]) BY <1>17 DEF Living
<1>24. \A q \in Procs : Living(q) => q # p /\ svc[q].svc \in Services /\ svc[q].svc # s /\ owner[svc[q].svc] = <<"proc", q>> /\ svc[q].token = 1
  BY <1>4, <1>9 DEF DeployInv, Lifetimes, Unowned
<1>25. Lifetimes'
  <2>1. \A q \in Procs : Living(q)' => svc'[q].svc \in Services /\ owner'[svc'[q].svc] = <<"proc", q>> /\ svc'[q].token = 1
    <3> SUFFICES ASSUME NEW q \in Procs, Living(q)'
                 PROVE svc'[q].svc \in Services /\ owner'[svc'[q].svc] = <<"proc", q>> /\ svc'[q].token = 1
      OBVIOUS
    <3>1. CASE q = p BY <1>3, <1>11, <1>17, <1>18, <3>1
    <3>2. CASE q # p
      <4>1. Living(q) /\ svc'[q] = svc[q] BY <1>23, <3>2
      <4> QED BY <1>18, <1>24, <4>1
    <3> QED BY <3>1, <3>2
  <2>2. ASSUME NEW x \in Services, NEW q \in Procs, owner'[x] = <<"proc", q>> PROVE Living(q)' /\ svc'[q].svc = x
    <3>1. CASE x = s
      <4>1. q = p BY <1>18, <2>2, <3>1
      <4> QED BY <1>11, <1>17, <3>1, <4>1 DEF Living
    <3>2. CASE x # s BY <1>17, <1>18, <1>24, <2>2, <3>2 DEF DeployInv, Lifetimes, Living
    <3> QED BY <3>1, <3>2
  <2>3. \A q \in Procs : svc'[q].st = "up" => svc'[q].port \notin taken' BY <1>11, <1>17 DEF DeployInv, Lifetimes
  <2> QED BY <2>1, <2>2, <2>3 DEF Lifetimes
<1>26. RecordNamesHolder' BY <1>18, <1>19 DEF DeployInv, RecordNamesHolder
<1>27. Deployed' BY <1>1, <1>7, <1>11, <1>17, <1>23 DEF Deployed, DeployInv, CommandOK, Placing, Fits
<1>28. Known' BY <1>11, <1>17, <1>23 DEF DeployInv, Known
<1>29. Course(c)'
  BY <1>1, <1>15, <1>21 DEF CommandOK, Course, Installing, Starting, Holding, Stopping, Ensuring, StopsBefore
<1>30. Children(c)' BY <1>4, <1>11, <1>15, <1>17, <1>18, <1>21 DEF Children, MyPort
<1>31. ArtifactsBy(c)' BY <1>1, <1>15, <1>21 DEF CommandOK, ArtifactsBy
<1>32. Cleared(c)' BY <1>1, <1>15, <1>18, <1>21 DEF CommandOK, Cleared, Services, Stopping
<1>33. Placing(c)' BY <1>1, <1>15, <1>21 DEF CommandOK, Placing, StopsBefore, Stopping
<1>34. Backends(c)'
  <2>1. s = "dashboard" => \A q \in Procs : Living(q)' /\ svc'[q].svc = "backend" => Living(q) /\ svc'[q] = svc[q]
    BY <1>11, <1>17, <1>23
  <2> QED BY <1>1, <1>15, <1>21, <2>1 DEF CommandOK, Backends, Fits
<1>35. Placed(c)' BY <1>15, <1>21 DEF Placed
<1>36. Accounts(c)' BY <1>15, <1>21, <1>23, OwnStarted DEF OwnIn, Accounts, Accounted, Ensuring
<1>37. CommandOK(c)' BY <1>29, <1>30, <1>31, <1>32, <1>33, <1>34, <1>35, <1>36 DEF CommandOK
<1>38. OneOperation' /\ \A d \in Deploys : CommandOK(d)' BY <1>1, <1>11, <1>17, <1>21, <1>23, <1>37, OthersAside
<1> QED BY <1>20, <1>21, <1>22, <1>25, <1>26, <1>27, <1>28, <1>38 DEF DeployInv

(* ManagedService::start keeps the invariant. *)
LEMMA LaunchServiceKeeps ==
    ASSUME DeployLocalAssumption, DeployInv, NEW c \in Deploys, LaunchService(c) PROVE DeployInv'
<1> DEFINE s == deploy[c].at
<1>1. UNCHANGED <<dstate, files, taken>> /\ deploy[c].pc = "launch" BY DEF LaunchService
<1>2. s \in Services BY DEF DeployInv, DeployRecords, DeployRecord
<1>3. owner[s] = Unowned BY <1>1 DEF DeployInv, CommandOK, Cleared
<1>4. record' = [record EXCEPT ![s] = 0] BY <1>3 DEF LaunchService
<1>5. CASE \E p \in NewProc :
              /\ svc' = [svc EXCEPT ![p] = [svc |-> s, st |-> "boot", port |-> MyPort(c), target |-> deploy[c].ports.b,
                                            art |-> ArtifactOf(c), token |-> files.token, by |-> c]]
              /\ owner' = [owner EXCEPT ![s] = <<"proc", p>>]
              /\ deploy' = [deploy EXCEPT ![c].pc = "record", ![c].child = p]
              /\ UNCHANGED opLock
  BY <1>1, <1>4, <1>5, LaunchHeld
<1>6. CASE EnsureFails(c) /\ UNCHANGED <<svc, owner>>
  <2>1. Survivors /\ OwnIn(c, deploy[c].new) BY <1>1, <1>6, Unmoved, OwnStarted
  <2>2. DeployRecords' /\ OneOperation' /\ (\A d \in Deploys : CommandOK(d)') /\ opLock' \in Deploys \cup {0}
    BY <1>1, <1>6, <2>1, EnsureFailsAside DEF OwnIn, Living
  <2>3. RecordsKept /\ FilesTyped' BY <1>1, <1>2, <1>4, Forgotten, FilesAlone
  <2> QED BY <1>1, <1>6, <2>2, <2>3, ServicesUntouched
<1> QED BY <1>3, <1>5, <1>6 DEF LaunchService

(* A start that gives up on its child terminates it. *)
LEMMA ChildKilled ==
    ASSUME DeployLocalAssumption, DeployInv, NEW c \in Deploys, deploy[c].pc \in {"record", "wait"}, Kill(deploy[c].child), EnsureFails(c),
           UNCHANGED <<dstate, files, taken>>, RecordsKept
    PROVE DeployInv'
<1>1. CommandOK(c) BY DEF DeployInv
<1>2. PICK k \in Procs : k = deploy[c].child /\ svc[k].st # "none" BY <1>1 DEF CommandOK, Children
<1>3. Survivors /\ ServiceRecords' /\ Lifetimes' /\ owner' \in LifetimeFiles /\ ~Living(k)' BY <1>2, KillFacts
<1>4. \A p \in Procs : Living(p)' /\ svc'[p].by = c => svc'[p].svc \in deploy[c].new
  BY <1>1, <1>2, <1>3 DEF CommandOK, Accounts, Accounted, Stopping, Survivors
<1>5. DeployRecords' /\ OneOperation' /\ (\A d \in Deploys : CommandOK(d)') /\ opLock' \in Deploys \cup {0}
  BY <1>3, <1>4, EnsureFailsAside
<1>6. FilesTyped' BY FilesAlone
<1> QED BY <1>3, <1>5, <1>6, SurvivorsKeep

(* write_process_record: the record names the holder of the lifetime. *)
LEMMA WriteRecordKeeps ==
    ASSUME DeployLocalAssumption, DeployInv, NEW c \in Deploys, WriteRecord(c) PROVE DeployInv'
<1> DEFINE s == deploy[c].at
<1>1. UNCHANGED <<dstate, files, taken>> /\ deploy[c].pc = "record" BY DEF WriteRecord
<1>2. CommandOK(c) /\ DeployRecords /\ Exclusive(c) /\ opLock = c
  BY <1>1, HolderAlone DEF DeployInv, Holding, OneOperation
<1>3. s \in Services BY <1>2 DEF DeployRecords, DeployRecord
<1>4. deploy[c].child \in Procs /\ owner[s] \in {Unowned, <<"proc", deploy[c].child>>}
  BY <1>1, <1>2 DEF CommandOK, Children
<1>5. CASE record' = [record EXCEPT ![s] = deploy[c].child] /\ To(c, "wait") /\ UNCHANGED <<opLock, svc, owner>>
  <2>1. DeployRecords' /\ Others(c) /\ Same(c) /\ deploy'[c].pc = "wait" BY <1>2, <1>5, MovedOn DEF DeployStates
  <2>2. Ensuring(c) /\ Ensuring(c)' BY <1>1, <2>1 DEF Ensuring
  <2>3. Course(c)' BY <1>1, <1>2, <2>1, <2>2 DEF Same, CommandOK, Course, Installing, Starting, Holding, Stopping
  <2>4. Children(c)' BY <1>1, <1>2, <1>5, <2>1 DEF Same, CommandOK, Children, Living, MyPort
  <2>5. ArtifactsBy(c)' BY <1>1, <1>2, <2>1, <2>2 DEF Same, CommandOK, ArtifactsBy
  <2>6. Cleared(c)' BY <1>1, <1>2, <1>5, <2>1 DEF Same, CommandOK, Cleared, Stopping
  <2>7. Placing(c)' BY <1>1, <1>2, <2>1, <2>2 DEF Same, CommandOK, Placing, StopsBefore, Stopping
  <2>8. Backends(c)' BY <1>1, <1>2, <1>5, <2>1, <2>2 DEF Same, CommandOK, Backends, Living, Fits
  <2>9. Placed(c)' BY <2>1 DEF Placed
  <2>10. Accounts(c)' BY <1>1, <1>2, <1>5, <2>1, <2>2 DEF Same, CommandOK, Accounts, Accounted, Living, Stopping
  <2>11. CommandOK(c)' BY <2>3, <2>4, <2>5, <2>6, <2>7, <2>8, <2>9, <2>10 DEF CommandOK
  <2>12. OneOperation' /\ \A d \in Deploys : CommandOK(d)' BY <1>1, <1>2, <1>5, <2>1, <2>11, OthersAside DEF Living
  <2>13. DeployFiles' BY <1>1, <1>3, <1>4, <1>5 DEF DeployInv, DeployFiles
  <2>14. RecordNamesHolder' BY <1>3, <1>4, <1>5 DEF DeployInv, DeployFiles, RecordNamesHolder
  <2>15. ServiceRecords' /\ Lifetimes' BY <1>1, <1>5, LifetimesStay
  <2>16. Deployed' /\ Known' BY <1>1, <1>5 DEF DeployInv, Deployed, Known, Living, Fits
  <2> QED BY <2>1, <2>12, <2>13, <2>14, <2>15, <2>16 DEF DeployInv
<1>6. CASE Kill(deploy[c].child) /\ EnsureFails(c) /\ UNCHANGED record
  <2>1. RecordsKept BY <1>6 DEF DeployInv, DeployFiles, RecordsKept
  <2> QED BY <1>1, <1>6, <2>1, ChildKilled
<1> QED BY <1>5, <1>6 DEF WriteRecord

(* A child that exits or never answers is terminated. *)
LEMMA ServiceNotReadyKeeps ==
    ASSUME DeployLocalAssumption, DeployInv, NEW c \in Deploys, ServiceNotReady(c) PROVE DeployInv'
<1>1. deploy[c].at \in Services BY DEF DeployInv, DeployRecords, DeployRecord
<1>2. RecordsKept BY <1>1, Forgotten DEF ServiceNotReady
<1> QED BY <1>2, ChildKilled DEF ServiceNotReady

(* DeploymentState::write: what is written is where the services are. *)
LEMMA WriteStateKeeps ==
    ASSUME DeployLocalAssumption, DeployInv, NEW c \in Deploys, WriteState(c) PROVE DeployInv'
<1>1. UNCHANGED <<opLock, svc, owner, record, files, taken>> /\ deploy[c].pc = "state" BY DEF WriteState
<1>2. CommandOK(c) /\ DeployRecords /\ Exclusive(c) /\ opLock = c
  BY <1>1, HolderAlone DEF DeployInv, Holding, OneOperation
<1>3. RecordsKept /\ FilesTyped' /\ Survivors BY <1>1, FilesStay, Unmoved
<1>4. \A p \in Procs : Living(p) /\ svc[p].by = c => svc[p].svc \in deploy[c].new
  BY <1>1, <1>2 DEF CommandOK, Accounts, Accounted, Stopping, Ensuring, StopsBefore
<1>5. CASE dstate' = [b |-> deploy[c].ports.b, d |-> deploy[c].ports.d, current |-> TRUE] /\ To(c, "config")
  <2>1. DeployRecords' /\ Others(c) /\ Same(c) /\ deploy'[c].pc = "config" BY <1>2, <1>5, MovedOn DEF DeployStates
  <2>2. /\ deploy[c].ports.b \in Ports /\ deploy[c].ports.d \in Ports /\ deploy[c].ports.b # deploy[c].ports.d
        /\ \A p \in Procs : Living(p) =>
              /\ svc[p].art = Good /\ svc[p].target = deploy[c].ports.b
              /\ svc[p].port = IF svc[p].svc = "backend" THEN deploy[c].ports.b ELSE deploy[c].ports.d
    BY <1>1, <1>2 DEF CommandOK, Placed
  <2>3. dstate' \in StateRecord BY <1>5, <2>2 DEF StateRecord, PortNumbers
  <2>4. dstate'.b = deploy[c].ports.b /\ dstate'.d = deploy[c].ports.d BY <1>5
  <2>5. dstate' # NoState BY <2>2, <2>4 DEF DeployLocalAssumption, NoState
  <2>6. DeployFiles' BY <1>1, <2>2, <2>3, <2>4 DEF DeployInv, DeployFiles
  <2>7. Deployed' BY <1>1, <2>2, <2>4 DEF Deployed, Living, Fits
  <2>8. Known' BY <2>5 DEF Known
  <2>9. Course(c)'
    BY <1>1, <1>2, <2>1 DEF Same, CommandOK, Course, Installing, Starting, Holding, Stopping, Ensuring, StopsBefore
  <2>10. ArtifactsBy(c)' BY <1>1, <1>2, <2>1 DEF Same, CommandOK, ArtifactsBy, Ensuring, StopsBefore, Stopping
  <2>11. Children(c)' /\ Cleared(c)' /\ Placing(c)' /\ Backends(c)'
    BY <2>1 DEF Children, Cleared, Placing, Backends, Stopping, Ensuring, StopsBefore
  <2>12. Placed(c)' BY <1>1, <1>5, <2>1, <2>2 DEF Same, Placed, Living
  <2>13. Accounts(c)' BY <1>1, <1>4, <2>1, <2>5 DEF Same, Accounts, Accounted, Living
  <2>14. CommandOK(c)' BY <2>9, <2>10, <2>11, <2>12, <2>13 DEF CommandOK
  <2>15. OneOperation' /\ \A d \in Deploys : CommandOK(d)' BY <1>1, <1>2, <2>1, <2>5, <2>14, OthersAside DEF Living
  <2>16. ServiceRecords' /\ Lifetimes' BY <1>1, LifetimesStay
  <2>17. RecordNamesHolder' BY <1>1 DEF DeployInv, RecordNamesHolder
  <2> QED BY <2>1, <2>6, <2>7, <2>8, <2>15, <2>16, <2>17 DEF DeployInv
<1>6. CASE FailsAfterStopping(c) /\ UNCHANGED dstate
  BY <1>1, <1>2, <1>3, <1>4, <1>6, FallsBackAside, ServicesUntouched DEF Living
<1> QED BY <1>5, <1>6 DEF WriteState

(* write_product_config, after which the operation lock is dropped. *)
LEMMA WriteConfigKeeps ==
    ASSUME DeployLocalAssumption, DeployInv, NEW c \in Deploys, WriteConfig(c) PROVE DeployInv'
<1>1. UNCHANGED <<svc, owner, record, dstate, files, taken>> /\ deploy[c].pc = "config" BY DEF WriteConfig
<1>2. CommandOK(c) /\ DeployRecords /\ Exclusive(c) /\ opLock = c
  BY <1>1, HolderAlone DEF DeployInv, Holding, OneOperation
<1>3. RecordsKept /\ FilesTyped' /\ Survivors BY <1>1, FilesStay, Unmoved
<1>4. \A p \in Procs : Living(p) /\ svc[p].by = c => svc[p].svc \in deploy[c].new
  BY <1>1, <1>2 DEF CommandOK, Accounts, Accounted, Stopping, Ensuring, StopsBefore
<1>5. CASE opLock' = 0 /\ deploy' = [deploy EXCEPT ![c] = [Idle EXCEPT !.op = "start", !.pc = "proxy", !.new = deploy[c].new, !.stuck = deploy[c].stuck]]
  <2> DEFINE r == [Idle EXCEPT !.op = "start", !.pc = "proxy", !.new = deploy[c].new, !.stuck = deploy[c].stuck]
  <2>1. Idle \in DeployRecord /\ deploy[c].stuck \in BOOLEAN /\ deploy[c].new \in SUBSET Services
    BY <1>2, IdleRecord DEF DeployRecords, DeployRecord
  <2>2. \A i \in DeployRecord : \A u \in BOOLEAN, n \in SUBSET Services : [i EXCEPT !.op = "start", !.pc = "proxy", !.new = n, !.stuck = u] \in DeployRecord
    BY ZenonT(60) DEF DeployRecord, DeployStates
  <2>3. r \in DeployRecord BY <2>1, <2>2, Zenon
  <2>4. r.op = "start" /\ r.pc = "proxy" /\ r.new = deploy[c].new BY Zenon DEF Idle
  <2>5. deploy' = [deploy EXCEPT ![c] = r] BY <1>5
  <2> HIDE DEF r
  <2>6. DeployRecords' /\ Others(c) /\ deploy'[c] = r BY <1>2, <2>3, <2>5 DEF DeployRecords, Others
  <2>7. Course(c)' BY <2>4, <2>6 DEF Course, Installing, Starting, Holding, Stopping, Ensuring, StopsBefore
  <2>8. Accounts(c)' BY <1>1, <1>2, <1>4, <2>4, <2>6 DEF CommandOK, Accounts, Accounted, Living
  <2>9. CommandOK(c)' /\ deploy'[c].pc \notin Holding BY <2>4, <2>6, <2>7, <2>8, QuietOK DEF Holding
  <2>10. OneOperation' /\ \A d \in Deploys : CommandOK(d)' BY <1>1, <1>2, <2>6, <2>9, OthersAside DEF Living
  <2> QED BY <1>1, <1>3, <1>5, <2>6, <2>10, ServicesUntouched
<1>6. CASE FailsAfterStopping(c) /\ UNCHANGED opLock
  BY <1>1, <1>2, <1>3, <1>4, <1>6, FallsBackAside, ServicesUntouched DEF Living
<1> QED BY <1>5, <1>6 DEF WriteConfig

(* The proxy starts without the operation lock. *)
LEMMA StartProxyKeeps ==
    ASSUME DeployLocalAssumption, DeployInv, NEW c \in Deploys, StartProxy(c) PROVE DeployInv'
<1>1. UNCHANGED <<opLock, svc, owner, record, dstate, files, taken>> /\ deploy[c].pc = "proxy" BY DEF StartProxy
<1>2. CommandOK(c) /\ DeployRecords /\ deploy[c].op = "start" /\ opLock \in Deploys \cup {0}
  BY <1>1 DEF DeployInv, DeployFiles, CommandOK, Course, Starting
<1>3. RecordsKept /\ FilesTyped' BY <1>1, FilesStay
<1>4. dstate # NoState BY <1>1, <1>2 DEF CommandOK, Accounts
<1>5. CommandOK(c)' /\ DeployRecords' /\ Others(c) /\ deploy'[c].pc \notin Holding
  <2>1. CASE deploy' = Ended(c, "ok", deploy[c].stuck, {})
    <3>1. deploy[c].stuck \in BOOLEAN /\ {} \in SUBSET Services BY <1>2 DEF DeployRecords, DeployRecord
    <3> QED BY <1>1, <1>2, <1>4, <2>1, <3>1, EndedOK DEF Holding
  <2>2. CASE To(c, "rollback")
    <3>1. DeployRecords' /\ Others(c) /\ Same(c) /\ deploy'[c].pc = "rollback" BY <1>2, <2>2, MovedOn DEF DeployStates
    <3>2. Course(c)' BY <1>2, <3>1 DEF Same, Course, Installing, Starting, Holding, Stopping, Ensuring, StopsBefore
    <3>3. Accounts(c)'
      BY <1>1, <1>2, <3>1 DEF Same, CommandOK, Accounts, Accounted, Living, Stopping, Ensuring, StopsBefore
    <3> QED BY <3>1, <3>2, <3>3, QuietOK DEF Holding
  <2> QED BY <2>1, <2>2 DEF StartProxy
<1>6. OneOperation' /\ \A d \in Deploys : CommandOK(d)' BY <1>1, <1>5, OthersUntouched
<1> QED BY <1>1, <1>2, <1>3, <1>5, <1>6, ServicesUntouched

(* rollback takes the lock again, or gives up and says so. *)
LEMMA rollbackKeeps ==
    ASSUME DeployLocalAssumption, DeployInv, NEW c \in Deploys, rollback(c) PROVE DeployInv'
<1>1. UNCHANGED <<svc, owner, record, dstate, files, taken>> /\ deploy[c].pc = "rollback" BY DEF rollback
<1>2. CommandOK(c) /\ DeployRecords /\ opLock \in Deploys \cup {0} BY DEF DeployInv, DeployFiles
<1>3. RecordsKept /\ FilesTyped' /\ Survivors BY <1>1, FilesStay, Unmoved
<1>4. CASE opLock = 0 /\ opLock' = c /\ FailsAfterStopping(c)
  BY <1>1, <1>2, <1>3, <1>4, HolderAlone, FallsBackAside, ServicesUntouched DEF CommandOK, Accounts, Accounted,
     Stopping, Ensuring, StopsBefore, Living
<1>5. CASE deploy' = Ended(c, "failed", TRUE, {}) /\ UNCHANGED opLock
  <2>1. {} \in SUBSET Services /\ TRUE \in BOOLEAN OBVIOUS
  <2>2. CommandOK(c)' /\ DeployRecords' /\ Others(c) /\ deploy'[c].pc = "failed" BY <1>5, <2>1, EndedOK
  <2>3. OneOperation' /\ \A d \in Deploys : CommandOK(d)' BY <1>1, <1>5, <2>2, OthersUntouched DEF Holding
  <2> QED BY <1>1, <1>2, <1>3, <1>5, <2>2, <2>3, ServicesUntouched
<1> QED BY <1>4, <1>5 DEF rollback

(* LocalDeployment::status keeps the invariant. *)
LEMMA DeployStatusKeeps ==
    ASSUME DeployLocalAssumption, DeployInv, NEW c \in Deploys, DeployStatus(c) PROVE DeployInv'
<1>1. UNCHANGED <<svc, owner, dstate, files, taken>> /\ deploy[c].pc = "status" /\ opLock' = 0 BY DEF DeployStatus
<1>2. CommandOK(c) /\ DeployRecords /\ Exclusive(c) BY <1>1, HolderAlone DEF DeployInv, Holding
<1>3. deploy[c].op = "status" BY <1>1, <1>2 DEF CommandOK, Course
<1>4. \A p \in Procs : Living(p) => svc[p].by # c BY <1>1, NothingYet DEF Installing
<1>5. Survivors BY <1>1, Unmoved
<1>6. RecordsKept /\ FilesTyped' BY <1>1, Forgotten, FilesAlone, FilesStay DEF Services, DeployStatus
<1>7. \E said \in SUBSET Services : deploy' = Ended(c, "ok", FALSE, said) BY DEF DeployStatus
<1>8. DeployRecords' /\ OneOperation' /\ (\A d \in Deploys : CommandOK(d)') /\ opLock' \in Deploys \cup {0}
  BY <1>1, <1>2, <1>3, <1>4, <1>5, <1>7, EndsAside DEF Living
<1> QED BY <1>1, <1>6, <1>8, ServicesUntouched

(* A command killed at any point keeps the invariant. *)
LEMMA DeployKilledKeeps ==
    ASSUME DeployLocalAssumption, DeployInv, NEW c \in Deploys, DeployKilled(c) PROVE DeployInv'
<1>1. UNCHANGED <<svc, owner, record, dstate, files, taken>> /\ deploy' = Ended(c, "failed", TRUE, {}) /\ opLock' = IF opLock = c THEN 0 ELSE opLock
  BY DEF DeployKilled
<1>2. {} \in SUBSET Services /\ TRUE \in BOOLEAN OBVIOUS
<1>3. CommandOK(c)' /\ DeployRecords' /\ Others(c) /\ deploy'[c].pc = "failed" BY <1>1, <1>2, EndedOK
<1>4. OneOperation' /\ \A d \in Deploys : CommandOK(d)' BY <1>1, <1>3, OthersUntouched DEF Holding
<1>5. opLock' \in Deploys \cup {0} BY <1>1 DEF DeployInv, DeployFiles
<1> QED BY <1>1, <1>3, <1>4, <1>5, FilesStay, ServicesUntouched

(* A service that dies, or comes up, keeps the invariant. *)
LEMMA ServiceMoves ==
    ASSUME DeployInv, Survivors, ServiceRecords', Lifetimes', owner' \in LifetimeFiles, UNCHANGED <<opLock, deploy, record, dstate, files, taken>>
    PROVE DeployInv'
<1>1. DeployRecords' /\ DeployRecords /\ OneOperation' /\ RecordsKept /\ FilesTyped' /\ opLock' \in Deploys \cup {0}
  BY FilesStay DEF DeployInv, DeployRecords, OneOperation, DeployFiles
<1>2. \A d \in Deploys : CommandOK(d)' BY <1>1, StaysOK DEF DeployInv
<1> QED BY <1>1, <1>2, SurvivorsKeep

(* A service that binds, dies or crashes at any moment keeps the invariant. *)
LEMMA ServicesKeep ==
    ASSUME DeployLocalAssumption, DeployInv, NEW p \in Procs, ServiceBind(p) \/ ServiceDies(p) \/ ServiceCrash(p) PROVE DeployInv'
<1>1. UNCHANGED <<opLock, deploy, record, dstate, files, taken>> /\ svc[p].st \in {"boot", "up", "dying"}
  BY DEF ServiceBind, ServiceDies, ServiceCrash
<1>2. CASE Kill(p) BY <1>1, <1>2, KillFacts, ServiceMoves
<1>3. CASE ~PortInUse(svc[p].port) /\ svc' = [svc EXCEPT ![p].st = "up"] /\ UNCHANGED owner
  BY <1>1, <1>3, StateChanged, ServiceMoves DEF Living, PortInUse
<1> QED BY <1>2, <1>3 DEF ServiceBind, ServiceDies, ServiceCrash

(* Another program that takes the last backend port keeps the invariant. *)
LEMMA PortTakenKeeps ==
    ASSUME DeployLocalAssumption, DeployInv, PortTaken PROVE DeployInv'
<1>1. UNCHANGED <<opLock, deploy, svc, owner, record, dstate, files>> /\ taken = {} /\ taken' = {dstate.b} /\ dstate.b # 0 /\ ~PortInUse(dstate.b)
  BY DEF PortTaken
<1>2. DeployRecords' /\ ServiceRecords' /\ OneOperation' /\ RecordNamesHolder' /\ Known'
  BY <1>1 DEF DeployInv, DeployRecords, ServiceRecords, OneOperation, RecordNamesHolder, Known, Living
<1>3. DeployFiles' BY <1>1 DEF DeployInv, DeployFiles, NoState
<1>4. Lifetimes' BY <1>1 DEF PortInUse, DeployInv, Lifetimes, Living
<1>5. Deployed' BY <1>1 DEF Deployed
<1>6. ASSUME NEW c \in Deploys PROVE CommandOK(c)'
  <2>1. CommandOK(c) BY DEF DeployInv
  <2>2. Course(c)' BY <1>1, <2>1 DEF CommandOK, Course, Stopping, Ensuring, StopsBefore
  <2>3. Children(c)' BY <1>1, <2>1 DEF CommandOK, Children, Living, MyPort
  <2>4. ArtifactsBy(c)' BY <1>1, <2>1 DEF CommandOK, ArtifactsBy, Stopping, Ensuring, StopsBefore
  <2>5. Cleared(c)' BY <1>1, <2>1 DEF CommandOK, Cleared, Stopping
  <2>6. Placing(c)' BY <1>1, <2>1 DEF CommandOK, Placing, Stopping, Ensuring, StopsBefore
  <2>7. Backends(c)' BY <1>1, <2>1 DEF CommandOK, Backends, Living, Fits, Stopping, Ensuring, StopsBefore
  <2>8. Placed(c)' BY <1>1, <2>1 DEF CommandOK, Placed, Living
  <2>9. Accounts(c)' BY <1>1, <2>1 DEF CommandOK, Accounts, Accounted, Living, Stopping, Ensuring, StopsBefore
  <2> QED BY <2>2, <2>3, <2>4, <2>5, <2>6, <2>7, <2>8, <2>9 DEF CommandOK
<1> QED BY <1>2, <1>3, <1>4, <1>5, <1>6 DEF DeployInv

(* Every step of a command, a service or another program keeps the *)
(* invariant.                                                      *)
LEMMA DeployInductive ==
    ASSUME DeployLocalAssumption, DeployInv, DeployNext PROVE DeployInv'
<1>1. ASSUME NEW c \in Deploys, BeginDeploy(c) \/ DeployStep(c) \/ DeployKilled(c) PROVE DeployInv'
  <2>1. CASE BeginDeploy(c) \/ DeployKilled(c) BY <2>1, BeginDeployKeeps, DeployKilledKeeps
  <2>2. CASE DeployStep(c)
    BY <2>2, DeployLockKeeps, check_dependenciesKeeps, InstallBackendKeeps, WriteChecksumKeeps, InstallDashboardKeeps, RenameDashboardKeeps,
       EnsureTokenKeeps, WriteAuthorizationKeeps, LoadStateKeeps, LookKeeps, LaunchServiceKeeps, WriteRecordKeeps, ServiceReadyKeeps,
       ServiceNotReadyKeeps, StopServiceKeeps, WaitStoppedKeeps, StopsDoneKeeps, WriteStateKeeps, WriteConfigKeeps, StartProxyKeeps, rollbackKeeps,
       DeployStatusKeeps
       DEF DeployStep
  <2> QED BY <1>1, <2>1, <2>2
<1>2. ASSUME NEW p \in Procs, ServiceBind(p) \/ ServiceDies(p) \/ ServiceCrash(p) PROVE DeployInv'
  BY <1>2, ServicesKeep
<1> QED BY <1>1, <1>2, PortTakenKeeps DEF DeployNext

(* A fresh home and one with the deployment of an earlier version satisfy *)
(* the invariant.                                                         *)
LEMMA DeployInitial == ASSUME DeployLocalAssumption, DeployInit PROVE DeployInv
<1>1. opLock = 0 /\ deploy = [c \in Deploys |-> Idle] /\ taken = {} BY DEF DeployInit
<1>2. DeployRecords BY <1>1, IdleRecord DEF DeployRecords
<1>3. 0 \notin Deploys /\ 0 \notin Ports /\ 1 \in Ports /\ 2 \in Ports /\ 1 \in Procs /\ 0 \notin Procs
  BY DEF DeployLocalAssumption, Procs
<1>4. \A c \in Deploys : deploy[c].pc = "begin" /\ deploy[c].prev = NoState /\ deploy[c].at = "backend" /\ deploy[c].new = {} /\ deploy[c].stuck = FALSE
  BY <1>1, Zenon DEF Idle
<1>5. OneOperation BY <1>4 DEF OneOperation, Holding
<1>6. ASSUME \A p \in Procs : svc[p].by = 0, NEW c \in Deploys PROVE CommandOK(c)
  <2>1. Course(c) BY <1>4 DEF Course, Installing, Starting, Holding, Stopping, Ensuring, StopsBefore
  <2>2. Accounts(c) BY <1>3, <1>4, <1>6 DEF Accounts
  <2>3. Children(c) /\ ArtifactsBy(c) /\ Cleared(c) /\ Placing(c) /\ Backends(c) /\ Placed(c)
    BY <1>4 DEF Children, ArtifactsBy, Cleared, Placing, Backends, Placed, Stopping, Ensuring, StopsBefore
  <2> QED BY <2>1, <2>2, <2>3 DEF CommandOK
<1>7. NoService \in ServiceRecord /\ NoService.st = "none" /\ NoService.by = 0
  BY DEF NoService, ServiceRecord, PortNumbers
<1>8. CASE /\ svc = [p \in Procs |-> NoService] /\ owner = [s \in Services |-> Unowned]
           /\ record = [s \in Services |-> 0] /\ dstate = NoState
           /\ files \in {[bin |-> 1, sum |-> Good, dash |-> 1, token |-> 0, auth |-> 0],
                         [bin |-> Good, sum |-> 0, dash |-> Good, token |-> -1, auth |-> 0]}
  <2>1. \A p \in Procs : svc[p].st = "none" /\ svc[p].by = 0 /\ ~Living(p) BY <1>7, <1>8 DEF Living
  <2>2. ServiceRecords BY <1>7, <1>8 DEF ServiceRecords
  <2>3. DeployFiles BY <1>1, <1>8, IdleRecord DEF Good, DeployFiles
  <2>4. Lifetimes /\ RecordNamesHolder /\ Deployed /\ Known
    BY <1>8, <2>1 DEF Lifetimes, RecordNamesHolder, Deployed, Known, Unowned
  <2> QED BY <1>2, <1>5, <1>6, <2>1, <2>2, <2>3, <2>4 DEF DeployInv
<1>9. CASE /\ svc = [p \in Procs |-> IF p = 1 THEN [NoService EXCEPT !.svc = "backend", !.st = "up", !.port = 1, !.token = 1] ELSE NoService]
           /\ owner = [s \in Services |-> IF s = "backend" THEN <<"proc", 1>> ELSE Unowned]
           /\ record = [s \in Services |-> IF s = "backend" THEN 1 ELSE 0]
           /\ dstate = [b |-> 1, d |-> 2, current |-> FALSE]
           /\ files = [bin |-> Good, sum |-> Good, dash |-> 0, token |-> 1, auth |-> 1]
  <2> DEFINE n == [NoService EXCEPT !.svc = "backend", !.st = "up", !.port = 1, !.token = 1]
  <2>1. n \in ServiceRecord /\ n.svc = "backend" /\ n.st = "up" /\ n.port = 1 /\ n.token = 1 /\ n.by = 0
    BY <1>3, <1>7 DEF ServiceRecord, Services, PortNumbers, NoService
  <2>2. svc = [p \in Procs |-> IF p = 1 THEN n ELSE NoService] BY <1>9
  <2> HIDE DEF n
  <2>3. svc[1] = n /\ \A p \in Procs \ {1} : svc[p] = NoService BY <1>3, <2>2
  <2>4. ServiceRecords BY <1>7, <2>1, <2>2 DEF ServiceRecords
  <2>5. \A p \in Procs : svc[p].by = 0 /\ (Living(p) => p = 1) BY <1>7, <2>1, <2>3 DEF Living
  <2>6. Living(1) /\ svc[1].svc = "backend" /\ svc[1].token = 1 BY <2>1, <2>3 DEF Living
  <2>7. DeployFiles BY <1>1, <1>3, <1>9 DEF Good, StateRecord, PortNumbers, DeployFiles
  <2>8. owner["backend"] = <<"proc", 1>> /\ \A s \in Services \ {"backend"} : owner[s] = Unowned /\ record[s] = 0
    BY <1>9 DEF Services
  <2>9. record["backend"] = 1 /\ "backend" \in Services BY <1>9 DEF Services
  <2>10. Lifetimes BY <1>1, <2>5, <2>6, <2>8, <2>9 DEF Unowned, Lifetimes
  <2>11. RecordNamesHolder BY <2>8, <2>9 DEF RecordNamesHolder
  <2>12. Deployed /\ Known BY <1>9 DEF NoState, Deployed, Known
  <2> QED BY <1>2, <1>5, <1>6, <2>4, <2>5, <2>7, <2>10, <2>11, <2>12 DEF DeployInv
<1> QED BY <1>8, <1>9 DEF DeployInit

(* The invariant gives what DeployOwned says: one process per service, *)
(* named by its record, of verified artifacts.                         *)
LEMMA DeployFound == ASSUME DeployLocalAssumption, DeployInv PROVE DeployOwned
<1>1. DeployTypeOK
  BY DEF DeployInv, ServiceRecords, ServiceRecord, PortNumbers, DeployFiles, StateRecord, Good, DeployTypeOK
<1>2. OneService BY TheOne DEF OneService
<1>3. ArtifactsVerified BY DEF ArtifactsVerified, DeployInv, CommandOK, Children
<1> QED BY <1>1, <1>2, <1>3 DEF DeployOwned, DeployInv

(* A step of a command leaves the locals of the others. *)
LEMMA OwnMoves ==
    ASSUME DeployRecords, NEW c \in Deploys, BeginDeploy(c) \/ DeployStep(c) \/ DeployKilled(c) PROVE Others(c)
<1> USE DEF DeployRecords, Others, To, Ended, Leaves, StopsFirst, FailsAfterStopping, EnsureFails
<1>1. CASE BeginDeploy(c) BY <1>1 DEF BeginDeploy
<1>2. CASE DeployKilled(c) BY <1>2 DEF DeployKilled
<1>3. CASE DeployLock(c) BY <1>3 DEF DeployLock
<1>4. CASE check_dependencies(c) BY <1>4 DEF check_dependencies
<1>5. CASE InstallBackend(c) BY <1>5 DEF InstallBackend
<1>6. CASE WriteChecksum(c) BY <1>6 DEF WriteChecksum
<1>7. CASE InstallDashboard(c) BY <1>7 DEF InstallDashboard
<1>8. CASE RenameDashboard(c) BY <1>8 DEF RenameDashboard
<1>9. CASE EnsureToken(c) BY <1>9 DEF EnsureToken
<1>10. CASE WriteAuthorization(c) BY <1>10 DEF WriteAuthorization
<1>11. CASE LoadState(c) BY <1>11 DEF LoadState
<1>12. CASE Look(c) BY <1>12 DEF Look
<1>13. CASE LaunchService(c) BY <1>13 DEF LaunchService
<1>14. CASE WriteRecord(c) BY <1>14 DEF WriteRecord
<1>15. CASE ServiceReady(c) BY <1>15 DEF ServiceReady
<1>16. CASE ServiceNotReady(c) BY <1>16 DEF ServiceNotReady
<1>17. CASE StopService(c) BY <1>17 DEF StopService
<1>18. CASE WaitStopped(c) BY <1>18 DEF WaitStopped
<1>19. CASE StopsDone(c) BY <1>19 DEF StopsDone
<1>20. CASE WriteState(c) BY <1>20 DEF WriteState
<1>21. CASE WriteConfig(c) BY <1>21 DEF WriteConfig
<1>22. CASE StartProxy(c) BY <1>22 DEF StartProxy
<1>23. CASE rollback(c) BY <1>23 DEF rollback
<1>24. CASE DeployStatus(c) BY <1>24 DEF DeployStatus
<1> QED
  BY <1>1, <1>2, <1>3, <1>4, <1>5, <1>6, <1>7, <1>8, <1>9, <1>10, <1>11, <1>12, <1>13, <1>14, <1>15, <1>16, <1>17, <1>18, <1>19, <1>20,
           <1>21, <1>22, <1>23, <1>24 DEF DeployStep

(* Only a command itself moves its locals. *)
LEMMA WhoMoves ==
    ASSUME DeployRecords, NEW c \in Deploys, DeployNext, deploy'[c] # deploy[c] PROVE BeginDeploy(c) \/ DeployStep(c) \/ DeployKilled(c)
<1>1. deploy' # deploy OBVIOUS
<1>2. PICK d \in Deploys : BeginDeploy(d) \/ DeployStep(d) \/ DeployKilled(d)
  BY <1>1 DEF DeployNext, ServiceBind, ServiceDies, ServiceCrash, PortTaken
<1>3. Others(d) BY <1>2, OwnMoves
<1>4. d = c BY <1>3 DEF Others
<1> QED BY <1>2, <1>4

(* What a step that ends a command may leave behind: the actions of DeployOutcome. *)
WrittenAs ==
    \A c \in Deploys : deploy[c].pc = "config" /\ deploy'[c].pc = "proxy" =>
        \A p \in Procs : Living(p) =>
            /\ svc[p].art = Good
            /\ svc[p].target = dstate.b
            /\ svc[p].port = IF svc[p].svc = "backend" THEN dstate.b ELSE dstate.d
            /\ svc[p].svc = "backend" => svc[p].token = files.auth
            /\ pconf' = [b |-> dstate.b, d |-> dstate.d]
LeavesNothing ==
    \A c \in Deploys :
        DeployActive(c) /\ deploy'[c].pc = "failed" /\ ~deploy'[c].stuck =>
            \A p \in Procs : Living(p)' => svc'[p].by # c
StoppedMeansDown ==
    \A c \in Deploys :
        deploy[c].op = "stop" /\ DeployActive(c) /\ deploy'[c].pc = "ok" => \A p \in Procs : ~Living(p)'
SaidTruly ==
    \A c \in Deploys :
        deploy[c].pc = "status" /\ deploy'[c].pc = "ok" =>
            \A p \in Procs : Living(p) =>
                svc[p].svc \notin deploy'[c].said \/ \E d \in Deploys : deploy[d].stuck

(* Every step satisfies the action of DeployedAsWritten. *)
LEMMA WritesWhatRuns ==
    ASSUME DeployLocalAssumption, DeployInv, [DeployNext]_deployVars PROVE [WrittenAs]_deployVars
<1> SUFFICES ASSUME DeployNext, NEW c \in Deploys, deploy[c].pc = "config", deploy'[c].pc = "proxy", NEW p \in Procs, Living(p)
             PROVE /\ svc[p].art = Good
                   /\ svc[p].target = dstate.b
                   /\ svc[p].port = IF svc[p].svc = "backend" THEN dstate.b ELSE dstate.d
                   /\ svc[p].svc = "backend" => svc[p].token = files.auth
                   /\ pconf' = [b |-> dstate.b, d |-> dstate.d]
  BY DEF WrittenAs
<1>1. CommandOK(c) /\ DeployRecords /\ Lifetimes BY DEF DeployInv
<1>2. BeginDeploy(c) \/ DeployStep(c) \/ DeployKilled(c) BY <1>1, WhoMoves
<1>3. WriteConfig(c) \/ DeployKilled(c)
  BY <1>2
     DEF DeployStep, BeginDeploy, DeployLock, check_dependencies, InstallBackend, WriteChecksum, InstallDashboard, RenameDashboard, EnsureToken,
     WriteAuthorization, LoadState, Look, LaunchService, WriteRecord, ServiceReady, ServiceNotReady, StopService, WaitStopped, StopsDone, WriteState,
     StartProxy, rollback, DeployStatus
<1>4. ~DeployKilled(c)
  <2>1. ASSUME DeployKilled(c) PROVE FALSE
    <3>1. deploy' = Ended(c, "failed", TRUE, {}) BY <2>1 DEF DeployKilled
    <3>2. "failed" \in DeployStates /\ {} \in SUBSET Services /\ TRUE \in BOOLEAN BY DEF DeployStates
    <3>3. deploy'[c].pc = "failed" BY <1>1, <3>1, <3>2, EndsWith DEF Reset
    <3> QED BY <3>3
  <2> QED BY <2>1
<1>5. ~FailsAfterStopping(c) BY <1>1, FallsBack DEF Reset
<1>6. pconf' = deploy[c].ports BY <1>3, <1>4, <1>5 DEF WriteConfig
<1>7. dstate.b = deploy[c].ports.b /\ dstate.d = deploy[c].ports.d BY <1>1 DEF CommandOK, Placed
<1>8. deploy[c].ports = [b |-> dstate.b, d |-> dstate.d] BY <1>1, <1>7 DEF DeployRecords, DeployRecord
<1>9. svc[p].token = 1 /\ files.auth = 1 BY <1>1 DEF Lifetimes, CommandOK, ArtifactsBy
<1>10. svc[p].art = Good /\ svc[p].target = deploy[c].ports.b /\ svc[p].port = IF svc[p].svc = "backend" THEN deploy[c].ports.b ELSE deploy[c].ports.d
  BY <1>1 DEF CommandOK, Placed
<1> QED BY <1>6, <1>7, <1>8, <1>9, <1>10

(* Every step satisfies the action of FailedStartLeavesNothing. *)
LEMMA FailureLeavesNothing ==
    ASSUME DeployInv' PROVE [LeavesNothing]_deployVars
<1>1. \A c \in Deploys : deploy'[c].pc = "failed" /\ ~deploy'[c].stuck => \A p \in Procs : Living(p)' => svc'[p].by # c
  BY DEF DeployInv, CommandOK, Accounts, Accounted, Stopping, Ensuring, StopsBefore
<1> QED BY <1>1 DEF LeavesNothing

(* Every step satisfies the action of StopMeansDown. *)
LEMMA StopLeavesNothing ==
    ASSUME DeployLocalAssumption, DeployInv, DeployInv', [DeployNext]_deployVars PROVE [StoppedMeansDown]_deployVars
<1> SUFFICES ASSUME DeployNext, NEW c \in Deploys, deploy[c].op = "stop", DeployActive(c), deploy'[c].pc = "ok", NEW p \in Procs
             PROVE ~Living(p)'
  BY DEF StoppedMeansDown
<1>1. CommandOK(c) /\ DeployRecords /\ Lifetimes BY DEF DeployInv
<1>2. deploy[c].pc # "ok" /\ deploy[c].pc # "begin" BY DEF DeployActive
<1>3. BeginDeploy(c) \/ DeployStep(c) \/ DeployKilled(c) BY <1>1, <1>2, WhoMoves
<1>4. deploy[c].pc \notin Starting /\ deploy[c].pc # "status" BY <1>1 DEF CommandOK, Course
<1>5. DeployLock(c) \/ StopService(c) \/ WaitStopped(c) \/ StopsDone(c) \/ DeployKilled(c)
  BY <1>2, <1>3, <1>4
     DEF Starting, Holding, DeployStep, BeginDeploy, check_dependencies, InstallBackend, WriteChecksum, InstallDashboard,
     RenameDashboard, EnsureToken, WriteAuthorization, LoadState, Look, LaunchService, WriteRecord, ServiceReady, ServiceNotReady, WriteState,
     WriteConfig, StartProxy, rollback, DeployStatus
<1>6. ~DeployLock(c) /\ ~StopService(c) /\ ~WaitStopped(c) /\ ~DeployKilled(c)
  <2>0. \A x \in {"failed"} : \A u \in BOOLEAN : \A y \in SUBSET Services : deploy' # Ended(c, x, u, y)
    <3> SUFFICES ASSUME NEW x \in {"failed"}, NEW u \in BOOLEAN, NEW y \in SUBSET Services, deploy' = Ended(c, x, u, y) PROVE FALSE OBVIOUS
    <3>1. x \in DeployStates BY DEF DeployStates
    <3>2. deploy'[c].pc = x BY <1>1, <3>1, EndsWith DEF Reset
    <3> QED BY <3>2
  <2>1. deploy' # Ended(c, "failed", TRUE, {}) /\ deploy' # Ended(c, "failed", FALSE, {}) BY <2>0
  <2>2. ~Leaves(c, "failed") BY <1>1, <2>0 DEF DeployRecords, DeployRecord, Leaves
  <2>3. ~To(c, "status") /\ ~To(c, "needs") /\ ~To(c, "term") BY <1>1 DEF To, DeployRecords, DeployRecord
  <2>4. ~StopsFirst(c, <<"dashboard", "backend">>, "ok", TRUE) BY <1>1 DEF StopsFirst, DeployRecords, DeployRecord
  <2>5. ~DeployLock(c) /\ ~DeployKilled(c) BY <2>1, <2>2, <2>3, <2>4 DEF DeployLock, DeployKilled
  <2>6. ~StopService(c)
    <3>1. ASSUME StopService(c) PROVE FALSE
      <4>1. deploy[c].pc = "stop" BY <3>1 DEF StopService
      <4>2. deploy' # [deploy EXCEPT ![c].todo = Tail(@)] /\ deploy' # [deploy EXCEPT ![c].todo = Tail(@), ![c].stuck = TRUE]
        BY <1>1, <4>1 DEF DeployRecords, DeployRecord
      <4> QED BY <2>1, <2>3, <3>1, <4>2 DEF StopService
    <3> QED BY <3>1
  <2>7. ~WaitStopped(c)
    <3>1. deploy' # [deploy EXCEPT ![c].pc = "stop", ![c].todo = Tail(@)] /\ deploy' # [deploy EXCEPT ![c].pc = "stop", ![c].todo = Tail(@), ![c].stuck = TRUE]
      BY <1>1 DEF DeployRecords, DeployRecord
    <3> QED BY <2>1, <3>1 DEF WaitStopped
  <2> QED BY <2>5, <2>6, <2>7
<1>7. StopsDone(c) BY <1>5, <1>6
<1>8. UNCHANGED <<svc, owner>> /\ deploy[c].pc = "stop" /\ deploy[c].todo = <<>> /\ deploy[c].then = "ok"
  BY <1>1, <1>7 DEF StopsDone, CommandOK, Course, Stopping
<1>9. \A s \in Services : owner[s] = Unowned BY <1>1, <1>8 DEF CommandOK, Cleared, Stopping, InTodo
<1>10. ~Living(p) BY <1>1, <1>9 DEF Lifetimes, Unowned
<1> QED BY <1>8, <1>10 DEF Living

(* Every step satisfies the action of StatusTruthful. *)
LEMMA StatusSaysTruly ==
    ASSUME DeployLocalAssumption, DeployInv, [DeployNext]_deployVars PROVE [SaidTruly]_deployVars
<1> SUFFICES ASSUME DeployNext, NEW c \in Deploys, deploy[c].pc = "status", deploy'[c].pc = "ok", NEW p \in Procs, Living(p)
             PROVE svc[p].svc \notin deploy'[c].said \/ \E d \in Deploys : deploy[d].stuck
  BY DEF SaidTruly
<1>1. CommandOK(c) /\ DeployRecords /\ Lifetimes /\ Exclusive(c) BY HolderAlone DEF DeployInv, Holding
<1>2. BeginDeploy(c) \/ DeployStep(c) \/ DeployKilled(c) BY <1>1, WhoMoves
<1>3. DeployStatus(c) \/ DeployKilled(c)
  BY <1>2
     DEF DeployStep, BeginDeploy, DeployLock, check_dependencies, InstallBackend, WriteChecksum, InstallDashboard, RenameDashboard, EnsureToken,
     WriteAuthorization, LoadState, Look, LaunchService, WriteRecord, ServiceReady, ServiceNotReady, StopService, WaitStopped, StopsDone, WriteState,
     WriteConfig, StartProxy, rollback
<1>4. ~DeployKilled(c)
  <2>1. ASSUME DeployKilled(c) PROVE FALSE
    <3>1. deploy' = Ended(c, "failed", TRUE, {}) BY <2>1 DEF DeployKilled
    <3>2. "failed" \in DeployStates /\ {} \in SUBSET Services /\ TRUE \in BOOLEAN BY DEF DeployStates
    <3>3. deploy'[c].pc = "failed" BY <1>1, <3>1, <3>2, EndsWith DEF Reset
    <3> QED BY <3>3
  <2> QED BY <2>1
<1>5. CASE dstate = NoState
  <2>1. svc[p].by \in Deploys BY <1>5 DEF DeployInv, Known
  <2>2. PICK d \in Deploys : d = svc[p].by BY <2>1
  <2>3. Accounted(d, p) /\ (deploy[d].pc \in {"config", "proxy", "rollback"} \/ (deploy[d].pc = "ok" /\ deploy[d].op = "start") => dstate # NoState)
    BY <2>2 DEF DeployInv, CommandOK, Accounts
  <2>4. deploy[d].pc \notin Holding \ {"status"} BY <1>1 DEF Exclusive
  <2>5. deploy[d].stuck BY <1>5, <2>3, <2>4 DEF Accounted, Holding, Stopping, Ensuring, StopsBefore
  <2> QED BY <2>5
<1>6. CASE dstate # NoState
  <2> DEFINE said == {s \in Services : owner[s] = Unowned}
  <2>1. deploy' = Ended(c, "ok", FALSE, said) BY <1>3, <1>4, <1>6 DEF DeployStatus
  <2>2. said \in SUBSET Services /\ "ok" \in DeployStates /\ FALSE \in BOOLEAN BY DEF DeployStates
  <2>3. svc[p].svc \notin said BY <1>1 DEF Lifetimes, Unowned
  <2> HIDE DEF said
  <2>4. deploy'[c].said = said BY <1>1, <2>1, <2>2, EndsWith
  <2> QED BY <2>3, <2>4
<1> QED BY <1>5, <1>6

-----------------------------------------------------------------------------
(* The broker, the worker and the host. *)

(* Locks, files, processes and the locals of the commands have their types. *)
BrokerTypes ==
    /\ startLock \in {Free} \cup ({"cli"} \X Clis)
    /\ lifeLock \in {Free} \cup ({"cli"} \X Clis) \cup ({"broker"} \X Pids)
    /\ info \in {BadInfo, NoPid} \cup Pids /\ token \in {EmptyToken, NoPid} \cup Pids
    /\ sock \in {NoPid, OldSocket} \cup Pids /\ proc \in [Pids -> ProcStates]
    /\ host \in {"macos", "linux"}
    /\ unit \in [state : {"inactive", "active", "autorestart"}, main : {NoPid} \cup Pids,
                 want : {"none", "start", "restart", "stop"}]
    /\ cli \in [Clis -> [op : Ops \cup {"none"}, pc : CliStates, ep : {BadInfo, NoPid} \cup Pids,
                         child : {NoPid} \cup Pids]]
(* Faults are bounded. *)
FaultBound == startFaults \in 0..MaxFaults
(* Only the command that holds the start lock is between taking and *)
(* dropping it.                                                     *)
OneCommand == \A c \in Clis : cli[c].pc \notin {"begin", "ok", "failed"} => startLock = <<"cli", c>>
(* The lifecycle lock travels with the child, so the living broker holds *)
(* it, and a start that waits waits for the only one.                    *)
OnMacos ==
    host = "macos" =>
        /\ unit.state = "inactive" /\ unit.want = "none"
        /\ \A c \in Clis : /\ cli[c].pc \notin {"control", "service"}
                           /\ cli[c].pc = "ready" => /\ cli[c].op # "stop" /\ cli[c].child \in Pids
                                                     /\ \A p \in Pids : Alive(p) => p = cli[c].child
        /\ \A p \in Pids : Alive(p) => lifeLock = <<"broker", p>>
(* The living broker is the main process of the unit. *)
OnLinux ==
    host = "linux" =>
        /\ lifeLock = Free
        /\ \A c \in Clis : cli[c].pc \notin {"take", "inflight", "vacant"}
        /\ \A p \in Pids : Alive(p) => unit.state = "active" /\ unit.main = p
(* What a command has read before the points where it acts on it. *)
Waiting ==
    \A c \in Clis :
        /\ cli[c].pc = "vacant" => lifeLock = <<"cli", c>>
        /\ cli[c].pc \in {"probe", "shutdown", "stopping"} => cli[c].ep \in Pids
(* A broker has published what its state says, and nobody has removed it. *)
Published ==
    \A p \in Pids :
        /\ Listens(p) => sock = p
        /\ proc[p] \in {"token", "serving"} => token = p
        /\ proc[p] = "serving" => info = p
(* The inductive invariant of the broker commands. *)
BrokerInv == BrokerTypes /\ OneCommand /\ OnMacos /\ OnLinux /\ Waiting /\ Published /\ FaultBound

(* An installed product without a broker, with or without leftovers, *)
(* satisfies the invariant.                                          *)
LEMMA BrokerInitial == ASSUME BrokerStartAssumption, StartInit PROVE BrokerInv
  BY BrokerStartAssumption
     DEF BrokerStartAssumption, StartInit, BrokerInv, BrokerTypes, StartTypeOK, OneCommand, OnMacos, OnLinux, Waiting, Published, FaultBound,
     Pids, NoPid, BadInfo, EmptyToken, OldSocket, Free, Ops, CliStates, ProcStates, Alive, Dead, Listens

(* Every step of a command, a broker or systemd keeps the invariant: one *)
(* case per action, one step per part of the invariant.                  *)
LEMMA BrokerStep == ASSUME BrokerStartAssumption, BrokerInv, [StartNext]_startVars PROVE BrokerInv'
<1>1. ASSUME NEW c \in Clis, Acquire(c) PROVE BrokerInv'
  <2>1. FaultBound'
    BY <1>1 DEF Acquire, Begins, FirstState, FaultBound, BrokerInv, BrokerTypes, FaultBound,
           Alive, Dead, Free
  <2>2. BrokerTypes'
    BY <1>1 DEF Acquire, Begins, FirstState, BrokerTypes, CliStates, Ops, ProcStates, BrokerInv,
           BrokerTypes, FaultBound, Alive, Dead, Free
  <2>3. OneCommand'
    BY <1>1 DEF Acquire, Begins, FirstState, OneCommand, Ops, BrokerInv, BrokerTypes, FaultBound,
           Alive, Dead, Free
  <2>4. OnMacos'
    BY <1>1 DEF Acquire, Begins, FirstState, OnMacos, Waiting, OneCommand, CliStates, BrokerInv,
           BrokerTypes, FaultBound, Alive, Dead, Free
  <2>5. OnLinux'
    BY <1>1 DEF Acquire, Begins, FirstState, OnLinux, CliStates, BrokerInv, BrokerTypes,
           FaultBound, Alive, Dead, Free
  <2>6. Waiting'
    BY <1>1 DEF Acquire, Begins, FirstState, Waiting, OneCommand, OnMacos, OnLinux, BrokerInv,
           BrokerTypes, FaultBound, Alive, Dead, Free
  <2>7. Published'
    BY <1>1 DEF Acquire, Begins, FirstState, Published, Listens, OnMacos, OnLinux, Waiting,
           OneCommand, BrokerInv, BrokerTypes, FaultBound, Alive, Dead, Free
  <2> QED BY <2>1, <2>2, <2>3, <2>4, <2>5, <2>6, <2>7 DEF BrokerInv
<1>2. ASSUME NEW c \in Clis, Discover(c) PROVE BrokerInv'
  BY <1>2 DEF Discover, BadInfo, NoPid, Pids, BrokerStartAssumption, BrokerInv, BrokerTypes,
         FaultBound, Alive, Dead, Free, BrokerTypes, OneCommand, OnMacos, OnLinux, Waiting,
         Published, CliStates, Ops, ProcStates, Listens
<1>3. ASSUME NEW c \in Clis, Probe(c) PROVE BrokerInv'
  <2>1. FaultBound'
    BY <1>3 DEF Probe, OwnedExplicit, Finish, Goto, FaultBound, BrokerInv, BrokerTypes,
           FaultBound, Alive, Dead, Free
  <2>2. BrokerTypes'
    BY <1>3 DEF Probe, OwnedExplicit, Finish, Goto, BrokerTypes, CliStates, Ops, ProcStates,
           BrokerInv, BrokerTypes, FaultBound, Alive, Dead, Free
  <2>3. OneCommand'
    BY <1>3 DEF Probe, OwnedExplicit, Finish, Goto, OneCommand, Ops, BrokerInv, BrokerTypes,
           FaultBound, Alive, Dead, Free
  <2>4. OnMacos'
    BY <1>3 DEF Probe, OwnedExplicit, Finish, Goto, OnMacos, Waiting, OneCommand, CliStates,
           BrokerInv, BrokerTypes, FaultBound, Alive, Dead, Free
  <2>5. OnLinux'
    BY <1>3 DEF Probe, OwnedExplicit, Finish, Goto, OnLinux, CliStates, BrokerInv, BrokerTypes,
           FaultBound, Alive, Dead, Free
  <2>6. Waiting'
    BY <1>3 DEF Probe, OwnedExplicit, Finish, Goto, Waiting, OneCommand, OnMacos, OnLinux,
           BrokerInv, BrokerTypes, FaultBound, Alive, Dead, Free
  <2>7. Published'
    BY <1>3 DEF Probe, OwnedExplicit, Finish, Goto, Published, Listens, OnMacos, OnLinux,
           Waiting, OneCommand, BrokerInv, BrokerTypes, FaultBound, Alive, Dead, Free
  <2> QED BY <2>1, <2>2, <2>3, <2>4, <2>5, <2>6, <2>7 DEF BrokerInv
<1>4. ASSUME NEW c \in Clis, TakeLifecycle(c) PROVE BrokerInv'
  <2>1. FaultBound'
    BY <1>4 DEF TakeLifecycle, Goto, cleanup_failed_start, FaultBound, BrokerInv, BrokerTypes,
           FaultBound, Alive, Dead, Free
  <2>2. BrokerTypes'
    BY <1>4 DEF TakeLifecycle, Goto, cleanup_failed_start, BrokerTypes, CliStates, Ops,
           ProcStates, BrokerInv, BrokerTypes, FaultBound, Alive, Dead, Free
  <2>3. OneCommand'
    BY <1>4 DEF TakeLifecycle, Goto, cleanup_failed_start, OneCommand, Ops, BrokerInv,
           BrokerTypes, FaultBound, Alive, Dead, Free
  <2>4. OnMacos'
    BY <1>4 DEF TakeLifecycle, Goto, cleanup_failed_start, OnMacos, Waiting, OneCommand,
           CliStates, BrokerInv, BrokerTypes, FaultBound, Alive, Dead, Free
  <2>5. OnLinux'
    BY <1>4 DEF TakeLifecycle, Goto, cleanup_failed_start, OnLinux, CliStates, BrokerInv,
           BrokerTypes, FaultBound, Alive, Dead, Free
  <2>6. Waiting'
    BY <1>4 DEF TakeLifecycle, Goto, cleanup_failed_start, Waiting, OneCommand, OnMacos, OnLinux,
           BrokerInv, BrokerTypes, FaultBound, Alive, Dead, Free
  <2>7. Published'
    BY <1>4 DEF TakeLifecycle, Goto, cleanup_failed_start, Published, Listens, OnMacos, OnLinux,
           Waiting, OneCommand, BrokerInv, BrokerTypes, FaultBound, Alive, Dead, Free
  <2> QED BY <2>1, <2>2, <2>3, <2>4, <2>5, <2>6, <2>7 DEF BrokerInv
<1>5. ASSUME NEW c \in Clis, InflightPoll(c) PROVE BrokerInv'
  <2>1. FaultBound'
    BY <1>5 DEF InflightPoll, OwnedExplicit, Goto, cleanup_failed_start, FaultBound, BrokerInv,
           BrokerTypes, FaultBound, Alive, Dead, Free
  <2>2. BrokerTypes'
    BY <1>5 DEF InflightPoll, OwnedExplicit, Goto, cleanup_failed_start, BrokerTypes, CliStates,
           Ops, ProcStates, BrokerInv, BrokerTypes, FaultBound, Alive, Dead, Free
  <2>3. OneCommand'
    BY <1>5 DEF InflightPoll, OwnedExplicit, Goto, cleanup_failed_start, OneCommand, Ops,
           BrokerInv, BrokerTypes, FaultBound, Alive, Dead, Free
  <2>4. OnMacos'
    BY <1>5 DEF InflightPoll, OwnedExplicit, Goto, cleanup_failed_start, OnMacos, Waiting,
           OneCommand, CliStates, BrokerInv, BrokerTypes, FaultBound, Alive, Dead, Free
  <2>5. OnLinux'
    BY <1>5 DEF InflightPoll, OwnedExplicit, Goto, cleanup_failed_start, OnLinux, CliStates,
           BrokerInv, BrokerTypes, FaultBound, Alive, Dead, Free
  <2>6. Waiting'
    BY <1>5 DEF InflightPoll, OwnedExplicit, Goto, cleanup_failed_start, Waiting, OneCommand,
           OnMacos, OnLinux, BrokerInv, BrokerTypes, FaultBound, Alive, Dead, Free
  <2>7. Published'
    BY <1>5 DEF InflightPoll, OwnedExplicit, Goto, cleanup_failed_start, Published, Listens,
           OnMacos, OnLinux, Waiting, OneCommand, BrokerInv, BrokerTypes, FaultBound, Alive,
           Dead, Free
  <2> QED BY <2>1, <2>2, <2>3, <2>4, <2>5, <2>6, <2>7 DEF BrokerInv
<1>6. ASSUME NEW c \in Clis, InflightTimeout(c) PROVE BrokerInv'
  <2>1. FaultBound'
    BY <1>6 DEF InflightTimeout, Finish, Goto, FaultBound, BrokerInv, BrokerTypes, FaultBound,
           Alive, Dead, Free
  <2>2. BrokerTypes'
    BY <1>6 DEF InflightTimeout, Finish, Goto, BrokerTypes, CliStates, Ops, ProcStates,
           BrokerInv, BrokerTypes, FaultBound, Alive, Dead, Free
  <2>3. OneCommand'
    BY <1>6 DEF InflightTimeout, Finish, Goto, OneCommand, Ops, BrokerInv, BrokerTypes,
           FaultBound, Alive, Dead, Free
  <2>4. OnMacos'
    BY <1>6 DEF InflightTimeout, Finish, Goto, OnMacos, Waiting, OneCommand, CliStates,
           BrokerInv, BrokerTypes, FaultBound, Alive, Dead, Free
  <2>5. OnLinux'
    BY <1>6 DEF InflightTimeout, Finish, Goto, OnLinux, CliStates, BrokerInv, BrokerTypes,
           FaultBound, Alive, Dead, Free
  <2>6. Waiting'
    BY <1>6 DEF InflightTimeout, Finish, Goto, Waiting, OneCommand, OnMacos, OnLinux, BrokerInv,
           BrokerTypes, FaultBound, Alive, Dead, Free
  <2>7. Published'
    BY <1>6 DEF InflightTimeout, Finish, Goto, Published, Listens, OnMacos, OnLinux, Waiting,
           OneCommand, BrokerInv, BrokerTypes, FaultBound, Alive, Dead, Free
  <2> QED BY <2>1, <2>2, <2>3, <2>4, <2>5, <2>6, <2>7 DEF BrokerInv
<1>7. ASSUME NEW c \in Clis, Launch(c) PROVE BrokerInv'
  <2>1. ASSUME NEW p \in Pids, proc[p] = "none", proc' = [proc EXCEPT ![p] = "boot"], lifeLock' = <<"broker", p>>,
               cli' = [cli EXCEPT ![c].child = p, ![c].pc = "ready"], UNCHANGED startLock, cleanup_failed_start,
               cli[c].pc = "vacant", cli[c].op # "stop", host = "macos", UNCHANGED <<host, sock, unit, startFaults>>
        PROVE BrokerInv'
    <3>1. FaultBound' BY <2>1 DEF BrokerInv, BrokerTypes, FaultBound, cleanup_failed_start, Free
    <3>2. BrokerTypes' BY <2>1 DEF BrokerInv, BrokerTypes, CliStates, Ops, ProcStates, cleanup_failed_start, Free
    <3>3. OneCommand' BY <2>1 DEF BrokerInv, BrokerTypes, OneCommand, cleanup_failed_start, Free
    <3>4. OnMacos' BY <2>1 DEF BrokerInv, BrokerTypes, OnMacos, Waiting, Alive, Dead, cleanup_failed_start, Free
    <3>5. OnLinux' BY <2>1 DEF BrokerInv, BrokerTypes, OnLinux, Alive, Dead, cleanup_failed_start, Free
    <3>6. Waiting' BY <2>1 DEF BrokerInv, BrokerTypes, Waiting, OneCommand, cleanup_failed_start, Free
    <3>7. Published'
      BY <2>1 DEF BrokerInv, BrokerTypes, Published, Listens, OnMacos, Waiting, Alive, Dead, cleanup_failed_start, Free
    <3> QED BY <3>1, <3>2, <3>3, <3>4, <3>5, <3>6, <3>7 DEF BrokerInv
  <2>2. CASE Finish(c, "failed") /\ UNCHANGED proc /\ cleanup_failed_start /\ cli[c].pc = "vacant"
             /\ host = "macos" /\ UNCHANGED <<host, sock, unit, startFaults>>
    <3>1. FaultBound' BY <2>2 DEF BrokerInv, BrokerTypes, FaultBound, Finish, Goto, cleanup_failed_start, Free
    <3>2. BrokerTypes'
      BY <2>2 DEF BrokerInv, BrokerTypes, CliStates, Ops, ProcStates, Finish, Goto, cleanup_failed_start, Free
    <3>3. OneCommand' BY <2>2 DEF BrokerInv, BrokerTypes, OneCommand, Finish, Goto, cleanup_failed_start, Free
    <3>4. OnMacos'
      BY <2>2 DEF BrokerInv, BrokerTypes, OnMacos, Waiting, Alive, Dead, Finish, Goto, cleanup_failed_start, Free
    <3>5. OnLinux' BY <2>2 DEF BrokerInv, BrokerTypes, OnLinux, Alive, Dead, Finish, Goto, cleanup_failed_start, Free
    <3>6. Waiting' BY <2>2 DEF BrokerInv, BrokerTypes, Waiting, OneCommand, Finish, Goto, cleanup_failed_start, Free
    <3>7. Published'
      BY <2>2
         DEF BrokerInv, BrokerTypes, Published, Listens, OnMacos, Waiting, Alive, Dead, Finish, Goto, cleanup_failed_start, Free
    <3> QED BY <3>1, <3>2, <3>3, <3>4, <3>5, <3>6, <3>7 DEF BrokerInv
  <2> QED BY <1>7, <2>1, <2>2 DEF Launch, NextPid
<1>8. ASSUME NEW c \in Clis, StopVacant(c) PROVE BrokerInv'
  <2>1. FaultBound'
    BY <1>8 DEF StopVacant, Finish, Goto, cleanup_failed_start, FaultBound, BrokerInv,
           BrokerTypes, FaultBound, Alive, Dead, Free
  <2>2. BrokerTypes'
    BY <1>8 DEF StopVacant, Finish, Goto, cleanup_failed_start, BrokerTypes, CliStates, Ops,
           ProcStates, BrokerInv, BrokerTypes, FaultBound, Alive, Dead, Free
  <2>3. OneCommand'
    BY <1>8 DEF StopVacant, Finish, Goto, cleanup_failed_start, OneCommand, Ops, BrokerInv,
           BrokerTypes, FaultBound, Alive, Dead, Free
  <2>4. OnMacos'
    BY <1>8 DEF StopVacant, Finish, Goto, cleanup_failed_start, OnMacos, Waiting, OneCommand,
           CliStates, BrokerInv, BrokerTypes, FaultBound, Alive, Dead, Free
  <2>5. OnLinux'
    BY <1>8 DEF StopVacant, Finish, Goto, cleanup_failed_start, OnLinux, CliStates, BrokerInv,
           BrokerTypes, FaultBound, Alive, Dead, Free
  <2>6. Waiting'
    BY <1>8 DEF StopVacant, Finish, Goto, cleanup_failed_start, Waiting, OneCommand, OnMacos,
           OnLinux, BrokerInv, BrokerTypes, FaultBound, Alive, Dead, Free
  <2>7. Published'
    BY <1>8 DEF StopVacant, Finish, Goto, cleanup_failed_start, Published, Listens, OnMacos,
           OnLinux, Waiting, OneCommand, BrokerInv, BrokerTypes, FaultBound, Alive, Dead, Free
  <2> QED BY <2>1, <2>2, <2>3, <2>4, <2>5, <2>6, <2>7 DEF BrokerInv
<1>9. ASSUME NEW c \in Clis, Ready(c) PROVE BrokerInv'
  BY <1>9 DEF Ready, OwnedExplicit, BrokerInv, BrokerTypes, FaultBound, Alive, Dead, Free,
         BrokerTypes, OneCommand, OnMacos, OnLinux, Waiting, Published, CliStates, Ops,
         ProcStates, Listens
<1>10. ASSUME NEW c \in Clis, terminate_failed_start(c) PROVE BrokerInv'
  <2>1. FaultBound'
    BY <1>10 DEF terminate_failed_start, Goto, cleanup_failed_start, KillFreesLock, FaultBound,
           BrokerInv, BrokerTypes, FaultBound, Alive, Dead, Free
  <2>2. BrokerTypes'
    BY <1>10, ZenonT(60) DEF terminate_failed_start, Goto, cleanup_failed_start, KillFreesLock, BrokerTypes,
           CliStates, Ops, ProcStates, BrokerInv, BrokerTypes, FaultBound, Alive, Dead, Free
  <2>3. OneCommand'
    BY <1>10 DEF terminate_failed_start, Goto, cleanup_failed_start, KillFreesLock, OneCommand,
           Ops, BrokerInv, BrokerTypes, FaultBound, Alive, Dead, Free
  <2>4. OnMacos'
    BY <1>10 DEF terminate_failed_start, Goto, cleanup_failed_start, KillFreesLock, OnMacos,
           Waiting, OneCommand, CliStates, BrokerInv, BrokerTypes, FaultBound, Alive, Dead, Free
  <2>5. OnLinux'
    BY <1>10 DEF terminate_failed_start, Goto, cleanup_failed_start, KillFreesLock, OnLinux,
           CliStates, BrokerInv, BrokerTypes, FaultBound, Alive, Dead, Free
  <2>6. Waiting'
    BY <1>10 DEF terminate_failed_start, Goto, cleanup_failed_start, KillFreesLock, Waiting,
           OneCommand, OnMacos, OnLinux, BrokerInv, BrokerTypes, FaultBound, Alive, Dead, Free
  <2>7. Published'
    BY <1>10 DEF terminate_failed_start, Goto, cleanup_failed_start, KillFreesLock, Published,
           Listens, OnMacos, OnLinux, Waiting, OneCommand, BrokerInv, BrokerTypes, FaultBound,
           Alive, Dead, Free
  <2> QED BY <2>1, <2>2, <2>3, <2>4, <2>5, <2>6, <2>7 DEF BrokerInv
<1>11. ASSUME NEW c \in Clis, RequestShutdown(c) PROVE BrokerInv'
  <2>1. FaultBound'
    BY <1>11 DEF RequestShutdown, Finish, Goto, FaultBound, BrokerInv, BrokerTypes, FaultBound,
           Alive, Dead, Free
  <2>2. BrokerTypes'
    BY <1>11 DEF RequestShutdown, Finish, Goto, BrokerTypes, CliStates, Ops, ProcStates,
           BrokerInv, BrokerTypes, FaultBound, Alive, Dead, Free
  <2>3. OneCommand'
    BY <1>11 DEF RequestShutdown, Finish, Goto, OneCommand, Ops, BrokerInv, BrokerTypes,
           FaultBound, Alive, Dead, Free
  <2>4. OnMacos'
    BY <1>11 DEF RequestShutdown, Finish, Goto, OnMacos, Waiting, OneCommand, CliStates,
           BrokerInv, BrokerTypes, FaultBound, Alive, Dead, Free
  <2>5. OnLinux'
    BY <1>11 DEF RequestShutdown, Finish, Goto, OnLinux, CliStates, BrokerInv, BrokerTypes,
           FaultBound, Alive, Dead, Free
  <2>6. Waiting'
    BY <1>11 DEF RequestShutdown, Finish, Goto, Waiting, OneCommand, OnMacos, OnLinux, BrokerInv,
           BrokerTypes, FaultBound, Alive, Dead, Free
  <2>7. Published'
    BY <1>11 DEF RequestShutdown, Finish, Goto, Published, Listens, OnMacos, OnLinux, Waiting,
           OneCommand, BrokerInv, BrokerTypes, FaultBound, Alive, Dead, Free
  <2> QED BY <2>1, <2>2, <2>3, <2>4, <2>5, <2>6, <2>7 DEF BrokerInv
<1>12. ASSUME NEW c \in Clis, Stopped(c) PROVE BrokerInv'
  BY <1>12 DEF Stopped, Goto, BrokerInv, BrokerTypes, FaultBound, Alive, Dead, Free, BrokerTypes,
         OneCommand, OnMacos, OnLinux, Waiting, Published, CliStates, Ops, ProcStates, Listens
<1>13. ASSUME NEW c \in Clis, StopTimeout(c) PROVE BrokerInv'
  <2>1. FaultBound'
    BY <1>13 DEF StopTimeout, Finish, Goto, FaultBound, BrokerInv, BrokerTypes, FaultBound,
           Alive, Dead, Free
  <2>2. BrokerTypes'
    BY <1>13 DEF StopTimeout, Finish, Goto, BrokerTypes, CliStates, Ops, ProcStates, BrokerInv,
           BrokerTypes, FaultBound, Alive, Dead, Free
  <2>3. OneCommand'
    BY <1>13 DEF StopTimeout, Finish, Goto, OneCommand, Ops, BrokerInv, BrokerTypes, FaultBound,
           Alive, Dead, Free
  <2>4. OnMacos'
    BY <1>13 DEF StopTimeout, Finish, Goto, OnMacos, Waiting, OneCommand, CliStates, BrokerInv,
           BrokerTypes, FaultBound, Alive, Dead, Free
  <2>5. OnLinux'
    BY <1>13 DEF StopTimeout, Finish, Goto, OnLinux, CliStates, BrokerInv, BrokerTypes,
           FaultBound, Alive, Dead, Free
  <2>6. Waiting'
    BY <1>13 DEF StopTimeout, Finish, Goto, Waiting, OneCommand, OnMacos, OnLinux, BrokerInv,
           BrokerTypes, FaultBound, Alive, Dead, Free
  <2>7. Published'
    BY <1>13 DEF StopTimeout, Finish, Goto, Published, Listens, OnMacos, OnLinux, Waiting,
           OneCommand, BrokerInv, BrokerTypes, FaultBound, Alive, Dead, Free
  <2> QED BY <2>1, <2>2, <2>3, <2>4, <2>5, <2>6, <2>7 DEF BrokerInv
<1>14. ASSUME NEW c \in Clis, Control(c) PROVE BrokerInv'
  <2>1. FaultBound'
    BY <1>14 DEF Control, Goto, FaultBound, BrokerInv, BrokerTypes, FaultBound, Alive, Dead, Free
  <2>2. BrokerTypes'
    BY <1>14 DEF Control, Goto, BrokerTypes, CliStates, Ops, ProcStates, BrokerInv, BrokerTypes,
           FaultBound, Alive, Dead, Free
  <2>3. OneCommand'
    BY <1>14 DEF Control, Goto, OneCommand, Ops, BrokerInv, BrokerTypes, FaultBound, Alive, Dead,
           Free
  <2>4. OnMacos'
    BY <1>14 DEF Control, Goto, OnMacos, Waiting, OneCommand, CliStates, BrokerInv, BrokerTypes,
           FaultBound, Alive, Dead, Free
  <2>5. OnLinux'
    BY <1>14 DEF Control, Goto, OnLinux, CliStates, BrokerInv, BrokerTypes, FaultBound, Alive,
           Dead, Free
  <2>6. Waiting'
    BY <1>14 DEF Control, Goto, Waiting, OneCommand, OnMacos, OnLinux, BrokerInv, BrokerTypes,
           FaultBound, Alive, Dead, Free
  <2>7. Published'
    BY <1>14 DEF Control, Goto, Published, Listens, OnMacos, OnLinux, Waiting, OneCommand,
           BrokerInv, BrokerTypes, FaultBound, Alive, Dead, Free
  <2> QED BY <2>1, <2>2, <2>3, <2>4, <2>5, <2>6, <2>7 DEF BrokerInv
<1>15. ASSUME NEW c \in Clis, LinuxReady(c) PROVE BrokerInv'
  <2>1. FaultBound'
    BY <1>15 DEF LinuxReady, OwnedExplicit, Goto, FaultBound, BrokerInv, BrokerTypes, FaultBound,
           Alive, Dead, Free
  <2>2. BrokerTypes'
    BY <1>15 DEF LinuxReady, OwnedExplicit, Goto, BrokerTypes, CliStates, Ops, ProcStates,
           BrokerInv, BrokerTypes, FaultBound, Alive, Dead, Free
  <2>3. OneCommand'
    BY <1>15 DEF LinuxReady, OwnedExplicit, Goto, OneCommand, Ops, BrokerInv, BrokerTypes,
           FaultBound, Alive, Dead, Free
  <2>4. OnMacos'
    BY <1>15 DEF LinuxReady, OwnedExplicit, Goto, OnMacos, Waiting, OneCommand, CliStates,
           BrokerInv, BrokerTypes, FaultBound, Alive, Dead, Free
  <2>5. OnLinux'
    BY <1>15 DEF LinuxReady, OwnedExplicit, Goto, OnLinux, CliStates, BrokerInv, BrokerTypes,
           FaultBound, Alive, Dead, Free
  <2>6. Waiting'
    BY <1>15 DEF LinuxReady, OwnedExplicit, Goto, Waiting, OneCommand, OnMacos, OnLinux,
           BrokerInv, BrokerTypes, FaultBound, Alive, Dead, Free
  <2>7. Published'
    BY <1>15 DEF LinuxReady, OwnedExplicit, Goto, Published, Listens, OnMacos, OnLinux, Waiting,
           OneCommand, BrokerInv, BrokerTypes, FaultBound, Alive, Dead, Free
  <2> QED BY <2>1, <2>2, <2>3, <2>4, <2>5, <2>6, <2>7 DEF BrokerInv
<1>16. ASSUME NEW c \in Clis, LinuxStopped(c) PROVE BrokerInv'
  <2>1. FaultBound'
    BY <1>16 DEF LinuxStopped, Goto, FaultBound, BrokerInv, BrokerTypes, FaultBound, Alive, Dead,
           Free
  <2>2. BrokerTypes'
    BY <1>16 DEF LinuxStopped, Goto, BrokerTypes, CliStates, Ops, ProcStates, BrokerInv,
           BrokerTypes, FaultBound, Alive, Dead, Free
  <2>3. OneCommand'
    BY <1>16 DEF LinuxStopped, Goto, OneCommand, Ops, BrokerInv, BrokerTypes, FaultBound, Alive,
           Dead, Free
  <2>4. OnMacos'
    BY <1>16 DEF LinuxStopped, Goto, OnMacos, Waiting, OneCommand, CliStates, BrokerInv,
           BrokerTypes, FaultBound, Alive, Dead, Free
  <2>5. OnLinux'
    BY <1>16 DEF LinuxStopped, Goto, OnLinux, CliStates, BrokerInv, BrokerTypes, FaultBound,
           Alive, Dead, Free
  <2>6. Waiting'
    BY <1>16 DEF LinuxStopped, Goto, Waiting, OneCommand, OnMacos, OnLinux, BrokerInv,
           BrokerTypes, FaultBound, Alive, Dead, Free
  <2>7. Published'
    BY <1>16 DEF LinuxStopped, Goto, Published, Listens, OnMacos, OnLinux, Waiting, OneCommand,
           BrokerInv, BrokerTypes, FaultBound, Alive, Dead, Free
  <2> QED BY <2>1, <2>2, <2>3, <2>4, <2>5, <2>6, <2>7 DEF BrokerInv
<1>17. ASSUME NEW c \in Clis, ServiceStop(c) PROVE BrokerInv'
  <2>1. FaultBound'
    BY <1>17 DEF ServiceStop, Goto, FaultBound, BrokerInv, BrokerTypes, FaultBound, Alive, Dead,
           Free
  <2>2. BrokerTypes'
    BY <1>17 DEF ServiceStop, Goto, BrokerTypes, CliStates, Ops, ProcStates, BrokerInv,
           BrokerTypes, FaultBound, Alive, Dead, Free
  <2>3. OneCommand'
    BY <1>17 DEF ServiceStop, Goto, OneCommand, Ops, BrokerInv, BrokerTypes, FaultBound, Alive,
           Dead, Free
  <2>4. OnMacos'
    BY <1>17 DEF ServiceStop, Goto, OnMacos, Waiting, OneCommand, CliStates, BrokerInv,
           BrokerTypes, FaultBound, Alive, Dead, Free
  <2>5. OnLinux'
    BY <1>17 DEF ServiceStop, Goto, OnLinux, CliStates, BrokerInv, BrokerTypes, FaultBound,
           Alive, Dead, Free
  <2>6. Waiting'
    BY <1>17 DEF ServiceStop, Goto, Waiting, OneCommand, OnMacos, OnLinux, BrokerInv,
           BrokerTypes, FaultBound, Alive, Dead, Free
  <2>7. Published'
    BY <1>17 DEF ServiceStop, Goto, Published, Listens, OnMacos, OnLinux, Waiting, OneCommand,
           BrokerInv, BrokerTypes, FaultBound, Alive, Dead, Free
  <2> QED BY <2>1, <2>2, <2>3, <2>4, <2>5, <2>6, <2>7 DEF BrokerInv
<1>18. ASSUME NEW c \in Clis, CliCrash(c) PROVE BrokerInv'
  <2>1. FaultBound'
    BY <1>18 DEF CliCrash, Finish, Goto, BrokerStartAssumption, FaultBound, BrokerInv,
           BrokerTypes, FaultBound, Alive, Dead, Free
  <2>2. BrokerTypes'
    BY <1>18 DEF CliCrash, Finish, Goto, BrokerStartAssumption, BrokerTypes, CliStates, Ops,
           ProcStates, BrokerInv, BrokerTypes, FaultBound, Alive, Dead, Free
  <2>3. OneCommand'
    BY <1>18 DEF CliCrash, Finish, Goto, BrokerStartAssumption, OneCommand, Ops, BrokerInv,
           BrokerTypes, FaultBound, Alive, Dead, Free
  <2>4. OnMacos'
    BY <1>18 DEF CliCrash, Finish, Goto, BrokerStartAssumption, OnMacos, Waiting, OneCommand,
           CliStates, BrokerInv, BrokerTypes, FaultBound, Alive, Dead, Free
  <2>5. OnLinux'
    BY <1>18 DEF CliCrash, Finish, Goto, BrokerStartAssumption, OnLinux, CliStates, BrokerInv,
           BrokerTypes, FaultBound, Alive, Dead, Free
  <2>6. Waiting'
    BY <1>18 DEF CliCrash, Finish, Goto, BrokerStartAssumption, Waiting, OneCommand, OnMacos,
           OnLinux, BrokerInv, BrokerTypes, FaultBound, Alive, Dead, Free
  <2>7. Published'
    BY <1>18 DEF CliCrash, Finish, Goto, BrokerStartAssumption, Published, Listens, OnMacos,
           OnLinux, Waiting, OneCommand, BrokerInv, BrokerTypes, FaultBound, Alive, Dead, Free
  <2> QED BY <2>1, <2>2, <2>3, <2>4, <2>5, <2>6, <2>7 DEF BrokerInv
<1>19. ASSUME NEW p \in Pids, Bind(p) PROVE BrokerInv'
  BY <1>19 DEF Bind, Advance, BrokerInv, BrokerTypes, FaultBound, Alive, Dead, Free, BrokerTypes,
         OneCommand, OnMacos, OnLinux, Waiting, Published, CliStates, Ops, ProcStates, Listens
<1>20. ASSUME NEW p \in Pids, ConnectProbe(p) PROVE BrokerInv'
  <2>1. FaultBound'
    BY <1>20 DEF ConnectProbe, Advance, Die, KillFreesLock, Listens, FaultBound, BrokerInv,
           BrokerTypes, FaultBound, Alive, Dead, Free
  <2>2. BrokerTypes'
    BY <1>20 DEF ConnectProbe, Advance, Die, KillFreesLock, Listens, BrokerTypes, CliStates, Ops,
           ProcStates, BrokerInv, BrokerTypes, FaultBound, Alive, Dead, Free
  <2>3. OneCommand'
    BY <1>20 DEF ConnectProbe, Advance, Die, KillFreesLock, Listens, OneCommand, Ops, BrokerInv,
           BrokerTypes, FaultBound, Alive, Dead, Free
  <2>4. OnMacos'
    BY <1>20 DEF ConnectProbe, Advance, Die, KillFreesLock, Listens, OnMacos, Waiting,
           OneCommand, CliStates, BrokerInv, BrokerTypes, FaultBound, Alive, Dead, Free
  <2>5. OnLinux'
    BY <1>20 DEF ConnectProbe, Advance, Die, KillFreesLock, Listens, OnLinux, CliStates,
           BrokerInv, BrokerTypes, FaultBound, Alive, Dead, Free
  <2>6. Waiting'
    BY <1>20 DEF ConnectProbe, Advance, Die, KillFreesLock, Listens, Waiting, OneCommand,
           OnMacos, OnLinux, BrokerInv, BrokerTypes, FaultBound, Alive, Dead, Free
  <2>7. Published'
    BY <1>20 DEF ConnectProbe, Advance, Die, KillFreesLock, Listens, Published, OnMacos, OnLinux,
           Waiting, OneCommand, BrokerInv, BrokerTypes, FaultBound, Alive, Dead, Free
  <2> QED BY <2>1, <2>2, <2>3, <2>4, <2>5, <2>6, <2>7 DEF BrokerInv
<1>21. ASSUME NEW p \in Pids, RemoveStale(p) PROVE BrokerInv'
  <2>1. FaultBound'
    BY <1>21 DEF RemoveStale, Advance, Unlinked, FaultBound, BrokerInv, BrokerTypes, FaultBound,
           Alive, Dead, Free
  <2>2. BrokerTypes'
    BY <1>21 DEF RemoveStale, Advance, Unlinked, BrokerTypes, CliStates, Ops, ProcStates,
           BrokerInv, BrokerTypes, FaultBound, Alive, Dead, Free
  <2>3. OneCommand'
    BY <1>21 DEF RemoveStale, Advance, Unlinked, OneCommand, Ops, BrokerInv, BrokerTypes,
           FaultBound, Alive, Dead, Free
  <2>4. OnMacos'
    BY <1>21 DEF RemoveStale, Advance, Unlinked, OnMacos, Waiting, OneCommand, CliStates,
           BrokerInv, BrokerTypes, FaultBound, Alive, Dead, Free
  <2>5. OnLinux'
    BY <1>21 DEF RemoveStale, Advance, Unlinked, OnLinux, CliStates, BrokerInv, BrokerTypes,
           FaultBound, Alive, Dead, Free
  <2>6. Waiting'
    BY <1>21 DEF RemoveStale, Advance, Unlinked, Waiting, OneCommand, OnMacos, OnLinux,
           BrokerInv, BrokerTypes, FaultBound, Alive, Dead, Free
  <2>7. Published'
    BY <1>21 DEF RemoveStale, Advance, Unlinked, Published, Listens, OnMacos, OnLinux, Waiting,
           OneCommand, BrokerInv, BrokerTypes, FaultBound, Alive, Dead, Free
  <2> QED BY <2>1, <2>2, <2>3, <2>4, <2>5, <2>6, <2>7 DEF BrokerInv
<1>22. ASSUME NEW p \in Pids, Rebind(p) PROVE BrokerInv'
  BY <1>22 DEF Rebind, Advance, Die, KillFreesLock, BrokerInv, BrokerTypes, FaultBound, Alive,
         Dead, Free, BrokerTypes, OneCommand, OnMacos, OnLinux, Waiting, Published, CliStates,
         Ops, ProcStates, Listens
<1>23. ASSUME NEW p \in Pids, CreateToken(p) PROVE BrokerInv'
  <2>1. FaultBound'
    BY <1>23 DEF CreateToken, Advance, FaultBound, BrokerInv, BrokerTypes, FaultBound, Alive,
           Dead, Free
  <2>2. BrokerTypes'
    BY <1>23 DEF CreateToken, Advance, BrokerTypes, CliStates, Ops, ProcStates, BrokerInv,
           BrokerTypes, FaultBound, Alive, Dead, Free
  <2>3. OneCommand'
    BY <1>23 DEF CreateToken, Advance, OneCommand, Ops, BrokerInv, BrokerTypes, FaultBound,
           Alive, Dead, Free
  <2>4. OnMacos'
    BY <1>23 DEF CreateToken, Advance, OnMacos, Waiting, OneCommand, CliStates, BrokerInv,
           BrokerTypes, FaultBound, Alive, Dead, Free
  <2>5. OnLinux'
    BY <1>23 DEF CreateToken, Advance, OnLinux, CliStates, BrokerInv, BrokerTypes, FaultBound,
           Alive, Dead, Free
  <2>6. Waiting'
    BY <1>23 DEF CreateToken, Advance, Waiting, OneCommand, OnMacos, OnLinux, BrokerInv,
           BrokerTypes, FaultBound, Alive, Dead, Free
  <2>7. Published'
    BY <1>23 DEF CreateToken, Advance, Published, Listens, OnMacos, OnLinux, Waiting, OneCommand,
           BrokerInv, BrokerTypes, FaultBound, Alive, Dead, Free
  <2> QED BY <2>1, <2>2, <2>3, <2>4, <2>5, <2>6, <2>7 DEF BrokerInv
<1>24. ASSUME NEW p \in Pids, Publish(p) PROVE BrokerInv'
  BY <1>24 DEF Publish, Advance, BrokerInv, BrokerTypes, FaultBound, Alive, Dead, Free,
         BrokerTypes, OneCommand, OnMacos, OnLinux, Waiting, Published, CliStates, Ops,
         ProcStates, Listens
<1>25. ASSUME NEW p \in Pids, CloseTransport(p) PROVE BrokerInv'
  BY <1>25 DEF CloseTransport, Advance, Unlinked, BrokerInv, BrokerTypes, FaultBound, Alive,
         Dead, Free, BrokerTypes, OneCommand, OnMacos, OnLinux, Waiting, Published, CliStates,
         Ops, ProcStates, Listens
<1>26. ASSUME NEW p \in Pids, RemoveToken(p) PROVE BrokerInv'
  <2>1. FaultBound'
    BY <1>26 DEF RemoveToken, Advance, FaultBound, BrokerInv, BrokerTypes, FaultBound, Alive,
           Dead, Free
  <2>2. BrokerTypes'
    BY <1>26 DEF RemoveToken, Advance, BrokerTypes, CliStates, Ops, ProcStates, BrokerInv,
           BrokerTypes, FaultBound, Alive, Dead, Free
  <2>3. OneCommand'
    BY <1>26 DEF RemoveToken, Advance, OneCommand, Ops, BrokerInv, BrokerTypes, FaultBound,
           Alive, Dead, Free
  <2>4. OnMacos'
    BY <1>26 DEF RemoveToken, Advance, OnMacos, Waiting, OneCommand, CliStates, BrokerInv,
           BrokerTypes, FaultBound, Alive, Dead, Free
  <2>5. OnLinux'
    BY <1>26 DEF RemoveToken, Advance, OnLinux, CliStates, BrokerInv, BrokerTypes, FaultBound,
           Alive, Dead, Free
  <2>6. Waiting'
    BY <1>26 DEF RemoveToken, Advance, Waiting, OneCommand, OnMacos, OnLinux, BrokerInv,
           BrokerTypes, FaultBound, Alive, Dead, Free
  <2>7. Published'
    BY <1>26 DEF RemoveToken, Advance, Published, Listens, OnMacos, OnLinux, Waiting, OneCommand,
           BrokerInv, BrokerTypes, FaultBound, Alive, Dead, Free
  <2> QED BY <2>1, <2>2, <2>3, <2>4, <2>5, <2>6, <2>7 DEF BrokerInv
<1>27. ASSUME NEW p \in Pids, Exit(p) PROVE BrokerInv'
  BY <1>27 DEF Exit, Die, KillFreesLock, BrokerInv, BrokerTypes, FaultBound, Alive, Dead, Free,
         BrokerTypes, OneCommand, OnMacos, OnLinux, Waiting, Published, CliStates, Ops,
         ProcStates, Listens
<1>28. ASSUME NEW p \in Pids, StartupError(p) PROVE BrokerInv'
  BY <1>28 DEF StartupError, Die, KillFreesLock, BrokerInv, BrokerTypes, FaultBound, Alive, Dead,
         Free, BrokerTypes, OneCommand, OnMacos, OnLinux, Waiting, Published, CliStates, Ops,
         ProcStates, Listens
<1>29. ASSUME NEW p \in Pids, BrokerCrash(p) PROVE BrokerInv'
  BY <1>29 DEF BrokerCrash, Die, KillFreesLock, BrokerStartAssumption, BrokerInv, BrokerTypes,
         FaultBound, Alive, Dead, Free, BrokerTypes, OneCommand, OnMacos, OnLinux, Waiting,
         Published, CliStates, Ops, ProcStates, Listens
<1>30. CASE UnitSpawn
  BY <1>30 DEF UnitSpawn, NextPid, cleanup_failed_start, BrokerInv, BrokerTypes, FaultBound,
         Alive, Dead, Free, BrokerTypes, OneCommand, OnMacos, OnLinux, Waiting, Published,
         CliStates, Ops, ProcStates, Listens
<1>31. CASE UnitJob
  BY <1>31 DEF UnitJob, BrokerInv, BrokerTypes, FaultBound, Alive, Dead, Free, BrokerTypes,
         OneCommand, OnMacos, OnLinux, Waiting, Published, CliStates, Ops, ProcStates, Listens
<1>32. CASE UnitExit
  BY <1>32 DEF UnitExit, cleanup_failed_start, BrokerInv, BrokerTypes, FaultBound, Alive, Dead,
         Free, BrokerTypes, OneCommand, OnMacos, OnLinux, Waiting, Published, CliStates, Ops,
         ProcStates, Listens
<1>33. CASE UnitGivesUp
  BY <1>33, ZenonT(60) DEF UnitGivesUp, NextPid, BrokerInv, BrokerTypes, FaultBound, Alive, Dead, Free,
         BrokerTypes, OneCommand, OnMacos, OnLinux, Waiting, Published, CliStates, Ops,
         ProcStates, Listens
<1>u. CASE UNCHANGED startVars
  BY <1>u DEF startVars, BrokerInv, BrokerTypes, FaultBound, OneCommand, OnMacos, OnLinux, Waiting, Published, Alive, Listens
<1> QED
  BY <1>1, <1>2, <1>3, <1>4, <1>5, <1>6, <1>7, <1>8, <1>9, <1>10, <1>11, <1>12, <1>13, <1>14, <1>15, <1>16, <1>17, <1>18, <1>19, <1>20, <1>21, <1>22, <1>23, <1>24, <1>25, <1>26, <1>27, <1>28, <1>29, <1>30, <1>31, <1>32, <1>33, <1>u
     DEF StartNext, CliStep, ProcStep, UnitStep

(* The locals of the commands have their types. *)
CommandTypes == cli \in [Clis -> [op : Ops \cup {"none"}, pc : CliStates, ep : {BadInfo, NoPid} \cup Pids, child : {NoPid} \cup Pids]]

(* The invariant gives what BrokerFindable says. *)
LEMMA BrokerFound == BrokerInv => BrokerFindable
<1> SUFFICES ASSUME BrokerInv PROVE BrokerFindable
  OBVIOUS
<1>1. StartTypeOK
  BY DEF BrokerInv, BrokerTypes, FaultBound, StartTypeOK
<1>2. OneBroker
  BY DEF BrokerInv, BrokerTypes, OnMacos, OnLinux, OneBroker, Alive
<1>3. SocketLeadsToBroker /\ ServingStaysPublished
  BY DEF BrokerInv, Published, Listens, SocketLeadsToBroker, ServingStaysPublished
<1> QED BY <1>1, <1>2, <1>3 DEF BrokerFindable

(* The action of StopMeansStopped. *)
StopIsDone ==
    \A c \in Clis :
        host = "macos" /\ cli[c].pc # cli'[c].pc =>
            /\ cli[c].op = "stop" /\ cli'[c].pc = "ok" =>
                (\A p \in Pids : ~Alive(p)') /\ info' = NoPid /\ token' = NoPid
            /\ cli[c].pc = "ready" /\ cli'[c].pc = "failed" /\ startFaults' = startFaults =>
                ~Alive(cli[c].child)'

(* Every step satisfies the action of StopMeansStopped. *)
LEMMA BrokerStopped ==
    ASSUME BrokerStartAssumption, BrokerInv, [StartNext]_startVars PROVE [StopIsDone]_startVars
<1> SUFFICES ASSUME StartNext PROVE StopIsDone
  OBVIOUS
<1>0. CommandTypes
  BY DEF BrokerInv, BrokerTypes, CommandTypes
<1>1. ASSUME UNCHANGED cli PROVE StopIsDone
  BY <1>1 DEF StopIsDone
<1>2. ASSUME NEW c \in Clis, StopVacant(c) PROVE StopIsDone
  BY <1>0, <1>2
     DEF StopVacant, Finish, Goto, cleanup_failed_start, StopIsDone, CommandTypes, BrokerInv, Waiting, OnMacos, Alive
<1>3. ASSUME NEW c \in Clis, terminate_failed_start(c) PROVE StopIsDone
  BY <1>0, <1>3 DEF terminate_failed_start, Goto, StopIsDone, CommandTypes, BrokerInv, BrokerTypes, OnMacos, Alive, Dead
<1>4. ASSUME NEW c \in Clis, CliCrash(c) PROVE StopIsDone
  BY <1>0, <1>4, BrokerStartAssumption DEF CliCrash, Finish, Goto, CommandTypes, BrokerInv, FaultBound,
     BrokerStartAssumption, StopIsDone
<1>5. ASSUME NEW c \in Clis, CliStep(c), ~StopVacant(c), ~terminate_failed_start(c) PROVE StopIsDone
  <2>1. \A d \in Clis \ {c} : cli'[d] = cli[d]
    BY <1>0, <1>5 DEF CliStep, Acquire, Begins, Discover, Probe, Finish, Goto, TakeLifecycle, InflightPoll, InflightTimeout,
         Launch, Ready, RequestShutdown, Stopped, StopTimeout, Control, LinuxReady, LinuxStopped, ServiceStop, CommandTypes
  <2>2. host = "macos" /\ cli[c].pc # cli'[c].pc => ~(cli[c].op = "stop" /\ cli'[c].pc = "ok")
    BY <1>0, <1>5, ZenonT(60)
       DEF CliStep, Acquire, Begins, FirstState, Discover, Probe, Finish, Goto, TakeLifecycle, InflightPoll, InflightTimeout,
         Launch, Ready, RequestShutdown, Stopped, StopTimeout, Control, LinuxReady, LinuxStopped, ServiceStop, CommandTypes, BrokerInv, OnMacos
  <2>3. host = "macos" /\ cli[c].pc # cli'[c].pc => ~(cli[c].pc = "ready" /\ cli'[c].pc = "failed")
    BY <1>0, <1>5
       DEF CliStep, Acquire, Begins, FirstState, Discover, Probe, Finish, Goto, TakeLifecycle, InflightPoll, InflightTimeout,
         Launch, Ready, RequestShutdown, Stopped, StopTimeout, Control, LinuxReady, LinuxStopped, ServiceStop, CommandTypes, BrokerInv, OnMacos
  <2> QED BY <2>1, <2>2, <2>3 DEF StopIsDone
<1>6. ASSUME NEW p \in Pids, ProcStep(p) \/ BrokerCrash(p) PROVE UNCHANGED cli
  BY <1>6
     DEF ProcStep, BrokerCrash, Bind, ConnectProbe, RemoveStale, Rebind, CreateToken, Publish, CloseTransport, RemoveToken, Exit, StartupError
<1>7. ASSUME UnitStep PROVE UNCHANGED cli
  BY <1>7 DEF UnitStep, UnitSpawn, UnitJob, UnitExit, UnitGivesUp
<1> QED BY <1>1, <1>2, <1>3, <1>4, <1>5, <1>6, <1>7 DEF StartNext

-----------------------------------------------------------------------------
(* The states of a worker process. *)
WorkerStates == {"none", "boot", "control", "connected", "ready", "left", "exit", "dead"}
(* The points between which a command can be interrupted. *)
CommandStates == {"begin", "lock", "decide", "launch", "wait", "token", "sync", "apply", "write", "discover",
                  "remove", "ok", "failed"}
(* What a command does. *)
CommandOps == {"none", "start", "login", "logout"}
(* The brokers, and none. *)
BrokerIds == 0..MaxBroker
(* The worker processes, none, and a process id of an earlier boot. *)
WorkerIds == 0..(MaxWorker + 1)

(* Locks, records and the stored credential have their types. *)
WorkerTypes ==
    /\ wStartLock \in Launchers \cup {NoOne}
    /\ wLifeLock \in {Unheld} \cup ({"cli"} \X Launchers) \cup ({"worker"} \X Workers)
    /\ wInfo \in [worker : WorkerIds, broker : BrokerIds] /\ wToken \in Workers \cup {NoOne}
    /\ stored \in [id : Nat, expired : BOOLEAN] /\ managed \in BOOLEAN
(* A worker process. *)
WorkerRecord == [st : WorkerStates, told : BrokerIds, met : BrokerIds, cred : Nat, swapped : BOOLEAN]
(* Every worker process is well formed. *)
WorkerRecords == worker \in [Workers -> WorkerRecord]
(* The locals of a command. *)
CommandRecord == [op : CommandOps, pc : CommandStates, broker : BrokerIds, child : WorkerIds, conn : WorkerIds,
                  cred : Nat, solo : BOOLEAN]
(* Every command keeps well-formed locals. *)
CommandRecords == cmd \in [Launchers -> CommandRecord]
(* The broker is one of the bounded number, and the last one stays. *)
BrokerBound ==
    /\ broker \in [pid : 1..MaxBroker, up : BOOLEAN] /\ wFaults \in 0..MaxWFaults
    /\ ~broker.up => broker.pid < MaxBroker
(* The start lock excludes: only one command is between taking it and the *)
(* token.                                                                 *)
StartHeld ==
    \A c \in Launchers :
        cmd[c].pc \in {"decide", "launch", "wait"} => wStartLock = c
(* The lifetime lock is with the command that launches or with the worker *)
(* that runs.                                                             *)
LifeHeld ==
    /\ \A c \in Launchers : cmd[c].pc = "launch" => wLifeLock = <<"cli", c>>
    /\ \A w \in Workers : Running(w) => wLifeLock = <<"worker", w>>
(* The child a start waits for is the only worker that can run. *)
Awaited ==
    \A c \in Launchers : cmd[c].pc = "wait" =>
        /\ cmd[c].child \in Workers /\ worker[cmd[c].child].st # "none"
        /\ worker[cmd[c].child].told = cmd[c].broker
        /\ \A w \in Workers : Running(w) => w = cmd[c].child
(* A worker has published what its state says, and nobody has removed it. *)
Recorded ==
    /\ \A w \in Workers :
        /\ worker[w].st \in {"control", "connected", "ready"} => wToken = w
        /\ worker[w].st = "ready" => wInfo = [worker |-> w, broker |-> worker[w].told]
    /\ RecordNamesRunningWorker
(* A worker is with the broker it was told of, unless that one was *)
(* replaced.                                                       *)
Connected ==
    /\ \A w \in Workers :
        /\ worker[w].st \in {"boot", "control"} => broker = [pid |-> worker[w].told, up |-> TRUE] \/ worker[w].swapped
        /\ worker[w].st \in {"connected", "ready"} => worker[w].met = worker[w].told \/ worker[w].swapped
    /\ wInfo.worker \in Workers =>
        /\ worker[wInfo.worker].st \notin {"none", "boot", "control"}
        /\ worker[wInfo.worker].told = wInfo.broker
        /\ worker[wInfo.worker].met = wInfo.broker \/ worker[wInfo.worker].swapped
(* The credential a worker should have. *)
Effective == IF stored.expired THEN 0 ELSE stored.id
(* What a command that nothing overlapped has read is still so. *)
Alone ==
    \A c \in Launchers : cmd[c].solo /\ Active(c) =>
        /\ \A d \in Launchers : Active(d) => d = c
        /\ cmd[c].op = "login" /\ cmd[c].pc # "write" => ~stored.expired
        /\ cmd[c].pc = "apply" => cmd[c].cred = IF cmd[c].op = "logout" THEN 0 ELSE Effective
        /\ cmd[c].pc = "remove" /\ managed /\ cmd[c].conn \in Workers => worker[cmd[c].conn].cred = 0
(* Which command can be at which point. *)
Connecting ==
    \A c \in Launchers :
        /\ cmd[c].pc \in {"begin", "write", "discover"} => cmd[c].conn = 0
        /\ cmd[c].pc = "remove" => cmd[c].op = "logout"
        /\ cmd[c].pc = "write" => cmd[c].op = "login"
        /\ cmd[c].pc \in {"sync", "apply", "token"} => cmd[c].op \in {"start", "login", "logout"}
        /\ cmd[c].pc \in {"lock", "decide", "launch", "wait"} => cmd[c].op = "start"
        /\ cmd[c].pc = "discover" => cmd[c].op \in {"login", "logout"}
(* The inductive invariant of the delivery commands. *)
WorkerInv == WorkerTypes /\ WorkerRecords /\ CommandRecords /\ BrokerBound /\ StartHeld /\ LifeHeld /\ Awaited /\ Recorded /\ Connected /\ Alone /\ Connecting

(* A command that begins has well-formed locals. *)
LEMMA CommandBegun ==
    \A r \in CommandRecord, op \in CommandOps, pc \in CommandStates, b \in BrokerIds, solo \in BOOLEAN :
        [r EXCEPT !.op = op, !.pc = pc, !.broker = b, !.solo = solo] \in CommandRecord
  BY DEF CommandRecord

(* A launched worker is a well-formed process. *)
LEMMA WorkerLaunched ==
    ASSUME NEW r \in WorkerRecord, NEW st \in WorkerStates, NEW b \in BrokerIds, NEW swapped \in BOOLEAN
    PROVE [r EXCEPT !.st = st, !.told = b, !.swapped = swapped] \in WorkerRecord
  BY DEF WorkerRecord

(* Every step of a command, a worker, the broker or the clock keeps the *)
(* invariant: one case per action, one step per part of the invariant.  *)
LEMMA WorkerInductive == ASSUME WorkerStartAssumption, WorkerInv, [WorkerNext]_workerVars PROVE WorkerInv'
<1>0. /\ 0 \in WorkerIds /\ 0 \in BrokerIds /\ 0 \notin Launchers /\ 0 \notin Workers /\ Workers \subseteq WorkerIds
      /\ 1..MaxBroker \subseteq BrokerIds /\ Launchers \subseteq Nat
  BY WorkerStartAssumption DEF WorkerStartAssumption, WorkerIds, BrokerIds, Workers
<1>1. ASSUME NEW c \in Launchers, BeginCommand(c) PROVE WorkerInv'
  <2> DEFINE lone == \A e \in Launchers : ~Active(e)
  <2>0. PICK op \in {"start", "login", "logout"}, pc \in {"lock", "write", "discover", "failed"} :
        /\ \/ op = "start" /\ broker.up /\ pc = "lock"
           \/ op = "login" /\ pc = "write"
           \/ op = "logout" /\ pc = IF stored = NoCredential THEN "failed" ELSE "discover"
        /\ cmd' = [d \in Launchers |->
            IF d = c THEN [cmd[c] EXCEPT !.op = op, !.pc = pc, !.broker = broker.pid, !.solo = lone]
            ELSE IF Active(d) THEN [cmd[d] EXCEPT !.solo = FALSE] ELSE cmd[d]]
    BY <1>1, Zenon DEF BeginCommand
  <2>1. cmd[c].pc = "begin" /\ UNCHANGED <<broker, wStartLock, wLifeLock, wInfo, wToken, worker, stored, managed, wFaults>>
    BY <1>1 DEF BeginCommand
  <2>2. /\ op \in {"start", "login", "logout"} /\ pc \in {"lock", "write", "discover", "failed"}
        /\ (op = "start" /\ pc = "lock") \/ (op = "login" /\ pc = "write") \/ (op = "logout" /\ pc \in {"failed", "discover"})
    BY <2>0
  <2>3. lone \in BOOLEAN OBVIOUS
  <2>4. lone => \A e \in Launchers : ~Active(e) OBVIOUS
  <2> HIDE DEF lone
  <2>5. CommandRecords /\ broker.pid \in BrokerIds BY <1>0 DEF WorkerInv, BrokerBound
  <2>6. \A d \in Launchers \ {c} : cmd'[d] = IF Active(d) THEN [cmd[d] EXCEPT !.solo = FALSE] ELSE cmd[d] BY <2>0
  <2>7. cmd'[c] = [cmd[c] EXCEPT !.op = op, !.pc = pc, !.broker = broker.pid, !.solo = lone] BY <2>0
  <2>8. CommandRecords'
    <3>1. cmd'[c] \in CommandRecord
      <4>1. op \in CommandOps /\ pc \in CommandStates BY <2>2 DEF CommandOps, CommandStates
      <4>2. cmd[c] \in CommandRecord BY <2>5 DEF CommandRecords
      <4>3. broker.pid \in BrokerIds BY <2>5
      <4>4. [cmd[c] EXCEPT !.op = op, !.pc = pc, !.broker = broker.pid, !.solo = lone] \in CommandRecord
        BY <4>1, <4>2, <4>3, <2>3, CommandBegun, Zenon
      <4> QED BY <4>4, <2>7
    <3>2. ASSUME NEW d \in Launchers \ {c} PROVE cmd'[d] \in CommandRecord
      BY <2>5, <2>6 DEF CommandRecords, CommandRecord
    <3>3. cmd' = [d \in Launchers |-> cmd'[d]] BY <2>0
    <3> QED BY <3>1, <3>2, <3>3 DEF CommandRecords
  <2>16. \A d \in Launchers \ {c} :
              /\ cmd'[d].op = cmd[d].op /\ cmd'[d].pc = cmd[d].pc /\ cmd'[d].broker = cmd[d].broker
              /\ cmd'[d].child = cmd[d].child /\ cmd'[d].conn = cmd[d].conn /\ cmd'[d].cred = cmd[d].cred
              /\ Active(d) => ~cmd'[d].solo
    BY <2>5, <2>6 DEF CommandRecords, CommandRecord
  <2>17. cmd'[c].op = op /\ cmd'[c].pc = pc /\ cmd'[c].conn = cmd[c].conn /\ (cmd'[c].solo => lone)
    BY <2>5, <2>7 DEF CommandRecords, CommandRecord
  <2>9. WorkerTypes' /\ WorkerRecords' /\ BrokerBound' /\ Recorded' /\ Connected'
    BY <2>1 DEF WorkerInv, WorkerTypes, WorkerRecords, BrokerBound, Recorded, RecordNamesRunningWorker, Connected
  <2>10. StartHeld' BY <2>2, <2>1, <2>16, <2>17 DEF WorkerInv, StartHeld
  <2>11. LifeHeld' BY <2>2, <2>1, <2>16, <2>17 DEF WorkerInv, LifeHeld, Running
  <2>12. Awaited' BY <2>2, <2>1, <2>16, <2>17 DEF WorkerInv, Awaited, Running
  <2>13. Alone' BY <1>0, <2>2, <2>1, <2>4, <2>16, <2>17 DEF WorkerInv, Alone, Active, Effective
  <2>14. Connecting' BY <2>1, <2>2, <2>16, <2>17 DEF WorkerInv, Connecting
  <2> QED BY <2>8, <2>9, <2>10, <2>11, <2>12, <2>13, <2>14 DEF WorkerInv
<1>2. ASSUME NEW c \in Launchers, StartLock(c) PROVE WorkerInv'
  <2>1. WorkerTypes'
    BY <1>2, <1>0 DEF StartLock, Step, WorkerTypes, NoRecord, NoCredential, WorkerInv,
           WorkerTypes, WorkerRecords, CommandRecords, WorkerRecord, CommandRecord
  <2>2. WorkerRecords'
    BY <1>2, <1>0 DEF StartLock, Step, WorkerRecords, WorkerStates, WorkerInv, WorkerTypes,
           WorkerRecord
  <2>3. CommandRecords'
    BY <1>2, <1>0 DEF StartLock, Step, CommandRecords, CommandStates, CommandOps, WorkerInv,
           WorkerTypes, CommandRecord
  <2>4. BrokerBound'
    BY <1>2, <1>0 DEF StartLock, Step, BrokerBound, WorkerInv, WorkerStartAssumption
  <2>5. StartHeld'
    BY <1>2, <1>0 DEF StartLock, Step, StartHeld, NoOne, WorkerInv, WorkerTypes, CommandRecords,
           CommandRecord
  <2>6. LifeHeld'
    BY <1>2, <1>0 DEF StartLock, Step, LifeHeld, Running, StartHeld, Unheld, WorkerInv,
           WorkerTypes, WorkerRecords, CommandRecords, WorkerRecord, CommandRecord
  <2>7. Awaited'
    BY <1>2, <1>0 DEF StartLock, Step, Awaited, Running, StartHeld, LifeHeld, WorkerInv,
           WorkerTypes, WorkerRecords, CommandRecords, WorkerRecord, CommandRecord
  <2>8. Recorded'
    BY <1>2, <1>0 DEF StartLock, Step, Recorded, RecordNamesRunningWorker, Running, LifeHeld,
           Awaited, NoRecord, Connected, BrokerBound, WorkerInv, WorkerTypes, WorkerRecords,
           CommandRecords, WorkerRecord, CommandRecord
  <2>9. Connected'
    BY <1>2, <1>0 DEF StartLock, Step, Connected, NoRecord, Running, Awaited, WorkerInv,
           WorkerTypes, WorkerRecords, CommandRecords, WorkerRecord, CommandRecord
  <2>10. Alone'
    BY <1>2, <1>0 DEF StartLock, Step, Alone, Active, Effective, NoCredential, Connecting,
           WorkerInv, WorkerTypes, WorkerRecords, CommandRecords, WorkerRecord, CommandRecord
  <2>11. Connecting'
    BY <1>2, <1>0 DEF StartLock, Step, Connecting, WorkerInv, CommandRecords, CommandRecord
  <2> QED BY <2>1, <2>2, <2>3, <2>4, <2>5, <2>6, <2>7, <2>8, <2>9, <2>10, <2>11 DEF WorkerInv
<1>3. ASSUME NEW c \in Launchers, Decide(c) PROVE WorkerInv'
  <2>1. WorkerTypes'
    BY <1>3, <1>0 DEF Decide, Return, Step, NoRecord, WorkerTypes, NoCredential, WorkerInv,
           WorkerTypes, WorkerRecords, CommandRecords, WorkerRecord, CommandRecord
  <2>2. WorkerRecords'
    BY <1>3, <1>0 DEF Decide, Return, Step, NoRecord, WorkerRecords, WorkerStates, WorkerInv,
           WorkerTypes, WorkerRecord
  <2>3. CommandRecords'
    BY <1>3, <1>0 DEF Decide, Return, Step, NoRecord, CommandRecords, CommandStates, CommandOps,
           WorkerInv, WorkerTypes, CommandRecord
  <2>4. BrokerBound'
    BY <1>3, <1>0 DEF Decide, Return, Step, NoRecord, BrokerBound, WorkerInv,
           WorkerStartAssumption
  <2>5. StartHeld'
    BY <1>3, <1>0 DEF Decide, Return, Step, NoRecord, StartHeld, NoOne, WorkerInv, WorkerTypes,
           CommandRecords, CommandRecord
  <2>6. LifeHeld'
    BY <1>3, <1>0 DEF Decide, Return, Step, NoRecord, LifeHeld, Running, StartHeld, Unheld,
           WorkerInv, WorkerTypes, WorkerRecords, CommandRecords, WorkerRecord, CommandRecord
  <2>7. Awaited'
    BY <1>3, <1>0 DEF Decide, Return, Step, NoRecord, Awaited, Running, StartHeld, LifeHeld,
           WorkerInv, WorkerTypes, WorkerRecords, CommandRecords, WorkerRecord, CommandRecord
  <2>8. Recorded'
    BY <1>0, <1>3 DEF Decide, WorkerInv, Recorded, RecordNamesRunningWorker, LifeHeld, Running, NoRecord, Unheld
  <2>9. Connected'
    BY <1>3, <1>0 DEF Decide, Return, Step, NoRecord, Connected, Running, Awaited, WorkerInv,
           WorkerTypes, WorkerRecords, CommandRecords, WorkerRecord, CommandRecord
  <2>10. Alone'
    BY <1>3, <1>0 DEF Decide, Return, Step, NoRecord, Alone, Active, Effective, NoCredential,
           Connecting, WorkerInv, WorkerTypes, WorkerRecords, CommandRecords, WorkerRecord,
           CommandRecord
  <2>11. Connecting'
    BY <1>3, <1>0 DEF Decide, Return, Step, NoRecord, Connecting, WorkerInv, CommandRecords,
           CommandRecord
  <2> QED BY <2>1, <2>2, <2>3, <2>4, <2>5, <2>6, <2>7, <2>8, <2>9, <2>10, <2>11 DEF WorkerInv
<1>4. ASSUME NEW c \in Launchers, LaunchWorker(c) PROVE WorkerInv'
  <2>1. ASSUME NEW w \in Workers, worker[w].st = "none",
               worker' = [worker EXCEPT ![w].st = "boot", ![w].told = cmd[c].broker,
                                        ![w].swapped = broker # [pid |-> cmd[c].broker, up |-> TRUE]],
               wLifeLock' = <<"worker", w>>, cmd' = [cmd EXCEPT ![c].pc = "wait", ![c].child = w], UNCHANGED wStartLock,
               cmd[c].pc = "launch", UNCHANGED <<broker, wInfo, wToken, stored, managed, wFaults>>
        PROVE WorkerInv'
    <3>1. WorkerTypes' BY <1>0, <2>1 DEF WorkerTypes, WorkerInv
    <3>2. WorkerRecords'
      <4> DEFINE b == broker # [pid |-> cmd[c].broker, up |-> TRUE]
      <4>1. WorkerRecords /\ cmd[c].broker \in BrokerIds BY DEF WorkerInv, CommandRecords, CommandRecord
      <4>2. b \in BOOLEAN OBVIOUS
      <4>3. worker' = [worker EXCEPT ![w].st = "boot", ![w].told = cmd[c].broker, ![w].swapped = b]
        BY <2>1, Zenon
      <4> HIDE DEF b
      <4>4. "boot" \in WorkerStates /\ worker[w] \in WorkerRecord BY <4>1 DEF WorkerStates, WorkerRecords
      <4>5. worker' = [worker EXCEPT ![w] = [worker[w] EXCEPT !.st = "boot", !.told = cmd[c].broker, !.swapped = b]]
        BY <4>3
      <4>6. [worker[w] EXCEPT !.st = "boot", !.told = cmd[c].broker, !.swapped = b] \in WorkerRecord
        BY <4>1, <4>2, <4>4, WorkerLaunched
      <4> HIDE DEF WorkerRecord
      <4> QED BY <4>1, <4>5, <4>6 DEF WorkerRecords
    <3>3. CommandRecords'
      <4>1. CommandRecords /\ w \in WorkerIds /\ cmd' = [cmd EXCEPT ![c].pc = "wait", ![c].child = w]
        BY <1>0, <2>1 DEF WorkerInv
      <4> QED BY <4>1, ZenonT(60) DEF CommandRecords, CommandRecord, CommandStates
    <3>4. BrokerBound' BY <1>0, <2>1 DEF BrokerBound, WorkerInv, WorkerStartAssumption
    <3>5. StartHeld' BY <1>0, <2>1 DEF StartHeld, NoOne, WorkerInv, WorkerTypes, CommandRecords, CommandRecord
    <3>6. LifeHeld'
      BY <1>0, <2>1
         DEF LifeHeld, Running, StartHeld, Unheld, WorkerInv, WorkerTypes, WorkerRecords, CommandRecords, WorkerRecord, CommandRecord
    <3>7. Awaited'
      BY <1>0, <2>1
         DEF Awaited, Running, StartHeld, LifeHeld, WorkerInv, WorkerTypes, WorkerRecords, CommandRecords, WorkerRecord, CommandRecord
    <3>8. Recorded'
      BY <1>0, <2>1
         DEF Recorded, RecordNamesRunningWorker, Running, LifeHeld, Awaited, NoRecord, Connected, BrokerBound, WorkerInv, WorkerTypes, WorkerRecords, CommandRecords, WorkerRecord, CommandRecord
    <3>9. Connected'
      BY <1>0, <2>1
         DEF Connected, NoRecord, Running, Awaited, WorkerInv, WorkerTypes, WorkerRecords, CommandRecords, WorkerRecord, CommandRecord
    <3>10. Alone'
      BY <1>0, <2>1
         DEF Alone, Active, Effective, NoCredential, Connecting, WorkerInv, WorkerTypes, WorkerRecords, CommandRecords, WorkerRecord, CommandRecord
    <3>11. Connecting' BY <1>0, <2>1 DEF Connecting, WorkerInv, CommandRecords, CommandRecord
    <3> QED BY <3>1, <3>2, <3>3, <3>4, <3>5, <3>6, <3>7, <3>8, <3>9, <3>10, <3>11 DEF WorkerInv
  <2>2. ASSUME Return(c, "failed"), UNCHANGED worker, UNCHANGED <<broker, wInfo, wToken, stored, managed, wFaults>>
        PROVE WorkerInv'
    <3>1. WorkerTypes'
      BY <1>0, <2>2
         DEF WorkerTypes, NoRecord, NoCredential, WorkerInv, WorkerRecords, CommandRecords, Return, Step, WorkerRecord, CommandRecord
    <3>2. WorkerRecords'
      BY <1>0, <2>2 DEF WorkerRecords, WorkerStates, WorkerInv, WorkerTypes, Return, Step, WorkerRecord
    <3>3. CommandRecords'
      BY <1>0, <2>2 DEF CommandRecords, CommandStates, CommandOps, WorkerInv, WorkerTypes, Return, Step, CommandRecord
    <3>4. BrokerBound' BY <1>0, <2>2 DEF BrokerBound, WorkerInv, WorkerStartAssumption, Return, Step
    <3>5. StartHeld'
      BY <1>0, <2>2 DEF StartHeld, NoOne, WorkerInv, WorkerTypes, CommandRecords, Return, Step, CommandRecord
    <3>6. LifeHeld'
      BY <1>0, <2>2
         DEF LifeHeld, Running, StartHeld, Unheld, WorkerInv, WorkerTypes, WorkerRecords, CommandRecords, Return, Step, WorkerRecord, CommandRecord
    <3>7. Awaited'
      BY <1>0, <2>2
         DEF Awaited, Running, StartHeld, LifeHeld, WorkerInv, WorkerTypes, WorkerRecords, CommandRecords, Return, Step, WorkerRecord, CommandRecord
    <3>8. Recorded'
      BY <1>0, <2>2
         DEF Recorded, RecordNamesRunningWorker, Running, LifeHeld, Awaited, NoRecord, Connected, BrokerBound, WorkerInv, WorkerTypes, WorkerRecords, CommandRecords, Return, Step, WorkerRecord, CommandRecord
    <3>9. Connected'
      BY <1>0, <2>2
         DEF Connected, NoRecord, Running, Awaited, WorkerInv, WorkerTypes, WorkerRecords, CommandRecords, Return, Step, WorkerRecord, CommandRecord
    <3>10. Alone'
      BY <1>0, <2>2
         DEF Alone, Active, Effective, NoCredential, Connecting, WorkerInv, WorkerTypes, WorkerRecords, CommandRecords, Return, Step, WorkerRecord, CommandRecord
    <3>11. Connecting' BY <1>0, <2>2 DEF Connecting, WorkerInv, CommandRecords, Return, Step, CommandRecord
    <3> QED BY <3>1, <3>2, <3>3, <3>4, <3>5, <3>6, <3>7, <3>8, <3>9, <3>10, <3>11 DEF WorkerInv
  <2> QED BY <1>4, <2>1, <2>2 DEF LaunchWorker, FreshWorker
<1>5. ASSUME NEW c \in Launchers, WorkerReady(c) PROVE WorkerInv'
  <2>1. WorkerTypes'
    BY <1>5, <1>0 DEF WorkerReady, Mine, WorkerTypes, NoRecord, NoCredential, WorkerInv,
           WorkerTypes, WorkerRecords, CommandRecords, WorkerRecord, CommandRecord
  <2>2. WorkerRecords'
    BY <1>5, <1>0 DEF WorkerReady, Mine, WorkerRecords, WorkerStates, WorkerInv, WorkerTypes,
           WorkerRecord
  <2>3. CommandRecords'
    <3>1. CommandRecords /\ wInfo.worker \in WorkerIds BY DEF WorkerInv, WorkerTypes
    <3>2. cmd' = [cmd EXCEPT ![c].pc = "token", ![c].conn = wInfo.worker] BY <1>5 DEF WorkerReady
    <3> QED BY <3>1, <3>2, ZenonT(60) DEF CommandRecords, CommandStates, CommandRecord
  <2>4. BrokerBound'
    BY <1>5, <1>0 DEF WorkerReady, Mine, BrokerBound, WorkerInv, WorkerStartAssumption
  <2>5. StartHeld'
    BY <1>5, <1>0 DEF WorkerReady, Mine, StartHeld, NoOne, WorkerInv, WorkerTypes,
           CommandRecords, CommandRecord
  <2>6. LifeHeld'
    BY <1>5, <1>0 DEF WorkerReady, Mine, LifeHeld, Running, StartHeld, Unheld, WorkerInv,
           WorkerTypes, WorkerRecords, CommandRecords, WorkerRecord, CommandRecord
  <2>7. Awaited'
    BY <1>5, <1>0 DEF WorkerReady, Mine, Awaited, Running, StartHeld, LifeHeld, WorkerInv,
           WorkerTypes, WorkerRecords, CommandRecords, WorkerRecord, CommandRecord
  <2>8. Recorded'
    BY <1>5, <1>0 DEF WorkerReady, Mine, Recorded, RecordNamesRunningWorker, Running, LifeHeld,
           Awaited, NoRecord, Connected, BrokerBound, WorkerInv, WorkerTypes, WorkerRecords,
           CommandRecords, WorkerRecord, CommandRecord
  <2>9. Connected'
    BY <1>5, <1>0 DEF WorkerReady, Mine, Connected, NoRecord, Running, Awaited, WorkerInv,
           WorkerTypes, WorkerRecords, CommandRecords, WorkerRecord, CommandRecord
  <2>10. Alone'
    BY <1>5, <1>0 DEF WorkerReady, Mine, Alone, Active, Effective, NoCredential, Connecting,
           WorkerInv, WorkerTypes, WorkerRecords, CommandRecords, WorkerRecord, CommandRecord
  <2>11. Connecting'
    BY <1>5, <1>0 DEF WorkerReady, Mine, Connecting, WorkerInv, CommandRecords, CommandRecord
  <2> QED BY <2>1, <2>2, <2>3, <2>4, <2>5, <2>6, <2>7, <2>8, <2>9, <2>10, <2>11 DEF WorkerInv
<1>6. ASSUME NEW c \in Launchers, WorkerNotReady(c) PROVE WorkerInv'
  <2>1. WorkerTypes'
    BY <1>6, <1>0 DEF WorkerNotReady, Mine, Step, KillFrees, WorkerTypes, NoRecord, NoCredential,
           WorkerInv, WorkerTypes, WorkerRecords, CommandRecords, WorkerRecord, CommandRecord
  <2>2. WorkerRecords'
    BY <1>6, <1>0, ZenonT(60) DEF WorkerNotReady, Mine, Step, KillFrees, WorkerRecords, WorkerStates,
           WorkerInv, WorkerTypes, WorkerRecord
  <2>3. CommandRecords'
    BY <1>6, <1>0 DEF WorkerNotReady, Mine, Step, KillFrees, CommandRecords, CommandStates,
           CommandOps, WorkerInv, WorkerTypes, CommandRecord
  <2>4. BrokerBound'
    BY <1>6, <1>0 DEF WorkerNotReady, Mine, Step, KillFrees, BrokerBound, WorkerInv,
           WorkerStartAssumption
  <2>5. StartHeld'
    BY <1>6, <1>0 DEF WorkerNotReady, Mine, Step, KillFrees, StartHeld, NoOne, WorkerInv,
           WorkerTypes, CommandRecords, CommandRecord
  <2>6. LifeHeld'
    BY <1>6, <1>0 DEF WorkerNotReady, Mine, Step, KillFrees, LifeHeld, Running, StartHeld,
           Unheld, WorkerInv, WorkerTypes, WorkerRecords, CommandRecords, WorkerRecord,
           CommandRecord
  <2>7. Awaited'
    BY <1>6, <1>0 DEF WorkerNotReady, Mine, Step, KillFrees, Awaited, Running, StartHeld,
           LifeHeld, WorkerInv, WorkerTypes, WorkerRecords, CommandRecords, WorkerRecord,
           CommandRecord
  <2>8. Recorded'
    BY <1>6, <1>0 DEF WorkerNotReady, Mine, Step, KillFrees, Recorded, RecordNamesRunningWorker,
           Running, LifeHeld, Awaited, NoRecord, Connected, BrokerBound, WorkerInv, WorkerTypes,
           WorkerRecords, CommandRecords, WorkerRecord, CommandRecord
  <2>9. Connected'
    BY <1>6, <1>0 DEF WorkerNotReady, Mine, Step, KillFrees, Connected, NoRecord, Running,
           Awaited, WorkerInv, WorkerTypes, WorkerRecords, CommandRecords, WorkerRecord,
           CommandRecord
  <2>10. Alone'
    BY <1>6, <1>0 DEF WorkerNotReady, Mine, Step, KillFrees, Alone, Active, Effective,
           NoCredential, Connecting, WorkerInv, WorkerTypes, WorkerRecords, CommandRecords,
           WorkerRecord, CommandRecord
  <2>11. Connecting'
    BY <1>6, <1>0 DEF WorkerNotReady, Mine, Step, KillFrees, Connecting, WorkerInv,
           CommandRecords, CommandRecord
  <2> QED BY <2>1, <2>2, <2>3, <2>4, <2>5, <2>6, <2>7, <2>8, <2>9, <2>10, <2>11 DEF WorkerInv
<1>7. ASSUME NEW c \in Launchers, ReadToken(c) PROVE WorkerInv'
  <2>1. WorkerTypes'
    BY <1>7, <1>0 DEF ReadToken, Return, Step, WorkerTypes, NoRecord, NoCredential, WorkerInv,
           WorkerTypes, WorkerRecords, CommandRecords, WorkerRecord, CommandRecord
  <2>2. WorkerRecords'
    BY <1>7, <1>0 DEF ReadToken, Return, Step, WorkerRecords, WorkerStates, WorkerInv,
           WorkerTypes, WorkerRecord
  <2>3. CommandRecords'
    BY <1>7, <1>0 DEF ReadToken, Return, Step, CommandRecords, CommandStates, CommandOps,
           WorkerInv, WorkerTypes, CommandRecord
  <2>4. BrokerBound'
    BY <1>7, <1>0 DEF ReadToken, Return, Step, BrokerBound, WorkerInv, WorkerStartAssumption
  <2>5. StartHeld'
    BY <1>7, <1>0 DEF ReadToken, Return, Step, StartHeld, NoOne, WorkerInv, WorkerTypes,
           CommandRecords, CommandRecord
  <2>6. LifeHeld'
    BY <1>7, <1>0 DEF ReadToken, Return, Step, LifeHeld, Running, StartHeld, Unheld, WorkerInv,
           WorkerTypes, WorkerRecords, CommandRecords, WorkerRecord, CommandRecord
  <2>7. Awaited'
    BY <1>7, <1>0 DEF ReadToken, Return, Step, Awaited, Running, StartHeld, LifeHeld, WorkerInv,
           WorkerTypes, WorkerRecords, CommandRecords, WorkerRecord, CommandRecord
  <2>8. Recorded'
    BY <1>7, <1>0 DEF ReadToken, Return, Step, Recorded, RecordNamesRunningWorker, Running,
           LifeHeld, Awaited, NoRecord, Connected, BrokerBound, WorkerInv, WorkerTypes,
           WorkerRecords, CommandRecords, WorkerRecord, CommandRecord
  <2>9. Connected'
    BY <1>7, <1>0 DEF ReadToken, Return, Step, Connected, NoRecord, Running, Awaited, WorkerInv,
           WorkerTypes, WorkerRecords, CommandRecords, WorkerRecord, CommandRecord
  <2>10. Alone'
    BY <1>7, <1>0 DEF ReadToken, Return, Step, Alone, Active, Effective, NoCredential,
           Connecting, WorkerInv, WorkerTypes, WorkerRecords, CommandRecords, WorkerRecord,
           CommandRecord
  <2>11. Connecting'
    BY <1>7, <1>0 DEF ReadToken, Return, Step, Connecting, WorkerInv, CommandRecords,
           CommandRecord
  <2> QED BY <2>1, <2>2, <2>3, <2>4, <2>5, <2>6, <2>7, <2>8, <2>9, <2>10, <2>11 DEF WorkerInv
<1>8. ASSUME NEW c \in Launchers, ReadStored(c) PROVE WorkerInv'
  <2>1. WorkerTypes'
    BY <1>8, <1>0 DEF ReadStored, WorkerTypes, NoRecord, NoCredential, WorkerInv, WorkerTypes,
           WorkerRecords, CommandRecords, WorkerRecord, CommandRecord
  <2>2. WorkerRecords'
    BY <1>8, <1>0 DEF ReadStored, WorkerRecords, WorkerStates, WorkerInv, WorkerTypes,
           WorkerRecord
  <2>3. CommandRecords'
    <3> DEFINE x == IF stored.expired THEN 0 ELSE stored.id
    <3>1. CommandRecords /\ x \in Nat BY DEF WorkerInv, WorkerTypes
    <3>2. cmd' = [cmd EXCEPT ![c].pc = "apply", ![c].cred = x] BY <1>8 DEF ReadStored
    <3> HIDE DEF x
    <3> QED BY <3>1, <3>2, ZenonT(60) DEF CommandRecords, CommandStates, CommandRecord
  <2>4. BrokerBound'
    BY <1>8, <1>0 DEF ReadStored, BrokerBound, WorkerInv, WorkerStartAssumption
  <2>5. StartHeld'
    BY <1>8, <1>0 DEF ReadStored, StartHeld, NoOne, WorkerInv, WorkerTypes, CommandRecords,
           CommandRecord
  <2>6. LifeHeld'
    BY <1>8, <1>0 DEF ReadStored, LifeHeld, Running, StartHeld, Unheld, WorkerInv, WorkerTypes,
           WorkerRecords, CommandRecords, WorkerRecord, CommandRecord
  <2>7. Awaited'
    BY <1>8, <1>0 DEF ReadStored, Awaited, Running, StartHeld, LifeHeld, WorkerInv, WorkerTypes,
           WorkerRecords, CommandRecords, WorkerRecord, CommandRecord
  <2>8. Recorded'
    BY <1>8, <1>0 DEF ReadStored, Recorded, RecordNamesRunningWorker, Running, LifeHeld, Awaited,
           NoRecord, Connected, BrokerBound, WorkerInv, WorkerTypes, WorkerRecords,
           CommandRecords, WorkerRecord, CommandRecord
  <2>9. Connected'
    BY <1>8, <1>0 DEF ReadStored, Connected, NoRecord, Running, Awaited, WorkerInv, WorkerTypes,
           WorkerRecords, CommandRecords, WorkerRecord, CommandRecord
  <2>10. Alone'
    BY <1>8, <1>0 DEF ReadStored, Alone, Active, Effective, NoCredential, Connecting, WorkerInv,
           WorkerTypes, WorkerRecords, CommandRecords, WorkerRecord, CommandRecord
  <2>11. Connecting'
    BY <1>8, <1>0 DEF ReadStored, Connecting, WorkerInv, CommandRecords, CommandRecord
  <2> QED BY <2>1, <2>2, <2>3, <2>4, <2>5, <2>6, <2>7, <2>8, <2>9, <2>10, <2>11 DEF WorkerInv
<1>9. ASSUME NEW c \in Launchers, StoreCredential(c) PROVE WorkerInv'
  <2>1. WorkerTypes'
    BY <1>9, <1>0 DEF StoreCredential, Step, WorkerTypes, NoRecord, NoCredential, WorkerInv,
           WorkerTypes, WorkerRecords, CommandRecords, WorkerRecord, CommandRecord
  <2>2. WorkerRecords'
    BY <1>9, <1>0 DEF StoreCredential, Step, WorkerRecords, WorkerStates, WorkerInv, WorkerTypes,
           WorkerRecord
  <2>3. CommandRecords'
    BY <1>9, <1>0 DEF StoreCredential, Step, CommandRecords, CommandStates, CommandOps,
           WorkerInv, WorkerTypes, CommandRecord
  <2>4. BrokerBound'
    BY <1>9, <1>0 DEF StoreCredential, Step, BrokerBound, WorkerInv, WorkerStartAssumption
  <2>5. StartHeld'
    BY <1>9, <1>0 DEF StoreCredential, Step, StartHeld, NoOne, WorkerInv, WorkerTypes,
           CommandRecords, CommandRecord
  <2>6. LifeHeld'
    BY <1>9, <1>0 DEF StoreCredential, Step, LifeHeld, Running, StartHeld, Unheld, WorkerInv,
           WorkerTypes, WorkerRecords, CommandRecords, WorkerRecord, CommandRecord
  <2>7. Awaited'
    BY <1>9, <1>0 DEF StoreCredential, Step, Awaited, Running, StartHeld, LifeHeld, WorkerInv,
           WorkerTypes, WorkerRecords, CommandRecords, WorkerRecord, CommandRecord
  <2>8. Recorded'
    BY <1>9, <1>0 DEF StoreCredential, Step, Recorded, RecordNamesRunningWorker, Running,
           LifeHeld, Awaited, NoRecord, Connected, BrokerBound, WorkerInv, WorkerTypes,
           WorkerRecords, CommandRecords, WorkerRecord, CommandRecord
  <2>9. Connected'
    BY <1>9, <1>0 DEF StoreCredential, Step, Connected, NoRecord, Running, Awaited, WorkerInv,
           WorkerTypes, WorkerRecords, CommandRecords, WorkerRecord, CommandRecord
  <2>10. Alone'
    BY <1>9, <1>0 DEF StoreCredential, Step, Alone, Active, Effective, NoCredential, Connecting,
           WorkerInv, WorkerTypes, WorkerRecords, CommandRecords, WorkerRecord, CommandRecord
  <2>11. Connecting'
    BY <1>9, <1>0 DEF StoreCredential, Step, Connecting, WorkerInv, CommandRecords, CommandRecord
  <2> QED BY <2>1, <2>2, <2>3, <2>4, <2>5, <2>6, <2>7, <2>8, <2>9, <2>10, <2>11 DEF WorkerInv
<1>10. ASSUME NEW c \in Launchers, DiscoverWorker(c) PROVE WorkerInv'
  <2>1. WorkerTypes'
    BY <1>10, <1>0 DEF DiscoverWorker, WorkerTypes, NoRecord, NoCredential, WorkerInv,
           WorkerTypes, WorkerRecords, CommandRecords, WorkerRecord, CommandRecord
  <2>2. WorkerRecords'
    BY <1>10, <1>0 DEF DiscoverWorker, WorkerRecords, WorkerStates, WorkerInv, WorkerTypes,
           WorkerRecord
  <2>3. CommandRecords'
    BY <1>10, <1>0 DEF DiscoverWorker, CommandRecords, CommandStates, CommandOps, WorkerInv,
           WorkerTypes, CommandRecord
  <2>4. BrokerBound'
    BY <1>10, <1>0 DEF DiscoverWorker, BrokerBound, WorkerInv, WorkerStartAssumption
  <2>5. StartHeld'
    BY <1>10, <1>0 DEF DiscoverWorker, StartHeld, NoOne, WorkerInv, WorkerTypes, CommandRecords,
           CommandRecord
  <2>6. LifeHeld' BY <1>0, <1>10 DEF DiscoverWorker, WorkerInv, CommandRecords, CommandRecord, LifeHeld, Running
  <2>7. Awaited'
    BY <1>10, <1>0 DEF DiscoverWorker, Awaited, Running, StartHeld, LifeHeld, WorkerInv,
           WorkerTypes, WorkerRecords, CommandRecords, WorkerRecord, CommandRecord
  <2>8. Recorded'
    BY <1>10, <1>0 DEF DiscoverWorker, Recorded, RecordNamesRunningWorker, Running, LifeHeld,
           Awaited, NoRecord, Connected, BrokerBound, WorkerInv, WorkerTypes, WorkerRecords,
           CommandRecords, WorkerRecord, CommandRecord
  <2>9. Connected'
    BY <1>10, <1>0 DEF DiscoverWorker, Connected, NoRecord, Running, Awaited, WorkerInv,
           WorkerTypes, WorkerRecords, CommandRecords, WorkerRecord, CommandRecord
  <2>10. Alone'
    BY <1>10, <1>0 DEF DiscoverWorker, Alone, Active, Effective, NoCredential, Connecting,
           WorkerInv, WorkerTypes, WorkerRecords, CommandRecords, WorkerRecord, CommandRecord
  <2>11. Connecting'
    BY <1>10, <1>0 DEF DiscoverWorker, Connecting, WorkerInv, CommandRecords, CommandRecord
  <2> QED BY <2>1, <2>2, <2>3, <2>4, <2>5, <2>6, <2>7, <2>8, <2>9, <2>10, <2>11 DEF WorkerInv
<1>11. ASSUME NEW c \in Launchers, ReadBack(c) PROVE WorkerInv'
  <2>1. WorkerTypes'
    BY <1>11, <1>0 DEF ReadBack, WorkerTypes, NoRecord, NoCredential, WorkerInv, WorkerTypes,
           WorkerRecords, CommandRecords, WorkerRecord, CommandRecord
  <2>2. WorkerRecords'
    BY <1>11, <1>0 DEF ReadBack, WorkerRecords, WorkerStates, WorkerInv, WorkerTypes, WorkerRecord
  <2>3. CommandRecords'
    <3> DEFINE x == IF cmd[c].op = "login" THEN stored.id ELSE 0
    <3>1. CommandRecords /\ x \in Nat BY DEF WorkerInv, WorkerTypes
    <3>2. cmd' = [cmd EXCEPT ![c].pc = "failed"] \/ cmd' = [cmd EXCEPT ![c].pc = "apply", ![c].cred = x]
      BY <1>11 DEF ReadBack
    <3> HIDE DEF x
    <3> QED BY <3>1, <3>2 DEF CommandRecords, CommandStates, CommandRecord
  <2>4. BrokerBound'
    BY <1>11, <1>0 DEF ReadBack, BrokerBound, WorkerInv, WorkerStartAssumption
  <2>5. StartHeld'
    BY <1>11, <1>0 DEF ReadBack, StartHeld, NoOne, WorkerInv, WorkerTypes, CommandRecords,
           CommandRecord
  <2>6. LifeHeld'
    BY <1>11, <1>0 DEF ReadBack, LifeHeld, Running, StartHeld, Unheld, WorkerInv, WorkerTypes,
           WorkerRecords, CommandRecords, WorkerRecord, CommandRecord
  <2>7. Awaited'
    BY <1>11, <1>0 DEF ReadBack, Awaited, Running, StartHeld, LifeHeld, WorkerInv, WorkerTypes,
           WorkerRecords, CommandRecords, WorkerRecord, CommandRecord
  <2>8. Recorded'
    BY <1>11, <1>0 DEF ReadBack, Recorded, RecordNamesRunningWorker, Running, LifeHeld, Awaited,
           NoRecord, Connected, BrokerBound, WorkerInv, WorkerTypes, WorkerRecords,
           CommandRecords, WorkerRecord, CommandRecord
  <2>9. Connected'
    BY <1>11, <1>0 DEF ReadBack, Connected, NoRecord, Running, Awaited, WorkerInv, WorkerTypes,
           WorkerRecords, CommandRecords, WorkerRecord, CommandRecord
  <2>10. Alone'
    BY <1>11, <1>0 DEF ReadBack, Alone, Active, Effective, NoCredential, Connecting, WorkerInv,
           WorkerTypes, WorkerRecords, CommandRecords, WorkerRecord, CommandRecord
  <2>11. Connecting'
    BY <1>11, <1>0 DEF ReadBack, Connecting, WorkerInv, CommandRecords, CommandRecord
  <2> QED BY <2>1, <2>2, <2>3, <2>4, <2>5, <2>6, <2>7, <2>8, <2>9, <2>10, <2>11 DEF WorkerInv
<1>12. ASSUME NEW c \in Launchers, Apply(c) PROVE WorkerInv'
  <2>1. WorkerTypes'
    BY <1>12, <1>0 DEF Apply, Step, WorkerTypes, NoRecord, NoCredential, WorkerInv, WorkerTypes,
           WorkerRecords, CommandRecords, WorkerRecord, CommandRecord
  <2>2. WorkerRecords'
    BY <1>0, <1>12 DEF WorkerInv, CommandRecords, CommandRecord, Apply, WorkerRecords, WorkerRecord
  <2>3. CommandRecords'
    BY <1>12, <1>0 DEF Apply, Step, CommandRecords, CommandStates, CommandOps, WorkerInv,
           WorkerTypes, CommandRecord
  <2>4. BrokerBound'
    BY <1>12, <1>0 DEF Apply, Step, BrokerBound, WorkerInv, WorkerStartAssumption
  <2>5. StartHeld'
    BY <1>12, <1>0 DEF Apply, Step, StartHeld, NoOne, WorkerInv, WorkerTypes, CommandRecords,
           CommandRecord
  <2>6. LifeHeld'
    BY <1>12, <1>0 DEF Apply, Step, LifeHeld, Running, StartHeld, Unheld, WorkerInv, WorkerTypes,
           WorkerRecords, CommandRecords, WorkerRecord, CommandRecord
  <2>7. Awaited'
    BY <1>12, <1>0 DEF Apply, Step, Awaited, Running, StartHeld, LifeHeld, WorkerInv,
           WorkerTypes, WorkerRecords, CommandRecords, WorkerRecord, CommandRecord
  <2>8. Recorded'
    BY <1>12, <1>0 DEF Apply, Step, Recorded, RecordNamesRunningWorker, Running, LifeHeld,
           Awaited, NoRecord, Connected, BrokerBound, WorkerInv, WorkerTypes, WorkerRecords,
           CommandRecords, WorkerRecord, CommandRecord
  <2>9. Connected' BY <1>0, <1>12 DEF Apply, WorkerInv, WorkerRecords, WorkerRecord, Connected
  <2>10. Alone'
    BY <1>12, <1>0, SMTT(40) DEF Apply, Step, Alone, Active, Effective, NoCredential, Connecting,
           WorkerInv, WorkerTypes, WorkerRecords, CommandRecords, WorkerRecord, CommandRecord
  <2>11. Connecting'
    BY <1>12, <1>0 DEF Apply, Step, Connecting, WorkerInv, CommandRecords, CommandRecord
  <2> QED BY <2>1, <2>2, <2>3, <2>4, <2>5, <2>6, <2>7, <2>8, <2>9, <2>10, <2>11 DEF WorkerInv
<1>13. ASSUME NEW c \in Launchers, RemoveCredential(c) PROVE WorkerInv'
  <2>1. WorkerTypes'
    BY <1>13, <1>0 DEF RemoveCredential, Step, WorkerTypes, NoRecord, NoCredential, WorkerInv,
           WorkerTypes, WorkerRecords, CommandRecords, WorkerRecord, CommandRecord
  <2>2. WorkerRecords'
    BY <1>13, <1>0 DEF RemoveCredential, Step, WorkerRecords, WorkerStates, WorkerInv,
           WorkerTypes, WorkerRecord
  <2>3. CommandRecords'
    BY <1>13, <1>0 DEF RemoveCredential, Step, CommandRecords, CommandStates, CommandOps,
           WorkerInv, WorkerTypes, CommandRecord
  <2>4. BrokerBound'
    BY <1>13, <1>0 DEF RemoveCredential, Step, BrokerBound, WorkerInv, WorkerStartAssumption
  <2>5. StartHeld'
    BY <1>13, <1>0 DEF RemoveCredential, Step, StartHeld, NoOne, WorkerInv, WorkerTypes,
           CommandRecords, CommandRecord
  <2>6. LifeHeld'
    BY <1>13, <1>0 DEF RemoveCredential, Step, LifeHeld, Running, StartHeld, Unheld, WorkerInv,
           WorkerTypes, WorkerRecords, CommandRecords, WorkerRecord, CommandRecord
  <2>7. Awaited'
    BY <1>13, <1>0 DEF RemoveCredential, Step, Awaited, Running, StartHeld, LifeHeld, WorkerInv,
           WorkerTypes, WorkerRecords, CommandRecords, WorkerRecord, CommandRecord
  <2>8. Recorded'
    BY <1>13, <1>0 DEF RemoveCredential, Step, Recorded, RecordNamesRunningWorker, Running,
           LifeHeld, Awaited, NoRecord, Connected, BrokerBound, WorkerInv, WorkerTypes,
           WorkerRecords, CommandRecords, WorkerRecord, CommandRecord
  <2>9. Connected'
    BY <1>13, <1>0 DEF RemoveCredential, Step, Connected, NoRecord, Running, Awaited, WorkerInv,
           WorkerTypes, WorkerRecords, CommandRecords, WorkerRecord, CommandRecord
  <2>10. Alone'
    BY <1>13, <1>0 DEF RemoveCredential, Step, Alone, Active, Effective, NoCredential,
           Connecting, WorkerInv, WorkerTypes, WorkerRecords, CommandRecords, WorkerRecord,
           CommandRecord
  <2>11. Connecting'
    BY <1>13, <1>0 DEF RemoveCredential, Step, Connecting, WorkerInv, CommandRecords,
           CommandRecord
  <2> QED BY <2>1, <2>2, <2>3, <2>4, <2>5, <2>6, <2>7, <2>8, <2>9, <2>10, <2>11 DEF WorkerInv
<1>14. ASSUME NEW c \in Launchers, CommandKilled(c) PROVE WorkerInv'
  <2>1. WorkerTypes'
    BY <1>14, <1>0 DEF CommandKilled, Return, Step, Active, WorkerTypes, NoRecord, NoCredential,
           WorkerInv, WorkerTypes, WorkerRecords, CommandRecords, WorkerRecord, CommandRecord
  <2>2. WorkerRecords'
    BY <1>14, <1>0 DEF CommandKilled, Return, Step, Active, WorkerRecords, WorkerStates,
           WorkerInv, WorkerTypes, WorkerRecord
  <2>3. CommandRecords'
    BY <1>14, <1>0 DEF CommandKilled, Return, Step, Active, CommandRecords, CommandStates,
           CommandOps, WorkerInv, WorkerTypes, CommandRecord
  <2>4. BrokerBound'
    BY <1>14, <1>0 DEF CommandKilled, Return, Step, Active, BrokerBound, WorkerInv,
           WorkerStartAssumption
  <2>5. StartHeld'
    BY <1>14, <1>0 DEF CommandKilled, Return, Step, Active, StartHeld, NoOne, WorkerInv,
           WorkerTypes, CommandRecords, CommandRecord
  <2>6. LifeHeld'
    BY <1>14, <1>0 DEF CommandKilled, Return, Step, Active, LifeHeld, Running, StartHeld, Unheld,
           WorkerInv, WorkerTypes, WorkerRecords, CommandRecords, WorkerRecord, CommandRecord
  <2>7. Awaited'
    BY <1>14, <1>0 DEF CommandKilled, Return, Step, Active, Awaited, Running, StartHeld,
           LifeHeld, WorkerInv, WorkerTypes, WorkerRecords, CommandRecords, WorkerRecord,
           CommandRecord
  <2>8. Recorded'
    BY <1>14, <1>0 DEF CommandKilled, Return, Step, Active, Recorded, RecordNamesRunningWorker,
           Running, LifeHeld, Awaited, NoRecord, Connected, BrokerBound, WorkerInv, WorkerTypes,
           WorkerRecords, CommandRecords, WorkerRecord, CommandRecord
  <2>9. Connected'
    BY <1>14, <1>0 DEF CommandKilled, Return, Step, Active, Connected, NoRecord, Running,
           Awaited, WorkerInv, WorkerTypes, WorkerRecords, CommandRecords, WorkerRecord,
           CommandRecord
  <2>10. Alone'
    BY <1>14, <1>0 DEF CommandKilled, Return, Step, Active, Alone, Effective, NoCredential,
           Connecting, WorkerInv, WorkerTypes, WorkerRecords, CommandRecords, WorkerRecord,
           CommandRecord
  <2>11. Connecting'
    BY <1>14, <1>0 DEF CommandKilled, Return, Step, Active, Connecting, WorkerInv,
           CommandRecords, CommandRecord
  <2> QED BY <2>1, <2>2, <2>3, <2>4, <2>5, <2>6, <2>7, <2>8, <2>9, <2>10, <2>11 DEF WorkerInv
<1>15. ASSUME NEW w \in Workers, StartControl(w) PROVE WorkerInv'
  <2>1. WorkerTypes'
    BY <1>15, <1>0 DEF StartControl, Moves, WorkerTypes, NoRecord, NoCredential, WorkerInv,
           WorkerTypes, WorkerRecords, CommandRecords, WorkerRecord, CommandRecord
  <2>2. WorkerRecords'
    BY <1>15, <1>0 DEF StartControl, Moves, WorkerRecords, WorkerStates, WorkerInv, WorkerTypes,
           WorkerRecord
  <2>3. CommandRecords'
    BY <1>15, <1>0 DEF StartControl, Moves, CommandRecords, CommandStates, CommandOps, WorkerInv,
           WorkerTypes, CommandRecord
  <2>4. BrokerBound'
    BY <1>15, <1>0 DEF StartControl, Moves, BrokerBound, WorkerInv, WorkerStartAssumption
  <2>5. StartHeld'
    BY <1>15, <1>0 DEF StartControl, Moves, StartHeld, NoOne, WorkerInv, WorkerTypes,
           CommandRecords, CommandRecord
  <2>6. LifeHeld'
    BY <1>15, <1>0 DEF StartControl, Moves, LifeHeld, Running, StartHeld, Unheld, WorkerInv,
           WorkerTypes, WorkerRecords, CommandRecords, WorkerRecord, CommandRecord
  <2>7. Awaited'
    BY <1>15, <1>0 DEF StartControl, Moves, Awaited, Running, StartHeld, LifeHeld, WorkerInv,
           WorkerTypes, WorkerRecords, CommandRecords, WorkerRecord, CommandRecord
  <2>8. Recorded'
    BY <1>15, <1>0, SMTT(40) DEF StartControl, Moves, Recorded, RecordNamesRunningWorker, Running,
           LifeHeld, Awaited, NoRecord, Connected, BrokerBound, WorkerInv, WorkerTypes,
           WorkerRecords, CommandRecords, WorkerRecord, CommandRecord
  <2>9. Connected'
    BY <1>15, <1>0 DEF StartControl, Moves, Connected, NoRecord, Running, Awaited, WorkerInv,
           WorkerTypes, WorkerRecords, CommandRecords, WorkerRecord, CommandRecord
  <2>10. Alone'
    BY <1>15, <1>0 DEF StartControl, Moves, Alone, Active, Effective, NoCredential, Connecting,
           WorkerInv, WorkerTypes, WorkerRecords, CommandRecords, WorkerRecord, CommandRecord
  <2>11. Connecting'
    BY <1>15, <1>0 DEF StartControl, Moves, Connecting, WorkerInv, CommandRecords, CommandRecord
  <2> QED BY <2>1, <2>2, <2>3, <2>4, <2>5, <2>6, <2>7, <2>8, <2>9, <2>10, <2>11 DEF WorkerInv
<1>16. ASSUME NEW w \in Workers, Connect(w) PROVE WorkerInv'
  <2>1. WorkerTypes'
    BY <1>16, <1>0 DEF Connect, WorkerTypes, NoRecord, NoCredential, WorkerInv, WorkerTypes,
           WorkerRecords, CommandRecords, WorkerRecord, CommandRecord
  <2>2. WorkerRecords'
    <3>1. WorkerRecords /\ broker.pid \in BrokerIds
          /\ worker' = [worker EXCEPT ![w].st = "connected", ![w].met = broker.pid]
      BY <1>16, <1>0 DEF Connect, WorkerInv, BrokerBound
    <3> QED BY <3>1, ZenonT(60) DEF WorkerRecords, WorkerStates, WorkerRecord
  <2>3. CommandRecords'
    BY <1>16, <1>0 DEF Connect, CommandRecords, CommandStates, CommandOps, WorkerInv,
           WorkerTypes, CommandRecord
  <2>4. BrokerBound'
    BY <1>16, <1>0 DEF Connect, BrokerBound, WorkerInv, WorkerStartAssumption
  <2>5. StartHeld'
    BY <1>16, <1>0 DEF Connect, StartHeld, NoOne, WorkerInv, WorkerTypes, CommandRecords,
           CommandRecord
  <2>6. LifeHeld'
    BY <1>16, <1>0 DEF Connect, LifeHeld, Running, StartHeld, Unheld, WorkerInv, WorkerTypes,
           WorkerRecords, CommandRecords, WorkerRecord, CommandRecord
  <2>7. Awaited'
    BY <1>16, <1>0 DEF Connect, Awaited, Running, StartHeld, LifeHeld, WorkerInv, WorkerTypes,
           WorkerRecords, CommandRecords, WorkerRecord, CommandRecord
  <2>8. Recorded'
    BY <1>16, <1>0 DEF Connect, Recorded, RecordNamesRunningWorker, Running, LifeHeld, Awaited,
           NoRecord, Connected, BrokerBound, WorkerInv, WorkerTypes, WorkerRecords,
           CommandRecords, WorkerRecord, CommandRecord
  <2>9. Connected'
    BY <1>16, <1>0 DEF Connect, Connected, NoRecord, Running, Awaited, WorkerInv, WorkerTypes,
           WorkerRecords, CommandRecords, WorkerRecord, CommandRecord
  <2>10. Alone'
    BY <1>16, <1>0 DEF Connect, Alone, Active, Effective, NoCredential, Connecting, WorkerInv,
           WorkerTypes, WorkerRecords, CommandRecords, WorkerRecord, CommandRecord
  <2>11. Connecting'
    BY <1>16, <1>0 DEF Connect, Connecting, WorkerInv, CommandRecords, CommandRecord
  <2> QED BY <2>1, <2>2, <2>3, <2>4, <2>5, <2>6, <2>7, <2>8, <2>9, <2>10, <2>11 DEF WorkerInv
<1>17. ASSUME NEW w \in Workers, PublishReady(w) PROVE WorkerInv'
  <2>1. WorkerTypes'
    BY <1>17, <1>0 DEF PublishReady, Moves, WorkerTypes, NoRecord, NoCredential, WorkerInv,
           WorkerTypes, WorkerRecords, CommandRecords, WorkerRecord, CommandRecord
  <2>2. WorkerRecords'
    BY <1>17, <1>0 DEF PublishReady, Moves, WorkerRecords, WorkerStates, WorkerInv, WorkerTypes,
           WorkerRecord
  <2>3. CommandRecords'
    BY <1>17, <1>0 DEF PublishReady, Moves, CommandRecords, CommandStates, CommandOps, WorkerInv,
           WorkerTypes, CommandRecord
  <2>4. BrokerBound'
    BY <1>17, <1>0 DEF PublishReady, Moves, BrokerBound, WorkerInv, WorkerStartAssumption
  <2>5. StartHeld'
    BY <1>17, <1>0 DEF PublishReady, Moves, StartHeld, NoOne, WorkerInv, WorkerTypes,
           CommandRecords, CommandRecord
  <2>6. LifeHeld'
    BY <1>17, <1>0 DEF PublishReady, Moves, LifeHeld, Running, StartHeld, Unheld, WorkerInv,
           WorkerTypes, WorkerRecords, CommandRecords, WorkerRecord, CommandRecord
  <2>7. Awaited'
    BY <1>17, <1>0 DEF PublishReady, Moves, Awaited, Running, StartHeld, LifeHeld, WorkerInv,
           WorkerTypes, WorkerRecords, CommandRecords, WorkerRecord, CommandRecord
  <2>8. Recorded'
    BY <1>17, <1>0 DEF PublishReady, Moves, Recorded, RecordNamesRunningWorker, Running,
           LifeHeld, Awaited, NoRecord, Connected, BrokerBound, WorkerInv, WorkerTypes,
           WorkerRecords, CommandRecords, WorkerRecord, CommandRecord
  <2>9. Connected'
    BY <1>17, <1>0 DEF PublishReady, Moves, Connected, NoRecord, Running, Awaited, WorkerInv,
           WorkerTypes, WorkerRecords, CommandRecords, WorkerRecord, CommandRecord
  <2>10. Alone'
    BY <1>17, <1>0 DEF PublishReady, Moves, Alone, Active, Effective, NoCredential, Connecting,
           WorkerInv, WorkerTypes, WorkerRecords, CommandRecords, WorkerRecord, CommandRecord
  <2>11. Connecting'
    BY <1>17, <1>0 DEF PublishReady, Moves, Connecting, WorkerInv, CommandRecords, CommandRecord
  <2> QED BY <2>1, <2>2, <2>3, <2>4, <2>5, <2>6, <2>7, <2>8, <2>9, <2>10, <2>11 DEF WorkerInv
<1>18. ASSUME NEW w \in Workers, LeaveStream(w) PROVE WorkerInv'
  <2>1. WorkerTypes'
    BY <1>18, <1>0 DEF LeaveStream, WorkerTypes, NoRecord, NoCredential, WorkerInv, WorkerTypes,
           WorkerRecords, CommandRecords, WorkerRecord, CommandRecord
  <2>2. WorkerRecords'
    BY <1>18, <1>0 DEF LeaveStream, WorkerRecords, WorkerStates, WorkerInv, WorkerTypes,
           WorkerRecord
  <2>3. CommandRecords'
    BY <1>18, <1>0 DEF LeaveStream, CommandRecords, CommandStates, CommandOps, WorkerInv,
           WorkerTypes, CommandRecord
  <2>4. BrokerBound'
    BY <1>18, <1>0 DEF LeaveStream, BrokerBound, WorkerInv, WorkerStartAssumption
  <2>5. StartHeld'
    BY <1>18, <1>0 DEF LeaveStream, StartHeld, NoOne, WorkerInv, WorkerTypes, CommandRecords,
           CommandRecord
  <2>6. LifeHeld'
    BY <1>18, <1>0 DEF LeaveStream, LifeHeld, Running, StartHeld, Unheld, WorkerInv, WorkerTypes,
           WorkerRecords, CommandRecords, WorkerRecord, CommandRecord
  <2>7. Awaited'
    BY <1>18, <1>0 DEF LeaveStream, Awaited, Running, StartHeld, LifeHeld, WorkerInv,
           WorkerTypes, WorkerRecords, CommandRecords, WorkerRecord, CommandRecord
  <2>8. Recorded'
    BY <1>18, <1>0 DEF LeaveStream, Recorded, RecordNamesRunningWorker, Running, LifeHeld,
           Awaited, NoRecord, Connected, BrokerBound, WorkerInv, WorkerTypes, WorkerRecords,
           CommandRecords, WorkerRecord, CommandRecord
  <2>9. Connected'
    BY <1>18, <1>0 DEF LeaveStream, Connected, NoRecord, Running, Awaited, WorkerInv,
           WorkerTypes, WorkerRecords, CommandRecords, WorkerRecord, CommandRecord
  <2>10. Alone'
    BY <1>18, <1>0 DEF LeaveStream, Alone, Active, Effective, NoCredential, Connecting,
           WorkerInv, WorkerTypes, WorkerRecords, CommandRecords, WorkerRecord, CommandRecord
  <2>11. Connecting'
    BY <1>18, <1>0 DEF LeaveStream, Connecting, WorkerInv, CommandRecords, CommandRecord
  <2> QED BY <2>1, <2>2, <2>3, <2>4, <2>5, <2>6, <2>7, <2>8, <2>9, <2>10, <2>11 DEF WorkerInv
<1>19. ASSUME NEW w \in Workers, StopControl(w) PROVE WorkerInv'
  <2>1. WorkerTypes'
    BY <1>19, <1>0 DEF StopControl, Moves, WorkerTypes, NoRecord, NoCredential, WorkerInv,
           WorkerTypes, WorkerRecords, CommandRecords, WorkerRecord, CommandRecord
  <2>2. WorkerRecords'
    BY <1>19, <1>0 DEF StopControl, Moves, WorkerRecords, WorkerStates, WorkerInv, WorkerTypes,
           WorkerRecord
  <2>3. CommandRecords'
    BY <1>19, <1>0 DEF StopControl, Moves, CommandRecords, CommandStates, CommandOps, WorkerInv,
           WorkerTypes, CommandRecord
  <2>4. BrokerBound'
    BY <1>19, <1>0 DEF StopControl, Moves, BrokerBound, WorkerInv, WorkerStartAssumption
  <2>5. StartHeld'
    BY <1>19, <1>0 DEF StopControl, Moves, StartHeld, NoOne, WorkerInv, WorkerTypes,
           CommandRecords, CommandRecord
  <2>6. LifeHeld'
    BY <1>19, <1>0 DEF StopControl, Moves, LifeHeld, Running, StartHeld, Unheld, WorkerInv,
           WorkerTypes, WorkerRecords, CommandRecords, WorkerRecord, CommandRecord
  <2>7. Awaited'
    BY <1>19, <1>0 DEF StopControl, Moves, Awaited, Running, StartHeld, LifeHeld, WorkerInv,
           WorkerTypes, WorkerRecords, CommandRecords, WorkerRecord, CommandRecord
  <2>8. Recorded'
    BY <1>19, <1>0 DEF StopControl, Moves, Recorded, RecordNamesRunningWorker, Running, LifeHeld,
           Awaited, NoRecord, Connected, BrokerBound, WorkerInv, WorkerTypes, WorkerRecords,
           CommandRecords, WorkerRecord, CommandRecord
  <2>9. Connected'
    BY <1>19, <1>0 DEF StopControl, Moves, Connected, NoRecord, Running, Awaited, WorkerInv,
           WorkerTypes, WorkerRecords, CommandRecords, WorkerRecord, CommandRecord
  <2>10. Alone'
    BY <1>19, <1>0 DEF StopControl, Moves, Alone, Active, Effective, NoCredential, Connecting,
           WorkerInv, WorkerTypes, WorkerRecords, CommandRecords, WorkerRecord, CommandRecord
  <2>11. Connecting'
    BY <1>19, <1>0 DEF StopControl, Moves, Connecting, WorkerInv, CommandRecords, CommandRecord
  <2> QED BY <2>1, <2>2, <2>3, <2>4, <2>5, <2>6, <2>7, <2>8, <2>9, <2>10, <2>11 DEF WorkerInv
<1>20. ASSUME NEW w \in Workers, WorkerExit(w) PROVE WorkerInv'
  <2>1. WorkerTypes'
    BY <1>20, <1>0 DEF WorkerExit, KillFrees, WorkerTypes, NoRecord, NoCredential, WorkerInv,
           WorkerTypes, WorkerRecords, CommandRecords, WorkerRecord, CommandRecord
  <2>2. WorkerRecords'
    BY <1>20, <1>0 DEF WorkerExit, KillFrees, WorkerRecords, WorkerStates, WorkerInv,
           WorkerTypes, WorkerRecord
  <2>3. CommandRecords'
    BY <1>20, <1>0 DEF WorkerExit, KillFrees, CommandRecords, CommandStates, CommandOps,
           WorkerInv, WorkerTypes, CommandRecord
  <2>4. BrokerBound'
    BY <1>20, <1>0 DEF WorkerExit, KillFrees, BrokerBound, WorkerInv, WorkerStartAssumption
  <2>5. StartHeld'
    BY <1>20, <1>0 DEF WorkerExit, KillFrees, StartHeld, NoOne, WorkerInv, WorkerTypes,
           CommandRecords, CommandRecord
  <2>6. LifeHeld'
    BY <1>20, <1>0 DEF WorkerExit, KillFrees, LifeHeld, Running, StartHeld, Unheld, WorkerInv,
           WorkerTypes, WorkerRecords, CommandRecords, WorkerRecord, CommandRecord
  <2>7. Awaited'
    BY <1>20, <1>0 DEF WorkerExit, KillFrees, Awaited, Running, StartHeld, LifeHeld, WorkerInv,
           WorkerTypes, WorkerRecords, CommandRecords, WorkerRecord, CommandRecord
  <2>8. Recorded'
    BY <1>20, <1>0 DEF WorkerExit, KillFrees, Recorded, RecordNamesRunningWorker, Running,
           LifeHeld, Awaited, NoRecord, Connected, BrokerBound, WorkerInv, WorkerTypes,
           WorkerRecords, CommandRecords, WorkerRecord, CommandRecord
  <2>9. Connected'
    BY <1>20, <1>0 DEF WorkerExit, KillFrees, Connected, NoRecord, Running, Awaited, WorkerInv,
           WorkerTypes, WorkerRecords, CommandRecords, WorkerRecord, CommandRecord
  <2>10. Alone'
    BY <1>20, <1>0 DEF WorkerExit, KillFrees, Alone, Active, Effective, NoCredential, Connecting,
           WorkerInv, WorkerTypes, WorkerRecords, CommandRecords, WorkerRecord, CommandRecord
  <2>11. Connecting'
    BY <1>20, <1>0 DEF WorkerExit, KillFrees, Connecting, WorkerInv, CommandRecords, CommandRecord
  <2> QED BY <2>1, <2>2, <2>3, <2>4, <2>5, <2>6, <2>7, <2>8, <2>9, <2>10, <2>11 DEF WorkerInv
<1>21. ASSUME NEW w \in Workers, WorkerCrash(w) PROVE WorkerInv'
  <2>1. WorkerTypes'
    BY <1>21, <1>0 DEF WorkerCrash, KillFrees, Running, WorkerTypes, NoRecord, NoCredential,
           WorkerInv, WorkerTypes, WorkerRecords, CommandRecords, WorkerRecord, CommandRecord
  <2>2. WorkerRecords'
    BY <1>21, <1>0 DEF WorkerCrash, KillFrees, Running, WorkerRecords, WorkerStates, WorkerInv,
           WorkerTypes, WorkerRecord
  <2>3. CommandRecords'
    BY <1>21, <1>0 DEF WorkerCrash, KillFrees, Running, CommandRecords, CommandStates,
           CommandOps, WorkerInv, WorkerTypes, CommandRecord
  <2>4. BrokerBound'
    BY <1>21, <1>0 DEF WorkerCrash, KillFrees, Running, BrokerBound, WorkerInv,
           WorkerStartAssumption
  <2>5. StartHeld'
    BY <1>21, <1>0 DEF WorkerCrash, KillFrees, Running, StartHeld, NoOne, WorkerInv, WorkerTypes,
           CommandRecords, CommandRecord
  <2>6. LifeHeld'
    BY <1>21, <1>0 DEF WorkerCrash, KillFrees, Running, LifeHeld, StartHeld, Unheld, WorkerInv,
           WorkerTypes, WorkerRecords, CommandRecords, WorkerRecord, CommandRecord
  <2>7. Awaited'
    BY <1>21, <1>0 DEF WorkerCrash, KillFrees, Running, Awaited, StartHeld, LifeHeld, WorkerInv,
           WorkerTypes, WorkerRecords, CommandRecords, WorkerRecord, CommandRecord
  <2>8. Recorded'
    BY <1>21, <1>0 DEF WorkerCrash, KillFrees, Running, Recorded, RecordNamesRunningWorker,
           LifeHeld, Awaited, NoRecord, Connected, BrokerBound, WorkerInv, WorkerTypes,
           WorkerRecords, CommandRecords, WorkerRecord, CommandRecord
  <2>9. Connected'
    BY <1>21, <1>0 DEF WorkerCrash, KillFrees, Running, Connected, NoRecord, Awaited, WorkerInv,
           WorkerTypes, WorkerRecords, CommandRecords, WorkerRecord, CommandRecord
  <2>10. Alone'
    BY <1>21, <1>0 DEF WorkerCrash, KillFrees, Running, Alone, Active, Effective, NoCredential,
           Connecting, WorkerInv, WorkerTypes, WorkerRecords, CommandRecords, WorkerRecord,
           CommandRecord
  <2>11. Connecting'
    BY <1>21, <1>0 DEF WorkerCrash, KillFrees, Running, Connecting, WorkerInv, CommandRecords,
           CommandRecord
  <2> QED BY <2>1, <2>2, <2>3, <2>4, <2>5, <2>6, <2>7, <2>8, <2>9, <2>10, <2>11 DEF WorkerInv
<1>22. CASE BrokerChange
  <2>1. WorkerTypes'
    BY <1>22, <1>0 DEF BrokerChange, WorkerTypes, NoRecord, NoCredential, WorkerInv, WorkerTypes,
           WorkerRecords, CommandRecords, WorkerRecord, CommandRecord
  <2>2. WorkerRecords' BY <1>0, <1>22 DEF BrokerChange, WorkerInv, WorkerRecords, WorkerRecord
  <2>3. CommandRecords'
    BY <1>22, <1>0 DEF BrokerChange, CommandRecords, CommandStates, CommandOps, WorkerInv,
           WorkerTypes, CommandRecord
  <2>4. BrokerBound'
    <3>1. MaxBroker \in Nat /\ broker.pid \in 1..MaxBroker /\ broker.up \in BOOLEAN /\ (~broker.up => broker.pid < MaxBroker)
          /\ wFaults \in 0..MaxWFaults
      BY DEF WorkerInv, BrokerBound, WorkerStartAssumption
    <3>2. CASE broker.up BY <1>22, <3>1, <3>2 DEF BrokerChange, BrokerBound, WorkerInv
    <3>3. CASE ~broker.up BY <1>22, <3>1, <3>3 DEF BrokerChange, BrokerBound
    <3> QED BY <3>2, <3>3
  <2>5. StartHeld'
    BY <1>22, <1>0 DEF BrokerChange, StartHeld, NoOne, WorkerInv, WorkerTypes, CommandRecords,
           CommandRecord
  <2>6. LifeHeld'
    BY <1>22, <1>0 DEF BrokerChange, LifeHeld, Running, StartHeld, Unheld, WorkerInv,
           WorkerTypes, WorkerRecords, CommandRecords, WorkerRecord, CommandRecord
  <2>7. Awaited'
    BY <1>22, <1>0 DEF BrokerChange, Awaited, Running, StartHeld, LifeHeld, WorkerInv,
           WorkerTypes, WorkerRecords, CommandRecords, WorkerRecord, CommandRecord
  <2>8. Recorded'
    BY <1>22, <1>0 DEF BrokerChange, Recorded, RecordNamesRunningWorker, Running, LifeHeld,
           Awaited, NoRecord, Connected, BrokerBound, WorkerInv, WorkerTypes, WorkerRecords,
           CommandRecords, WorkerRecord, CommandRecord
  <2>9. Connected'
    <3>1. /\ WorkerRecords /\ Connected /\ UNCHANGED wInfo
          /\ worker' = [w \in Workers |->
                  [worker[w] EXCEPT !.swapped = @ \/ worker[w].st \in {"boot", "control"}]]
      BY <1>22, <1>0 DEF BrokerChange, WorkerInv
    <3>2. \A w \in Workers : /\ worker'[w].st = worker[w].st /\ worker'[w].told = worker[w].told /\ worker'[w].met = worker[w].met
                             /\ worker[w].swapped \/ worker[w].st \in {"boot", "control"} => worker'[w].swapped
      BY <3>1 DEF WorkerRecords, WorkerRecord
    <3>3. \A w \in Workers : worker'[w].st \in {"boot", "control"} => worker'[w].swapped BY <3>2
    <3>4. \A w \in Workers : worker'[w].st \in {"connected", "ready"} => worker'[w].met = worker'[w].told \/ worker'[w].swapped
      BY <3>1, <3>2 DEF Connected
    <3>5. ASSUME wInfo.worker \in Workers
          PROVE /\ worker'[wInfo.worker].st \notin {"none", "boot", "control"}
                /\ worker'[wInfo.worker].told = wInfo.broker
                /\ worker'[wInfo.worker].met = wInfo.broker \/ worker'[wInfo.worker].swapped
      BY <3>1, <3>2, <3>5 DEF Connected
    <3> QED BY <3>1, <3>3, <3>4, <3>5 DEF Connected
  <2>10. Alone'
    BY <1>22, <1>0 DEF BrokerChange, Alone, Active, Effective, NoCredential, Connecting,
           WorkerInv, WorkerTypes, WorkerRecords, CommandRecords, WorkerRecord, CommandRecord
  <2>11. Connecting'
    BY <1>22, <1>0 DEF BrokerChange, Connecting, WorkerInv, CommandRecords, CommandRecord
  <2> QED BY <2>1, <2>2, <2>3, <2>4, <2>5, <2>6, <2>7, <2>8, <2>9, <2>10, <2>11 DEF WorkerInv
<1>23. CASE CredentialExpires
  <2>1. WorkerTypes'
    BY <1>23, <1>0 DEF CredentialExpires, Active, WorkerTypes, NoRecord, NoCredential, WorkerInv,
           WorkerTypes, WorkerRecords, CommandRecords, WorkerRecord, CommandRecord
  <2>2. WorkerRecords'
    BY <1>23, <1>0 DEF CredentialExpires, Active, WorkerRecords, WorkerStates, WorkerInv,
           WorkerTypes, WorkerRecord
  <2>3. CommandRecords' BY <1>0, <1>23 DEF CredentialExpires, WorkerInv, CommandRecords, CommandRecord
  <2>4. BrokerBound'
    BY <1>23, <1>0 DEF CredentialExpires, Active, BrokerBound, WorkerInv, WorkerStartAssumption
  <2>5. StartHeld'
    BY <1>23, <1>0 DEF CredentialExpires, Active, StartHeld, NoOne, WorkerInv, WorkerTypes,
           CommandRecords, CommandRecord
  <2>6. LifeHeld'
    BY <1>23, <1>0 DEF CredentialExpires, Active, LifeHeld, Running, StartHeld, Unheld,
           WorkerInv, WorkerTypes, WorkerRecords, CommandRecords, WorkerRecord, CommandRecord
  <2>7. Awaited'
    BY <1>23, <1>0 DEF CredentialExpires, Active, Awaited, Running, StartHeld, LifeHeld,
           WorkerInv, WorkerTypes, WorkerRecords, CommandRecords, WorkerRecord, CommandRecord
  <2>8. Recorded'
    BY <1>23, <1>0 DEF CredentialExpires, Active, Recorded, RecordNamesRunningWorker, Running,
           LifeHeld, Awaited, NoRecord, Connected, BrokerBound, WorkerInv, WorkerTypes,
           WorkerRecords, CommandRecords, WorkerRecord, CommandRecord
  <2>9. Connected'
    BY <1>23, <1>0 DEF CredentialExpires, Active, Connected, NoRecord, Running, Awaited,
           WorkerInv, WorkerTypes, WorkerRecords, CommandRecords, WorkerRecord, CommandRecord
  <2>10. Alone'
    BY <1>23, <1>0 DEF CredentialExpires, Active, Alone, Effective, NoCredential, Connecting,
           WorkerInv, WorkerTypes, WorkerRecords, CommandRecords, WorkerRecord, CommandRecord
  <2>11. Connecting'
    BY <1>23, <1>0 DEF CredentialExpires, Active, Connecting, WorkerInv, CommandRecords,
           CommandRecord
  <2> QED BY <2>1, <2>2, <2>3, <2>4, <2>5, <2>6, <2>7, <2>8, <2>9, <2>10, <2>11 DEF WorkerInv
<1>u. CASE UNCHANGED workerVars
  BY <1>u
     DEF workerVars, WorkerInv, WorkerTypes, WorkerRecords, CommandRecords, BrokerBound, StartHeld, LifeHeld, Awaited, Recorded, Connected, Alone, Connecting, Active, Running, Effective, RecordNamesRunningWorker
<1> QED
  BY <1>1, <1>2, <1>3, <1>4, <1>5, <1>6, <1>7, <1>8, <1>9, <1>10, <1>11, <1>12, <1>13, <1>14, <1>15, <1>16, <1>17, <1>18, <1>19, <1>20, <1>21, <1>22, <1>23, <1>u
     DEF WorkerNext, CommandStep, WorkerStep

(* A home without a worker, with or without a credential and a stale *)
(* record, satisfies the invariant.                                  *)
LEMMA WorkerInitial == ASSUME WorkerStartAssumption, WorkerInit PROVE WorkerInv
<1>0. /\ 0 \in WorkerIds /\ 0 \in BrokerIds /\ 1 \in BrokerIds /\ 0 \notin Launchers /\ 0 \notin Workers
      /\ MaxWorker + 1 \in WorkerIds /\ MaxWorker + 1 \notin Workers
  BY WorkerStartAssumption DEF WorkerStartAssumption, WorkerIds, BrokerIds, Workers
<1>1. WorkerTypes
  <2>1. /\ wStartLock \in Launchers \cup {NoOne} /\ wLifeLock \in {Unheld} /\ wToken \in Workers \cup {NoOne}
        /\ wInfo \in [worker : WorkerIds, broker : BrokerIds]
    BY <1>0 DEF WorkerInit, NoRecord
  <2>2. stored \in [id : Nat, expired : BOOLEAN]
    <3>1. stored = [id |-> 0, expired |-> FALSE] \/ stored = [id |-> 1, expired |-> FALSE]
      BY DEF WorkerInit, NoCredential
    <3>2. \A i \in Nat, e \in BOOLEAN : [id |-> i, expired |-> e] \in [id : Nat, expired : BOOLEAN] OBVIOUS
    <3>3. 0 \in Nat /\ 1 \in Nat OBVIOUS
    <3>4. FALSE \in BOOLEAN OBVIOUS
    <3> QED BY <3>1, <3>2, <3>3, <3>4, Zenon
  <2>3. managed \in BOOLEAN BY DEF WorkerInit
  <2> QED BY <2>1, <2>2, <2>3 DEF WorkerTypes
<1>2. WorkerRecords BY <1>0 DEF WorkerInit, WorkerRecords, WorkerRecord, WorkerStates
<1>3. CommandRecords BY <1>0 DEF WorkerInit, CommandRecords, CommandRecord, CommandStates, CommandOps
<1>4. BrokerBound BY WorkerStartAssumption DEF WorkerStartAssumption, WorkerInit, BrokerBound
<1>5. StartHeld /\ LifeHeld /\ Awaited BY DEF WorkerInit, StartHeld, LifeHeld, Awaited, Running
<1>6. Recorded BY <1>0 DEF WorkerInit, Recorded, RecordNamesRunningWorker, NoRecord
<1>7. Connected BY <1>0 DEF WorkerInit, Connected, NoRecord
<1>8. Alone /\ Connecting BY DEF WorkerInit, Alone, Connecting, Active
<1> QED BY <1>1, <1>2, <1>3, <1>4, <1>5, <1>6, <1>7, <1>8 DEF WorkerInv

(* The invariant gives what WorkerFindable says. *)
LEMMA WorkerFound == ASSUME WorkerStartAssumption, WorkerInv PROVE WorkerFindable
<1>1. WorkerTypeOK
  BY DEF WorkerInv, WorkerTypes, WorkerRecords, WorkerRecord, WorkerStates, BrokerBound, WorkerTypeOK, WorkerIds, BrokerIds
<1>2. OneWorker
  BY DEF WorkerInv, LifeHeld, OneWorker, Running
<1>3. ReadyWorkerRecorded
  BY DEF WorkerInv, Recorded, ReadyWorkerRecorded
<1> QED BY <1>1, <1>2, <1>3 DEF WorkerFindable, WorkerInv, Recorded

(* The action of CredentialFollows. *)
CredentialHanded ==
    \A c \in Launchers :
        Active(c) /\ cmd'[c].pc = "ok" /\ cmd[c].solo /\ managed /\ cmd[c].conn \in Workers
        /\ Running(cmd[c].conn) =>
            worker'[cmd[c].conn].cred = IF stored'.expired THEN 0 ELSE stored'.id
(* The action of ReusedForThisBroker. *)
ReusedForIts ==
    \A c \in Launchers :
        cmd[c].op = "start" /\ cmd[c].pc = "decide" /\ cmd'[c].pc = "token" =>
            LET w == cmd'[c].conn IN
            w \in Workers => worker[w].met = cmd[c].broker \/ worker[w].swapped

(* A step of a command leaves the locals of the others. *)
LEMMA OtherCommandsStay ==
    ASSUME WorkerInv, NEW c \in Launchers, CommandStep(c) \/ CommandKilled(c)
    PROVE \A d \in Launchers \ {c} : cmd'[d] = cmd[d]
  BY
     DEF CommandStep, CommandKilled, StartLock, Step, Decide, Return, LaunchWorker, WorkerReady, WorkerNotReady, ReadToken, ReadStored,
       StoreCredential, DiscoverWorker, ReadBack, Apply, RemoveCredential, WorkerInv, CommandRecords

(* A command that begins is at one of the first points. *)
LEMMA BeginsOnly ==
    ASSUME WorkerInv, NEW c \in Launchers, BeginCommand(c)
    PROVE \A d \in Launchers : cmd'[d].pc = cmd[d].pc \/ cmd'[d].pc \in {"lock", "write", "discover", "failed"}
<1> DEFINE lone == \A e \in Launchers : ~Active(e)
<1>1. PICK op \in {"start", "login", "logout"}, pc \in {"lock", "write", "discover", "failed"} :
        cmd' = [d \in Launchers |->
            IF d = c THEN [cmd[c] EXCEPT !.op = op, !.pc = pc, !.broker = broker.pid, !.solo = lone]
            ELSE IF Active(d) THEN [cmd[d] EXCEPT !.solo = FALSE] ELSE cmd[d]]
  BY ZenonT(60) DEF BeginCommand
<1> HIDE DEF lone
<1>2. cmd'[c].pc = pc
  BY <1>1 DEF WorkerInv, CommandRecords, CommandRecord
<1>3. \A d \in Launchers \ {c} : cmd'[d].pc = cmd[d].pc
  BY <1>1 DEF WorkerInv, CommandRecords, CommandRecord
<1> QED BY <1>2, <1>3

(* Every step satisfies the action of CredentialFollows. *)
LEMMA CredentialArrives ==
    ASSUME WorkerStartAssumption, WorkerInv, [WorkerNext]_workerVars PROVE [CredentialHanded]_workerVars
<1> SUFFICES ASSUME WorkerNext PROVE CredentialHanded
  OBVIOUS
<1>1. ASSUME \A c \in Launchers : cmd'[c].pc = "ok" => cmd[c].pc = "ok" PROVE CredentialHanded
  BY <1>1 DEF CredentialHanded, Active
<1>2. ASSUME NEW c \in Launchers, BeginCommand(c) PROVE CredentialHanded BY <1>1, <1>2, BeginsOnly
<1>3. ASSUME NEW c \in Launchers, Apply(c) PROVE CredentialHanded
  <2>1. \A d \in Launchers \ {c} : cmd'[d] = cmd[d]
    BY <1>3, OtherCommandsStay DEF CommandStep
  <2>2. ASSUME cmd'[c].pc = "ok", cmd[c].solo, managed, cmd[c].conn \in Workers
        PROVE worker'[cmd[c].conn].cred = IF stored'.expired THEN 0 ELSE stored'.id
    <3>1. cmd[c].pc = "apply" /\ cmd[c].op # "logout" /\ worker' = [worker EXCEPT ![cmd[c].conn].cred = cmd[c].cred]
          /\ UNCHANGED stored
      BY <1>3, <2>2 DEF Apply, Step, WorkerInv, CommandRecords, CommandRecord
    <3>2. cmd[c].cred = Effective
      BY <2>2, <3>1 DEF WorkerInv, Alone, Active
    <3> QED BY <2>2, <3>1, <3>2 DEF Effective, WorkerInv, WorkerRecords, WorkerRecord
  <2> QED BY <2>1, <2>2 DEF CredentialHanded, Active
<1>4. ASSUME NEW c \in Launchers, RemoveCredential(c) PROVE CredentialHanded
  BY <1>4, OtherCommandsStay DEF CommandStep, RemoveCredential, WorkerInv, Alone, Active, NoCredential,
     CredentialHanded
<1>5. ASSUME NEW c \in Launchers, DiscoverWorker(c) PROVE CredentialHanded
  BY <1>5, OtherCommandsStay, WorkerStartAssumption DEF CommandStep, DiscoverWorker, WorkerInv, Connecting, Workers,
     WorkerStartAssumption, CredentialHanded, Active
<1>6. ASSUME NEW c \in Launchers, CommandStep(c) \/ CommandKilled(c), ~Apply(c), ~RemoveCredential(c), ~DiscoverWorker(c)
      PROVE CredentialHanded
  <2>1. \A d \in Launchers \ {c} : cmd'[d] = cmd[d]
    BY <1>6, OtherCommandsStay
  <2>2. cmd'[c].pc # "ok"
    BY <1>6, ZenonT(60)
       DEF CommandStep, CommandKilled, StartLock, Step, Decide, Return, LaunchWorker, WorkerReady, WorkerNotReady, ReadToken, ReadStored,
       StoreCredential, ReadBack, WorkerInv, CommandRecords, CommandRecord
  <2> QED BY <2>1, <2>2, <1>1
<1>7. ASSUME NEW w \in Workers, WorkerStep(w) \/ WorkerCrash(w) PROVE CredentialHanded
  <2>1. UNCHANGED cmd
    BY <1>7 DEF WorkerStep, WorkerCrash, StartControl, Connect, PublishReady, LeaveStream, StopControl, WorkerExit
  <2> QED BY <2>1, <1>1
<1>8. CASE BrokerChange
  BY <1>8, <1>1 DEF BrokerChange
<1>9. CASE CredentialExpires BY <1>1, <1>9 DEF CredentialExpires, WorkerInv, CommandRecords, CommandRecord
<1> QED BY <1>2, <1>3, <1>4, <1>5, <1>6, <1>7, <1>8, <1>9 DEF WorkerNext

(* Every step satisfies the action of ReusedForThisBroker. *)
LEMMA ReuseFitsBroker ==
    ASSUME WorkerStartAssumption, WorkerInv, [WorkerNext]_workerVars PROVE [ReusedForIts]_workerVars
<1> SUFFICES ASSUME WorkerNext PROVE ReusedForIts
  OBVIOUS
<1>1. ASSUME NEW c \in Launchers, Decide(c) PROVE ReusedForIts
  BY <1>1, OtherCommandsStay DEF CommandStep, Decide, Step, Return, WorkerInv, CommandRecords, CommandRecord,
     ReusedForIts, Connected
<1>2. ASSUME NEW c \in Launchers, CommandStep(c) \/ CommandKilled(c), ~Decide(c) PROVE ReusedForIts
  <2>1. \A d \in Launchers \ {c} : cmd'[d] = cmd[d]
    BY <1>2, OtherCommandsStay
  <2>2. ~(cmd[c].pc = "decide" /\ cmd'[c].pc = "token")
    BY <1>2
       DEF CommandStep, CommandKilled, StartLock, Step, Return, LaunchWorker, WorkerReady, WorkerNotReady, ReadToken, ReadStored,
       StoreCredential, DiscoverWorker, ReadBack, Apply, RemoveCredential, WorkerInv, CommandRecords, CommandRecord
  <2> QED BY <2>1, <2>2 DEF ReusedForIts
<1>3. ASSUME \A c \in Launchers : cmd'[c].pc = "token" => cmd[c].pc = "token" PROVE ReusedForIts
  BY <1>3 DEF ReusedForIts
<1>4. ASSUME NEW c \in Launchers, BeginCommand(c) PROVE \A d \in Launchers : cmd'[d].pc = "token" => cmd[d].pc = "token"
  BY <1>4, BeginsOnly
<1>5. ASSUME NEW w \in Workers, WorkerStep(w) \/ WorkerCrash(w) PROVE UNCHANGED cmd
  BY <1>5 DEF WorkerStep, WorkerCrash, StartControl, Connect, PublishReady, LeaveStream, StopControl, WorkerExit
<1>6. CASE BrokerChange
  BY <1>6, <1>3 DEF BrokerChange
<1>7. CASE CredentialExpires BY <1>3, <1>7 DEF CredentialExpires, WorkerInv, CommandRecords, CommandRecord
<1> QED BY <1>1, <1>2, <1>3, <1>4, <1>5, <1>6, <1>7 DEF WorkerNext

-----------------------------------------------------------------------------

-----------------------------------------------------------------------------
(* The inductive invariant of the processes of one host. *)
HostInv == BrokerInv /\ WorkerInv /\ DeployInv

(* A step that leaves the deployment alone leaves its invariant. *)
LEMMA DeployStays == ASSUME DeployInv, UNCHANGED deployVars PROVE DeployInv'
<1>1. UNCHANGED <<opLock, deploy, svc, owner, record, dstate, files, taken>> BY DEF deployVars
<1>2. Survivors /\ Lifetimes' /\ ServiceRecords' /\ owner' \in LifetimeFiles BY <1>1, Unmoved, LifetimesStay
<1> QED BY <1>1, <1>2, ServiceMoves

(* A step of the host is one of each component, or leaves it alone. *)
LEMMA HostSteps ==
    ASSUME [Next]_vars PROVE [StartNext]_startVars /\ [WorkerNext]_workerVars /\ [DeployNext]_deployVars
<1>1. CASE UNCHANGED vars BY <1>1 DEF vars, processVars
<1>2. CASE part = "broker" /\ StartNext /\ OtherThanBroker BY <1>2 DEF OtherThanBroker, processVars
<1>3. CASE part = "worker" /\ WorkerNext /\ UNCHANGED <<part, startVars, deployVars, fileVars>> BY <1>3
<1>4. CASE part = "deploy" /\ DeployNext /\ UNCHANGED <<part, startVars, workerVars, fileVars>> BY <1>4
<1>5. CASE UNCHANGED <<part, startVars, processVars>> BY <1>5 DEF processVars
<1> QED BY <1>1, <1>2, <1>3, <1>4, <1>5 DEF Next

(* The host begins within the invariant. *)
LEMMA HostInitial == ASSUME Init PROVE HostInv
  BY BrokerStartAssumption, WorkerStartAssumption, DeployLocalAssumption, BrokerInitial, WorkerInitial, DeployInitial
     DEF Init, HostInv

(* Every step keeps the invariant of every component. *)
LEMMA HostInductive == ASSUME HostInv, [Next]_vars PROVE HostInv'
<1>1. [StartNext]_startVars /\ [WorkerNext]_workerVars /\ [DeployNext]_deployVars BY HostSteps
<1>2. BrokerInv' BY <1>1, BrokerStartAssumption, BrokerStep DEF HostInv
<1>3. WorkerInv' BY <1>1, WorkerStartAssumption, WorkerInductive DEF HostInv
<1>4. DeployInv' BY <1>1, DeployLocalAssumption, DeployInductive, DeployStays DEF HostInv
<1> QED BY <1>2, <1>3, <1>4 DEF HostInv

(* Whatever commands race, fail half-way or are killed, the invariant holds. *)
THEOREM HostInvariance == Spec => []HostInv
<1>1. Init => HostInv BY HostInitial
<1>2. HostInv /\ [Next]_vars => HostInv' BY HostInductive
<1> QED BY <1>1, <1>2, PTL DEF Spec

(* One broker, one delivery worker and one process of each deployed service  *)
(* at most live, and the commands find them (platform/*/broker.rs,           *)
(* delivery.rs, deploy_local/mod.rs).                                        *)
THEOREM AlwaysOwned == Spec => []ProcessesOwned
<1>1. HostInv => ProcessesOwned
  BY WorkerStartAssumption, DeployLocalAssumption, BrokerFound, WorkerFound, DeployFound DEF HostInv, ProcessesOwned
<1> QED BY <1>1, HostInvariance, PTL

(* `abyss proxy stop` that reports success on macOS has left no broker and   *)
(* nothing of one, and a start that reports failure no child                 *)
(* (platform/macos/broker.rs).                                               *)
THEOREM StopsMean == Spec => StopMeansStopped
<1>1. HostInv /\ [Next]_vars => [StopIsDone]_startVars
  BY HostSteps, BrokerStartAssumption, BrokerStopped DEF HostInv
<1>2. Spec => [][StopIsDone]_startVars BY <1>1, HostInvariance, PTL DEF Spec
<1> QED BY <1>2 DEF StopMeansStopped, StopIsDone

(* A command that succeeded undisturbed leaves its worker with the stored    *)
(* credential, and reuses only a worker of its own broker (delivery.rs).     *)
THEOREM AlwaysServes == Spec => WorkerServes
<1>1. HostInv /\ [Next]_vars => [CredentialHanded]_workerVars
  BY HostSteps, WorkerStartAssumption, CredentialArrives DEF HostInv
<1>2. HostInv /\ [Next]_vars => [ReusedForIts]_workerVars
  BY HostSteps, WorkerStartAssumption, ReuseFitsBroker DEF HostInv
<1>3. Spec => [][CredentialHanded]_workerVars BY <1>1, HostInvariance, PTL DEF Spec
<1>4. Spec => [][ReusedForIts]_workerVars BY <1>2, HostInvariance, PTL DEF Spec
<1> QED BY <1>3, <1>4 DEF WorkerServes, CredentialFollows, ReusedForThisBroker, CredentialHanded, ReusedForIts

(* What a deployment command reports is so: written files name what runs, a  *)
(* failed start leaves nothing, a stop leaves nothing, status calls stopped  *)
(* what is stopped (deploy_local/mod.rs).                                    *)
THEOREM OutcomesTrue == Spec => DeployOutcome
<1>1. HostInv /\ [Next]_vars => [WrittenAs]_deployVars
  BY HostSteps, DeployLocalAssumption, WritesWhatRuns DEF HostInv
<1>2. HostInv /\ [Next]_vars => [LeavesNothing]_deployVars
  BY HostInductive, FailureLeavesNothing DEF HostInv
<1>3. HostInv /\ [Next]_vars => [StoppedMeansDown]_deployVars
  BY HostSteps, HostInductive, DeployLocalAssumption, StopLeavesNothing DEF HostInv
<1>4. HostInv /\ [Next]_vars => [SaidTruly]_deployVars
  BY HostSteps, DeployLocalAssumption, StatusSaysTruly DEF HostInv
<1>5. Spec => [][WrittenAs]_deployVars BY <1>1, HostInvariance, PTL DEF Spec
<1>6. Spec => [][LeavesNothing]_deployVars BY <1>2, HostInvariance, PTL DEF Spec
<1>7. Spec => [][StoppedMeansDown]_deployVars BY <1>3, HostInvariance, PTL DEF Spec
<1>8. Spec => [][SaidTruly]_deployVars BY <1>4, HostInvariance, PTL DEF Spec
<1> QED BY <1>5, <1>6, <1>7, <1>8
        DEF DeployOutcome, DeployedAsWritten, FailedStartLeavesNothing, StopMeansDown, StatusTruthful,
            WrittenAs, LeavesNothing, StoppedMeansDown, SaidTruly
=============================================================================
