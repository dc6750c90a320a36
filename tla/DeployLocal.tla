---------------------------- MODULE DeployLocal ----------------------------
(* `abyss deploy-local`: the start, stop and status of a local backend and   *)
(* dashboard.  Commands are serialised by an operation lock they do not hold *)
(* while the proxy starts; each service holds a lifetime lock, is identified *)
(* by a record, and is found again through the state file's ports.           *)
EXTENDS Integers, Sequences, FiniteSets, FiniteSetsExt

CONSTANTS Deploys,        \* deploy-local commands
          MaxService,     \* bound on service processes
          Ports,          \* loopback ports the system can hand out
          MaxDFaults      \* bound on killed commands and crashed services

ASSUME DeployLocalAssumption ==
    /\ Deploys \subseteq Nat \ {0} /\ Ports \subseteq Nat \ {0} /\ {1, 2} \subseteq Ports
    /\ MaxService \in Nat \ {0} /\ MaxDFaults \in Nat

VARIABLES
    opLock,      \* run/deployment.lock: the command that holds it, or 0
    deploy,      \* [Deploys -> command]
    svc,         \* [1..MaxService -> process]
    owner,       \* run/<service>.lock: <<"cmd", c>>, <<"proc", p>> or Unowned
    record,      \* run/<service>.json: a process, or 0
    dstate,      \* deployment.json
    pconf,       \* product-config.json
    files,       \* runtime artifacts and credentials on disk
    taken,       \* ports held by other programs, which do not answer the health paths
    dFaults

deployVars == <<opLock, deploy, svc, owner, record, dstate, pconf, files, taken, dFaults>>

Services == {"backend", "dashboard"}
Procs == 1..MaxService
Unowned == <<"none", 0>>
NoState == [b |-> 0, d |-> 0, current |-> TRUE]
NoConf == [b |-> 0, d |-> 0]
ForeignConf == [b |-> -1, d |-> -1]
(* File contents: 0 absent, 1 something else, 2 what the release publishes. *)
Good == 2
Living(p) == svc[p].st \in {"boot", "up", "dying"}
NewProc == {p \in Procs : svc[p].st = "none" /\ \A q \in Procs : q < p => svc[q].st # "none"}
NoService == [svc |-> "none", st |-> "none", port |-> 0, target |-> 0, art |-> 0, token |-> 0, by |-> 0]
Idle == [op |-> "none", pc |-> "begin", prev |-> NoState, ports |-> NoConf, new |-> {}, at |-> "backend",
         child |-> 0, todo |-> <<>>, then |-> "none", hard |-> FALSE, stuck |-> FALSE,
         cached |-> FALSE, said |-> {}]

DeployInit ==
    /\ opLock = 0 /\ deploy = [c \in Deploys |-> Idle]
    /\ \/ /\ svc = [p \in Procs |-> NoService] /\ owner = [s \in Services |-> Unowned]
          /\ record = [s \in Services |-> 0] /\ dstate = NoState
          /\ pconf \in {NoConf, ForeignConf}
          /\ files \in {[bin |-> 1, sum |-> Good, dash |-> 1, token |-> 0, auth |-> 0],
                        [bin |-> Good, sum |-> 0, dash |-> Good, token |-> -1, auth |-> 0]}
       \/ \* an earlier version's deployment is running
          /\ svc = [p \in Procs |-> IF p = 1 THEN [NoService EXCEPT !.svc = "backend", !.st = "up", !.port = 1, !.token = 1]
                                    ELSE NoService]
          /\ owner = [s \in Services |-> IF s = "backend" THEN <<"proc", 1>> ELSE Unowned]
          /\ record = [s \in Services |-> IF s = "backend" THEN 1 ELSE 0]
          /\ dstate = [b |-> 1, d |-> 2, current |-> FALSE] /\ pconf = [b |-> 1, d |-> 2]
          /\ files = [bin |-> Good, sum |-> Good, dash |-> 0, token |-> 1, auth |-> 1]
    /\ taken = {} /\ dFaults = 0

(***************************************************************************)
(* Control of a command.                                                   *)
(***************************************************************************)
To(c, pc) == deploy' = [deploy EXCEPT ![c].pc = pc]
(* Leaving start, stop, status or rollback drops the operation lock; a       *)
(* command that has ended keeps no locals.                                   *)
Ended(c, pc, stuck, said) == [deploy EXCEPT ![c] = [Idle EXCEPT !.op = deploy[c].op, !.pc = pc, !.stuck = stuck, !.said = said]]
Leaves(c, pc) == opLock' = 0 /\ deploy' = Ended(c, pc, deploy[c].stuck, {})
(* Stop the named services, then go on to `then`; a hard stop gives up at    *)
(* its first error (`?`), a soft one ignores it (drop).                      *)
StopsFirst(c, todo, then, hard) ==
    deploy' = [deploy EXCEPT ![c].pc = "stop", ![c].todo = todo, ![c].then = then, ![c].hard = hard, ![c].child = 0]
Started(c) == (IF "dashboard" \in deploy[c].new THEN <<"dashboard">> ELSE <<>>)
              \o (IF "backend" \in deploy[c].new THEN <<"backend">> ELSE <<>>)
FailsAfterStopping(c) ==
    deploy' = [deploy EXCEPT ![c] = [Idle EXCEPT !.op = "start", !.pc = "stop", !.todo = Started(c), !.then = "failed",
                                                 !.stuck = deploy[c].stuck]]

BeginDeploy(c) ==
    /\ deploy[c].pc = "begin" /\ \A d \in Deploys : d < c => deploy[d].pc # "begin"
    /\ \E op \in {"start", "stop", "status"} :
        deploy' = [deploy EXCEPT ![c].op = op, ![c].pc = "lock"]
    /\ UNCHANGED <<opLock, svc, owner, record, dstate, pconf, files, taken, dFaults>>
(* DeploymentOperationLock::acquire, and what each command does first. *)
DeployLock(c) ==
    /\ deploy[c].pc = "lock"
    /\ \/ /\ opLock = 0
          /\ \/ deploy[c].op = "stop" /\ opLock' = c /\ StopsFirst(c, <<"dashboard", "backend">>, "ok", TRUE)
             \/ deploy[c].op = "status" /\ opLock' = c /\ To(c, "status")
             \/ /\ deploy[c].op = "start"       \* validate_product_config_ownership
                /\ IF pconf = ForeignConf THEN Leaves(c, "failed")
                                          ELSE To(c, "needs") /\ opLock' = c
       \/ opLock # 0 /\ deploy' = Ended(c, "failed", FALSE, {}) /\ UNCHANGED opLock        \* the timeout
    /\ UNCHANGED <<svc, owner, record, dstate, pconf, files, taken, dFaults>>

(***************************************************************************)
(* ArtifactInstaller::ensure and LocalCredentials::ensure.                 *)
(***************************************************************************)
(* check_dependencies: node, npm and what is installed.  (Executables named   *)
(* by the environment take the path of installed ones.)                      *)
check_dependencies(c) ==
    /\ deploy[c].pc = "needs"
    /\ \/ deploy' = [deploy EXCEPT ![c].pc = "binary", ![c].cached = (files.dash = Good)] /\ UNCHANGED opLock
       \/ Leaves(c, "failed")
    /\ UNCHANGED <<svc, owner, record, dstate, pconf, files, taken, dFaults>>

(* installed_backend_is_valid: only a digest equal to the stored checksum makes the binary cached. *)
installed_backend_is_valid == files.bin # 0 /\ files.sum # 0 /\ files.bin = files.sum
(* ensure_backend: cached, or checksums and binary downloaded and compared;  *)
(* the binary is replaced before its checksum.                               *)
InstallBackend(c) ==
    /\ deploy[c].pc = "binary"
    /\ \/ /\ installed_backend_is_valid
          /\ deploy' = [deploy EXCEPT ![c].pc = "staging"]
          /\ UNCHANGED <<opLock, files>>
       \/ /\ ~installed_backend_is_valid
          /\ \/ files' = [files EXCEPT !.bin = Good] /\ To(c, "checksum") /\ UNCHANGED opLock
             \/ Leaves(c, "failed") /\ UNCHANGED files      \* download, checksum entry or digest
    /\ UNCHANGED <<svc, owner, record, dstate, pconf, taken, dFaults>>
WriteChecksum(c) ==
    /\ deploy[c].pc = "checksum"
    /\ \/ files' = [files EXCEPT !.sum = Good] /\ To(c, "staging") /\ UNCHANGED opLock
       \/ Leaves(c, "failed") /\ UNCHANGED files
    /\ UNCHANGED <<svc, owner, record, dstate, pconf, taken, dFaults>>
(* ensure_dashboard: npm installs into a staging directory; once it is valid *)
(* the old directory is removed, and then the staging one renamed.           *)
InstallDashboard(c) ==
    /\ deploy[c].pc = "staging"
    /\ \/ deploy[c].cached /\ deploy' = [deploy EXCEPT ![c].pc = "token", ![c].cached = FALSE] /\ UNCHANGED <<opLock, files>>
       \/ /\ ~deploy[c].cached
          /\ \/ files' = [files EXCEPT !.dash = 0] /\ To(c, "rename") /\ UNCHANGED opLock
             \/ Leaves(c, "failed") /\ UNCHANGED files
    /\ UNCHANGED <<svc, owner, record, dstate, pconf, taken, dFaults>>
RenameDashboard(c) ==
    /\ deploy[c].pc = "rename"
    /\ \/ files' = [files EXCEPT !.dash = Good] /\ To(c, "token") /\ UNCHANGED opLock
       \/ Leaves(c, "failed") /\ UNCHANGED files
    /\ UNCHANGED <<svc, owner, record, dstate, pconf, taken, dFaults>>
(* LocalCredentials::ensure: keep a valid token, refuse a bad one, create a  *)
(* missing one; then derive the authorization header file.                   *)
EnsureToken(c) ==
    /\ deploy[c].pc = "token"
    /\ IF files.token = -1 THEN Leaves(c, "failed") /\ UNCHANGED files
       ELSE files' = [files EXCEPT !.token = 1] /\ To(c, "auth") /\ UNCHANGED opLock
    /\ UNCHANGED <<svc, owner, record, dstate, pconf, taken, dFaults>>
WriteAuthorization(c) ==
    /\ deploy[c].pc = "auth"
    /\ files' = [files EXCEPT !.auth = files.token] /\ To(c, "load")
    /\ UNCHANGED <<opLock, svc, owner, record, dstate, pconf, taken, dFaults>>

(***************************************************************************)
(* The services.                                                           *)
(***************************************************************************)
(* http_ready: a listener on the port that answers 2xx, whoever it is. *)
http_ready(port) == \E p \in Procs : svc[p].st = "up" /\ svc[p].port = port
(* process_matches: the recorded process runs the recorded program. *)
process_matches(s) == record[s] # 0 /\ Living(record[s]) /\ svc[record[s]].svc = s
ServiceStatus(s, port) ==
    IF owner[s] = Unowned THEN "Stopped"
    ELSE IF process_matches(s) /\ http_ready(port) THEN "Running" ELSE "Unhealthy"
(* A status or stop that could take the lifetime lock removes the record. *)
RecordAfterLook(s) == [record EXCEPT ![s] = IF owner[s] = Unowned THEN 0 ELSE @]
PortInUse(port) == port \in taken \/ \E p \in Procs : svc[p].st \in {"up", "dying"} /\ svc[p].port = port
(* The preferred port when it can be bound, or another the system picks. *)
available_port(preferred, excluded) ==
    IF preferred # 0 /\ preferred # excluded /\ ~PortInUse(preferred) THEN {preferred}
    ELSE {q \in Ports : ~PortInUse(q) /\ q # excluded}

(* DeploymentState::load; services of no, or another version's, deployment   *)
(* are stopped first.                                                        *)
LoadState(c) ==
    /\ deploy[c].pc = "load"
    /\ IF dstate = NoState \/ ~dstate.current THEN StopsFirst(c, <<"dashboard", "backend">>, "look", TRUE)
       ELSE deploy' = [deploy EXCEPT ![c].pc = "look", ![c].prev = dstate]
    /\ UNCHANGED <<opLock, svc, owner, record, dstate, pconf, files, taken, dFaults>>

PrevPort(c) == IF deploy[c].at = "backend" THEN deploy[c].prev.b ELSE deploy[c].prev.d
(* The port of the service that is being ensured. *)
SetPort(c, port) == IF deploy[c].at = "backend" THEN [deploy[c].ports EXCEPT !.b = port]
                                                ELSE [deploy[c].ports EXCEPT !.d = port]
(* Mutant: keeps a dashboard that serves the earlier address. *)
KeepsDashboard(c, port, started) ==
    LET s == deploy[c].at
        d == [deploy[c] EXCEPT !.ports = SetPort(c, port), !.new = IF started THEN @ \cup {s} ELSE @, !.child = 0] IN
    IF s = "dashboard" THEN [d EXCEPT !.pc = "state"] ELSE [d EXCEPT !.at = "dashboard", !.pc = "look"]
(* After the backend: a changed address stops the dashboard; after the       *)
(* dashboard: the state is written.                                          *)
Ensured(c, port, started) ==
    LET s == deploy[c].at
        d == [deploy[c] EXCEPT !.ports = SetPort(c, port), !.new = IF started THEN @ \cup {s} ELSE @, !.child = 0] IN
    IF s = "dashboard" THEN [d EXCEPT !.pc = "state"]
    ELSE IF d.prev.b = 0 \/ d.prev.b = port THEN [d EXCEPT !.at = "dashboard", !.pc = "look"]
    ELSE [d EXCEPT !.at = "dashboard", !.pc = "stop", !.hard = TRUE, !.then = "look", !.todo = <<"dashboard">>]
(* An error of ensure_backend returns; one of ensure_dashboard first stops a *)
(* backend this command started.                                             *)
EnsureFails(c) == IF deploy[c].at = "backend" THEN Leaves(c, "failed") ELSE FailsAfterStopping(c) /\ UNCHANGED opLock

(* ensure_backend / ensure_dashboard: reuse what runs on the previous port. *)
Look(c) ==
    /\ deploy[c].pc = "look"
    /\ LET s == deploy[c].at
           st == IF PrevPort(c) = 0 THEN "Stopped" ELSE ServiceStatus(s, PrevPort(c)) IN
       /\ record' = IF PrevPort(c) = 0 THEN record ELSE RecordAfterLook(s)
       /\ \/ st = "Running" /\ deploy' = [deploy EXCEPT ![c] = Ensured(c, PrevPort(c), FALSE)] /\ UNCHANGED opLock
          \/ st = "Unhealthy" /\ EnsureFails(c)
          \/ /\ st = "Stopped"
             /\ \E port \in available_port(PrevPort(c), IF s = "backend" THEN 0 ELSE deploy[c].ports.b) :
                  deploy' = [deploy EXCEPT ![c].pc = "launch", ![c].ports = SetPort(c, port)]
             /\ UNCHANGED opLock
    /\ UNCHANGED <<svc, owner, dstate, pconf, files, taken, dFaults>>

MyPort(c) == IF deploy[c].at = "backend" THEN deploy[c].ports.b ELSE deploy[c].ports.d
ArtifactOf(c) == IF deploy[c].at = "backend" THEN files.bin ELSE files.dash
(* Mutant: leaves the lock with the command that started the service. *)
LockStaysWithCommand(c) ==
    /\ deploy[c].pc = "launch" /\ owner[deploy[c].at] = Unowned
    /\ record' = [record EXCEPT ![deploy[c].at] = 0]
    /\ \E p \in NewProc :
        /\ svc' = [svc EXCEPT ![p] = [svc |-> deploy[c].at, st |-> "boot", port |-> MyPort(c), target |-> deploy[c].ports.b,
                                      art |-> ArtifactOf(c), token |-> files.token, by |-> c]]
        /\ deploy' = [deploy EXCEPT ![c].pc = "record", ![c].child = p]
    /\ UNCHANGED <<opLock, owner, dstate, pconf, files, taken, dFaults>>
(* ManagedService::start: the locked lifetime file becomes the child's stdin. *)
LaunchService(c) ==
    /\ deploy[c].pc = "launch"
    /\ LET s == deploy[c].at IN
       \/ /\ owner[s] = Unowned /\ record' = [record EXCEPT ![s] = 0]
          /\ \/ \E p \in NewProc :
                  /\ svc' = [svc EXCEPT ![p] = [svc |-> s, st |-> "boot", port |-> MyPort(c), target |-> deploy[c].ports.b,
                                                art |-> ArtifactOf(c), token |-> files.token, by |-> c]]
                  /\ owner' = [owner EXCEPT ![s] = <<"proc", p>>]
                  /\ deploy' = [deploy EXCEPT ![c].pc = "record", ![c].child = p]
                  /\ UNCHANGED opLock
             \/ EnsureFails(c) /\ UNCHANGED <<svc, owner>>             \* log or spawn error
       \/ /\ owner[s] # Unowned /\ UNCHANGED <<svc, owner, record>>
          /\ IF ServiceStatus(s, MyPort(c)) = "Running"
             THEN deploy' = [deploy EXCEPT ![c] = Ensured(c, MyPort(c), FALSE)] /\ UNCHANGED opLock
             ELSE EnsureFails(c)
    /\ UNCHANGED <<dstate, pconf, files, taken, dFaults>>
KillFreesOwner(p) == [s \in Services |-> IF owner[s] = <<"proc", p>> THEN Unowned ELSE owner[s]]
Kill(p) == svc' = [svc EXCEPT ![p] = [NoService EXCEPT !.st = "dead"]] /\ owner' = KillFreesOwner(p)
(* write_process_record, or terminate_child. *)
WriteRecord(c) ==
    /\ deploy[c].pc = "record"
    /\ \/ /\ record' = [record EXCEPT ![deploy[c].at] = deploy[c].child]
          /\ To(c, "wait") /\ UNCHANGED <<opLock, svc, owner>>
       \/ Kill(deploy[c].child) /\ EnsureFails(c) /\ UNCHANGED record
    /\ UNCHANGED <<dstate, pconf, files, taken, dFaults>>
(* wait_until_ready: the health path answers, whoever answers it. *)
ServiceReady(c) ==
    /\ deploy[c].pc = "wait" /\ http_ready(MyPort(c))
    /\ deploy' = [deploy EXCEPT ![c] = Ensured(c, MyPort(c), TRUE)]
    /\ UNCHANGED <<opLock, svc, owner, record, dstate, pconf, files, taken, dFaults>>
(* The child exited, or the timeout. *)
ServiceNotReady(c) ==
    /\ deploy[c].pc = "wait" /\ ~http_ready(MyPort(c))
    /\ Kill(deploy[c].child) /\ record' = [record EXCEPT ![deploy[c].at] = 0]
    /\ EnsureFails(c)
    /\ UNCHANGED <<dstate, pconf, files, taken, dFaults>>

(* ManagedService::stop, up to SIGTERM. *)
StopService(c) ==
    /\ deploy[c].pc = "stop" /\ deploy[c].todo # <<>>
    /\ LET s == Head(deploy[c].todo) IN
       \/ /\ owner[s] = Unowned /\ record' = RecordAfterLook(s)
          /\ deploy' = [deploy EXCEPT ![c].todo = Tail(@)] /\ UNCHANGED <<opLock, svc>>
       \/ /\ owner[s] # Unowned /\ process_matches(s)
          /\ svc' = [svc EXCEPT ![record[s]].st = "dying"]
          /\ To(c, "term") /\ UNCHANGED <<opLock, record>>
       \/ /\ owner[s] # Unowned /\ ~process_matches(s) /\ UNCHANGED <<svc, record>>
          /\ IF deploy[c].hard
             THEN deploy' = Ended(c, "failed", TRUE, {}) /\ opLock' = 0
             ELSE deploy' = [deploy EXCEPT ![c].todo = Tail(@), ![c].stuck = TRUE] /\ UNCHANGED opLock
    /\ UNCHANGED <<owner, dstate, pconf, files, taken, dFaults>>
(* wait_for_unlock, then SIGKILL and wait again. *)
WaitStopped(c) ==
    /\ deploy[c].pc = "term"
    /\ LET s == Head(deploy[c].todo) IN
       \/ /\ owner[s] = Unowned /\ record' = [record EXCEPT ![s] = 0]
          /\ deploy' = [deploy EXCEPT ![c].pc = "stop", ![c].todo = Tail(@)] /\ UNCHANGED <<opLock, svc, owner>>
       \/ /\ owner[s] # Unowned /\ process_matches(s)
          /\ Kill(record[s]) /\ record' = [record EXCEPT ![s] = 0]
          /\ deploy' = [deploy EXCEPT ![c].pc = "stop", ![c].todo = Tail(@)] /\ UNCHANGED opLock
       \/ /\ UNCHANGED <<svc, owner, record>>          \* gone before SIGKILL, or alive after it
          /\ IF deploy[c].hard
             THEN deploy' = Ended(c, "failed", TRUE, {}) /\ opLock' = 0
             ELSE deploy' = [deploy EXCEPT ![c].pc = "stop", ![c].todo = Tail(@), ![c].stuck = TRUE] /\ UNCHANGED opLock
    /\ UNCHANGED <<dstate, pconf, files, taken, dFaults>>
StopsDone(c) ==
    /\ deploy[c].pc = "stop" /\ deploy[c].todo = <<>>
    /\ IF deploy[c].then = "look" THEN deploy' = [deploy EXCEPT ![c].pc = "look", ![c].then = "none", ![c].hard = FALSE] /\ UNCHANGED opLock ELSE Leaves(c, deploy[c].then)
    /\ UNCHANGED <<svc, owner, record, dstate, pconf, files, taken, dFaults>>

(* DeploymentState::write, then write_product_config; an error stops what    *)
(* this command started.  Success drops the operation lock.                  *)
WriteState(c) ==
    /\ deploy[c].pc = "state"
    /\ \/ /\ dstate' = [b |-> deploy[c].ports.b, d |-> deploy[c].ports.d, current |-> TRUE] /\ To(c, "config")
       \/ FailsAfterStopping(c) /\ UNCHANGED dstate
    /\ UNCHANGED <<opLock, svc, owner, record, pconf, files, taken, dFaults>>
WriteConfig(c) ==
    /\ deploy[c].pc = "config"
    /\ \/ pconf' = deploy[c].ports /\ opLock' = 0 /\ deploy' = [deploy EXCEPT ![c] = [Idle EXCEPT !.op = "start", !.pc = "proxy", !.new = deploy[c].new, !.stuck = deploy[c].stuck]]
       \/ FailsAfterStopping(c) /\ UNCHANGED <<opLock, pconf>>
    /\ UNCHANGED <<svc, owner, record, dstate, files, taken, dFaults>>
(* The proxy starts, or rollback takes the lock again and stops what this    *)
(* command started; without the lock it gives up.                            *)
StartProxy(c) ==
    /\ deploy[c].pc = "proxy"
    /\ (deploy' = Ended(c, "ok", deploy[c].stuck, {}) \/ To(c, "rollback"))
    /\ UNCHANGED <<opLock, svc, owner, record, dstate, pconf, files, taken, dFaults>>
rollback(c) ==
    /\ deploy[c].pc = "rollback"
    /\ \/ opLock = 0 /\ opLock' = c /\ FailsAfterStopping(c)
       \/ opLock # 0 /\ deploy' = Ended(c, "failed", TRUE, {}) /\ UNCHANGED opLock
    /\ UNCHANGED <<svc, owner, record, dstate, pconf, files, taken, dFaults>>
(* LocalDeployment::status: which services it reports as stopped. *)
DeployStatus(c) ==
    /\ deploy[c].pc = "status"
    /\ opLock' = 0
    /\ IF dstate = NoState
       THEN deploy' = Ended(c, "ok", FALSE, Services) /\ UNCHANGED record
       ELSE /\ deploy' = Ended(c, "ok", FALSE, {s \in Services : owner[s] = Unowned})
            /\ record' = [s \in Services |-> IF owner[s] = Unowned THEN 0 ELSE record[s]]
    /\ UNCHANGED <<svc, owner, dstate, pconf, files, taken, dFaults>>

(***************************************************************************)
(* Processes, other programs, and faults.                                  *)
(***************************************************************************)
(* The service binds its port, or exits when the port is in use. *)
ServiceBind(p) ==
    /\ svc[p].st = "boot"
    /\ IF PortInUse(svc[p].port) THEN Kill(p) ELSE svc' = [svc EXCEPT ![p].st = "up"] /\ UNCHANGED owner
    /\ UNCHANGED <<opLock, deploy, record, dstate, pconf, files, taken, dFaults>>
ServiceDies(p) ==
    /\ svc[p].st = "dying" /\ Kill(p)
    /\ UNCHANGED <<opLock, deploy, record, dstate, pconf, files, taken, dFaults>>
ServiceCrash(p) ==
    /\ svc[p].st \in {"boot", "up"} /\ dFaults < MaxDFaults /\ dFaults' = dFaults + 1 /\ Kill(p)
    /\ UNCHANGED <<opLock, deploy, record, dstate, pconf, files, taken>>
DeployActive(c) == deploy[c].pc \notin {"begin", "ok", "failed"}
DeployKilled(c) ==
    /\ DeployActive(c) /\ dFaults < MaxDFaults /\ dFaults' = dFaults + 1
    /\ deploy' = Ended(c, "failed", TRUE, {})
    /\ opLock' = IF opLock = c THEN 0 ELSE opLock
    /\ UNCHANGED <<svc, owner, record, dstate, pconf, files, taken>>
(* Another program takes the port the deployment used last. *)
PortTaken ==
    /\ taken = {} /\ dstate.b # 0 /\ ~PortInUse(dstate.b) /\ taken' = {dstate.b}
    /\ UNCHANGED <<opLock, deploy, svc, owner, record, dstate, pconf, files, dFaults>>

DeployStep(c) ==
    \/ DeployLock(c) \/ check_dependencies(c) \/ InstallBackend(c) \/ WriteChecksum(c) \/ InstallDashboard(c)
    \/ RenameDashboard(c) \/ EnsureToken(c) \/ WriteAuthorization(c) \/ LoadState(c) \/ Look(c)
    \/ LaunchService(c) \/ WriteRecord(c) \/ ServiceReady(c) \/ ServiceNotReady(c) \/ StopService(c)
    \/ WaitStopped(c) \/ StopsDone(c) \/ WriteState(c) \/ WriteConfig(c) \/ StartProxy(c) \/ rollback(c)
    \/ DeployStatus(c)
DeployNext ==
    \/ \E c \in Deploys : BeginDeploy(c) \/ DeployStep(c) \/ DeployKilled(c)
    \/ \E p \in Procs : ServiceBind(p) \/ ServiceDies(p) \/ ServiceCrash(p)
    \/ PortTaken

-----------------------------------------------------------------------------
(* Locks, records and files keep their types, and the two ports differ. *)
DeployTypeOK ==
    /\ opLock \in Deploys \cup {0}
    /\ \A p \in Procs : svc[p].st \in {"none", "boot", "up", "dying", "dead"} /\ svc[p].port \in Ports \cup {0}
    /\ \A s \in Services : record[s] \in Procs \cup {0} /\ owner[s] \in {Unowned} \cup ({"proc"} \X Procs)
    /\ dstate.b \in Ports \cup {0} /\ dstate.d \in Ports \cup {0} /\ (dstate # NoState => dstate.b # dstate.d)
    /\ files.bin \in 0..2 /\ files.sum \in 0..2 /\ files.dash \in 0..2 /\ taken \subseteq Ports
(* Whatever commands are killed or overlap, a service never runs twice: two  *)
(* backends would share one database.                                        *)
OneService ==
    \A p, q \in Procs : Living(p) /\ Living(q) /\ svc[p].svc = svc[q].svc => p = q
(* The record a stop trusts when it sends SIGTERM and SIGKILL never names    *)
(* another process than the one that holds the service's lifetime.           *)
RecordNamesHolder ==
    \A s \in Services : owner[s] # Unowned /\ record[s] # 0 => owner[s] = <<"proc", record[s]>>
(* What a start installs and launches is what the release published: neither *)
(* a crash between two writes nor a damaged file gets executed.              *)
ArtifactsVerified ==
    \A c \in Deploys : deploy[c].pc \in {"record", "wait"} /\ Living(deploy[c].child) => svc[deploy[c].child].art = Good
(* When a start has written its files, every service still alive is at the   *)
(* address the state and the product configuration name, the dashboard talks *)
(* to that backend, and the backend accepts the token of the header file.    *)
DeployedAsWritten ==
    [][\A c \in Deploys : deploy[c].pc = "config" /\ deploy'[c].pc = "proxy" =>
        \A p \in Procs : Living(p) =>
            /\ svc[p].art = Good
            /\ svc[p].target = dstate.b
            /\ svc[p].port = IF svc[p].svc = "backend" THEN dstate.b ELSE dstate.d
            /\ svc[p].svc = "backend" => svc[p].token = files.auth
            /\ pconf' = [b |-> dstate.b, d |-> dstate.d]]_deployVars
(* A start that fails leaves no service it started behind, unless it was     *)
(* killed, could not lock again, or a stop it attempted failed.              *)
FailedStartLeavesNothing ==
    [][\A c \in Deploys :
        DeployActive(c) /\ deploy'[c].pc = "failed" /\ ~deploy'[c].stuck =>
            \A p \in Procs : Living(p)' => svc'[p].by # c]_deployVars
(* A stop that succeeded leaves no service process alive. *)
StopMeansDown ==
    [][\A c \in Deploys :
        deploy[c].op = "stop" /\ DeployActive(c) /\ deploy'[c].pc = "ok" => \A p \in Procs : ~Living(p)']_deployVars
(* Status calls a service stopped only if it is, unless a command was killed *)
(* or failed before it had written the state file.                           *)
StatusTruthful ==
    [][\A c \in Deploys :
        deploy[c].pc = "status" /\ deploy'[c].pc = "ok" =>
            \A p \in Procs : Living(p) =>
                svc[p].svc \notin deploy'[c].said \/ \E d \in Deploys : deploy[d].stuck]_deployVars
(* The services of one deployment: one process each, identified by its       *)
(* record, of verified artifacts.                                            *)
DeployOwned == DeployTypeOK /\ OneService /\ RecordNamesHolder /\ ArtifactsVerified
(* What a command that came back has done. *)
DeployOutcome == DeployedAsWritten /\ FailedStartLeavesNothing /\ StopMeansDown /\ StatusTruthful
=============================================================================
