---------------------------- MODULE BrokerStart ----------------------------
(* How `abyss proxy start` and `abyss proxy stop` bring a broker process up  *)
(* and down: the CLI's locks, the broker's startup (plugin socket, token     *)
(* file, startup info), its exit, and on Linux the systemd unit around it.   *)
EXTENDS Integers, FiniteSets, FiniteSetsExt

CONSTANTS Clis,         \* CLI processes, one command each
          MaxPid,       \* bound on broker processes
          MaxFaults     \* bound on crashes of a CLI or of a broker

ASSUME BrokerStartAssumption == MaxPid \in Nat \ {0} /\ MaxFaults \in Nat /\ Clis \subseteq Nat

VARIABLES
    host,        \* "macos" | "linux"
    startLock,   \* broker-start.lock: the CLI that holds it, or Free
    lifeLock,    \* broker.lock (macOS): <<"cli", c>>, <<"broker", p>> or Free
    info,        \* startup-info.json: a pid, NoPid, or BadInfo
    token,       \* broker.token: the pid whose token it holds, NoPid, or EmptyToken
    sock,        \* broker-plugin-v1.sock: the pid that bound it, NoPid, or OldSocket
    proc,        \* [1..MaxPid -> process state]
    unit,        \* Linux: [state, main, want] of abyss-broker@user.service
    cli,         \* [Clis -> [op, pc, ep, child]]
    startFaults

startVars == <<host, startLock, lifeLock, info, token, sock, proc, unit, cli, startFaults>>

NoPid == 0
BadInfo == -1
EmptyToken == -1
OldSocket == -1
Free == <<"free", 0>>
Pids == 1..MaxPid
Ops == {"start", "restart", "stop"}
CliStates == {"begin", "discover", "probe", "take", "inflight", "vacant", "shutdown", "stopping",
              "ready", "control", "service", "ok", "failed"}
(* "boot" .. "token": startup; "serving": health answers; "closing" ..        *)
(* "exiting": the way out; "gone" / "crashed": exit status zero / not.       *)
ProcStates == {"none", "boot", "inuse", "stale", "rebind", "bound", "writing", "token", "serving",
               "closing", "removing", "exiting", "gone", "crashed"}
Dead == {"none", "gone", "crashed"}
Alive(p) == proc[p] \notin Dead
Listens(p) == proc[p] \in {"bound", "writing", "token", "serving", "closing"}
NextPid == {p \in Pids : proc[p] = "none" /\ \A q \in Pids : q < p => proc[q] # "none"}

StartInit ==
    /\ host \in {"macos", "linux"}
    /\ startLock = Free
    /\ \/ /\ info = NoPid /\ token = NoPid /\ sock = NoPid
          /\ lifeLock = Free /\ proc = [p \in Pids |-> "none"]
          /\ unit = [state |-> "inactive", main |-> NoPid, want |-> "none"]
       \/ /\ info = BadInfo /\ token = EmptyToken /\ sock = OldSocket      \* left by an earlier crash
          /\ lifeLock = Free /\ proc = [p \in Pids |-> "none"]
          /\ unit = [state |-> "inactive", main |-> NoPid, want |-> "none"]
       \/ /\ info = 1 /\ token = 1 /\ sock = 1                             \* a broker is serving
          /\ proc = [p \in Pids |-> IF p = 1 THEN "serving" ELSE "none"]
          /\ lifeLock = IF host = "macos" THEN <<"broker", 1>> ELSE Free
          /\ unit = IF host = "macos" THEN [state |-> "inactive", main |-> NoPid, want |-> "none"]
                    ELSE [state |-> "active", main |-> 1, want |-> "none"]
    /\ cli = [c \in Clis |-> [op |-> "none", pc |-> "begin", ep |-> NoPid, child |-> NoPid]]
    /\ startFaults = 0

(***************************************************************************)
(* The command line.                                                       *)
(***************************************************************************)
Goto(c, pc) == cli' = [cli EXCEPT ![c].pc = pc]
(* Leaving the function drops the start lock and any lifecycle lock held.    *)
Finish(c, pc) ==
    /\ Goto(c, pc)
    /\ startLock' = Free
    /\ lifeLock' = IF lifeLock = <<"cli", c>> THEN Free ELSE lifeLock
cleanup_failed_start == token' = NoPid /\ info' = NoPid
(* health, status with the same process id, and a token that authenticates. *)
OwnedExplicit(p) == p \in Pids /\ proc[p] = "serving" /\ token = p

(* CLI processes are numbered in the order in which they run. *)
Begins(c, op, pc) ==
    /\ cli[c].pc = "begin" /\ \A d \in Clis : d < c => cli[d].pc # "begin"
    /\ cli' = [cli EXCEPT ![c].op = op, ![c].pc = pc]
FirstState(op) == IF host = "linux" /\ op # "stop" THEN "control" ELSE "discover"
(* BrokerStartLock::acquire: try_lock, and fail when another CLI holds it. *)
Acquire(c) ==
    /\ \E op \in Ops :
        \/ startLock = Free /\ Begins(c, op, FirstState(op)) /\ startLock' = <<"cli", c>>
        \/ startLock # Free /\ Begins(c, op, "failed") /\ UNCHANGED startLock
    /\ UNCHANGED <<host, lifeLock, info, token, sock, proc, unit, startFaults>>

(* BrokerEndpoint::discover reads the published identity. *)
Discover(c) ==
    /\ cli[c].pc = "discover"
    /\ cli' = [cli EXCEPT ![c].ep = info,
                          ![c].pc = IF info > 0 THEN "probe" ELSE IF host = "linux" THEN "service" ELSE "take"]
    /\ UNCHANGED <<host, startLock, lifeLock, info, token, sock, proc, unit, startFaults>>

(* require_healthy_owned_broker decides whether the published broker is ours. *)
Probe(c) ==
    /\ cli[c].pc = "probe"
    /\ IF OwnedExplicit(cli[c].ep)
       THEN IF cli[c].op = "start" THEN Finish(c, "ok") ELSE Goto(c, "shutdown") /\ UNCHANGED <<startLock, lifeLock>>
       ELSE Goto(c, IF host = "linux" THEN "service" ELSE "take") /\ UNCHANGED <<startLock, lifeLock>>
    /\ UNCHANGED <<host, info, token, sock, proc, unit, startFaults>>

(* BrokerLifecycleLock::try_acquire; a stale identity is removed under it. *)
TakeLifecycle(c) ==
    /\ cli[c].pc = "take"
    /\ \/ /\ lifeLock = Free /\ lifeLock' = <<"cli", c>> /\ Goto(c, "vacant")
          /\ IF cli[c].ep = NoPid THEN UNCHANGED <<token, info>> ELSE cleanup_failed_start
       \/ lifeLock # Free /\ Goto(c, "inflight") /\ UNCHANGED <<lifeLock, token, info>>
    /\ UNCHANGED <<host, startLock, sock, proc, unit, startFaults>>

(* wait_for_inflight_broker: one poll, or the last one at the timeout. *)
InflightPoll(c) ==
    /\ cli[c].pc = "inflight" /\ host = "macos"
    /\ \/ /\ OwnedExplicit(info)
          /\ IF cli[c].op = "start"
             THEN /\ cli' = [cli EXCEPT ![c].ep = info, ![c].pc = "ok"]
                  /\ startLock' = Free
             ELSE cli' = [cli EXCEPT ![c].ep = info, ![c].pc = "shutdown"] /\ UNCHANGED startLock
          /\ UNCHANGED <<lifeLock, token, info>>
       \/ /\ ~OwnedExplicit(info) /\ lifeLock = Free
          /\ lifeLock' = <<"cli", c>> /\ cleanup_failed_start /\ Goto(c, "vacant")
          /\ UNCHANGED startLock
    /\ UNCHANGED <<host, sock, proc, unit, startFaults>>
InflightTimeout(c) ==
    /\ cli[c].pc = "inflight" /\ host = "macos" /\ lifeLock # Free
    /\ Finish(c, "failed")
    /\ UNCHANGED <<host, info, token, sock, proc, unit, startFaults>>

(* launch_broker: cleanup, then spawn with the lifecycle lock as stdin. *)
Launch(c) ==
    /\ cli[c].pc = "vacant" /\ cli[c].op # "stop" /\ host = "macos"
    /\ \/ \E p \in NextPid :
            /\ proc' = [proc EXCEPT ![p] = "boot"]
            /\ lifeLock' = <<"broker", p>>
            /\ cli' = [cli EXCEPT ![c].child = p, ![c].pc = "ready"]
            /\ UNCHANGED startLock
       \/ Finish(c, "failed") /\ UNCHANGED proc       \* the spawn failed
    /\ cleanup_failed_start
    /\ UNCHANGED <<host, sock, unit, startFaults>>
StopVacant(c) ==
    /\ cli[c].pc = "vacant" /\ cli[c].op = "stop"
    /\ cleanup_failed_start /\ Finish(c, "ok")
    /\ UNCHANGED <<host, sock, proc, unit, startFaults>>

KillFreesLock(p) == IF lifeLock = <<"broker", p>> THEN Free ELSE lifeLock
(* wait_until_ready (macOS): a poll that ends the wait, or its timeout. *)
Ready(c) ==
    /\ cli[c].pc = "ready" /\ host = "macos"
    /\ info = cli[c].child /\ OwnedExplicit(info)
    /\ cli' = [cli EXCEPT ![c].ep = info, ![c].pc = "ok"]
    /\ startLock' = Free
    /\ UNCHANGED <<host, lifeLock, info, token, sock, proc, unit, startFaults>>
(* The wait gives up: kill and reap the child, then clean up. *)
terminate_failed_start(c) ==
    /\ cli[c].pc = "ready" /\ host = "macos"
    /\ ~(info = cli[c].child /\ OwnedExplicit(info))
    /\ Goto(c, "failed") /\ startLock' = Free
    /\ lifeLock' = KillFreesLock(cli[c].child)
    /\ proc' = [proc EXCEPT ![cli[c].child] = IF Alive(cli[c].child) THEN "crashed" ELSE @]
    /\ cleanup_failed_start
    /\ UNCHANGED <<host, sock, unit, startFaults>>

(* POST /v1/broker/shutdown: answered, lost, or refused by a dead process. *)
RequestShutdown(c) ==
    /\ cli[c].pc = "shutdown"
    /\ \/ /\ proc[cli[c].ep] = "serving"
          /\ proc' = [proc EXCEPT ![cli[c].ep] = "closing"]
          /\ \/ Goto(c, "stopping") /\ UNCHANGED <<startLock, lifeLock>>
             \/ IF host = "linux" THEN Goto(c, "service") /\ UNCHANGED <<startLock, lifeLock>>
                                  ELSE Finish(c, "failed")
       \/ /\ proc[cli[c].ep] # "serving" /\ UNCHANGED proc
          /\ IF host = "linux" THEN Goto(c, "service") /\ UNCHANGED <<startLock, lifeLock>>
                               ELSE Finish(c, "failed")
    /\ UNCHANGED <<host, info, token, sock, unit, startFaults>>

(* Mutant: believes the exit without taking the lock. *)
StoppedWithoutLock(c) ==
    /\ cli[c].pc = "stopping" /\ host = "macos"
    /\ proc[cli[c].ep] # "serving" /\ token = NoPid
    /\ lifeLock' = <<"cli", c>> /\ Goto(c, "vacant")
    /\ UNCHANGED <<host, startLock, info, token, sock, proc, unit, startFaults>>
(* wait_until_stopped (macOS): no health, no token file and a free lock. *)
Stopped(c) ==
    /\ cli[c].pc = "stopping" /\ host = "macos"
    /\ proc[cli[c].ep] # "serving" /\ token = NoPid /\ lifeLock = Free
    /\ lifeLock' = <<"cli", c>> /\ Goto(c, "vacant")
    /\ UNCHANGED <<host, startLock, info, token, sock, proc, unit, startFaults>>
(* Mutant: never gives up waiting. *)
WaitForever(c) ==
    /\ cli[c].pc = "stopping" /\ host = "linux"
    /\ Goto(c, "service")
    /\ UNCHANGED <<host, startLock, lifeLock, info, token, sock, proc, unit, startFaults>>
StopTimeout(c) ==
    /\ cli[c].pc = "stopping"
    /\ IF host = "linux" THEN Goto(c, "service") /\ UNCHANGED <<startLock, lifeLock>> ELSE Finish(c, "failed")
    /\ UNCHANGED <<host, info, token, sock, proc, unit, startFaults>>

(* The CLI process is killed: its descriptors close. *)
CliCrash(c) ==
    /\ cli[c].pc \notin {"begin", "ok", "failed"} /\ startFaults < MaxFaults
    /\ startFaults' = startFaults + 1 /\ Finish(c, "failed")
    /\ UNCHANGED <<host, info, token, sock, proc, unit>>

(***************************************************************************)
(* The command line on Linux, and the unit abyss-broker@.service.          *)
(***************************************************************************)
Control(c) ==
    /\ cli[c].pc = "control"
    /\ unit' = [unit EXCEPT !.want = IF cli[c].op = "restart" /\ unit.state = "active" THEN "restart" ELSE "start"]
    /\ Goto(c, "ready")
    /\ UNCHANGED <<host, startLock, lifeLock, info, token, sock, proc, startFaults>>
LinuxReady(c) ==
    /\ cli[c].pc = "ready" /\ host = "linux" /\ unit.want = "none"
    /\ \/ /\ OwnedExplicit(info)
          /\ cli' = [cli EXCEPT ![c].ep = info, ![c].pc = "ok"]
       \/ ~OwnedExplicit(info) /\ Goto(c, "failed")       \* the timeout
    /\ startLock' = Free
    /\ UNCHANGED <<host, lifeLock, info, token, sock, proc, unit, startFaults>>
(* graceful_shutdown ended: unpublished, no token, no health. *)
LinuxStopped(c) ==
    /\ cli[c].pc = "stopping" /\ host = "linux"
    /\ info = NoPid /\ token = NoPid /\ proc[cli[c].ep] # "serving"
    /\ Goto(c, "ok") /\ startLock' = Free
    /\ UNCHANGED <<host, lifeLock, info, token, sock, proc, unit, startFaults>>
(* systemctl stop, and its return once the unit is inactive. *)
ServiceStop(c) ==
    /\ cli[c].pc = "service"
    /\ IF unit.state = "inactive"
       THEN Goto(c, "ok") /\ startLock' = Free /\ unit' = [unit EXCEPT !.want = "none"]
       ELSE unit.want # "stop" /\ unit' = [unit EXCEPT !.want = "stop"] /\ UNCHANGED <<cli, startLock>>
    /\ UNCHANGED <<host, lifeLock, info, token, sock, proc, startFaults>>

(* ExecStartPre, then ExecStart: for a start job or after RestartSec. *)
UnitSpawn ==
    /\ \/ unit.state = "inactive" /\ unit.want = "start"
       \/ unit.state = "autorestart" /\ unit.want # "stop"
    /\ \E p \in NextPid :
        /\ proc' = [proc EXCEPT ![p] = "boot"]
        /\ unit' = [state |-> "active", main |-> p, want |-> "none"]
    /\ cleanup_failed_start
    /\ UNCHANGED <<host, startLock, lifeLock, sock, cli, startFaults>>
(* A start job on an active unit is done; a stop or restart job sends SIGTERM. *)
UnitJob ==
    /\ unit.state = "active"
    /\ \/ unit.want = "start" /\ unit' = [unit EXCEPT !.want = "none"] /\ UNCHANGED proc
       \/ /\ unit.want \in {"stop", "restart"} /\ proc[unit.main] \notin Dead \cup {"closing", "removing", "exiting"}
          /\ proc' = [proc EXCEPT ![unit.main] = IF @ = "serving" THEN "closing" ELSE "crashed"]
          /\ UNCHANGED unit
    /\ UNCHANGED <<host, startLock, lifeLock, info, token, sock, cli, startFaults>>
(* The main process ended: ExecStopPost, then Restart=on-failure. *)
UnitExit ==
    /\ unit.state = "active" /\ ~Alive(unit.main)
    /\ cleanup_failed_start
    /\ unit' = [state |-> IF unit.want \in {"none", "start"} /\ proc[unit.main] = "crashed" THEN "autorestart" ELSE "inactive",
                main  |-> NoPid,
                want  |-> CASE unit.want = "restart" -> "start" [] unit.want = "stop" -> "none" [] OTHER -> unit.want]
    /\ UNCHANGED <<host, startLock, lifeLock, sock, proc, cli, startFaults>>
(* A stop job ends the pending restart; so does the start limit (MaxPid). *)
UnitGivesUp ==
    /\ \/ unit.state = "autorestart" /\ unit.want = "stop"
       \/ NextPid = {} /\ (unit.state = "autorestart" \/ (unit.state = "inactive" /\ unit.want = "start"))
    /\ unit' = [unit EXCEPT !.state = "inactive", !.want = "none"]
    /\ UNCHANGED <<host, startLock, lifeLock, info, token, sock, proc, cli, startFaults>>

(***************************************************************************)
(* The broker process.                                                     *)
(***************************************************************************)
Advance(p, from, to) == proc[p] = from /\ proc' = [proc EXCEPT ![p] = to]
Die(p, how) == proc' = [proc EXCEPT ![p] = how] /\ lifeLock' = KillFreesLock(p)
Unlinked == sock' = NoPid

(* UnixListener::bind: AddrInUse when the path exists. *)
Bind(p) ==
    /\ IF sock = NoPid THEN Advance(p, "boot", "bound") /\ sock' = p
                       ELSE Advance(p, "boot", "inuse") /\ UNCHANGED sock
    /\ UNCHANGED <<host, startLock, lifeLock, info, token, unit, cli, startFaults>>
(* A connect that succeeds means a live owner: give up. *)
ConnectProbe(p) ==
    /\ proc[p] = "inuse"
    /\ IF sock \in Pids /\ Listens(sock) THEN Die(p, "crashed")
                                        ELSE Advance(p, "inuse", "stale") /\ UNCHANGED lifeLock
    /\ UNCHANGED <<host, startLock, info, token, sock, unit, cli, startFaults>>
RemoveStale(p) ==
    /\ Advance(p, "stale", "rebind") /\ Unlinked
    /\ UNCHANGED <<host, startLock, lifeLock, info, token, unit, cli, startFaults>>
Rebind(p) ==
    /\ IF sock = NoPid THEN Advance(p, "rebind", "bound") /\ sock' = p /\ UNCHANGED lifeLock
                       ELSE proc[p] = "rebind" /\ Die(p, "crashed") /\ UNCHANGED sock
    /\ UNCHANGED <<host, startLock, info, token, unit, cli, startFaults>>
(* AuthTokenFile::create truncates the file, then writes it. *)
CreateToken(p) ==
    /\ \/ Advance(p, "bound", "writing") /\ token' = EmptyToken
       \/ Advance(p, "writing", "token") /\ token' = p
    /\ UNCHANGED <<host, startLock, lifeLock, info, sock, unit, cli, startFaults>>
(* api::serve: listener, proxy, StartupInfo::write_to (a rename), serve. *)
Publish(p) ==
    /\ Advance(p, "token", "serving") /\ info' = p
    /\ UNCHANGED <<host, startLock, lifeLock, token, sock, unit, cli, startFaults>>
(* Dropping UnixPluginTransport unlinks the path, whoever bound it last. *)
CloseTransport(p) ==
    /\ Advance(p, "closing", "removing") /\ Unlinked
    /\ UNCHANGED <<host, startLock, lifeLock, info, token, unit, cli, startFaults>>
(* run_with_cleanup removes the token file; then the process exits. *)
RemoveToken(p) ==
    /\ Advance(p, "removing", "exiting") /\ token' = NoPid
    /\ UNCHANGED <<host, startLock, lifeLock, info, sock, unit, cli, startFaults>>
Exit(p) ==
    /\ proc[p] = "exiting"
    /\ \E how \in {"gone", "crashed"} : Die(p, how)
    /\ UNCHANGED <<host, startLock, info, token, sock, unit, cli, startFaults>>
(* A startup error: what was built so far is dropped in reverse order. *)
StartupError(p) ==
    /\ proc[p] \in {"boot", "bound", "token"}
    /\ sock' = IF proc[p] = "boot" THEN sock ELSE NoPid
    /\ token' = IF proc[p] = "token" THEN NoPid ELSE token
    /\ Die(p, "crashed")
    /\ UNCHANGED <<host, startLock, info, unit, cli, startFaults>>
BrokerCrash(p) ==
    /\ Alive(p) /\ startFaults < MaxFaults
    /\ startFaults' = startFaults + 1 /\ Die(p, "crashed")
    /\ UNCHANGED <<host, startLock, info, token, sock, unit, cli>>

CliStep(c) ==
    \/ Acquire(c) \/ Discover(c) \/ Probe(c) \/ TakeLifecycle(c) \/ InflightPoll(c) \/ InflightTimeout(c)
    \/ Launch(c) \/ StopVacant(c) \/ Ready(c) \/ terminate_failed_start(c) \/ RequestShutdown(c)
    \/ Stopped(c) \/ StopTimeout(c) \/ Control(c) \/ LinuxReady(c) \/ LinuxStopped(c) \/ ServiceStop(c)
ProcStep(p) ==
    \/ Bind(p) \/ ConnectProbe(p) \/ RemoveStale(p) \/ Rebind(p) \/ CreateToken(p) \/ Publish(p)
    \/ CloseTransport(p) \/ RemoveToken(p) \/ Exit(p) \/ StartupError(p)
UnitStep == UnitSpawn \/ UnitJob \/ UnitExit \/ UnitGivesUp
StartNext ==
    \/ \E c \in Clis : CliStep(c) \/ CliCrash(c)
    \/ \E p \in Pids : ProcStep(p) \/ BrokerCrash(p)
    \/ UnitStep

-----------------------------------------------------------------------------
(* The host's files, locks and processes keep their types. *)
StartTypeOK ==
    /\ startLock \in {Free} \cup ({"cli"} \X Clis)
    /\ lifeLock \in {Free} \cup ({"cli"} \X Clis) \cup ({"broker"} \X Pids)
    /\ info \in {BadInfo, NoPid} \cup Pids /\ token \in {EmptyToken, NoPid} \cup Pids
    /\ sock \in {NoPid, OldSocket} \cup Pids /\ proc \in [Pids -> ProcStates]
    /\ unit.state \in {"inactive", "active", "autorestart"} /\ unit.main \in {NoPid} \cup Pids
    /\ unit.want \in {"none", "start", "restart", "stop"}
    /\ \A c \in Clis : cli[c].op \in Ops \cup {"none"} /\ cli[c].pc \in CliStates /\ cli[c].ep \in {BadInfo, NoPid} \cup Pids
    /\ startFaults \in 0..MaxFaults

(* Whatever commands race, fail half-way or are killed, one ABYSS_HOME has at *)
(* most one broker process alive: the lifecycle lock travels with the child. *)
OneBroker == \A p, q \in Pids : Alive(p) /\ Alive(q) => p = q
(* A broker that answers health is reachable by plugins: nobody unlinked or  *)
(* rebound its socket while replacing a stale one or shutting down.           *)
SocketLeadsToBroker == \A p \in Pids : proc[p] = "serving" => sock = p
(* No command removes the token or the identity of a broker that serves, so  *)
(* a later command can still find, authenticate and stop it.                 *)
ServingStaysPublished == \A p \in Pids : proc[p] = "serving" => info = p /\ token = p
(* `abyss proxy stop` on macOS reports success only when no broker process   *)
(* lives and nothing of it is left for the next command to trip over; a      *)
(* start that reports failure itself leaves no child behind.                 *)
StopMeansStopped ==
    [][\A c \in Clis :
        host = "macos" /\ cli[c].pc # cli'[c].pc =>
            /\ cli[c].op = "stop" /\ cli'[c].pc = "ok" =>
                (\A p \in Pids : ~Alive(p)') /\ info' = NoPid /\ token' = NoPid
            /\ cli[c].pc = "ready" /\ cli'[c].pc = "failed" /\ startFaults' = startFaults =>
                ~Alive(cli[c].child)']_startVars
(* Every command comes back: each wait for a lock, a process or systemd is   *)
(* bounded, and no combination of them waits for each other.                 *)
CommandsReturn == \A c \in Clis : cli[c].pc # "begin" ~> cli[c].pc \in {"ok", "failed"}
(* The broker of one ABYSS_HOME: one process, and found by commands and      *)
(* plugins for as long as it serves.                                         *)
BrokerFindable == StartTypeOK /\ OneBroker /\ SocketLeadsToBroker /\ ServingStaysPublished
(* What a command that came back has done, and that it does come back. *)
BrokerCommandsEnd == StopMeansStopped /\ CommandsReturn
=============================================================================
