---------------------------- MODULE WorkerStart ----------------------------
(* The one delivery worker of an ABYSS_HOME: how CLI commands launch, reuse  *)
(* and hand it a credential (abyss-cli delivery.rs, lock.rs, runtime.rs,     *)
(* auth.rs), and the worker's own lifetime (abyss-delivery-plugin main.rs).  *)
(* The broker is a sequence of processes of which one may be up.             *)
EXTENDS Integers, FiniteSets

CONSTANTS Launchers,     \* CLI processes, one command each
          MaxWorker,     \* bound on worker processes
          MaxBroker,     \* bound on successive broker processes
          MaxWFaults     \* bound on crashes

ASSUME WorkerStartAssumption ==
    Launchers \subseteq Nat \ {0} /\ MaxWorker \in Nat \ {0} /\ MaxBroker \in Nat \ {0} /\ MaxWFaults \in Nat

VARIABLES
    broker,       \* [pid, up]
    wStartLock,   \* delivery-worker-start.lock: its launcher, or NoOne
    wLifeLock,    \* the lifetime lock: <<"cli", c>>, <<"worker", w>>, or Unheld
    wInfo,        \* startup record: [worker, broker], or NoRecord
    wToken,       \* control token file: worker whose token it holds, or NoOne
    worker,       \* [1..MaxWorker -> [st, told, met, cred, swapped]]
    stored,       \* the credential file: [id, expired], or NoCredential
    managed,      \* the worker's authentication mode is managed_bearer
    cmd,          \* [Launchers -> [op, pc, broker, child, conn, cred, solo]]
    wFaults

workerVars == <<broker, wStartLock, wLifeLock, wInfo, wToken, worker, stored, managed, cmd, wFaults>>

NoOne == 0
Unheld == <<"free", 0>>
NoRecord == [worker |-> 0, broker |-> 0]
NoCredential == [id |-> 0, expired |-> FALSE]
Workers == 1..MaxWorker
Running(w) == worker[w].st \notin {"none", "dead"}
FreshWorker == {w \in Workers : worker[w].st = "none" /\ \A v \in Workers : v < w => worker[v].st # "none"}
Active(c) == cmd[c].pc \notin {"begin", "ok", "failed"}

WorkerInit ==
    /\ broker = [pid |-> 1, up |-> TRUE]
    /\ wStartLock = NoOne /\ wLifeLock = Unheld /\ wToken = NoOne
    /\ wInfo \in {NoRecord, [worker |-> MaxWorker + 1, broker |-> 1]}      \* the second: left by a crash
    /\ worker = [w \in Workers |-> [st |-> "none", told |-> 0, met |-> 0, cred |-> 0, swapped |-> FALSE]]
    /\ stored \in {NoCredential, [id |-> 1, expired |-> FALSE]}
    /\ managed \in BOOLEAN
    /\ cmd = [c \in Launchers |-> [op |-> "none", pc |-> "begin", broker |-> 0, child |-> 0, conn |-> 0, cred |-> 0, solo |-> TRUE]]
    /\ wFaults = 0

(***************************************************************************)
(* Commands.                                                               *)
(***************************************************************************)
Step(c, pc) == cmd' = [cmd EXCEPT ![c].pc = pc]
(* Returning drops the start lock, and a lifetime lock not yet handed over.  *)
Return(c, pc) ==
    /\ Step(c, pc)
    /\ wStartLock' = IF wStartLock = c THEN NoOne ELSE wStartLock
    /\ wLifeLock' = IF wLifeLock = <<"cli", c>> THEN Unheld ELSE wLifeLock

(* A command begins: start (any bootstrap) finds a verified broker, login    *)
(* has polled and exchanged a new credential, logout reads the stored one.   *)
BeginCommand(c) ==
    /\ cmd[c].pc = "begin" /\ \A d \in Launchers : d < c => cmd[d].pc # "begin"
    /\ \E op \in {"start", "login", "logout"}, pc \in {"lock", "write", "discover", "failed"} :
        /\ \/ op = "start" /\ broker.up /\ pc = "lock"
           \/ op = "login" /\ pc = "write"
           \/ op = "logout" /\ pc = IF stored = NoCredential THEN "failed" ELSE "discover"
        /\ cmd' = [d \in Launchers |->
            IF d = c THEN [cmd[c] EXCEPT !.op = op, !.pc = pc, !.broker = broker.pid,
                                         !.solo = \A e \in Launchers : ~Active(e)]
            ELSE IF Active(d) THEN [cmd[d] EXCEPT !.solo = FALSE] ELSE cmd[d]]
    /\ UNCHANGED <<broker, wStartLock, wLifeLock, wInfo, wToken, worker, stored, managed, wFaults>>

(* WorkerStartLock::acquire polls until its timeout. *)
StartLock(c) ==
    /\ cmd[c].pc = "lock"
    /\ \/ wStartLock = NoOne /\ wStartLock' = c /\ Step(c, "decide")
       \/ wStartLock # NoOne /\ UNCHANGED wStartLock /\ Step(c, "failed")
    /\ UNCHANGED <<broker, wLifeLock, wInfo, wToken, worker, stored, managed, wFaults>>

(* Mutant: launches whatever was decided. *)
LaunchRegardless(c) ==
    /\ cmd[c].pc = "decide"
    /\ wInfo' = NoRecord /\ wLifeLock' = <<"cli", c>> /\ Step(c, "launch")
    /\ UNCHANGED <<broker, wStartLock, wToken, worker, stored, managed, wFaults>>
(* ensure_running_with_executable: a free lifetime means no worker; else     *)
(* reuse the one recorded for this broker, or wait for it to leave.          *)
Decide(c) ==
    /\ cmd[c].pc = "decide"
    /\ \/ /\ wLifeLock = Unheld
          /\ wLifeLock' = <<"cli", c>> /\ wInfo' = NoRecord /\ Step(c, "launch")
          /\ UNCHANGED wStartLock
       \/ /\ wLifeLock # Unheld /\ wInfo # NoRecord /\ wInfo.broker = cmd[c].broker
          /\ cmd' = [cmd EXCEPT ![c].pc = "token", ![c].conn = wInfo.worker]
          /\ UNCHANGED <<wStartLock, wLifeLock, wInfo>>
       \/ /\ wLifeLock # Unheld /\ wInfo.broker # cmd[c].broker         \* the timeout
          /\ Return(c, "failed") /\ UNCHANGED wInfo
    /\ UNCHANGED <<broker, wToken, worker, stored, managed, wFaults>>
(* launch: the locked file becomes the worker's standard input. *)
LaunchWorker(c) ==
    /\ cmd[c].pc = "launch"
    /\ \/ \E w \in FreshWorker :
            /\ worker' = [worker EXCEPT ![w].st = "boot", ![w].told = cmd[c].broker,
                                       ![w].swapped = broker # [pid |-> cmd[c].broker, up |-> TRUE]]
            /\ wLifeLock' = <<"worker", w>>
            /\ cmd' = [cmd EXCEPT ![c].pc = "wait", ![c].child = w]
            /\ UNCHANGED wStartLock
       \/ Return(c, "failed") /\ UNCHANGED worker
    /\ UNCHANGED <<broker, wInfo, wToken, stored, managed, wFaults>>

KillFrees(w) == IF wLifeLock = <<"worker", w>> THEN Unheld ELSE wLifeLock
Mine(c) == wInfo.worker = cmd[c].child /\ wInfo.broker = cmd[c].broker
(* wait_until_ready: the record names the child and the broker. *)
WorkerReady(c) ==
    /\ cmd[c].pc = "wait" /\ Mine(c)
    /\ cmd' = [cmd EXCEPT ![c].pc = "token", ![c].conn = wInfo.worker]
    /\ UNCHANGED <<broker, wStartLock, wLifeLock, wInfo, wToken, worker, stored, managed, wFaults>>
(* The child exited, or the timeout: kill and reap it, remove its record. *)
WorkerNotReady(c) ==
    /\ cmd[c].pc = "wait" /\ ~Mine(c)
    /\ Step(c, "failed") /\ wStartLock' = NoOne
    /\ worker' = [worker EXCEPT ![cmd[c].child].st = "dead"]
    /\ wLifeLock' = KillFrees(cmd[c].child)
    /\ wInfo' = NoRecord
    /\ UNCHANGED <<broker, wToken, stored, managed, wFaults>>

(* DeliveryConnection::from_startup_info reads the token; ensure_running     *)
(* returns and its start lock is released.                                   *)
ReadToken(c) ==
    /\ cmd[c].pc = "token"
    /\ Return(c, IF wToken = cmd[c].conn THEN "sync" ELSE "failed")
    /\ UNCHANGED <<broker, wInfo, wToken, worker, stored, managed, wFaults>>

(* Mutant: hands over an expired credential. *)
SkipsExpiryCheck(c) ==
    /\ cmd[c].pc = "sync" /\ cmd[c].op = "start"
    /\ cmd' = [cmd EXCEPT ![c].pc = "apply", ![c].cred = stored.id]
    /\ UNCHANGED <<broker, wStartLock, wLifeLock, wInfo, wToken, worker, stored, managed, wFaults>>
(* sync_delivery_credential: what is stored and unexpired, or a clear. *)
ReadStored(c) ==
    /\ cmd[c].pc = "sync" /\ cmd[c].op = "start"
    /\ cmd' = [cmd EXCEPT ![c].pc = "apply", ![c].cred = IF stored.expired THEN 0 ELSE stored.id]
    /\ UNCHANGED <<broker, wStartLock, wLifeLock, wInfo, wToken, worker, stored, managed, wFaults>>
(* login: store the credential, then look for a worker. *)
StoreCredential(c) ==
    /\ cmd[c].pc = "write" /\ stored' = [id |-> c + 1, expired |-> FALSE]
    /\ Step(c, "discover")
    /\ UNCHANGED <<broker, wStartLock, wLifeLock, wInfo, wToken, worker, managed, wFaults>>
(* DeliveryWorker::discover, without any lock. *)
DiscoverWorker(c) ==
    /\ cmd[c].pc = "discover"
    /\ IF wInfo = NoRecord
       THEN cmd' = [cmd EXCEPT ![c].pc = IF cmd[c].op = "logout" THEN "remove" ELSE "ok"]
       ELSE cmd' = [cmd EXCEPT ![c].pc = "token", ![c].conn = wInfo.worker]
    /\ UNCHANGED <<broker, wStartLock, wLifeLock, wInfo, wToken, worker, stored, managed, wFaults>>
ReadBack(c) ==
    /\ cmd[c].pc = "sync" /\ cmd[c].op # "start"
    /\ cmd' = IF cmd[c].op = "login" /\ stored = NoCredential THEN [cmd EXCEPT ![c].pc = "failed"]
              ELSE [cmd EXCEPT ![c].pc = "apply", ![c].cred = IF cmd[c].op = "login" THEN stored.id ELSE 0]
    /\ UNCHANGED <<broker, wStartLock, wLifeLock, wInfo, wToken, worker, stored, managed, wFaults>>
(* set_bearer_if_managed / clear_bearer_if_managed. *)
Apply(c) ==
    /\ cmd[c].pc = "apply"
    /\ LET w == cmd[c].conn IN
       \/ /\ w \in Workers /\ worker[w].st \in {"control", "connected", "ready"} /\ wToken = w
          /\ worker' = IF managed THEN [worker EXCEPT ![w].cred = cmd[c].cred] ELSE worker
          /\ Step(c, IF cmd[c].op = "logout" THEN "remove" ELSE "ok")
       \/ UNCHANGED worker /\ Step(c, "failed")                 \* no answer, or refused
    /\ UNCHANGED <<broker, wStartLock, wLifeLock, wInfo, wToken, stored, managed, wFaults>>
RemoveCredential(c) ==
    /\ cmd[c].pc = "remove" /\ stored' = NoCredential /\ Step(c, "ok")
    /\ UNCHANGED <<broker, wStartLock, wLifeLock, wInfo, wToken, worker, managed, wFaults>>
CommandKilled(c) ==
    /\ Active(c) /\ wFaults < MaxWFaults /\ wFaults' = wFaults + 1
    /\ Return(c, "failed")
    /\ UNCHANGED <<broker, wInfo, wToken, worker, stored, managed>>

(***************************************************************************)
(* The worker process, the broker and the clock.                           *)
(***************************************************************************)
Moves(w, from, to) == worker[w].st = from /\ worker' = [worker EXCEPT ![w].st = to]
(* DeliveryControlServer::start binds its listener and writes the token. *)
StartControl(w) ==
    /\ Moves(w, "boot", "control") /\ wToken' = w
    /\ UNCHANGED <<broker, wStartLock, wLifeLock, wInfo, stored, managed, cmd, wFaults>>
(* replay_spool, then connect to whichever broker answers the endpoint. *)
Connect(w) ==
    /\ worker[w].st = "control" /\ broker.up
    /\ worker' = [worker EXCEPT ![w].st = "connected", ![w].met = broker.pid]
    /\ UNCHANGED <<broker, wStartLock, wLifeLock, wInfo, wToken, stored, managed, cmd, wFaults>>
(* WorkerStartupInfoGuard::publish: a rename, with the pid it was told. *)
PublishReady(w) ==
    /\ Moves(w, "connected", "ready") /\ wInfo' = [worker |-> w, broker |-> worker[w].told]
    /\ UNCHANGED <<broker, wStartLock, wLifeLock, wToken, stored, managed, cmd, wFaults>>
(* run_worker ends: start error, or the stream of its broker ended. The      *)
(* guard removes the record if it is still this worker's.                    *)
LeaveStream(w) ==
    /\ \/ worker[w].st = "control"
       \/ worker[w].st \in {"connected", "ready"} /\ (~broker.up \/ broker.pid # worker[w].met)
    /\ worker' = [worker EXCEPT ![w].st = "left"]
    /\ wInfo' = IF worker[w].st = "ready" /\ wInfo = [worker |-> w, broker |-> worker[w].told] THEN NoRecord ELSE wInfo
    /\ UNCHANGED <<broker, wStartLock, wLifeLock, wToken, stored, managed, cmd, wFaults>>
(* control.shutdown removes the token; the process exits. *)
StopControl(w) ==
    /\ Moves(w, "left", "exit") /\ wToken' = NoOne
    /\ UNCHANGED <<broker, wStartLock, wLifeLock, wInfo, stored, managed, cmd, wFaults>>
WorkerExit(w) ==
    /\ worker[w].st \in {"boot", "exit"} /\ worker' = [worker EXCEPT ![w].st = "dead"]
    /\ wLifeLock' = KillFrees(w)
    /\ UNCHANGED <<broker, wStartLock, wInfo, wToken, stored, managed, cmd, wFaults>>
WorkerCrash(w) ==
    /\ Running(w) /\ wFaults < MaxWFaults /\ wFaults' = wFaults + 1
    /\ worker' = [worker EXCEPT ![w].st = "dead"] /\ wLifeLock' = KillFrees(w)
    /\ UNCHANGED <<broker, wStartLock, wInfo, wToken, stored, managed, cmd>>
(* The broker is stopped or replaced (BrokerStart). *)
BrokerChange ==
    /\ broker.up => broker.pid < MaxBroker
    /\ broker' = IF broker.up THEN [broker EXCEPT !.up = FALSE] ELSE [pid |-> broker.pid + 1, up |-> TRUE]
    /\ worker' = [w \in Workers |-> [worker[w] EXCEPT !.swapped = @ \/ worker[w].st \in {"boot", "control"}]]
    /\ UNCHANGED <<wStartLock, wLifeLock, wInfo, wToken, stored, managed, cmd, wFaults>>
CredentialExpires ==
    /\ stored # NoCredential /\ ~stored.expired /\ stored' = [stored EXCEPT !.expired = TRUE]
    /\ cmd' = [c \in Launchers |-> IF Active(c) THEN [cmd[c] EXCEPT !.solo = FALSE] ELSE cmd[c]]
    /\ UNCHANGED <<broker, wStartLock, wLifeLock, wInfo, wToken, worker, managed, wFaults>>

CommandStep(c) ==
    \/ StartLock(c) \/ Decide(c) \/ LaunchWorker(c) \/ WorkerReady(c) \/ WorkerNotReady(c) \/ ReadToken(c)
    \/ ReadStored(c) \/ StoreCredential(c) \/ DiscoverWorker(c) \/ ReadBack(c) \/ Apply(c) \/ RemoveCredential(c)
WorkerStep(w) ==
    StartControl(w) \/ Connect(w) \/ PublishReady(w) \/ LeaveStream(w) \/ StopControl(w) \/ WorkerExit(w)
WorkerNext ==
    \/ \E c \in Launchers : BeginCommand(c) \/ CommandStep(c) \/ CommandKilled(c)
    \/ \E w \in Workers : WorkerStep(w) \/ WorkerCrash(w)
    \/ BrokerChange \/ CredentialExpires

-----------------------------------------------------------------------------
(* Locks, records and processes keep their types. *)
WorkerTypeOK ==
    /\ broker \in [pid : 1..MaxBroker, up : BOOLEAN]
    /\ wStartLock \in Launchers \cup {NoOne}
    /\ wLifeLock \in {Unheld} \cup ({"cli"} \X Launchers) \cup ({"worker"} \X Workers)
    /\ wInfo \in [worker : 0..(MaxWorker + 1), broker : 0..MaxBroker] /\ wToken \in Workers \cup {NoOne}
    /\ \A w \in Workers : worker[w].st \in {"none", "boot", "control", "connected", "ready", "left", "exit", "dead"}
    /\ wFaults \in 0..MaxWFaults
(* Whatever commands race or are killed while launching, one worker process  *)
(* at most is alive: two would replay and rewrite the same spool.            *)
OneWorker == \A v, w \in Workers : Running(v) /\ Running(w) => v = w
(* A worker that consumes events can be found: its record is not removed or  *)
(* replaced while it is ready, so a later login or logout reaches it.        *)
ReadyWorkerRecorded == \A w \in Workers : worker[w].st = "ready" => wInfo.worker = w /\ wToken = w
(* The record that makes a command reuse a worker is gone before the worker  *)
(* gives its lifetime up, unless the worker crashed.                         *)
RecordNamesRunningWorker == wFaults = 0 /\ wInfo.worker \in Workers => worker[wInfo.worker].st = "ready"
(* A command that succeeded while nothing else changed the credential leaves *)
(* its worker with exactly the stored, unexpired credential, or with none.   *)
CredentialFollows ==
    [][\A c \in Launchers :
        Active(c) /\ cmd'[c].pc = "ok" /\ cmd[c].solo /\ managed /\ cmd[c].conn \in Workers
        /\ Running(cmd[c].conn) =>
            worker'[cmd[c].conn].cred = IF stored'.expired THEN 0 ELSE stored'.id]_workerVars
(* The worker a start reports is connected to the broker it was started for, *)
(* unless that broker was replaced before the worker had connected.          *)
ReusedForThisBroker ==
    [][\A c \in Launchers :
        cmd[c].op = "start" /\ cmd[c].pc = "decide" /\ cmd'[c].pc = "token" =>
            LET w == cmd'[c].conn IN
            w \in Workers => worker[w].met = cmd[c].broker \/ worker[w].swapped]_workerVars
(* The delivery worker of one ABYSS_HOME: one process, and found by commands *)
(* exactly while it is there.                                                *)
WorkerFindable == WorkerTypeOK /\ OneWorker /\ ReadyWorkerRecorded /\ RecordNamesRunningWorker
(* What a command that succeeded leaves the worker with. *)
WorkerServes == CredentialFollows /\ ReusedForThisBroker
=============================================================================
