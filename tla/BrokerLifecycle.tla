--------------------------- MODULE BrokerLifecycle ---------------------------
(***************************************************************************)
(* The broker process from start to exit: main's run, api::serve, the      *)
(* coordination of the REST server with the plugin service, the proxy      *)
(* service with its ingress worker, and the shutdown handler.              *)
(*                                                                         *)
(* ProxyService::stop is called by shutdown requests and, last, by serve   *)
(* itself.  Its callers queue on the FIFO state mutex and the one that     *)
(* finds the proxy started keeps the mutex until the worker has drained.   *)
(* A shutdown request runs inside its HTTP connection: if the client       *)
(* disconnects, the handler is dropped at its await point and the worker   *)
(* it was joining runs on, detached.                                       *)
(*                                                                         *)
(* The plugin service appears as PluginStream shows it: it ends some time  *)
(* after its shutdown is requested, or fails.  A killed process and a      *)
(* panicking worker are left out: nothing in the process outlives them.    *)
(***************************************************************************)
EXTENDS Naturals, Sequences, FiniteSets

CONSTANTS
    Clients,         \* connections to the proxy ingress
    Requests,        \* POST /v1/broker/shutdown requests
    MaxConnections   \* MAX_CONCURRENT_PROXY_CONNECTIONS

ASSUME BrokerLifecycleAssumption ==
    /\ "serve" \notin Requests
    /\ MaxConnections \in Nat \ {0}

VARIABLES
    stage,       \* how far main's run has come
    token,       \* the bearer token file exists
    failed,      \* startup gave up with an error
    http,        \* axum server
    plugin,      \* plugin service
    signalled,   \* SIGTERM was delivered
    requested,   \* ShutdownHandle's oneshot was sent
    pluginStop,  \* the plugin service's shutdown watch is true
    proxy,       \* ProxyRuntimeState
    queue,       \* its mutex: holder first
    call,        \* each caller of ProxyService::stop
    told,        \* the worker's oneshot was sent or dropped
    worker,      \* ProxyWorker
    conn         \* each client connection

vars == <<stage, token, failed, http, plugin, signalled, requested, pluginStop,
          proxy, queue, call, told, worker, conn>>
stageVars == <<stage, token, failed>>
serverVars == <<http, plugin, signalled, requested, pluginStop>>
stopVars == <<proxy, queue, call, told>>

Callers == Requests \cup {"serve"}

Init ==
    /\ stage = "boot" /\ token = FALSE /\ failed = FALSE
    /\ http = "none" /\ plugin = "none"
    /\ signalled = FALSE /\ requested = FALSE /\ pluginStop = FALSE
    /\ proxy = "stopped" /\ queue = <<>>
    /\ call = [c \in Callers |-> "idle"]
    /\ told = FALSE /\ worker = "none"
    /\ conn = [k \in Clients |-> "none"]

-----------------------------------------------------------------------------
(* main.rs run, then api::serve up to coordinate_servers.                  *)

(* CA, plugin socket, policies and the observation store first; the token  *)
(* file is the last thing before serve.                                    *)
CreateToken ==
    /\ stage = "boot"
    /\ stage' = "bind" /\ token' = TRUE
    /\ UNCHANGED <<failed, serverVars, stopVars, worker, conn>>

(* The REST listener binds, then ProxyService::start binds the ingress and *)
(* spawns its worker.                                                      *)
StartProxy ==
    /\ stage = "bind"
    /\ stage' = "handoff"
    /\ proxy' = "started" /\ worker' = "accepting"
    /\ UNCHANGED <<token, failed, serverVars, queue, call, told, conn>>

(* The startup information is written only now.                            *)
Serve ==
    /\ stage = "handoff"
    /\ stage' = "serving"
    /\ http' = "up" /\ plugin' = "up"
    /\ UNCHANGED <<token, failed, signalled, requested, pluginStop, stopVars,
                   worker, conn>>

(* Any startup step may fail: the error returns through run_with_cleanup   *)
(* if the token exists, and dropping the proxy service drops the worker's  *)
(* oneshot sender.                                                         *)
StartupFails ==
    /\ stage \in {"boot", "bind", "handoff"}
    /\ failed' = TRUE
    /\ stage' = IF stage = "boot" THEN "exited" ELSE "cleanup"
    /\ told' = (worker # "none")
    /\ UNCHANGED <<token, serverVars, proxy, queue, call, worker, conn>>

(* SIGTERM is caught from the first line of serve on, and kept until the   *)
(* server looks.                                                           *)
Sigterm ==
    /\ ~signalled /\ stage \in {"bind", "handoff", "serving"}
    /\ signalled' = TRUE
    /\ UNCHANGED <<stageVars, http, plugin, requested, pluginStop, stopVars,
                   worker, conn>>

-----------------------------------------------------------------------------
(* coordinate_servers.                                                     *)

(* The graceful-shutdown future: the server stops accepting requests and   *)
(* the plugin service is told.                                             *)
HttpGraceful ==
    /\ http = "up" /\ (requested \/ signalled)
    /\ http' = "graceful" /\ pluginStop' = TRUE
    /\ UNCHANGED <<stageVars, plugin, signalled, requested, stopVars, worker, conn>>

HttpDone ==
    /\ http = "graceful"
    /\ \A r \in Requests : call[r] \notin {"lock", "join"}
    /\ http' = "down"
    /\ UNCHANGED <<stageVars, plugin, signalled, requested, pluginStop,
                   stopVars, worker, conn>>

PluginEnds ==
    /\ plugin = "up"
    /\ plugin' = IF pluginStop THEN "down" ELSE "failed"
    /\ UNCHANGED <<stageVars, http, signalled, requested, pluginStop, stopVars,
                   worker, conn>>

(* Mutant: the test of the shutdown watch is inverted.                     *)
PluginFirstInverted ==
    /\ stage = "serving" /\ plugin = "failed" /\ pluginStop /\ ~requested
    /\ requested' = TRUE
    /\ UNCHANGED <<stageVars, http, plugin, signalled, pluginStop, stopVars,
                   worker, conn>>

(* The plugin service ended first: the broker shuts itself down.           *)
PluginFirst ==
    /\ stage = "serving" /\ plugin = "failed" /\ ~pluginStop /\ ~requested
    /\ requested' = TRUE
    /\ UNCHANGED <<stageVars, http, plugin, signalled, pluginStop, stopVars,
                   worker, conn>>

(* Mutant: serve returns without stopping the proxy.                       *)
(* Both have ended: serve stops the proxy.                                 *)
ServersDone ==
    /\ stage = "serving" /\ http = "down" /\ plugin \in {"down", "failed"}
    /\ stage' = "halting"
    /\ call' = [call EXCEPT !["serve"] = "lock"]
    /\ queue' = Append(queue, "serve")
    /\ UNCHANGED <<token, failed, serverVars, proxy, told, worker, conn>>

ServeReturns ==
    /\ stage = "halting" /\ call["serve"] = "done"
    /\ stage' = "cleanup"
    /\ UNCHANGED <<token, failed, serverVars, stopVars, worker, conn>>

(* run_with_cleanup removes the token file; main returns, and dropping the *)
(* runtime ends every task that is left.                                   *)
Exit ==
    /\ stage = "cleanup"
    /\ stage' = "exited" /\ token' = FALSE
    /\ worker' = IF worker = "none" THEN "none" ELSE "done"
    /\ conn' = [k \in Clients |->
                   IF conn[k] = "open" THEN "killed"
                   ELSE IF conn[k] = "waiting" THEN "refused" ELSE conn[k]]
    /\ UNCHANGED <<failed, serverVars, stopVars>>

-----------------------------------------------------------------------------
(* ProxyService::stop and its callers.                                     *)

(* A caller waits or holds at most once.                                   *)
Without(q, c) ==
    LET i == CHOOSE i \in 1..Len(q) : q[i] = c
    IN  [j \in 1..(Len(q) - 1) |-> IF j < i THEN q[j] ELSE q[j + 1]]

ShutdownBroker(r) ==
    /\ http = "up" /\ call[r] = "idle"
    /\ call' = [call EXCEPT ![r] = "lock"]
    /\ queue' = Append(queue, r)
    /\ UNCHANGED <<stageVars, serverVars, proxy, told, worker, conn>>

(* Mutant: the mutex stays held.                                           *)
(* stop returns: the mutex is released, and the shutdown handler goes on   *)
(* to request the broker's shutdown and answer.                            *)
Stopped(c) ==
    /\ call' = [call EXCEPT ![c] = "done"]
    /\ queue' = Tail(queue)
    /\ requested' = (requested \/ c \in Requests)

(* Mutant: the worker is told but not joined.                              *)
StopProxyDetached(c) ==
    /\ call[c] = "lock" /\ Head(queue) = c
    /\ proxy' = "stopped"
    /\ told' = (told \/ proxy = "started")
    /\ Stopped(c)
    /\ UNCHANGED <<stageVars, http, plugin, signalled, pluginStop, worker, conn>>

StopProxy(c) ==
    /\ call[c] = "lock" /\ Head(queue) = c
    /\ IF proxy = "stopped"
       THEN Stopped(c) /\ UNCHANGED <<proxy, told>>
       ELSE /\ proxy' = "stopped" /\ told' = TRUE
            /\ call' = [call EXCEPT ![c] = "join"]
            /\ UNCHANGED <<queue, requested>>
    /\ UNCHANGED <<stageVars, http, plugin, signalled, pluginStop, worker, conn>>

StopJoined(c) ==
    /\ call[c] = "join" /\ worker = "done"
    /\ Stopped(c)
    /\ UNCHANGED <<stageVars, http, plugin, signalled, pluginStop, proxy, told,
                   worker, conn>>

(* The handler is dropped, and with it the mutex guard or the JoinHandle.  *)
Disconnect(r) ==
    /\ call[r] \in {"lock", "join"}
    /\ call' = [call EXCEPT ![r] = IF @ = "lock" THEN "dropped" ELSE "detached"]
    /\ queue' = Without(queue, r)
    /\ UNCHANGED <<stageVars, serverVars, proxy, told, worker, conn>>

-----------------------------------------------------------------------------
(* ProxyWorker and its connections.                                        *)

Arrive(k) ==
    /\ conn[k] = "none" /\ worker \notin {"none", "done"}
    /\ conn' = [conn EXCEPT ![k] = "waiting"]
    /\ UNCHANGED <<stageVars, serverVars, stopVars, worker>>

(* A task leaves the JoinSet only when it is reaped.                       *)
JoinSet == {k \in Clients : conn[k] \in {"open", "finished", "cancelled"}}

(* The select is unbiased: an accept may still win once shutdown is ready. *)
Accept(k) ==
    /\ worker = "accepting" /\ conn[k] = "waiting"
    /\ Cardinality(JoinSet) < MaxConnections
    /\ conn' = [conn EXCEPT ![k] = "open"]
    /\ UNCHANGED <<stageVars, serverVars, stopVars, worker>>

Complete(k) ==
    /\ conn[k] = "open"
    /\ conn' = [conn EXCEPT ![k] = "finished"]
    /\ UNCHANGED <<stageVars, serverVars, stopVars, worker>>

(* Mutant: the accept loop does not reap finished tasks.                   *)
ReapWhenDraining(k) ==
    /\ worker \in {"draining", "aborting"}
    /\ conn[k] \in {"finished", "cancelled"}
    /\ conn' = [conn EXCEPT ![k] = IF @ = "finished" THEN "served" ELSE "aborted"]
    /\ UNCHANGED <<stageVars, serverVars, stopVars, worker>>

(* join_next, in the accept loop and in both loops of drain_connections.   *)
Reap(k) ==
    /\ worker \in {"accepting", "draining", "aborting"}
    /\ conn[k] \in {"finished", "cancelled"}
    /\ conn' = [conn EXCEPT ![k] = IF @ = "finished" THEN "served" ELSE "aborted"]
    /\ UNCHANGED <<stageVars, serverVars, stopVars, worker>>

WorkerTold ==
    /\ worker = "accepting" /\ told
    /\ worker' = "draining"
    /\ UNCHANGED <<stageVars, serverVars, stopVars, conn>>

DrainTimeout ==
    /\ worker = "draining" /\ JoinSet # {}
    /\ worker' = "aborting"
    /\ conn' = [k \in Clients |-> IF conn[k] = "open" THEN "cancelled" ELSE conn[k]]
    /\ UNCHANGED <<stageVars, serverVars, stopVars>>

Drained ==
    /\ worker \in {"draining", "aborting"} /\ JoinSet = {}
    /\ worker' = "closing"
    /\ UNCHANGED <<stageVars, serverVars, stopVars, conn>>

(* Ingress::shutdown; the listener goes with the connections it never      *)
(* accepted.                                                               *)
IngressShutdown ==
    /\ worker = "closing"
    /\ worker' = "done"
    /\ conn' = [k \in Clients |-> IF conn[k] = "waiting" THEN "refused" ELSE conn[k]]
    /\ UNCHANGED <<stageVars, serverVars, stopVars>>

-----------------------------------------------------------------------------
Serving ==
    \/ CreateToken \/ StartProxy \/ Serve \/ HttpGraceful \/ HttpDone
    \/ PluginFirst \/ ServersDone \/ ServeReturns \/ Exit

Worker ==
    \/ WorkerTold \/ DrainTimeout \/ Drained \/ IngressShutdown
    \/ \E k \in Clients : Reap(k)

Next ==
    \/ Serving \/ StartupFails \/ Sigterm \/ PluginEnds
    \/ Worker
    \/ \E c \in Callers : StopProxy(c) \/ StopJoined(c)
    \/ \E r \in Requests : ShutdownBroker(r) \/ Disconnect(r)
    \/ \E k \in Clients : Arrive(k) \/ Accept(k) \/ Complete(k)

Spec == Init /\ [][Next]_vars

(* The runtime runs main, the worker and the handlers; the drain timer     *)
(* fires; a plugin service told to stop ends (PluginStream shows when);    *)
(* the accept loop's unbiased select gives a waiting client its turn.      *)
(* Connections need never end by themselves.                               *)
Fairness ==
    /\ WF_vars(Serving) /\ WF_vars(Worker)
    /\ WF_vars(PluginEnds /\ pluginStop)
    /\ \A c \in Callers : WF_vars(StopProxy(c) \/ StopJoined(c))
    /\ \A k \in Clients : SF_vars(Accept(k))

FairSpec == Spec /\ Fairness

-----------------------------------------------------------------------------
(* Properties.                                                             *)

TypeOK ==
    /\ stage \in {"boot", "bind", "handoff", "serving", "halting", "cleanup", "exited"}
    /\ token \in BOOLEAN /\ failed \in BOOLEAN
    /\ http \in {"none", "up", "graceful", "down"}
    /\ plugin \in {"none", "up", "down", "failed"}
    /\ signalled \in BOOLEAN /\ requested \in BOOLEAN /\ pluginStop \in BOOLEAN
    /\ proxy \in {"stopped", "started"}
    /\ queue \in Seq(Callers)
    /\ \A c \in Callers :
          call[c] \in {"lock", "join"} <=> \E i \in 1..Len(queue) : queue[i] = c
    /\ call \in [Callers -> {"idle", "lock", "join", "done", "dropped", "detached"}]
    /\ told \in BOOLEAN
    /\ worker \in {"none", "accepting", "draining", "aborting", "closing", "done"}
    /\ conn \in [Clients -> {"none", "waiting", "open", "finished", "cancelled",
                             "served", "aborted", "refused", "killed"}]

(* "The proxy owns no ingress resources": whoever can read the proxy state *)
(* (nobody holds its mutex across a drain) and finds it stopped finds no   *)
(* worker that still owns the listener.                                    *)
StoppedMeansReleased ==
    proxy = "stopped" /\ (\A c \in Callers : call[c] # "join")
    => worker \in {"none", "done"}

(* A shutdown client disconnected while its handler was joining the worker.*)
Detached == \E r \in Requests : call[r] = "detached"

(* Only a client that disconnects during the drain itself can make the     *)
(* proxy read as stopped too early; one that disconnects in the queue for  *)
(* the mutex cannot.                                                       *)
ReleasedUnlessDetached == Detached \/ StoppedMeansReleased

(* "Existing connections may finish naturally until the drain timeout      *)
(* expires": after a successful startup the process never exits under a    *)
(* connection the worker has not drained or aborted, whoever stops it and  *)
(* in whatever order, unless the drain was detached.                       *)
NoConnectionKilled ==
    \A k \in Clients : conn[k] = "killed" => failed \/ Detached

(* A drain is respected: by whoever reads the state and by the process'    *)
(* exit.                                                                   *)
DrainRespected == TypeOK /\ ReleasedUnlessDetached /\ NoConnectionKilled

(* A signal, an answered shutdown request or the loss of the plugin        *)
(* service ends the process, even if some shutdown client disconnected and *)
(* if no connection ever ends by itself.                                   *)
ShutdownExits ==
    (stage = "serving" /\ (signalled \/ requested \/ plugin = "failed"))
        ~> stage = "exited"

(* At its connection limit the accept loop keeps reaping: a client in the  *)
(* backlog is accepted or turned away, or every place is taken by a        *)
(* connection that is really still open.                                   *)
ClientsServed ==
    \A k \in Clients :
        conn[k] = "waiting" ~>
            \/ conn[k] # "waiting"
            \/ Cardinality({j \in Clients : conn[j] = "open"}) = MaxConnections
=============================================================================
