------------------------ MODULE BrokerLifecycleProofs -----------------------
(***************************************************************************)
(* Proofs about BrokerLifecycle, for any set of clients and of shutdown    *)
(* requests and any connection limit.                                      *)
(*                                                                         *)
(* That the process never exits under an open connection is decided long   *)
(* before the exit: serve's own stop call returns only once the worker is  *)
(* done or was left to a dropped handler, and from then on no shutdown     *)
(* request can be waiting, because the REST server has ended.  The         *)
(* invariant carries that fact from the return of stop to the exit.        *)
(***************************************************************************)
EXTENDS BrokerLifecycle, TLAPS

(* Each caller stands in the queue once, and whoever joins the worker      *)
(* holds the mutex.                                                        *)
Mutex ==
    /\ \A i, j \in 1..Len(queue) : queue[i] = queue[j] => i = j
    /\ \A c \in Callers : call[c] = "join" => queue[1] = c

(* serve calls stop only after both servers ended, and then no request is  *)
(* waiting for the mutex or the worker.                                    *)
ServeLast ==
    /\ call["serve"] # "idle" =>
          stage \in {"halting", "cleanup", "exited"} /\ http = "down"
    /\ http = "down" => \A r \in Requests : call[r] \notin {"lock", "join"}
    /\ stage = "cleanup" => failed \/ call["serve"] = "done"

(* When its call has returned, the worker is done or runs detached.        *)
ServeReleases == call["serve"] = "done" => Detached \/ worker \in {"none", "done"}

(* Open connections need a worker that still serves them.                  *)
OpenServed == \A k \in Clients : conn[k] = "open" => worker \in {"accepting", "draining"}

Inv == DrainRespected /\ Mutex /\ ServeLast /\ ServeReleases /\ OpenServed

-----------------------------------------------------------------------------
(* r is the queue q after c left it: the others keep their places, the    *)
(* head its lead.                                                          *)
Left(q, c, r) ==
    /\ r \in Seq(Callers) /\ (q[1] # c => r[1] = q[1])
    /\ \A i, j \in 1..Len(r) : r[i] = r[j] => i = j
    /\ \A i \in 1..Len(r) : r[i] # c
    /\ \A d \in Callers \ {c} :
          (\E i \in 1..Len(q) : q[i] = d) <=> (\E i \in 1..Len(r) : r[i] = d)

(* That is what leaving the queue does.                                    *)
LEMMA WithoutFacts ==
    ASSUME NEW q \in Seq(Callers), NEW c \in Callers,
           \E i \in 1..Len(q) : q[i] = c,
           \A i, j \in 1..Len(q) : q[i] = q[j] => i = j
    PROVE  Left(q, c, Without(q, c))
<1> DEFINE r == Without(q, c)
           n == CHOOSE i \in 1..Len(q) : q[i] = c
           f == [j \in 1..(Len(q) - 1) |-> IF j < n THEN q[j] ELSE q[j + 1]]
<1>1. n \in 1..Len(q) /\ q[n] = c
    OBVIOUS
<1>2. Len(q) \in Nat /\ Len(q) - 1 \in Nat
    BY <1>1
<1>3. r = f
    BY DEF Without
<1> HIDE DEF n, r
<1>4. r \in Seq(Callers) /\ Len(r) = Len(q) - 1
    BY <1>1, <1>2, <1>3
<1>5. q[1] # c => r[1] = q[1]
    BY <1>1, <1>2, <1>3
<1>6. ASSUME NEW i \in 1..Len(r), NEW j \in 1..Len(r), r[i] = r[j] PROVE i = j
    BY <1>1, <1>2, <1>3, <1>4, <1>6
<1>7. ASSUME NEW i \in 1..Len(r) PROVE r[i] # c
    BY <1>1, <1>2, <1>3, <1>4
<1>8. ASSUME NEW d \in Callers \ {c}, NEW k \in 1..Len(q), q[k] = d
      PROVE  \E i \in 1..Len(r) : r[i] = d
  <2>1. CASE k < n
      BY <1>1, <1>2, <1>3, <1>4, <1>8, <2>1
  <2>2. CASE k > n
    <3>1. k - 1 \in 1..Len(r) /\ r[k - 1] = q[k]
        BY <1>1, <1>2, <1>3, <1>4, <2>2
    <3> QED BY <1>8, <3>1
  <2>3. k # n
      BY <1>1, <1>8
  <2> QED BY <1>1, <2>1, <2>2, <2>3
<1>9. ASSUME NEW d \in Callers \ {c}, NEW k \in 1..Len(r), r[k] = d
      PROVE  \E i \in 1..Len(q) : q[i] = d
    BY <1>1, <1>2, <1>3, <1>4, <1>9
<1> QED BY <1>4, <1>5, <1>6, <1>7, <1>8, <1>9 DEF r, Left

(* The mutex is passed on to the next in the queue.                        *)
LEMMA TailFacts ==
    ASSUME NEW q \in Seq(Callers), q # <<>>,
           \A i, j \in 1..Len(q) : q[i] = q[j] => i = j
    PROVE  /\ Tail(q) \in Seq(Callers)
           /\ \A i, j \in 1..Len(Tail(q)) : Tail(q)[i] = Tail(q)[j] => i = j
           /\ \A i \in 1..Len(Tail(q)) : Tail(q)[i] # Head(q)
           /\ \A d \in Callers \ {Head(q)} :
                 (\E i \in 1..Len(q) : q[i] = d) <=> (\E i \in 1..Len(Tail(q)) : Tail(q)[i] = d)
<1> DEFINE r == Tail(q)
<1>1. /\ r \in Seq(Callers) /\ Len(q) \in Nat /\ Len(q) > 0 /\ Len(r) = Len(q) - 1
      /\ Head(q) = q[1]
      /\ \A i \in 1..Len(r) : r[i] = q[i + 1]
    OBVIOUS
<1> HIDE DEF r
<1>2. \A i, j \in 1..Len(r) : r[i] = r[j] => i = j
    BY <1>1
<1>3. \A i \in 1..Len(r) : r[i] # Head(q)
    BY <1>1
<1>4. ASSUME NEW d \in Callers \ {Head(q)}, NEW k \in 1..Len(q), q[k] = d
      PROVE  \E i \in 1..Len(r) : r[i] = d
  <2>1. k # 1
      BY <1>1, <1>4
  <2>2. k - 1 \in 1..Len(r) /\ r[k - 1] = q[k]
      BY <1>1, <2>1
  <2> QED BY <1>4, <2>2
<1>5. ASSUME NEW d \in Callers \ {Head(q)}, NEW k \in 1..Len(r), r[k] = d
      PROVE  \E i \in 1..Len(q) : q[i] = d
    BY <1>1, <1>5
<1> QED BY <1>1, <1>2, <1>3, <1>4, <1>5 DEF r

(* What the mutex is about.                                                *)
Stops == {"idle", "lock", "join", "done", "dropped", "detached"}
Queued == {"lock", "join"}

Queue ==
    /\ queue \in Seq(Callers) /\ call \in [Callers -> Stops]
    /\ \A c \in Callers : call[c] \in Queued <=> \E i \in 1..Len(queue) : queue[i] = c
    /\ Mutex

(* A caller asks for the mutex.                                            *)
LEMMA JoinQueue ==
    ASSUME Queue, NEW c \in Callers, call[c] \notin Queued,
           call' = [call EXCEPT ![c] = "lock"], queue' = Append(queue, c)
    PROVE  Queue'
<1> USE DEF Queue, Mutex, Queued, Stops
<1>1. /\ queue' \in Seq(Callers) /\ Len(queue') = Len(queue) + 1 /\ Len(queue) \in Nat
      /\ queue'[Len(queue) + 1] = c
      /\ \A i \in 1..Len(queue) : queue'[i] = queue[i] /\ queue'[i] # c
    OBVIOUS
<1>2. \A i, j \in 1..Len(queue') : queue'[i] = queue'[j] => i = j
    BY <1>1
<1>3. call'[c] = "lock" /\ \A d \in Callers \ {c} : call'[d] = call[d]
    OBVIOUS
<1>4. \A d \in Callers \ {c} : (\E i \in 1..Len(queue) : queue[i] = d)
                              <=> (\E i \in 1..Len(queue') : queue'[i] = d)
    BY <1>1
<1>5. \A d \in Callers : call'[d] \in Queued <=> \E i \in 1..Len(queue') : queue'[i] = d
    BY <1>1, <1>3, <1>4
<1>6. \A d \in Callers : call'[d] = "join" => queue'[1] = d
    BY <1>1, <1>3
<1> QED BY <1>1, <1>2, <1>5, <1>6

(* The holder returns from stop.                                           *)
LEMMA ReturnQueue ==
    ASSUME Queue, NEW c \in Callers, call[c] \in Queued, Head(queue) = c,
           call' = [call EXCEPT ![c] = "done"], queue' = Tail(queue)
    PROVE  Queue'
<1>1. /\ queue \in Seq(Callers) /\ queue # <<>> /\ queue[1] = c
      /\ \A i, j \in 1..Len(queue) : queue[i] = queue[j] => i = j
    BY DEF Queue, Mutex
<1>2. /\ queue' \in Seq(Callers)
      /\ \A i, j \in 1..Len(queue') : queue'[i] = queue'[j] => i = j
      /\ \A i \in 1..Len(queue') : queue'[i] # c
      /\ \A d \in Callers \ {c} : (\E i \in 1..Len(queue) : queue[i] = d)
                                <=> (\E i \in 1..Len(queue') : queue'[i] = d)
    BY <1>1, TailFacts
<1> USE DEF Queue, Mutex, Queued, Stops
<1>3. call'[c] = "done" /\ \A d \in Callers \ {c} : call'[d] = call[d] /\ call[d] # "join"
    BY <1>1
<1>4. \A d \in Callers : call'[d] \in Queued <=> \E i \in 1..Len(queue') : queue'[i] = d
    BY <1>2, <1>3
<1> QED BY <1>2, <1>3, <1>4

(* A handler is dropped while it waits or joins.                           *)
LEMMA DropQueue ==
    ASSUME Queue, NEW c \in Callers, call[c] \in Queued, NEW w \in Stops \ Queued,
           call' = [call EXCEPT ![c] = w], queue' = Without(queue, c)
    PROVE  Queue'
<1>1. /\ queue \in Seq(Callers) /\ (\E i \in 1..Len(queue) : queue[i] = c)
      /\ \A i, j \in 1..Len(queue) : queue[i] = queue[j] => i = j
    BY DEF Queue, Mutex
<1>2. /\ queue' \in Seq(Callers) /\ (queue[1] # c => queue'[1] = queue[1])
      /\ \A i, j \in 1..Len(queue') : queue'[i] = queue'[j] => i = j
      /\ \A i \in 1..Len(queue') : queue'[i] # c
      /\ \A d \in Callers \ {c} : (\E i \in 1..Len(queue) : queue[i] = d)
                                <=> (\E i \in 1..Len(queue') : queue'[i] = d)
  <2>1. Left(queue, c, queue')
      BY <1>1, WithoutFacts
  <2> QED BY <2>1 DEF Left
<1> USE DEF Queue, Mutex, Queued, Stops
<1>3. call'[c] = w /\ \A d \in Callers \ {c} : call'[d] = call[d]
    OBVIOUS
<1>4. \A d \in Callers : call'[d] \in Queued <=> \E i \in 1..Len(queue') : queue'[i] = d
    BY <1>2, <1>3
<1>5. \A d \in Callers : call'[d] = "join" => queue'[1] = d
    BY <1>2, <1>3
<1> QED BY <1>2, <1>4, <1>5

-----------------------------------------------------------------------------
(* The broker starts with nothing running.                                 *)
LEMMA InitInv == Init => Inv
<1> SUFFICES ASSUME Init PROVE Inv
    OBVIOUS
<1> USE BrokerLifecycleAssumption DEF Init
<1>1. TypeOK
  <2>1. token \in BOOLEAN /\ failed \in BOOLEAN /\ signalled \in BOOLEAN
        /\ requested \in BOOLEAN /\ pluginStop \in BOOLEAN /\ told \in BOOLEAN
      OBVIOUS
  <2>2. queue \in Seq(Callers) /\ \A c \in Callers :
           call[c] \in {"lock", "join"} <=> \E i \in 1..Len(queue) : queue[i] = c
      OBVIOUS
  <2> QED BY <2>1, <2>2 DEF TypeOK
<1>2. ReleasedUnlessDetached /\ NoConnectionKilled
    BY DEF ReleasedUnlessDetached, StoppedMeansReleased, NoConnectionKilled
<1>3. Mutex /\ ServeLast /\ ServeReleases /\ OpenServed
    BY DEF Mutex, ServeLast, ServeReleases, OpenServed, Callers
<1> QED BY <1>1, <1>2, <1>3 DEF Inv, DrainRespected

(* The parts of TypeOK that are not about the mutex.                       *)
Plain ==
    /\ stage \in {"boot", "bind", "handoff", "serving", "halting", "cleanup", "exited"}
    /\ token \in BOOLEAN /\ failed \in BOOLEAN
    /\ http \in {"none", "up", "graceful", "down"}
    /\ plugin \in {"none", "up", "down", "failed"}
    /\ signalled \in BOOLEAN /\ requested \in BOOLEAN /\ pluginStop \in BOOLEAN
    /\ proxy \in {"stopped", "started"} /\ told \in BOOLEAN
    /\ worker \in {"none", "accepting", "draining", "aborting", "closing", "done"}
    /\ conn \in [Clients -> {"none", "waiting", "open", "finished", "cancelled",
                             "served", "aborted", "refused", "killed"}]

(* The type invariant and the mutex, taken apart along that line.          *)
LEMMA TypeSplit == TypeOK /\ Mutex <=> Plain /\ Queue
<1>1. ASSUME TypeOK, Mutex PROVE Plain /\ Queue
    BY <1>1 DEF TypeOK, Plain, Queue, Queued, Stops
<1>2. ASSUME Plain, Queue PROVE TypeOK /\ Mutex
    BY <1>2 DEF TypeOK, Plain, Queue, Queued, Stops
<1> QED BY <1>1, <1>2

(* Steps of main and of the two servers that leave the stop calls alone.   *)
LEMMA ServerInv ==
    ASSUME Inv, \/ CreateToken \/ StartProxy \/ Serve \/ StartupFails \/ Sigterm
                \/ HttpGraceful \/ HttpDone \/ PluginEnds \/ PluginFirst \/ ServeReturns
    PROVE  Inv'
<1> USE BrokerLifecycleAssumption
    DEF Inv, DrainRespected, CreateToken, StartProxy, Serve, StartupFails, Sigterm,
        HttpGraceful, HttpDone, PluginEnds, PluginFirst, ServeReturns, stageVars,
        serverVars, stopVars
<1>1. UNCHANGED <<queue, call, conn>>
    OBVIOUS
<1>2. Plain'
  <2>1. /\ token' \in BOOLEAN /\ failed' \in BOOLEAN /\ signalled' \in BOOLEAN
        /\ requested' \in BOOLEAN /\ pluginStop' \in BOOLEAN /\ told' \in BOOLEAN
      BY Zenon DEF TypeOK
  <2>2. /\ stage' \in {"boot", "bind", "handoff", "serving", "halting", "cleanup", "exited"}
        /\ http' \in {"none", "up", "graceful", "down"}
        /\ plugin' \in {"none", "up", "down", "failed"}
        /\ proxy' \in {"stopped", "started"}
        /\ worker' \in {"none", "accepting", "draining", "aborting", "closing", "done"}
      BY DEF TypeOK
  <2> QED BY <1>1, <2>1, <2>2 DEF TypeOK, Plain
<1>3. Queue'
    BY <1>1, TypeSplit DEF Queue, Mutex
<1>4. (Detached' <=> Detached) /\ (failed => failed')
    BY <1>1 DEF Detached
<1>5. worker' = worker \/ (worker' = "accepting" /\ StartProxy)
    OBVIOUS
<1>6. ReleasedUnlessDetached'
    BY <1>1, <1>4 DEF ReleasedUnlessDetached, StoppedMeansReleased
<1>7. NoConnectionKilled'
    BY <1>1, <1>4 DEF NoConnectionKilled
<1>8. ServeLast'
    BY <1>1 DEF ServeLast, TypeOK
<1>9. ServeReleases'
    BY <1>1, <1>4, <1>5 DEF ServeReleases, ServeLast
<1>10. OpenServed'
    BY <1>1, <1>5 DEF OpenServed
<1> QED BY <1>2, <1>3, <1>6, <1>7, <1>8, <1>9, <1>10
        DEF TypeOK, Plain, Queue, Queued, Stops

(* Callers of stop join the queue: serve when both servers have ended, a   *)
(* request while the REST server still accepts.                            *)
LEMMA CallInv ==
    ASSUME Inv, ServersDone \/ \E r \in Requests : ShutdownBroker(r) PROVE Inv'
<1> USE BrokerLifecycleAssumption
    DEF Inv, DrainRespected, ServersDone, ShutdownBroker, stageVars, serverVars
<1>1. PICK c \in Callers :
         /\ call[c] = "idle" /\ call' = [call EXCEPT ![c] = "lock"]
         /\ queue' = Append(queue, c)
         /\ \/ c \in Requests /\ http = "up" /\ stage' = stage
            \/ c = "serve" /\ http = "down" /\ stage' = "halting"
    BY DEF ServeLast, Callers
<1>2. UNCHANGED <<token, failed, http, plugin, signalled, requested, pluginStop, proxy,
                  told, worker, conn>>
    OBVIOUS
<1> HIDE DEF ServersDone, ShutdownBroker
<1>3. Plain'
    BY <1>1, <1>2 DEF TypeOK, Plain
<1>4. Queue'
    BY <1>1, TypeSplit, JoinQueue DEF Queued
<1>5. call'[c] = "lock" /\ \A d \in Callers \ {c} : call'[d] = call[d]
    BY <1>1 DEF TypeOK
<1>6. Detached' <=> Detached
    BY <1>1, <1>5 DEF Detached, Callers
<1>7. ReleasedUnlessDetached' /\ NoConnectionKilled'
    BY <1>1, <1>2, <1>5, <1>6
    DEF ReleasedUnlessDetached, StoppedMeansReleased, NoConnectionKilled
<1>8. ServeLast'
    BY <1>1, <1>2, <1>5 DEF ServeLast, Callers
<1>9. ServeReleases' /\ OpenServed'
    BY <1>1, <1>2, <1>5, <1>6 DEF ServeReleases, OpenServed, Callers
<1> QED BY <1>3, <1>4, <1>7, <1>8, <1>9
        DEF TypeOK, Plain, Queue, Queued, Stops

(* A stop call that finds the proxy stopped, or has seen the worker end,   *)
(* returns; when it is serve's, nobody is left who joins the worker.       *)
LEMMA ReturnInv ==
    ASSUME Inv, NEW c \in Callers, call[c] \in {"lock", "join"}, Head(queue) = c,
           Stopped(c), proxy = "stopped" \/ worker = "done",
           call[c] = "join" => worker = "done",
           UNCHANGED <<stage, token, failed, http, plugin, signalled, pluginStop, proxy,
                       told, worker, conn>>
    PROVE  Inv'
<1> USE BrokerLifecycleAssumption DEF Inv, DrainRespected
<1>1. Plain'
    BY DEF TypeOK, Plain, Stopped
<1>2. Queue'
    BY TypeSplit, ReturnQueue DEF Queued, Stopped
<1>3. call'[c] = "done" /\ \A d \in Callers \ {c} : call'[d] = call[d]
    BY DEF TypeOK, Stopped
<1>4. Detached' <=> Detached
    BY <1>3 DEF Detached, Callers
<1>5. ReleasedUnlessDetached'
    BY <1>3, <1>4 DEF ReleasedUnlessDetached, StoppedMeansReleased
<1>6. NoConnectionKilled' /\ OpenServed'
    BY <1>4 DEF NoConnectionKilled, OpenServed
<1>7. ServeLast'
    BY <1>3 DEF ServeLast, Callers
<1>8. ServeReleases'
  <2> SUFFICES ASSUME c = "serve", ~Detached, worker # "done" PROVE worker = "none"
      BY <1>3, <1>4 DEF ServeReleases, Callers
  <2>1. \A d \in Callers : call[d] # "join"
      BY DEF ServeLast, Callers
  <2> QED BY <2>1 DEF ReleasedUnlessDetached, StoppedMeansReleased
<1> QED BY <1>1, <1>2, <1>5, <1>6, <1>7, <1>8
        DEF TypeOK, Plain, Queue, Queued, Stops

(* The stop call that finds the proxy started keeps the mutex and joins.   *)
LEMMA StopProxyInv ==
    ASSUME Inv, NEW c \in Callers, StopProxy(c) PROVE Inv'
<1> USE BrokerLifecycleAssumption DEF Inv, DrainRespected
<1>1. CASE proxy = "stopped"
    BY <1>1, ReturnInv DEF StopProxy, stageVars
<1>2. CASE proxy # "stopped"
  <2>1. /\ call[c] = "lock" /\ Head(queue) = c
        /\ proxy' = "stopped" /\ told' = TRUE /\ call' = [call EXCEPT ![c] = "join"]
        /\ UNCHANGED <<stage, token, failed, http, plugin, signalled, requested,
                       pluginStop, queue, worker, conn>>
      BY <1>2 DEF StopProxy, stageVars
  <2>2. Plain'
      BY <2>1 DEF TypeOK, Plain
  <2>3. call'[c] = "join" /\ \A d \in Callers \ {c} : call'[d] = call[d]
      BY <2>1 DEF TypeOK
  <2>4. Queue'
    <3>1. Queue /\ queue # <<>> /\ queue[1] = c
        BY <2>1, TypeSplit DEF TypeOK
    <3> QED BY <2>1, <2>3, <3>1 DEF Queue, Mutex, Queued, Stops
  <2>5. Detached' <=> Detached
      BY <2>1, <2>3 DEF Detached, Callers
  <2>6. ReleasedUnlessDetached' /\ NoConnectionKilled' /\ OpenServed'
      BY <2>1, <2>3, <2>5
      DEF ReleasedUnlessDetached, StoppedMeansReleased, NoConnectionKilled, OpenServed
  <2>7. ServeLast' /\ ServeReleases'
      BY <2>1, <2>3, <2>5 DEF ServeLast, ServeReleases, Callers
  <2> QED BY <2>2, <2>4, <2>6, <2>7
        DEF TypeOK, Plain, Queue, Queued, Stops
<1> QED BY <1>1, <1>2

(* The worker it joined has ended.                                         *)
LEMMA StopJoinedInv ==
    ASSUME Inv, NEW c \in Callers, StopJoined(c) PROVE Inv'
<1>1. Head(queue) = c
    BY DEF Inv, DrainRespected, TypeOK, Mutex, StopJoined
<1> QED BY <1>1, ReturnInv DEF StopJoined, stageVars

(* A shutdown client that disconnects leaves the queue or, joining, leaves *)
(* the worker to itself.                                                   *)
LEMMA DisconnectInv ==
    ASSUME Inv, NEW r \in Requests, Disconnect(r) PROVE Inv'
<1> USE BrokerLifecycleAssumption DEF Inv, DrainRespected, Disconnect, stageVars, serverVars
<1>1. r \in Callers /\ call[r] \in Queued
    BY DEF Callers, Queued
<1>2. PICK w \in {"dropped", "detached"} :
         /\ call' = [call EXCEPT ![r] = w]
         /\ call[r] = "join" => w = "detached"
    BY <1>1 DEF TypeOK
<1>3. call'[r] = w /\ \A d \in Callers \ {r} : call'[d] = call[d]
    BY <1>1, <1>2 DEF TypeOK
<1>4. Plain'
    BY DEF TypeOK, Plain
<1>5. Queue'
    BY <1>1, <1>2, TypeSplit, DropQueue DEF Queued, Stops
<1>6. (Detached => Detached') /\ (w = "detached" => Detached')
    BY <1>1, <1>3 DEF Detached, Callers, Queued
<1>7. ReleasedUnlessDetached'
    BY <1>2, <1>3, <1>6 DEF ReleasedUnlessDetached, StoppedMeansReleased
<1>8. NoConnectionKilled' /\ OpenServed'
    BY <1>6 DEF NoConnectionKilled, OpenServed
<1>9. ServeLast' /\ ServeReleases'
    BY <1>1, <1>2, <1>3, <1>6 DEF ServeLast, ServeReleases, Callers
<1> QED BY <1>4, <1>5, <1>7, <1>8, <1>9
        DEF TypeOK, Plain, Queue, Queued, Stops

(* The exit ends what is left: open connections only after a failed start  *)
(* or a detached drain.                                                    *)
LEMMA ExitInv == ASSUME Inv, Exit PROVE Inv'
<1> USE BrokerLifecycleAssumption DEF Inv, DrainRespected, Exit, serverVars, stopVars
<1>1. Plain'
    BY ZenonT(60) DEF TypeOK, Plain
<1>2. Queue'
    BY TypeSplit DEF Queue, Mutex
<1>3. Detached' <=> Detached
    BY DEF Detached
<1>4. ReleasedUnlessDetached'
    BY <1>3 DEF ReleasedUnlessDetached, StoppedMeansReleased
<1>5. NoConnectionKilled'
  <2> SUFFICES ASSUME NEW k \in Clients, conn'[k] = "killed" PROVE failed \/ Detached
      BY <1>3 DEF NoConnectionKilled
  <2>1. CASE conn[k] = "open"
    <3>1. worker \in {"accepting", "draining"}
        BY <2>1 DEF OpenServed
    <3> QED BY <3>1 DEF ServeLast, ServeReleases
  <2>2. CASE conn[k] # "open"
      BY <2>2 DEF NoConnectionKilled
  <2> QED BY <2>1, <2>2
<1>6. ServeLast' /\ ServeReleases'
    BY <1>3 DEF ServeLast, ServeReleases
<1>7. OpenServed'
    BY DEF OpenServed
<1> QED BY <1>1, <1>2, <1>4, <1>5, <1>6, <1>7
        DEF TypeOK, Plain, Queue, Queued, Stops

(* The worker and its connections: it stops serving only when no           *)
(* connection is open.                                                     *)
LEMMA WorkerInv ==
    ASSUME Inv, \/ WorkerTold \/ DrainTimeout \/ Drained \/ IngressShutdown
                \/ \E k \in Clients : Reap(k) \/ Arrive(k) \/ Accept(k) \/ Complete(k)
    PROVE  Inv'
<1> USE BrokerLifecycleAssumption
    DEF Inv, DrainRespected, WorkerTold, DrainTimeout, Drained, IngressShutdown, Reap,
        Arrive, Accept, Complete, stageVars, serverVars, stopVars
<1>1. UNCHANGED <<stage, token, failed, http, plugin, signalled, requested, pluginStop,
                  proxy, queue, call, told>>
    BY Zenon
<1>2. /\ worker' \in {"none", "accepting", "draining", "aborting", "closing", "done"}
      /\ worker \in {"none", "done"} => worker' = worker
    BY DEF TypeOK
<1>3. conn' \in [Clients -> {"none", "waiting", "open", "finished", "cancelled",
                             "served", "aborted", "refused", "killed"}]
    BY DEF TypeOK
<1>4. \A k \in Clients : conn'[k] = "killed" => conn[k] = "killed"
    BY DEF TypeOK
<1>5. OpenServed'
  <2>1. CASE DrainTimeout \/ IngressShutdown \/ WorkerTold
      BY <2>1 DEF OpenServed, TypeOK
  <2>2. CASE Drained
      BY <2>2 DEF OpenServed, JoinSet
  <2>3. CASE \E k \in Clients : Reap(k) \/ Arrive(k) \/ Accept(k) \/ Complete(k)
      BY <2>3 DEF OpenServed, TypeOK
  <2> QED BY <2>1, <2>2, <2>3
<1> HIDE DEF WorkerTold, DrainTimeout, Drained, IngressShutdown, Reap, Arrive, Accept, Complete
<1>6. Plain'
    BY <1>1, <1>2, <1>3 DEF TypeOK, Plain
<1>7. Queue'
    BY <1>1, TypeSplit DEF Queue, Mutex
<1>8. ReleasedUnlessDetached' /\ NoConnectionKilled' /\ ServeLast' /\ ServeReleases'
    BY <1>1, <1>2, <1>4
    DEF ReleasedUnlessDetached, StoppedMeansReleased, NoConnectionKilled, ServeLast,
        ServeReleases, Detached
<1> QED BY <1>5, <1>6, <1>7, <1>8
        DEF TypeOK, Plain, Queue, Queued, Stops

(* Every step keeps the invariant.                                         *)
LEMMA NextInv == Inv /\ [Next]_vars => Inv'
<1> SUFFICES ASSUME Inv, [Next]_vars PROVE Inv'
    OBVIOUS
<1>1. CASE UNCHANGED vars
  <2> USE <1>1 DEF Inv, DrainRespected, vars
  <2>1. TypeOK' /\ Mutex'
      BY DEF TypeOK, Mutex
  <2>2. ReleasedUnlessDetached' /\ NoConnectionKilled' /\ ServeLast' /\ ServeReleases' /\ OpenServed'
      BY DEF ReleasedUnlessDetached, StoppedMeansReleased, NoConnectionKilled, ServeLast,
             ServeReleases, OpenServed, Detached
  <2> QED BY <2>1, <2>2
<1>2. CASE Serving
    BY <1>2, ServerInv, CallInv, ExitInv DEF Serving
<1>3. CASE StartupFails \/ Sigterm \/ PluginEnds
    BY <1>3, ServerInv
<1>4. CASE Worker
    BY <1>4, WorkerInv DEF Worker
<1>5. CASE \E c \in Callers : StopProxy(c) \/ StopJoined(c)
    BY <1>5, StopProxyInv, StopJoinedInv
<1>6. CASE \E r \in Requests : ShutdownBroker(r) \/ Disconnect(r)
    BY <1>6, CallInv, DisconnectInv
<1>7. CASE \E k \in Clients : Arrive(k) \/ Accept(k) \/ Complete(k)
    BY <1>7, WorkerInv
<1> QED BY <1>1, <1>2, <1>3, <1>4, <1>5, <1>6, <1>7 DEF Next

(* The invariant holds in every reachable state.                           *)
THEOREM Invariance == Spec => []Inv
BY InitInv, NextInv, PTL DEF Spec

(* Whoever finds the proxy stopped finds its listener released, and the    *)
(* process never exits under a connection that was not drained, after a    *)
(* successful start and unless a shutdown client left during the drain.    *)
THEOREM DrainAlwaysRespected == Spec => []DrainRespected
<1>1. Inv => DrainRespected
    BY DEF Inv
<1> QED BY <1>1, Invariance, PTL
=============================================================================
