------------------------ MODULE DeliveryWorkerProofs ------------------------
(***************************************************************************)
(* Proofs about DeliveryWorker, for any tokens and any number of events,   *)
(* control requests and starts.                                            *)
(*                                                                         *)
(* None of the properties is inductive by itself.  They rest on mutual     *)
(* exclusion: whoever reads, posts, spools or rewrites is the head of the  *)
(* delivery lock, so the batch of a replay still is the spool when the     *)
(* rewrite comes, a snapshot of the credential is still the installed one  *)
(* when the answer comes, and a live event is behind everything spooled.   *)
(***************************************************************************)
EXTENDS DeliveryWorker, SequenceTheorems, TLAPS

Critical == {"read", "send", "reply", "spool", "rewrite"}

Places == Critical \cup {"down", "off", "wait", "connect", "idle", "exiting"}

Locked(t) == pc[t] \in Critical \cup {"wait"}

Replaying(t) == pc[t] \in {"send", "reply", "rewrite"} /\ op[t] # "deliver"

Delivering ==
    op["worker"] = "deliver" /\ pc["worker"] \in {"wait", "send", "reply", "spool"}

(* The functions of the state are total on the tasks.                      *)
Total ==
    /\ pc \in [Tasks -> Places]
    /\ op \in [Tasks -> {"none", "replay", "deliver", "set", "clear"}]
    /\ posted \in [Tasks -> Nat]

(* Both tasks stand in the queue at most once, and exactly while they need *)
(* the lock; whoever is inside the critical section is first.              *)
Exclusive ==
    /\ \A i, j \in 1..Len(queue) : queue[i] = queue[j] => i = j
    /\ \A t \in Tasks : Locked(t) <=> \E i \in 1..Len(queue) : queue[i] = t
    /\ \A t \in Tasks : pc[t] \in Critical => queue[1] = t

(* What each task does at each place; nothing is handled by a process      *)
(* that is down.                                                           *)
Doing ==
    /\ pc["worker"] \in {"wait", "send", "reply"} => op["worker"] # "none"
    /\ pc["worker"] \in {"read", "rewrite"} => op["worker"] = "replay"
    /\ pc["worker"] = "spool" => op["worker"] = "deliver"
    /\ pc["worker"] = "down" => pc["control"] = "off"
    /\ pc["control"] = "wait" => op["control"] # "none"
    /\ pc["control"] \in Critical => op["control"] = "set"

(* A delivery has the newest event in hand; a replay that posts has        *)
(* something left to post.                                                 *)
InHand ==
    /\ Delivering => hand = taken /\ hand \in Events
    /\ \A t \in Tasks : Replaying(t) /\ pc[t] # "rewrite" => posted[t] < Len(batch[t])

(* The credential of a managed request in flight is the installed one, and *)
(* an installed one has not been refused since.                            *)
Credentials ==
    /\ auth = "configured" => token \in Tokens \ refused
    /\ managed => \A t \in Tasks :
          pc[t] = "reply" => cred[t] = token /\ auth = "configured"

(* Unless a rewrite was left behind, a replay has the whole spool in hand, *)
(* and the destination has what it posted.                                 *)
Replay ==
    "abandoned" \notin faults =>
        /\ late = {}
        /\ \A t \in Tasks : Replaying(t) =>
              /\ batch[t] = spool
              /\ \A i \in 1..posted[t] : stored[batch[t][i]] > 0

(* The spool is in order, behind the events already taken and, while one   *)
(* is being delivered, before it; then it has no line cut short.           *)
Ordered ==
    "abandoned" \notin faults =>
        /\ SpoolOrdered
        /\ \A i \in 1..Len(spool) : spool[i] <= taken /\ (Delivering => spool[i] < hand)
        /\ Delivering \/ pc["worker"] \in {"connect", "idle"} =>
              \A i \in 1..Len(spool) : spool[i] # Torn

(* In a run without faults nothing is ingested before it is taken, the     *)
(* event in hand is not, and a spooled one only while the replay that      *)
(* posted it has yet to rewrite the spool.                                 *)
Single ==
    faults = {} =>
        /\ \A e \in Events : stored[e] <= 1 /\ (e > taken => stored[e] = 0)
        /\ Delivering => stored[hand] = 0
        /\ \A i \in 1..Len(spool) : spool[i] # Torn /\ stored[spool[i]] > 0 =>
              \E t \in Tasks : Replaying(t) /\ i <= posted[t]

Inv ==
    /\ TypeOK /\ Total /\ Exclusive /\ Doing /\ InHand /\ Credentials
    /\ Replay /\ RetainedUnlessAbandoned /\ Ordered /\ Single

-----------------------------------------------------------------------------
(* r is the queue q after t left it: the others keep their places, the    *)
(* head its lead.                                                          *)
Left(q, t, r) ==
    /\ r \in Seq(Tasks) /\ (q[1] # t => r[1] = q[1])
    /\ \A i, j \in 1..Len(r) : r[i] = r[j] => i = j
    /\ \A i \in 1..Len(r) : r[i] # t
    /\ \A u \in Tasks \ {t} :
          (\E i \in 1..Len(q) : q[i] = u) <=> (\E i \in 1..Len(r) : r[i] = u)

(* That is what leaving the queue does.                                    *)
LEMMA WithoutFacts ==
    ASSUME NEW q \in Seq(Tasks), NEW t \in Tasks,
           \E i \in 1..Len(q) : q[i] = t,
           \A i, j \in 1..Len(q) : q[i] = q[j] => i = j
    PROVE  Left(q, t, Without(q, t))
<1> DEFINE r == Without(q, t)
           n == CHOOSE i \in 1..Len(q) : q[i] = t
           f == [j \in 1..(Len(q) - 1) |-> IF j < n THEN q[j] ELSE q[j + 1]]
<1>1. n \in 1..Len(q) /\ q[n] = t
    OBVIOUS
<1>2. Len(q) \in Nat /\ Len(q) - 1 \in Nat
    BY <1>1
<1>3. r = f
    BY DEF Without
<1> HIDE DEF n, r
<1>4. r \in Seq(Tasks) /\ Len(r) = Len(q) - 1
    BY <1>1, <1>2, <1>3
<1>5. q[1] # t => r[1] = q[1]
    BY <1>1, <1>2, <1>3
<1>6. ASSUME NEW i \in 1..Len(r), NEW j \in 1..Len(r), r[i] = r[j] PROVE i = j
    BY <1>1, <1>2, <1>3, <1>4, <1>6
<1>7. ASSUME NEW i \in 1..Len(r) PROVE r[i] # t
    BY <1>1, <1>2, <1>3, <1>4
<1>8. ASSUME NEW u \in Tasks \ {t}, NEW k \in 1..Len(q), q[k] = u
      PROVE  \E i \in 1..Len(r) : r[i] = u
  <2>1. CASE k < n
      BY <1>1, <1>2, <1>3, <1>4, <1>8, <2>1
  <2>2. CASE k > n
    <3>1. k - 1 \in 1..Len(r) /\ r[k - 1] = q[k]
        BY <1>1, <1>2, <1>3, <1>4, <2>2
    <3> QED BY <1>8, <3>1
  <2>3. k # n
      BY <1>1, <1>8
  <2> QED BY <1>1, <2>1, <2>2, <2>3
<1>9. ASSUME NEW u \in Tasks \ {t}, NEW k \in 1..Len(r), r[k] = u
      PROVE  \E i \in 1..Len(q) : q[i] = u
    BY <1>1, <1>2, <1>3, <1>4, <1>9
<1> QED BY <1>4, <1>5, <1>6, <1>7, <1>8, <1>9 DEF r, Left

Queue == queue \in Seq(Tasks) /\ Len(queue) <= 2 /\ Exclusive

(* Two tasks, each at most once: never more than two in the queue.         *)
LEMMA AtMostTwo ==
    ASSUME NEW q \in Seq(Tasks), \A i, j \in 1..Len(q) : q[i] = q[j] => i = j
    PROVE  Len(q) <= 2
<1> SUFFICES ASSUME Len(q) > 2 PROVE FALSE
    OBVIOUS
<1>1. 1 \in 1..Len(q) /\ 2 \in 1..Len(q) /\ 3 \in 1..Len(q)
    OBVIOUS
<1>2. q[1] \in Tasks /\ q[2] \in Tasks /\ q[3] \in Tasks
    BY <1>1
<1> QED BY <1>1, <1>2 DEF Tasks

(* A task that leaves the critical section, or gives up waiting.           *)
LEMMA LeaveQueue ==
    ASSUME Total, Queue, NEW t \in Tasks, Locked(t), NEW w \in Places,
           w \notin Critical \cup {"wait"},
           pc' = [pc EXCEPT ![t] = w], queue' = Without(queue, t)
    PROVE  Queue'
<1>1. /\ queue \in Seq(Tasks) /\ (\E i \in 1..Len(queue) : queue[i] = t)
      /\ \A i, j \in 1..Len(queue) : queue[i] = queue[j] => i = j
    BY DEF Queue, Exclusive
<1>2. Left(queue, t, queue')
    BY <1>1, WithoutFacts
<1> USE DEF Queue, Exclusive, Total
<1>3. ~Locked(t)' /\ \A u \in Tasks \ {t} : pc'[u] = pc[u]
    BY DEF Locked
<1>4. \A u \in Tasks : Locked(u)' <=> \E i \in 1..Len(queue') : queue'[i] = u
    BY <1>2, <1>3 DEF Locked, Left
<1>5. \A u \in Tasks : pc'[u] \in Critical => queue'[1] = u
    BY <1>2, <1>3 DEF Locked, Left
<1>6. Len(queue') <= 2
    BY <1>2, AtMostTwo DEF Left
<1> QED BY <1>2, <1>4, <1>5, <1>6 DEF Left

(* A task that asks for the lock.                                          *)
LEMMA JoinQueue ==
    ASSUME Total, Queue, NEW t \in Tasks, ~Locked(t),
           pc' = [pc EXCEPT ![t] = "wait"], queue' = Append(queue, t)
    PROVE  Queue'
<1> USE DEF Queue, Exclusive, Total
<1>1. /\ queue' \in Seq(Tasks) /\ Len(queue') = Len(queue) + 1 /\ Len(queue) \in Nat
      /\ queue'[Len(queue) + 1] = t
      /\ \A i \in 1..Len(queue) : queue'[i] = queue[i] /\ queue'[i] # t
    OBVIOUS
<1>2. \A i, j \in 1..Len(queue') : queue'[i] = queue'[j] => i = j
    BY <1>1
<1>3. Len(queue') <= 2
    BY <1>1, <1>2, AtMostTwo
<1>4. Locked(t)' /\ pc'[t] \notin Critical /\ \A u \in Tasks \ {t} : pc'[u] = pc[u]
    BY DEF Locked, Critical
<1>5. \A u \in Tasks \ {t} : (\E i \in 1..Len(queue) : queue[i] = u)
                            <=> (\E i \in 1..Len(queue') : queue'[i] = u)
    BY <1>1
<1>6. \A u \in Tasks : Locked(u)' <=> \E i \in 1..Len(queue') : queue'[i] = u
    BY <1>1, <1>4, <1>5 DEF Locked
<1>7. \A u \in Tasks : pc'[u] \in Critical => queue'[1] = u
    BY <1>1, <1>4 DEF Locked
<1> QED BY <1>1, <1>2, <1>3, <1>6, <1>7

(* The holder goes on to another place of its critical section.            *)
LEMMA MoveOn ==
    ASSUME Total, Queue, NEW t \in Tasks, Locked(t), queue[1] = t, NEW w \in Critical,
           pc' = [pc EXCEPT ![t] = w], queue' = queue
    PROVE  Queue'
BY DEF Queue, Exclusive, Total, Locked

(* Steps outside the critical section do not concern the lock.             *)
LEMMA Outside ==
    ASSUME Total, Queue, NEW t \in Tasks, ~Locked(t), NEW w \in Places,
           w \notin Critical \cup {"wait"},
           pc' = [pc EXCEPT ![t] = w], queue' = queue
    PROVE  Queue'
BY DEF Queue, Exclusive, Total, Locked

(* At most one task is in its critical section.                            *)
LEMMA OneInside ==
    ASSUME Exclusive, NEW t \in Tasks, NEW u \in Tasks,
           pc[t] \in Critical, pc[u] \in Critical
    PROVE  t = u
BY DEF Exclusive

-----------------------------------------------------------------------------
(* Nothing has happened yet.                                               *)
LEMMA InitInv == Init => Inv
<1> SUFFICES ASSUME Init PROVE Inv
    OBVIOUS
<1> USE DeliveryWorkerAssumption DEF Init
<1>1. TypeOK
    BY DEF TypeOK, Tasks, Events, Torn
<1>2. Total /\ Doing
    BY DEF Total, Doing, Places, Critical, Tasks
<1>2a. Exclusive
    BY DEF Exclusive, Locked, Critical, Tasks
<1>3. InHand /\ Credentials /\ Replay
    BY DEF InHand, Credentials, Replay, Delivering, Replaying, Tasks
<1>4. RetainedUnlessAbandoned /\ Ordered
    BY DEF RetainedUnlessAbandoned, SettledRetained, Ordered, SpoolOrdered
<1>5. Single
    BY DEF Single, Delivering, Events, Tasks
<1> QED BY <1>1, <1>2, <1>2a, <1>3, <1>4, <1>5 DEF Inv

(* A start only asks for the lock, with no credential installed.           *)
LEMMA StartInv == ASSUME Inv, Start PROVE Inv'
<1> USE DeliveryWorkerAssumption DEF Inv, Start, diskVars, remoteVars, config, Tasks
<1>1. Total'
    BY DEF Total, Places
<1>2. Queue'
    BY JoinQueue DEF Queue, TypeOK, Locked, Critical
<1>3. TypeOK'
    BY <1>2 DEF TypeOK, Total, Queue
<1>4. Doing' /\ Credentials'
    BY DEF Doing, Credentials, TypeOK, Total, Critical
<1>4a. InHand'
    BY DEF InHand, Delivering, Replaying, TypeOK, Total
<1>5. Replay' /\ RetainedUnlessAbandoned'
    BY DEF Replay, Replaying, RetainedUnlessAbandoned, SettledRetained, TypeOK, Total
<1>6. Ordered' /\ Single'
    BY DEF Ordered, SpoolOrdered, Single, Delivering, Replaying, TypeOK, Total
<1> QED BY <1>1, <1>2, <1>3, <1>4, <1>4a, <1>5, <1>6 DEF Queue

(* Connecting, the end of the stream, and the end of the process leave the *)
(* lock, the spool and the destination alone.                              *)
LEMMA WorkerOutsideInv ==
    ASSUME Inv, ConnectBroker \/ StreamEnds \/ UntranslatableEvent \/ Exit
    PROVE  Inv'
<1> USE DeliveryWorkerAssumption
    DEF Inv, ConnectBroker, StreamEnds, UntranslatableEvent, Exit, diskVars, remoteVars,
        authVars, boundVars, config, Tasks
<1>1. PICK w \in {"idle", "exiting", "down"} :
        /\ pc' = [pc EXCEPT !["worker"] = w]
        /\ pc["worker"] \in {"connect", "idle", "exiting"}
        /\ w = "idle" => pc["worker"] = "connect"
        /\ w = "down" => pc["control"] = "off"
    BY SMTT(20)
<1>2. /\ UNCHANGED <<op, batch, posted, cred, queue, auth, token, refused, spool, stored,
                     valid, settled, faults, requests, starts, managed, spooling>>
      /\ late' \in {late, {}} /\ taken' \in 0..MaxEvents /\ taken' >= taken
      /\ hand' \in Events \cup {0}
    BY DEF TypeOK, Events
<1> HIDE DEF ConnectBroker, StreamEnds, UntranslatableEvent, Exit
<1>3. Total'
    BY <1>1, <1>2 DEF Total, Places
<1>4. Queue'
    BY <1>1, <1>2, Outside DEF Queue, TypeOK, Locked, Critical, Places
<1>5. TypeOK'
    BY <1>1, <1>2, <1>4 DEF TypeOK, Total, Queue
<1>6. Doing' /\ Credentials'
    BY <1>1, <1>2 DEF Doing, Credentials, TypeOK, Total, Critical
<1>7. ~Delivering' /\ \A t \in Tasks : Replaying(t)' <=> Replaying(t)
    BY <1>1, <1>2 DEF Delivering, Replaying, Total
<1>8. InHand' /\ Replay' /\ RetainedUnlessAbandoned'
    BY <1>1, <1>2, <1>7
    DEF InHand, Replay, RetainedUnlessAbandoned, SettledRetained, TypeOK, Total
<1>9. Ordered'
  <2> SUFFICES ASSUME "abandoned" \notin faults PROVE Ordered'
      BY <1>2 DEF Ordered
  <2>1. SpoolOrdered'
      BY <1>2 DEF Ordered, SpoolOrdered
  <2>2. ASSUME NEW i \in 1..Len(spool) PROVE spool[i] <= taken'
    <3>1. spool[i] \in Nat /\ taken \in Nat /\ taken' \in Nat
        BY <1>2 DEF TypeOK, Events, Torn
    <3> QED BY <1>2, <3>1 DEF Ordered
  <2>3. pc'["worker"] \in {"connect", "idle"} => \A i \in 1..Len(spool) : spool[i] # Torn
      BY <1>1 DEF Ordered, Total
  <2> QED BY <1>2, <1>7, <2>1, <2>2, <2>3 DEF Ordered
<1>10. Single'
    BY <1>1, <1>2, <1>7 DEF Single, TypeOK, Events
<1> QED BY <1>3, <1>4, <1>5, <1>6, <1>8, <1>9, <1>10 DEF Queue

(* A taken event is newer than anything spooled or ingested.               *)
LEMMA TakeEventInv == ASSUME Inv, TakeEvent PROVE Inv'
<1> USE DeliveryWorkerAssumption
    DEF Inv, TakeEvent, diskVars, remoteVars, authVars, boundVars, config, Tasks
<1>1. Total'
    BY DEF Total, Places
<1>2. Queue'
    BY JoinQueue DEF Queue, TypeOK, Locked, Critical
<1>3. TypeOK'
    BY <1>2 DEF TypeOK, Total, Queue, Events
<1>4. Doing' /\ Credentials'
    BY DEF Doing, Credentials, TypeOK, Total, Critical
<1>5. InHand'
    BY DEF InHand, Delivering, Replaying, TypeOK, Total, Events
<1>6. Replay' /\ RetainedUnlessAbandoned'
    BY DEF Replay, Replaying, RetainedUnlessAbandoned, SettledRetained, TypeOK, Total
<1>7. Ordered'
    BY DEF Ordered, SpoolOrdered, Delivering, TypeOK, Total, Torn, Events
<1>8. Single'
  <2>1. Replaying("worker")' = FALSE /\ Replaying("worker") = FALSE
        /\ (Replaying("control")' <=> Replaying("control"))
      BY DEF Replaying, Total
  <2>2. taken + 1 \in Events /\ taken \in Nat
      BY DEF TypeOK, Events
  <2> QED BY <2>1, <2>2 DEF Single, Events
<1> QED BY <1>1, <1>2, <1>3, <1>4, <1>5, <1>6, <1>7, <1>8 DEF Queue

(* A control request only asks for the lock.                               *)
LEMMA RequestInv == ASSUME Inv, NEW o \in {"set", "clear"}, Request(o) PROVE Inv'
<1> USE DeliveryWorkerAssumption
    DEF Inv, Request, diskVars, remoteVars, authVars, config, Tasks
<1>1. Total'
    BY DEF Total, Places
<1>2. Queue'
    BY JoinQueue DEF Queue, TypeOK, Locked, Critical
<1>3. TypeOK'
    BY <1>2 DEF TypeOK, Total, Queue
<1>4. Doing' /\ Credentials'
    BY DEF Doing, Credentials, TypeOK, Total, Critical
<1>5. (Delivering' <=> Delivering) /\ \A t \in Tasks : Replaying(t)' <=> Replaying(t)
    BY DEF Delivering, Replaying, Total
<1>6. InHand' /\ Replay' /\ RetainedUnlessAbandoned'
    BY <1>5 DEF InHand, Replay, RetainedUnlessAbandoned, SettledRetained, TypeOK, Total
<1>7. Ordered' /\ Single'
    BY <1>5 DEF Ordered, SpoolOrdered, Single, Total
<1> QED BY <1>1, <1>2, <1>3, <1>4, <1>6, <1>7 DEF Queue

(* Begin: the worker has the lock and reads the spool or sends its event.  *)
LEMMA BeginInv == ASSUME Inv, NEW t \in Tasks, Begin(t) PROVE Inv'
<1> USE DeliveryWorkerAssumption
    DEF Inv, Begin, Holds, diskVars, remoteVars, authVars, boundVars, config, Tasks
<1>1. t = "worker" /\ queue[1] = t
    BY DEF TypeOK
<1>2. Total'
    BY DEF Total, Places, Critical
<1>3. Queue'
    BY <1>1, MoveOn DEF Queue, TypeOK, Locked, Critical
<1>4. TypeOK'
    BY <1>1, <1>3 DEF TypeOK, Total, Queue
<1>5. Doing' /\ Credentials'
    BY <1>1 DEF Doing, Credentials, TypeOK, Total, Critical
<1>6. (Delivering' <=> Delivering) /\ \A u \in Tasks : Replaying(u)' <=> Replaying(u)
    BY <1>1 DEF Delivering, Replaying, Total, TypeOK
<1>7. InHand' /\ Replay' /\ RetainedUnlessAbandoned'
    BY <1>1, <1>6 DEF InHand, Replaying, Replay, RetainedUnlessAbandoned, SettledRetained, TypeOK, Total
<1>8. Ordered' /\ Single'
    BY <1>1, <1>6 DEF Ordered, SpoolOrdered, Single, Total, Delivering
<1> QED BY <1>2, <1>3, <1>4, <1>5, <1>7, <1>8 DEF Queue

(* Setting and clearing the credential: nobody else is between a snapshot  *)
(* and its answer.                                                         *)
LEMMA CredentialInv ==
    ASSUME Inv, NEW t \in Tasks, NEW b \in Tokens \cup {NoToken},
           SetCredential(t, b) \/ ClearCredential(t)
    PROVE  Inv'
<1> USE DeliveryWorkerAssumption
    DEF Inv, SetCredential, ClearCredential, Leave, Holds, diskVars, remoteVars, authVars,
        boundVars, config, Tasks
<1>1. t = "control" /\ queue[1] = t /\ pc["control"] = "wait"
      /\ op["control"] \in {"set", "clear"}
    BY DEF TypeOK
<1>2. PICK w \in {"off", "read"} :
         /\ pc' = [pc EXCEPT !["control"] = w]
         /\ w = "off" => queue' = Without(queue, "control")
         /\ w = "read" => queue' = queue /\ op["control"] = "set"
    BY <1>1
<1>3. UNCHANGED <<op, batch, posted, cred, hand, spool, late, stored, valid, taken,
                  settled, faults, requests, starts, managed, spooling>>
    OBVIOUS
<1>4. /\ auth' \in {"missing", "configured", "auth_required"}
      /\ token' \in Tokens \cup {NoToken} /\ refused' \subseteq Tokens \cup {NoToken}
      /\ auth' = "configured" => token' \in Tokens \ refused'
    BY DEF TypeOK, Credentials
<1> HIDE DEF SetCredential, ClearCredential
<1>5. Total'
    BY <1>2, <1>3 DEF Total, Places, Critical
<1>6. Queue' BY <1>1, <1>2, LeaveQueue, MoveOn DEF Queue, TypeOK, Locked, Critical, Places
<1>7. TypeOK'
    BY <1>2, <1>3, <1>4, <1>6 DEF TypeOK, Total, Queue
<1>8. Doing'
    BY <1>1, <1>2, <1>3 DEF Doing, TypeOK, Total, Critical
<1>9. pc'["worker"] = pc["worker"] /\ pc["worker"] \notin Critical
    BY <1>1, <1>2 DEF Exclusive, Total
<1>10. Credentials'
    BY <1>2, <1>3, <1>4, <1>9 DEF Credentials, Total, Critical
<1>11. (Delivering' <=> Delivering) /\ \A u \in Tasks : Replaying(u)' <=> Replaying(u)
    BY <1>1, <1>2, <1>3 DEF Delivering, Replaying, Total
<1>12. InHand' /\ Replay' /\ RetainedUnlessAbandoned'
    BY <1>2, <1>3, <1>11
    DEF InHand, Replaying, Replay, RetainedUnlessAbandoned, SettledRetained, TypeOK, Total
<1>13. Ordered' /\ Single'
    BY <1>2, <1>3, <1>11 DEF Ordered, SpoolOrdered, Single, Total
<1> QED BY <1>5, <1>6, <1>7, <1>8, <1>10, <1>12, <1>13 DEF Queue

(* A rewrite left behind has been recorded as such.                        *)
LEMMA LateRewriteInv == ASSUME Inv, LateRewrite PROVE Inv'
<1> USE DEF Inv, LateRewrite, remoteVars, authVars, boundVars, config
<1>1. "abandoned" \in faults
    BY DEF Replay
<1>2. TypeOK' /\ Total' /\ Exclusive'
    BY DEF TypeOK, Total, Exclusive, Locked, Torn
<1>3. Doing' /\ InHand' /\ Credentials'
    BY DEF Doing, InHand, Credentials, Delivering, Replaying
<1> QED BY <1>1, <1>2, <1>3 DEF Replay, RetainedUnlessAbandoned, Ordered, Single

(* The destination forgets a credential.                                   *)
LEMMA RevokeInv == ASSUME Inv, Revoke PROVE Inv'
<1> USE DEF Inv, Revoke, diskVars, authVars, boundVars, config
<1>1. TypeOK' /\ Total' /\ Exclusive'
    BY SMTT(40) DEF TypeOK, Total, Exclusive, Locked
<1>2. Doing' /\ InHand' /\ Credentials'
    BY DEF Doing, InHand, Credentials, Delivering, Replaying
<1> QED BY <1>1, <1>2
        DEF Replay, Replaying, RetainedUnlessAbandoned, SettledRetained, Ordered,
            SpoolOrdered, Single, Delivering

-----------------------------------------------------------------------------
(* What an ingestion does to the destination's counts.                     *)
LEMMA IngestedFacts ==
    ASSUME TypeOK, NEW e \in Events
    PROVE  /\ Ingested(e) \in [Events -> 0..2]
           /\ \A d \in Events : Ingested(e)[d] >= stored[d]
           /\ Ingested(e)[e] > 0 /\ (stored[e] = 0 => Ingested(e)[e] = 1)
           /\ \A d \in Events \ {e} : Ingested(e)[d] = stored[d]
<1>1. stored \in [Events -> 0..2]
    BY DEF TypeOK
<1> QED BY <1>1 DEF Ingested

(* What has been ingested stays ingested.                                  *)
LEMMA StaysIngested ==
    ASSUME TypeOK, NEW s \in [Events -> 0..2], \A d \in Events : s[d] >= stored[d],
           NEW d \in Events, stored[d] > 0
    PROVE  s[d] > 0
<1>1. stored[d] \in 0..2 /\ s[d] \in 0..2 /\ s[d] >= stored[d]
    BY DEF TypeOK
<1> QED BY <1>1

(* A request in flight is about an event.                                  *)
LEMMA InFlight ==
    ASSUME Inv, NEW t \in Tasks, pc[t] = "reply"
    PROVE  /\ InFlightEvent(t) \in Events
           /\ op[t] = "deliver" => t = "worker" /\ Delivering /\ InFlightEvent(t) = hand
           /\ op[t] # "deliver" =>
                 /\ Replaying(t) /\ posted[t] + 1 \in 1..Len(batch[t])
                 /\ InFlightEvent(t) = batch[t][posted[t] + 1]
<1> USE DEF Inv
<1>1. CASE op[t] = "deliver" BY <1>1 DEF TypeOK, Tasks, InFlightEvent, InHand, Delivering
<1>2. CASE op[t] # "deliver"
  <2>1. Replaying(t)
      BY <1>2 DEF Replaying
  <2>2. batch[t] \in Seq(Events) /\ Len(batch[t]) \in Nat /\ posted[t] \in Nat
      BY DEF TypeOK, Total
  <2>3. posted[t] + 1 \in 1..Len(batch[t])
      BY <2>1, <2>2 DEF InHand
  <2>4. batch[t][posted[t] + 1] \in Events
      BY <2>2, <2>3
  <2> QED BY <1>2, <2>1, <2>3, <2>4 DEF InFlightEvent
<1> QED BY <1>1, <1>2

(* A request cut off may or may not be ingested, nothing else.             *)
LEMMA MayStoreFacts ==
    ASSUME Inv, NEW t \in Tasks, NEW s \in MayStore(t)
    PROVE  s \in [Events -> 0..2] /\ \A d \in Events : s[d] >= stored[d]
<1>1. stored \in [Events -> 0..2]
    BY DEF Inv, TypeOK
<1>2. \A d \in Events : stored[d] >= stored[d]
    BY <1>1
<1>3. CASE s = stored
    BY <1>1, <1>2, <1>3
<1>4. CASE pc[t] = "reply" /\ s = Ingested(InFlightEvent(t))
    BY <1>4, InFlight, IngestedFacts DEF Inv
<1> QED BY <1>3, <1>4 DEF MayStore

(* After a failed post a live event is spooled or dropped, a replay keeps  *)
(* what it has not posted.                                                 *)
LEMMA PostFailedFacts ==
    ASSUME Inv, NEW t \in Tasks, pc[t] \in {"send", "reply"}, PostFailed(t)
    PROVE  /\ Queue'
           /\ \E w \in {"spool", "exiting", "rewrite"} :
                 /\ pc' = [pc EXCEPT ![t] = w]
                 /\ w = "rewrite" => op[t] # "deliver"
                 /\ w # "rewrite" => op[t] = "deliver" /\ t = "worker"
<1> USE DEF Inv
<1>1. Queue /\ Locked(t) /\ queue[1] = t
    BY DEF Queue, TypeOK, Exclusive, Locked, Critical
<1>2. op[t] = "deliver" => t = "worker"
    BY DEF TypeOK, Tasks
<1>3. CASE op[t] = "deliver" /\ spooling BY <1>1, <1>2, <1>3, MoveOn DEF PostFailed, Critical
<1>4. CASE op[t] = "deliver" /\ ~spooling BY <1>1, <1>2, <1>4, LeaveQueue DEF PostFailed, Leave, Critical, Places
<1>5. CASE op[t] # "deliver" BY <1>1, <1>5, MoveOn DEF PostFailed, Critical
<1> QED BY <1>3, <1>4, <1>5

(* Failed posts: no usable credential, a 401, another error, or an answer  *)
(* that was lost after the destination had ingested the event.             *)
LEMMA FailedInv ==
    ASSUME Inv, NEW t \in Tasks, pc[t] \in {"send", "reply"}, PostFailed(t),
           UNCHANGED <<op, batch, posted, cred, hand, spool, late, valid, taken, settled,
                       requests, starts, managed, spooling>>,
           \/ UNCHANGED <<auth, token, refused>>
           \/ pc[t] = "reply" /\ MarkUnauthorized(t),
           \/ UNCHANGED <<stored, faults>>
           \/ /\ pc[t] = "reply" /\ Ingest(t)
              /\ faults' = faults \cup {"resend"}
    PROVE  Inv'
<1> USE DeliveryWorkerAssumption DEF Inv, Tasks
<1>1. PICK w \in {"spool", "exiting", "rewrite"} :
         /\ pc' = [pc EXCEPT ![t] = w]
         /\ w = "rewrite" => op[t] # "deliver"
         /\ w # "rewrite" => op[t] = "deliver" /\ t = "worker"
    BY PostFailedFacts
<1>2. Queue'
    BY PostFailedFacts
<1>3. \A u \in Tasks \ {t} : pc[u] \notin Critical /\ pc'[u] = pc[u]
    BY <1>1, OneInside DEF Critical, Total
<1>4. pc'[t] = w
    BY <1>1 DEF Total
<1>5. /\ stored' \in [Events -> 0..2] /\ \A d \in Events : stored'[d] >= stored[d]
      /\ faults' = {} => stored' = stored
      /\ ("abandoned" \in faults' <=> "abandoned" \in faults)
      /\ faults' \subseteq {"resend", "abandoned"} /\ faults \subseteq faults'
  <2>1. CASE UNCHANGED <<stored, faults>>
    <3>1. stored \in [Events -> 0..2] /\ \A d \in Events : stored[d] >= stored[d]
        BY DEF TypeOK
    <3> QED BY <2>1, <3>1 DEF TypeOK
  <2>2. CASE pc[t] = "reply" /\ Ingest(t) /\ faults' = faults \cup {"resend"}
    BY <2>2, InFlight, IngestedFacts DEF Ingest, TypeOK
  <2> QED BY <2>1, <2>2
<1>6. /\ auth' \in {"missing", "configured", "auth_required"}
      /\ token' \in Tokens \cup {NoToken} /\ refused' \subseteq Tokens \cup {NoToken}
      /\ auth' = "configured" => token' \in Tokens \ refused'
    BY DEF TypeOK, Credentials, MarkUnauthorized, authVars
<1>7. Total'
    BY <1>1 DEF Total, Places, Critical
<1>8. TypeOK' BY <1>1, <1>2, <1>3, <1>4, <1>5, <1>6 DEF TypeOK, Queue
<1>9. Doing'
    BY <1>1, <1>3, <1>4 DEF Doing, TypeOK, Total, Critical
<1>10. Credentials'
    BY <1>1, <1>3, <1>4, <1>6 DEF Credentials, Critical
<1>11. \A u \in Tasks : Replaying(u)' <=> Replaying(u)
    BY <1>1, <1>3, <1>4 DEF Replaying
<1>12. Delivering' => Delivering
    BY <1>1, <1>3, <1>4 DEF Delivering
<1>13. InHand'
    BY <1>1, <1>3, <1>4, <1>11, <1>12 DEF InHand, Replaying
<1>14. Replay'
  <2> SUFFICES ASSUME "abandoned" \notin faults, NEW u \in Tasks, Replaying(u)
               PROVE  batch[u] = spool /\ \A i \in 1..posted[u] : stored'[batch[u][i]] > 0
      BY <1>5, <1>11 DEF Replay
  <2>1. batch[u] = spool /\ \A i \in 1..posted[u] : stored[batch[u][i]] > 0
      BY DEF Replay
  <2>2. batch[u] \in Seq(Events) /\ posted[u] \in 0..Len(batch[u])
      BY DEF TypeOK
  <2>3. \A i \in 1..posted[u] : batch[u][i] \in Events
      BY <2>2
  <2> QED BY <1>5, <2>1, <2>3, StaysIngested
<1>15. RetainedUnlessAbandoned' BY <1>5, StaysIngested DEF TypeOK, RetainedUnlessAbandoned, SettledRetained
<1>16. Ordered'
    BY <1>1, <1>3, <1>4, <1>5, <1>12 DEF Ordered, SpoolOrdered
<1>17. Single'
    BY <1>5, <1>11, <1>12 DEF Single, TypeOK
<1> QED BY <1>2, <1>7, <1>8, <1>9, <1>10, <1>13, <1>14, <1>15, <1>16, <1>17 DEF Queue

(* A post takes the credential installed at that moment.                   *)
LEMMA SendInv == ASSUME Inv, NEW t \in Tasks, Send(t) PROVE Inv'
<1> USE DeliveryWorkerAssumption
    DEF Inv, Tasks, diskVars, remoteVars, authVars, boundVars, config
<1>1. CASE managed /\ auth # "configured"
    BY <1>1, FailedInv DEF Send
<1>2. CASE ~(managed /\ auth # "configured")
  <2>1. /\ pc[t] = "send" /\ pc' = [pc EXCEPT ![t] = "reply"]
        /\ cred' = [cred EXCEPT ![t] = token]
        /\ UNCHANGED <<op, batch, posted, hand, queue, auth, token, refused, spool, late,
                       stored, valid, taken, settled, faults, requests, starts, managed,
                       spooling>>
      BY <1>2 DEF Send
  <2>2. \A u \in Tasks \ {t} : pc[u] \notin Critical /\ pc'[u] = pc[u]
      BY <2>1, OneInside DEF Critical, Total
  <2>3. Queue' BY <2>1, MoveOn DEF Queue, TypeOK, Exclusive, Locked, Critical
  <2>4. Total' /\ TypeOK'
      BY <2>1, <2>3 DEF Total, Places, Critical, TypeOK, Queue
  <2>5. Doing'
      BY <2>1 DEF Doing, TypeOK, Total, Critical
  <2>6. Credentials'
      BY <1>2, <2>1, <2>2 DEF Credentials, Critical, TypeOK, Total
  <2>7. (Delivering' <=> Delivering) /\ \A u \in Tasks : Replaying(u)' <=> Replaying(u)
      BY <2>1 DEF Delivering, Replaying, Total
  <2>8. InHand' /\ Replay' /\ RetainedUnlessAbandoned'
      BY <2>1, <2>7
      DEF InHand, Replaying, Replay, RetainedUnlessAbandoned, SettledRetained, Total
  <2>9. Ordered' /\ Single'
      BY <2>1, <2>7 DEF Ordered, SpoolOrdered, Single, Total, Delivering
  <2> QED BY <2>3, <2>4, <2>5, <2>6, <2>8, <2>9 DEF Queue
<1> QED BY <1>1, <1>2

(* A live event accepted by the destination: it is not in the spool.       *)
LEMMA DeliveredInv ==
    ASSUME Inv, NEW t \in Tasks, ReplyOk(t), op[t] = "deliver" PROVE Inv'
<1> USE DeliveryWorkerAssumption DEF Inv, Tasks
<1>1. pc[t] = "reply" /\ t = "worker" /\ Delivering /\ hand = taken /\ hand \in Events
    BY InFlight DEF ReplyOk, InHand
<1>2. /\ stored' = Ingested(hand) /\ settled' = settled \cup {hand}
      /\ pc' = [pc EXCEPT !["worker"] = "idle"] /\ queue' = Without(queue, "worker")
      /\ UNCHANGED <<op, batch, posted, cred, hand, auth, token, refused, spool, late,
                     valid, taken, faults, requests, starts, managed, spooling>>
    BY <1>1 DEF ReplyOk, Ingest, InFlightEvent, PostDone, Leave, diskVars, authVars,
                boundVars, config
<1>3. /\ stored' \in [Events -> 0..2] /\ \A d \in Events : stored'[d] >= stored[d]
      /\ stored'[hand] > 0 /\ (stored[hand] = 0 => stored'[hand] = 1)
      /\ \A d \in Events \ {hand} : stored'[d] = stored[d]
    BY <1>1, <1>2, IngestedFacts
<1>4. pc["control"] \notin Critical /\ pc'["control"] = pc["control"] /\ pc'["worker"] = "idle"
    BY <1>1, <1>2, OneInside DEF Critical, Total
<1>5. Queue' BY <1>1, <1>2, LeaveQueue DEF Queue, TypeOK, Locked, Critical, Places
<1>6. Total'
    BY <1>2 DEF Total, Places
<1>7. TypeOK'
    BY <1>1, <1>2, <1>3, <1>4, <1>5 DEF TypeOK, Queue
<1>8. Doing' /\ Credentials'
    BY <1>2, <1>4 DEF Doing, Credentials, Critical
<1>9. ~Delivering' /\ \A u \in Tasks : ~Replaying(u) /\ ~Replaying(u)'
    BY <1>1, <1>2, <1>4 DEF Delivering, Replaying, Critical
<1>10. InHand' /\ Replay'
    BY <1>2, <1>9 DEF InHand, Replay
<1>11. RetainedUnlessAbandoned' BY <1>2, <1>3, StaysIngested DEF TypeOK, RetainedUnlessAbandoned, SettledRetained
<1>12. Ordered'
    BY <1>1, <1>2, <1>4, <1>9 DEF Ordered, SpoolOrdered
<1>13. Single'
  <2> SUFFICES ASSUME faults = {} PROVE Single'
      BY <1>2 DEF Single
  <2>1. \A e \in Events : stored'[e] <= 1 /\ (e > taken => stored'[e] = 0)
      BY <1>1, <1>3 DEF Single, Events
  <2>2. ASSUME NEW i \in 1..Len(spool), spool[i] # Torn PROVE stored'[spool[i]] = 0
    <3>1. spool[i] \in Events /\ spool[i] < hand
        BY <1>1, <2>2 DEF TypeOK, Ordered
    <3>2. stored'[spool[i]] = stored[spool[i]] /\ stored[spool[i]] \in 0..2
        BY <1>1, <1>3, <3>1 DEF TypeOK, Events
    <3> QED BY <1>9, <2>2, <3>2 DEF Single
  <2> QED BY <1>2, <1>9, <2>1, <2>2 DEF Single
<1> QED BY <1>5, <1>6, <1>7, <1>8, <1>10, <1>11, <1>12, <1>13 DEF Queue

(* A spooled event accepted by the destination: the replay goes on.        *)
LEMMA ReplayedInv ==
    ASSUME Inv, NEW t \in Tasks, ReplyOk(t), op[t] # "deliver" PROVE Inv'
<1> USE DeliveryWorkerAssumption DEF Inv
<1> DEFINE k == posted[t] + 1
           e == batch[t][k]
<1>1. pc[t] = "reply" /\ Replaying(t) /\ k \in 1..Len(batch[t]) /\ e \in Events
      /\ InFlightEvent(t) = e
    BY InFlight DEF ReplyOk
<1>2. PICK w \in {"rewrite", "send"} :
         /\ pc' = [pc EXCEPT ![t] = w]
         /\ w = "send" => k # Len(batch[t])
    BY DEF ReplyOk, PostDone
<1>3. /\ stored' = Ingested(e) /\ posted' = [posted EXCEPT ![t] = k]
      /\ UNCHANGED <<op, batch, cred, hand, queue, auth, token, refused, spool, late,
                     valid, taken, settled, faults, requests, starts, managed, spooling>>
    BY <1>1 DEF ReplyOk, Ingest, PostDone, diskVars, authVars, boundVars, config
<1>4. /\ stored' \in [Events -> 0..2] /\ \A d \in Events : stored'[d] >= stored[d]
      /\ stored'[e] > 0 /\ (stored[e] = 0 => stored'[e] = 1)
      /\ \A d \in Events \ {e} : stored'[d] = stored[d]
    BY <1>1, <1>3, IngestedFacts
<1>5. pc'[t] = w /\ \A u \in Tasks \ {t} : pc[u] \notin Critical /\ pc'[u] = pc[u]
    BY <1>1, <1>2, OneInside DEF Critical, Total
<1>6. /\ posted'[t] = k /\ posted'[t] \in 0..Len(batch[t]) /\ k \in Nat
      /\ posted[t] \in Nat /\ Len(batch[t]) \in Nat
      /\ \A u \in Tasks \ {t} : posted'[u] = posted[u]
    BY <1>1, <1>3 DEF Total, TypeOK
<1>7. Queue' BY <1>1, <1>2, <1>3, MoveOn DEF Queue, TypeOK, Exclusive, Locked, Critical
<1>8. Total'
    BY <1>2, <1>3, <1>6 DEF Total, Places, Critical
<1>9. TypeOK' BY <1>2, <1>3, <1>4, <1>5, <1>6, <1>7 DEF TypeOK, Tasks, Queue
<1>10. Doing'
    BY <1>1, <1>2, <1>3, <1>5 DEF Doing, TypeOK, Critical, Tasks
<1>11. Credentials'
    BY <1>2, <1>3, <1>5 DEF Credentials, Critical
<1>12. (Delivering' <=> Delivering) /\ \A u \in Tasks : Replaying(u)' <=> Replaying(u)
    BY <1>1, <1>2, <1>3, <1>5 DEF Delivering, Replaying, Tasks, TypeOK
<1>13. InHand' BY <1>1, <1>2, <1>3, <1>5, <1>6, <1>12 DEF InHand
<1>14. Replay'
  <2> SUFFICES ASSUME "abandoned" \notin faults, NEW u \in Tasks, Replaying(u)
               PROVE  batch[u] = spool /\ \A i \in 1..posted'[u] : stored'[batch[u][i]] > 0
      BY <1>3, <1>12 DEF Replay
  <2>1. u = t
      BY <1>5 DEF Replaying, Critical
  <2>2. batch[t] = spool /\ \A i \in 1..posted[t] : stored[batch[t][i]] > 0
      BY <2>1 DEF Replay
  <2>3. ASSUME NEW i \in 1..k PROVE stored'[batch[t][i]] > 0
    <3>1. batch[t][i] \in Events
        BY <1>1, <1>6 DEF TypeOK
    <3>2. i = k \/ i \in 1..posted[t]
        BY <1>6
    <3> QED BY <1>4, <2>2, <3>1, <3>2, StaysIngested
  <2> QED BY <1>6, <2>1, <2>2, <2>3
<1>15. RetainedUnlessAbandoned' BY <1>3, <1>4, StaysIngested DEF TypeOK, RetainedUnlessAbandoned, SettledRetained
<1>16. Ordered'
    BY <1>1, <1>2, <1>3, <1>5, <1>12 DEF Ordered, SpoolOrdered, Tasks
<1>17. Single'
  <2> SUFFICES ASSUME faults = {} PROVE Single'
      BY <1>3 DEF Single
  <2>1. batch[t] = spool
      BY <1>1 DEF Replay
  <2>2. k \in 1..Len(spool) /\ e = spool[k] /\ e # Torn
      BY <1>1, <2>1 DEF Torn, Events
  <2>3. stored[e] = 0
    <3>a. \A d \in Events : stored[d] \in 0..2
        BY DEF TypeOK
    <3>b. ~(stored[e] > 0) => stored[e] = 0
        BY <1>1, <3>a
    <3> SUFFICES ASSUME stored[e] > 0 PROVE FALSE
        BY <3>b
    <3>1. PICK u \in Tasks : Replaying(u) /\ k <= posted[u]
        BY <2>2 DEF Single
    <3>2. u = t
        BY <1>5, <3>1 DEF Replaying, Critical
    <3> QED BY <1>6, <3>1, <3>2
  <2>4. e <= taken /\ (Delivering => e < hand)
      BY <2>2 DEF Ordered
  <2>5. \A d \in Events : stored'[d] <= 1 /\ (d > taken => stored'[d] = 0)
      BY <1>4, <2>3, <2>4, <1>1, SMTT(40) DEF Single, Events, TypeOK
  <2>6. Delivering => stored'[hand] = 0
      BY <1>1, <1>4, <2>4 DEF Single, InHand, Events
  <2>7. ASSUME NEW i \in 1..Len(spool), spool[i] # Torn, stored'[spool[i]] > 0
        PROVE  \E u \in Tasks : Replaying(u) /\ i <= posted'[u]
    <3>1. spool[i] \in Events
        BY <2>7 DEF TypeOK
    <3>2. CASE spool[i] = e BY <1>1, <1>6, <2>2, <3>1, <3>2 DEF Ordered, SpoolOrdered, Events
    <3>3. CASE spool[i] # e BY <1>1, <1>4, <1>5, <1>6, <2>7, <3>1, <3>3 DEF Single, Replaying, Critical
    <3> QED BY <3>2, <3>3
  <2> QED BY <1>3, <1>12, <2>5, <2>6, <2>7 DEF Single
<1> QED BY <1>3, <1>7, <1>8, <1>9, <1>10, <1>11, <1>13, <1>14, <1>15, <1>16, <1>17 DEF Queue

-----------------------------------------------------------------------------
(* The lines of a file are those at its positions.                         *)
LEMMA Lines ==
    ASSUME NEW S, NEW s \in Seq(S), NEW e
    PROVE  e \in Range(s) <=> \E i \in 1..Len(s) : s[i] = e
BY DEF Range

(* Reading the spool: a replay starts with all of it in hand and nothing   *)
(* posted.                                                                 *)
LEMMA ReadSpoolInv == ASSUME Inv, NEW t \in Tasks, ReadSpool(t) PROVE Inv'
<1> USE DeliveryWorkerAssumption DEF Inv
<1>1. /\ pc[t] = "read" /\ op[t] # "deliver"
      /\ UNCHANGED <<op, cred, hand, auth, token, refused, spool, late, stored, valid,
                     taken, settled, faults, requests, starts, managed, spooling>>
    BY DEF ReadSpool, Doing, Tasks, Critical, diskVars, authVars, remoteVars, boundVars, config
<1>2. Queue /\ Locked(t) /\ queue[1] = t
    BY <1>1 DEF Queue, TypeOK, Exclusive, Locked, Critical
<1>3. \A u \in Tasks \ {t} : pc[u] \notin Critical
    BY <1>1, OneInside DEF Critical
<1>4. CASE /\ \/ Leave(t, "exiting")
              \/ Leave(t, "connect") /\ spool = <<>>
           /\ UNCHANGED <<batch, posted>>
  <2>1. PICK w \in {"exiting", "connect", "off"} :
           /\ pc' = [pc EXCEPT ![t] = w] /\ queue' = Without(queue, t)
           /\ w = "connect" => spool = <<>>
           /\ IF t = "worker" THEN w # "off" ELSE w = "off"
      BY <1>4 DEF Leave
  <2>2. pc'[t] = w /\ \A u \in Tasks \ {t} : pc'[u] = pc[u]
      BY <2>1 DEF Total
  <2>3. Queue'
      BY <1>2, <2>1, LeaveQueue DEF Critical, Places
  <2>4. Total'
      BY <1>1, <1>4, <2>1 DEF Total, Places
  <2>5. TypeOK' BY <1>1, <1>4, <2>1, <2>2, <2>3 DEF TypeOK, Tasks, Queue
  <2>6. Doing' /\ Credentials'
      BY <1>1, <1>3, <2>1, <2>2 DEF Doing, Credentials, Critical, Tasks
  <2>7. \A u \in Tasks : ~Replaying(u) /\ ~Replaying(u)'
      BY <1>1, <1>3, <2>1, <2>2 DEF Replaying, Critical
  <2>8. Delivering' <=> Delivering
      BY <1>1, <2>1, <2>2 DEF Delivering, Tasks
  <2>9. InHand' /\ Replay' /\ RetainedUnlessAbandoned'
      BY <1>1, <2>7, <2>8 DEF InHand, Replay, RetainedUnlessAbandoned, SettledRetained
  <2>10. Ordered'
      BY <1>1, <2>1, <2>2, <2>8 DEF Ordered, SpoolOrdered, Tasks
  <2>11. Single'
      BY <1>1, <2>7, <2>8 DEF Single
  <2> QED BY <2>3, <2>4, <2>5, <2>6, <2>9, <2>10, <2>11 DEF Queue
<1>5. CASE /\ spool # <<>> /\ Torn \notin Range(spool)
           /\ batch' = [batch EXCEPT ![t] = spool]
           /\ posted' = [posted EXCEPT ![t] = 0]
           /\ pc' = [pc EXCEPT ![t] = "send"]
           /\ queue' = queue
  <2>1. pc'[t] = "send" /\ \A u \in Tasks \ {t} : pc'[u] = pc[u]
      BY <1>5 DEF Total
  <2>2. spool \in Seq(Events) /\ Len(spool) \in Nat /\ Len(spool) > 0 BY <1>5 DEF TypeOK, Range
  <2>3. Queue'
      BY <1>2, <1>5, MoveOn DEF Critical
  <2>4. /\ batch' \in [Tasks -> Seq(Events)] /\ batch'[t] = spool /\ posted'[t] = 0
        /\ \A u \in Tasks \ {t} : batch'[u] = batch[u] /\ posted'[u] = posted[u]
      BY <1>5, <2>2 DEF TypeOK, Total
  <2>5. Total'
      BY <1>1, <1>5 DEF Total, Places, Critical
  <2>6. TypeOK'
    <3>1. /\ pc'["worker"] \in {"down", "wait", "connect", "idle", "read", "send",
                                "reply", "spool", "rewrite", "exiting"}
          /\ pc'["control"] \in {"off", "wait", "read", "send", "reply", "rewrite"}
        BY <2>1 DEF TypeOK, Tasks
    <3>2. \A u \in Tasks : posted'[u] \in 0..Len(batch'[u])
      <4>1. posted'[t] \in 0..Len(batch'[t])
          BY <2>2, <2>4
      <4>2. \A u \in Tasks \ {t} : posted'[u] \in 0..Len(batch'[u])
          BY <2>4 DEF TypeOK
      <4> QED BY <4>1, <4>2
    <3> QED BY <1>1, <2>3, <2>4, <3>1, <3>2 DEF TypeOK, Queue
  <2>7. Doing' /\ Credentials'
      BY <1>1, <1>3, <2>1 DEF Doing, Credentials, Critical, Tasks, TypeOK
  <2>8. /\ \A u \in Tasks : ~Replaying(u)
        /\ Replaying(t)' /\ \A u \in Tasks \ {t} : ~Replaying(u)'
      BY <1>1, <1>3, <2>1 DEF Replaying, Critical
  <2>9. Delivering' <=> Delivering
      BY <1>1, <2>1 DEF Delivering, Tasks
  <2>10. InHand'
      BY <1>1, <2>2, <2>4, <2>8, <2>9 DEF InHand
  <2>11. Replay' /\ RetainedUnlessAbandoned'
      BY <1>1, <2>4, <2>8 DEF Replay, RetainedUnlessAbandoned, SettledRetained
  <2>12. Ordered'
      BY <1>1, <2>1, <2>9 DEF Ordered, SpoolOrdered, Tasks
  <2>13. Single'
      BY <1>1, <2>8, <2>9 DEF Single
  <2> QED BY <2>3, <2>5, <2>6, <2>7, <2>10, <2>11, <2>12, <2>13 DEF Queue
<1> QED BY <1>4, <1>5 DEF ReadSpool

(* Appending to the spool: the event goes behind everything there, or the  *)
(* append fails and perhaps leaves a line cut short.                       *)
LEMMA SpoolInv ==
    ASSUME Inv, NEW t \in Tasks, Spool(t) \/ SpoolFails(t) PROVE Inv'
<1> USE DeliveryWorkerAssumption DEF Inv
<1>1. /\ pc[t] = "spool" /\ t = "worker" /\ op[t] = "deliver"
      /\ Delivering /\ hand = taken /\ hand \in Events /\ hand \in Nat
    BY DEF Spool, SpoolFails, Doing, Tasks, TypeOK, Delivering, InHand, Events
<1>2. PICK l \in {hand, Torn}, w \in {"idle", "exiting"} :
         /\ pc' = [pc EXCEPT !["worker"] = w] /\ queue' = Without(queue, "worker")
         /\ spool' = spool \/ spool' = Append(spool, l)
         /\ \/ settled' = settled
            \/ settled' = settled \cup {hand} /\ spool' = Append(spool, hand)
         /\ w = "idle" => l = hand BY <1>1 DEF Spool, Leave, SpoolFails
<1>3. UNCHANGED <<op, batch, posted, cred, hand, late, auth, token, refused, stored, valid,
                  taken, faults, requests, starts, managed, spooling>>
    BY DEF Spool, SpoolFails, authVars, remoteVars, boundVars, config
<1>4. pc["control"] \notin Critical /\ pc'["control"] = pc["control"] /\ pc'["worker"] = w
    BY <1>1, <1>2, OneInside DEF Critical, Total, Tasks
<1>5. Queue' BY <1>1, <1>2, LeaveQueue DEF Queue, TypeOK, Locked, Critical, Places
<1>6. Total'
    BY <1>2, <1>3 DEF Total, Places
<1>7. /\ Len(spool) \in Nat /\ Len(spool') \in Nat /\ Len(spool') >= Len(spool)
      /\ spool' \in Seq(Events \cup {Torn})
      /\ \A i \in 1..Len(spool) : spool'[i] = spool[i]
      /\ \A i \in 1..Len(spool') : i \in 1..Len(spool) \/ (i = Len(spool) + 1 /\ spool'[i] = l)
  <2>1. spool \in Seq(Events \cup {Torn}) /\ l \in Events \cup {Torn} /\ Len(spool) \in Nat
      BY <1>1 DEF TypeOK
  <2>2. CASE spool' = spool
      BY <2>1, <2>2
  <2>3. CASE spool' = Append(spool, l)
      BY <2>1, <2>3
  <2> QED BY <1>2, <2>2, <2>3
<1>8. TypeOK'
    BY <1>1, <1>2, <1>3, <1>4, <1>5, <1>7 DEF TypeOK, Queue
<1>9. Doing' /\ Credentials'
    BY <1>2, <1>3, <1>4 DEF Doing, Credentials, Critical, Tasks
<1>10. ~Delivering' /\ \A u \in Tasks : ~Replaying(u) /\ ~Replaying(u)'
    BY <1>1, <1>2, <1>3, <1>4 DEF Delivering, Replaying, Critical, Tasks
<1>11. InHand' /\ Replay'
    BY <1>3, <1>10 DEF InHand, Replay
<1>12. RetainedUnlessAbandoned'
  <2>1. ASSUME NEW e \in Range(spool) PROVE e \in Range(spool') BY <1>7, Lines DEF TypeOK
  <2>2. spool' = Append(spool, hand) => hand \in Range(spool')
      BY <1>1 DEF Range, TypeOK
  <2> QED BY <1>2, <1>3, <2>1, <2>2 DEF RetainedUnlessAbandoned, SettledRetained
<1>13. Ordered'
  <2> SUFFICES ASSUME "abandoned" \notin faults PROVE Ordered'
      BY <1>3 DEF Ordered
  <2>1. \A i \in 1..Len(spool) : spool[i] \in Nat /\ spool[i] < hand /\ spool[i] # Torn
      BY <1>1 DEF Ordered, TypeOK, Events, Torn
  <2>2. \A i, j \in 1..Len(spool) : i < j => spool[i] < spool[j]
      BY <2>1 DEF Ordered, SpoolOrdered
  <2>3. \A i, j \in 1..Len(spool') :
           i < j => spool'[i] # Torn /\ (spool'[j] = Torn \/ spool'[i] < spool'[j])
      BY <1>1, <1>2, <1>7, <2>1, <2>2
  <2>4. \A i \in 1..Len(spool') : spool'[i] <= taken /\ (w = "idle" => spool'[i] # Torn)
      BY <1>1, <1>2, <1>7, <2>1 DEF Torn, Events
  <2> QED BY <1>2, <1>3, <1>4, <1>10, <2>3, <2>4 DEF Ordered, SpoolOrdered
<1>14. Single' BY <1>1, <1>2, <1>3, <1>7, <1>10 DEF Single
<1> QED BY <1>5, <1>6, <1>8, <1>9, <1>11, <1>12, <1>13, <1>14 DEF Queue

(* What a replay has left is the rest of its batch.                        *)
LEMMA RemainingFacts ==
    ASSUME Inv, NEW t \in Tasks
    PROVE  /\ Remaining(t) \in Seq(Events) /\ posted[t] \in Nat /\ Len(batch[t]) \in Nat
           /\ Len(Remaining(t)) = Len(batch[t]) - posted[t]
           /\ \A i \in 1..Len(Remaining(t)) :
                 /\ posted[t] + i \in 1..Len(batch[t])
                 /\ Remaining(t)[i] = batch[t][posted[t] + i]
<1> DEFINE b == batch[t]
           n == posted[t]
           r == SubSeq(b, n + 1, Len(b))
<1>1. b \in Seq(Events) /\ n \in 0..Len(b) /\ Len(b) \in Nat /\ n \in Nat
    BY DEF Inv, TypeOK
<1>2. Remaining(t) = r
    BY DEF Remaining
<1> HIDE DEF b, n
<1>3. Len(r) = Len(b) - n /\ \A i \in 1..Len(r) : n + i \in 1..Len(b) /\ r[i] = b[n + i]
    BY <1>1
<1>4. r \in Seq(Events)
    BY <1>1, SubSeqProperties
<1> QED BY <1>1, <1>2, <1>3, <1>4 DEF b, n

(* The rewrite keeps exactly what the destination did not take; one that   *)
(* fails keeps everything and ends the worker.                             *)
LEMMA RewriteInv ==
    ASSUME Inv, NEW t \in Tasks, Rewrite(t) \/ RewriteFails(t) PROVE Inv'
<1> USE DeliveryWorkerAssumption DEF Inv
<1>1. pc[t] = "rewrite" /\ op[t] # "deliver" /\ Replaying(t)
    BY DEF Rewrite, RewriteFails, Doing, Tasks, Critical, Replaying
<1>2. PICK w \in {"exiting", "connect", "off"} :
         /\ pc' = [pc EXCEPT ![t] = w] /\ queue' = Without(queue, t)
         /\ IF t = "worker" THEN w # "off" ELSE w = "off"
         /\ \/ spool' = Remaining(t) /\ faults' = faults
            \/ /\ spool' = spool /\ faults' = faults \cup {"resend"}
               /\ w # "connect"
    BY DEF Rewrite, RewriteFails, Leave, diskVars
<1>3. UNCHANGED <<op, batch, posted, cred, hand, late, auth, token, refused, stored, valid,
                  taken, settled, requests, starts, managed, spooling>>
    BY DEF Rewrite, RewriteFails, diskVars, authVars, remoteVars, boundVars, config
<1>4. pc'[t] = w /\ \A u \in Tasks \ {t} : pc[u] \notin Critical /\ pc'[u] = pc[u]
    BY <1>1, <1>2, OneInside DEF Critical, Total
<1>5. Queue' BY <1>1, <1>2, LeaveQueue DEF Queue, TypeOK, Locked, Critical, Places
<1>6. Total'
    BY <1>2, <1>3 DEF Total, Places
<1>7. spool' \in Seq(Events \cup {Torn}) /\ faults' \subseteq {"resend", "abandoned"}
      /\ ("abandoned" \in faults' <=> "abandoned" \in faults)
  <2>1. Remaining(t) \in Seq(Events \cup {Torn})
      BY RemainingFacts
  <2> QED BY <1>2, <2>1 DEF TypeOK
<1>8. TypeOK' BY <1>2, <1>3, <1>4, <1>5, <1>7 DEF TypeOK, Tasks, Queue
<1>9. Doing' /\ Credentials'
    BY <1>1, <1>2, <1>3, <1>4 DEF Doing, Credentials, Critical, Tasks
<1>10. /\ \A u \in Tasks : ~Replaying(u)'
       /\ \A u \in Tasks \ {t} : ~Replaying(u)
    BY <1>2, <1>4 DEF Replaying, Critical
<1>11. Delivering' <=> Delivering
    BY <1>1, <1>2, <1>3, <1>4 DEF Delivering, Tasks
<1>12. InHand' /\ Replay'
    BY <1>3, <1>7, <1>10, <1>11 DEF InHand, Replay
<1>13. CASE "abandoned" \in faults
    BY <1>5, <1>6, <1>7, <1>8, <1>9, <1>12, <1>13
    DEF RetainedUnlessAbandoned, Ordered, Single, Queue
<1>14. CASE spool' = spool /\ faults' = faults \cup {"resend"} /\ w # "connect"
  <2>1. RetainedUnlessAbandoned'
      BY <1>3, <1>7, <1>14 DEF RetainedUnlessAbandoned, SettledRetained
  <2>2. Ordered' /\ Single'
      BY <1>2, <1>3, <1>4, <1>7, <1>11, <1>14 DEF Ordered, SpoolOrdered, Single, Tasks
  <2> QED BY <1>5, <1>6, <1>8, <1>9, <1>12, <2>1, <2>2 DEF Queue
<1>15. CASE "abandoned" \notin faults /\ spool' = Remaining(t) /\ faults' = faults
  <2>1. batch[t] = spool /\ \A i \in 1..posted[t] : stored[spool[i]] > 0
      BY <1>1, <1>15 DEF Replay
  <2>2. /\ spool' \in Seq(Events) /\ posted[t] \in Nat /\ Len(spool) \in Nat
        /\ Len(spool') \in Nat /\ Len(spool') = Len(spool) - posted[t]
        /\ \A i \in 1..Len(spool') : /\ posted[t] + i \in 1..Len(spool)
                                     /\ spool'[i] = spool[posted[t] + i]
      BY <1>15, <2>1, RemainingFacts
  <2>3. \A i \in 1..Len(spool') : spool'[i] \in Events /\ spool'[i] # Torn
      BY <2>2 DEF Torn, Events
  <2>4. RetainedUnlessAbandoned'
    <3> SUFFICES ASSUME NEW e \in settled, ~(stored[e] > 0) PROVE e \in Range(spool')
        BY <1>3 DEF RetainedUnlessAbandoned, SettledRetained
    <3>1. e \in Range(spool)
        BY <1>15 DEF RetainedUnlessAbandoned, SettledRetained
    <3>2. PICK i \in 1..Len(spool) : spool[i] = e
        BY <3>1, Lines DEF TypeOK
    <3>3. i > posted[t]
        BY <2>1, <2>2, <3>2
    <3>4. i - posted[t] \in 1..Len(spool') /\ spool'[i - posted[t]] = e
        BY <2>2, <3>2, <3>3
    <3> QED BY <2>2, <3>4, Lines
  <2>5. Ordered'
    <3>1. SpoolOrdered'
      <4> SUFFICES ASSUME NEW i \in 1..Len(spool'), NEW j \in 1..Len(spool'), i < j
                   PROVE  spool'[i] < spool'[j]
          BY <2>3 DEF SpoolOrdered
      <4>1. posted[t] + i < posted[t] + j
          BY <2>2
      <4> QED BY <1>15, <2>2, <2>3, <4>1 DEF Ordered, SpoolOrdered
    <3> QED BY <1>3, <1>11, <1>15, <2>2, <2>3, <3>1 DEF Ordered
  <2>6. Single'
    <3> SUFFICES ASSUME faults = {}, NEW i \in 1..Len(spool'), stored[spool'[i]] > 0
                 PROVE  FALSE
        BY <1>3, <1>11, <1>15 DEF Single
    <3>1. PICK u \in Tasks : Replaying(u) /\ posted[t] + i <= posted[u]
        BY <2>2, <2>3 DEF Single
    <3>2. u = t
        BY <1>10, <3>1
    <3> QED BY <2>2, <3>1, <3>2
  <2> QED BY <1>5, <1>6, <1>8, <1>9, <1>12, <2>4, <2>5, <2>6 DEF Queue
<1> QED BY <1>2, <1>13, <1>14, <1>15

-----------------------------------------------------------------------------
(* A crash may cut a line short and let a request through; the rest of the *)
(* spool and of what the destination has stays.                            *)
LEMMA CrashInv == ASSUME Inv, Crash PROVE Inv'
<1> USE DeliveryWorkerAssumption DEF Inv
<1>1. /\ pc' \in [Tasks -> Places] /\ pc'["worker"] = "down" /\ pc'["control"] = "off"
      /\ queue' = <<>> /\ hand' = 0 /\ late' = {} /\ faults' = faults \cup {"resend"}
      /\ UNCHANGED <<op, batch, posted, cred, auth, token, refused, valid, taken, settled,
                     requests, starts, managed, spooling>>
    BY DEF Crash, authVars, boundVars, config, Tasks, Places
<1>2. stored' \in [Events -> 0..2] /\ \A d \in Events : stored'[d] >= stored[d] BY MayStoreFacts DEF Crash
<1>3. /\ Len(spool) \in Nat /\ Len(spool') \in Nat /\ Len(spool') >= Len(spool)
      /\ spool' \in Seq(Events \cup {Torn})
      /\ \A i \in 1..Len(spool) : spool'[i] = spool[i]
      /\ \A i \in 1..Len(spool') :
            \/ i \in 1..Len(spool)
            \/ i = Len(spool) + 1 /\ spool'[i] = Torn /\ pc["worker"] = "spool"
  <2>1. spool \in Seq(Events \cup {Torn}) /\ Len(spool) \in Nat
      BY DEF TypeOK
  <2>2. CASE spool' = spool
      BY <2>1, <2>2
  <2>3. CASE spool' = Append(spool, Torn) /\ pc["worker"] = "spool"
      BY <2>1, <2>3
  <2> QED BY <2>2, <2>3 DEF Crash
<1>4. Total' /\ Exclusive' /\ Doing' /\ Credentials'
    BY <1>1 DEF Total, Exclusive, Doing, Credentials, Locked, Critical, Tasks
<1>5. TypeOK'
    BY <1>1, <1>2, <1>3 DEF TypeOK, Tasks
<1>6. ~Delivering' /\ \A u \in Tasks : ~Replaying(u)'
    BY <1>1 DEF Delivering, Replaying, Tasks
<1>7. InHand' /\ Replay' /\ Single'
    BY <1>1, <1>6 DEF InHand, Replay, Single
<1>8. RetainedUnlessAbandoned'
  <2> SUFFICES ASSUME "abandoned" \notin faults, NEW e \in settled
               PROVE  stored'[e] > 0 \/ e \in Range(spool')
      BY <1>1 DEF RetainedUnlessAbandoned, SettledRetained
  <2>1. CASE stored[e] > 0
      BY <1>2, <2>1, StaysIngested DEF TypeOK
  <2>2. CASE e \in Range(spool)
    <3>1. PICK i \in 1..Len(spool) : spool[i] = e
        BY <2>2, Lines DEF TypeOK
    <3>2. i \in 1..Len(spool') /\ spool'[i] = e
        BY <1>3, <3>1
    <3> QED BY <1>3, <3>2, Lines
  <2> QED BY <2>1, <2>2 DEF RetainedUnlessAbandoned, SettledRetained
<1>9. Ordered'
  <2> SUFFICES ASSUME "abandoned" \notin faults PROVE Ordered'
      BY <1>1 DEF Ordered
  <2>1. pc["worker"] = "spool" => \A i \in 1..Len(spool) : spool[i] # Torn
      BY DEF Ordered, Delivering, Doing
  <2>2. SpoolOrdered'
      BY <1>3, <2>1 DEF Ordered, SpoolOrdered
  <2>3. \A i \in 1..Len(spool') : spool'[i] <= taken
      BY <1>3 DEF Ordered, Torn, TypeOK
  <2> QED BY <1>1, <1>6, <2>2, <2>3 DEF Ordered
<1> QED BY <1>4, <1>5, <1>7, <1>8, <1>9

(* A dropped handler releases its lock; only a rewrite it leaves behind    *)
(* can do harm, and is recorded.                                           *)
LEMMA DisconnectInv == ASSUME Inv, Disconnect PROVE Inv'
<1> USE DeliveryWorkerAssumption DEF Inv
<1>1. /\ pc["control"] # "off" /\ pc' = [pc EXCEPT !["control"] = "off"]
      /\ queue' = Without(queue, "control") /\ stored' \in MayStore("control")
      /\ UNCHANGED <<op, batch, posted, cred, hand, auth, token, refused, spool, valid,
                     taken, settled, requests, starts, managed, spooling>>
    BY DEF Disconnect, authVars, boundVars, config
<1>2. /\ late' \subseteq Seq(Events) /\ faults' \subseteq {"resend", "abandoned"}
      /\ faults' # {} /\ faults \subseteq faults'
      /\ "abandoned" \notin faults' => late' = late
    BY RemainingFacts DEF Disconnect, TypeOK, Tasks
<1>3. stored' \in [Events -> 0..2] /\ \A d \in Events : stored'[d] >= stored[d]
    BY <1>1, MayStoreFacts DEF Tasks
<1>4. pc'["control"] = "off" /\ pc'["worker"] = pc["worker"]
    BY <1>1 DEF Total, Tasks
<1>5. Queue' BY <1>1, LeaveQueue DEF Queue, TypeOK, Locked, Critical, Places, Tasks
<1>6. Total'
    BY <1>1 DEF Total, Places
<1>7. TypeOK'
    BY <1>1, <1>2, <1>3, <1>4, <1>5 DEF TypeOK, Queue
<1>8. Doing' /\ Credentials'
    BY <1>1, <1>4 DEF Doing, Credentials, Critical, Tasks
<1>9. (Delivering' <=> Delivering) /\ \A u \in Tasks : Replaying(u)' => Replaying(u)
    BY <1>1, <1>4 DEF Delivering, Replaying, Tasks
<1>10. InHand'
    BY <1>1, <1>4, <1>9 DEF InHand, Replaying, Tasks
<1>11. Replay'
  <2> SUFFICES ASSUME "abandoned" \notin faults, NEW u \in Tasks, Replaying(u)
               PROVE  batch[u] = spool /\ \A i \in 1..posted[u] : stored'[batch[u][i]] > 0
      BY <1>1, <1>2, <1>9 DEF Replay
  <2>1. batch[u] = spool /\ \A i \in 1..posted[u] : stored[batch[u][i]] > 0
      BY DEF Replay
  <2>2. \A i \in 1..posted[u] : batch[u][i] \in Events
      BY DEF TypeOK
  <2> QED BY <1>3, <2>1, <2>2, StaysIngested
<1>12. RetainedUnlessAbandoned'
  BY <1>1, <1>2, <1>3, StaysIngested DEF TypeOK, RetainedUnlessAbandoned, SettledRetained
<1>13. Ordered' /\ Single'
    BY <1>1, <1>2, <1>4, <1>9 DEF Ordered, SpoolOrdered, Single
<1> QED BY <1>5, <1>6, <1>7, <1>8, <1>10, <1>11, <1>12, <1>13 DEF Queue

-----------------------------------------------------------------------------
(* Every step keeps the invariant.                                         *)
LEMMA NextInv == Inv /\ [Next]_vars => Inv'
<1> SUFFICES ASSUME Inv, [Next]_vars PROVE Inv'
    OBVIOUS
<1>1. CASE UNCHANGED vars
  <2> USE <1>1 DEF Inv, vars, config
  <2>1. TypeOK' /\ Total' /\ Exclusive' /\ Doing' /\ InHand' /\ Credentials'
      BY DEF TypeOK, Total, Exclusive, Doing, InHand, Credentials, Locked, Delivering,
             Replaying
  <2>2. Replay' /\ RetainedUnlessAbandoned' /\ Ordered' /\ Single'
      BY DEF Replay, RetainedUnlessAbandoned, SettledRetained, Ordered, SpoolOrdered,
             Single, Delivering, Replaying
  <2> QED BY <2>1, <2>2
<1>2. CASE Start
    BY <1>2, StartInv
<1>3. CASE ConnectBroker \/ StreamEnds \/ UntranslatableEvent \/ Exit
    BY <1>3, WorkerOutsideInv
<1>4. CASE TakeEvent
    BY <1>4, TakeEventInv
<1>5. CASE Crash
    BY <1>5, CrashInv
<1>6. ASSUME NEW o \in {"set", "clear"}, Request(o) PROVE Inv'
    BY <1>6, RequestInv
<1>7. CASE Disconnect \/ LateRewrite \/ Revoke
    BY <1>7, DisconnectInv, LateRewriteInv, RevokeInv
<1>8. ASSUME NEW t \in Tasks, TaskStep(t) PROVE Inv'
  BY <1>8, CredentialInv, BeginInv, ReadSpoolInv, SendInv, SpoolInv, RewriteInv DEF TaskStep
<1>9. ASSUME NEW t \in Tasks, Reply(t) PROVE Inv'
  <2> USE DEF diskVars, authVars, remoteVars, boundVars, config
  <2>1. CASE ReplyOk(t)
      BY <2>1, DeliveredInv, ReplayedInv
  <2>2. CASE ReplyUnauthorized(t)
      BY <2>2, FailedInv DEF ReplyUnauthorized
  <2>3. CASE ReplyError(t)
      BY <2>3, FailedInv DEF ReplyError
  <2>4. CASE ReplyLost(t)
      BY <2>4, FailedInv DEF ReplyLost
  <2> QED BY <1>9, <2>1, <2>2, <2>3, <2>4 DEF Reply
<1> QED BY <1>1, <1>2, <1>3, <1>4, <1>5, <1>6, <1>7, <1>8, <1>9 DEF Next

(* The invariant holds in every reachable state.                           *)
THEOREM Invariance == Spec => []Inv
BY InitInv, NextInv, PTL DEF Spec

(* A managed request in flight carries the installed credential, never one *)
(* the destination has refused since it was installed.                     *)
THEOREM CredentialsCurrent == Spec => []CredentialUse
<1>1. Inv => CredentialUse BY DEF Inv, Credentials, InFlightCredentialCurrent, RejectedNotResent, CredentialUse
<1> QED BY <1>1, Invariance, PTL

(* An event whose delivery returned Ok is at the destination or in the     *)
(* spool, through crashes, restarts, failing writes and lost answers,      *)
(* unless a rewrite outlived its dropped handler.                          *)
THEOREM NothingLost == Spec => []RetainedUnlessAbandoned
<1>1. Inv => RetainedUnlessAbandoned
    BY DEF Inv
<1> QED BY <1>1, Invariance, PTL

(* The spool keeps broker order, and only its last line can be cut short.  *)
THEOREM OrderKept == Spec => []SpoolOrdered
<1>1. Inv => SpoolOrdered
    BY DEF Inv, Ordered, SpoolOrdered
<1> QED BY <1>1, Invariance, PTL

(* Without a fault the destination ingests no event twice.                 *)
THEOREM AtMostOnce == Spec => []DuplicateOnlyAfterFault
<1>1. Inv => DuplicateOnlyAfterFault
    BY DEF Inv, Single, DuplicateOnlyAfterFault
<1> QED BY <1>1, Invariance, PTL
=============================================================================
