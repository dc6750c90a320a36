--------------------------- MODULE DeliveryWorker ---------------------------
(***************************************************************************)
(* abyss-delivery-plugin: the worker task (startup replay, then one        *)
(* delivery per broker event), the loopback control API (credential set    *)
(* and clear), the failed-event spool file and the managed credential.     *)
(*                                                                         *)
(* Both tasks serialize on EventUploader::delivery_lock, a FIFO tokio      *)
(* mutex.  A control request runs inside its HTTP connection: when the     *)
(* product disconnects (the CLI gives up after five seconds) the handler   *)
(* future is dropped at its current await point, its lock guard with it,   *)
(* while a file operation already handed to the blocking pool still runs.  *)
(*                                                                         *)
(* An event is its number.  The spool is the sequence of its lines; an     *)
(* absent file and an empty one are the same to every operation.  Torn     *)
(* stands for a line cut short.  The remote destination is external: it    *)
(* accepts, refuses, or accepts and loses the answer.                      *)
(***************************************************************************)
EXTENDS Naturals, Sequences, SequencesExt

CONSTANTS
    Tokens,        \* bearer credentials the product may install
    NoToken,
    MaxEvents,     \* bound on broker events
    MaxRequests,   \* bound on control requests
    MaxStarts      \* bound on starts of the worker process

ASSUME DeliveryWorkerAssumption ==
    /\ NoToken \notin Tokens
    /\ MaxEvents \in Nat /\ MaxRequests \in Nat /\ MaxStarts \in Nat

VARIABLES
    managed,   \* configuration: authentication mode is managed_bearer
    spooling,  \* configuration: delivery.spool_enabled
    pc,        \* where each task stands
    op,        \* what it is doing
    batch,     \* spool records a replay has read
    posted,    \* how many of them the destination has taken
    cred,      \* credential snapshot of the request in flight
    hand,      \* event the worker task is delivering (0: none)
    queue,     \* delivery_lock: holder first, then waiters in order
    auth,      \* DeliveryAuthenticationState of managed mode
    token,     \* the installed credential
    spool,     \* spool file
    late,      \* spool rewrites left behind on the blocking pool
    stored,    \* destination: times each event was ingested (2: or more)
    valid,     \* destination: credentials it honours
    taken,     \* events taken from the broker stream
    settled,   \* events whose deliver call returned Ok
    refused,   \* history: credentials answered 401 since they were installed
    faults,    \* history: what went wrong so far
    requests, starts

diskVars == <<spool, late>>
authVars == <<auth, token, refused>>
remoteVars == <<stored, valid>>
boundVars == <<requests, starts>>
config == <<managed, spooling>>
vars == <<config, pc, op, batch, posted, cred, hand, queue, auth, token, spool, late,
          stored, valid, taken, settled, refused, faults, requests, starts>>

Tasks == {"worker", "control"}
Events == 1..MaxEvents
Torn == 0

Init ==
    /\ managed \in BOOLEAN /\ spooling \in BOOLEAN
    /\ pc = [t \in Tasks |-> IF t = "worker" THEN "down" ELSE "off"]
    /\ op = [t \in Tasks |-> "none"]
    /\ batch = [t \in Tasks |-> <<>>]
    /\ posted = [t \in Tasks |-> 0]
    /\ cred = [t \in Tasks |-> NoToken]
    /\ hand = 0
    /\ queue = <<>>
    /\ auth = "missing" /\ token = NoToken /\ refused = {}
    /\ spool = <<>> /\ late = {}
    /\ stored = [e \in Events |-> 0] /\ valid = Tokens
    /\ taken = 0 /\ settled = {}
    /\ faults = {}
    /\ requests = 0 /\ starts = 0

(* A task waits or holds at most once.                                     *)
Without(q, t) ==
    LET i == CHOOSE i \in 1..Len(q) : q[i] = t
    IN [j \in 1..(Len(q) - 1) |-> IF j < i THEN q[j] ELSE q[j + 1]]

Holds(t) == queue # <<>> /\ Head(queue) = t

(* Mutant: the lock is not released.                                       *)
(* A task leaves its critical section: the worker goes on to stage w, a    *)
(* control handler answers and is gone.                                    *)
Leave(t, w) ==
    /\ pc' = [pc EXCEPT ![t] = IF t = "worker" THEN w ELSE "off"]
    /\ queue' = Without(queue, t)

-----------------------------------------------------------------------------
(* main.rs: run, run_worker.                                               *)

(* A fresh process starts with no managed credential and replays first.    *)
Start ==
    /\ pc["worker"] = "down" /\ starts < MaxStarts
    /\ starts' = starts + 1
    /\ pc' = [pc EXCEPT !["worker"] = "wait"]
    /\ op' = [op EXCEPT !["worker"] = "replay"]
    /\ queue' = Append(queue, "worker")
    /\ auth' = "missing" /\ token' = NoToken /\ refused' = {}
    /\ UNCHANGED <<batch, posted, cred, hand, diskVars, remoteVars, taken,
                   settled, faults, requests, config>>

(* BrokerPlugin::connect succeeds, or the worker ends with its error.      *)
ConnectBroker ==
    /\ pc["worker"] = "connect"
    /\ \E w \in {"idle", "exiting"} : pc' = [pc EXCEPT !["worker"] = w]
    /\ UNCHANGED <<op, batch, posted, cred, hand, queue, authVars, diskVars,
                   remoteVars, taken, settled, faults, boundVars, config>>

TakeEvent ==
    /\ pc["worker"] = "idle" /\ taken < MaxEvents
    /\ taken' = taken + 1
    /\ hand' = taken + 1
    /\ pc' = [pc EXCEPT !["worker"] = "wait"]
    /\ op' = [op EXCEPT !["worker"] = "deliver"]
    /\ queue' = Append(queue, "worker")
    /\ UNCHANGED <<batch, posted, cred, authVars, diskVars, remoteVars,
                   settled, faults, boundVars, config>>

(* An event that has no destination form is refused before the lock, and   *)
(* its error ends the worker.                                              *)
UntranslatableEvent ==
    /\ pc["worker"] = "idle" /\ taken < MaxEvents
    /\ taken' = taken + 1
    /\ hand' = taken + 1
    /\ pc' = [pc EXCEPT !["worker"] = "exiting"]
    /\ UNCHANGED <<op, batch, posted, cred, queue, authVars, diskVars,
                   remoteVars, settled, faults, boundVars, config>>

(* The broker closes the stream, deliberately or not.                      *)
StreamEnds ==
    /\ pc["worker"] = "idle"
    /\ pc' = [pc EXCEPT !["worker"] = "exiting"]
    /\ UNCHANGED <<op, batch, posted, cred, hand, queue, authVars, diskVars,
                   remoteVars, taken, settled, faults, boundVars, config>>

(* DeliveryControlServer::shutdown waits for the handler in progress; file *)
(* operations still queued on the pool end with the runtime.               *)
Exit ==
    /\ pc["worker"] = "exiting" /\ pc["control"] = "off"
    /\ pc' = [pc EXCEPT !["worker"] = "down"]
    /\ hand' = 0 /\ late' = {}
    /\ UNCHANGED <<op, batch, posted, cred, queue, authVars, spool, remoteVars,
                   taken, settled, faults, boundVars, config>>

InFlightEvent(t) == IF op[t] = "deliver" THEN hand ELSE batch[t][posted[t] + 1]

Ingested(e) == [stored EXCEPT ![e] = IF @ = 2 THEN 2 ELSE @ + 1]

MayStore(t) ==
    IF pc[t] = "reply" /\ (managed => cred[t] \in valid)
    THEN {stored, Ingested(InFlightEvent(t))}
    ELSE {stored}

(* The process is killed.  A line being appended may be cut short, and a   *)
(* request in flight may or may not reach the destination.                 *)
Crash ==
    /\ pc["worker"] # "down"
    /\ faults' = faults \cup {"resend"}
    /\ pc' = [worker |-> "down", control |-> "off"]
    /\ queue' = <<>> /\ hand' = 0 /\ late' = {}
    /\ \E t \in Tasks : stored' \in MayStore(t)
    /\ spool' \in IF pc["worker"] = "spool" THEN {spool, Append(spool, Torn)}
                                            ELSE {spool}
    /\ UNCHANGED <<op, batch, posted, cred, authVars, valid, taken, settled,
                   boundVars, config>>

-----------------------------------------------------------------------------
(* control.rs: set_credential and clear_credential queue on the lock.  The *)
(* API listens before the startup replay, so a request can come first.     *)

Request(o) ==
    /\ pc["control"] = "off" /\ pc["worker"] \notin {"down", "exiting"}
    /\ requests < MaxRequests
    /\ requests' = requests + 1
    /\ pc' = [pc EXCEPT !["control"] = "wait"]
    /\ op' = [op EXCEPT !["control"] = o]
    /\ queue' = Append(queue, "control")
    /\ UNCHANGED <<batch, posted, cred, hand, authVars, diskVars, remoteVars,
                   taken, settled, faults, starts, config>>

(* set_managed_bearer under the lock, then replay_spool_locked; a static   *)
(* mode or an unacceptable token or audience is answered with an error.    *)
SetCredential(t, b) ==
    /\ Holds(t) /\ pc[t] = "wait" /\ op[t] = "set"
    /\ IF managed /\ b # NoToken
       THEN /\ token' = b /\ auth' = "configured" /\ refused' = refused \ {b}
            /\ pc' = [pc EXCEPT ![t] = "read"]
            /\ UNCHANGED queue
       ELSE /\ Leave(t, "idle")
            /\ UNCHANGED authVars
    /\ UNCHANGED <<op, batch, posted, cred, hand, diskVars, remoteVars, taken,
                   settled, faults, boundVars, config>>

(* Mutant: clearing does not wait for the request in flight.               *)
ClearCredentialUnlocked(t) ==
    /\ pc[t] = "wait" /\ op[t] = "clear"
    /\ IF managed THEN token' = NoToken /\ auth' = "missing"
                  ELSE UNCHANGED <<token, auth>>
    /\ Leave(t, "idle")
    /\ UNCHANGED <<op, batch, posted, cred, hand, refused, diskVars,
                   remoteVars, taken, settled, faults, boundVars, config>>

ClearCredential(t) ==
    /\ Holds(t) /\ pc[t] = "wait" /\ op[t] = "clear"
    /\ IF managed THEN token' = NoToken /\ auth' = "missing"
                  ELSE UNCHANGED <<token, auth>>
    /\ Leave(t, "idle")
    /\ UNCHANGED <<op, batch, posted, cred, hand, refused, diskVars,
                   remoteVars, taken, settled, faults, boundVars, config>>

Begin(t) ==
    /\ Holds(t) /\ pc[t] = "wait" /\ op[t] \in {"replay", "deliver"}
    /\ pc' = [pc EXCEPT ![t] = IF op[t] = "replay" THEN "read" ELSE "send"]
    /\ UNCHANGED <<op, batch, posted, cred, hand, queue, authVars, diskVars,
                   remoteVars, taken, settled, faults, boundVars, config>>

(* The handler future is dropped at its await point.  Its lock goes; what  *)
(* it already asked of the destination or of the file system may still     *)
(* happen.                                                                 *)
Remaining(t) == SubSeq(batch[t], posted[t] + 1, Len(batch[t]))

Disconnect ==
    /\ pc["control"] # "off"
    /\ pc' = [pc EXCEPT !["control"] = "off"]
    /\ queue' = Without(queue, "control")
    /\ stored' \in MayStore("control")
    /\ \/ /\ late' = late
          /\ faults' = faults \cup {"resend"}
       \/ /\ pc["control"] = "rewrite"
          /\ late' = late \cup {Remaining("control")}
          /\ faults' = faults \cup {"resend", "abandoned"}
    /\ UNCHANGED <<op, batch, posted, cred, hand, authVars, spool, valid,
                   taken, settled, boundVars, config>>

LateRewrite ==
    /\ \E r \in late : spool' = r /\ late' = late \ {r}
    /\ UNCHANGED <<pc, op, batch, posted, cred, hand, queue, authVars,
                   remoteVars, taken, settled, faults, boundVars, config>>

-----------------------------------------------------------------------------
(* replay_spool_locked: read and decode every line.  The read may fail,    *)
(* and a line that does not decode fails it too; either ends a starting    *)
(* worker.                                                                 *)
ReadSpool(t) ==
    /\ pc[t] = "read"
    /\ \/ Leave(t, "exiting") /\ UNCHANGED <<batch, posted>>
       \/ /\ spool = <<>>
          /\ Leave(t, "connect") /\ UNCHANGED <<batch, posted>>
       \/ /\ spool # <<>> /\ Torn \notin Range(spool)
          /\ batch' = [batch EXCEPT ![t] = spool]
          /\ posted' = [posted EXCEPT ![t] = 0]
          /\ pc' = [pc EXCEPT ![t] = "send"]
          /\ UNCHANGED queue
    /\ UNCHANGED <<op, cred, hand, authVars, diskVars, remoteVars, taken,
                   settled, faults, boundVars, config>>

(* Mutant: a failed replay post is tried again.                            *)
PostFailedRetries(t) ==
    IF op[t] = "deliver"
    THEN IF spooling
         THEN pc' = [pc EXCEPT ![t] = "spool"] /\ UNCHANGED queue
         ELSE Leave(t, "exiting")
    ELSE pc' = [pc EXCEPT ![t] = "send"] /\ UNCHANGED queue

(* What follows a post that failed, and one that succeeded.                *)
PostFailed(t) ==
    IF op[t] = "deliver"
    THEN IF spooling
         THEN pc' = [pc EXCEPT ![t] = "spool"] /\ UNCHANGED queue
         ELSE Leave(t, "exiting")
    ELSE pc' = [pc EXCEPT ![t] = "rewrite"] /\ UNCHANGED queue

PostDone(t) ==
    IF op[t] = "deliver"
    THEN /\ settled' = settled \cup {hand}
         /\ Leave(t, "idle") /\ UNCHANGED posted
    ELSE /\ posted' = [posted EXCEPT ![t] = @ + 1]
         /\ pc' = [pc EXCEPT ![t] = IF posted[t] + 1 = Len(batch[t])
                                    THEN "rewrite" ELSE "send"]
         /\ UNCHANGED <<queue, settled>>

(* post: no usable managed credential fails before anything is sent;       *)
(* otherwise the request carries a snapshot of the credential.             *)
Send(t) ==
    /\ pc[t] = "send"
    /\ IF managed /\ auth # "configured"
       THEN PostFailed(t) /\ UNCHANGED cred
       ELSE /\ cred' = [cred EXCEPT ![t] = token]
            /\ pc' = [pc EXCEPT ![t] = "reply"]
            /\ UNCHANGED queue
    /\ UNCHANGED <<op, batch, posted, hand, authVars, diskVars, remoteVars,
                   taken, settled, faults, boundVars, config>>

Ingest(t) == stored' = Ingested(InFlightEvent(t))

ReplyOk(t) ==
    /\ pc[t] = "reply" /\ (managed => cred[t] \in valid)
    /\ Ingest(t)
    /\ PostDone(t)
    /\ UNCHANGED <<op, batch, cred, hand, authVars, diskVars, valid, taken,
                   faults, boundVars, config>>

(* Mutant: 401 leaves the managed credential in place.                     *)
(* 401 invalidates the managed credential; static modes keep theirs.       *)
MarkUnauthorized(t) ==
    IF managed
    THEN auth' = "auth_required" /\ token' = NoToken
         /\ refused' = refused \cup {cred[t]}
    ELSE UNCHANGED authVars

ReplyUnauthorized(t) ==
    /\ pc[t] = "reply" /\ (managed => cred[t] \notin valid)
    /\ MarkUnauthorized(t)
    /\ PostFailed(t)
    /\ UNCHANGED <<op, batch, posted, cred, hand, diskVars, remoteVars, taken,
                   settled, faults, boundVars, config>>

(* Mutant: an error answer counts as delivered.                            *)
ReplyErrorIgnored(t) ==
    /\ pc[t] = "reply"
    /\ PostDone(t)
    /\ UNCHANGED <<op, batch, cred, hand, authVars, diskVars, remoteVars, taken,
                   faults, boundVars, config>>

(* Transport failure, non-2xx status or rejected > 0: nothing ingested.    *)
ReplyError(t) ==
    /\ pc[t] = "reply"
    /\ PostFailed(t)
    /\ UNCHANGED <<op, batch, posted, cred, hand, authVars, diskVars,
                   remoteVars, taken, settled, faults, boundVars, config>>

(* Ingested, but the answer is lost or cannot be decoded.                  *)
ReplyLost(t) ==
    /\ pc[t] = "reply" /\ (managed => cred[t] \in valid)
    /\ Ingest(t) /\ faults' = faults \cup {"resend"}
    /\ PostFailed(t)
    /\ UNCHANGED <<op, batch, posted, cred, hand, authVars, diskVars, valid,
                   taken, settled, boundVars, config>>

(* spool: append one line.                                                 *)
Spool(t) ==
    /\ pc[t] = "spool"
    /\ spool' = Append(spool, hand)
    /\ settled' = settled \cup {hand}
    /\ Leave(t, "idle")
    /\ UNCHANGED <<op, batch, posted, cred, hand, late, authVars, remoteVars,
                   taken, faults, boundVars, config>>

(* An append that fails, perhaps part way through the line, ends the       *)
(* worker.                                                                 *)
SpoolFails(t) ==
    /\ pc[t] = "spool"
    /\ spool' \in {spool, Append(spool, Torn)}
    /\ Leave(t, "exiting")
    /\ UNCHANGED <<op, batch, posted, cred, hand, late, authVars, remoteVars,
                   taken, settled, faults, boundVars, config>>

(* Mutants: the rewrite drops what remains, appends it, or never happens.  *)
RewriteAs(t, s) ==
    /\ pc[t] = "rewrite"
    /\ spool' = s
    /\ Leave(t, "connect")
    /\ UNCHANGED <<op, batch, posted, cred, hand, late, authVars, remoteVars,
                   taken, settled, faults, boundVars, config>>
RewriteDrops(t) == RewriteAs(t, <<>>)
RewriteAppends(t) == RewriteAs(t, spool \o Remaining(t))
RewriteSkipped(t) == RewriteAs(t, spool)

(* replace_spool: remove the file when nothing remains, otherwise write a  *)
(* temporary file and rename it over the spool.                            *)
Rewrite(t) ==
    /\ pc[t] = "rewrite"
    /\ spool' = Remaining(t)
    /\ Leave(t, "connect")
    /\ UNCHANGED <<op, batch, posted, cred, hand, late, authVars, remoteVars,
                   taken, settled, faults, boundVars, config>>

RewriteFails(t) ==
    /\ pc[t] = "rewrite" /\ faults' = faults \cup {"resend"}
    /\ Leave(t, "exiting")
    /\ UNCHANGED <<op, batch, posted, cred, hand, diskVars, authVars,
                   remoteVars, taken, settled, boundVars, config>>

(* The destination stops honouring a credential.  What it thinks of a      *)
(* static one is left open in the answers above.                           *)
Revoke ==
    /\ managed
    /\ \E b \in valid : valid' = valid \ {b}
    /\ UNCHANGED <<pc, op, batch, posted, cred, hand, queue, authVars,
                   diskVars, stored, taken, settled, faults, boundVars, config>>

-----------------------------------------------------------------------------
Reply(t) == ReplyOk(t) \/ ReplyUnauthorized(t) \/ ReplyError(t) \/ ReplyLost(t)

TaskStep(t) ==
    \/ Begin(t) \/ ClearCredential(t)
    \/ \E b \in Tokens \cup {NoToken} : SetCredential(t, b)
    \/ ReadSpool(t) \/ Send(t) \/ Spool(t) \/ SpoolFails(t)
    \/ Rewrite(t) \/ RewriteFails(t)

Next ==
    \/ Start \/ ConnectBroker \/ TakeEvent \/ UntranslatableEvent
    \/ StreamEnds \/ Exit \/ Crash
    \/ \E o \in {"set", "clear"} : Request(o)
    \/ Disconnect \/ LateRewrite \/ Revoke
    \/ \E t \in Tasks : TaskStep(t) \/ Reply(t)

Spec == Init /\ [][Next]_vars

(* The runtime runs both tasks and the destination answers each request;   *)
(* post sets no timeout of its own, so the second is an assumption about   *)
(* the destination.                                                        *)
FairSpec == Spec /\ \A t \in Tasks : WF_vars(TaskStep(t)) /\ WF_vars(Reply(t))

-----------------------------------------------------------------------------
(* Properties.                                                             *)

TypeOK ==
    /\ managed \in BOOLEAN /\ spooling \in BOOLEAN
    /\ pc["worker"] \in {"down", "wait", "connect", "idle", "read", "send",
                         "reply", "spool", "rewrite", "exiting"}
    /\ pc["control"] \in {"off", "wait", "read", "send", "reply", "rewrite"}
    /\ op["worker"] \in {"none", "replay", "deliver"}
    /\ op["control"] \in {"none", "set", "clear"}
    /\ batch \in [Tasks -> Seq(Events)]
    /\ \A t \in Tasks : posted[t] \in 0..Len(batch[t])
    /\ cred \in [Tasks -> Tokens \cup {NoToken}]
    /\ hand \in Events \cup {0}
    /\ queue \in Seq(Tasks) /\ Len(queue) <= 2
    /\ auth \in {"missing", "configured", "auth_required"}
    /\ token \in Tokens \cup {NoToken}
    /\ spool \in Seq(Events \cup {Torn})
    /\ late \subseteq Seq(Events)
    /\ stored \in [Events -> 0..2] /\ valid \subseteq Tokens
    /\ taken \in 0..MaxEvents /\ settled \subseteq Events
    /\ refused \subseteq Tokens \cup {NoToken}
    /\ faults \subseteq {"resend", "abandoned"}
    /\ requests \in 0..MaxRequests /\ starts \in 0..MaxStarts

(* "A live event cannot race an atomic spool rewrite ... undelivered       *)
(* records remain durable": an event whose deliver call returned Ok has    *)
(* reached the destination or is in the spool, across crashes, restarts    *)
(* and replays.                                                            *)
SettledRetained ==
    \A e \in settled : stored[e] > 0 \/ e \in Range(spool)

(* Only a spool rewrite that outlived its dropped handler can lose an      *)
(* event: crashes, other disconnects, failing writes and lost answers      *)
(* cannot.                                                                 *)
RetainedUnlessAbandoned == "abandoned" \in faults \/ SettledRetained

(* Replay keeps the failed record and all later ones, and a live event     *)
(* goes behind them: the spool holds each event at most once and in broker *)
(* order, and only its last line can be cut short.                         *)
SpoolOrdered ==
    "abandoned" \in faults \/
    \A i, j \in 1..Len(spool) :
        i < j => spool[i] # Torn /\ (spool[j] = Torn \/ spool[i] < spool[j])

(* Without a crash, a disconnect, a lost answer or a failed rewrite the    *)
(* destination ingests no event twice, however deliveries and replays      *)
(* interleave.                                                             *)
DuplicateOnlyAfterFault ==
    faults = {} => \A e \in Events : stored[e] <= 1

(* "An old 401 response cannot invalidate a freshly installed token": a    *)
(* managed request in flight carries the credential installed right now.   *)
InFlightCredentialCurrent ==
    managed => \A t \in Tasks :
        pc[t] = "reply" => cred[t] = token /\ auth = "configured"

(* "Further events are spooled without repeatedly sending the rejected     *)
(* credential": nothing is sent with a credential that was answered 401    *)
(* and not installed again, nor without one in managed mode.               *)
RejectedNotResent ==
    managed => \A t \in Tasks :
        pc[t] = "reply" => cred[t] \in Tokens \ refused

(* Which credential a managed request carries: the installed one, never a  *)
(* rejected one.                                                           *)
CredentialUse == TypeOK /\ InFlightCredentialCurrent /\ RejectedNotResent

(* Every control request is answered, whatever the worker task does with   *)
(* the lock.                                                               *)
ControlAnswered == pc["control"] # "off" ~> pc["control"] = "off"
=============================================================================
