---------------------------- MODULE RuntimePolicy ---------------------------
(***************************************************************************)
(* RuntimeConfigService: REST updates of the MITM, hooks and network       *)
(* sections of the runtime policy.  Updates are serialized by one FIFO     *)
(* mutex; the update that holds it validates, writes a temporary file,     *)
(* syncs it, renames it over the policy file (the commit point), syncs the *)
(* directory, publishes the live snapshot and replaces `current`.  The     *)
(* transaction runs in a task of its own, so a client that disconnects     *)
(* cancels it only while it is still queued.  The broker process may be    *)
(* killed and the machine may lose power between any two steps.            *)
(*                                                                         *)
(* A policy is a function from sections to values.  The network section    *)
(* may be absent (Inherit): the live route then comes from the startup     *)
(* configuration.                                                          *)
(***************************************************************************)
EXTENDS Naturals, Sequences

CONSTANTS
    Updates,   \* REST updates clients may submit
    Values,    \* values a section can take
    Default,   \* the value of a section no file mentions
    Invalid,   \* a value validation rejects
    Inherit,   \* the network section is absent
    MaxFaults  \* bound on kills and power losses

ASSUME RuntimePolicyAssumption ==
    /\ Default \in Values
    /\ Invalid \notin Values /\ Inherit \notin Values /\ Invalid # Inherit
    /\ MaxFaults \in Nat

VARIABLES
    broker,     \* "up" or "down"
    startup,    \* upstream route of the startup configuration
    current,    \* RuntimePolicyTransaction::current
    live,       \* snapshots the engine, the hooks and new connections use
    file,       \* policy file as the file system shows it
    disk,       \* policy file a power loss falls back to
    flushed,    \* the temporary file's bytes are on disk
    solid,      \* the policy file's bytes are on disk
    queue,      \* transaction mutex: holder first
    stage,      \* progress of each update
    section, value, candidate,
    expected,   \* history: the commits so far, applied in order
    faults

vars == <<broker, startup, current, live, file, disk, flushed, solid, queue,
          stage, section, value, candidate, expected, faults>>
diskVars == <<file, disk, flushed, solid, expected>>
memVars == <<broker, startup, current, live>>

Sections == {"mitm", "hooks", "network"}
Corrupt == [s \in Sections |-> Invalid]
DefaultPolicy == [s \in Sections |-> IF s = "network" THEN Inherit ELSE Default]
Policies == {p \in [Sections -> Values \cup {Inherit}] :
                p["mitm"] # Inherit /\ p["hooks"] # Inherit}

(* An absent network section means the startup route.                      *)
Effective(p, s) == [p EXCEPT !["network"] = IF @ = Inherit THEN s ELSE @]

Stages == {"idle", "queued", "writing", "written", "synced", "installed",
           "publishing", "done", "failed", "cancelled"}
Running == {"writing", "written", "synced", "installed", "publishing"}

(* The broker has loaded its (absent) policy file: RuntimePolicies::load   *)
(* falls back to the defaults.                                             *)
Init ==
    /\ broker = "up" /\ startup = Default
    /\ current = DefaultPolicy /\ live = Effective(DefaultPolicy, Default)
    /\ file = DefaultPolicy /\ disk = DefaultPolicy
    /\ flushed = FALSE /\ solid = TRUE
    /\ queue = <<>>
    /\ stage = [u \in Updates |-> "idle"]
    /\ section = [u \in Updates |-> "mitm"]
    /\ value = [u \in Updates |-> Default]
    /\ candidate = [u \in Updates |-> DefaultPolicy]
    /\ expected = DefaultPolicy
    /\ faults = 0

Holds(u) == queue # <<>> /\ Head(queue) = u

(* A waiter that gives up leaves its place in the queue.                   *)
Without(q, u) ==
    LET i == CHOOSE i \in 1..Len(q) : q[i] = u
    IN  [j \in 1..(Len(q) - 1) |-> IF j < i THEN q[j] ELSE q[j + 1]]

-----------------------------------------------------------------------------
(* PUT /v1/{mitm,hooks,network}/config: the request waits for the mutex.   *)
Submit(u, s, v) ==
    /\ broker = "up" /\ stage[u] = "idle"
    /\ stage' = [stage EXCEPT ![u] = "queued"]
    /\ section' = [section EXCEPT ![u] = s]
    /\ value' = [value EXCEPT ![u] = v]
    /\ queue' = Append(queue, u)
    /\ UNCHANGED <<memVars, diskVars, candidate, faults>>

(* Mutant: a disconnect also stops a transaction that owns the lock.       *)
CancelRunning(u) ==
    /\ stage[u] \in {"queued"} \cup Running
    /\ stage' = [stage EXCEPT ![u] = "cancelled"]
    /\ queue' = Without(queue, u)
    /\ UNCHANGED <<memVars, diskVars, section, value, candidate, faults>>

(* Dropping a queued request takes it out of the mutex queue; afterwards   *)
(* the transaction owns the lock and goes on without its client.           *)
Cancel(u) ==
    /\ stage[u] = "queued"
    /\ stage' = [stage EXCEPT ![u] = "cancelled"]
    /\ queue' = Without(queue, u)
    /\ UNCHANGED <<memVars, diskVars, section, value, candidate, faults>>

(* Mutant: the update is not validated.                                    *)
(* Validation (hooks policies need none), then a candidate that differs    *)
(* from the committed policy in this section only.                         *)
Begin(u) ==
    /\ Holds(u) /\ stage[u] = "queued"
    /\ IF value[u] = Invalid /\ section[u] # "hooks"
       THEN /\ stage' = [stage EXCEPT ![u] = "failed"]
            /\ queue' = Tail(queue)
            /\ UNCHANGED candidate
       ELSE /\ stage' = [stage EXCEPT ![u] = "writing"]
            /\ candidate' = [candidate EXCEPT ![u] =
                                [current EXCEPT ![section[u]] = value[u]]]
            /\ UNCHANGED queue
    /\ UNCHANGED <<memVars, diskVars, section, value, faults>>

(* persist up to the rename: any step of it may fail, and then only the    *)
(* temporary file is removed.                                              *)
WriteTemporary(u) ==
    /\ stage[u] = "writing"
    /\ stage' = [stage EXCEPT ![u] = "written"]
    /\ flushed' = FALSE
    /\ UNCHANGED <<memVars, file, disk, solid, expected, queue, section, value,
                   candidate, faults>>

(* Mutant: the temporary file is renamed without being synced.             *)
SyncTemporarySkipped(u) ==
    /\ stage[u] = "written"
    /\ stage' = [stage EXCEPT ![u] = "synced"]
    /\ UNCHANGED <<memVars, diskVars, queue, section, value, candidate, faults>>

SyncTemporary(u) ==
    /\ stage[u] = "written"
    /\ stage' = [stage EXCEPT ![u] = "synced"]
    /\ flushed' = TRUE
    /\ UNCHANGED <<memVars, file, disk, solid, expected, queue, section, value,
                   candidate, faults>>

(* Mutant: the error path keeps the mutex.                                 *)
PersistFailsLocked(u) ==
    /\ stage[u] \in {"writing", "written", "synced"}
    /\ stage' = [stage EXCEPT ![u] = "failed"]
    /\ UNCHANGED <<queue, memVars, diskVars, section, value, candidate, faults>>

PersistFails(u) ==
    /\ stage[u] \in {"writing", "written", "synced"}
    /\ stage' = [stage EXCEPT ![u] = "failed"]
    /\ queue' = Tail(queue)
    /\ UNCHANGED <<memVars, diskVars, section, value, candidate, faults>>

(* The rename.                                                             *)
Install(u) ==
    /\ stage[u] = "synced"
    /\ stage' = [stage EXCEPT ![u] = "installed"]
    /\ file' = candidate[u]
    /\ solid' = flushed
    /\ expected' = [expected EXCEPT ![section[u]] = value[u]]
    /\ UNCHANGED <<memVars, disk, flushed, queue, section, value, candidate, faults>>

(* A failed directory sync is logged; the update still goes through.       *)
SyncDirectory(u) ==
    /\ stage[u] = "installed"
    /\ disk' \in {file, disk}
    /\ stage' = [stage EXCEPT ![u] = "publishing"]
    /\ UNCHANGED <<memVars, file, flushed, solid, expected, queue, section,
                   value, candidate, faults>>

(* Mutant: the committed policy is not remembered for the next update.     *)
PublishForgets(u) ==
    /\ stage[u] = "publishing"
    /\ live' = [live EXCEPT ![section[u]] = value[u]]
    /\ stage' = [stage EXCEPT ![u] = "done"]
    /\ queue' = Tail(queue)
    /\ UNCHANGED <<broker, startup, current, diskVars, section, value, candidate,
                   faults>>

Publish(u) ==
    /\ stage[u] = "publishing"
    /\ live' = [live EXCEPT ![section[u]] = value[u]]
    /\ current' = candidate[u]
    /\ stage' = [stage EXCEPT ![u] = "done"]
    /\ queue' = Tail(queue)
    /\ UNCHANGED <<broker, startup, diskVars, section, value, candidate, faults>>

-----------------------------------------------------------------------------
Down ==
    /\ broker = "up" /\ faults < MaxFaults
    /\ faults' = faults + 1
    /\ broker' = "down"
    /\ queue' = <<>>
    /\ stage' = [u \in Updates |-> IF stage[u] \in Running \cup {"queued"}
                                   THEN "failed" ELSE stage[u]]
    /\ UNCHANGED <<startup, current, live, section, value, candidate>>

(* The process is killed: the file system keeps what it shows.             *)
Kill == Down /\ UNCHANGED diskVars

(* A power loss may undo an unsynced rename and lose unsynced bytes.       *)
PowerLoss ==
    /\ Down
    /\ file' \in {disk, IF solid THEN file ELSE Corrupt}
    /\ disk' = file' /\ flushed' = FALSE /\ solid' = TRUE
    /\ expected' = file'

(* RuntimePolicies::load and NetworkRuntime::new, with the startup         *)
(* configuration of the day.                                               *)
Restart(s) ==
    /\ broker = "down"
    /\ file \in Policies
    /\ broker' = "up" /\ startup' = s
    /\ current' = file /\ live' = Effective(file, s)
    /\ UNCHANGED <<diskVars, queue, stage, section, value, candidate, faults>>

-----------------------------------------------------------------------------
TransactionStep(u) ==
    \/ Begin(u) \/ WriteTemporary(u) \/ SyncTemporary(u) \/ PersistFails(u)
    \/ Install(u) \/ SyncDirectory(u) \/ Publish(u)

(* Hooks values are all acceptable: only the other sections can be sent an *)
(* invalid one.                                                            *)
Next ==
    \/ \E u \in Updates :
          \/ \E s \in Sections, v \in Values : Submit(u, s, v)
          \/ \E s \in Sections \ {"hooks"} : Submit(u, s, Invalid)
          \/ Cancel(u) \/ TransactionStep(u)
    \/ Kill \/ PowerLoss
    \/ \E s \in Values : Restart(s)

Spec == Init /\ [][Next]_vars

(* The runtime runs the task that owns the transaction.                    *)
FairSpec == Spec /\ \A u \in Updates : WF_vars(TransactionStep(u))

-----------------------------------------------------------------------------
(* Properties.                                                             *)

TypeOK ==
    /\ broker \in {"up", "down"} /\ startup \in Values
    /\ current \in Policies /\ live \in Policies
    /\ file \in Policies \cup {Corrupt} /\ disk \in Policies \cup {Corrupt}
    /\ flushed \in BOOLEAN /\ solid \in BOOLEAN
    /\ queue \in Seq(Updates)
    /\ stage \in [Updates -> Stages]
    /\ section \in [Updates -> Sections]
    /\ value \in [Updates -> Values \cup {Invalid}]
    /\ candidate \in [Updates -> Policies]
    /\ expected \in Policies \cup {Corrupt}
    /\ faults \in 0..MaxFaults

Committing == \E u \in Updates : stage[u] \in {"installed", "publishing"}

(* "Treating the already-visible update as rejected would split the        *)
(* broker's durable and live state": except between the rename and the     *)
(* publication of one update, the live policy is the one a restart would   *)
(* load, whatever failed, was cancelled or was rejected before.            *)
LiveIsDurable ==
    broker = "up" /\ ~Committing =>
        current = file /\ live = Effective(file, startup)

(* Concurrent updates of different sections never undo each other: the     *)
(* policy file is exactly the committed updates applied in commit order.   *)
NoLostUpdate == file = expected

(* Every crash leaves a policy file the broker can load.                   *)
AlwaysLoadable == file \in Policies /\ disk \in Policies

(* An update that reached the mutex is decided, and one that was queued    *)
(* gets its turn: no transaction keeps the lock.                           *)
UpdatesDecided ==
    \A u \in Updates :
        stage[u] = "queued" ~> stage[u] \in {"done", "failed", "cancelled"}
=============================================================================
