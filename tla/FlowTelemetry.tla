---------------------------- MODULE FlowTelemetry ----------------------------
(***************************************************************************)
(* What the broker counts of its flows: ProxyConnection::run with the      *)
(* traffic monitor, the flow diagnostics and the persisted observations.   *)
(* Relay tasks report bytes on their own; observations are written by      *)
(* detached blocking tasks; the drain of the proxy aborts connections.     *)
(***************************************************************************)
EXTENDS Naturals, Sequences, FiniteSets, SequencesExt, FiniteSetsExt, Functions, Bags

CONSTANTS
    Connections,        \* accepted connections, with an order of their uuids
    HostOf,             \* the host a connection's record is filed under
    RateBucketMs,       \* RATE_BUCKET_MS
    RateWindowMs,       \* RATE_WINDOW_MS
    MaxRateBuckets,     \* MAX_RATE_BUCKETS
    MaxAggregateKeys,   \* MAX_AGGREGATE_KEYS
    MaxRecentFlows,     \* MAX_RECENT_FLOWS
    MaxPersisted,       \* MAX_PERSISTED_OBSERVATIONS
    MaxClock,           \* bound: the clock
    MaxReports          \* bound: byte reports

ASSUME FlowTelemetryAssumption ==
    /\ Connections \subseteq Nat /\ RateBucketMs \in Nat \ {0} /\ MaxRateBuckets \in Nat \ {0}
    /\ RateWindowMs \in Nat /\ RateWindowMs >= RateBucketMs
    /\ MaxRateBuckets * RateBucketMs >= RateWindowMs + RateBucketMs
    /\ MaxAggregateKeys \in Nat \ {0} /\ MaxRecentFlows \in Nat \ {0} /\ MaxPersisted \in Nat \ {0}

VARIABLES
    clock,      \* current_unix_ms
    task,       \* connection -> where its task is
    finished,   \* connections whose TrafficFlowHandle is finished
    traffic,    \* the monitor: flows, total, buckets
    diag,       \* FlowDiagnosticsState
    writes,     \* observations handed to spawn_blocking and not yet written
    table,      \* rows of network_observations
    reports,    \* history: bag of the <<time, connection>> of every byte report accepted
    written,    \* history: observations inserted
    aborted,    \* history: flows the drain aborted
    steady      \* history: the clock never went back

telemetryVars == <<clock, task, finished, traffic, diag, writes, table, reports, written, aborted, steady>>

OtherKey == "<other>"
SumOf(f) == FoldFunction(+, 0, f)
Entered(map, key, n) == [k \in DOMAIN map \cup {key} |-> IF k = key THEN n ELSE map[k]]

TelemetryInit ==
    /\ clock = 0 /\ task = [c \in Connections |-> "idle"] /\ finished = {}
    /\ traffic = [flows |-> <<>>, total |-> 0, buckets |-> <<>>]
    /\ diag = [accepted |-> 0, completed |-> 0, in_flight |-> 0, accept_errors |-> 0,
               by_host |-> <<>>, recent |-> <<>>]
    /\ writes = {} /\ table = {} /\ reports = EmptyBag /\ written = {} /\ aborted = {} /\ steady = TRUE

\* The wall clock, which may also be set back.
Tick == /\ clock < MaxClock /\ clock' = clock + 1
        /\ UNCHANGED <<task, finished, traffic, diag, writes, table, reports, written, aborted, steady>>
ClockBack == /\ clock > RateBucketMs /\ steady /\ clock' = clock - RateBucketMs /\ steady' = FALSE
             /\ UNCHANGED <<task, finished, traffic, diag, writes, table, reports, written, aborted>>

----------------------------------------------------------------------------
\* TrafficState.

(* Mutant: keeps one bucket less. *)
ensure_bucket_short(buckets, now) ==
    LET start == now - (now % RateBucketMs)
        all == IF buckets # <<>> /\ Last(buckets).start = start THEN buckets
               ELSE Append(buckets, [start |-> start, bytes |-> 0])
    IN  SubSeq(all, Max({1, Len(all) - MaxRateBuckets + 2}), Len(all))
ensure_bucket(buckets, now) ==
    LET start == now - (now % RateBucketMs)
        all == IF buckets # <<>> /\ Last(buckets).start = start THEN buckets
               ELSE Append(buckets, [start |-> start, bytes |-> 0])
    IN  SubSeq(all, Max({1, Len(all) - MaxRateBuckets + 1}), Len(all))
Cutoff(now) == IF now > RateWindowMs THEN now - RateWindowMs ELSE 0
Live(bucket, now) == bucket.start + RateBucketMs >= Cutoff(now)
\* prune_buckets drops from the front up to the first live bucket.
prune_buckets(buckets, now) ==
    LET first == SelectInSeq(buckets, LAMBDA b : Live(b, now))
    IN  IF first = 0 THEN <<>> ELSE SubSeq(buckets, first, Len(buckets))
recent_bytes(buckets, now) ==
    SumOf([i \in DOMAIN buckets |-> IF Live(buckets[i], now) THEN buckets[i].bytes ELSE 0])
rate_elapsed_ms(buckets, now) ==
    IF buckets = <<>> THEN RateBucketMs
    ELSE LET first == Head(buckets).start
             elapsed == (IF now > first THEN now - first ELSE 0) + RateBucketMs
         IN  Min({Max({elapsed, RateBucketMs}), RateWindowMs})

\* TrafficObserver::record_bytes of a relay task, before the flow finished or
\* after it.
record_bytes(c) ==
    /\ task[c] \in {"running", "ended", "aborted"} /\ SumOf(reports) < MaxReports
    /\ c \notin finished /\ c \in DOMAIN traffic.flows
    /\ \E buckets \in {ensure_bucket(traffic.buckets, clock)} :
         traffic' = [traffic EXCEPT !.flows[c] = @ + 1, !.total = @ + 1,
                                    !.buckets = [buckets EXCEPT ![Len(buckets)].bytes = @ + 1]]
    /\ reports' = reports (+) SetToBag({<<clock, c>>})
    /\ UNCHANGED <<clock, task, finished, diag, writes, table, written, aborted, steady>>

finish(c) ==    \* TrafficFlowHandle::finish, once
    /\ finished' = finished \cup {c}
    /\ traffic' = IF c \in finished THEN traffic
                  ELSE [traffic EXCEPT !.flows = Restrict(@, DOMAIN @ \ {c})]
\* TrafficMonitor::snapshot prunes as it reads.
TrafficSnapshot ==
    /\ traffic' = [traffic EXCEPT !.buckets = prune_buckets(@, clock)] /\ traffic' # traffic
    /\ UNCHANGED <<clock, task, finished, diag, writes, table, reports, written, aborted, steady>>
bytes_per_second(buckets, now) ==
    LET kept == prune_buckets(buckets, now)
    IN  (recent_bytes(kept, now) * 1000) \div rate_elapsed_ms(kept, now)

----------------------------------------------------------------------------
\* ProxyConnection::run.

increment_bounded(map, key) ==
    LET k == IF key \in DOMAIN map \/ Cardinality(DOMAIN map) < MaxAggregateKeys THEN key ELSE OtherKey
    IN  Entered(map, k, IF k \in DOMAIN map THEN map[k] + 1 ELSE 1)
push_bounded(records, r, max) ==
    LET all == Append(records, r) IN SubSeq(all, Max({1, Len(all) - max + 1}), Len(all))

\* into_flow failed: counted as an accept error, and observed when the
\* upstream proxy was the reason.
record_ingress_error(c, proxied) ==
    /\ task[c] = "idle" /\ task' = [task EXCEPT ![c] = "refused"]
    /\ diag' = [diag EXCEPT !.accept_errors = @ + 1]
    /\ writes' = IF proxied THEN writes \cup {<<clock, c>>} ELSE writes
    /\ UNCHANGED <<clock, finished, traffic, table, reports, written, aborted, steady>>
\* record_accepted and start_flow.
record_accepted(c) ==
    /\ task[c] = "idle" /\ task' = [task EXCEPT ![c] = "running"]
    /\ diag' = [diag EXCEPT !.accepted = @ + 1, !.in_flight = @ + 1]
    /\ traffic' = [traffic EXCEPT !.flows = Entered(@, c, 0)]
    /\ UNCHANGED <<clock, finished, writes, table, reports, written, aborted, steady>>
\* handle_flow returned: the handle is finished before anything is recorded.
run_flow_ends(c) ==
    /\ task[c] = "running" /\ task' = [task EXCEPT ![c] = "ended"] /\ finish(c)
    /\ UNCHANGED <<clock, diag, writes, table, reports, written, aborted, steady>>
\* record_outcome or record_failure, with record_completed.
record_completed(c) ==
    /\ task[c] = "ended" /\ task' = [task EXCEPT ![c] = "done"]
    /\ diag' = [diag EXCEPT !.completed = @ + 1, !.in_flight = IF @ = 0 THEN 0 ELSE @ - 1,
                            !.by_host = increment_bounded(@, HostOf[c]),
                            !.recent = push_bounded(@, c, MaxRecentFlows)]
    /\ writes' = writes \cup {<<clock, c>>}
    /\ UNCHANGED <<clock, finished, traffic, table, reports, written, aborted, steady>>
\* The drain drops the task: the guard finishes the handle, nothing is
\* recorded.
TrafficFlowFinishGuard(c) ==
    /\ task[c] = "running" /\ task' = [task EXCEPT ![c] = "aborted"] /\ finish(c)
    /\ aborted' = aborted \cup {c}
    /\ UNCHANGED <<clock, diag, writes, table, reports, written, steady>>

----------------------------------------------------------------------------
\* NetworkObservationStore, called by the blocking pool in any order.

Newer(a, b) == a[1] > b[1] \/ (a[1] = b[1] /\ a[2] > b[2])
Newest(rows, n) == {r \in rows : Cardinality({s \in rows : Newer(s, r)}) < n}
prune_observations(rows) == Newest(rows, MaxPersisted)
\* insert and its pruning are one transaction; a failure is only logged.
insert(o) ==
    /\ o \in writes /\ writes' = writes \ {o}
    /\ \/ table' = prune_observations(table \cup {o}) /\ written' = written \cup {o}
       \/ UNCHANGED <<table, written>>
    /\ UNCHANGED <<clock, task, finished, traffic, diag, reports, aborted, steady>>

TelemetryNext ==
    \/ Tick \/ ClockBack \/ TrafficSnapshot
    \/ \E c \in Connections :
         \/ record_ingress_error(c, TRUE) \/ record_ingress_error(c, FALSE)
         \/ record_accepted(c) \/ run_flow_ends(c) \/ TrafficFlowFinishGuard(c)
         \/ record_bytes(c) \/ record_completed(c)
    \/ \E o \in writes : insert(o)

InState(s) == {c \in Connections : task[c] = s}

\* Every bounded structure is within its bound; by_host may hold one key
\* more than its limit, the one for the rest.
TelemetryTypeOK ==
    /\ Len(traffic.buckets) <= MaxRateBuckets
    /\ Cardinality(DOMAIN diag.by_host) <= MaxAggregateKeys + 1
    /\ Len(diag.recent) <= MaxRecentFlows /\ Cardinality(table) <= MaxPersisted

\* The counters of /v1/support/diagnostics add up: what was accepted is
\* completed or in flight, every completion is filed under one host, and
\* in_flight is the flows that run plus the ones a drain aborted, which stay
\* counted.
CountersAddUp ==
    /\ diag.accepted = diag.completed + diag.in_flight
    /\ diag.in_flight = Cardinality(InState("running") \cup InState("ended") \cup aborted)
    /\ SumOf(diag.by_host) = diag.completed

\* A flow is active in the monitor exactly while its connection task runs,
\* however the task ends and whichever relay task reports last.
ActiveFlowsExact == DOMAIN traffic.flows = InState("running")

\* No byte is counted twice or lost: the total is every report, and an
\* active flow's own count is its reports.
TrafficTotalsExact ==
    /\ traffic.total = SumOf(reports)
    /\ \A c \in DOMAIN traffic.flows :
         traffic.flows[c] = SumOf(Restrict(reports, {r \in DOMAIN reports : r[2] = c}))

\* With a clock that does not go back, no byte of the last window is missing
\* from the rate, however few buckets are kept and whenever it is sampled: the
\* rate shown is at least the average over the window.
RateWindowComplete ==
    steady => bytes_per_second(traffic.buckets, clock)
                >= (1000 * SumOf(Restrict(reports, {r \in DOMAIN reports : r[1] >= Cutoff(clock)}))) \div RateWindowMs

\* Observations are inserted by detached tasks in any order: the table is
\* still the newest ones.
TableKeepsNewest == table = Newest(written, MaxPersisted)

\* What the broker says of its traffic: counters, active flows, totals, rate
\* and stored observations are exact and bounded.
AccountsExact ==
    /\ TelemetryTypeOK /\ CountersAddUp /\ ActiveFlowsExact
    /\ TrafficTotalsExact /\ RateWindowComplete /\ TableKeepsNewest

=============================================================================
