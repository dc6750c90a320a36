---------------------------- MODULE EventStream -----------------------------
(***************************************************************************)
(* What the plugin protocol promises a consumer, without sessions, frames  *)
(* or transports: a consumer subscribes at the live end of the event       *)
(* sequence and receives a contiguous run of it; it is cut off as too slow *)
(* only when it really is more than Capacity events behind, and told of a  *)
(* shutdown only when there is one.                                        *)
(***************************************************************************)
EXTENDS Naturals, Sequences

CONSTANTS Consumers, Capacity, MaxEvents

VARIABLES
    published,   \* events produced so far
    stopping,    \* the producer is shutting down
    from,        \* first event of each subscription (0: none)
    delivered,   \* event numbers each consumer has received
    fate         \* why the consumer's stream ends ("live": it does not yet)

vars == <<published, stopping, from, delivered, fate>>

Init ==
    /\ published = 0
    /\ stopping = FALSE
    /\ from = [c \in Consumers |-> 0]
    /\ delivered = [c \in Consumers |-> <<>>]
    /\ fate = [c \in Consumers |-> "live"]

Publish ==
    /\ published < MaxEvents
    /\ published' = published + 1
    /\ UNCHANGED <<stopping, from, delivered, fate>>

Stop ==
    /\ ~stopping
    /\ stopping' = TRUE
    /\ UNCHANGED <<published, from, delivered, fate>>

Subscribe(c) ==
    /\ from[c] = 0 /\ fate[c] = "live"
    /\ from' = [from EXCEPT ![c] = published + 1]
    /\ UNCHANGED <<published, stopping, delivered, fate>>

Upcoming(c) == from[c] + Len(delivered[c])

(* Events already on their way still arrive after the stream's fate is     *)
(* decided.                                                                *)
Deliver(c) ==
    /\ from[c] > 0 /\ Upcoming(c) <= published
    /\ delivered' = [delivered EXCEPT ![c] = Append(@, Upcoming(c))]
    /\ UNCHANGED <<published, stopping, from, fate>>

Finish(c, why) ==
    /\ fate[c] = "live"
    /\ why = "slow" => from[c] > 0 /\ published + 1 > Upcoming(c) + Capacity
    /\ why = "shutdown" => from[c] > 0 /\ stopping
    /\ fate' = [fate EXCEPT ![c] = why]
    /\ UNCHANGED <<published, stopping, from, delivered>>

(* The producer fails: every stream still live is cut at once.             *)
Fail ==
    /\ \E S \in SUBSET {c \in Consumers : fate[c] = "live"} :
          fate' = [c \in Consumers |-> IF c \in S THEN "cut" ELSE fate[c]]
    /\ UNCHANGED <<published, stopping, from, delivered>>

Next ==
    \/ Publish \/ Stop \/ Fail
    \/ \E c \in Consumers :
          \/ Subscribe(c) \/ Deliver(c)
          \/ \E why \in {"slow", "shutdown", "cut"} : Finish(c, why)

Spec == Init /\ [][Next]_vars
=============================================================================
