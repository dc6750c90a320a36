---------------------------- MODULE AgentTurns -----------------------------
(* The WebSocket accumulator of the agent hook: frames of several sockets   *)
(* are read one after the other, grouped into turns per flow, and a turn is *)
(* handed on when the provider ends it.  Turns are bounded in number (the   *)
(* one heard longest ago is given up), in age and in size.                  *)
EXTENDS Integers, Sequences, FiniteSets, SequencesExt, FiniteSetsExt

CONSTANTS
    Flows,
    MaxPending,      \* MAX_PENDING_TURNS
    MaxDocuments,    \* MAX_RESPONSE_DOCUMENTS, and the bytes they may hold
    Ttl,             \* PENDING_TURN_TTL
    MaxClock, MaxFrames   \* bounds of the model
ASSUME TurnsAssumption ==
    /\ MaxPending \in Nat \ {0} /\ MaxDocuments \in Nat /\ Ttl \in Nat
    /\ MaxClock \in Nat /\ MaxFrames \in Nat

VARIABLES
    clock,
    frames,     \* frames seen so far; also numbers them
    observed,   \* the policy detects the harness and has the hook enabled
    pending,    \* turns by flow
    heard,      \* per flow, the frames pushed since a turn was handed on
    dropped,    \* flows whose turn was given up, or not watched, since then
    handed      \* what the last frame handed on
turnVars == <<clock, frames, observed, pending, heard, dropped, handed>>

Nothing == [flow |-> "none"]
Unknown == "unknown"

-----------------------------------------------------------------------------
(* A turn.                                                                   *)

NewTurn ==
    [exchange |-> FALSE, requests |-> <<>>, requestSeen |-> FALSE, generates |-> Unknown,
     identity |-> 0, documents |-> <<>>, overflowed |-> FALSE,
     requestFailed |-> FALSE, responseFailed |-> FALSE, ended |-> FALSE, at |-> 0, order |-> 0]

\* The first frame brings the exchange; later ones are merged into it.  The
\* first request with content identifies the turn.
merge_exchange(turn, frame, identifies) ==
    [turn EXCEPT
        !.exchange = TRUE,
        !.generates = IF frame.kind # "request" THEN @
                      ELSE IF @ = "yes" THEN @ ELSE frame.generate,
        !.identity = IF ~turn.exchange \/ identifies THEN frame.n ELSE @,
        !.ended = @ \/ frame.kind = "terminal"]
merge_request_conversation(turn, frame) ==
    [turn EXCEPT !.requests = IF frame.content THEN Append(@, frame.n) ELSE @,
                 !.requestSeen = TRUE]
\* Once over the limit nothing more is kept: a gap would read as an answer.
buffer_response_document(turn, frame) ==
    IF turn.overflowed THEN turn
    ELSE IF Len(turn.documents) >= MaxDocuments
         THEN [turn EXCEPT !.overflowed = TRUE]
         ELSE [turn EXCEPT !.documents = Append(@, frame.n)]
record(turn, frame) ==
    CASE frame.kind = "request" ->
             merge_exchange(merge_request_conversation(turn, frame), frame,
                            turn.requests = <<>> /\ frame.content)
      [] frame.kind \in {"delta", "terminal"} ->
             merge_exchange(buffer_response_document(turn, frame), frame, FALSE)
      [] frame.kind = "badRequest" -> [turn EXCEPT !.requestFailed = TRUE]
      [] OTHER -> [turn EXCEPT !.responseFailed = TRUE]

\* What a complete turn is handed on as.
Marked(failed, otherwise) == IF failed /\ otherwise = "complete" THEN "partial" ELSE otherwise
complete(f, turn) ==
    [flow |-> f, requests |-> turn.requests, documents |-> turn.documents, identity |-> turn.identity,
     request |-> Marked(turn.requestFailed, IF turn.requestSeen THEN "complete" ELSE "unsupported"),
     response |-> IF turn.overflowed \/ turn.responseFailed THEN "partial"
                  ELSE IF turn.documents # <<>> THEN "complete" ELSE "unsupported",
     generates |-> IF turn.requestFailed THEN Unknown ELSE turn.generates,
     heard |-> heard[f], gap |-> f \in dropped]

-----------------------------------------------------------------------------
(* The accumulator.                                                          *)

WithoutTurns(p, gone) == [f \in DOMAIN p \ gone |-> p[f]]
Retained(p) == WithoutTurns(p, {f \in DOMAIN p : clock - p[f].at > Ttl})
Oldest(p) == CHOOSE f \in DOMAIN p : \A g \in DOMAIN p : p[f].order <= p[g].order
\* Mutant: the newest turn makes room.
EvictsNewest(p) ==
    IF Cardinality(DOMAIN p) >= MaxPending
    THEN WithoutTurns(p, {CHOOSE f \in DOMAIN p : \A g \in DOMAIN p : p[f].order >= p[g].order})
    ELSE p
MakeRoom(p) == IF Cardinality(DOMAIN p) >= MaxPending THEN WithoutTurns(p, {Oldest(p)}) ELSE p

Push(f, frame) ==
    LET kept == Retained(pending)
        others == WithoutTurns(kept, {f})
        turn == record(IF f \in DOMAIN kept THEN kept[f] ELSE NewTurn, frame)
        room == MakeRoom(others)
    IN  IF turn.exchange /\ turn.ended
        THEN /\ pending' = others
             /\ handed' = [complete(f, turn) EXCEPT !.gap = @ \/ (f \in DOMAIN pending \ DOMAIN kept),
                                                    !.heard = Append(heard[f], frame)]
             /\ heard' = [heard EXCEPT ![f] = <<>>]
             /\ dropped' = (dropped \cup (DOMAIN pending \ DOMAIN others)) \ {f}
        ELSE /\ pending' = [g \in DOMAIN room \cup {f} |->
                               IF g = f THEN [turn EXCEPT !.at = clock, !.order = frame.n] ELSE room[g]]
             /\ handed' = Nothing
             /\ heard' = [heard EXCEPT ![f] = Append(@, frame)]
             /\ dropped' = dropped \cup (DOMAIN pending \ (DOMAIN room \cup {f}))
                                   \cup (IF f \in DOMAIN pending \ DOMAIN kept THEN {f} ELSE {})

TurnsInit ==
    /\ clock = 0 /\ frames = 0
    /\ observed = TRUE
    /\ pending = <<>>
    /\ heard = [f \in Flows |-> <<>>]
    /\ dropped = {} /\ handed = Nothing

\* A frame of a socket: a request (an empty one says nothing), part of the
\* answer, or its end; text that is not JSON cannot be told apart.
FrameKinds == {"request", "empty", "delta", "terminal", "badRequest", "badResponse"}
Frame(kind, generate) ==
    [kind |-> IF kind = "empty" THEN "request" ELSE kind, content |-> kind # "empty",
     generate |-> generate, n |-> frames + 1]
\* The hook runs only while the policy has it on and detects the harness.
websocket_events(f, frame) ==
    /\ frames < MaxFrames
    /\ frames' = frames + 1
    /\ IF observed THEN Push(f, frame)
       ELSE /\ dropped' = dropped \cup {f}
            /\ handed' = Nothing
            /\ UNCHANGED <<pending, heard>>
    /\ UNCHANGED <<clock, observed>>
\* A ping, or a document no assembler reads, is not pushed.
IrrelevantFrame ==
    /\ handed' = Nothing
    /\ UNCHANGED <<clock, frames, observed, pending, heard, dropped>>
ReplacePolicy ==
    /\ observed' = ~observed
    /\ handed' = Nothing
    /\ UNCHANGED <<clock, frames, pending, heard, dropped>>
Tick ==
    /\ clock < MaxClock
    /\ clock' = clock + 1
    /\ handed' = Nothing
    /\ UNCHANGED <<frames, observed, pending, heard, dropped>>
TurnsNext ==
    \/ \E f \in Flows, kind \in FrameKinds, generate \in {"yes", "no"} :
          /\ kind # "request" => generate = "yes"
          /\ websocket_events(f, Frame(kind, generate))
    \/ IrrelevantFrame \/ ReplacePolicy \/ Tick
TurnsSpec == TurnsInit /\ [][TurnsNext]_turnVars

-----------------------------------------------------------------------------
(* Properties.                                                               *)

\* The numbers of the frames that asked or answered something.
Asked(seq) == {x.n : x \in {y \in ToSet(seq) : y.kind = "request" /\ y.content}}
Answered(seq) == {x.n : x \in {y \in ToSet(seq) : y.kind \in {"delta", "terminal"}}}
Bad(seq, kind) == \E n \in DOMAIN seq : seq[n].kind = kind
Emitted == handed # Nothing
\* Frames of other sockets, and frames already handed on, never enter a turn,
\* and those that do keep their order.
InOrder(seq) == \A m, n \in DOMAIN seq : m < n => seq[m] < seq[n]
NoMixing ==
    Emitted => /\ ToSet(handed.requests) \subseteq Asked(handed.heard) /\ InOrder(handed.requests)
               /\ ToSet(handed.documents) \subseteq Answered(handed.heard) /\ InOrder(handed.documents)
\* A turn that was watched from its first to its last frame is handed on as
\* the socket carried it, and whatever could not be read or kept is marked:
\* no answer is left out before one that is there.
WholeTurnExact ==
    Emitted /\ ~handed.gap =>
        /\ ToSet(handed.requests) = Asked(handed.heard)
        /\ \A d \in ToSet(handed.documents), a \in Answered(handed.heard) :
               a < d => a \in ToSet(handed.documents)
        /\ (handed.response = "complete")
               <=> /\ ToSet(handed.documents) = Answered(handed.heard)
                   /\ ~Bad(handed.heard, "badResponse")
        /\ Bad(handed.heard, "badRequest") => handed.request # "complete"
        /\ \A q \in Asked(handed.heard) : handed.identity \in Asked(handed.heard) /\ handed.identity <= q
\* An answer is told as prewarming only when every request that was read
\* declined output, and none was unreadable.
PrewarmOnly ==
    Emitted /\ ~handed.gap /\ handed.generates = "no" =>
        /\ ~Bad(handed.heard, "badRequest")
        /\ \A n \in DOMAIN handed.heard : handed.heard[n].kind = "request" => handed.heard[n].generate = "no"
\* The accumulator is bounded, and gives a turn up only when it is idle for
\* longer than the limit or enough other flows were heard after it.
Bounded ==
    /\ Cardinality(DOMAIN pending) <= MaxPending
    /\ \A f \in DOMAIN pending : Len(pending[f].documents) <= MaxDocuments
LastHeard(f) == IF heard[f] = <<>> THEN 0 ELSE heard[f][Len(heard[f])].n
GivesUpFairly ==
    \A f \in DOMAIN pending \ DOMAIN pending' :
        \/ handed' # Nothing /\ handed'.flow = f
        \/ clock - pending[f].at > Ttl
        \/ Cardinality({g \in DOMAIN pending' : LastHeard(g)' > pending[f].order}) >= MaxPending
\* Every end of a turn that is watched is handed on at once, and then the
\* flow starts afresh: an old answer is never told again.
EndsOnce ==
    Emitted => handed.flow \notin DOMAIN pending /\ heard[handed.flow] = <<>>

(* A WebSocket turn is told once, whole or marked, and only of its own      *)
(* frames (responses/websocket.rs).                                          *)
TurnsFaithful ==
    /\ [](NoMixing /\ WholeTurnExact /\ PrewarmOnly /\ Bounded /\ EndsOnce)
    /\ [][GivesUpFairly]_turnVars
=============================================================================
