------------------------------ MODULE HttpRelay ------------------------------
(***************************************************************************)
(* One intercepted HTTP/1 flow: DecodedClientFlow::relay_to between the    *)
(* agent and the provider, the body framings it understands, the WebSocket *)
(* tunnel after a 101, and the hook dispatcher that observes the flow.     *)
(*                                                                         *)
(* A body is a sequence of bytes as they stand on the wire; a head is one  *)
(* byte.  A read returns any non-empty run of the bytes that are due, and  *)
(* the read that completes a head may bring the first bytes of the body.   *)
(* A write to a peer that is gone may be accepted in part, in full or not  *)
(* at all.  Request and response (what the peers will send) are chosen     *)
(* once, well formed or flawed.                                            *)
(*                                                                         *)
(* Content coding is left out: hooks get the body with its transfer        *)
(* framing removed.                                                        *)
(***************************************************************************)
EXTENDS Naturals, Sequences, SequencesExt

CONSTANTS
    RequestBodies,   \* bodies an agent may send
    ResponseBodies,  \* bodies a provider may send
    Tunnels,         \* WebSocket message kinds one side may send, in order
    BodyLimit,       \* max_body_bytes
    HeaderBytes,     \* MAX_HTTP1_HEADER_BYTES
    QueueCapacity    \* DEFAULT_HOOK_QUEUE_CAPACITY


VARIABLES
    msg,        \* the body each side sends
    upgrade,    \* the request asks for a WebSocket upgrade
    accepted,   \* the provider answers it with 101
    expect,     \* the request carries Expect: 100-continue
    tunnel,     \* the WebSocket messages each side sends
    phase,      \* where relay_to stands
    hand,       \* bytes read and not yet written
    got,        \* body bytes read in each direction
    out,        \* bytes the receiving peer's stream accepted
    parser,     \* ChunkedBodyCapture of the body in progress
    capture,    \* captured body of each direction
    counted,    \* forwarded_bytes of each direction
    agentError, \* BodyCapture::agent_write_error
    continued,  \* the agent was sent 100 Continue
    gone,       \* peers that have disconnected
    taken,      \* WebSocket messages read from each side
    passed,     \* WebSocket messages accepted by the other side
    sequence,   \* WebSocket sequence counter
    queue,      \* hook events waiting
    observed,   \* hook events the hook has been given
    offered     \* history: events submitted to the dispatcher

script == <<msg, upgrade, accepted, expect, tunnel>>
hookVars == <<queue, observed, offered>>
bodyVars == <<hand, got, out, parser, capture, counted, agentError>>
tunnelVars == <<taken, passed, sequence>>
vars == <<script, phase, bodyVars, continued, gone, tunnelVars, hookVars>>

Directions == {"request", "response"}
Source(d) == IF d = "request" THEN "agent" ELSE "provider"
Sink(d) == IF d = "request" THEN "provider" ELSE "agent"

-----------------------------------------------------------------------------
(* What the peers put on the wire.                                         *)

Byte(k, n) == [kind |-> k, n |-> n]
HeadByte == Byte("head", 0)
Data(n) == Byte("data", n)
Size(n) == Byte("size", n)
CR == Byte("cr", 0)
LF == Byte("lf", 0)
Junk == Byte("junk", 0)

Body(f, s, w) == [framing |-> f, sizes |-> s, flaw |-> w]

Total(s) == FoldSeq(LAMBDA n, sum : n + sum, 0, s)
Payload(m) == [i \in 1..Total(m.sizes) |-> Data(i)]

Chunk(s, j) ==
    <<Size(s[j]), CR, LF>>
    \o [i \in 1..s[j] |-> Data(Total(SubSeq(s, 1, j - 1)) + i)] \o <<CR, LF>>

LastChunk(m) ==
    <<Size(0), CR, LF>> \o (IF m.flaw = "trailer" THEN <<Junk, CR, LF>> ELSE <<>>)
    \o <<CR, LF>>

Encoded(m) ==
    IF m.framing = "chunked"
    THEN FlattenSeq([j \in 1..Len(m.sizes) |-> Chunk(m.sizes, j)]) \o LastChunk(m)
    ELSE Payload(m)

Endless == [i \in 1..(HeaderBytes + 2) |-> Junk]

(* What a peer may send: only a chunked body has a flaw of its chunks, a   *)
(* size of zero is the last chunk's, and only what has a length can be cut *)
(* short or have bytes behind it.                                          *)
ChunkFlaws == {"trailer", "bad_size", "bad_end", "long_size", "long_trailer"}
FlawsOf == [empty |-> {"none", "extra"}, length |-> {"none", "extra", "cut"},
            chunked |-> {"none", "extra", "cut"} \cup ChunkFlaws,
            eof |-> {"none"}, invalid |-> {"none"}]
IsBody(m) ==
    /\ m \in [framing : DOMAIN FlawsOf, sizes : Seq(Nat),
              flaw : {"none", "extra", "cut"} \cup ChunkFlaws]
    /\ m.flaw \in FlawsOf[m.framing]
    /\ m.framing = "empty" => m.sizes = <<>>
    /\ m.framing = "chunked" => \A j \in 1..Len(m.sizes) : m.sizes[j] > 0
    /\ m.framing = "length" /\ m.flaw = "cut" => Total(m.sizes) > 0
    /\ m.flaw = "bad_end" => m.sizes # <<>>

(* HeaderBytes has room for a size line and for a trailer line.            *)
ASSUME HttpRelayAssumption ==
    /\ BodyLimit \in Nat /\ QueueCapacity \in Nat \ {0}
    /\ HeaderBytes \in Nat /\ HeaderBytes >= 5
    /\ \A m \in RequestBodies \cup ResponseBodies : IsBody(m)
    /\ Tunnels \subseteq Seq({"text", "ping", "close"})

(* A flaw: bytes after the message, the connection closed one byte early,  *)
(* a size line that is none, a chunk without its end of line, and a size   *)
(* line or trailer section that does not end.                              *)
Wire(m) ==
    CASE m.flaw = "extra" -> Append(Encoded(m), Junk)
      [] m.flaw = "cut" -> Front(Encoded(m))
      [] m.flaw = "bad_size" -> [Encoded(m) EXCEPT ![1] = Junk]
      [] m.flaw = "bad_end" -> [Encoded(m) EXCEPT ![4 + m.sizes[1]] = Junk]
      [] m.flaw = "long_size" -> <<Size(1)>> \o Endless
      [] m.flaw = "long_trailer" -> <<Size(0), CR, LF>> \o Endless
      [] OTHER -> Encoded(m)

Init ==
    /\ msg \in {[request |-> q, response |-> r] :
                   q \in RequestBodies, r \in ResponseBodies}
    /\ upgrade \in BOOLEAN /\ accepted \in BOOLEAN /\ expect \in BOOLEAN
    /\ upgrade => msg["request"].framing = "empty" /\ ~expect
    /\ accepted => /\ upgrade /\ msg["response"].framing = "empty"
                   /\ \A d \in Directions : msg[d].flaw = "none"
    /\ tunnel \in IF accepted THEN [Directions -> Tunnels]
                              ELSE {[d \in Directions |-> <<>>]}
    /\ phase = "agent_head"
    /\ hand = <<>>
    /\ got = [d \in Directions |-> 0]
    /\ out = [d \in Directions |-> <<>>]
    /\ parser = [state |-> "size", left |-> 0, pending |-> <<>>]
    /\ capture = [d \in Directions |-> [bytes |-> <<>>, whole |-> TRUE]]
    /\ counted = [d \in Directions |-> 0]
    /\ agentError = FALSE /\ continued = FALSE /\ gone = {}
    /\ taken = [d \in Directions |-> 0] /\ passed = [d \in Directions |-> 0]
    /\ sequence = 0
    /\ queue = <<>> /\ observed = <<>> /\ offered = {}

Ended == {"done", "failed"}

Fail == phase' = "failed"

(* Either peer may disconnect at any time.                                 *)
Disconnect(peer) ==
    /\ phase \notin Ended /\ peer \notin gone
    /\ gone' = gone \cup {peer}
    /\ UNCHANGED <<script, phase, bodyVars, continued, tunnelVars, hookVars>>

-----------------------------------------------------------------------------
(* Hook dispatcher.                                                        *)

(* Mutant: the relay waits for a place in the queue.                       *)
SubmitEventWaits(e) ==
    /\ Len(queue) < QueueCapacity
    /\ queue' = Append(queue, e)
    /\ offered' = offered \cup {e}
    /\ UNCHANGED observed

(* Never waits: a full queue refuses the event.                            *)
SubmitEvent(e) ==
    /\ queue' = IF Len(queue) < QueueCapacity THEN Append(queue, e) ELSE queue
    /\ offered' = offered \cup {e}
    /\ UNCHANGED observed

(* One event at a time.  A hook that is disabled or does not match is not  *)
(* called, and neither is any for an exchange whose decoding task failed.  *)
RunHookWorker ==
    /\ queue # <<>>
    /\ queue' = Tail(queue)
    /\ observed' \in {observed, Append(observed, Head(queue))}
    /\ UNCHANGED <<script, phase, bodyVars, continued, gone, tunnelVars, offered>>

Exchange == [what |-> "exchange", direction |-> "response", item |-> 0,
             sequence |-> 0]

-----------------------------------------------------------------------------
(* Reading and writing.                                                    *)

(* Bytes of direction d's body that can have arrived: an agent that asked  *)
(* for 100 Continue sends its body only after it.                          *)
Due(d) == IF d = "request" /\ expect /\ msg[d].framing # "empty" /\ ~continued
          THEN 0 ELSE Len(Wire(msg[d])) - got[d]

Bytes(d, k) == SubSeq(Wire(msg[d]), got[d] + 1, got[d] + k)

(* The outcomes of writing bytes to direction d's receiver: how many it    *)
(* accepts.                                                                *)
Accepts(d, bytes) ==
    IF Sink(d) \in gone THEN 0..Len(bytes) ELSE {Len(bytes)}

Accept(d, bytes, n) == out' = [out EXCEPT ![d] = @ \o SubSeq(bytes, 1, n)]

(* read_http1_head: the head and the first k bytes after it; capturing of  *)
(* its body starts from nothing.                                           *)
ReadHead(d, k) ==
    /\ hand' = Bytes(d, k)
    /\ got' = [got EXCEPT ![d] = k]
    /\ parser' = [state |-> "size", left |-> 0, pending |-> <<>>]
    /\ UNCHANGED <<out, capture, counted, agentError>>

(* from_http1, then the choice of relay_to.  A timeout, an error, a head   *)
(* that is too long or does not parse, and a target that contradicts an    *)
(* explicit proxy's, fail the flow.                                        *)
ReadRequestHead ==
    /\ phase = "agent_head"
    /\ \/ \E k \in 0..Due("request") :
             /\ ReadHead("request", k)
             /\ phase' = IF upgrade THEN "upgrade_out" ELSE "request_out"
       \/ Fail /\ UNCHANGED bodyVars
    /\ UNCHANGED <<script, continued, gone, tunnelVars, hookVars>>

AppendHead(d) == Accept(d, <<HeadByte>>, 1)

Handled == expect /\ msg["request"].framing # "empty"

(* forward_request: the framing decides first; then the head, without      *)
(* Expect when the relay answers it.                                       *)
WriteRequestHead ==
    /\ phase = "request_out"
    /\ \/ /\ msg["request"].framing # "invalid"
          /\ AppendHead("request")
          /\ phase' = IF Handled THEN "continue" ELSE "request_write"
       \/ /\ msg["request"].framing = "invalid" \/ "provider" \in gone
          /\ Fail /\ UNCHANGED out
    /\ UNCHANGED <<script, hand, got, parser, capture, counted, agentError,
                   continued, gone, tunnelVars, hookVars>>

SendContinue ==
    /\ phase = "continue"
    /\ \/ phase' = "request_write" /\ continued' = TRUE
       \/ "agent" \in gone /\ Fail /\ UNCHANGED continued
    /\ UNCHANGED <<script, bodyVars, gone, tunnelVars, hookVars>>

-----------------------------------------------------------------------------
(* Body framing: ChunkedBodyCapture::feed and append_body_for_capture.     *)

(* Mutant: the byte that reaches the limit ends the capture.               *)
AppendBodyEarly(c, bytes) ==
    IF ~c.whole THEN c
    ELSE IF Len(c.bytes) + Len(bytes) >= BodyLimit
    THEN [bytes |-> SubSeq(c.bytes \o bytes, 1, BodyLimit), whole |-> FALSE]
    ELSE [bytes |-> c.bytes \o bytes, whole |-> TRUE]

(* The prefix that fits is kept, and once it is cut it never grows again.  *)
AppendBody(c, bytes) ==
    IF ~c.whole THEN c
    ELSE IF Len(c.bytes) + Len(bytes) > BodyLimit
    THEN [bytes |-> SubSeq(c.bytes \o bytes, 1, BodyLimit), whole |-> FALSE]
    ELSE [bytes |-> c.bytes \o bytes, whole |-> TRUE]

Drop(s, n) == SubSeq(s, n + 1, Len(s))
Starts(s, t) == Len(s) >= Len(t) /\ SubSeq(s, 1, Len(t)) = t

Stop(p, v) == [p EXCEPT !.verdict = v]

(* Mutant: a size line may grow for as long as it has no end.              *)
FeedSizeUnbounded(p) ==
    LET ends == {i \in 1..Len(p.pending) : p.pending[i] = LF} IN
    IF p.pending # <<>> /\ p.pending[1].kind # "size" THEN Stop(p, "invalid")
    ELSE IF ends = {} THEN Stop(p, "more")
    ELSE LET n == CHOOSE i \in ends : \A j \in ends : i <= j IN
         [p EXCEPT !.pending = Drop(@, n),
                   !.left = p.pending[1].n,
                   !.state = IF p.pending[1].n = 0 THEN "trailers" ELSE "data"]

(* parse_chunk_size: a size, anything up to the end of the line.           *)
FeedSize(p) ==
    LET ends == {i \in 1..Len(p.pending) : p.pending[i] = LF} IN
    IF p.pending # <<>> /\ p.pending[1].kind # "size" THEN Stop(p, "invalid")
    ELSE IF ends = {}
    THEN Stop(p, IF Len(p.pending) > HeaderBytes THEN "invalid" ELSE "more")
    ELSE LET n == CHOOSE i \in ends : \A j \in ends : i <= j IN
         IF n > HeaderBytes THEN Stop(p, "invalid")
         ELSE [p EXCEPT !.pending = Drop(@, n),
                        !.left = p.pending[1].n,
                        !.state = IF p.pending[1].n = 0 THEN "trailers" ELSE "data"]

(* Mutant: everything pending is taken for payload.                        *)
FeedData(p) ==
    LET n == IF p.left < Len(p.pending) THEN p.left ELSE Len(p.pending) IN
    IF p.pending = <<>> THEN Stop(p, "more")
    ELSE [p EXCEPT !.body = AppendBody(@, SubSeq(p.pending, 1, n)),
                   !.pending = Drop(@, n),
                   !.left = @ - n,
                   !.state = IF p.left = n THEN "terminator" ELSE "data"]

FeedTerminator(p) ==
    IF Len(p.pending) < 2 THEN Stop(p, "more")
    ELSE IF ~Starts(p.pending, <<CR, LF>>) THEN Stop(p, "invalid")
    ELSE [p EXCEPT !.pending = Drop(@, 2), !.state = "size"]

Finish(p, n) == Stop(p, IF Len(p.pending) = n THEN "complete" ELSE "invalid")

(* Mutant: bytes after the last chunk are not noticed.                     *)
FeedTrailersLax(p) ==
    LET ends == {i \in 4..Len(p.pending) :
                    SubSeq(p.pending, i - 3, i) = <<CR, LF, CR, LF>>} IN
    IF Len(p.pending) < 2 THEN Stop(p, "more")
    ELSE IF Starts(p.pending, <<CR, LF>>) THEN Stop(p, "complete")
    ELSE IF Len(p.pending) > HeaderBytes THEN Stop(p, "invalid")
    ELSE IF ends = {} THEN Stop(p, "more") ELSE Stop(p, "complete")

(* An empty line ends the message, at once or after trailer lines; bytes   *)
(* beyond it belong to a pipelined message and are refused.                *)
FeedTrailers(p) ==
    LET ends == {i \in 4..Len(p.pending) :
                    SubSeq(p.pending, i - 3, i) = <<CR, LF, CR, LF>>} IN
    IF Len(p.pending) < 2 THEN Stop(p, "more")
    ELSE IF Starts(p.pending, <<CR, LF>>) THEN Finish(p, 2)
    ELSE IF Len(p.pending) > HeaderBytes THEN Stop(p, "invalid")
    ELSE IF ends = {} THEN Stop(p, "more")
    ELSE Finish(p, CHOOSE i \in ends : \A j \in ends : i <= j)

FeedStep(p) ==
    IF p.verdict # "none" THEN p
    ELSE CASE p.state = "size" -> FeedSize(p)
           [] p.state = "data" -> FeedData(p)
           [] p.state = "terminator" -> FeedTerminator(p)
           [] p.state = "trailers" -> FeedTrailers(p)

(* The transition loop: every iteration consumes a byte or stops.  (The    *)
(* singleton makes TLC evaluate each step once.)                           *)
Feed(d, bytes) ==
    LET start == [state |-> parser.state, left |-> parser.left,
                  pending |-> parser.pending \o bytes,
                  body |-> capture[d], verdict |-> "none"]
        loop[i \in 0..(Len(parser.pending) + Len(bytes) + 1)] ==
            IF i = 0 THEN start
            ELSE CHOOSE p \in {FeedStep(q) : q \in {loop[i - 1]}} : TRUE
    IN  loop[Len(parser.pending) + Len(bytes) + 1]

-----------------------------------------------------------------------------
(* forward_body.                                                           *)

Reading(d) == IF d = "request" THEN "request_read" ELSE "response_read"
Writing(d) == IF d = "request" THEN "request_write" ELSE "response_write"

(* The message is complete: a request is flushed and its response awaited, *)
(* after a response the agent's stream is closed.                          *)
Complete(d) ==
    IF d = "response" THEN phase' = "closing"
    ELSE phase' = "provider_head" \/ ("provider" \in gone /\ Fail)

(* Mutant: an agent that does not take the last bytes fails the flow.      *)
ForwardLastBytesStrict(d, before) ==
    \E n \in Accepts(d, hand) :
        /\ Accept(d, hand, n)
        /\ counted' = [counted EXCEPT ![d] = before + n]
        /\ IF n = Len(hand) THEN Complete(d) ELSE Fail
        /\ UNCHANGED agentError

(* Mutant: the bytes of the last write are counted before it.              *)
(* The bytes that complete a message: an agent that no longer takes them   *)
(* leaves a complete capture and an error for later, a provider fails the  *)
(* flow.                                                                   *)
ForwardLastBytes(d, before) ==
    \E n \in Accepts(d, hand) :
        /\ Accept(d, hand, n)
        /\ counted' = [counted EXCEPT ![d] = before + n]
        /\ IF n = Len(hand) THEN Complete(d) /\ UNCHANGED agentError
           ELSE IF d = "request" THEN Fail /\ UNCHANGED agentError
           ELSE Complete(d) /\ agentError' = TRUE

(* Bytes in the middle of a message: write_all, then the next read.        *)
ForwardBytes(d, count) ==
    \E n \in Accepts(d, hand) :
        /\ Accept(d, hand, n)
        /\ IF n = Len(hand)
           THEN phase' = Reading(d) /\ counted' = [counted EXCEPT ![d] = count]
           ELSE Fail /\ UNCHANGED counted
        /\ UNCHANGED agentError

RejectBody == Fail /\ UNCHANGED <<out, capture, counted, parser, agentError>>

ForwardEmptyBody(d) ==
    \/ hand # <<>> /\ RejectBody
    \/ /\ hand = <<>>
       /\ \/ Complete(d) /\ UNCHANGED agentError
          \/ /\ Sink(d) \in gone
             /\ IF d = "request" THEN Fail /\ UNCHANGED agentError
                                 ELSE Complete(d) /\ agentError' = TRUE
       /\ UNCHANGED <<out, capture, counted, parser>>

(* Only the bytes that came with the head can exceed the length.           *)
ForwardContentLengthBody(d) ==
    LET length == Total(msg[d].sizes) IN
    IF got[d] > length THEN RejectBody
    ELSE /\ capture' = [capture EXCEPT ![d] = AppendBody(@, hand)]
         /\ IF got[d] = length THEN ForwardLastBytes(d, length - Len(hand))
                               ELSE ForwardBytes(d, counted[d])
         /\ UNCHANGED parser

(* The framing is checked before the bytes are written.                    *)
ForwardChunkedBody(d) ==
    \E fed \in {Feed(d, hand)} :
    IF hand = <<>>
    THEN phase' = Reading(d)
         /\ UNCHANGED <<out, capture, counted, parser, agentError>>
    ELSE IF fed.verdict = "invalid" THEN RejectBody
    ELSE /\ capture' = [capture EXCEPT ![d] = fed.body]
         /\ IF fed.verdict = "complete"
            THEN ForwardLastBytes(d, counted[d])
            ELSE ForwardBytes(d, counted[d] + Len(hand))
         /\ parser' = [state |-> fed.state, left |-> fed.left,
                       pending |-> fed.pending]

ForwardUntilEofBody(d) ==
    /\ capture' = [capture EXCEPT ![d] = AppendBody(@, hand)]
    /\ ForwardBytes(d, counted[d] + Len(hand))
    /\ UNCHANGED parser

ForwardBody(d) ==
    /\ phase = Writing(d)
    /\ CASE msg[d].framing = "empty" -> ForwardEmptyBody(d)
         [] msg[d].framing = "length" -> ForwardContentLengthBody(d)
         [] msg[d].framing = "chunked" -> ForwardChunkedBody(d)
         [] msg[d].framing = "eof" -> ForwardUntilEofBody(d)
         [] msg[d].framing = "invalid" -> RejectBody
    /\ UNCHANGED <<script, hand, got, continued, gone, tunnelVars, hookVars>>

(* A Content-Length body is never read past its end.                       *)
Readable(d) ==
    IF msg[d].framing = "length" /\ Due(d) > Total(msg[d].sizes) - got[d]
    THEN Total(msg[d].sizes) - got[d] ELSE Due(d)

ReadBody(d) ==
    /\ phase = Reading(d)
    /\ \E k \in 1..Readable(d) :
          /\ hand' = Bytes(d, k)
          /\ got' = [got EXCEPT ![d] = @ + k]
    /\ phase' = Writing(d)
    /\ UNCHANGED <<script, out, parser, capture, counted, agentError, continued,
                   gone, tunnelVars, hookVars>>

(* End of the stream: completes a response delimited by it, otherwise the  *)
(* body ended early.  A peer that is gone may also fail the read.          *)
ReadBodyEnds(d) ==
    /\ phase = Reading(d)
    /\ \/ /\ got[d] = Len(Wire(msg[d]))
          /\ IF msg[d].framing = "eof" THEN Complete(d) ELSE Fail
       \/ Source(d) \in gone /\ Fail
    /\ UNCHANGED <<script, bodyVars, continued, gone, tunnelVars, hookVars>>

-----------------------------------------------------------------------------
(* The response.                                                           *)

(* decode_response_from_upstream.                                          *)
ReadResponseHead ==
    /\ phase = "provider_head"
    /\ \/ \E k \in 0..Due("response") :
             /\ ReadHead("response", k)
             /\ phase' = IF accepted THEN "upgrade_back" ELSE "response_back"
       \/ Fail /\ UNCHANGED bodyVars
    /\ UNCHANGED <<script, continued, gone, tunnelVars, hookVars>>

(* forward_response.                                                       *)
WriteResponseHead ==
    /\ phase = "response_back"
    /\ \/ AppendHead("response") /\ phase' = "response_write"
       \/ "agent" \in gone /\ Fail /\ UNCHANGED out
    /\ UNCHANGED <<script, hand, got, parser, capture, counted, agentError,
                   continued, gone, tunnelVars, hookVars>>

(* forward_http_response_and_submit: the agent's stream is shut down       *)
(* unless it already failed; the exchange is submitted whatever came of    *)
(* it, and then the flow's result is decided.                              *)
CloseAndSubmit ==
    /\ phase = "closing"
    /\ SubmitEvent(Exchange)
    /\ \/ phase' = IF agentError THEN "failed" ELSE "done"
       \/ ~agentError /\ Fail
    /\ UNCHANGED <<script, bodyVars, continued, gone, tunnelVars>>

-----------------------------------------------------------------------------
(* WebSocket upgrade and tunnel.                                           *)

(* relay_websocket_to: the head alone; what came with it waits for the     *)
(* tunnel, or is dropped with a declined upgrade.                          *)
WriteUpgradeHead ==
    /\ phase = "upgrade_out"
    /\ \/ AppendHead("request") /\ phase' = "provider_head"
       \/ "provider" \in gone /\ Fail /\ UNCHANGED out
    /\ UNCHANGED <<script, hand, got, parser, capture, counted, agentError,
                   continued, gone, tunnelVars, hookVars>>

(* forward_websocket_success.                                              *)
AcceptUpgrade ==
    /\ phase = "upgrade_back"
    /\ \/ AppendHead("response") /\ phase' = "tunnel" /\ SubmitEvent(Exchange)
       \/ "agent" \in gone /\ Fail /\ UNCHANGED <<out, hookVars>>
    /\ UNCHANGED <<script, hand, got, parser, capture, counted, agentError,
                   continued, gone, tunnelVars>>

(* Mutant: messages to the agent are not submitted.                        *)
(* submit_hook_message: every message advances the sequence, only text and *)
(* binary ones become events.                                              *)
SubmitMessage(d, i) ==
    IF tunnel[d][i] = "text"
    THEN SubmitEvent([what |-> "message", direction |-> d, item |-> i,
                      sequence |-> sequence + 1])
    ELSE UNCHANGED hookVars

(* One turn of the select loop: submitted, then sent on; a close ends it.  *)
ForwardMessage(d) ==
    /\ phase = "tunnel" /\ taken[d] < Len(tunnel[d])
    /\ taken' = [taken EXCEPT ![d] = @ + 1]
    /\ sequence' = sequence + 1
    /\ SubmitMessage(d, taken[d] + 1)
    /\ \/ /\ passed' = [passed EXCEPT ![d] = @ + 1]
          /\ phase' = IF tunnel[d][taken[d] + 1] = "close" THEN "done" ELSE "tunnel"
       \/ Sink(d) \in gone /\ Fail /\ UNCHANGED passed
    /\ UNCHANGED <<script, bodyVars, continued, gone>>

(* A stream ends, for the agent's also without a close frame; any other    *)
(* error fails the flow.                                                   *)
TunnelEnds(d) ==
    /\ phase = "tunnel"
    /\ taken[d] = Len(tunnel[d]) \/ Source(d) \in gone
    /\ phase' \in Ended
    /\ UNCHANGED <<script, bodyVars, continued, gone, tunnelVars, hookVars>>

-----------------------------------------------------------------------------
Relay ==
    \/ ReadRequestHead \/ WriteRequestHead \/ SendContinue
    \/ ReadResponseHead \/ WriteResponseHead \/ CloseAndSubmit
    \/ WriteUpgradeHead \/ AcceptUpgrade
    \/ \E d \in Directions :
          \/ ForwardBody(d) \/ ReadBody(d) \/ ReadBodyEnds(d)
          \/ ForwardMessage(d) \/ TunnelEnds(d)

Next ==
    \/ Relay
    \/ \E peer \in {"agent", "provider"} : Disconnect(peer)
    \/ RunHookWorker

Spec == Init /\ [][Next]_vars

(* The flow's task runs, its head timers fire and its peers send what they *)
(* have to send or leave.  Nothing is assumed of the hook: it may never    *)
(* finish an event.                                                        *)
FairSpec == Spec /\ WF_vars(Relay)

-----------------------------------------------------------------------------
(* Properties.                                                             *)

Phases == Ended \cup {"agent_head", "request_out", "continue", "request_write",
    "request_read", "provider_head", "response_back", "response_write",
    "response_read", "closing", "upgrade_out", "upgrade_back", "tunnel"}

TypeOK ==
    /\ phase \in Phases
    /\ parser.state \in {"size", "data", "terminator", "trailers"}
    /\ parser.left \in Nat
    /\ \A d \in Directions :
          /\ got[d] \in 0..Len(Wire(msg[d]))
          /\ counted[d] \in Nat
          /\ passed[d] \in 0..taken[d] /\ taken[d] \in 0..Len(tunnel[d])
    /\ agentError \in BOOLEAN /\ continued \in BOOLEAN
    /\ gone \subseteq {"agent", "provider"}

(* Whatever a peer sends and however slow the hook is, a flow retains at   *)
(* most max_body_bytes of each body and MAX_HTTP1_HEADER_BYTES of an       *)
(* unfinished size line or trailer section, and the dispatcher at most its *)
(* queue.                                                                  *)
BoundedMemory ==
    /\ \A d \in Directions : Len(capture[d].bytes) <= BodyLimit
    /\ Len(parser.pending) <= HeaderBytes
    /\ Len(queue) <= QueueCapacity

(* "Bytes after the terminal chunk cannot escape as an unaudited pipelined *)
(* request": however reads cut the wire, a peer is sent the other one's    *)
(* bytes in order, from the first, and none behind the message's end.      *)
ForwardsOneMessage ==
    \A d \in Directions :
        IsPrefix(out[d],
                 <<HeadByte>> \o IF msg[d].flaw = "extra" THEN Encoded(msg[d])
                                                          ELSE Wire(msg[d]))

(* A hook is never shown a broken message, and is shown of a whole one     *)
(* exactly the payload up to the limit, marked as cut only when it is      *)
(* longer, whatever the chunk and read boundaries were.                    *)
CaptureMatches ==
    Exchange \in offered /\ ~accepted =>
        \A d \in Directions :
            LET p == Payload(msg[d]) IN
            /\ msg[d].flaw \in {"none", "trailer", "extra"}
            /\ capture[d].bytes = SubSeq(p, 1, IF Len(p) < BodyLimit
                                               THEN Len(p) ELSE BodyLimit)
            /\ capture[d].whole = (Len(p) <= BodyLimit)

(* The response's framing says that all of it has been read.               *)
ResponseComplete ==
    /\ Len(out["response"]) > 0 /\ ~accepted
    /\ msg["response"].flaw \in {"none", "trailer"}
    /\ msg["response"].framing \notin {"eof", "invalid"}
    /\ got["response"] = Len(Wire(msg["response"]))

(* "Observation is complete once upstream HTTP framing is complete": a     *)
(* flow that succeeds, or that read a whole response after passing on its  *)
(* head, offers the exchange to the hooks, even when the agent left before *)
(* the last byte and the flow reports that failure.                        *)
CompleteIsObserved ==
    phase = "done" \/ (phase = "failed" /\ ResponseComplete) => Exchange \in offered

(* "Counting only bytes actually accepted by the client stream": the       *)
(* counts reported with an exchange are the bytes each peer accepted.      *)
CountsAccepted ==
    Exchange \in offered /\ ~accepted =>
        \A d \in Directions : counted[d] = Len(out[d]) - 1

(* The hook sees the flow in wire order: the exchange first, then messages *)
(* of rising sequence number; and no text or binary message reaches its    *)
(* receiver that was not offered to the hook before.                       *)
TunnelObserved ==
    LET seen == observed \o queue IN
    /\ \A i, j \in 1..Len(seen) : i < j => seen[i].sequence < seen[j].sequence
    /\ \A d \in Directions : \A i \in 1..passed[d] :
          tunnel[d][i] = "text" =>
             \E e \in offered : e.direction = d /\ e.item = i

(* What a hook is shown of an exchange is exact: its bytes and its counts.  *)
ExchangeExact == TypeOK /\ CaptureMatches /\ CountsAccepted

(* Whatever completed is observed, and in wire order.                      *)
ObservedInOrder == CompleteIsObserved /\ TunnelObserved

(* A flow ends whatever the hook does, and an agent that waits for 100     *)
(* Continue gets it.                                                       *)
FlowEnds == <>(phase \in Ended)
=============================================================================
