-------------------------- MODULE EventNormalizer ---------------------------
(* From a parsed exchange to the events that leave the hook: token usage is  *)
(* read from the response documents, the exchange becomes at most one        *)
(* request and one response event, what the content policy leaves out is     *)
(* cleared, and the events are delivered to the sink one after the other.    *)
(* Texts, images and digests are opaque; a digest is the tuple it digests.   *)
EXTENDS Integers, Sequences, FiniteSets, SequencesExt

CONSTANT MaxCounter     \* the largest value of a signed 64-bit counter
ASSUME MaxCounterAssumption == MaxCounter \in Nat

VARIABLES
    exchange,   \* the parsed exchange
    content,    \* the content policy of the harness, from one snapshot
    outbox,     \* events normalised and not yet delivered
    published,  \* events the sink took
    outcome     \* "parsed", "delivering", "done" or "failed"
eventVars == <<exchange, content, outbox, published, outcome>>

Missing == -1       \* a counter the document does not carry
None == "none"
OrElse(a, b) == IF a = Missing THEN b ELSE a
AtLeastZero(n) == IF n < 0 THEN 0 ELSE n

-----------------------------------------------------------------------------
(* Token usage.                                                              *)

saturating_add(a, b) == IF a + b > MaxCounter THEN MaxCounter ELSE a + b
from_parts(input, read, write, output, reasoning) ==
    [input |-> input, read |-> read, write |-> write, output |-> output, reasoning |-> reasoning,
     total |-> saturating_add(saturating_add(saturating_add(input, read), write), output)]
NoUsage == from_parts(0, 0, 0, 0, 0)
request_side(u) == from_parts(u.input, u.read, u.write, 0, 0)
response_side(u) == from_parts(0, 0, 0, u.output, u.reasoning)

\* OpenAI reports cached tokens within the input: they are taken out of it.
\* A document without usage is as good as one that reports zeros.
usage_from_object(d) ==
    from_parts(AtLeastZero(OrElse(d.input, 0) - OrElse(d.detail, 0)), OrElse(d.detail, 0), 0,
               OrElse(d.output, 0), 0)
\* The report with the largest total, the last of equals.
OpenAiUsage(docs) ==
    LET reports == {n \in DOMAIN docs : usage_from_object(docs[n]) # NoUsage}
        total(n) == usage_from_object(docs[n]).total
    IN  IF reports = {} THEN NoUsage
        ELSE usage_from_object(docs[CHOOSE n \in reports : \A k \in reports :
                 total(n) > total(k) \/ (total(n) = total(k) /\ n >= k)])

\* Anthropic reports counters over several documents: the last value of each
\* counts.  Cache counters of its own stand beside the input; the compatible
\* ones are within the input and yield to its own.
LastOf(docs, counter(_)) ==
    FoldLeft(LAMBDA acc, d : OrElse(counter(d), acc), Missing, docs)
AnthropicUsage(docs) ==
    LET native == LastOf(docs, LAMBDA d : d.native)
        detail == IF native = Missing THEN OrElse(LastOf(docs, LAMBDA d : d.detail), 0) ELSE 0
    IN  from_parts(AtLeastZero(OrElse(LastOf(docs, LAMBDA d : d.input), 0) - detail),
                   OrElse(native, detail), 0,
                   OrElse(LastOf(docs, LAMBDA d : d.output), 0), 0)
\* Claude Web falls back to an estimate from the visible text, here one token
\* per entry.
estimated_visible_usage(x) == from_parts(Len(x.request), 0, 0, Len(x.response), 0)
best_usage(x) ==
    LET u == IF x.protocol = "openai" THEN OpenAiUsage(x.docs) ELSE AnthropicUsage(x.docs)
    IN  IF u = NoUsage /\ x.protocol = "web" THEN estimated_visible_usage(x) ELSE u

-----------------------------------------------------------------------------
(* Normalisation.                                                            *)

Categories == {"usage", "text", "tools", "images"}
omitted_categories(c) == {k \in Categories : ~c[k]}
Cleared == "cleared"
retained_conversation(entries, c) ==
    [n \in DOMAIN entries |->
        IF c[IF entries[n].role = "tool" THEN "tools" ELSE "text"]
        THEN entries[n] ELSE [entries[n] EXCEPT !.text = Cleared]]
retained_token_usage(u, c) == IF c.usage THEN u ELSE NoUsage
normalized_image_attachments(images, c) == IF c.images THEN images ELSE <<>>
\* The digest covers what was said, not what the policy lets through.
event_content_hash(entries, images) == <<entries, images>>
response_identity(x) ==
    IF x.response_id # None THEN x.response_id
    ELSE IF x.protocol = "web" /\ x.assistant_id # None THEN x.assistant_id
    ELSE "request_hash"
\* The exchange parser already falls back to the assistant's message id.
ContinuationId(x) ==
    IF x.response_id = None /\ x.protocol = "web" THEN x.assistant_id ELSE x.response_id
\* Mutant: the digest covers what the policy lets through.
DigestsRetained(x, c, side, entries, images, usage, at) ==
    [id |-> <<x.session, side, response_identity(x),
              event_content_hash(retained_conversation(entries, c), images)>>,
     side |-> side, at |-> at, response_id |-> ContinuationId(x), omitted |-> omitted_categories(c),
     conversation |-> retained_conversation(entries, c),
     images |-> normalized_image_attachments(images, c), usage |-> retained_token_usage(usage, c)]
usage_event(x, c, side, entries, images, usage, at) ==
    [id |-> <<x.session, side, response_identity(x), event_content_hash(entries, images)>>,
     side |-> side, at |-> at, response_id |-> ContinuationId(x), omitted |-> omitted_categories(c),
     conversation |-> retained_conversation(entries, c),
     images |-> normalized_image_attachments(images, c), usage |-> retained_token_usage(usage, c)]

\* The second event is later than the first whatever the wall clock says.
NextTimestamp(previous, now) == IF now > previous + 1 THEN now ELSE previous + 1
RequestHasContent(x) == x.request # <<>> \/ x.images # <<>>
NothingToTell(x) ==
    /\ x.response = <<>>
    /\ best_usage(x) = NoUsage
    /\ ~(x.protocol = "web" /\ RequestHasContent(x))
events_for_parsed_exchange(x, c, first, second) ==
    LET u == best_usage(x)
        ask == RequestHasContent(x) \/ request_side(u) # NoUsage
        answer == x.response # <<>> \/ response_side(u) # NoUsage
        answeredAt == IF ask THEN NextTimestamp(first, second) ELSE second
    IN  IF NothingToTell(x) THEN <<>>
        ELSE (IF ask THEN <<usage_event(x, c, "request", x.request, x.images, request_side(u), first)>>
              ELSE <<>>)
             \o (IF answer THEN <<usage_event(x, c, "response", x.response, <<>>, response_side(u), answeredAt)>>
                 ELSE <<>>)

-----------------------------------------------------------------------------
(* Inputs: what the parsers produce.                                         *)

Say(role) == [role |-> role, text |-> "said"]
Doc(i, o, n, t) == [input |-> i, output |-> o, native |-> n, detail |-> t]
DocSeqs ==
    {<<>>,
     <<Doc(2, 0, Missing, 1), Doc(2, 2, Missing, 1)>>,              \* a running report, within the input
     <<Doc(2, 1, 1, Missing), Doc(Missing, 2, Missing, Missing)>>,  \* message_start, message_delta
     <<Doc(1, 1, 1, 1), Doc(1, 1, Missing, 2)>>,                    \* both kinds of cache counter
     <<Doc(0, 0, Missing, Missing)>>,
     <<Doc(MaxCounter, 1, Missing, 0)>>}                            \* at the limit
Exchanges ==
    [protocol: {"openai", "anthropic", "web"}, session: {"s"},
     request: {<<>>, <<Say("user"), Say("tool")>>},
     response: {<<>>, <<Say("assistant"), Say("tool")>>},
     images: {<<>>, <<"image">>}, docs: DocSeqs,
     response_id: {None, "resp"}, assistant_id: {None, "asst"}]
\* The Anthropic parsers skip an exchange without a request to tell; a Claude
\* Web request may also consist of referenced files only.
Parsed(x) ==
    /\ x.protocol = "anthropic" => RequestHasContent(x)
    /\ x.protocol # "web" => x.assistant_id = None
    /\ x.protocol = "openai" => \A n \in DOMAIN x.docs : x.docs[n].native = Missing
Contents == [Categories -> BOOLEAN]

EventInit ==
    /\ exchange \in {x \in Exchanges : Parsed(x)}
    /\ content \in Contents
    /\ outbox = <<>> /\ published = <<>> /\ outcome = "parsed"
\* The wall clock is read for each event and may step back between the reads.
normalize_exchange(first, second) ==
    /\ outcome = "parsed"
    /\ outbox' = events_for_parsed_exchange(exchange, content, first, second)
    /\ outcome' = "delivering"
    /\ UNCHANGED <<exchange, content, published>>
\* An event is converted to the wire format, whose counters are unsigned,
\* then offered to the sink; the first that fails ends the delivery.
Convertible(e) == \A k \in DOMAIN e.usage : e.usage[k] >= 0
deliver(accepted) ==
    /\ outcome = "delivering" /\ outbox # <<>>
    /\ LET taken == accepted /\ Convertible(Head(outbox))
       IN  /\ published' = IF taken THEN Append(published, Head(outbox)) ELSE published
           /\ outbox' = IF taken THEN Tail(outbox) ELSE <<>>
           /\ outcome' = IF taken THEN outcome ELSE "failed"
    /\ UNCHANGED <<exchange, content>>
Delivered ==
    /\ outcome = "delivering" /\ outbox = <<>>
    /\ outcome' = "done"
    /\ UNCHANGED <<exchange, content, outbox, published>>
EventNext ==
    \/ \E first, second \in {1, 2} : normalize_exchange(first, second)
    \/ \E accepted \in BOOLEAN : deliver(accepted)
    \/ Delivered

-----------------------------------------------------------------------------
(* Properties.                                                               *)

\* The answer is told after the question, later than it, and never alone when
\* the question is known; a refused question takes its answer with it.
PairOrdered ==
    /\ Len(published) <= 2
    /\ \A m, n \in DOMAIN published : m < n =>
           /\ published[m].side = "request" /\ published[n].side = "response"
           /\ published[m].at < published[n].at
    /\ (\E n \in DOMAIN published : published[n].side = "response") /\ RequestHasContent(exchange) =>
           published[1].side = "request"
\* What the policy leaves out is not in any event, every event says so, and
\* nothing else is missing.
PolicyApplied ==
    \A n \in DOMAIN published :
        LET e == published[n]
            said == IF e.side = "request" THEN exchange.request ELSE exchange.response
        IN  /\ e.omitted = {k \in Categories : ~content[k]}
            /\ Len(e.conversation) = Len(said)
            /\ \A k \in DOMAIN said :
                   (e.conversation[k] = said[k])
                       <=> (IF said[k].role = "tool" THEN content.tools ELSE content.text)
            /\ ~content.usage => e.usage = NoUsage
            /\ ~content.images => e.images = <<>>
\* The same event keeps its identity whatever the policy lets through, so an
\* event observed twice is recognised under another policy; the two sides of
\* an exchange never share one.
IdentityStable ==
    outcome = "delivering" /\ published = <<>> =>
        \A c \in Contents :
            LET now == events_for_parsed_exchange(exchange, content, 1, 2)
                other == events_for_parsed_exchange(exchange, c, 2, 1)
            IN  /\ DOMAIN now = DOMAIN other
                /\ \A n \in DOMAIN now : now[n].id = other[n].id
                /\ Cardinality({now[n].id : n \in DOMAIN now}) = Len(now)
\* Tokens are counted once: what the two sides report adds up to what the
\* provider reported as its input (with the cache) and its output.
Reported(x) ==
    LET last(counter(_)) == OrElse(LastOf(x.docs, counter), 0)
        input == last(LAMBDA d : d.input)
        output == last(LAMBDA d : d.output)
        native == IF x.protocol = "openai" THEN 0 ELSE last(LAMBDA d : d.native)
    IN  input + native + output
CacheWithinInput(x) ==
    \/ LastOf(x.docs, LAMBDA d : d.native) # Missing
    \/ LastOf(x.docs, LAMBDA d : d.detail) <= OrElse(LastOf(x.docs, LAMBDA d : d.input), 0)
TokensCountedOnce ==
    LET total(n) == published[n].usage.total
    IN  outcome = "done" /\ content.usage /\ exchange.docs # <<>> /\ Reported(exchange) <= MaxCounter
            /\ CacheWithinInput(exchange)
            /\ ~(exchange.protocol = "web" /\ best_usage(exchange) = estimated_visible_usage(exchange))
        => FoldLeft(LAMBDA acc, n : acc + total(n), 0, [n \in DOMAIN published |-> n]) = Reported(exchange)

\* Whatever counters a provider reports, its event can be put on the wire.
AlwaysConvertible == \A n \in DOMAIN outbox : Convertible(outbox[n])

(* What leaves the hook is what was said, less exactly what the policy      *)
(* leaves out (event/normalizer/mod.rs).                                     *)
EventsFaithful == PairOrdered /\ PolicyApplied /\ IdentityStable /\ TokensCountedOnce /\ AlwaysConvertible
=============================================================================
