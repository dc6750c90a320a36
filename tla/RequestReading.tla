--------------------------- MODULE RequestReading ---------------------------
(* How a captured request is read: which dialect it is in, which session it  *)
(* belongs to, and what it says.  The agent encodes its conversation as JSON *)
(* the way its dialect asks for; the parsers project it back to a list of    *)
(* entries with roles and to the images of the user.  JSON is kept as a      *)
(* tree; texts are opaque, joined texts are concatenated.                    *)
EXTENDS Integers, Sequences, FiniteSets, SequencesExt

CONSTANT ParseDepth     \* MAX_PARSE_DEPTH
ASSUME ParseDepthAssumption == ParseDepth \in Nat

VARIABLES
    asked,      \* the request as the agent means it
    told        \* what was read of it, if anything
readVars == <<asked, told>>

-----------------------------------------------------------------------------
(* JSON.                                                                     *)

NoType == "untyped"
Null == [json |-> "null"]
S(text) == [json |-> "string", text |-> text]
A(items) == [json |-> "array", items |-> items]
O(type, fields) == [json |-> "object", type |-> type, fields |-> fields]
get(v, k) == IF v.json = "object" /\ k \in DOMAIN v.fields THEN v.fields[k] ELSE Null
string_field(v, k) == IF get(v, k).json = "string" THEN get(v, k).text ELSE <<>>
ItemsOf(v) == IF v.json = "array" THEN v.items ELSE <<>>
TypeOf(v) == IF v.json = "object" THEN v.type ELSE NoType

-----------------------------------------------------------------------------
(* Texts.                                                                    *)

CallTypes == {"function_call", "tool_use"}
OutputTypes == {"function_call_output", "tool_result"}
is_tool_type(type) == type \in CallTypes \cup OutputTypes
\* The text anywhere below a value, down to a depth; tool payloads are hidden
\* where the caller asks for it.
RECURSIVE visible_text(_, _, _)
visible_text(v, depth, hides) ==
    IF depth = 0 THEN <<>>
    ELSE CASE v.json = "string" -> v.text
           [] v.json = "array" ->
                  FlattenSeq([n \in DOMAIN v.items |-> visible_text(v.items[n], depth - 1, hides)])
           [] v.json = "object" ->
                  IF hides /\ is_tool_type(v.type) THEN <<>>
                  ELSE LET keys == SelectSeq(<<"text", "content", "input">>, LAMBDA k : k \in DOMAIN v.fields)
                       IN  IF keys = <<>> THEN <<>> ELSE visible_text(get(v, keys[1]), depth - 1, hides)
           [] OTHER -> <<>>
Entry(role, text) == [role |-> role, text |-> text]
Visible(role, text) == IF text = <<>> THEN <<>> ELSE <<Entry(role, text)>>
\* A tool's output is taken whole, however it is wrapped: what is too deep to
\* be read is kept as JSON, which holds the same texts.
verbatim(v) == visible_text(v, 2 * ParseDepth, FALSE)
json_to_text(v) ==
    IF visible_text(v, ParseDepth, FALSE) = <<>> THEN verbatim(v) ELSE visible_text(v, ParseDepth, FALSE)
output_text(v) == IF v.json = "string" THEN v.text ELSE json_to_text(v)

-----------------------------------------------------------------------------
(* OpenAI.                                                                   *)

TextTypes == {"input_text", "text"}
part_entry(part, role) ==
    IF part.json = "string" THEN <<Entry(role, part.text)>>
    ELSE IF TypeOf(part) \in TextTypes THEN <<Entry(role, string_field(part, "text"))>>
    ELSE Visible(role, visible_text(part, ParseDepth, TRUE))
content_entries(content, role) ==
    IF content.json = "string" THEN <<Entry(role, content.text)>>
    ELSE FlattenSeq([n \in DOMAIN ItemsOf(content) |-> part_entry(content.items[n], role)])
Role(v) == IF get(v, "role") = Null THEN "unknown" ELSE get(v, "role").text[1]
message_entries(item, default) ==
    LET role == IF get(item, "role") = Null THEN default ELSE Role(item)
    IN  IF get(item, "content").json \in {"string", "array"}
        THEN content_entries(get(item, "content"), role)
        ELSE Visible(role, visible_text(item, ParseDepth, TRUE))
reasoning_text(item) ==
    FlattenSeq([n \in DOMAIN ItemsOf(get(item, "content")) |-> string_field(get(item, "content").items[n], "text")])
\* The type decides before the role does.
item_entries(item, default) ==
    IF item.json = "string" THEN <<Entry(default, item.text)>>
    ELSE CASE item.type = "reasoning" -> <<Entry("reasoning", reasoning_text(item))>>
           [] item.type = "function_call" -> <<Entry("tool_call", string_field(item, "arguments"))>>
           [] item.type = "function_call_output" -> <<Entry("tool_result", output_text(get(item, "output")))>>
           [] OTHER -> message_entries(item, default)
push_instructions(payload) ==
    IF get(payload, "instructions").json = "string"
    THEN <<Entry("developer", string_field(payload, "instructions"))>> ELSE <<>>
push_input(payload) ==
    FlattenSeq([n \in DOMAIN ItemsOf(get(payload, "input")) |-> item_entries(get(payload, "input").items[n], "unknown")])
ResponsesRequest(payload) == push_instructions(payload) \o push_input(payload)

message_call_entries(message) ==
    [n \in DOMAIN ItemsOf(get(message, "tool_calls")) |->
        Entry("tool_call", string_field(get(message, "tool_calls").items[n], "arguments"))]
ChatMessageEntries(message) ==
    LET role == Role(message)
        reasoning == string_field(message, "reasoning_content")
    IN  IF role = "tool" THEN <<Entry("tool_result", output_text(get(message, "content")))>>
        ELSE (IF role = "assistant" THEN Visible("reasoning", reasoning) ELSE <<>>)
             \o content_entries(get(message, "content"), role)
             \o message_call_entries(message)
ChatRequest(payload) ==
    FlattenSeq([n \in DOMAIN ItemsOf(get(payload, "messages")) |-> ChatMessageEntries(get(payload, "messages").items[n])])

\* Every image of a user message, in order.
OpenAiItemImages(item) ==
    IF TypeOf(item) \in {"input_image", "image_url"} THEN <<string_field(item, "image_url")>> ELSE <<>>
extract_openai_request_images(payload) ==
    LET items == ItemsOf(get(payload, "input")) \o ItemsOf(get(payload, "messages"))
    IN  FlattenSeq([n \in DOMAIN items |->
            IF Role(items[n]) # "user" THEN <<>>
            ELSE FlattenSeq([m \in DOMAIN ItemsOf(get(items[n], "content")) |->
                                OpenAiItemImages(get(items[n], "content").items[m])])])

-----------------------------------------------------------------------------
(* Anthropic.                                                                *)

tool_result_output(v) ==
    IF v.json = "string" THEN v.text ELSE FlattenSeq([n \in DOMAIN v.items |-> json_to_text(v.items[n])])
\* Mutant: a result that is wrapped in blocks is read like any other block.
BlockByText(block, role) ==
    IF block.json = "string" THEN <<Entry(role, block.text)>>
    ELSE CASE block.type = "text" -> <<Entry(role, string_field(block, "text"))>>
           [] block.type = "thinking" -> <<Entry("reasoning", string_field(block, "thinking"))>>
           [] block.type = "tool_use" -> <<Entry("tool_call", string_field(block, "input"))>>
           [] OTHER -> Visible(role, visible_text(block, ParseDepth, FALSE))
BlockEntry(block, role) ==
    IF block.json = "string" THEN <<Entry(role, block.text)>>
    ELSE CASE block.type = "text" -> <<Entry(role, string_field(block, "text"))>>
           [] block.type = "thinking" -> <<Entry("reasoning", string_field(block, "thinking"))>>
           [] block.type = "tool_use" -> <<Entry("tool_call", string_field(block, "input"))>>
           [] block.type = "tool_result" -> <<Entry("tool_result", tool_result_output(get(block, "content")))>>
           [] OTHER -> Visible(role, visible_text(block, ParseDepth, TRUE))
Blocks(content) == IF content.json = "array" THEN content.items ELSE IF content = Null THEN <<>> ELSE <<content>>
BlocksEntries(content, role) ==
    FlattenSeq([n \in DOMAIN Blocks(content) |-> BlockEntry(Blocks(content)[n], role)])
AnthropicRequest(payload) ==
    BlocksEntries(get(payload, "system"), "system")
    \o FlattenSeq([n \in DOMAIN ItemsOf(get(payload, "messages")) |->
                      LET message == get(payload, "messages").items[n]
                      IN  BlocksEntries(get(message, "content"), Role(message))])
\* The images of the last user message, those of tool results included: the
\* earlier ones were told with earlier requests.
RECURSIVE collect_anthropic_content(_)
collect_anthropic_content(v) ==
    CASE v.json = "array" -> FlattenSeq([n \in DOMAIN v.items |-> collect_anthropic_content(v.items[n])])
      [] TypeOf(v) = "image" -> <<string_field(v, "data")>>
      [] TypeOf(v) = "tool_result" -> collect_anthropic_content(get(v, "content"))
      [] OTHER -> <<>>
extract_anthropic_request_images(payload) ==
    LET users == SelectSeq(ItemsOf(get(payload, "messages")), LAMBDA v : Role(v) = "user")
    IN  IF users = <<>> THEN <<>> ELSE collect_anthropic_content(get(Last(users), "content"))

-----------------------------------------------------------------------------
(* The dialect and the session.                                              *)

\* The path decides; elsewhere the shape of the body does.
detect_http(r, payload) ==
    IF r.path \in {"responses", "chat", "anthropic", "web"} THEN r.path
    ELSE IF get(payload, "input") # Null THEN "responses"
    ELSE IF get(payload, "messages").json = "array" THEN "anthropic" ELSE "none"
opencode_session_id == <<"x-opencode-session-id", "x-opencode-session">>
OpenAiSession ==
    <<"session-id", "session_id", "thread-id", "turn-metadata", "x-deepseek-harness-session-id",
      "x-hermes-session-id">> \o opencode_session_id \o <<"cursor x-agent-id", "x-conversation-id">>
websocket_session_id ==
    <<"session-id", "session_id", "thread-id", "x-hermes-session-id">>
    \o opencode_session_id \o <<"x-conversation-id">>
anthropic_session_id ==
    <<"x-claude-code-session-id", "x-claude-session-id", "x-deepseek-harness-session-id",
      "x-hermes-session-id">> \o opencode_session_id
    \o <<"metadata user_id", "session-id", "session_id", "thread-id", "cursor x-agent-id", "x-conversation-id">>
FirstDeclared(order, headers) ==
    LET given == SelectSeq(order, LAMBDA h : h \in headers)
    IN  IF given = <<>> THEN "unattributed" ELSE given[1]
SessionOf(r, dialect) ==
    IF dialect = "web" THEN "conversation of the path"
    ELSE FirstDeclared(IF dialect = "anthropic" THEN anthropic_session_id
                       ELSE IF r.transport = "websocket" THEN websocket_session_id ELSE OpenAiSession, r.headers)

-----------------------------------------------------------------------------
(* The agent.                                                                *)

Part(dialect, u) ==
    CASE u.form = "wrapped" -> O("custom", [content |-> A(<<O("text", [text |-> S(u.text)])>>)])
      [] u.form = "deep" -> O("custom", [content |-> A(<<O("custom", [content |-> O("text", [text |-> S(u.text)])])>>)])
      [] OTHER -> O(IF dialect = "responses" THEN "input_text" ELSE "text", [text |-> S(u.text)])
SaidAs(dialect, u) == IF u.form = "plain" THEN S(u.text) ELSE A(<<Part(dialect, u)>>)
Message(role, content) == O(NoType, [role |-> S(<<role>>), content |-> content])
\* A tool's payload inside a user message.
Embedded(u) == A(<<O("tool_result", [content |-> S(u.text)])>>)
Item(dialect, u) ==
    CASE dialect = "responses" ->
             (CASE u.by = "reasoning" -> O("reasoning", [content |-> A(<<O(NoType, [text |-> S(u.text)])>>)])
                [] u.by = "tool_call" -> O("function_call", [arguments |-> S(u.text)])
                [] u.by = "tool_result" -> O("function_call_output", [output |-> SaidAs(dialect, u)])
                [] u.by = "embedded" -> Message("user", Embedded(u))
                [] u.by = "image" -> Message("user", A(<<O("input_image", [image_url |-> S(u.text)])>>))
                [] OTHER -> Message(u.by, SaidAs(dialect, u)))
      [] dialect = "chat" ->
             (CASE u.by = "reasoning" -> O(NoType, [role |-> S(<<"assistant">>), reasoning_content |-> S(u.text)])
                [] u.by = "tool_call" ->
                       O(NoType, [role |-> S(<<"assistant">>), tool_calls |-> A(<<O("function", [arguments |-> S(u.text)])>>)])
                [] u.by = "tool_result" -> Message("tool", SaidAs(dialect, u))
                [] u.by = "embedded" -> Message("user", Embedded(u))
                [] u.by = "image" -> Message("user", A(<<O("image_url", [image_url |-> S(u.text)])>>))
                [] OTHER -> Message(u.by, SaidAs(dialect, u)))
      [] OTHER ->
             (CASE u.by = "reasoning" -> Message("assistant", A(<<O("thinking", [thinking |-> S(u.text)])>>))
                [] u.by = "tool_call" -> Message("assistant", A(<<O("tool_use", [input |-> S(u.text)])>>))
                [] u.by = "tool_result" -> Message("user", A(<<O("tool_result", [content |-> SaidAs(dialect, u)])>>))
                [] u.by = "embedded" -> Message("user", Embedded(u))
                [] u.by = "image" -> Message("user", A(<<O("image", [data |-> S(u.text)])>>))
                [] OTHER -> Message(u.by, SaidAs(dialect, u)))
Payload(r) ==
    LET rest == SelectSeq(r.says, LAMBDA u : u.by # "system")
        first == SelectSeq(r.says, LAMBDA u : u.by = "system")
        items == A([n \in DOMAIN rest |-> Item(r.dialect, rest[n])])
    IN  IF ~r.json THEN Null
        ELSE CASE r.dialect = "responses" ->
                      O(NoType, IF first = <<>> THEN [input |-> items]
                                ELSE [instructions |-> S(first[1].text), input |-> items])
               [] r.dialect = "chat" ->
                      O(NoType, [messages |-> A([n \in DOMAIN first |-> Message("system", S(first[n].text))] \o items.items)])
               [] OTHER ->
                      O(NoType, IF first = <<>> THEN [messages |-> items]
                                ELSE [system |-> S(first[1].text), messages |-> items])

Utterances ==
    {[by |-> b, form |-> f] : b \in {"user", "assistant", "tool_result"}, f \in {"plain", "parts", "wrapped", "deep"}}
    \cup {[by |-> b, form |-> "plain"] : b \in {"system", "reasoning", "tool_call", "image", "embedded"}}
Numbered(seq) == [n \in DOMAIN seq |-> [by |-> seq[n].by, form |-> seq[n].form, text |-> <<n>>]]
\* Codex declares its session beside the thread of a subagent.
HeadersOf == [codex |-> {"session-id", "thread-id", "turn-metadata"}, hermes |-> {"x-hermes-session-id"},
           opencode |-> {"x-opencode-session-id"}, workbuddy |-> {"x-conversation-id"},
           cursor |-> {"cursor x-agent-id"}, deepseek |-> {"x-deepseek-harness-session-id"},
           claude |-> {"x-claude-code-session-id", "metadata user_id"}, other |-> {}]
SessionHeader ==
    [codex |-> "session-id", hermes |-> "x-hermes-session-id", opencode |-> "x-opencode-session-id",
     workbuddy |-> "x-conversation-id", cursor |-> "cursor x-agent-id",
     deepseek |-> "x-deepseek-harness-session-id", claude |-> "x-claude-code-session-id", other |-> "unattributed"]
Speaks(agent, dialect, transport) ==
    /\ agent = "claude" => dialect \in {"anthropic", "web"}
    /\ transport = "websocket" => dialect = "responses" /\ agent \notin {"cursor", "deepseek"}
Requests ==
    {[dialect |-> d, path |-> p, transport |-> t, agent |-> a, headers |-> HeadersOf[a], json |-> j,
      truncated |-> cut, answered |-> answered, says |-> Numbered(says)] :
        d \in {"responses", "chat", "anthropic", "web"}, p \in {"known", "elsewhere"}, t \in {"http", "websocket"},
        a \in DOMAIN HeadersOf, j \in BOOLEAN, cut \in BOOLEAN, answered \in BOOLEAN,
        says \in {<<>>} \cup {<<u>> : u \in Utterances}}
TwoTurns ==
    {[dialect |-> d, path |-> d, transport |-> "http", agent |-> "other", headers |-> {}, json |-> TRUE,
      truncated |-> FALSE, answered |-> TRUE, says |-> Numbered(<<u, v>>)] :
        d \in {"responses", "chat", "anthropic", "web"}, u \in Utterances, v \in {u \in Utterances : u.by # "system"}}
\* A truncated body is not JSON; a Chat request is known by its path alone.
Sendable(r) ==
    /\ Speaks(r.agent, r.dialect, r.transport)
    /\ r.truncated => ~r.json
    /\ r.path = "elsewhere" => r.dialect \in {"responses", "anthropic"} /\ r.transport = "http"
    /\ r.transport = "websocket" => ~r.truncated /\ r.json
OnKnownPath(r) == [r EXCEPT !.path = IF @ = "known" THEN r.dialect ELSE @]

SentRequests == {OnKnownPath(r) : r \in {q \in Requests : Sendable(q)}} \cup TwoTurns
Unread == [as |-> "unread"]
ReadInit ==
    /\ asked \in SentRequests
    /\ told = Unread

-----------------------------------------------------------------------------
(* Reading.                                                                  *)

RequestCompleteness(readable, truncated) ==
    IF truncated THEN "partial" ELSE IF readable THEN "complete" ELSE "unsupported"
Skipped == [as |-> "skipped"]
EntriesOf(dialect, payload) ==
    IF payload = Null THEN <<>>
    ELSE CASE dialect = "responses" -> ResponsesRequest(payload)
           [] dialect = "chat" -> ChatRequest(payload)
           [] OTHER -> AnthropicRequest(payload)
ImagesOf(dialect, payload) ==
    IF payload = Null THEN <<>>
    ELSE IF dialect \in {"responses", "chat"} THEN extract_openai_request_images(payload)
    ELSE extract_anthropic_request_images(payload)
\* The Anthropic parsers need a request to tell; an OpenAI exchange is told
\* when anything is known of it, or its body was cut.
Tellable(r, dialect, payload) ==
    LET says == EntriesOf(dialect, payload) # <<>> \/ ImagesOf(dialect, payload) # <<>>
    IN  CASE dialect = "none" -> FALSE
          [] dialect \in {"anthropic", "web"} -> payload # Null /\ says
          [] OTHER -> says \/ r.answered \/ r.truncated
parse_exchange ==
    /\ told = Unread
    /\ LET payload == Payload(asked)
           dialect == detect_http(asked, payload)
       IN  told' = IF Tellable(asked, dialect, payload)
                   THEN [as |-> "read", dialect |-> dialect, session |-> SessionOf(asked, dialect),
                         entries |-> EntriesOf(dialect, payload), images |-> ImagesOf(dialect, payload),
                         completeness |-> RequestCompleteness(payload # Null, asked.truncated)]
                   ELSE Skipped
    /\ UNCHANGED asked
ReadNext == parse_exchange

-----------------------------------------------------------------------------
(* Properties.                                                               *)

Read == told.as = "read"
\* What the request means: instructions are the developer's in a Responses
\* request; a payload inside a message is a tool's or nobody's, never the
\* user's words.
Meant(r, u) ==
    CASE u.by = "image" \/ (u.form = "deep" /\ u.by # "tool_result") -> <<>>
      [] u.by = "embedded" -> IF r.dialect \in {"anthropic", "web"} THEN <<Entry("tool_result", u.text)>> ELSE <<>>
      [] u.by = "system" /\ r.dialect = "responses" -> <<Entry("developer", u.text)>>
      [] OTHER -> <<Entry(u.by, u.text)>>
Words(entries) == SelectSeq(entries, LAMBDA e : e.text # <<>>)
EntriesExact ==
    Read /\ asked.json =>
        Words(told.entries) = FlattenSeq([n \in DOMAIN asked.says |-> Meant(asked, asked.says[n])])
\* The user's images are told in order; an Anthropic request repeats the
\* whole history and only its last message is new.
ImagesExact ==
    Read /\ asked.json =>
        LET images == SelectSeq(asked.says, LAMBDA u : u.by = "image")
            fromUser == SelectSeq(asked.says, LAMBDA u : u.by \in {"user", "image", "tool_result", "embedded"})
        IN  told.images =
            IF asked.dialect \in {"anthropic", "web"}
            THEN (IF fromUser # <<>> /\ Last(fromUser).by = "image" THEN <<Last(fromUser).text>> ELSE <<>>)
            ELSE [n \in DOMAIN images |-> images[n].text]
\* A request belongs to the session its agent declares, on either transport,
\* and is read in the dialect it was written in.
SessionDeclared ==
    Read => /\ told.dialect = asked.dialect
            /\ told.dialect # "web" => told.session = SessionHeader[asked.agent]
\* A body that could not be read is never passed off as complete, and nothing
\* that says something is skipped.
GapsTold ==
    /\ Read /\ ~asked.json => told.completeness # "complete" /\ told.entries = <<>>
    /\ told = Skipped => ~asked.json \/ \A n \in DOMAIN asked.says : Meant(asked, asked.says[n]) = <<>>

(* A request is read as the agent meant it (protocol/openai, protocol/       *)
(* anthropic, protocol/detection.rs).                                        *)
RequestFaithful == EntriesExact /\ ImagesExact /\ SessionDeclared /\ GapsTold
=============================================================================
