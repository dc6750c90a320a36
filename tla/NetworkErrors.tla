---------------------------- MODULE NetworkErrors ----------------------------
(***************************************************************************)
(* How the end of a flow is explained: the error becomes an observation,   *)
(* the observation a database row, the row a REST answer, and the command  *)
(* line turns that into a diagnosis.  Every stage has its own tables.      *)
(*                                                                         *)
(* An enumeration is the set of its as_str values, so its parse is         *)
(* membership.  "" stands for None.  An error is [kind, op, cause]: cause  *)
(* is the io::ErrorKind, the Http1Error, the TLS side, or for an upstream  *)
(* proxy, whose op is the stage, its variant.                              *)
(***************************************************************************)
EXTENDS Naturals, FiniteSets

CONSTANTS
    Statuses        \* HTTP statuses a provider or proxy may answer

StatusCode == 0 .. 65535        \* a u16
ASSUME NetworkErrorsAssumption == Statuses \subseteq StatusCode

VARIABLES
    ended,      \* what ended the flow, as a set of at most one error or outcome
    observed,   \* its NetworkObservation, at most one
    row,        \* its row in network_observations, at most one
    shown       \* the command line's diagnosis, at most one

errorVars == <<ended, observed, row, shown>>

NetworkHop == {"agent_to_abyss", "abyss_to_upstream_proxy", "abyss_to_provider", "cross_boundary"}
NetworkDirection == {"agent_to_abyss", "abyss_to_agent", "abyss_to_provider", "provider_to_abyss",
    "bidirectional", "local"}
NetworkStage == {"protocol_detection", "tls_handshake", "request", "dns_resolution", "tcp_connect",
    "response_headers", "stream", "local_relay", "unknown"}
NetworkOutcome == {"succeeded", "failed", "interrupted", "skipped", "unknown"}
NetworkFailureClass == {"client_closed", "timeout", "connection_refused", "connection_reset",
    "upstream_closed", "eof", "tls_error", "dns_error", "http_error", "proxy_error",
    "invalid_protocol", "io_error", "resource_exhausted", "unknown"}
ProxyCode == {"upstream_proxy_dns_error", "upstream_proxy_tcp_error", "upstream_proxy_connect_error",
    "upstream_proxy_auth_required"}
NetworkErrorCode == ProxyCode \cup {"agent_protocol_error", "agent_tls_error", "agent_request_error",
    "agent_connection_error", "agent_connection_closed", "abyss_relay_error", "abyss_internal_error",
    "provider_dns_error", "provider_tcp_error", "provider_tls_error", "provider_request_error",
    "provider_response_headers_error", "provider_stream_error", "provider_http_error",
    "provider_internal_error"}
FlowOperation == {"read_agent_protocol", "read_agent_tls_client_hello", "accept_agent_tls",
    "read_agent_request_head", "read_agent_request_body", "write_provider_request_head",
    "write_provider_request_body", "write_agent_continue_response", "resolve_proxy",
    "connect_proxy_tcp", "proxy_connect_handshake", "connect_provider_tcp", "connect_provider_tls",
    "write_provider_tls_client_hello", "read_provider_response_head", "read_provider_response_body",
    "write_agent_response_head", "write_agent_response_body", "read_agent_websocket",
    "write_provider_websocket", "read_provider_websocket", "write_agent_websocket",
    "relay_passthrough", "shutdown_agent", "local_relay"}

ErrorKind == {"ConnectionRefused", "ConnectionReset", "ConnectionAborted", "BrokenPipe",
    "NotConnected", "UnexpectedEof", "TimedOut", "Other"}
Http1Error == {"IncompleteRequest", "IncompleteResponse", "RequestHeadTimeout",
    "ResponseHeadTimeout", "Malformed"}
Connecting == {"resolve_proxy", "connect_proxy_tcp", "proxy_connect_handshake"}
FlowError(kind, op, cause) == [kind |-> kind, op |-> op, cause |-> cause]
PlainErrors == {FlowError(k, "", "") : k \in {"ClientClosedBeforeProtocol", "UnsupportedProtocol", "MissingSni",
    "TlsConfiguration", "ByteCountOverflow", "TlsClientHelloTooLarge", "MalformedTlsClientHello",
    "ProxyTargetServerNameMismatch", "ProxyTargetHostMismatch", "ProxyTargetRequestForm", "TlsDecryptionPolicy"}}
TlsErrors == {FlowError("Tls", "", side) : side \in {"Client", "Upstream"}}
Http1Errors == {FlowError("Http1", op, c) : op \in {"read_agent_request_head", "read_agent_request_body",
    "read_provider_response_head", "read_provider_response_body"}, c \in Http1Error \cup ErrorKind}
WebSocketErrors == {FlowError("WebSocket", op, c) : op \in {"read_agent_websocket", "write_agent_websocket",
    "read_provider_websocket", "write_provider_websocket"}, c \in ErrorKind \cup {"ConnectionClosed", "Protocol"}}
IoErrors == {FlowError("Io", op, c) : op \in FlowOperation \ Connecting, c \in ErrorKind}
TimeoutErrors == {FlowError("Timeout", op, "") : op \in FlowOperation \ Connecting}
ProxyErrors ==
    {FlowError("UpstreamProxy", op, c) : op \in Connecting, c \in ErrorKind \cup {"Timeout"}}
    \cup {FlowError("UpstreamProxy", "proxy_connect_handshake", c) : c \in {"Protocol", "Rejected", "Rejected407"}}
    \cup {FlowError("UpstreamProxy", "resolve_proxy", "Loop")}
FlowErrors == PlainErrors \cup TlsErrors \cup Http1Errors \cup WebSocketErrors \cup IoErrors \cup TimeoutErrors
              \cup ProxyErrors

is_agent_close_operation(op) == op \in {"write_agent_continue_response", "write_agent_response_head",
    "write_agent_response_body", "read_agent_websocket", "write_agent_websocket", "shutdown_agent"}
is_peer_close_kind(kind) == kind \in {"BrokenPipe", "ConnectionAborted", "ConnectionReset",
    "NotConnected", "UnexpectedEof"}
is_agent_connection_close(e) ==
    \/ e.kind = "Io" /\ is_agent_close_operation(e.op) /\ is_peer_close_kind(e.cause)
    \/ e.kind = "WebSocket" /\ e.op = "read_agent_websocket"
       /\ (e.cause = "ConnectionClosed" \/ is_peer_close_kind(e.cause))

----------------------------------------------------------------------------
\* The broker's side.

ClassOfIo(kind) ==
    CASE kind = "ConnectionRefused" -> "connection_refused"
      [] kind = "ConnectionReset" -> "connection_reset"
      [] kind = "UnexpectedEof" -> "eof"
      [] kind = "TimedOut" -> "timeout"
      [] OTHER -> "io_error"
ClassOfHttp1(cause) ==
    CASE cause = "IncompleteRequest" -> "eof"
      [] cause = "IncompleteResponse" -> "upstream_closed"
      [] cause \in {"RequestHeadTimeout", "ResponseHeadTimeout"} -> "timeout"
      [] cause \in ErrorKind -> ClassOfIo(cause)
      [] OTHER -> "http_error"
ClassOfProxy(e) ==
    CASE e.cause = "Timeout" -> "timeout"
      [] e.cause \in ErrorKind -> IF e.op = "resolve_proxy" THEN "dns_error" ELSE ClassOfIo(e.cause)
      [] e.cause \in {"Rejected", "Rejected407"} -> "http_error"
      [] OTHER -> "invalid_protocol"
\* NetworkFailureClass::from(&TransparentFlowError).
FailureClassOf(e) ==
    IF is_agent_connection_close(e) THEN "client_closed"
    ELSE CASE e.kind = "ClientClosedBeforeProtocol" -> "client_closed"
           [] e.kind = "UpstreamProxy" -> ClassOfProxy(e)
           [] e.kind \in {"UnsupportedProtocol", "MalformedTlsClientHello", "ProxyTargetRequestForm",
                          "WebSocket"} -> "invalid_protocol"
           [] e.kind \in {"MissingSni", "TlsClientHelloTooLarge", "Tls", "TlsConfiguration"} -> "tls_error"
           [] e.kind = "Http1" -> ClassOfHttp1(e.cause)
           [] e.kind = "Io" -> ClassOfIo(e.cause)
           [] e.kind = "Timeout" -> "timeout"
           [] e.kind = "ByteCountOverflow" -> "resource_exhausted"
           [] e.kind \in {"ProxyTargetServerNameMismatch", "ProxyTargetHostMismatch"} -> "proxy_error"
           [] OTHER -> "io_error"

\* NetworkLocation::from(&TransparentFlowError): the operation that failed.
OperationOf(e) ==
    CASE e.kind \in {"ClientClosedBeforeProtocol", "UnsupportedProtocol"} -> "read_agent_protocol"
      [] e.kind \in {"MissingSni", "TlsClientHelloTooLarge", "MalformedTlsClientHello"} ->
            "read_agent_tls_client_hello"
      [] e.kind = "Tls" -> IF e.cause = "Client" THEN "accept_agent_tls" ELSE "connect_provider_tls"
      [] e.op # "" -> e.op
      [] OTHER -> "local_relay"

Place(hop, direction, stage) == [hop |-> hop, direction |-> direction, stage |-> stage]
(* Mutant: takes the location from the stage. *)
LocationByStage(op) ==
    IF op = "read_provider_response_head" THEN Place("agent_to_abyss", "agent_to_abyss", "response_headers")
    ELSE IF op \in Connecting THEN Place("abyss_to_upstream_proxy", "bidirectional", "stream")
    ELSE Place("abyss_to_provider", "abyss_to_provider", "stream")
\* NetworkLocation::from(FlowOperation).
LocationOf(op) ==
    LET agentIn(s) == Place("agent_to_abyss", "agent_to_abyss", s)
        agentOut(s) == Place("agent_to_abyss", "abyss_to_agent", s)
        providerIn(s) == Place("abyss_to_provider", "provider_to_abyss", s)
        providerOut(s) == Place("abyss_to_provider", "abyss_to_provider", s)
        proxy(s) == Place("abyss_to_upstream_proxy", "bidirectional", s)
    IN  CASE op = "resolve_proxy" -> proxy("dns_resolution")
          [] op = "connect_proxy_tcp" -> proxy("tcp_connect")
          [] op = "proxy_connect_handshake" -> proxy("response_headers")
          [] op = "read_agent_protocol" -> agentIn("protocol_detection")
          [] op \in {"read_agent_tls_client_hello", "accept_agent_tls"} -> agentIn("tls_handshake")
          [] op \in {"read_agent_request_head", "read_agent_request_body"} -> agentIn("request")
          [] op = "read_agent_websocket" -> agentIn("stream")
          [] op = "connect_provider_tcp" -> providerOut("tcp_connect")
          [] op \in {"connect_provider_tls", "write_provider_tls_client_hello"} -> providerOut("tls_handshake")
          [] op \in {"write_provider_request_head", "write_provider_request_body"} -> providerOut("request")
          [] op = "write_provider_websocket" -> providerOut("stream")
          [] op = "read_provider_response_head" -> providerIn("response_headers")
          [] op \in {"read_provider_response_body", "read_provider_websocket"} -> providerIn("stream")
          [] op = "write_agent_continue_response" -> agentOut("request")
          [] op = "write_agent_response_head" -> agentOut("response_headers")
          [] op \in {"write_agent_response_body", "write_agent_websocket"} -> agentOut("stream")
          [] op = "shutdown_agent" -> agentOut("local_relay")
          [] op = "relay_passthrough" -> Place("cross_boundary", "bidirectional", "stream")
          [] OTHER -> Place("cross_boundary", "local", "local_relay")

outcome_for_error(e) ==
    IF \/ is_agent_connection_close(e) \/ e.kind = "ClientClosedBeforeProtocol"
       \/ e.kind = "Http1" /\ e.cause \in {"IncompleteRequest", "IncompleteResponse"}
    THEN "interrupted" ELSE "failed"

\* NetworkErrorCode::from_observation, one operator per hop.
Unreached == {"connection_refused", "connection_reset", "timeout"}
AgentCode(stage, outcome, class) ==
    CASE stage = "protocol_detection" -> "agent_protocol_error"
      [] stage = "tls_handshake" -> "agent_tls_error"
      [] stage = "request" -> IF class \in {"eof", "client_closed"} /\ outcome = "interrupted"
                              THEN "agent_connection_closed" ELSE "agent_request_error"
      [] stage \in {"local_relay", "response_headers", "stream"} ->
            IF class = "client_closed" THEN "agent_connection_closed" ELSE "abyss_relay_error"
      [] OTHER -> IF class \in Unreached \cup {"client_closed"}
                  THEN "agent_connection_error" ELSE "abyss_internal_error"
StageCode(stage) ==
    CASE stage = "dns_resolution" -> "provider_dns_error"
      [] stage = "tcp_connect" -> "provider_tcp_error"
      [] stage = "tls_handshake" -> "provider_tls_error"
      [] stage = "request" -> "provider_request_error"
      [] stage = "response_headers" -> "provider_response_headers_error"
      [] OTHER -> "provider_stream_error"
ClassCode(class) ==
    CASE class = "dns_error" -> "provider_dns_error"
      [] class \in Unreached \cup {"io_error"} -> "provider_tcp_error"
      [] class = "tls_error" -> "provider_tls_error"
      [] class = "http_error" -> "provider_http_error"
      [] OTHER -> "provider_internal_error"
ProviderCode(stage, class) ==
    CASE stage \in {"local_relay", "unknown"} -> ClassCode(class)
      [] stage = "protocol_detection" -> "provider_internal_error"
      [] OTHER -> StageCode(stage)
from_observation(hop, stage, outcome, class, status) ==
    LET well == outcome \in {"succeeded", "skipped"}
    IN  CASE hop = "abyss_to_upstream_proxy" ->
                IF well THEN "" ELSE IF stage = "dns_resolution" THEN "upstream_proxy_dns_error"
                ELSE IF stage = "tcp_connect" THEN "upstream_proxy_tcp_error" ELSE "upstream_proxy_connect_error"
          [] hop = "agent_to_abyss" -> IF well THEN "" ELSE AgentCode(stage, outcome, class)
          [] hop = "abyss_to_provider" ->
                IF status >= 400 THEN "provider_http_error"
                ELSE IF well THEN "" ELSE ProviderCode(stage, class)
          [] OTHER -> IF class = "client_closed" THEN "agent_connection_closed" ELSE "abyss_internal_error"

Observation(place, op, outcome, class, status, code) ==
    [hop |-> place.hop, direction |-> place.direction, stage |-> place.stage, operation |-> op,
     outcome |-> outcome, class |-> class, status |-> status, code |-> code]
\* NetworkObservation::from_error; a proxy that wants credentials has its
\* own code.
from_error(e) ==
    LET op == OperationOf(e)
        place == LocationOf(op)
    IN  Observation(place, op, outcome_for_error(e), FailureClassOf(e), 0,
            IF e.cause = "Rejected407" THEN "upstream_proxy_auth_required"
            ELSE from_observation(place.hop, place.stage, outcome_for_error(e), FailureClassOf(e), 0))
\* NetworkObservation::from_outcome: status 0 for a passthrough.
from_outcome(status) ==
    LET place == Place("abyss_to_provider", "", "stream")
        outcome == IF status = 0 THEN "skipped" ELSE "succeeded"
    IN  Observation(place, "", outcome, "", status,
                    from_observation(place.hop, place.stage, outcome, "", status))

\* One value each of the columns that decide the diagnosis.
Columns == {"hop", "direction", "stage", "operation", "outcome", "class", "status", "code"}
Parses(r) ==
    /\ r.hop \in NetworkHop /\ r.direction \in NetworkDirection \cup {""} /\ r.stage \in NetworkStage
    /\ r.operation \in FlowOperation \cup {""} /\ r.outcome \in NetworkOutcome
    /\ r.class \in NetworkFailureClass \cup {""} /\ r.code \in NetworkErrorCode \cup {""}
    /\ r.status \in StatusCode

RecordFailure(e) ==
    /\ ended = {} /\ ended' = {e} /\ observed' = {from_error(e)}
    /\ UNCHANGED <<row, shown>>
RecordOutcome(status) ==
    /\ ended = {} /\ ended' = {FlowError("", "", "")} /\ observed' = {from_outcome(status)}
    /\ UNCHANGED <<row, shown>>
\* NewNetworkObservationRow::try_from: None becomes NULL, status 0 here.
InsertRow ==
    /\ observed # {} /\ row = {}
    /\ row' = {[c \in Columns |-> o[c]] : o \in observed}
    /\ UNCHANGED <<ended, observed, shown>>
\* NetworkObservation::try_from(row): a row that does not parse fails the
\* whole query; a missing code is derived again.
ReadRow(r) ==
    [c \in Columns |-> IF c = "code" /\ r.code = ""
                       THEN from_observation(r.hop, r.stage, r.outcome, r.class, r.status) ELSE r[c]]

----------------------------------------------------------------------------
\* The command line's side, with the enumerations it was built with.

Known(value, set) == IF value \in set THEN value ELSE "unknown"
\* serde(other): what the command line does not know is Unknown.
FromValue(o) ==
    [o EXCEPT !.hop = Known(@, NetworkHop \ {"abyss_to_upstream_proxy"}),
              !.code = IF @ = "" THEN "" ELSE Known(@, NetworkErrorCode \ ProxyCode)]
is_agent_lifecycle_close(o) ==
    /\ o.hop = "agent_to_abyss"
    /\ \/ o.class = "client_closed" \/ o.code = "agent_connection_closed"
       \/ o.stage = "request" /\ o.outcome = "interrupted" /\ o.class = "eof"
       \/ o.operation = "read_agent_websocket" /\ o.class = "eof"
is_healthy(o) == o.outcome \in {"succeeded", "skipped"} /\ o.status < 400
\* technical_error_code_from_legacy_fields.
LegacyCode(o) ==
    IF o.hop = "abyss_to_provider" /\ o.status >= 400 THEN "provider_http_error"
    ELSE IF is_healthy(o) THEN ""
    ELSE CASE o.hop = "agent_to_abyss" ->
                  IF o.stage = "request" THEN "agent_request_error" ELSE AgentCode(o.stage, o.outcome, o.class)
           [] o.hop = "abyss_to_provider" ->
                  IF o.stage \in {"local_relay", "protocol_detection", "unknown"} THEN ClassCode(o.class)
                  ELSE StageCode(o.stage)
           [] o.hop = "cross_boundary" ->
                  IF o.class = "client_closed" THEN "agent_connection_closed" ELSE "abyss_internal_error"
           [] OTHER -> "unknown"
\* diagnosis_for_error_code: severity and whom the message is about.
diagnosis_for_error_code(code) ==
    [severity |-> IF code = "agent_connection_closed" THEN "Warning" ELSE "Error",
     about |-> CASE code = "agent_connection_closed" -> "agent"
                 [] code \in {"agent_protocol_error", "agent_tls_error", "agent_request_error",
                              "agent_connection_error", "abyss_relay_error", "abyss_internal_error"} -> "abyss"
                 [] code = "unknown" -> "unknown"
                 [] OTHER -> "provider"]
generic_diagnosis_for_hop(hop) ==
    [severity |-> "Error", about |-> CASE hop = "agent_to_abyss" -> "abyss"
                                       [] hop = "abyss_to_provider" -> "provider"
                                       [] OTHER -> "unknown"]
Diagnosis(o) ==
    LET code == IF o.code # "" THEN o.code ELSE LegacyCode(o)
    IN  IF is_healthy(o) THEN [severity |-> "Healthy", about |-> "nobody"]
        ELSE IF code = "" THEN generic_diagnosis_for_hop(o.hop) ELSE diagnosis_for_error_code(code)
Hidden == [severity |-> "Hidden", about |-> "nobody"]
\* network_observations, from_value and diagnose_recent.
diagnose_recent ==
    /\ row # {} /\ shown = {} /\ \A r \in row : Parses(r)
    /\ shown' = {LET o == FromValue(ReadRow(r))
                 IN  IF is_agent_lifecycle_close(o) THEN Hidden ELSE Diagnosis(o) : r \in row}
    /\ UNCHANGED <<ended, observed, row>>

ErrorInit == ended = {} /\ observed = {} /\ row = {} /\ shown = {}
ErrorNext ==
    \/ \E e \in FlowErrors : RecordFailure(e)
    \/ \E s \in Statuses : RecordOutcome(s)
    \/ InsertRow \/ diagnose_recent

\* Every observation and every row has values of the enumerations.
ErrorTypeOK ==
    /\ \A o \in observed \cup row : Parses(o)
    /\ \A d \in shown : d.severity \in {"Hidden", "Healthy", "Warning", "Error"}

\* Ground truth by the operation's peer, not by the broker's tables.
AgentSide(op) == op \in {"read_agent_protocol", "read_agent_tls_client_hello", "accept_agent_tls",
    "read_agent_request_head", "read_agent_request_body", "read_agent_websocket",
    "write_agent_continue_response", "write_agent_response_head", "write_agent_response_body",
    "write_agent_websocket", "shutdown_agent"}
ProviderSide(op) == op \in {"connect_provider_tcp", "connect_provider_tls",
    "write_provider_tls_client_hello", "write_provider_request_head", "write_provider_request_body",
    "write_provider_websocket", "read_provider_response_head", "read_provider_response_body",
    "read_provider_websocket"}
AgentLeft(e) ==
    \/ e.kind = "ClientClosedBeforeProtocol"
    \/ e.kind = "Http1" /\ AgentSide(e.op) /\ e.cause \in {"IncompleteRequest", "IncompleteResponse"}
    \/ e.kind \in {"Io", "WebSocket"} /\ AgentSide(e.op) /\ (is_peer_close_kind(e.cause) \/ e.cause = "ConnectionClosed")

\* Through every table between the flow and the user, a failure is left out
\* of the report only when the agent itself went away, and is never shown as
\* healthy.
FailureShown ==
    \A e \in ended, d \in shown :
        e.kind # "" => /\ d.severity # "Healthy"
                       /\ d.severity = "Hidden" => AgentLeft(e)

\* The user is told about the provider exactly when the operation that
\* failed was with the provider: its trouble is not put down to Abyss, nor
\* Abyss's to it.
BlamesFailingSide ==
    \A e \in ended, d \in shown :
        e.kind # "" /\ d.severity # "Hidden" =>
            /\ (d.about = "provider") = (ProviderSide(OperationOf(e)) \/ (e.kind = "Tls" /\ e.cause = "Upstream"))
            /\ d.about \in {"agent", "abyss"} => OperationOf(e) \notin Connecting

\* What the broker stores and what the command line would derive without
\* the code agree wherever both know the hop.
CodesAgree ==
    \A o \in observed :
        o.hop # "abyss_to_upstream_proxy" /\ ~is_agent_lifecycle_close(o) => o.code = LegacyCode(o)

\* What a user learns of a failed flow: that it failed, on which side, and
\* under one code.
ErrorsFaithful == ErrorTypeOK /\ FailureShown /\ BlamesFailingSide /\ CodesAgree

=============================================================================
