--------------------------- MODULE ExplicitRequest ---------------------------
(***************************************************************************)
(* The explicit proxy's request head, from the bytes the client sent to a  *)
(* target and a prefix for the flow.                                       *)
(*                                                                         *)
(* A written host is [kind, labels, upper, dots]: kind "dns", "v4", "v6"   *)
(* or "bad" (empty, scoped, or with an invalid label), its labels, whether *)
(* it is in upper case, and the number of trailing dots.  A written        *)
(* authority adds `user` (userinfo present) and `port` (0 is "none", Bad   *)
(* does not parse).  A head is                                             *)
(*   [form, version, method, scheme, target, hosts, lengths, codings,      *)
(*    names]                                                               *)
(* with the Host, Content-Length and Transfer-Encoding headers in order    *)
(* and the names of the remaining ones.                                    *)
(***************************************************************************)
EXTENDS Naturals, Sequences, SequencesExt, FiniteSets

Bad == 99999          \* a number that does not parse
NoPort == 88888

\* What httparse and the header list leave to look at: a Transfer-Encoding
\* header has at least one coding, which may be "".
IsWritten(authority) ==
    /\ authority.host.kind \in {"dns", "v4", "v6", "mapped", "bad"} /\ authority.port \in Nat
    /\ authority.host.kind \in {"v4", "v6", "mapped"} =>
           authority.host.labels \in {<<h>> : h \in {"any", "loopback", "nic", "far"}}
IsHead(head) ==
    /\ head.form \in {"partial", "headers", "syntax", "ok"} /\ IsWritten(head.target)
    /\ head.hosts \in Seq(Range(head.hosts)) /\ head.lengths \in Seq(Nat)
    /\ head.codings \in Seq(Seq(STRING) \ {<<>>})

Accepted(value) == [error |-> "", value |-> value]
Refused(error) == [error |-> error, value |-> <<>>]

ExplicitRequestError == {"IncompleteRequest", "HeaderTooLarge", "TooManyHeaders",
    "HeaderTimeout", "Parse", "UnsupportedVersion", "InvalidRequest", "InvalidTarget",
    "InvalidHost", "HostMismatch", "InvalidFraming", "Io"}

ExplicitProxyErrorCategory == {"BadRequest", "RequestTimeout", "HeaderTooLarge",
    "VersionNotSupported", "ConnectionIo"}

category(error) ==
    CASE error = "HeaderTimeout" -> "RequestTimeout"
      [] error \in {"HeaderTooLarge", "TooManyHeaders"} -> "HeaderTooLarge"
      [] error = "UnsupportedVersion" -> "VersionNotSupported"
      [] error = "Io" -> "ConnectionIo"
      [] OTHER -> "BadRequest"

\* A DNS name loses one trailing dot and its case; a second dot leaves an
\* empty label.
normalize_target_host(h) ==
    IF h.kind = "bad" \/ (h.kind = "dns" /\ h.dots > 1) THEN Refused("InvalidTarget")
    ELSE Accepted([kind |-> h.kind, labels |-> h.labels])

parse_target_authority(raw, default) ==
    LET port == IF raw.port = NoPort THEN default ELSE raw.port
        host == normalize_target_host(raw.host)
    IN  IF raw.user \/ port \in {Bad, NoPort, 0} THEN Refused("InvalidTarget")
        ELSE IF host.error # "" THEN host
        ELSE Accepted([host |-> host.value, port |-> port])

validate_matching_host(hosts, target, default) ==
    IF Len(hosts) # 1 THEN "InvalidHost"
    ELSE LET declared == parse_target_authority(hosts[1], default)
         IN  IF declared.error # "" THEN "InvalidHost"
             ELSE IF declared.value # target THEN "HostMismatch" ELSE ""

\* Repeated lengths must agree.
parse_content_length(lengths) ==
    IF Bad \in Range(lengths) \/ Cardinality(Range(lengths)) > 1
    THEN Refused("InvalidFraming")
    ELSE Accepted(SubSeq(lengths, 1, IF lengths = <<>> THEN 0 ELSE 1))

\* The codings of all Transfer-Encoding headers, read as one list.
validate_transfer_encoding(codings) ==
    LET all == FlattenSeq(codings)
    IN  IF all = <<>> \/ "" \in Range(all) \/ Last(all) # "chunked"
           \/ "chunked" \in Range(Front(all))
        THEN "InvalidFraming" ELSE ""

validate_connect_framing(head) ==
    LET length == parse_content_length(head.lengths)
    IN  IF head.codings # <<>> THEN "InvalidFraming"
        ELSE IF length.error # "" THEN length.error
        ELSE IF length.value \notin {<<>>, <<0>>} THEN "InvalidFraming" ELSE ""

validate_http_framing(head) ==
    LET length == parse_content_length(head.lengths)
    IN  IF length.error # "" THEN length.error
        ELSE IF length.value # <<>> /\ head.codings # <<>> THEN "InvalidFraming"
        ELSE IF head.codings # <<>> THEN validate_transfer_encoding(head.codings)
        ELSE ""

is_proxy_only_header(name) ==
    name \in {"proxy-authorization", "proxy-connection", "proxy-authenticate"}

\* The head that replaces an absolute-form one: origin form, one Host that
\* names the target (its port unless 80), no proxy headers.
sanitized_absolute_request_prefix(head, target) ==
    [method |-> head.method,
     host |-> IF target.port = 80 THEN [host |-> target.host, port |-> NoPort] ELSE target,
     lengths |-> head.lengths, codings |-> head.codings,
     names |-> {n \in head.names : ~is_proxy_only_header(n)}]

Decoded(target, protocol, rewritten) ==
    Accepted([target |-> target, protocol |-> protocol, rewritten |-> rewritten])

parse_connect(head) ==
    LET target == parse_target_authority(head.target, NoPort)
    IN  IF target.error # "" THEN target
        ELSE LET host == validate_matching_host(head.hosts, target.value, target.value.port)
                 framing == validate_connect_framing(head)
             IN  IF host # "" THEN Refused(host)
                 ELSE IF framing # "" THEN Refused(framing)
                 ELSE Decoded(target.value, "HttpConnect", {})

parse_absolute_http(head) ==
    LET target == parse_target_authority(head.target, 80)
    IN  IF head.scheme # "http" THEN Refused("InvalidTarget")
        ELSE IF target.error # "" THEN target
        ELSE LET host == validate_matching_host(head.hosts, target.value, 80)
                 framing == validate_http_framing(head)
             IN  IF host # "" THEN Refused(host)
                 ELSE IF framing # "" THEN Refused(framing)
                 ELSE Decoded(target.value, "HttpAbsoluteForm",
                              {sanitized_absolute_request_prefix(head, target.value)})

\* ExplicitRequestParser::parse: what httparse says of the head comes first.
parse(head) ==
    CASE head.form = "partial" -> Refused("InvalidRequest")
      [] head.form = "headers" -> Refused("TooManyHeaders")
      [] head.form = "syntax" -> Refused("Parse")
      [] head.form = "ok" /\ head.version # 1 -> Refused("UnsupportedVersion")
      [] head.form = "ok" /\ head.version = 1 /\ head.method = "CONNECT" -> parse_connect(head)
      [] OTHER -> parse_absolute_http(head)

=============================================================================
