------------------------------ MODULE FlowPath ------------------------------
(***************************************************************************)
(* One connection from its accept to its relay: the ingress turns it into  *)
(* a flow (an explicit proxy request, a macOS FlowOpen or a Windows        *)
(* redirect), the engine finds its protocol, applies the decryption policy *)
(* and connects its upstream.  The relay itself is HttpRelay's.            *)
(*                                                                         *)
(* A client is what it sends: a head of `head` units (explicit ingress     *)
(* only), then bytes given by their class, "22" or "3" for a TLS record's  *)
(* first bytes, "tok", "sp" or "bad".  The first `hello` bytes are its     *)
(* ClientHello.  A unit of the flow's stream is <<"new", i>> for the head  *)
(* the decoder rewrote and <<"old", i>> for byte i of the client.          *)
(***************************************************************************)
EXTENDS Naturals, Sequences, SequencesExt, FiniteSets, FiniteSetsExt,
        Endpoints, ExplicitRequest, DecryptPolicy

CONSTANTS
    Clients,        \* connections that may arrive
    Policies,       \* decryption policies that may be installed
    Listen,         \* the explicit listener's address
    MaxHead,        \* MAX_EXPLICIT_PROXY_HEADER_BYTES
    MaxPrefix,      \* MAX_PROTOCOL_PREFIX_BYTES
    MaxHello,       \* the ClientHello limit
    ReadSize        \* most bytes one read returns

ASSUME FlowPathAssumption ==
    MaxHead \in Nat \ {0} /\ MaxPrefix \in Nat \ {0} /\ MaxHello \in Nat \ {0} /\ ReadSize \in Nat \ {0}
\* What a connection can be; only an explicit client sends a request head.
ASSUME ClientsAssumption ==
    /\ IsAddress(Listen) /\ \A p \in Policies : IsPolicy(p)
    /\ \A c \in Clients :
        /\ c.kind \in {"explicit", "macos", "windows"} /\ c.head \in Nat
        /\ c.bytes \in Seq({"22", "3", "tok", "sp", "bad"}) /\ c.hello \in Nat
        /\ c.kind # "explicit" => c.head = 0
        /\ IsHead(c.request) /\ \A a \in c.dns : IsAddress(a)

VARIABLES
    at,         \* where the connection is
    client,     \* the client that connected
    taken,      \* units read off its socket
    pre,        \* the read prefix in front of the socket
    held,       \* units in the buffer of the step that reads
    flow,       \* what the ingress and the engine know of the flow
    policy,     \* the engine's current policy
    replies,    \* responses the ingress wrote to the client
    up,         \* units written upstream by a passthrough
    failure     \* why the connection ended

pathVars == <<at, client, taken, pre, held, flow, policy, replies, up, failure>>

FlowIngress == {"none", "explicit", "macos", "windows"}
UpstreamConnection == {"Deferred", "Prepared", "HttpConnect"}
DestinationAddress == {"Known", "Unknown"}
NoTarget == [host |-> [kind |-> "none", labels |-> <<>>], port |-> 0]
NoFlow == [ingress |-> "none", target |-> NoTarget, host |-> NoHost, destination |-> "Unknown",
           upstream |-> "Deferred", via |-> "none", peer |-> {}, protocol |-> "", sni |-> NoHost,
           snapshot |-> DefaultPolicy, decision |-> "", code |-> 0]
ExplicitIngressError == ExplicitRequestError \cup {"SelfTarget", "ListenerInterfaces",
    "ResolveTimeout", "Resolve", "NoResolvedAddresses", "ConnectTimeout", "Connect",
    "UpstreamProxy", "UpstreamProxyTimeout", "WriteResponse"}
IngressError == {"InvalidFramedFlow", "FramedProtocol", "ResolveDestination", "RedirectContext"}
TransparentFlowError == {"UnsupportedProtocol", "ClientClosedBeforeProtocol", "MissingSni",
    "ProxyTargetServerNameMismatch", "TlsClientHelloTooLarge", "Timeout", "Io", "Tls", "UpstreamTunnel"}

Idle == [kind |-> "none", proxy |-> FALSE, head |-> 0, bytes |-> <<>>, ends |-> FALSE]

PathInit ==
    /\ at = "idle" /\ client = Idle /\ taken = 0 /\ pre = <<>> /\ held = <<>>
    /\ flow = NoFlow /\ policy = DefaultPolicy /\ replies = <<>> /\ up = <<>> /\ failure = ""

Total == client.head + Len(client.bytes)
Old(i, j) == [k \in 1..(IF j < i THEN 0 ELSE j - i + 1) |-> <<"old", i + k - 1>>]
ClassOf(u) == IF u[1] = "new" THEN (IF u[2] = 1 THEN "tok" ELSE "sp") ELSE client.bytes[u[2] - client.head]

Fail(e) == at' = "failed" /\ failure' = e
Stay == UNCHANGED <<client, policy>>

\* MitmEngine::replace_tls_decryption_policy, at any time.
replace_tls_decryption_policy(p) ==
    /\ validate(p) = "" /\ p # policy /\ policy' = p
    /\ UNCHANGED <<at, client, taken, pre, held, flow, replies, up, failure>>

\* Each ingress clones the network snapshot when it accepts.
Accept(c) ==
    /\ at = "idle" /\ client' = c
    /\ at' = CASE c.kind = "explicit" -> "head" [] c.kind = "macos" -> "open" [] OTHER -> "redirect"
    /\ UNCHANGED <<taken, pre, held, flow, policy, replies, up, failure>>

----------------------------------------------------------------------------
\* Explicit ingress.

Refuse(e, code) ==      \* the ingress answers, then returns error e
    /\ at' = IF code = 0 THEN "failed" ELSE "refuse"
    /\ failure' = e /\ flow' = [flow EXCEPT !.code = code]

reject_decoder_error(e) ==
    Refuse(e, CASE category(e) = "RequestTimeout" -> 408
                [] category(e) = "HeaderTooLarge" -> 431
                [] category(e) = "VersionNotSupported" -> 505
                [] category(e) = "ConnectionIo" -> 0
                [] OTHER -> 400)

\* ExplicitIngressError::response.
response(e) ==
    CASE e \in {"ResolveTimeout", "ConnectTimeout", "UpstreamProxyTimeout"} -> 504
      [] e = "SelfTarget" -> 403
      [] OTHER -> 502

\* One read of read_request_head, never past the limit; the head is looked
\* for before the limit is.
read_request_head(n) ==
    /\ at = "head"
    /\ IF client.head <= taken
       THEN /\ n = 0 /\ at' = "parse" /\ UNCHANGED <<taken, flow, failure>>
       ELSE IF taken >= MaxHead
       THEN n = 0 /\ reject_decoder_error("HeaderTooLarge") /\ UNCHANGED taken
       ELSE /\ n \in 1..Min({ReadSize, MaxHead - taken, Total - taken})
            /\ taken' = taken + n /\ UNCHANGED <<at, flow, failure>>
    /\ Stay /\ UNCHANGED <<pre, held, replies, up>>
HeadFails(e) ==
    /\ at = "head" /\ taken < client.head
    /\ \/ e \in {"Io", "HeaderTimeout"}
       \/ e = "IncompleteRequest" /\ taken = Total /\ client.ends
    /\ reject_decoder_error(e)
    /\ Stay /\ UNCHANGED <<taken, pre, held, replies, up>>

\* The rest of the head's last read is the flow's prefix, behind the
\* rewritten head when there is one.
decode ==
    /\ at = "parse"
    /\ LET r == parse(client.request)
       IN  IF r.error # ""
           THEN reject_decoder_error(r.error) /\ UNCHANGED pre
           ELSE /\ flow' = [flow EXCEPT !.ingress = "explicit", !.target = r.value.target,
                                        !.protocol = r.value.protocol]
                /\ pre' = (IF r.value.rewritten = {} THEN <<>> ELSE <<<<"new", 1>>, <<"new", 2>>>>)
                          \o Old(client.head + 1, taken)
                /\ at' = "prepare" /\ UNCHANGED failure
    /\ Stay /\ UNCHANGED <<taken, held, replies, up>>

AddressOf(host, port) == Address(host.kind, host.labels[1], port)
TargetIp == IF flow.target.host.kind = "dns" THEN {}
            ELSE {AddressOf(flow.target.host, flow.target.port)}
\* Addresses a proxied request is compared with before the tunnel is opened.
OwnNames ==
    TargetIp \cup (IF flow.target.host = [kind |-> "dns", labels |-> <<"localhost">>]
                   THEN {Address(f, "loopback", flow.target.port) : f \in {"v4", "v6"}} ELSE {})
Prepared(destination, via, peer) ==
    /\ flow' = [flow EXCEPT !.destination = destination, !.upstream = "Prepared", !.via = via,
                            !.peer = peer]
    /\ at' = "established" /\ UNCHANGED failure

\* prepare_upstream without a proxy: every address the target resolves to is
\* compared with the listener, then all are tried at once.
prepare_direct ==
    /\ at = "prepare" /\ ~client.proxy
    /\ LET addresses == IF TargetIp # {} THEN TargetIp ELSE client.dns
           hit == {a \in addresses : contains(Listen, a)}
           fails(e) == Refuse(e, response(e))
       IN \/ TargetIp = {} /\ \E e \in {"ResolveTimeout", "Resolve"} : fails(e)
          \/ addresses = {} /\ fails("NoResolvedAddresses")
          \/ hit # {} /\ fails("SelfTarget")
          \/ (\E a \in addresses : NeedsInterfaces(Listen, a)) /\ fails("ListenerInterfaces")
          \/ /\ hit = {}
             /\ \/ \E a \in addresses : Prepared("Known", "direct", {a})
                \/ addresses # {} /\ \E e \in {"ConnectTimeout", "Connect"} : fails(e)
    /\ Stay /\ UNCHANGED <<taken, pre, held, replies, up>>
\* With a proxy: the tunnel is ProxyTunnel's call, seen by its outcome.
prepare_proxied ==
    /\ at = "prepare" /\ client.proxy
    /\ LET fails(e) == Refuse(e, response(e))
       IN \/ (\E a \in OwnNames : contains(Listen, a)) /\ fails("SelfTarget")
          \/ (\E a \in OwnNames : NeedsInterfaces(Listen, a)) /\ fails("ListenerInterfaces")
          \/ /\ ~\E a \in OwnNames : contains(Listen, a)
             /\ \/ Prepared(IF TargetIp = {} THEN "Unknown" ELSE "Known", "proxy", {})
                \/ \E e \in {"UpstreamProxy", "UpstreamProxyTimeout"} : fails(e)
    /\ Stay /\ UNCHANGED <<taken, pre, held, replies, up>>

Write(code) == replies' = Append(replies, code)
\* reject: a response that cannot be written replaces the error of a request
\* that did not decode; after a failed preparation the error is kept.
WriteRefusal ==
    /\ at = "refuse" /\ at' = "failed"
    /\ \/ Write(flow.code) /\ UNCHANGED failure
       \/ /\ failure' = IF failure \in ExplicitRequestError THEN "WriteResponse" ELSE failure
          /\ UNCHANGED replies
    /\ Stay /\ UNCHANGED <<taken, pre, held, flow, up>>
\* into_flow: CONNECT is answered once the upstream is there.
into_flow_explicit ==
    /\ at = "established"
    /\ \/ /\ IF flow.protocol = "HttpConnect" THEN Write(200) ELSE UNCHANGED replies
          /\ at' = "detect" /\ flow' = [flow EXCEPT !.host = flow.target.host @@ [upper |-> FALSE, dots |-> 0]]
          /\ UNCHANGED failure
       \/ /\ flow.protocol = "HttpConnect" /\ Fail("WriteResponse") /\ UNCHANGED <<replies, flow>>
    /\ Stay /\ UNCHANGED <<taken, pre, held, up>>

----------------------------------------------------------------------------
\* Platform ingresses: client.open is the FlowOpen payload or the redirect
\* context, host NoHost and ip {} where it has none.

TargetOf(open) ==
    parse_target_authority([user |-> FALSE, port |-> open.port, host |->
        IF open.host # NoHost THEN open.host
        ELSE [kind |-> (CHOOSE a \in open.ip : TRUE).fam, upper |-> FALSE, dots |-> 0,
              labels |-> <<(CHOOSE a \in open.ip : TRUE).host>>]], NoPort)
Platform(ingress, target, destination, host) ==
    /\ flow' = [flow EXCEPT !.ingress = ingress, !.target = target, !.destination = destination,
                            !.host = host, !.upstream = IF client.proxy THEN "HttpConnect" ELSE "Deferred",
                            !.peer = IF client.proxy THEN {} ELSE client.open.ip]
    /\ at' = "detect" /\ UNCHANGED failure

\* read_open_frame, configured_target and FramedFlowDestination::from_open:
\* with a proxy a name is left for the proxy to resolve.
into_flow_macos ==
    /\ at = "open"
    /\ LET open == client.open
           named == open.host # NoHost \/ open.ip # {}
       IN \/ Fail("FramedProtocol") /\ UNCHANGED flow
          \/ /\ ~open.first \/ ~open.tcp \/ open.port = NoPort \/ ~named
             /\ Fail("InvalidFramedFlow") /\ UNCHANGED flow
          \/ /\ open.first /\ open.tcp /\ open.port # NoPort /\ named
             /\ IF client.proxy /\ TargetOf(open).error # ""
                THEN Fail("InvalidFramedFlow") /\ UNCHANGED flow
                ELSE LET target == IF client.proxy THEN TargetOf(open).value ELSE NoTarget
                     IN \/ /\ open.ip # {} \/ client.proxy
                           /\ Platform("macos", target,
                                       IF open.ip # {} THEN "Known" ELSE "Unknown", open.host)
                        \/ /\ open.ip = {} /\ ~client.proxy
                           /\ \/ Platform("macos", target, "Known", open.host)
                              \/ Fail("ResolveDestination") /\ UNCHANGED flow
    /\ Stay /\ UNCHANGED <<taken, pre, held, replies, up>>

\* The redirect context names the original destination by address; it and,
\* with a proxy, the redirect records of the socket must be readable.
into_flow_windows ==
    /\ at = "redirect"
    /\ \/ Fail("RedirectContext") /\ UNCHANGED flow
       \/ Platform("windows", IF client.proxy THEN TargetOf(client.open).value ELSE NoTarget, "Known", NoHost)
    /\ Stay /\ UNCHANGED <<taken, pre, held, replies, up>>

----------------------------------------------------------------------------
\* MitmEngine::handle_flow.

\* PrefixedDuplexStream: one read takes from the prefix or from the socket.
ReadInto(n, cap) ==
    /\ n > 0 /\ n <= Min({ReadSize, cap})
    /\ \/ /\ pre # <<>> /\ n <= Len(pre)
          /\ held' = held \o SubSeq(pre, 1, n) /\ pre' = SubSeq(pre, n + 1, Len(pre))
          /\ UNCHANGED taken
       \/ /\ pre = <<>> /\ n <= Total - taken
          /\ held' = held \o Old(taken + 1, taken + n) /\ taken' = taken + n
          /\ UNCHANGED pre
AtEof == pre = <<>> /\ taken = Total /\ client.ends
HandleFrame == Stay /\ UNCHANGED <<replies, up>>

classify(prefix) ==
    LET c == [i \in 1..Len(prefix) |-> ClassOf(prefix[i])]
        stop == SelectInSeq(c, LAMBDA x : x # "tok")
    IN  IF prefix = <<>> THEN "Incomplete"
        ELSE IF c[1] = "22" THEN IF Len(c) = 1 THEN "Incomplete"
                               ELSE IF c[2] = "3" THEN "Tls" ELSE "Unsupported"
        ELSE IF stop = 0 THEN "Incomplete"
        ELSE IF c[stop] = "sp" /\ stop > 1 THEN "PlainHttp" ELSE "Unsupported"

detect(n) ==
    /\ at = "detect" /\ classify(held) = "Incomplete" /\ Len(held) < MaxPrefix
    /\ ReadInto(n, MaxPrefix - Len(held))
    /\ HandleFrame /\ UNCHANGED <<at, flow, failure>>
(* Mutant: has no detection timeout. *)
DetectUntimed(e) ==
    /\ at = "detect"
    /\ \/ e = "UnsupportedProtocol" /\ (classify(held) = "Unsupported" \/ Len(held) = MaxPrefix)
       \/ e = "ClientClosedBeforeProtocol" /\ AtEof /\ classify(held) = "Incomplete"
    /\ Fail(e) /\ HandleFrame /\ UNCHANGED <<taken, pre, held, flow>>
DetectFails(e) ==
    /\ at = "detect" /\ classify(held) \in {"Incomplete", "Unsupported"}
    /\ \/ e = "UnsupportedProtocol" /\ (classify(held) = "Unsupported" \/ Len(held) = MaxPrefix)
       \/ e \in {"Timeout", "Io"} /\ classify(held) = "Incomplete"
       \/ e = "ClientClosedBeforeProtocol" /\ AtEof /\ classify(held) = "Incomplete"
    /\ Fail(e) /\ HandleFrame /\ UNCHANGED <<taken, pre, held, flow>>

(* Mutant: drops the bytes read so far. *)
ClearsHeld(next, p) ==
    /\ pre' = pre /\ held' = <<>>
    /\ at' = next /\ flow' = [flow EXCEPT !.protocol = p, !.snapshot = policy]
    /\ UNCHANGED <<taken, failure>>
\* The detected prefix goes back in front; a TLS flow takes its policy here.
with_read_prefix(next, p) ==
    /\ pre' = held \o pre /\ held' = <<>>
    /\ at' = next /\ flow' = [flow EXCEPT !.protocol = p, !.snapshot = policy]
    /\ UNCHANGED <<taken, failure>>

requires_tls_server_name_validation == flow.ingress = "explicit" /\ flow.target.host.kind = "dns"
handle_flow ==
    /\ at = "detect"
    /\ \/ classify(held) = "PlainHttp" /\ with_read_prefix("plain", "PlainHttp")
       \/ /\ classify(held) = "Tls"
          /\ with_read_prefix(IF requires_sni_peek(policy) \/ requires_tls_server_name_validation
                              THEN "hello" ELSE "accept", "Tls")
    /\ HandleFrame

\* ClientHelloInspector: every byte read is kept in raw_bytes.
read_client_hello(n) ==
    /\ at = "hello" /\ Len(held) < client.hello /\ Len(held) < MaxHello
    /\ ReadInto(n, MaxHello - Len(held))
    /\ HandleFrame /\ UNCHANGED <<at, flow, failure>>
HelloFails(e) ==
    /\ at \in {"hello", "accept"} /\ (at = "hello" => Len(held) < client.hello)
    /\ \/ e = "TlsClientHelloTooLarge" /\ at = "hello" /\ Len(held) >= MaxHello
       \/ e \in {"Timeout", "Io"}
       \/ e = "ClientClosedBeforeProtocol" /\ at = "hello" /\ AtEof
       \/ e = "Tls" /\ at = "accept"
    /\ Fail(e) /\ HandleFrame /\ UNCHANGED <<taken, pre, held, flow>>

SameName(a, b) == a.labels = b.labels
validate_tls_server_name(sni) ==
    IF ~requires_tls_server_name_validation THEN ""
    ELSE IF sni = NoHost THEN "MissingSni"
    ELSE IF SameName(flow.target.host, sni) THEN "" ELSE "ProxyTargetServerNameMismatch"

(* Mutant: decides with the live policy. *)
DecideLive ==
    /\ at = "hello" /\ Len(held) >= client.hello
    /\ LET bad == validate_tls_server_name(client.sni)
           domain == IF client.sni # NoHost THEN client.sni ELSE flow.host
           action == decide(policy, domain, client.process)
       IN  IF bad # "" THEN Fail(bad) /\ UNCHANGED flow
           ELSE /\ at' = IF action = "Intercept" THEN "accept" ELSE "connect"
                /\ flow' = [flow EXCEPT !.decision = action, !.sni = client.sni]
                /\ UNCHANGED failure
    /\ HandleFrame /\ UNCHANGED <<taken, pre, held>>
\* The rest of handle_with_decryption_policy.
handle_with_decryption_policy ==
    /\ at = "hello" /\ Len(held) >= client.hello
    /\ LET bad == validate_tls_server_name(client.sni)
           domain == IF client.sni # NoHost THEN client.sni ELSE flow.host
           action == decide(flow.snapshot, domain, client.process)
       IN  IF bad # "" THEN Fail(bad) /\ UNCHANGED flow
           ELSE /\ at' = IF action = "Intercept" THEN "accept" ELSE "connect"
                /\ flow' = [flow EXCEPT !.decision = action, !.sni = client.sni]
                /\ UNCHANGED failure
    /\ HandleFrame /\ UNCHANGED <<taken, pre, held>>

\* ClientTlsFlow::accept and accept_inspected, then the second validation.
accept_client_tls ==
    /\ at = "accept"
    /\ LET bad == validate_tls_server_name(client.sni)
       IN  IF client.sni = NoHost THEN Fail("MissingSni") /\ UNCHANGED flow
           ELSE IF bad # "" THEN Fail(bad) /\ UNCHANGED flow
           ELSE /\ at' = "connect" /\ UNCHANGED failure
                /\ flow' = [flow EXCEPT !.decision = "Intercept", !.sni = client.sni]
    /\ HandleFrame /\ UNCHANGED <<taken, pre, held>>

\* PlainHttpFlow reads the request head before it connects; its Host is the
\* name a tunnel to an address is opened with.
decode_plain ==
    /\ at = "plain"
    /\ \/ at' = "connect" /\ flow' = [flow EXCEPT !.sni = client.sni] /\ UNCHANGED failure
       \/ \E e \in {"Timeout", "Io"} : Fail(e) /\ UNCHANGED flow
    /\ HandleFrame /\ UNCHANGED <<taken, pre, held>>

\* UpstreamConnection::with_server_name, for a tunnel to an address.
with_server_name(target, sni) ==
    IF target.host.kind # "dns" /\ sni # NoHost
    THEN parse_target_authority([user |-> FALSE, host |-> sni, port |-> target.port], NoPort)
    ELSE Accepted(target)

Upstream(via, target) ==
    /\ flow' = [flow EXCEPT !.via = via, !.target = target]
    /\ at' = IF flow.decision = "Passthrough" THEN "copy" ELSE "relay"
    /\ UNCHANGED failure
\* connect_upstream_with_observer and, for an intercepted flow, the TLS
\* handshake with the provider.
connect_upstream ==
    /\ at = "connect"
    /\ \/ /\ flow.upstream = "Prepared" /\ Upstream(flow.via, flow.target)
       \/ /\ flow.upstream = "HttpConnect"
          /\ LET named == with_server_name(flow.target, flow.sni)
             IN  \/ named.error = "" /\ Upstream("proxy", named.value)
                 \/ Fail(IF named.error = "" THEN "UpstreamTunnel" ELSE "Io") /\ UNCHANGED flow
       \/ /\ flow.upstream = "Deferred"
          /\ \/ flow.destination = "Known" /\ Upstream("direct", flow.target)
             \/ \E e \in {"Timeout", "Io"} : Fail(e) /\ UNCHANGED flow
       \/ flow.decision = "Intercept" /\ \E e \in {"Timeout", "Io", "Tls"} : Fail(e) /\ UNCHANGED flow
    /\ HandleFrame /\ UNCHANGED <<taken, pre, held>>

\* TlsPassthroughFlow::handle: the ClientHello bytes first, then both
\* directions are copied.
passthrough(n) ==
    /\ at = "copy"
    /\ \/ held # <<>> /\ n = 0 /\ up' = up \o held /\ held' = <<>> /\ UNCHANGED <<pre, taken>>
       \/ /\ held = <<>> /\ pre # <<>> /\ n \in 1..Len(pre)
          /\ up' = up \o SubSeq(pre, 1, n) /\ pre' = SubSeq(pre, n + 1, Len(pre))
          /\ UNCHANGED <<held, taken>>
       \/ /\ held = <<>> /\ pre = <<>> /\ n \in 1..(Total - taken)
          /\ up' = up \o Old(taken + 1, taken + n) /\ taken' = taken + n /\ UNCHANGED <<held, pre>>
    /\ Stay /\ UNCHANGED <<at, flow, replies, failure>>

\* Steps that only compute, or that a timeout ends: of the head, of the
\* detection, of the hello and handshakes, of the upstream connection.
PathBounded ==
    \/ \E n \in 0..ReadSize : read_request_head(n)
    \/ decode \/ prepare_direct \/ prepare_proxied \/ handle_flow
    \/ handle_with_decryption_policy \/ accept_client_tls \/ decode_plain \/ connect_upstream
    \/ \E e \in ExplicitRequestError : HeadFails(e)
    \/ \E e \in TransparentFlowError : DetectFails(e) \/ HelloFails(e)
PathNext ==
    \/ \E c \in Clients : Accept(c)
    \/ \E p \in Policies : replace_tls_decryption_policy(p)
    \/ PathBounded
    \/ WriteRefusal \/ into_flow_explicit \/ into_flow_macos \/ into_flow_windows
    \/ \E n \in 0..Total : detect(n) \/ read_client_hello(n) \/ passthrough(n)

\* The flow's fields agree with where it is.
PathTypeOK ==
    /\ at \in {"idle", "head", "parse", "prepare", "refuse", "established", "open", "redirect",
               "detect", "hello", "accept", "plain", "connect", "copy", "relay", "failed"}
    /\ flow.ingress \in FlowIngress /\ flow.upstream \in UpstreamConnection
    /\ flow.destination \in DestinationAddress
    /\ failure # "" <=> at \in {"failed", "refuse"}
    /\ failure # "" => failure \in ExplicitIngressError \cup IngressError \cup TransparentFlowError
    /\ taken <= Total /\ Len(held) <= MaxPrefix + MaxHello
    /\ failure \in ExplicitRequestError => category(failure) \in ExplicitProxyErrorCategory
    /\ policy.default \in TlsDecryptionAction /\ validate(policy) \notin TlsDecryptionPolicyError

\* The flow's stream, as the ingress hands it over.
Stream == (IF flow.ingress = "explicit" /\ client.request.method # "CONNECT"
           THEN <<<<"new", 1>>, <<"new", 2>>>> ELSE <<>>)
          \o Old(client.head + 1, Total)

\* However the reads cut them, and through every buffer that looked ahead
\* (request head, protocol detection, ClientHello), the client's bytes are
\* each kept once and in order until they are written upstream.
PathBytesOnce ==
    at \in {"detect", "hello", "accept", "plain", "connect", "copy", "relay"} =>
        up \o held \o pre \o Old(taken + 1, Total) = Stream

\* A client is told 200 only when its upstream is connected, is told so or an
\* error once, and a request that is refused for what it says is answered
\* unless the answer cannot be written.
PathAnswers ==
    /\ Len(replies) <= 1
    /\ replies = <<200>> => flow.upstream = "Prepared"
    /\ at = "failed" /\ failure \in ExplicitRequestError \ {"Io"} => replies # <<>>

\* A request that became a flow has one reading: one Host that names the
\* target, one length or one chunked body and not both, no body with CONNECT.
PathRequestUnambiguous ==
    flow.ingress = "explicit" =>
        LET r == client.request
        IN  /\ \E h \in Range(r.hosts) : Range(r.hosts) = {h} /\ Len(r.hosts) = 1
                 /\ h.host.kind = flow.target.host.kind /\ h.host.labels = flow.target.host.labels
                 /\ h.port \in {flow.target.port, NoPort}
            /\ \A i, j \in 1..Len(r.lengths) : r.lengths[i] = r.lengths[j]
            /\ r.lengths = <<>> \/ r.codings = <<>>
            /\ r.method = "CONNECT" => r.codings = <<>> /\ Range(r.lengths) \subseteq {0}
            /\ r.codings # <<>> => Last(Last(r.codings)) = "chunked"

\* With an upstream proxy in the snapshot the broker's own connection never
\* goes to the destination, and without one it never comes back to the
\* listener.
PathRouted ==
    /\ client.proxy => flow.via # "direct"
    /\ flow.ingress = "explicit" => \A a \in flow.peer : ~Arrives(Listen, a)

\* A tunnel opened for one name is not decrypted under another: the SNI that
\* the leaf certificate and the provider handshake use is the target's.  And
\* a tunnel is not opened to the address a platform reported when the client
\* named a host.
PathNamesTarget ==
    /\ at = "relay" /\ flow.decision = "Intercept" /\ flow.ingress = "explicit"
       /\ flow.target.host.kind = "dns" => flow.sni.labels = flow.target.host.labels
    /\ flow.via = "proxy" /\ flow.ingress # "explicit" /\ flow.sni # NoHost
       => flow.target.host.kind = "dns" \/ flow.target.host = [kind |-> flow.sni.kind, labels |-> flow.sni.labels]

\* What a rule list means, by quantifiers: some enabled rule decides, and no
\* enabled rule before it matches.
Means(p, host, process, action) ==
    LET name == normalize_host(host)
        hit(i) == p.rules[i].enabled /\ matches(p.rules[i], name, process)
    IN  \/ \E i \in 1..Len(p.rules) : hit(i) /\ p.rules[i].action = action
                                      /\ \A j \in 1..(i - 1) : ~hit(j)
        \/ /\ \A i \in 1..Len(p.rules) : ~hit(i)
           /\ action = IF name = <<>> /\ p.missing # "" THEN p.missing ELSE p.default

\* A TLS flow is decrypted, or not, as the one policy in force when it was
\* recognised says, whatever is installed while its ClientHello is read.
PathOnePolicy ==
    at \in {"relay", "copy"} /\ flow.protocol = "Tls" =>
        \E host \in {IF client.sni # NoHost THEN client.sni ELSE flow.host} :
            Means(flow.snapshot, host, client.process, flow.decision)

\* Every step between the request head, or the flow, and the relay is bounded
\* by a timeout, whatever the client and the upstream do or leave undone.
PathDecided ==
    /\ at = "head" ~> at \in {"established", "refuse", "failed"}
    /\ at = "detect" ~> at \in {"relay", "copy", "failed"}

\* The client's bytes and the answers it gets: each byte once, one answer,
\* and one reading of its request.
PathFaithful == PathTypeOK /\ PathBytesOnce /\ PathAnswers /\ PathRequestUnambiguous

\* Where a flow goes and who may look into it: the configured route, the name
\* it was opened for, and one policy.
PathAuthorised == PathRouted /\ PathNamesTarget /\ PathOnePolicy

=============================================================================
