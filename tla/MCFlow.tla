------------------------------- MODULE MCFlow -------------------------------
(* The parts of the flow path.  A behaviour exercises one of them; the     *)
(* others rest in an initial state.                                        *)
EXTENDS FramedFlow, ProxyTunnel, FlowPath, NetworkErrors, FlowTelemetry

VARIABLE part

Data(n) == FlowFrame("Data", "ClientToBroker", 1, n, 1)
Close(names) == FlowFrame("Close", "ClientToBroker", 1, 0, names)
MCScripts == {<<Data(2), Data(0), Data(3)>>, <<Data(1), Close(1), Data(1)>>, <<Close(2)>>,
  <<Data(1), FlowFrame("Data", "ClientToBroker", 2, 1, 2)>>, <<FlowFrame("Invalid", "None", 1, 1, 1)>>,
  <<FlowFrame("Open", "None", 1, 0, 1)>>, <<>>}
MCPlans == {<<>>, <<3, 1>>}

MCProxies ==
    {[ip |-> {Address(f, h, p)}, dns |-> {}] :
        f \in {"v4", "v6", "mapped"}, h \in {"any", "loopback", "nic", "far"}, p \in {1, 2}}
    \cup {[ip |-> {}, dns |-> {<<>>, <<Address("v4", "far", 1), Address("mapped", "nic", 1)>>,
                               <<Address("v6", "far", 1), Address("v4", "far", 1)>>}]}
MCListeners == {Address("v4", "any", 1), Address("v6", "any", 1), Address("v4", "loopback", 1),
                Address("mapped", "nic", 1)}
ResponseHead(code, len) == [code |-> code, len |-> len]
MCAnswers == {[heads |-> h, tail |-> 2] : h \in
    {<<>>, <<ResponseHead("2xx", 2)>>, <<ResponseHead("1xx", 1), ResponseHead("2xx", 2)>>, <<ResponseHead("101", 2)>>,
     <<ResponseHead("1xx", 1), ResponseHead("1xx", 1), ResponseHead("2xx", 1)>>, <<ResponseHead("2xx", 5)>>, <<ResponseHead("2xx", 9)>>,
     <<ResponseHead("other", 2)>>, <<ResponseHead("malformed", 2)>>}}

Dns(labels, upper, dots) == [kind |-> "dns", labels |-> labels, upper |-> upper, dots |-> dots]
Ip(fam, host) == [kind |-> fam, labels |-> <<host>>, upper |-> FALSE, dots |-> 0]
BadHost == [kind |-> "bad", labels |-> <<>>, upper |-> FALSE, dots |-> 0]
Api == Dns(<<"api", "a">>, FALSE, 0)
Authority(host, port) == [user |-> FALSE, host |-> host, port |-> port]
HttpHead(method, target, hosts) ==
    [form |-> "ok", version |-> 1, method |-> method, scheme |-> "http", target |-> target,
     hosts |-> hosts, lengths |-> <<>>, codings |-> <<>>, names |-> {"accept", "proxy-authorization"}]
ConnectApi == HttpHead("CONNECT", Authority(Api, 1), <<Authority(Dns(<<"api", "a">>, TRUE, 1), NoPort)>>)
ConnectTo(host) == HttpHead("CONNECT", Authority(host, 1), <<Authority(host, 1)>>)
GetApi == HttpHead("GET", Authority(Api, NoPort), <<Authority(Api, 80)>>)
MCRequests ==
    {ConnectApi, GetApi, [ConnectApi EXCEPT !.form = "headers"], [ConnectApi EXCEPT !.version = 0],
     [ConnectApi EXCEPT !.target.user = TRUE], [ConnectApi EXCEPT !.hosts = <<>>],
     [ConnectApi EXCEPT !.hosts[1].host = Ip("v4", "far")], [ConnectApi EXCEPT !.lengths = <<1, 0>>],
     [ConnectApi EXCEPT !.codings = <<<<"chunked">>>>], [GetApi EXCEPT !.scheme = "https"],
     [GetApi EXCEPT !.lengths = <<1>>, !.codings = <<<<"chunked">>>>],
     [GetApi EXCEPT !.codings = <<<<"gzip">>, <<"chunked">>>>], [GetApi EXCEPT !.codings = <<<<"chunked", "gzip">>>>],
     [GetApi EXCEPT !.lengths = <<Bad>>], [GetApi EXCEPT !.target.host = BadHost],
     [GetApi EXCEPT !.form = "syntax"], [GetApi EXCEPT !.form = "partial"]}
    \cup {ConnectTo(h) : h \in {Ip("v4", "loopback"), Ip("mapped", "nic"), Ip("v4", "far"), Ip("v6", "far"),
                                Dns(<<"localhost">>, TRUE, 0), Dns(<<"b">>, FALSE, 0)}}
Client(kind, proxy, head, bytes, hello, sni) ==
    [kind |-> kind, proxy |-> proxy, head |-> head, bytes |-> bytes, ends |-> TRUE, hello |-> hello, sni |-> sni,
     request |-> ConnectApi, dns |-> {Address("v4", "far", 1)}, process |-> [name |-> "node", app |-> "", entry |-> ""],
     open |-> [first |-> TRUE, tcp |-> TRUE, host |-> NoHost, ip |-> {Address("v4", "far", 1)}, port |-> 1]]
TlsBytes == <<"22", "3", "bad", "bad">>
MCExplicit ==
    {[Client("explicit", p, 2, TlsBytes, 3, s) EXCEPT !.request = r] :
        p \in BOOLEAN, s \in {Api, NoHost}, r \in MCRequests}
    \cup {[Client("explicit", FALSE, 2, TlsBytes, 3, Api) EXCEPT !.dns = d] :
        d \in {{}, {Address("v4", "far", 1), Address("mapped", "loopback", 1)}}}
    \cup {Client("explicit", FALSE, 6, <<>>, 0, NoHost), Client("explicit", FALSE, 2, <<"22", "bad">>, 0, NoHost)}
MCPlatform ==
    {c \in {[Client(k, p, 0, b, 3, s) EXCEPT !.open.host = h, !.ends = e] :
        k \in {"macos", "windows"}, p \in BOOLEAN, s \in {NoHost, Dns(<<"b">>, TRUE, 1)}, h \in {NoHost, Api, BadHost},
        e \in BOOLEAN, b \in {TlsBytes, <<"tok", "tok", "sp">>}} : c.kind = "windows" => c.open.host = NoHost}
    \cup {Client("windows", FALSE, 0, b, 6, NoHost) : b \in {<<"bad">>, <<"sp">>, <<"tok", "tok", "tok", "tok", "tok", "sp">>, <<"22">>,
                                                        <<"22", "3", "bad", "bad", "bad", "bad", "bad">>}}
    \cup {Client("windows", TRUE, 0, <<"tok", "sp">>, 0, s) : s \in {Ip("v6", "nic"), BadHost}}
    \cup {[Client("macos", p, 0, TlsBytes, 3, Api) EXCEPT !.open.ip = i, !.open.host = h, !.open.port = n, !.open.tcp = t] :
        p \in BOOLEAN, i \in {{}, {Address("v4", "far", 1)}}, h \in {NoHost, Api}, n \in {1, NoPort}, t \in BOOLEAN}
MCListen == Address("v4", "any", 1)
MCClients == MCExplicit \cup MCPlatform
Pattern(wild, labels) == [wild |-> wild, star |-> "none", host |-> Dns(labels, FALSE, 0)]
Rule(id, enabled, action, hosts) ==
    [id |-> id, enabled |-> enabled, action |-> action, names |-> {}, apps |-> {}, entries |-> {}, hosts |-> hosts]
MCPolicies ==
    {DefaultPolicy, [default |-> "Intercept", missing |-> "", rules |-> <<>>],
     [default |-> "Passthrough", missing |-> "", rules |->
        <<Rule("r1", FALSE, "Passthrough", {Pattern(FALSE, <<"api", "a">>)}),
          Rule("r2", TRUE, "Intercept", {Pattern(TRUE, <<"a">>)}),
          [Rule("r3", TRUE, "Intercept", {}) EXCEPT !.names = {"node"}, !.apps = {"app"}]>>],
     [default |-> "Intercept", missing |-> "Passthrough", rules |-> <<Rule("", TRUE, "Intercept", {})>>]}

MCHostOf == [c \in Connections |-> IF c = 1 THEN "a" ELSE "b"]

Init ==
    /\ part \in {"framed", "tunnel", "path", "error", "telemetry"}
    /\ part # "framed" => script = <<>> /\ plan = <<>>
    /\ FramedInit /\ TunnelInit /\ PathInit /\ ErrorInit /\ TelemetryInit
    /\ (script # <<>>) => plan = <<>>
Next ==
    /\ UNCHANGED part
    /\ \/ part = "framed" /\ FramedNext /\ UNCHANGED <<tunnelVars, pathVars, errorVars, telemetryVars>>
       \/ part = "tunnel" /\ TunnelNext /\ UNCHANGED <<framedVars, pathVars, errorVars, telemetryVars>>
       \/ part = "path" /\ PathNext /\ UNCHANGED <<framedVars, tunnelVars, errorVars, telemetryVars>>
       \/ part = "error" /\ ErrorNext /\ UNCHANGED <<framedVars, tunnelVars, pathVars, telemetryVars>>
       \/ part = "telemetry" /\ TelemetryNext /\ UNCHANGED <<framedVars, tunnelVars, pathVars, errorVars>>
vars == <<part, framedVars, tunnelVars, pathVars, errorVars, telemetryVars>>
Fairness ==
    WF_vars(part = "path" /\ PathBounded /\ UNCHANGED <<part, framedVars, tunnelVars, errorVars, telemetryVars>>)
Spec == Init /\ [][Next]_vars /\ Fairness

(* Bytes cross the frame codec and the upstream tunnel exactly once, in      *)
(* order, to their one destination, and an end is only what the peer said    *)
(* (ingress/macos/mod.rs, outbound/http_connect.rs).                         *)
BytesFaithful == FramedFaithful /\ TunnelFaithful
=============================================================================
