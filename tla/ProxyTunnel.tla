----------------------------- MODULE ProxyTunnel -----------------------------
(***************************************************************************)
(* The outbound HTTP CONNECT proxy: one call of connect_tunnel, from the   *)
(* name of the proxy to a stream the flow reads.                           *)
(*                                                                         *)
(* The proxy's answer is a sequence of response heads [code, len] and a    *)
(* tail of bytes behind them; a unit of it is its position.                *)
(***************************************************************************)
EXTENDS Naturals, Sequences, FiniteSets, SequencesExt, FiniteSetsExt, Endpoints

CONSTANTS
    Proxies,            \* configured endpoints: [ip |-> {address} or {}, dns |-> answers]
    Listeners,          \* the broker's own listening addresses
    Answers,            \* what a proxy may send: [heads, tail]
    MaxHeaderBytes,     \* MAX_HEADER_BYTES
    MaxInformational,   \* MAX_INFORMATIONAL_RESPONSES
    Chunk               \* most bytes one read returns

ASSUME ProxyTunnelAssumption ==
    /\ MaxHeaderBytes \in Nat \ {0} /\ MaxInformational \in Nat /\ Chunk \in Nat \ {0}
    /\ \A l \in Listeners : IsAddress(l)
    /\ \A p \in Proxies : /\ \A a \in p.ip : IsAddress(a)
                          /\ \A s \in p.dns : s \in Seq(Range(s)) /\ \A a \in Range(s) : IsAddress(a)
    /\ \A w \in Answers : /\ w.tail \in Nat /\ w.heads \in Seq(Range(w.heads))
                          /\ \A h \in Range(w.heads) : h.len \in Nat

VARIABLES
    tunnel,     \* the call: phase, addresses, peer, error
    answer,     \* what the proxy sends on the connection
    got,        \* units of it read
    drained,    \* units of informational heads removed from the buffer
    heads,      \* informational heads accepted so far
    passed      \* units handed to the flow as stream bytes

tunnelVars == <<tunnel, answer, got, drained, heads, passed>>

UpstreamProxyError == {"Resolve", "ResolveTimeout", "Loop", "Connect", "ConnectTimeout",
    "Handshake", "HandshakeTimeout", "Protocol", "Rejected"}

TunnelStep(phase) == tunnel' = [tunnel EXCEPT !.phase = phase]
TunnelFails(error) == tunnel' = [tunnel EXCEPT !.phase = "failed", !.error = error]
TunnelFrame == UNCHANGED <<answer, got, drained, heads, passed>>

TunnelInit ==
    /\ tunnel = [phase |-> "idle", proxy |-> {}, excluded |-> {}, addresses |-> <<>>,
                 pending |-> {}, peer |-> {}, error |-> ""]
    /\ answer = [heads |-> <<>>, tail |-> 0]
    /\ got = 0 /\ drained = 0 /\ heads = 0 /\ passed = <<>>

\* connect_tunnel starts: the deadline covers resolution and connection.
connect_tunnel(proxy, excluded) ==
    /\ tunnel.phase = "idle"
    /\ tunnel' = [tunnel EXCEPT !.phase = "resolve", !.proxy = {proxy}, !.excluded = excluded]
    /\ TunnelFrame

\* An IP endpoint is its own answer; a name is looked up within the deadline.
resolve ==
    /\ tunnel.phase = "resolve"
    /\ \E proxy \in tunnel.proxy :
         \/ \E addresses \in IF proxy.ip # {} THEN {<<a>> : a \in proxy.ip} ELSE proxy.dns :
                tunnel' = IF addresses = <<>>
                          THEN [tunnel EXCEPT !.phase = "failed", !.error = "Resolve"]
                          ELSE [tunnel EXCEPT !.phase = "check", !.addresses = addresses]
         \/ proxy.ip = {} /\ \E e \in {"Resolve", "ResolveTimeout"} : TunnelFails(e)
    /\ TunnelFrame

\* Every resolved address is compared with every excluded listener before
\* any of them is contacted; the first hit or failure ends the call.
ExcludeListeners ==
    /\ tunnel.phase = "check"
    /\ LET all == {<<l, i>> : l \in tunnel.excluded, i \in 1..Len(tunnel.addresses)}
           hit == {p \in all : contains(p[1], tunnel.addresses[p[2]])}
           open == {p \in all : NeedsInterfaces(p[1], tunnel.addresses[p[2]])}
       IN \/ hit # {} /\ TunnelFails("Loop")
          \/ open # {} /\ TunnelFails("Connect")
          \/ /\ hit = {}
             /\ tunnel' = [tunnel EXCEPT !.phase = "connect", !.pending = Range(tunnel.addresses)]
    /\ TunnelFrame

\* connect_tcp: all addresses at once, the first connection wins, the last
\* failure is reported.  The proxy's answer belongs to the connection.
connect_address(a) ==
    /\ tunnel.phase = "connect" /\ a \in tunnel.pending
    /\ \/ /\ tunnel' = [tunnel EXCEPT !.phase = "handshake", !.peer = {a}, !.pending = {}]
          /\ answer' \in Answers /\ UNCHANGED <<got, drained, heads, passed>>
       \/ /\ IF tunnel.pending = {a} THEN TunnelFails("Connect")
             ELSE tunnel' = [tunnel EXCEPT !.pending = @ \ {a}]
          /\ TunnelFrame
TunnelConnectTimeout ==
    /\ tunnel.phase = "connect" /\ TunnelFails("ConnectTimeout") /\ TunnelFrame

\* The head the buffer starts with, if the proxy sends one there.
Heads == answer.heads
HeadsTo(n) ==
    LET size == [i \in 1..n |-> Heads[i].len]
        to[i \in 0..n] == IF i = 0 THEN 0 ELSE to[i - 1] + size[i]
    IN  to[n]
WireLen == HeadsTo(Len(Heads)) + answer.tail
Buffered == got - drained
NextHead == IF heads < Len(Heads) THEN {Heads[heads + 1]} ELSE {}
Complete == \E h \in NextHead : Buffered >= h.len

\* handshake, its loop: a complete head is judged before anything more is
\* read; what lies behind a successful one becomes the prefix of the stream.
JudgeHead ==
    /\ tunnel.phase = "handshake" /\ Complete
    /\ LET h == Heads[heads + 1]
       IN  \/ /\ h.len > MaxHeaderBytes \/ h.code = "malformed" \/ h.code = "101"
              /\ TunnelFails("Protocol") /\ TunnelFrame
           \/ /\ h.len <= MaxHeaderBytes /\ h.code = "2xx"
              /\ TunnelStep("open") /\ drained' = drained + h.len
              /\ UNCHANGED <<answer, got, heads, passed>>
           \/ /\ h.len <= MaxHeaderBytes /\ h.code = "1xx"
              /\ IF heads < MaxInformational
                 THEN /\ drained' = drained + h.len /\ heads' = heads + 1
                      /\ UNCHANGED <<tunnel, answer, got, passed>>
                 ELSE TunnelFails("Protocol") /\ TunnelFrame
           \/ /\ h.len <= MaxHeaderBytes /\ h.code = "other"
              /\ TunnelFails("Rejected") /\ TunnelFrame
HeadTooLong ==
    /\ tunnel.phase = "handshake" /\ ~Complete /\ Buffered >= MaxHeaderBytes
    /\ TunnelFails("Protocol") /\ TunnelFrame
ReadHandshake(n) ==
    /\ tunnel.phase = "handshake" /\ ~Complete /\ Buffered < MaxHeaderBytes
    /\ n \in 1..Min({Chunk, WireLen - got}) /\ got' = got + n
    /\ UNCHANGED <<tunnel, answer, drained, heads, passed>>
\* End of stream, a socket error or the handshake timeout.
HandshakeBreaks(e) ==
    /\ tunnel.phase = "handshake" /\ ~Complete
    /\ e \in {"Handshake", "HandshakeTimeout"} \cup
             (IF got = WireLen THEN {"Protocol"} ELSE {})
    /\ TunnelFails(e) /\ TunnelFrame

\* PrefixedDuplexStream::poll_read: the prefix first, then the socket.
poll_read_prefixed(n) ==
    /\ tunnel.phase = "open"
    /\ LET from == drained + Len(passed)
       IN  /\ n \in 1..(IF from < got THEN got - from ELSE WireLen - got)
           /\ passed' = passed \o [k \in 1..n |-> from + k]
           /\ got' = IF from < got THEN got ELSE got + n
    /\ UNCHANGED <<tunnel, answer, drained, heads>>

TunnelNext ==
    \/ \E p \in Proxies, l \in SUBSET Listeners : connect_tunnel(p, l)
    \/ resolve \/ ExcludeListeners \/ TunnelConnectTimeout
    \/ \E a \in tunnel.pending : connect_address(a)
    \/ JudgeHead \/ HeadTooLong
    \/ \E n \in 1..Chunk : ReadHandshake(n)
    \/ \E e \in UpstreamProxyError : HandshakeBreaks(e)
    \/ \E n \in 1..WireLen : poll_read_prefixed(n)

\* The call's fields agree with its phase; a failed call has a reason.
TunnelTypeOK ==
    /\ tunnel.phase \in {"idle", "resolve", "check", "connect", "handshake", "open", "failed"}
    /\ tunnel.phase = "failed" <=> tunnel.error # ""
    /\ tunnel.error # "" => tunnel.error \in UpstreamProxyError
    /\ drained <= got /\ got <= WireLen
    /\ tunnel.phase = "connect" => tunnel.pending # {}

\* However the configured proxy is written or resolves, the broker never
\* opens its own listener as its upstream proxy.
NoTunnelToSelf ==
    \A a \in tunnel.peer, l \in tunnel.excluded : ~Arrives(l, a)

\* The tunnel's stream is the proxy's bytes behind the accepted head, in
\* order and each once, whether they came with the head or after it.
TunnelBytesExact ==
    /\ passed = [k \in 1..Len(passed) |-> drained + k]
    /\ passed # <<>> => drained = HeadsTo(heads + 1)

\* A proxy that never ends its head cannot make the broker buffer more than
\* one read beyond the limit.
TunnelBuffersBounded ==
    tunnel.phase = "handshake" => Buffered < MaxHeaderBytes + Chunk

\* What a tunnel through the upstream proxy is: never the broker itself,
\* exactly the proxy's bytes behind its answer, and bounded until then.
TunnelFaithful == TunnelTypeOK /\ NoTunnelToSelf /\ TunnelBytesExact /\ TunnelBuffersBounded

=============================================================================
