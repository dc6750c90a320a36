---------------------------- MODULE PluginStream ----------------------------
(***************************************************************************)
(* The broker's local plugin service and the plugins connected to it:      *)
(* PluginServer (accept loop, broadcast ring, orderly shutdown), one       *)
(* PluginSession task per connection (handshake, live event writer), the   *)
(* byte stream between them at frame granularity, and the SDK client that  *)
(* reads it.                                                               *)
(*                                                                         *)
(* The broadcast ring is modelled by what a receiver can observe of it:    *)
(* events are numbered 1..published, a receiver holds the number of the    *)
(* next event it will take, and recv reports Lagged exactly when more than *)
(* Capacity published events are still untaken.  A connection is one       *)
(* element of Plugins; a plugin that reconnects is another element.        *)
(*                                                                         *)
(* Not modelled: the RecvError::Closed branch (a session owns a Sender     *)
(* clone, so the channel cannot close under it) and a payload above the    *)
(* 64 MiB frame limit (capture limits keep normalized events below it).    *)
(***************************************************************************)
EXTENDS Naturals, Sequences

CONSTANTS
    Plugins,     \* connections a plugin process may open
    Readers,     \* the plugins that keep reading; the others may stall forever
    Capacity,    \* EVENT_BROADCAST_CAPACITY
    PipeFrames,  \* frames the transport buffers before a write blocks
    MaxEvents    \* bound on the events the Agent hook publishes

ASSUME PluginStreamAssumption ==
    /\ Readers \subseteq Plugins
    /\ Capacity \in Nat \ {0}
    /\ PipeFrames \in Nat \ {0}
    /\ MaxEvents \in Nat

VARIABLES
    published,  \* events sent into the broadcast ring
    shutdown,   \* the watch channel that requests shutdown
    server,     \* PluginServer::run
    sess,       \* PluginSession task of each connection
    from,       \* first event of the connection's subscription (0: none)
    cursor,     \* next event the session's broadcast receiver will take
    frame,      \* the frame the session last began to write
    sent,       \* frames written to the transport, in order
    nread,      \* how many of them the plugin has read
    hello,      \* what the plugin has sent the broker
    client,     \* the plugin's end
    ready       \* history: events published when the plugin read BrokerHello

vars == <<published, shutdown, server, sess, from, cursor, frame, sent, nread,
          hello, client, ready>>
sessionVars == <<sess, from, cursor, frame, sent>>
clientVars == <<nread, hello, client, ready>>

ServerStates == {"running", "draining", "stopped", "failed"}
SessionStates == {"idle", "queued", "hello", "rejecting", "greeting",
                  "streaming", "writing", "closing", "ended"}
ClientStates == {"idle", "connected", "awaiting", "streaming", "closed",
                 "rejected", "eof", "gone"}

(* The first frame a plugin can send: a valid PluginHello, an unknown      *)
(* version, one the broker cannot accept (undecodable, bad plugin_id or an *)
(* announced length above the limit), or a frame cut short.                *)
HelloKinds == {"valid", "bad_version", "invalid", "truncated"}

Frame(k, n) == [kind |-> k, arg |-> n]
BrokerHello == Frame("BrokerHello", 1)
AgentEvent(n) == Frame("AgentEvent", n)
UnsupportedProtocolVersion == Frame("BrokerError", 1)
InvalidHandshake == Frame("BrokerError", 2)
BrokerShutdown == Frame("BrokerClose", 100)
EventStreamTooSlow == Frame("BrokerClose", 101)
NoFrame == Frame("None", 0)

ControlFrames == {BrokerHello, UnsupportedProtocolVersion, InvalidHandshake,
                  BrokerShutdown, EventStreamTooSlow}
Frames == ControlFrames \cup {AgentEvent(n) : n \in 1..MaxEvents}

InFlight(p) == Len(sent[p]) - nread[p]

Init ==
    /\ published = 0
    /\ shutdown = FALSE
    /\ server = "running"
    /\ sess = [p \in Plugins |-> "idle"]
    /\ from = [p \in Plugins |-> 0]
    /\ cursor = [p \in Plugins |-> 0]
    /\ frame = [p \in Plugins |-> NoFrame]
    /\ sent = [p \in Plugins |-> <<>>]
    /\ nread = [p \in Plugins |-> 0]
    /\ hello = [p \in Plugins |-> "none"]
    /\ client = [p \in Plugins |-> "idle"]
    /\ ready = [p \in Plugins |-> 0]

-----------------------------------------------------------------------------
(* PluginEventBroadcaster: sending never waits for a receiver.             *)
Publish ==
    /\ published < MaxEvents
    /\ published' = published + 1
    /\ UNCHANGED <<shutdown, server, sessionVars, clientVars>>

(* The REST server's shutdown future sends true on the watch channel.      *)
RequestShutdown ==
    /\ ~shutdown
    /\ shutdown' = TRUE
    /\ UNCHANGED <<published, server, sessionVars, clientVars>>

-----------------------------------------------------------------------------
(* PluginServer::run.  The select is biased: shutdown is seen first.       *)

Accept(p) ==
    /\ server = "running" /\ ~shutdown
    /\ sess[p] = "queued"
    /\ sess' = [sess EXCEPT ![p] = "hello"]
    /\ UNCHANGED <<published, shutdown, server, from, cursor, frame, sent,
                   clientVars>>

(* An accept error returns from run: the JoinSet is dropped, which aborts  *)
(* every session task wherever it stands, and so is the listener.          *)
AcceptError ==
    /\ server = "running" /\ ~shutdown
    /\ server' = "failed"
    /\ sess' = [p \in Plugins |-> IF sess[p] = "idle" THEN "idle" ELSE "ended"]
    /\ UNCHANGED <<published, shutdown, from, cursor, frame, sent, clientVars>>

(* The loop breaks and the listener goes away with the connections that    *)
(* were never accepted; accepted sessions are waited for.                  *)
ServerShutdown ==
    /\ server = "running" /\ shutdown
    /\ server' = "draining"
    /\ sess' = [p \in Plugins |-> IF sess[p] = "queued" THEN "ended"
                                                        ELSE sess[p]]
    /\ UNCHANGED <<published, shutdown, from, cursor, frame, sent, clientVars>>

ServerJoined ==
    /\ server = "draining"
    /\ \A p \in Plugins : sess[p] \in {"idle", "ended"}
    /\ server' = "stopped"
    /\ UNCHANGED <<published, shutdown, sessionVars, clientVars>>

-----------------------------------------------------------------------------
(* PluginSession.                                                          *)

EndSession(p) ==
    /\ sess' = [sess EXCEPT ![p] = "ended"]
    /\ UNCHANGED <<published, shutdown, server, from, cursor, frame, sent,
                   clientVars>>

HandshakeShutdown(p) == sess[p] = "hello" /\ shutdown /\ EndSession(p)

(* The timer only wins while no complete answer has arrived.               *)
HandshakeTimeout(p) ==
    /\ sess[p] = "hello" /\ ~shutdown /\ hello[p] = "none"
    /\ EndSession(p)

(* EOF at a frame boundary ends the session quietly, a truncated frame     *)
(* ends it with an error; neither is answered.                             *)
HandshakeEof(p) ==
    /\ sess[p] = "hello" /\ ~shutdown /\ hello[p] \in {"eof", "truncated"}
    /\ EndSession(p)

HandshakeReject(p) ==
    /\ sess[p] = "hello" /\ ~shutdown
    /\ hello[p] \in {"invalid", "bad_version"}
    /\ sess' = [sess EXCEPT ![p] = "rejecting"]
    /\ frame' = [frame EXCEPT ![p] = IF hello[p] = "bad_version"
                                     THEN UnsupportedProtocolVersion
                                     ELSE InvalidHandshake]
    /\ UNCHANGED <<published, shutdown, server, from, cursor, sent, clientVars>>

(* Mutant: the subscription starts one event too late.                     *)
(* The receiver subscribes before BrokerHello is written.                  *)
HandshakeAccept(p) ==
    /\ sess[p] = "hello" /\ ~shutdown /\ hello[p] = "valid"
    /\ sess' = [sess EXCEPT ![p] = "greeting"]
    /\ from' = [from EXCEPT ![p] = published + 1]
    /\ cursor' = [cursor EXCEPT ![p] = published + 1]
    /\ frame' = [frame EXCEPT ![p] = BrokerHello]
    /\ UNCHANGED <<published, shutdown, server, sent, clientVars>>

Writing == {"rejecting", "greeting", "writing", "closing"}

AfterWrite == [rejecting |-> "ended", greeting |-> "streaming",
               writing |-> "streaming", closing |-> "ended"]

(* write_json completes once the transport has taken the whole frame; the  *)
(* task observes neither shutdown nor lag until then.                      *)
WriteFrame(p) ==
    /\ sess[p] \in Writing
    /\ client[p] # "gone" /\ InFlight(p) < PipeFrames
    /\ sent' = [sent EXCEPT ![p] = Append(@, frame[p])]
    /\ sess' = [sess EXCEPT ![p] = AfterWrite[@]]
    /\ UNCHANGED <<published, shutdown, server, from, cursor, frame, clientVars>>

WriteFails(p) ==
    /\ sess[p] \in Writing /\ client[p] = "gone"
    /\ EndSession(p)

(* Mutant: the session ends without writing BrokerClose.                   *)
StreamShutdownSilent(p) == sess[p] = "streaming" /\ shutdown /\ EndSession(p)

(* Mutant: the event loop does not watch the shutdown channel.             *)
StreamShutdownUnseen(p) == sess[p] = "streaming" /\ shutdown /\ UNCHANGED vars

StreamShutdown(p) ==
    /\ sess[p] = "streaming" /\ shutdown
    /\ sess' = [sess EXCEPT ![p] = "closing"]
    /\ frame' = [frame EXCEPT ![p] = BrokerShutdown]
    /\ UNCHANGED <<published, shutdown, server, from, cursor, sent, clientVars>>

(* broadcast::Receiver::recv found its next event overwritten.             *)
Lagged(p) == published + 1 > cursor[p] + Capacity

(* Mutant: the receiver subscribes when the first event is taken.          *)
StreamEventLate(p) ==
    LET next == IF Len(sent[p]) = 1 THEN published ELSE cursor[p] IN
    /\ sess[p] = "streaming" /\ ~shutdown
    /\ cursor[p] <= published /\ ~Lagged(p)
    /\ sess' = [sess EXCEPT ![p] = "writing"]
    /\ from' = [from EXCEPT ![p] = IF Len(sent[p]) = 1 THEN next ELSE @]
    /\ frame' = [frame EXCEPT ![p] = AgentEvent(next)]
    /\ cursor' = [cursor EXCEPT ![p] = next + 1]
    /\ UNCHANGED <<published, shutdown, server, sent, clientVars>>

(* Mutant: sessions share one writer.                                      *)
StreamEventSerial(p) ==
    /\ sess[p] = "streaming" /\ ~shutdown
    /\ cursor[p] <= published /\ ~Lagged(p)
    /\ \A q \in Plugins : sess[q] # "writing"
    /\ sess' = [sess EXCEPT ![p] = "writing"]
    /\ frame' = [frame EXCEPT ![p] = AgentEvent(cursor[p])]
    /\ cursor' = [cursor EXCEPT ![p] = @ + 1]
    /\ UNCHANGED <<published, shutdown, server, from, sent, clientVars>>

StreamEvent(p) ==
    /\ sess[p] = "streaming" /\ ~shutdown
    /\ cursor[p] <= published /\ ~Lagged(p)
    /\ sess' = [sess EXCEPT ![p] = "writing"]
    /\ frame' = [frame EXCEPT ![p] = AgentEvent(cursor[p])]
    /\ cursor' = [cursor EXCEPT ![p] = @ + 1]
    /\ UNCHANGED <<published, shutdown, server, from, sent, clientVars>>

(* Mutant: a lagged session goes on from the oldest retained event.        *)
StreamLaggedResumes(p) ==
    /\ sess[p] = "streaming" /\ ~shutdown /\ Lagged(p)
    /\ cursor' = [cursor EXCEPT ![p] = published + 1 - Capacity]
    /\ UNCHANGED <<published, shutdown, server, sess, from, frame, sent, clientVars>>

(* Mutant: a receiver exactly Capacity behind counts as lagged.            *)
StreamLaggedEarly(p) ==
    /\ sess[p] = "streaming" /\ ~shutdown /\ published + 1 >= cursor[p] + Capacity
    /\ sess' = [sess EXCEPT ![p] = "closing"]
    /\ frame' = [frame EXCEPT ![p] = EventStreamTooSlow]
    /\ UNCHANGED <<published, shutdown, server, from, cursor, sent, clientVars>>

StreamLagged(p) ==
    /\ sess[p] = "streaming" /\ ~shutdown /\ Lagged(p)
    /\ sess' = [sess EXCEPT ![p] = "closing"]
    /\ frame' = [frame EXCEPT ![p] = EventStreamTooSlow]
    /\ UNCHANGED <<published, shutdown, server, from, cursor, sent, clientVars>>

SessionStep(p) ==
    \/ HandshakeShutdown(p) \/ HandshakeTimeout(p) \/ HandshakeEof(p)
    \/ HandshakeReject(p) \/ HandshakeAccept(p)
    \/ WriteFrame(p) \/ WriteFails(p)
    \/ StreamShutdown(p) \/ StreamEvent(p) \/ StreamLagged(p)

-----------------------------------------------------------------------------
(* The plugin's end: BrokerPlugin::connect and AgentEventStream.           *)

Connect(p) ==
    /\ client[p] = "idle" /\ server = "running"
    /\ client' = [client EXCEPT ![p] = "connected"]
    /\ sess' = [sess EXCEPT ![p] = "queued"]
    /\ UNCHANGED <<published, shutdown, server, from, cursor, frame, sent,
                   nread, hello, ready>>

SendHello(p, h) ==
    /\ client[p] = "connected"
    /\ client' = [client EXCEPT ![p] = "awaiting"]
    /\ hello' = [hello EXCEPT ![p] = h]
    /\ UNCHANGED <<published, shutdown, server, sessionVars, nread, ready>>

(* The process exits or drops its stream.                                  *)
Leave(p) ==
    /\ client[p] \in {"connected", "awaiting", "streaming"}
    /\ client' = [client EXCEPT ![p] = "gone"]
    /\ hello' = [hello EXCEPT ![p] = IF @ = "none" THEN "eof" ELSE @]
    /\ UNCHANGED <<published, shutdown, server, sessionVars, nread, ready>>

NextFrame(p) == sent[p][nread[p] + 1]

AfterRead(k) ==
    CASE k \in {"BrokerHello", "AgentEvent"} -> "streaming"
      [] k = "BrokerError" -> "rejected"
      [] k = "BrokerClose" -> "closed"

ReadFrame(p) ==
    /\ client[p] \in {"awaiting", "streaming"} /\ nread[p] < Len(sent[p])
    /\ nread' = [nread EXCEPT ![p] = @ + 1]
    /\ client' = [client EXCEPT ![p] = AfterRead(NextFrame(p).kind)]
    /\ ready' = [ready EXCEPT ![p] = IF NextFrame(p) = BrokerHello
                                     THEN published ELSE @]
    /\ UNCHANGED <<published, shutdown, server, sessionVars, hello>>

(* A stream that ends without BrokerClose is an UnexpectedEof error.       *)
ReadEof(p) ==
    /\ client[p] \in {"connected", "awaiting", "streaming"}
    /\ sess[p] = "ended" /\ nread[p] = Len(sent[p])
    /\ client' = [client EXCEPT ![p] = "eof"]
    /\ UNCHANGED <<published, shutdown, server, sessionVars, nread, hello, ready>>

ClientStep(p) == ReadFrame(p) \/ ReadEof(p)

-----------------------------------------------------------------------------
Next ==
    \/ Publish \/ RequestShutdown
    \/ AcceptError \/ ServerShutdown \/ ServerJoined
    \/ \E p \in Plugins :
          \/ Accept(p) \/ SessionStep(p)
          \/ Connect(p) \/ Leave(p) \/ ClientStep(p)
          \/ \E h \in HelloKinds : SendHello(p, h)

Spec == Init /\ [][Next]_vars

(* The runtime schedules the accept loop and every session task, the OS    *)
(* timer bounds the handshake, and the plugins in Readers go on reading.   *)
Fairness ==
    /\ WF_vars(ServerShutdown) /\ WF_vars(ServerJoined)
    /\ \A p \in Plugins : WF_vars(Accept(p)) /\ WF_vars(SessionStep(p))
    /\ \A p \in Readers : WF_vars(ClientStep(p))

FairSpec == Spec /\ Fairness

-----------------------------------------------------------------------------
(* Properties.                                                             *)

TypeOK ==
    /\ published \in 0..MaxEvents
    /\ shutdown \in BOOLEAN
    /\ server \in ServerStates
    /\ sess \in [Plugins -> SessionStates]
    /\ from \in [Plugins -> 0..(MaxEvents + 1)]
    /\ cursor \in [Plugins -> 0..(MaxEvents + 1)]
    /\ frame \in [Plugins -> Frames \cup {NoFrame}]
    /\ sent \in [Plugins -> Seq(Frames)]
    /\ nread \in [Plugins -> Nat]
    /\ hello \in [Plugins -> HelloKinds \cup {"none", "eof"}]
    /\ client \in [Plugins -> ClientStates]
    /\ ready \in [Plugins -> 0..MaxEvents]

Accepted(p) == Len(sent[p]) > 0 /\ sent[p][1] = BrokerHello

(* "Frames sent on one connection preserve event order" and no event of    *)
(* the subscription is skipped: what an accepted connection carries is     *)
(* BrokerHello, then the events from, from+1, from+2, ... without a gap,   *)
(* then at most one BrokerClose, which is the last frame.                  *)
ContiguousStream ==
    \A p \in Plugins : Accepted(p) =>
        \A i \in 2..Len(sent[p]) :
            \/ sent[p][i] = AgentEvent(from[p] + i - 2)
            \/ sent[p][i].kind = "BrokerClose" /\ i = Len(sent[p])

(* A plugin that has read BrokerHello misses nothing published afterwards: *)
(* its subscription starts no later than the next event (the session       *)
(* subscribes before it writes BrokerHello).                               *)
ReadyMeansSubscribed ==
    \A p \in Plugins :
        client[p] = "streaming" => from[p] \in 1..(ready[p] + 1)

(* "Before deliberately closing an accepted session, the broker sends      *)
(* BrokerClose as its final frame": an accepted connection whose session   *)
(* is over ends with BrokerClose unless the plugin left or the accept loop *)
(* failed and took its sessions with it.                                   *)
AnnouncedEnd ==
    \A p \in Plugins :
        Accepted(p) /\ sess[p] = "ended" /\ client[p] # "gone"
            /\ server # "failed"
        => sent[p][Len(sent[p])].kind = "BrokerClose"

(* "A slow or disconnected plugin must not block ... delivery to other     *)
(* plugins": a reader gets every event of its subscription, or its stream  *)
(* ends, whatever the plugins outside Readers do.                          *)
ReadersServed ==
    \A p \in Readers : \A n \in 1..MaxEvents :
        (client[p] = "streaming" /\ n >= from[p] /\ n <= published)
        ~> \/ client[p] # "streaming"
           \/ nread[p] > n - from[p] + 1

(* PluginServer::run returns after shutdown has been requested: every      *)
(* session ends and is joined.                                             *)
ShutdownCompletes == shutdown ~> server \in {"stopped", "failed"}

(* Nothing but a write to a plugin that has stopped reading can hold the   *)
(* shutdown up: without one, every session ends and is joined.             *)
ShutdownUnlessStalled ==
    shutdown ~> \/ server \in {"stopped", "failed"}
                \/ \E p \in Plugins \ Readers :
                      sess[p] \in Writing /\ InFlight(p) = PipeFrames

-----------------------------------------------------------------------------
(* What a consumer is promised, and the state that shows it.               *)

EventsRead(p) ==
    IF ~Accepted(p) \/ nread[p] = 0 THEN 0
    ELSE IF sent[p][nread[p]].kind = "BrokerClose" THEN nread[p] - 2
    ELSE nread[p] - 1

Delivered(p) == [i \in 1..EventsRead(p) |-> sent[p][i + 1].arg]

Fate(p) ==
    CASE frame[p] = EventStreamTooSlow -> "slow"
      [] frame[p] = BrokerShutdown -> "shutdown"
      [] OTHER -> IF sess[p] = "ended" THEN "cut" ELSE "live"

Promise == INSTANCE EventStream WITH
    Consumers <- Plugins,
    stopping <- shutdown,
    delivered <- [p \in Plugins |-> Delivered(p)],
    fate <- [p \in Plugins |-> Fate(p)]

(* Sessions, frames and transports implement EventStream: every consumer   *)
(* receives a contiguous run of the events from its subscription on, and   *)
(* code 101 is only ever chosen for a consumer more than Capacity behind.  *)
ImplementsEventStream == Promise!Spec
=============================================================================
