------------------------- MODULE PluginStreamProofs -------------------------
(***************************************************************************)
(* Proofs about PluginStream, for any set of connections, ring capacity,   *)
(* transport buffer and number of events.                                  *)
(*                                                                         *)
(* None of the safety properties is inductive: what a connection carries   *)
(* is in order because the session's receiver, the frame it is writing and *)
(* the frames already sent stay in step.  Inv ties them together for each  *)
(* stage of the session.                                                   *)
(***************************************************************************)
EXTENDS PluginStream, TLAPS

Errors == {UnsupportedProtocolVersion, InvalidHandshake}
Closes == {BrokerShutdown, EventStreamTooSlow}

(* Everything after BrokerHello is the subscription, event by event.       *)
OnlyEvents(p) ==
    \A i \in 2..Len(sent[p]) : sent[p][i] = AgentEvent(from[p] + i - 2)

InOrder(p) ==
    \A i \in 2..Len(sent[p]) :
        \/ sent[p][i] = AgentEvent(from[p] + i - 2)
        \/ sent[p][i].kind = "BrokerClose" /\ i = Len(sent[p])

(* The session and what it has sent.                                       *)
SessionInv(p) ==
    /\ sess[p] \in {"idle", "queued", "hello", "rejecting"} =>
          sent[p] = <<>> /\ from[p] = 0
    /\ sess[p] = "rejecting" => frame[p] \in Errors
    /\ sess[p] = "greeting" =>
          sent[p] = <<>> /\ frame[p] = BrokerHello /\ from[p] >= 1
          /\ cursor[p] = from[p]
    /\ sess[p] \in {"streaming", "writing", "closing"} =>
          Accepted(p) /\ OnlyEvents(p)
    /\ sess[p] \in {"streaming", "closing"} =>
          cursor[p] = from[p] + Len(sent[p]) - 1
    /\ sess[p] = "writing" =>
          cursor[p] = from[p] + Len(sent[p]) /\ frame[p] = AgentEvent(cursor[p] - 1)
    /\ sess[p] = "closing" => frame[p] \in Closes
    /\ from[p] <= published + 1 /\ cursor[p] <= published + 1
    /\ sent[p] # <<>> => sent[p][1] \in Errors \cup {BrokerHello}
    /\ Accepted(p) => from[p] >= 1 /\ InOrder(p)

(* The plugin's end, and how a session may be over.                        *)
ClientInv(p) ==
    /\ nread[p] <= Len(sent[p])
    /\ client[p] = "idle" => sess[p] = "idle"
    /\ client[p] \in {"idle", "connected", "awaiting"} => nread[p] = 0
    /\ client[p] = "streaming" =>
          nread[p] >= 1 /\ Accepted(p) /\ from[p] <= ready[p] + 1
    /\ Accepted(p) /\ sess[p] = "ended" /\ client[p] # "gone" /\ server # "failed"
          => sent[p][Len(sent[p])].kind = "BrokerClose"

Inv == TypeOK /\ \A p \in Plugins : SessionInv(p) /\ ClientInv(p)

-----------------------------------------------------------------------------
(* What Append does, for the frames a session writes.                      *)
LEMMA AppendFacts ==
    ASSUME NEW S, NEW s \in Seq(S), NEW e \in S
    PROVE  /\ Append(s, e) \in Seq(S)
           /\ Len(Append(s, e)) = Len(s) + 1
           /\ Len(s) \in Nat
           /\ Append(s, e)[Len(s) + 1] = e
           /\ \A i \in 1..Len(s) : Append(s, e)[i] = s[i]
OBVIOUS

(* The initial state: no connection has begun.                             *)
LEMMA InitInv == Init => Inv
<1> SUFFICES ASSUME Init PROVE Inv
    OBVIOUS
<1>1. TypeOK
  <2>1. shutdown \in BOOLEAN
      BY DEF Init
  <2>2. /\ frame \in [Plugins -> Frames \cup {NoFrame}]
        /\ sent \in [Plugins -> Seq(Frames)]
      BY DEF Init
  <2> QED BY <2>1, <2>2, PluginStreamAssumption
      DEF Init, TypeOK, ServerStates, SessionStates, ClientStates
<1>2. ASSUME NEW p \in Plugins PROVE SessionInv(p) /\ ClientInv(p)
    BY DEF Init, SessionInv, ClientInv, Accepted
<1> QED BY <1>1, <1>2 DEF Inv

(* A connection a step does not touch keeps its invariant: publishing only *)
(* raises the bounds, and a failing server weakens what is claimed.        *)
LEMMA Untouched ==
    ASSUME TypeOK, NEW q \in Plugins, SessionInv(q), ClientInv(q),
           published' \in Nat, published' >= published,
           server = "failed" => server' = "failed",
           sess'[q] = sess[q], from'[q] = from[q], cursor'[q] = cursor[q],
           frame'[q] = frame[q], sent'[q] = sent[q], nread'[q] = nread[q],
           client'[q] = client[q], ready'[q] = ready[q]
    PROVE  SessionInv(q)' /\ ClientInv(q)'
<1>1. /\ from[q] \in Nat /\ cursor[q] \in Nat /\ published \in Nat
    BY DEF TypeOK
<1>2. Accepted(q)' = Accepted(q) /\ OnlyEvents(q)' = OnlyEvents(q)
      /\ InOrder(q)' = InOrder(q)
    BY DEF Accepted, OnlyEvents, InOrder
<1>3. SessionInv(q)'
    BY <1>1, <1>2 DEF SessionInv
<1>4. ClientInv(q)'
    BY <1>2 DEF ClientInv
<1> QED BY <1>3, <1>4

-----------------------------------------------------------------------------
(* The frame a session is about to write.                                  *)
LEMMA FrameToWrite ==
    ASSUME Inv, NEW p \in Plugins, sess[p] \in Writing
    PROVE  frame[p] \in Frames
<1> USE PluginStreamAssumption DEF Inv, TypeOK
<1>1. CASE sess[p] = "rejecting"
    BY <1>1 DEF SessionInv, Errors, Frames, ControlFrames
<1>2. CASE sess[p] = "greeting"
    BY <1>2 DEF SessionInv, Frames, ControlFrames
<1>3. CASE sess[p] = "closing"
    BY <1>3 DEF SessionInv, Closes, Frames, ControlFrames
<1>4. CASE sess[p] = "writing"
  <2>1. Len(sent[p]) \in Nat /\ Len(sent[p]) > 0 /\ from[p] >= 1
      BY <1>4 DEF SessionInv, Accepted
  <2>2. cursor[p] - 1 \in 1..MaxEvents
      BY <1>4, <2>1 DEF SessionInv
  <2> QED BY <1>4, <2>2 DEF SessionInv, Frames
<1> QED BY <1>1, <1>2, <1>3, <1>4 DEF Writing

(* Steps keep every variable in its type: the frame a session appends is   *)
(* one it may send, and no cursor passes the live end.                     *)
LEMMA TypeStep ==
    ASSUME Inv, [Next]_vars PROVE TypeOK'
<1> USE PluginStreamAssumption DEF Inv, TypeOK
<1>1. CASE UNCHANGED vars
    BY <1>1 DEF vars
<1>2. CASE Publish
    BY <1>2 DEF Publish, sessionVars, clientVars
<1>3. CASE RequestShutdown
  <2>1. shutdown' \in BOOLEAN
      BY <1>3 DEF RequestShutdown
  <2> QED BY <1>3, <2>1 DEF RequestShutdown, sessionVars, clientVars
<1>4. CASE AcceptError
    BY <1>4 DEF AcceptError, ServerStates, SessionStates, clientVars
<1>5. CASE ServerShutdown
    BY <1>5 DEF ServerShutdown, ServerStates, SessionStates, clientVars
<1>6. CASE ServerJoined
    BY <1>6 DEF ServerJoined, ServerStates, sessionVars, clientVars
<1>7. ASSUME NEW p \in Plugins, Accept(p) PROVE TypeOK'
    BY <1>7 DEF Accept, SessionStates, clientVars
<1>8. ASSUME NEW p \in Plugins, EndSession(p) PROVE TypeOK'
    BY <1>8 DEF EndSession, SessionStates, clientVars
<1>9. ASSUME NEW p \in Plugins, HandshakeReject(p) PROVE TypeOK'
    BY <1>9 DEF HandshakeReject, SessionStates, clientVars, Frames, ControlFrames
<1>10. ASSUME NEW p \in Plugins, HandshakeAccept(p) PROVE TypeOK'
  <2>1. BrokerHello \in Frames
      BY DEF Frames, ControlFrames
  <2>2. published + 1 \in 0..(MaxEvents + 1)
      OBVIOUS
  <2> QED BY <1>10, <2>1, <2>2 DEF HandshakeAccept, SessionStates, clientVars
<1>11. ASSUME NEW p \in Plugins, WriteFrame(p) PROVE TypeOK'
  <2>1. frame[p] \in Frames
      BY <1>11, FrameToWrite DEF WriteFrame
  <2>2. Append(sent[p], frame[p]) \in Seq(Frames)
      BY <2>1, AppendFacts
  <2>3. AfterWrite[sess[p]] \in SessionStates
      BY <1>11 DEF WriteFrame, Writing, AfterWrite, SessionStates
  <2> QED BY <1>11, <2>2, <2>3 DEF WriteFrame, clientVars
<1>12. ASSUME NEW p \in Plugins, StreamShutdown(p) PROVE TypeOK'
    BY <1>12 DEF StreamShutdown, SessionStates, clientVars, Frames, ControlFrames
<1>13. ASSUME NEW p \in Plugins, StreamEvent(p) PROVE TypeOK'
  <2>1. Len(sent[p]) \in Nat /\ Len(sent[p]) > 0 /\ from[p] >= 1
      BY <1>13 DEF StreamEvent, SessionInv, Accepted
  <2>2. cursor[p] \in 1..MaxEvents
      BY <1>13, <2>1 DEF StreamEvent, SessionInv
  <2>3. AgentEvent(cursor[p]) \in Frames
      BY <2>2 DEF Frames
  <2> QED BY <1>13, <2>2, <2>3 DEF StreamEvent, SessionStates, clientVars
<1>14. ASSUME NEW p \in Plugins, StreamLagged(p) PROVE TypeOK'
    BY <1>14 DEF StreamLagged, SessionStates, clientVars, Frames, ControlFrames
<1>15. ASSUME NEW p \in Plugins, Connect(p) PROVE TypeOK'
    BY <1>15 DEF Connect, SessionStates, ClientStates
<1>16. ASSUME NEW p \in Plugins, NEW h \in HelloKinds, SendHello(p, h) PROVE TypeOK'
    BY <1>16 DEF SendHello, ClientStates, sessionVars
<1>17. ASSUME NEW p \in Plugins, Leave(p) PROVE TypeOK'
    BY <1>17 DEF Leave, ClientStates, sessionVars
<1>18. ASSUME NEW p \in Plugins, ReadFrame(p) PROVE TypeOK'
  <2>1. NextFrame(p) \in Frames
      BY <1>18 DEF ReadFrame, NextFrame
  <2>2. NextFrame(p).kind \in {"BrokerHello", "AgentEvent", "BrokerError", "BrokerClose"}
      BY <2>1 DEF Frames, ControlFrames, BrokerHello, AgentEvent, BrokerShutdown,
         EventStreamTooSlow, UnsupportedProtocolVersion, InvalidHandshake, Frame
  <2>3. AfterRead(NextFrame(p).kind) \in ClientStates
      BY <2>2 DEF AfterRead, ClientStates
  <2> QED BY <1>18, <2>3 DEF ReadFrame, sessionVars
<1>19. ASSUME NEW p \in Plugins, ReadEof(p) PROVE TypeOK'
    BY <1>19 DEF ReadEof, ClientStates, sessionVars
<1> QED
    BY <1>1, <1>2, <1>3, <1>4, <1>5, <1>6, <1>7, <1>8, <1>9, <1>10, <1>11, <1>12,
       <1>13, <1>14, <1>15, <1>16, <1>17, <1>18, <1>19
    DEF Next, SessionStep, ClientStep, HandshakeShutdown, HandshakeTimeout,
        HandshakeEof, WriteFails

-----------------------------------------------------------------------------
(* What the frames of a connection are worth after one more was written.   *)
LEMMA AfterAppend ==
    ASSUME Inv, NEW p \in Plugins, WriteFrame(p), frame[p] \in Frames
    PROVE  /\ Len(sent[p]) \in Nat
           /\ Len(sent'[p]) = Len(sent[p]) + 1
           /\ sent'[p][Len(sent[p]) + 1] = frame[p]
           /\ \A i \in 1..Len(sent[p]) : sent'[p][i] = sent[p][i]
           /\ from'[p] = from[p] /\ cursor'[p] = cursor[p]
           /\ published' = published /\ server' = server
           /\ nread'[p] = nread[p] /\ client'[p] = client[p]
           /\ ready'[p] = ready[p] /\ frame'[p] = frame[p]
           /\ sess'[p] = AfterWrite[sess[p]]
<1>1. sent'[p] = Append(sent[p], frame[p])
    BY DEF WriteFrame, Inv, TypeOK
<1>2. sess'[p] = AfterWrite[sess[p]]
    BY DEF WriteFrame, Inv, TypeOK
<1>3. sent[p] \in Seq(Frames)
    BY DEF Inv, TypeOK
<1> QED BY <1>1, <1>2, <1>3, AppendFacts DEF WriteFrame, clientVars

(* Writing a frame keeps receiver, frame and sent frames in step.          *)
LEMMA WriteFrameLocal ==
    ASSUME Inv, NEW p \in Plugins, WriteFrame(p)
    PROVE  SessionInv(p)' /\ ClientInv(p)'
<1> DEFINE n == Len(sent[p])
<1>0. frame[p] \in Frames /\ sess[p] \in Writing
    BY FrameToWrite DEF WriteFrame
<1>1. /\ n \in Nat
      /\ Len(sent'[p]) = n + 1
      /\ sent'[p][n + 1] = frame[p]
      /\ \A i \in 1..n : sent'[p][i] = sent[p][i]
      /\ from'[p] = from[p] /\ cursor'[p] = cursor[p]
      /\ published' = published /\ server' = server
      /\ nread'[p] = nread[p] /\ client'[p] = client[p]
      /\ ready'[p] = ready[p] /\ frame'[p] = frame[p]
      /\ sess'[p] = AfterWrite[sess[p]]
    BY <1>0, AfterAppend
<1>2. /\ from[p] \in Nat /\ cursor[p] \in Nat /\ published \in Nat
      /\ nread[p] \in Nat /\ SessionInv(p) /\ ClientInv(p)
      /\ ready[p] \in Nat
    BY PluginStreamAssumption DEF Inv, TypeOK
<1>3. sent'[p] # <<>>
    BY <1>1
<1> HIDE DEF n
<1>4. CASE sess[p] = "rejecting"
  <2>1. n = 0 /\ frame[p] \in Errors /\ from[p] = 0 /\ sess'[p] = "ended"
      BY <1>1, <1>2, <1>4 DEF SessionInv, AfterWrite, n
  <2>2. ~Accepted(p)'
      BY <1>1, <2>1 DEF Accepted, Errors, BrokerHello, UnsupportedProtocolVersion,
         InvalidHandshake, Frame
  <2>3. ~Accepted(p)
      BY <1>2, <2>1 DEF Accepted, n
  <2>4. SessionInv(p)'
      BY <1>1, <1>2, <2>1, <2>2 DEF SessionInv
  <2>5. ClientInv(p)'
      BY <1>1, <1>2, <1>4, <2>1, <2>2, <2>3 DEF ClientInv, n
  <2> QED BY <2>4, <2>5
<1>5. CASE sess[p] = "greeting"
  <2>1. /\ n = 0 /\ frame[p] = BrokerHello /\ from[p] >= 1 /\ cursor[p] = from[p]
        /\ sess'[p] = "streaming"
      BY <1>1, <1>2, <1>5 DEF SessionInv, AfterWrite, n
  <2>2. Accepted(p)' /\ OnlyEvents(p)' /\ InOrder(p)'
      BY <1>1, <2>1 DEF Accepted, OnlyEvents, InOrder
  <2>3. ~Accepted(p)
      BY <1>2, <2>1 DEF Accepted, n
  <2>4. SessionInv(p)'
      BY <1>1, <1>2, <2>1, <2>2 DEF SessionInv
  <2>5. ClientInv(p)'
      BY <1>1, <1>2, <1>5, <2>1, <2>2, <2>3 DEF ClientInv, n
  <2> QED BY <2>4, <2>5
<1>6. CASE sess[p] = "writing"
  <2>1. /\ n >= 1 /\ Accepted(p) /\ OnlyEvents(p) /\ from[p] >= 1
        /\ cursor[p] = from[p] + n /\ frame[p] = AgentEvent(cursor[p] - 1)
        /\ sess'[p] = "streaming"
      BY <1>1, <1>2, <1>6 DEF SessionInv, Accepted, AfterWrite, n
  <2>2. Accepted(p)'
      BY <1>1, <2>1 DEF Accepted
  <2>3. OnlyEvents(p)'
    <3> SUFFICES ASSUME NEW i \in 2..(n + 1)
                 PROVE  sent'[p][i] = AgentEvent(from'[p] + i - 2)
        BY <1>1 DEF OnlyEvents
    <3>1. CASE i = n + 1
      <4>1. cursor[p] - 1 = from[p] + i - 2
          BY <1>1, <1>2, <2>1, <3>1
      <4> QED BY <1>1, <2>1, <3>1, <4>1
    <3>2. CASE i \in 2..n
        BY <1>1, <2>1, <3>2 DEF OnlyEvents, n
    <3> QED BY <1>1, <3>1, <3>2
  <2>4. InOrder(p)'
      BY <2>3 DEF OnlyEvents, InOrder
  <2>5. SessionInv(p)'
      BY <1>1, <1>2, <2>1, <2>2, <2>3, <2>4 DEF SessionInv, n
  <2>6. ClientInv(p)'
      BY <1>1, <1>2, <1>6, <2>1, <2>2 DEF ClientInv, n
  <2> QED BY <2>5, <2>6
<1>7. CASE sess[p] = "closing"
  <2>1. /\ n >= 1 /\ Accepted(p) /\ OnlyEvents(p) /\ from[p] >= 1
        /\ frame[p] \in Closes /\ sess'[p] = "ended"
      BY <1>1, <1>2, <1>7 DEF SessionInv, Accepted, AfterWrite, n
  <2>2. frame[p].kind = "BrokerClose"
      BY <2>1 DEF Closes, BrokerShutdown, EventStreamTooSlow, Frame
  <2>3. Accepted(p)'
      BY <1>1, <2>1 DEF Accepted
  <2>4. InOrder(p)'
    <3> SUFFICES ASSUME NEW i \in 2..(n + 1)
                 PROVE  \/ sent'[p][i] = AgentEvent(from'[p] + i - 2)
                        \/ sent'[p][i].kind = "BrokerClose" /\ i = Len(sent'[p])
        BY <1>1 DEF InOrder
    <3>1. CASE i = n + 1
        BY <1>1, <2>2, <3>1
    <3>2. CASE i \in 2..n
        BY <1>1, <2>1, <3>2 DEF OnlyEvents, n
    <3> QED BY <1>1, <3>1, <3>2
  <2>5. SessionInv(p)'
      BY <1>1, <1>2, <2>1, <2>3, <2>4 DEF SessionInv, n
  <2>6. ClientInv(p)'
      BY <1>1, <1>2, <1>7, <2>1, <2>2, <2>3 DEF ClientInv, n
  <2> QED BY <2>5, <2>6
<1> QED BY <1>0, <1>4, <1>5, <1>6, <1>7 DEF Writing

(* Reading a frame: the first one decides what the plugin becomes.         *)
LEMMA ReadFrameLocal ==
    ASSUME Inv, NEW p \in Plugins, ReadFrame(p)
    PROVE  SessionInv(p)' /\ ClientInv(p)'
<1>1. /\ sess' = sess /\ from' = from /\ cursor' = cursor /\ frame' = frame
      /\ sent' = sent /\ published' = published /\ server' = server
      /\ nread'[p] = nread[p] + 1
      /\ client'[p] = AfterRead(NextFrame(p).kind)
      /\ ready'[p] = IF NextFrame(p) = BrokerHello THEN published ELSE ready[p]
      /\ nread[p] < Len(sent[p])
      /\ client[p] \in {"awaiting", "streaming"}
    BY DEF ReadFrame, sessionVars, Inv, TypeOK
<1>2. /\ nread[p] \in Nat /\ sent[p] \in Seq(Frames) /\ Len(sent[p]) \in Nat
      /\ published \in Nat /\ from[p] \in Nat
      /\ SessionInv(p) /\ ClientInv(p)
    BY PluginStreamAssumption DEF Inv, TypeOK
<1>3. Accepted(p)' = Accepted(p) /\ OnlyEvents(p)' = OnlyEvents(p)
      /\ InOrder(p)' = InOrder(p)
    BY <1>1 DEF Accepted, OnlyEvents, InOrder
<1>4. SessionInv(p)'
    BY <1>1, <1>2, <1>3 DEF SessionInv
<1>5. NextFrame(p) \in Frames
    BY <1>1, <1>2 DEF NextFrame
<1>6. NextFrame(p).kind \in {"BrokerHello", "AgentEvent", "BrokerError", "BrokerClose"}
    BY <1>5 DEF Frames, ControlFrames, BrokerHello, AgentEvent, BrokerShutdown,
       EventStreamTooSlow, UnsupportedProtocolVersion, InvalidHandshake, Frame
<1>7. client'[p] \in {"streaming", "rejected", "closed"}
    BY <1>1, <1>6 DEF AfterRead
<1>8. client'[p] = "streaming" => Accepted(p) /\ from[p] <= ready'[p] + 1
  <2>1. CASE client[p] = "streaming"
      BY <1>1, <1>2, <2>1 DEF ClientInv, SessionInv
  <2>2. CASE client[p] = "awaiting"
    <3>1. NextFrame(p) = sent[p][1] /\ sent[p] # <<>>
        BY <1>1, <1>2, <2>2 DEF ClientInv, NextFrame
    <3>2. CASE sent[p][1] = BrokerHello
        BY <1>1, <1>2, <3>1, <3>2 DEF Accepted, SessionInv
    <3>3. CASE sent[p][1] \in Errors
      <4>1. NextFrame(p).kind = "BrokerError"
          BY <3>1, <3>3 DEF Errors, UnsupportedProtocolVersion, InvalidHandshake, Frame
      <4> QED BY <1>1, <4>1 DEF AfterRead
    <3> QED BY <1>2, <3>1, <3>2, <3>3 DEF SessionInv
  <2> QED BY <1>1, <2>1, <2>2
<1>9. ClientInv(p)'
    BY <1>1, <1>2, <1>3, <1>7, <1>8 DEF ClientInv
<1> QED BY <1>4, <1>9

(* A session may end without BrokerClose when it was never accepted, its   *)
(* plugin has left or the server is failing.                               *)
LEMMA EndedLocal ==
    ASSUME Inv, NEW q \in Plugins, sess[q] # "idle", sess'[q] = "ended",
           Accepted(q) => client[q] = "gone" \/ server' = "failed",
           UNCHANGED <<published, from, cursor, frame, sent, clientVars>>
    PROVE  SessionInv(q)' /\ ClientInv(q)'
<1>1. SessionInv(q) /\ ClientInv(q)
    BY DEF Inv
<1>2. Accepted(q)' = Accepted(q) /\ InOrder(q)' = InOrder(q)
    BY DEF Accepted, InOrder
<1>3. SessionInv(q)'
    BY <1>1, <1>2 DEF SessionInv
<1>4. ClientInv(q)'
    BY <1>1, <1>2 DEF ClientInv, clientVars
<1> QED BY <1>3, <1>4

(* A session that has sent nothing has not accepted its plugin.            *)
LEMMA NotYetAccepted ==
    ASSUME Inv, NEW q \in Plugins, sess[q] \in {"idle", "queued", "hello"}
    PROVE  ~Accepted(q)
<1>1. sent[q] = <<>>
    BY DEF Inv, SessionInv
<1> QED BY <1>1 DEF Accepted

(* Each step keeps the invariant of each connection.                       *)
LEMMA LocalStep ==
    ASSUME Inv, [Next]_vars, NEW q \in Plugins
    PROVE  SessionInv(q)' /\ ClientInv(q)'
<1> USE PluginStreamAssumption
<1>0. /\ TypeOK /\ SessionInv(q) /\ ClientInv(q) /\ published \in Nat
      /\ from[q] \in Nat /\ cursor[q] \in Nat /\ Len(sent[q]) \in Nat
    BY DEF Inv, TypeOK
<1>1. CASE UNCHANGED vars
    BY <1>0, <1>1, Untouched DEF vars
<1>2. CASE Publish
    BY <1>0, <1>2, Untouched DEF Publish, sessionVars, clientVars
<1>3. CASE RequestShutdown
    BY <1>0, <1>3, Untouched DEF RequestShutdown, sessionVars, clientVars
<1>4. CASE AcceptError
  <2>1. sess'[q] = sess[q] \/ (sess[q] # "idle" /\ sess'[q] = "ended")
      BY <1>4 DEF AcceptError
  <2>2. CASE sess'[q] = sess[q]
      BY <1>0, <1>4, <2>2, Untouched DEF AcceptError, clientVars
  <2>3. CASE sess[q] # "idle" /\ sess'[q] = "ended"
      BY <1>4, <2>3, EndedLocal DEF AcceptError
  <2> QED BY <2>1, <2>2, <2>3
<1>5. CASE ServerShutdown
  <2>1. CASE sess[q] = "queued"
    <3>1. sess'[q] = "ended"
        BY <1>5, <2>1 DEF ServerShutdown
    <3> QED BY <1>5, <2>1, <3>1, NotYetAccepted, EndedLocal DEF ServerShutdown
  <2>2. CASE sess[q] # "queued"
    <3>1. sess'[q] = sess[q]
        BY <1>5, <2>2 DEF ServerShutdown
    <3> QED BY <1>0, <1>5, <3>1, Untouched DEF ServerShutdown, clientVars
  <2> QED BY <2>1, <2>2
<1>6. CASE ServerJoined
    BY <1>0, <1>6, Untouched DEF ServerJoined, sessionVars, clientVars
<1>7. ASSUME NEW p \in Plugins, Accept(p) PROVE SessionInv(q)' /\ ClientInv(q)'
  <2>1. CASE p = q
    <3>1. /\ sess'[q] = "hello" /\ sess[q] = "queued"
          /\ UNCHANGED <<published, server, from, cursor, frame, sent, clientVars>>
        BY <1>0, <1>7, <2>1 DEF Accept, TypeOK
    <3>2. Accepted(q)' = Accepted(q) /\ InOrder(q)' = InOrder(q)
        BY <3>1 DEF Accepted, InOrder
    <3> QED BY <1>0, <3>1, <3>2 DEF SessionInv, ClientInv, clientVars
  <2>2. CASE p # q
      BY <1>0, <1>7, <2>2, Untouched, SMTT(40) DEF Accept, TypeOK, clientVars
  <2> QED BY <2>1, <2>2
<1>8. ASSUME NEW p \in Plugins, EndSession(p),
             sess[p] = "hello" \/ (sess[p] \in Writing /\ client[p] = "gone")
      PROVE  SessionInv(q)' /\ ClientInv(q)'
  <2>1. CASE p = q
    <3>1. sess'[q] = "ended" /\ sess[q] # "idle"
        BY <1>0, <1>8, <2>1 DEF EndSession, TypeOK, Writing
    <3> QED BY <1>8, <2>1, <3>1, NotYetAccepted, EndedLocal DEF EndSession
  <2>2. CASE p # q
      BY <1>0, <1>8, <2>2, Untouched, SMTT(40) DEF EndSession, TypeOK, clientVars
  <2> QED BY <2>1, <2>2
<1>9. ASSUME NEW p \in Plugins, HandshakeReject(p)
      PROVE  SessionInv(q)' /\ ClientInv(q)'
  <2>1. CASE p = q
    <3>1. /\ sess'[q] = "rejecting" /\ sess[q] = "hello" /\ frame'[q] \in Errors
          /\ UNCHANGED <<published, server, from, cursor, sent, clientVars>>
        BY <1>0, <1>9, <2>1 DEF HandshakeReject, TypeOK, Errors
    <3>2. Accepted(q)' = Accepted(q) /\ InOrder(q)' = InOrder(q) /\ ~Accepted(q)
        BY <3>1, NotYetAccepted DEF Accepted, InOrder
    <3> QED BY <1>0, <3>1, <3>2 DEF SessionInv, ClientInv, clientVars
  <2>2. CASE p # q
      BY <1>0, <1>9, <2>2, Untouched, SMTT(40) DEF HandshakeReject, TypeOK, clientVars
  <2> QED BY <2>1, <2>2
<1>10. ASSUME NEW p \in Plugins, HandshakeAccept(p)
       PROVE  SessionInv(q)' /\ ClientInv(q)'
  <2>1. CASE p = q
    <3>1. /\ sess'[q] = "greeting" /\ sess[q] = "hello" /\ frame'[q] = BrokerHello
          /\ from'[q] = published + 1 /\ cursor'[q] = published + 1
          /\ UNCHANGED <<published, server, sent, clientVars>>
        BY <1>0, <1>10, <2>1 DEF HandshakeAccept, TypeOK
    <3>2. sent[q] = <<>> /\ ~Accepted(q) /\ ~Accepted(q)'
        BY <1>0, <3>1, NotYetAccepted DEF SessionInv, Accepted
    <3>3. SessionInv(q)'
        BY <1>0, <3>1, <3>2 DEF SessionInv
    <3>4. ClientInv(q)'
        BY <1>0, <3>1, <3>2 DEF ClientInv, clientVars
    <3> QED BY <3>3, <3>4
  <2>2. CASE p # q
      BY <1>0, <1>10, <2>2, Untouched, SMTT(40) DEF HandshakeAccept, TypeOK, clientVars
  <2> QED BY <2>1, <2>2
<1>11. ASSUME NEW p \in Plugins, WriteFrame(p) PROVE SessionInv(q)' /\ ClientInv(q)'
  <2>1. CASE p = q
      BY <1>11, <2>1, WriteFrameLocal
  <2>2. CASE p # q
      BY <1>0, <1>11, <2>2, Untouched, SMTT(40) DEF WriteFrame, TypeOK, clientVars
  <2> QED BY <2>1, <2>2
<1>12. ASSUME NEW p \in Plugins, StreamShutdown(p) \/ StreamLagged(p)
       PROVE  SessionInv(q)' /\ ClientInv(q)'
  <2>1. CASE p = q
    <3>1. /\ sess'[q] = "closing" /\ sess[q] = "streaming" /\ frame'[q] \in Closes
          /\ UNCHANGED <<published, server, from, cursor, sent, clientVars>>
        BY <1>0, <1>12, <2>1 DEF StreamShutdown, StreamLagged, TypeOK, Closes
    <3>2. Accepted(q)' = Accepted(q) /\ InOrder(q)' = InOrder(q)
          /\ OnlyEvents(q)' = OnlyEvents(q)
        BY <3>1 DEF Accepted, InOrder, OnlyEvents
    <3>3. SessionInv(q)'
        BY <1>0, <3>1, <3>2 DEF SessionInv
    <3>4. ClientInv(q)'
        BY <1>0, <3>1, <3>2 DEF ClientInv, clientVars
    <3> QED BY <3>3, <3>4
  <2>2. CASE p # q
      BY <1>0, <1>12, <2>2, Untouched, SMTT(40)
      DEF StreamShutdown, StreamLagged, TypeOK, clientVars
  <2> QED BY <2>1, <2>2
<1>13. ASSUME NEW p \in Plugins, StreamEvent(p) PROVE SessionInv(q)' /\ ClientInv(q)'
  <2>1. CASE p = q
    <3>1. /\ sess'[q] = "writing" /\ sess[q] = "streaming"
          /\ frame'[q] = AgentEvent(cursor[q]) /\ cursor'[q] = cursor[q] + 1
          /\ cursor[q] <= published
          /\ UNCHANGED <<published, server, from, sent, clientVars>>
        BY <1>0, <1>13, <2>1 DEF StreamEvent, TypeOK
    <3>2. Accepted(q)' = Accepted(q) /\ InOrder(q)' = InOrder(q)
          /\ OnlyEvents(q)' = OnlyEvents(q)
        BY <3>1 DEF Accepted, InOrder, OnlyEvents
    <3>3. cursor'[q] - 1 = cursor[q]
        BY <1>0, <3>1
    <3>4. SessionInv(q)'
        BY <1>0, <3>1, <3>2, <3>3, SMTT(40) DEF SessionInv
    <3>5. ClientInv(q)'
        BY <1>0, <3>1, <3>2 DEF ClientInv, clientVars
    <3> QED BY <3>4, <3>5
  <2>2. CASE p # q
      BY <1>0, <1>13, <2>2, Untouched, SMTT(40) DEF StreamEvent, TypeOK, clientVars
  <2> QED BY <2>1, <2>2
<1>14. ASSUME NEW p \in Plugins, Connect(p) PROVE SessionInv(q)' /\ ClientInv(q)'
  <2>1. CASE p = q
    <3>1. /\ sess'[q] = "queued" /\ client'[q] = "connected" /\ client[q] = "idle"
          /\ UNCHANGED <<published, server, from, cursor, frame, sent, nread, ready>>
        BY <1>0, <1>14, <2>1 DEF Connect, TypeOK
    <3>2. sess[q] = "idle" /\ sent[q] = <<>> /\ from[q] = 0 /\ ~Accepted(q)
        BY <1>0, <3>1, NotYetAccepted DEF ClientInv, SessionInv
    <3>3. ~Accepted(q)'
        BY <3>1, <3>2 DEF Accepted
    <3>4. SessionInv(q)'
        BY <1>0, <3>1, <3>2, <3>3 DEF SessionInv
    <3>5. ClientInv(q)'
        BY <1>0, <3>1, <3>2, <3>3 DEF ClientInv
    <3> QED BY <3>4, <3>5
  <2>2. CASE p # q
      BY <1>0, <1>14, <2>2, Untouched, SMTT(40) DEF Connect, TypeOK
  <2> QED BY <2>1, <2>2
<1>15. ASSUME NEW p \in Plugins, UNCHANGED <<published, server, sessionVars, nread, ready>>,
              client[p] # "idle",
              \/ client[p] = "connected" /\ client' = [client EXCEPT ![p] = "awaiting"]
              \/ client' = [client EXCEPT ![p] = "gone"]
              \/ /\ client[p] # "gone" /\ client' = [client EXCEPT ![p] = "eof"]
       PROVE  SessionInv(q)' /\ ClientInv(q)'
  <2>1. CASE p = q
    <3>1. Accepted(q)' = Accepted(q) /\ InOrder(q)' = InOrder(q)
          /\ OnlyEvents(q)' = OnlyEvents(q)
        BY <1>15 DEF sessionVars, Accepted, InOrder, OnlyEvents
    <3>2. SessionInv(q)'
        BY <1>0, <1>15, <3>1 DEF SessionInv, sessionVars
    <3>3. \/ client[q] = "connected" /\ client'[q] = "awaiting"
          \/ client'[q] = "gone"
          \/ client[q] # "gone" /\ client'[q] = "eof"
        BY <1>0, <1>15, <2>1 DEF TypeOK
    <3>4. ClientInv(q)'
        BY <1>0, <1>15, <3>1, <3>3 DEF ClientInv, sessionVars
    <3> QED BY <3>2, <3>4
  <2>2. CASE p # q
      BY <1>0, <1>15, <2>2, Untouched, SMTT(40) DEF TypeOK, sessionVars
  <2> QED BY <2>1, <2>2
<1>16. ASSUME NEW p \in Plugins, NEW h \in HelloKinds, SendHello(p, h)
       PROVE  SessionInv(q)' /\ ClientInv(q)'
    BY <1>15, <1>16 DEF SendHello
<1>17. ASSUME NEW p \in Plugins, Leave(p) \/ ReadEof(p)
       PROVE  SessionInv(q)' /\ ClientInv(q)'
    BY <1>15, <1>17 DEF Leave, ReadEof
<1>18. ASSUME NEW p \in Plugins, ReadFrame(p) PROVE SessionInv(q)' /\ ClientInv(q)'
  <2>1. CASE p = q
      BY <1>18, <2>1, ReadFrameLocal
  <2>2. CASE p # q
      BY <1>0, <1>18, <2>2, Untouched, SMTT(40) DEF ReadFrame, TypeOK, sessionVars
  <2> QED BY <2>1, <2>2
<1> QED
    BY <1>1, <1>2, <1>3, <1>4, <1>5, <1>6, <1>7, <1>8, <1>9, <1>10, <1>11, <1>12,
       <1>13, <1>14, <1>16, <1>17, <1>18
    DEF Next, SessionStep, ClientStep, HandshakeShutdown, HandshakeTimeout,
        HandshakeEof, WriteFails

-----------------------------------------------------------------------------
(* Inv holds in every reachable state: receiver, frame being written and   *)
(* frames sent stay in step on every connection.                           *)
THEOREM Invariance == Spec => []Inv
<1>1. Inv /\ [Next]_vars => Inv'
    BY TypeStep, LocalStep DEF Inv
<1> QED BY InitInv, <1>1, PTL DEF Spec

(* Type correctness: frames, cursors and task states stay in their types   *)
(* (PluginSession, PluginServer, AgentEventStream).                        *)
THEOREM TypeCorrect == Spec => []TypeOK
<1>1. Inv => TypeOK
    BY DEF Inv
<1> QED BY Invariance, <1>1, PTL

(* stream_events writes the subscription in order and without a gap, and   *)
(* BrokerClose last.                                                       *)
THEOREM StreamsAreContiguous == Spec => []ContiguousStream
<1>1. Inv => ContiguousStream
    BY DEF Inv, SessionInv, InOrder, ContiguousStream
<1> QED BY Invariance, <1>1, PTL

(* handshake subscribes before it writes BrokerHello, so a plugin that has *)
(* read BrokerHello has missed nothing.                                    *)
THEOREM ReadyPluginsSubscribed == Spec => []ReadyMeansSubscribed
<1>1. ASSUME Inv, NEW p \in Plugins, client[p] = "streaming"
      PROVE  from[p] \in 1..(ready[p] + 1)
  <2>1. from[p] \in Nat /\ ready[p] \in Nat
      BY <1>1, PluginStreamAssumption DEF Inv, TypeOK
  <2>2. from[p] >= 1 /\ from[p] <= ready[p] + 1
      BY <1>1 DEF Inv, SessionInv, ClientInv
  <2> QED BY <2>1, <2>2
<1>2. Inv => ReadyMeansSubscribed
    BY <1>1 DEF ReadyMeansSubscribed
<1> QED BY Invariance, <1>2, PTL

(* The broker ends an accepted session with BrokerClose, unless the plugin *)
(* left or the accept loop failed.                                         *)
THEOREM EndsAreAnnounced == Spec => []AnnouncedEnd
<1>1. Inv => AnnouncedEnd
    BY DEF Inv, ClientInv, AnnouncedEnd
<1> QED BY Invariance, <1>1, PTL

-----------------------------------------------------------------------------
(* The refinement of EventStream.  Two more facts are needed: a session    *)
(* has chosen a close frame only once it is closing, and an event frame    *)
(* carries an event that was published.                                    *)

Undecided(p) == sess[p] \notin {"closing", "ended"} => frame[p] \notin Closes

Genuine(p) ==
    \A i \in 2..Len(sent[p]) : sent[p][i].kind = "AgentEvent" => sent[p][i].arg <= published

Faithful == Inv /\ \A p \in Plugins : Undecided(p) /\ Genuine(p)

(* Frames of different kinds differ.                                       *)
LEMMA FrameKinds ==
    /\ EventStreamTooSlow # BrokerShutdown /\ NoFrame \notin Closes /\ BrokerHello \notin Closes
    /\ \A n : AgentEvent(n) \notin Closes
    /\ \A f \in Errors : f \notin Closes /\ f # BrokerHello /\ f.kind = "BrokerError"
    /\ \A f \in Closes : f.kind = "BrokerClose"
    /\ BrokerHello.kind = "BrokerHello"
    /\ \A n : AgentEvent(n).kind = "AgentEvent" /\ AgentEvent(n).arg = n
BY DEF EventStreamTooSlow, BrokerShutdown, NoFrame, BrokerHello, AgentEvent, Errors, Closes,
       UnsupportedProtocolVersion, InvalidHandshake, Frame

(* A step that leaves a connection alone leaves both facts alone.          *)
LEMMA StillFaithful ==
    ASSUME Inv, NEW q \in Plugins, Undecided(q), Genuine(q),
           published' \in Nat, published' >= published, sent'[q] = sent[q],
           \/ frame'[q] = frame[q] /\ (sess[q] \in {"closing", "ended"} => sess'[q] \in {"closing", "ended"})
           \/ frame'[q] \notin Closes
           \/ sess'[q] \in {"closing", "ended"}
    PROVE  Undecided(q)' /\ Genuine(q)'
<1>1. Undecided(q)'
    BY DEF Undecided
<1>2. Genuine(q)'
  <2> SUFFICES ASSUME NEW i \in 2..Len(sent[q]), sent[q][i].kind = "AgentEvent"
               PROVE  sent[q][i].arg <= published'
      BY DEF Genuine
  <2>1. sent[q][i] \in Frames /\ published \in Nat
      BY PluginStreamAssumption DEF Inv, TypeOK
  <2>2. PICK n \in 1..MaxEvents : sent[q][i] = AgentEvent(n)
      BY <2>1 DEF Frames, ControlFrames, BrokerHello, UnsupportedProtocolVersion,
         InvalidHandshake, BrokerShutdown, EventStreamTooSlow, Frame
  <2>3. sent[q][i].arg = n /\ n \in Nat
      BY <2>2, FrameKinds, PluginStreamAssumption
  <2> QED BY <2>1, <2>3 DEF Genuine
<1> QED BY <1>1, <1>2

(* The frame a session writes is an event only when it was published.      *)
LEMMA WriteFaithful ==
    ASSUME Inv, NEW q \in Plugins, Undecided(q), Genuine(q), WriteFrame(q)
    PROVE  Undecided(q)' /\ Genuine(q)'
<1> DEFINE s == sent[q]
<1>1. /\ s \in Seq(Frames) /\ frame[q] \in Frames /\ sess[q] \in Writing
      /\ sent'[q] = Append(s, frame[q]) /\ frame' = frame /\ published' = published
      /\ sess'[q] = AfterWrite[sess[q]]
    BY FrameToWrite DEF Inv, TypeOK, WriteFrame
<1>2. Undecided(q)'
    BY <1>1 DEF Undecided, Writing, AfterWrite
<1>3. /\ Len(sent'[q]) = Len(s) + 1 /\ Len(s) \in Nat /\ sent'[q][Len(s) + 1] = frame[q]
      /\ \A i \in 1..Len(s) : sent'[q][i] = s[i]
    BY <1>1, AppendFacts
<1>4. frame[q].kind = "AgentEvent" => frame[q].arg <= published
  <2>1. CASE sess[q] = "writing"
    <3>1. frame[q] = AgentEvent(cursor[q] - 1) /\ cursor[q] <= published + 1
        BY <2>1 DEF Inv, SessionInv
    <3>2. frame[q].arg = cursor[q] - 1
        BY <3>1, FrameKinds
    <3> QED BY <3>1, <3>2, PluginStreamAssumption DEF Inv, TypeOK
  <2>2. CASE sess[q] # "writing"
    <3>1. frame[q] \in Errors \cup Closes \cup {BrokerHello}
        BY <1>1, <2>2 DEF Inv, SessionInv, Writing
    <3> QED BY <3>1, FrameKinds
  <2> QED BY <2>1, <2>2
<1>5. ASSUME NEW i \in 2..Len(sent'[q]), sent'[q][i].kind = "AgentEvent"
      PROVE  sent'[q][i].arg <= published
  <2>1. i \in 2..Len(s) \/ i = Len(s) + 1
      BY <1>3
  <2> QED BY <1>3, <1>4, <1>5, <2>1 DEF Genuine
<1> QED BY <1>1, <1>2, <1>5 DEF Genuine

(* Both facts hold in every reachable state.                               *)
THEOREM AlwaysFaithful == Spec => []Faithful
<1>1. Init => Faithful
    BY InitInv, FrameKinds DEF Init, Faithful, Undecided, Genuine
<1>2. Faithful /\ [Next]_vars => Faithful'
  <2> SUFFICES ASSUME Faithful, [Next]_vars, NEW q \in Plugins
               PROVE  Undecided(q)' /\ Genuine(q)'
      BY TypeStep, LocalStep DEF Faithful, Inv
  <2>0. Inv /\ Undecided(q) /\ Genuine(q) /\ published \in Nat /\ TypeOK
      BY PluginStreamAssumption DEF Faithful, Inv, TypeOK
  <2> HIDE DEF Faithful
  <2>1. CASE WriteFrame(q)
      BY <2>0, <2>1, WriteFaithful
  <2>2. CASE ~WriteFrame(q)
    <3>1. published' \in Nat /\ published' >= published
        BY <2>0 DEF Next, vars, Publish, RequestShutdown, AcceptError, ServerShutdown,
           ServerJoined, Accept, SessionStep, Connect, Leave, ClientStep, SendHello,
           HandshakeShutdown, HandshakeTimeout, HandshakeEof, HandshakeReject,
           HandshakeAccept, WriteFrame, WriteFails, StreamShutdown, StreamEvent,
           StreamLagged, EndSession, ReadFrame, ReadEof
    <3>2. sent'[q] = sent[q]
        BY <2>0, <2>2 DEF Next, vars, Publish, RequestShutdown, AcceptError, ServerShutdown,
           ServerJoined, Accept, SessionStep, Connect, Leave, ClientStep, SendHello,
           HandshakeShutdown, HandshakeTimeout, HandshakeEof, HandshakeReject,
           HandshakeAccept, WriteFrame, WriteFails, StreamShutdown, StreamEvent,
           StreamLagged, EndSession, ReadFrame, ReadEof, sessionVars, clientVars, TypeOK
    <3> DEFINE Kept == /\ frame'[q] = frame[q]
                       /\ sess[q] \in {"closing", "ended"} => sess'[q] \in {"closing", "ended"}
    <3>3. Kept \/ frame'[q] \notin Closes \/ sess'[q] \in {"closing", "ended"}
      <4>1. CASE \/ UNCHANGED vars \/ Publish \/ RequestShutdown \/ ServerJoined \/ AcceptError
                 \/ ServerShutdown
          BY <4>1 DEF vars, Publish, RequestShutdown, ServerJoined, AcceptError,
             ServerShutdown, sessionVars
      <4>2. ASSUME NEW p \in Plugins, \/ Accept(p) \/ Connect(p) \/ Leave(p) \/ ClientStep(p)
                                      \/ \E h \in HelloKinds : SendHello(p, h)
            PROVE  Kept
        <5>1. client[p] = "idle" => sess[p] = "idle"
            BY <2>0 DEF Inv, ClientInv
        <5> QED BY <2>0, <4>2, <5>1
                DEF Accept, Connect, Leave, ClientStep, SendHello, ReadFrame, ReadEof,
                    sessionVars, TypeOK
      <4>3. ASSUME NEW p \in Plugins, SessionStep(p), ~WriteFrame(q)
            PROVE  Kept \/ frame'[q] \notin Closes \/ sess'[q] \in {"closing", "ended"}
        <5>1. CASE p = q
          <6>1. CASE HandshakeReject(q)
            <7>1. frame'[q] \in Errors
                BY <2>0, <6>1 DEF HandshakeReject, TypeOK, Errors
            <7> QED BY <7>1, FrameKinds
          <6>2. CASE HandshakeAccept(q) \/ StreamEvent(q)
              BY <2>0, <6>2, FrameKinds DEF HandshakeAccept, StreamEvent, TypeOK
          <6>3. CASE StreamShutdown(q) \/ StreamLagged(q)
              BY <2>0, <6>3 DEF StreamShutdown, StreamLagged, TypeOK
          <6>4. CASE EndSession(q)
              BY <2>0, <6>4 DEF EndSession, TypeOK
          <6> QED BY <4>3, <5>1, <6>1, <6>2, <6>3, <6>4
                  DEF SessionStep, HandshakeShutdown, HandshakeTimeout, HandshakeEof, WriteFails
        <5>2. CASE p # q
            BY <2>0, <4>3, <5>2
            DEF SessionStep, HandshakeShutdown, HandshakeTimeout, HandshakeEof,
                HandshakeReject, HandshakeAccept, WriteFrame, WriteFails, StreamShutdown,
                StreamEvent, StreamLagged, EndSession, TypeOK
        <5> QED BY <5>1, <5>2
      <4> QED BY <2>2, <4>1, <4>2, <4>3 DEF Next
    <3> QED BY <2>0, <3>1, <3>2, <3>3, StillFaithful
  <2> QED BY <2>1, <2>2
<1> QED BY <1>1, <1>2, PTL DEF Spec

(* What Fate says, before and after a step.                                *)
LEMMA FateFacts ==
    ASSUME NEW p \in Plugins
    PROVE  /\ frame[p] = EventStreamTooSlow => Fate(p) = "slow"
           /\ frame[p] = BrokerShutdown => Fate(p) = "shutdown"
           /\ frame[p] \notin Closes => Fate(p) = IF sess[p] = "ended" THEN "cut" ELSE "live"
           /\ frame'[p] = EventStreamTooSlow => Fate(p)' = "slow"
           /\ frame'[p] = BrokerShutdown => Fate(p)' = "shutdown"
           /\ frame'[p] \notin Closes =>
                 Fate(p)' = IF sess'[p] = "ended" THEN "cut" ELSE "live"
BY FrameKinds DEF Fate, Closes

(* A connection whose frames and session do not move looks the same.       *)
LEMMA SameView ==
    ASSUME NEW q \in Plugins, sess'[q] = sess[q], frame'[q] = frame[q],
           sent'[q] = sent[q], nread'[q] = nread[q]
    PROVE  Delivered(q)' = Delivered(q) /\ Fate(q)' = Fate(q)
BY DEF Delivered, EventsRead, Accepted, Fate

(* The steps of the promise, in terms of one connection's view.            *)
Views == <<[p \in Plugins |-> Delivered(p)], [p \in Plugins |-> Fate(p)]>>

(* A step no consumer can see.                                            *)
LEMMA Stutters ==
    ASSUME published' = published, shutdown' = shutdown, from' = from,
           \A q \in Plugins : Delivered(q)' = Delivered(q) /\ Fate(q)' = Fate(q)
    PROVE  [Promise!Next]_(Promise!vars)
<1>1. Views' = Views
    BY DEF Views
<1> QED BY <1>1 DEF Promise!vars, Views

(* The fate of one stream is decided.                                      *)
LEMMA Finishes ==
    ASSUME published' = published, shutdown' = shutdown, from' = from,
           NEW p \in Plugins, NEW why \in {"slow", "shutdown", "cut"},
           \A q \in Plugins : Delivered(q)' = Delivered(q),
           \A q \in Plugins \ {p} : Fate(q)' = Fate(q),
           Fate(p) = "live", Fate(p)' = why,
           why = "slow" => from[p] > 0 /\ published + 1 > from[p] + Len(Delivered(p)) + Capacity,
           why = "shutdown" => from[p] > 0 /\ shutdown
    PROVE  Promise!Next
<1>1. [q \in Plugins |-> Delivered(q)]' = [q \in Plugins |-> Delivered(q)]
    OBVIOUS
<1>2. [q \in Plugins |-> Fate(q)]' = [[q \in Plugins |-> Fate(q)] EXCEPT ![p] = why]
    OBVIOUS
<1>3. Promise!Finish(p, why)
    BY <1>1, <1>2 DEF Promise!Finish, Promise!Upcoming
<1> QED BY <1>3 DEF Promise!Next

(* Several streams are cut at once.                                        *)
LEMMA Cuts ==
    ASSUME published' = published, shutdown' = shutdown, from' = from,
           \A q \in Plugins : Delivered(q)' = Delivered(q),
           \A q \in Plugins : Fate(q)' = Fate(q) \/ (Fate(q) = "live" /\ Fate(q)' = "cut")
    PROVE  Promise!Next
<1> DEFINE f == [q \in Plugins |-> Fate(q)]
           S == {q \in Plugins : Fate(q) = "live" /\ Fate(q)' = "cut"}
<1>1. [q \in Plugins |-> Delivered(q)]' = [q \in Plugins |-> Delivered(q)]
    OBVIOUS
<1>2. f' = [q \in Plugins |-> IF q \in S THEN "cut" ELSE f[q]]
    OBVIOUS
<1>3. S \in SUBSET {q \in Plugins : f[q] = "live"}
    OBVIOUS
<1>4. Promise!Fail
    BY <1>1, <1>2, <1>3, Zenon DEF Promise!Fail
<1> QED BY <1>4 DEF Promise!Next

(* How far a plugin has read its subscription.                             *)
LEMMA ReadSoFar ==
    ASSUME Inv, NEW p \in Plugins
    PROVE  /\ EventsRead(p) \in Nat /\ Len(Delivered(p)) = EventsRead(p)
           /\ Accepted(p) => EventsRead(p) <= Len(sent[p]) - 1
<1>1. Len(sent[p]) \in Nat /\ nread[p] \in Nat /\ nread[p] <= Len(sent[p])
    BY DEF Inv, TypeOK, ClientInv
<1>2. EventsRead(p) \in Nat /\ (Accepted(p) => EventsRead(p) <= Len(sent[p]) - 1)
  <2>1. CASE ~Accepted(p) \/ nread[p] = 0
      BY <1>1, <2>1 DEF EventsRead, Accepted
  <2>2. CASE Accepted(p) /\ nread[p] # 0
    <3>1. sent[p][nread[p]].kind = "BrokerClose" => nread[p] # 1
        BY <2>2, FrameKinds DEF Accepted
    <3> QED BY <1>1, <2>2, <3>1 DEF EventsRead
  <2> QED BY <2>1, <2>2
<1>3. Len(Delivered(p)) = EventsRead(p)
    BY <1>2 DEF Delivered
<1> QED BY <1>2, <1>3

(* Reading a frame delivers the next event of the subscription, or none.   *)
LEMMA ReadRefines ==
    ASSUME Faithful, NEW p \in Plugins, ReadFrame(p)
    PROVE  [Promise!Next]_(Promise!vars)
<1> DEFINE s == sent[p]
           n == nread[p]
<1>1. /\ s \in Seq(Frames) /\ Len(s) \in Nat /\ n \in Nat /\ n < Len(s)
      /\ nread'[p] = n + 1 /\ sent' = sent /\ frame' = frame /\ sess' = sess
      /\ published' = published /\ shutdown' = shutdown /\ from' = from
      /\ from[p] \in Nat /\ published \in Nat
      /\ \A q \in Plugins \ {p} : nread'[q] = nread[q]
    BY PluginStreamAssumption DEF Faithful, Inv, TypeOK, ReadFrame, sessionVars
<1>2. \A q \in Plugins : Fate(q)' = Fate(q)
    BY <1>1 DEF Fate
<1>3. \A q \in Plugins \ {p} : Delivered(q)' = Delivered(q)
    BY <1>1, <1>2, SameView
<1>4. Accepted(p)' = Accepted(p)
    BY <1>1 DEF Accepted
<1>5. CASE EventsRead(p)' = EventsRead(p)
  <2>1. Delivered(p)' = Delivered(p)
      BY <1>1, <1>5 DEF Delivered
  <2> QED BY <1>1, <1>2, <1>3, <2>1, Stutters
<1>6. CASE EventsRead(p)' # EventsRead(p)
  <2>1. Accepted(p)
      BY <1>4, <1>6 DEF EventsRead
  <2>2. n # 0
    <3> SUFFICES ASSUME n = 0 PROVE FALSE
        OBVIOUS
    <3>1. s[1] = BrokerHello /\ s[1].kind # "BrokerClose"
        BY <2>1, FrameKinds DEF Accepted
    <3>2. EventsRead(p)' = 0 /\ EventsRead(p) = 0
        BY <1>1, <1>4, <2>1, <3>1 DEF EventsRead
    <3> QED BY <1>6, <3>2
  <2>3. s[n].kind # "BrokerClose"
    <3>1. CASE n = 1
        BY <2>1, <3>1, FrameKinds DEF Accepted
    <3>2. CASE n > 1
      <4>0. n \in 2..Len(s) /\ n # Len(s) /\ InOrder(p)
          BY <1>1, <2>1, <3>2 DEF Faithful, Inv, SessionInv
      <4>1. s[n] = AgentEvent(from[p] + n - 2)
          BY <4>0 DEF InOrder
      <4> QED BY <4>1, FrameKinds
    <3> QED BY <1>1, <2>2, <3>1, <3>2
  <2>4. EventsRead(p) = n - 1
      BY <2>1, <2>2, <2>3 DEF EventsRead
  <2>5. s[n + 1].kind # "BrokerClose" /\ EventsRead(p)' = n
      BY <1>1, <1>4, <1>6, <2>1, <2>2, <2>4 DEF EventsRead
  <2>6. s[n + 1] = AgentEvent(from[p] + n - 1)
    <3>1. n + 1 \in 2..Len(s) /\ from[p] + (n + 1) - 2 = from[p] + n - 1
        BY <1>1, <2>2
    <3> QED BY <2>1, <2>5, <3>1 DEF Faithful, Inv, SessionInv, InOrder
  <2>7. s[n + 1].arg = from[p] + n - 1 /\ s[n + 1].kind = "AgentEvent"
      BY <2>6, FrameKinds
  <2>8. from[p] + n - 1 <= published /\ from[p] > 0
    <3>1. n + 1 \in 2..Len(sent[p])
        BY <1>1, <2>2
    <3> QED BY <1>1, <2>1, <2>7, <3>1, SMTT(40) DEF Faithful, Inv, SessionInv, Genuine
  <2> DEFINE d == [q \in Plugins |-> Delivered(q)]
             u == from[p] + n - 1
  <2>9. Delivered(p) = [i \in 1..(n - 1) |-> s[i + 1].arg]
        /\ Delivered(p)' = [i \in 1..n |-> s[i + 1].arg]
      BY <1>1, <2>4, <2>5 DEF Delivered
  <2>10. Delivered(p)' = Append(Delivered(p), u)
    <3>1. n - 1 \in Nat /\ (n - 1) + 1 = n
        BY <1>1, <2>2
    <3> QED BY <1>1, <2>7, <2>9, <3>1
  <2>11. Len(Delivered(p)) = n - 1
      BY <1>1, <2>2, <2>9
  <2>12. Promise!Upcoming(p) = u
      BY <1>1, <2>2, <2>11 DEF Promise!Upcoming
  <2>13. d' = [d EXCEPT ![p] = Append(@, u)]
      BY <1>3, <2>10
  <2>14. [q \in Plugins |-> Fate(q)]' = [q \in Plugins |-> Fate(q)]
      BY <1>2
  <2>15. Promise!Deliver(p)
      BY <1>1, <2>8, <2>12, <2>13, <2>14 DEF Promise!Deliver
  <2> QED BY <2>15 DEF Promise!Next
<1> QED BY <1>5, <1>6

(* Writing a frame changes nothing a consumer has; answering a rejected    *)
(* handshake ends its session.                                             *)
LEMMA WriteRefines ==
    ASSUME Faithful, NEW p \in Plugins, WriteFrame(p)
    PROVE  [Promise!Next]_(Promise!vars)
<1> DEFINE s == sent[p]
           n == nread[p]
<1>1. /\ s \in Seq(Frames) /\ frame[p] \in Frames /\ Len(s) \in Nat /\ n \in Nat /\ n <= Len(s)
      /\ sess[p] \in Writing /\ sent'[p] = Append(s, frame[p]) /\ frame' = frame
      /\ sess'[p] = AfterWrite[sess[p]] /\ nread' = nread
      /\ published' = published /\ shutdown' = shutdown /\ from' = from
      /\ \A q \in Plugins \ {p} : sent'[q] = sent[q] /\ sess'[q] = sess[q]
    BY FrameToWrite DEF Faithful, Inv, TypeOK, ClientInv, WriteFrame, clientVars
<1>2. \A q \in Plugins \ {p} : Delivered(q)' = Delivered(q) /\ Fate(q)' = Fate(q)
    BY <1>1, SameView
<1>3. /\ Len(sent'[p]) = Len(s) + 1 /\ \A i \in 1..Len(s) : sent'[p][i] = s[i]
    BY <1>1, AppendFacts
<1>4. Delivered(p)' = Delivered(p)
  <2>1. CASE n = 0
    <3>1. EventsRead(p)' = 0 /\ EventsRead(p) = 0
        BY <1>1, <2>1 DEF EventsRead
    <3> QED BY <3>1 DEF Delivered
  <2>2. CASE n # 0
    <3>1. /\ Accepted(p)' = Accepted(p) /\ sent'[p][n] = s[n]
        BY <1>1, <1>3, <2>2 DEF Accepted
    <3>2. EventsRead(p)' = EventsRead(p) /\ EventsRead(p) \in Nat
          /\ (EventsRead(p) > 0 => EventsRead(p) <= Len(s) - 1)
        BY <1>1, <3>1, ReadSoFar DEF EventsRead, Faithful
    <3>3. \A i \in 1..EventsRead(p) : sent'[p][i + 1] = s[i + 1]
        BY <1>1, <1>3, <3>2
    <3> QED BY <3>2, <3>3 DEF Delivered
  <2> QED BY <2>1, <2>2
<1>5. CASE sess[p] = "rejecting"
  <2>1. frame[p] \notin Closes /\ sess'[p] = "ended"
      BY <1>1, <1>5 DEF Faithful, Undecided, AfterWrite
  <2>2. Fate(p) = "live" /\ Fate(p)' = "cut"
      BY <1>1, <1>5, <2>1, FateFacts
  <2> QED BY <1>1, <1>2, <1>4, <2>2, Finishes
<1>6. CASE sess[p] # "rejecting"
  <2>1. Fate(p)' = Fate(p)
    <3>1. CASE sess[p] = "closing"
        BY <1>1, <3>1, FateFacts DEF Faithful, Inv, SessionInv, Closes
    <3>2. CASE sess[p] \in {"greeting", "writing"}
      <4>1. frame[p] \notin Closes /\ sess'[p] = "streaming"
          BY <1>1, <3>2 DEF Faithful, Undecided, AfterWrite
      <4> QED BY <1>1, <3>2, <4>1, FateFacts
    <3> QED BY <1>1, <1>6, <3>1, <3>2 DEF Writing
  <2> QED BY <1>1, <1>2, <1>4, <2>1, Stutters
<1> QED BY <1>5, <1>6

(* Ending a session cuts the stream unless its fate was already decided.   *)
LEMMA EndRefines ==
    ASSUME Faithful, NEW p \in Plugins, EndSession(p), sess[p] \notin {"idle", "ended"}
    PROVE  [Promise!Next]_(Promise!vars)
<1>1. /\ sess'[p] = "ended" /\ \A q \in Plugins \ {p} : sess'[q] = sess[q]
      /\ UNCHANGED <<published, shutdown, from, frame, sent, nread>>
    BY DEF Faithful, Inv, TypeOK, EndSession, clientVars
<1>2. \A q \in Plugins : Delivered(q)' = Delivered(q)
    BY <1>1 DEF Delivered, EventsRead, Accepted
<1>3. \A q \in Plugins \ {p} : Fate(q)' = Fate(q)
    BY <1>1, SameView
<1>4. CASE frame[p] \in Closes
  <2>1. Fate(p)' = Fate(p)
      BY <1>1, <1>4, FateFacts DEF Closes
  <2> QED BY <1>1, <1>2, <1>3, <2>1, Stutters
<1>5. CASE frame[p] \notin Closes
  <2>1. Fate(p) = "live" /\ Fate(p)' = "cut"
      BY <1>1, <1>5, FateFacts
  <2> QED BY <1>1, <1>2, <1>3, <2>1, Finishes
<1> QED BY <1>4, <1>5

(* The other steps of a session.                                           *)
LEMMA SessionRefines ==
    ASSUME Faithful, NEW p \in Plugins,
           \/ HandshakeReject(p) \/ HandshakeAccept(p)
           \/ StreamShutdown(p) \/ StreamEvent(p) \/ StreamLagged(p)
    PROVE  [Promise!Next]_(Promise!vars)
<1>1. /\ UNCHANGED <<published, shutdown, sent, nread>>
      /\ sess[p] \in {"hello", "streaming"} /\ sess'[p] # "ended"
      /\ \A q \in Plugins \ {p} : sess'[q] = sess[q] /\ frame'[q] = frame[q]
      /\ published \in Nat
    BY PluginStreamAssumption
    DEF Faithful, Inv, TypeOK, HandshakeReject, HandshakeAccept, StreamShutdown, StreamEvent,
        StreamLagged, clientVars
<1>2. \A q \in Plugins : Delivered(q)' = Delivered(q)
    BY <1>1 DEF Delivered, EventsRead, Accepted
<1>3. \A q \in Plugins \ {p} : Fate(q)' = Fate(q)
    BY <1>1, SameView
<1>4. Fate(p) = "live"
    BY <1>1, FateFacts DEF Faithful, Undecided
<1>5. CASE HandshakeReject(p)
  <2>1. frame'[p] \notin Closes /\ from' = from
      BY <1>5, FrameKinds DEF Faithful, Inv, TypeOK, HandshakeReject, Errors
  <2> QED BY <1>1, <1>2, <1>3, <1>4, <2>1, FateFacts, Stutters
<1>6. CASE StreamEvent(p)
  <2>1. frame'[p] \notin Closes /\ from' = from
      BY <1>6, FrameKinds DEF Faithful, Inv, TypeOK, StreamEvent
  <2> QED BY <1>1, <1>2, <1>3, <1>4, <2>1, FateFacts, Stutters
<1>7. CASE HandshakeAccept(p)
  <2>1. frame'[p] \notin Closes /\ from' = [from EXCEPT ![p] = published + 1] /\ from[p] = 0
      BY <1>1, <1>7, FrameKinds DEF Faithful, Inv, TypeOK, SessionInv, HandshakeAccept
  <2>2. \A q \in Plugins : Fate(q)' = Fate(q)
      BY <1>1, <1>3, <1>4, <2>1, FateFacts
  <2>3. Views' = Views
      BY <1>2, <2>2 DEF Views
  <2>4. Promise!Subscribe(p)
      BY <1>1, <1>4, <2>1, <2>3 DEF Promise!Subscribe, Views
  <2> QED BY <2>4 DEF Promise!Next
<1>8. CASE StreamShutdown(p)
  <2>1. frame'[p] = BrokerShutdown /\ from' = from /\ shutdown /\ from[p] > 0
      BY <1>8 DEF Faithful, Inv, TypeOK, SessionInv, StreamShutdown
  <2> QED BY <1>1, <1>2, <1>3, <1>4, <2>1, FateFacts, Finishes
<1>9. CASE StreamLagged(p)
  <2>1. /\ frame'[p] = EventStreamTooSlow /\ from' = from /\ from[p] > 0 /\ from[p] \in Nat
        /\ Accepted(p) /\ cursor[p] = from[p] + Len(sent[p]) - 1
        /\ published + 1 > cursor[p] + Capacity
      BY <1>9 DEF Faithful, Inv, TypeOK, SessionInv, StreamLagged, Lagged
  <2>2. /\ Len(Delivered(p)) \in Nat /\ Len(Delivered(p)) <= Len(sent[p]) - 1
        /\ Len(sent[p]) \in Nat
      BY <2>1, ReadSoFar DEF Faithful, Inv, TypeOK
  <2>3. published + 1 > from[p] + Len(Delivered(p)) + Capacity
      BY <1>1, <2>1, <2>2, PluginStreamAssumption, SMTT(40)
  <2> QED BY <1>1, <1>2, <1>3, <1>4, <2>1, <2>3, FateFacts, Finishes
<1> QED BY <1>5, <1>6, <1>7, <1>8, <1>9

(* The server's own steps cut the streams it takes with it.                *)
LEMMA ServerRefines ==
    ASSUME Faithful, AcceptError \/ ServerShutdown
    PROVE  [Promise!Next]_(Promise!vars)
<1>1. /\ UNCHANGED <<published, shutdown, from, frame, sent, nread>>
      /\ \A q \in Plugins :
            sess'[q] = sess[q] \/ (sess[q] \notin {"idle"} /\ sess'[q] = "ended")
    BY DEF AcceptError, ServerShutdown, clientVars
<1>2. \A q \in Plugins : Delivered(q)' = Delivered(q)
    BY <1>1 DEF Delivered, EventsRead, Accepted
<1>3. ASSUME NEW q \in Plugins
      PROVE  Fate(q)' = Fate(q) \/ (Fate(q) = "live" /\ Fate(q)' = "cut")
  <2>1. CASE frame[q] \in Closes
      BY <1>1, <2>1, FateFacts DEF Closes
  <2>2. CASE frame[q] \notin Closes
      BY <1>1, <2>2, FateFacts
  <2> QED BY <2>1, <2>2
<1> QED BY <1>1, <1>2, <1>3, Cuts

(* Sessions, frames and transports implement the promised event stream.    *)
THEOREM Refinement == Spec => ImplementsEventStream
<1>1. Init => Promise!Init
  <2> SUFFICES ASSUME Init PROVE Promise!Init
      OBVIOUS
  <2>1. ASSUME NEW p \in Plugins PROVE Delivered(p) = <<>> /\ Fate(p) = "live"
    <3>1. EventsRead(p) = 0
        BY DEF Init, EventsRead
    <3>2. frame[p] \notin Closes /\ sess[p] = "idle"
        BY FrameKinds DEF Init
    <3> QED BY <3>1, <3>2, FateFacts DEF Delivered
  <2> QED BY <2>1 DEF Init, Promise!Init
<1>2. Faithful /\ [Next]_vars => [Promise!Next]_(Promise!vars)
  <2> SUFFICES ASSUME Faithful, [Next]_vars PROVE [Promise!Next]_(Promise!vars)
      OBVIOUS
  <2>1. CASE UNCHANGED <<published, shutdown, from, sess, frame, sent, nread>>
      BY <2>1, SameView, Stutters
  <2>2. CASE Publish
    <3>1. Views' = Views
        BY <2>2, SameView DEF Publish, sessionVars, clientVars, Views
    <3> QED BY <2>2, <3>1 DEF Publish, sessionVars, Promise!Publish, Promise!Next, Views
  <2>3. CASE RequestShutdown
    <3>1. Views' = Views
        BY <2>3, SameView DEF RequestShutdown, sessionVars, clientVars, Views
    <3> QED BY <2>3, <3>1 DEF RequestShutdown, sessionVars, Promise!Stop, Promise!Next, Views
  <2>4. ASSUME NEW p \in Plugins, Accept(p) \/ Connect(p)
        PROVE  [Promise!Next]_(Promise!vars)
    <3>1. /\ UNCHANGED <<published, shutdown, from, frame, sent, nread>>
          /\ sess[p] # "ended" /\ sess'[p] # "ended"
          /\ sess[p] # "closing"
          /\ \A q \in Plugins \ {p} : sess'[q] = sess[q]
        BY <2>4 DEF Accept, Connect, clientVars, Faithful, Inv, TypeOK, ClientInv
    <3>2. Fate(p)' = Fate(p)
        BY <3>1, FateFacts DEF Faithful, Undecided
    <3>3. Delivered(p)' = Delivered(p)
        BY <3>1 DEF Delivered, EventsRead, Accepted
    <3> QED BY <3>1, <3>2, <3>3, SameView, Stutters
  <2>5. ASSUME NEW p \in Plugins, SessionStep(p) PROVE [Promise!Next]_(Promise!vars)
      BY <2>5, WriteRefines, EndRefines, SessionRefines
      DEF SessionStep, HandshakeShutdown, HandshakeTimeout, HandshakeEof, WriteFails, Writing
  <2>6. ASSUME NEW p \in Plugins, ReadFrame(p) PROVE [Promise!Next]_(Promise!vars)
      BY <2>6, ReadRefines
  <2> QED BY <2>1, <2>2, <2>3, <2>4, <2>5, <2>6, ServerRefines
          DEF Next, vars, ServerJoined, Leave, SendHello, ClientStep, ReadEof, sessionVars,
              clientVars
<1> QED BY <1>1, <1>2, AlwaysFaithful, PTL DEF Spec, ImplementsEventStream, Promise!Spec
=============================================================================
