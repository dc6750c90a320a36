----------------------------- MODULE FramedFlow -----------------------------
(***************************************************************************)
(* FramedFlowIo: the byte stream of one macOS flow, carried as ABY1 frames *)
(* over a Unix socket.  The reader turns frames into client bytes, one     *)
(* socket read at a time; the writer turns writes into frames, one socket  *)
(* write at a time, and ends its direction with a close frame.             *)
(*                                                                         *)
(* The socket is counted in units: HeaderLen of them for a header, one for *)
(* each payload byte.  Byte k of frame i is <<i, k>>.  A frame whose       *)
(* header does not decode (magic, type, direction, length) is Invalid; a   *)
(* close frame says in `names` which flow its payload names.               *)
(***************************************************************************)
EXTENDS Naturals, Sequences, SequencesExt, FiniteSetsExt

CONSTANTS
    Scripts,        \* frames a client may send after FlowOpen, in order
    Plans,          \* sizes of the writes the pipeline may make, in order
    ThisFlow,       \* flow id of the FlowOpen frame
    HeaderLen,      \* FRAME_HEADER_LEN
    WriteCap,       \* WRITE_FRAME_PAYLOAD_CAP
    ReadBuffer      \* room in the caller's read buffer

ASSUME FramedFlowAssumption ==
    /\ HeaderLen \in Nat \ {0}
    /\ WriteCap \in Nat \ {0}
    /\ ReadBuffer \in Nat \ {0}
    /\ \A p \in Plans : p \in Seq(Nat)
    /\ \A s \in Scripts :
        /\ s \in Seq(Range(s))
        /\ \A f \in Range(s) : /\ f.type \in {"Open", "Data", "Close", "Invalid"} /\ f.len \in Nat
                               /\ f.direction \in {"None", "ClientToBroker", "BrokerToClient"}

VARIABLES
    script,     \* the frames the client sends
    plan,       \* the writes still to be made
    arrived,    \* units the client has put on the socket
    hungUp,     \* the client has closed its end
    reader,     \* FrameReadState
    input,      \* "open", "closed" (client_input_closed) or "error"
    delivered,  \* client bytes handed to the pipeline
    writer,     \* FrameWriteState
    output,     \* what the writing caller sees
    wire,       \* frames completely written to the client
    sent,       \* units written to the client
    accepted    \* bytes reported as written

readVars == <<script, arrived, hungUp, reader, input, delivered>>
writeVars == <<plan, writer, output, wire, sent, accepted>>
framedVars == <<readVars, writeVars>>

FlowFrameType == {"Open", "Data", "Close", "Invalid"}
FlowFrameDirection == {"None", "ClientToBroker", "BrokerToClient"}

FlowFrame(type, direction, flow, len, names) ==
    [type |-> type, direction |-> direction, flow |-> flow, len |-> len, names |-> names]

\* Units of the first n frames.
UnitsTo(s, n) ==
    LET size == [i \in 1..n |-> HeaderLen + s[i].len]
        to[i \in 0..n] == IF i = 0 THEN 0 ELSE to[i - 1] + size[i]
    IN  to[n]
Units(s) == UnitsTo(s, Len(s))

\* FrameReadState::new: `frame` counts the frames read, `left` the bytes of
\* that frame still in ready_payload.
NewReader == [frame |-> 0, header |-> 0, payload |-> 0, left |-> 0]
NewWriter == [pending |-> 0, close |-> FALSE, offset |-> 0, consumed |-> 0, shutdown |-> FALSE]

FramedInit ==
    /\ script \in Scripts /\ plan \in Plans
    /\ arrived = 0 /\ hungUp = FALSE
    /\ reader = NewReader /\ input = "open" /\ delivered = <<>>
    /\ writer = NewWriter /\ output = "idle" /\ wire = <<>> /\ sent = 0 /\ accepted = 0

\* Units of the socket the reader has consumed, and the frame it is in.
Taken == UnitsTo(script, reader.frame) + reader.header + reader.payload
Available == arrived - Taken
Current == script[reader.frame + 1]
Reading == input = "open" /\ reader.left = 0
InHeader == reader.header < HeaderLen
ReadPayload(n) == reader' = [reader EXCEPT !.payload = @ + n]
EndInput(how) == input' = how /\ UNCHANGED <<script, arrived, hungUp, delivered, writeVars>>
Progress == UNCHANGED <<script, arrived, hungUp, input, delivered, writeVars>>

\* The client writes to the socket and may close it anywhere.
Arrive(n) ==
    /\ ~hungUp /\ n \in 1..(Units(script) - arrived)
    /\ arrived' = arrived + n
    /\ UNCHANGED <<script, hungUp, reader, input, delivered, writeVars>>
HangUp ==
    /\ ~hungUp /\ hungUp' = TRUE
    /\ UNCHANGED <<script, arrived, reader, input, delivered, writeVars>>

poll_read_header(n) ==
    /\ Reading /\ InHeader
    /\ \/ /\ n \in 1..Min({HeaderLen - reader.header, Available})
          /\ reader' = [reader EXCEPT !.header = @ + n]
          /\ Progress
       \/ /\ n = 0 /\ hungUp /\ Available = 0
          /\ EndInput(IF reader.header = 0 THEN "closed" ELSE "error")
          /\ UNCHANGED reader

\* payload_len is decoded from the header before any payload byte is read.
BadHeader ==
    /\ Reading /\ ~InHeader /\ Current.type = "Invalid"
    /\ EndInput("error") /\ UNCHANGED reader

poll_read_payload(n) ==
    /\ Reading /\ ~InHeader /\ Current.type # "Invalid"
    /\ reader.payload < Current.len
    /\ \/ /\ n \in 1..Min({Current.len - reader.payload, Available})
          /\ ReadPayload(n) /\ Progress
       \/ /\ n = 0 /\ hungUp /\ Available = 0
          /\ EndInput("error") /\ UNCHANGED reader

\* A data frame becomes the ready payload, even an empty one, which the read
\* loop steps over; a close frame ends the input; anything else is refused.
Dispatch(f) ==
    IF f.flow # ThisFlow \/ f.direction # "ClientToBroker" THEN "error"
    ELSE IF f.type = "Data" THEN "open"
    ELSE IF f.type = "Close" /\ f.names = ThisFlow THEN "closed"
    ELSE "error"

poll_next_client_frame ==
    /\ Reading /\ ~InHeader /\ Current.type # "Invalid"
    /\ reader.payload = Current.len
    /\ reader' = [NewReader EXCEPT !.frame = reader.frame + 1,
                                   !.left = IF Dispatch(Current) = "open" THEN Current.len ELSE 0]
    /\ EndInput(Dispatch(Current))

(* Mutant: copies the ready bytes once only. *)
CopyReadyOnce ==
    /\ reader.left > 0
    /\ LET n == Min({reader.left, ReadBuffer})
           from == script[reader.frame].len - reader.left
       IN delivered' = delivered \o [k \in 1..n |-> <<reader.frame, from + k>>]
    /\ reader' = [reader EXCEPT !.left = 0]
    /\ UNCHANGED <<script, arrived, hungUp, input, writeVars>>
copy_ready_payload ==
    /\ reader.left > 0
    /\ LET n == Min({reader.left, ReadBuffer})
           from == script[reader.frame].len - reader.left
       IN /\ delivered' = delivered \o [k \in 1..n |-> <<reader.frame, from + k>>]
          /\ reader' = [reader EXCEPT !.left = @ - n]
    /\ UNCHANGED <<script, arrived, hungUp, input, writeVars>>

Busy == writer.pending > 0
Queue(len, close) ==
    writer' = [writer EXCEPT !.pending = HeaderLen + len, !.close = close, !.offset = 0,
                             !.consumed = len]

\* poll_write: one frame of at most WriteCap bytes of the caller's buffer; a
\* caller that was told Pending comes back with the same buffer.
poll_write ==
    /\ output = "idle" /\ plan # <<>> /\ ~writer.shutdown
    /\ Queue(Min({Head(plan), WriteCap}), FALSE)
    /\ output' = "writing"
    /\ UNCHANGED <<readVars, plan, wire, sent, accepted>>

\* One socket write of poll_drain; the last one completes the frame.
Written(n) ==
    /\ wire' = Append(wire, [len |-> n, close |-> writer.close])
    /\ accepted' = accepted + n
poll_drain(n) ==
    /\ Busy /\ output \in {"writing", "closing"}
    /\ n \in 1..(writer.pending - writer.offset)
    /\ sent' = sent + n
    /\ IF writer.offset + n < writer.pending
       THEN /\ writer' = [writer EXCEPT !.offset = @ + n]
            /\ UNCHANGED <<plan, wire, accepted, output>>
       ELSE /\ writer' = [writer EXCEPT !.pending = 0, !.offset = 0, !.consumed = 0]
            /\ Written(writer.consumed)
            /\ output' = IF writer.close THEN "shut" ELSE "idle"
            /\ plan' = IF writer.close THEN plan
                       ELSE IF Head(plan) = writer.consumed THEN Tail(plan)
                       ELSE <<Head(plan) - writer.consumed>> \o Tail(plan)
    /\ UNCHANGED readVars
WriteFails ==
    /\ output \in {"writing", "closing"} /\ hungUp /\ output' = "error"
    /\ UNCHANGED <<readVars, plan, writer, wire, sent, accepted>>

\* The pipeline drops a write that was Pending: the frame stays half written.
Abandon ==
    /\ output = "writing" /\ output' = "abandoned"
    /\ UNCHANGED <<readVars, plan, writer, wire, sent, accepted>>

\* poll_shutdown queues the close frame once; behind a frame that is still
\* pending queue_frame refuses it and the shutdown fails.
poll_shutdown ==
    /\ output \in {"idle", "abandoned"} /\ ~writer.shutdown
    /\ IF Busy
       THEN output' = "error" /\ UNCHANGED writer
       ELSE /\ writer' = [writer EXCEPT !.pending = HeaderLen, !.close = TRUE,
                                        !.offset = 0, !.shutdown = TRUE]
            /\ output' = "closing"
    /\ UNCHANGED <<readVars, plan, wire, sent, accepted>>

FramedRead ==
    \/ \E n \in 0..HeaderLen : poll_read_header(n)
    \/ BadHeader
    \/ \E n \in 0..Units(script) : poll_read_payload(n)
    \/ poll_next_client_frame
    \/ copy_ready_payload
FramedNext ==
    \/ \E n \in 1..Units(script) : Arrive(n)
    \/ HangUp \/ FramedRead
    \/ poll_write \/ WriteFails \/ Abandon \/ poll_shutdown
    \/ \E n \in 1..(HeaderLen + WriteCap) : poll_drain(n)

\* Reader offsets stay inside the frame they count, and nothing is consumed
\* before it arrived.
FramedTypeOK ==
    /\ input \in {"open", "closed", "error"}
    /\ output \in {"idle", "writing", "closing", "shut", "abandoned", "error"}
    /\ reader.frame \in 0..Len(script) /\ reader.header \in 0..HeaderLen
    /\ arrived \in 0..Units(script) /\ Taken \in 0..arrived
    /\ writer.offset \in 0..writer.pending
    /\ \A i \in 1..Len(script) : script[i].type \in FlowFrameType /\ script[i].direction \in FlowFrameDirection

\* Bytes of the data frames among the first n of s, in order.
DataTo(s, n) ==
    FlattenSeq([i \in 1..n |-> [k \in 1..(IF Dispatch(s[i]) = "open" THEN s[i].len ELSE 0) |-> <<i, k>>]])

\* However the socket cuts the frames and however small the caller's buffer
\* is, every byte of the data frames read so far reaches the pipeline once
\* and in order, or is still in ready_payload.
FramedBytesOnce ==
    delivered \o [k \in 1..reader.left |-> <<reader.frame, script[reader.frame].len - reader.left + k>>]
        = DataTo(script, reader.frame)

\* A read of no bytes is the end of the stream to the pipeline: it is
\* reported only after a close frame that names this flow or a socket closed
\* between two frames, never for a cut frame or an empty data frame.
FramedEndGenuine ==
    input = "closed" =>
        \/ reader.frame > 0 /\ script[reader.frame].type = "Close"
                            /\ Dispatch(script[reader.frame]) = "closed"
        \/ hungUp /\ arrived = UnitsTo(script, reader.frame)

\* What the client receives is whole frames and at most one frame in
\* progress; the close frame is the last one, and a shutdown that succeeded
\* has sent it.
FramedOutputWhole ==
    /\ sent = Units(wire) + writer.offset
    /\ \A i \in 1..Len(wire) : wire[i].close => i = Len(wire)
    /\ output = "shut" => wire # <<>> /\ Last(wire).close

\* What the pipeline may rely on of the framed protocol: the bytes, the end
\* and the output are the client's, whole and in order, however they were cut.
FramedFaithful == FramedTypeOK /\ FramedBytesOnce /\ FramedEndGenuine /\ FramedOutputWhole

=============================================================================
