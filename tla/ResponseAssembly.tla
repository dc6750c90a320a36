-------------------------- MODULE ResponseAssembly --------------------------
(* How a model's answer is put together from the documents it was streamed   *)
(* in: the Responses, Chat Completions and Anthropic assemblers.  An answer  *)
(* has two items (output items, choices or content blocks) whose documents   *)
(* interleave; fragments of text are opaque, a text is a sequence of them.   *)
(* A document may be lost to the observer (not JSON, over the limits, or cut *)
(* off with the captured body), which the decoder reports as incomplete.     *)
EXTENDS Integers, Sequences, FiniteSets, SequencesExt

Items == {0, 1}
Kinds == {"message", "reasoning", "call"}
NoText == <<>>

VARIABLES
    wire,      \* which assembler reads the answer
    truth,     \* what the model says: kind and parts of each item
    style,     \* which documents the provider sends besides the fragments
    sent,      \* per item, how much of its script has been sent
    slots,     \* the assembler's map from index to what it has read
    decoded,   \* some document was read
    garbled,   \* some document was not JSON
    cut,       \* the captured body was truncated
    lost,      \* items one of whose documents was lost (history)
    settled,   \* items whose authoritative document was read last (history)
    closed     \* the answer ended
asmVars == <<wire, truth, style, sent, slots, decoded, garbled, cut, lost, settled, closed>>

-----------------------------------------------------------------------------
(* The accumulators.                                                         *)

\* An index whose slot has not been created is not in the map's domain.
EmptySlot(kind) == [kind |-> kind, parts |-> <<>>, input |-> NoText, streamed |-> NoText]
Put(s, i, slot) == [j \in DOMAIN s \cup {i} |-> IF j = i THEN slot ELSE s[j]]
EntryOr(s, i, slot) == IF i \in DOMAIN s THEN s[i] ELSE slot

\* Mutant: the authoritative text is appended to what was streamed.
ReconcileAppends(text, authoritative) == text \o authoritative
\* The authoritative text extends or replaces what was streamed.
reconcile(text, authoritative) ==
    IF authoritative = NoText THEN text
    ELSE IF IsPrefix(text, authoritative)
         THEN text \o SubSeq(authoritative, Len(text) + 1, Len(authoritative))
         ELSE authoritative

\* Messages and reasoning hold texts by part index; a tool call holds none.
HoldsText(slot) == slot.kind \in {"message", "reasoning", "choice"}
PartText(slot, p) == IF p \in DOMAIN slot.parts THEN slot.parts[p] ELSE NoText
WithPart(slot, p, text) ==
    IF HoldsText(slot) THEN [slot EXCEPT !.parts = Put(@, p, text)] ELSE slot
ReconcilePart(slot, p, text) ==
    IF text = NoText THEN slot ELSE WithPart(slot, p, reconcile(PartText(slot, p), text))

\* Every part of a whole item is reconciled with the part of its index.
ReconcileParts(slot, parts) ==
    FoldLeft(LAMBDA acc, p : ReconcilePart(acc, p, parts[p]), slot, [p \in 1 .. Len(parts) |-> p])

(* Responses ---------------------------------------------------------------*)
\* A whole item decides what its slot is; what a slot of another kind held is
\* dropped.  A call keeps its streamed input beside the authoritative one.
reconcile_call(slot, input) == [slot EXCEPT !.input = IF input = NoText THEN @ ELSE input]
reconcile_item(slot, item) ==
    LET body == IF slot.kind = item.kind THEN slot ELSE EmptySlot(item.kind)
    IN  IF item.kind = "call" THEN reconcile_call(body, item.parts[1])
        ELSE ReconcileParts(body, item.parts)
reconcile_output_item(s, i, item) ==
    Put(s, i, reconcile_item(EntryOr(s, i, EmptySlot("message")), item))
apply_output(s, output) ==
    FoldLeft(LAMBDA acc, i : reconcile_output_item(acc, i, output[i]), s, SetToSortSeq(Items, <))

apply_event(s, d) ==
    LET slot == EntryOr(s, d.index, EmptySlot(d.kind))
    IN  CASE d.type = "delta" /\ d.kind # "call" ->
                 Put(s, d.index, WithPart(slot, d.part, PartText(slot, d.part) \o d.text))
          [] d.type = "delta" /\ d.kind = "call" ->
                 Put(s, d.index, IF slot.kind = "call" THEN [slot EXCEPT !.streamed = @ \o d.text] ELSE slot)
          [] d.type = "done" -> Put(s, d.index, ReconcilePart(slot, d.part, d.text))
          [] d.type \in {"opened", "item"} -> reconcile_output_item(s, d.index, d.item)
          [] d.type = "completed" -> apply_output(s, d.output)
          [] OTHER -> s

(* Chat Completions --------------------------------------------------------*)
\* A choice holds reasoning, content and calls side by side.
ChatSlot == [kind |-> "choice", parts |-> <<>>, reasoning |-> NoText, input |-> NoText, streamed |-> NoText]
ToolDelta(choice, text) == [choice EXCEPT !.streamed = @ \o text]
apply_delta(choice, d) ==
    CASE d.kind = "reasoning" -> [choice EXCEPT !.reasoning = @ \o d.text]
      [] d.kind = "message" ->
             IF d.text = NoText THEN choice ELSE WithPart(choice, 1, PartText(choice, 1) \o d.text)
      [] OTHER -> ToolDelta(choice, d.text)
\* A whole message replaces the streamed calls.
ToolReconcile(choice, input) == [choice EXCEPT !.input = input, !.streamed = NoText]
ReconcileChoice(choice, item) ==
    CASE item.kind = "reasoning" -> [choice EXCEPT !.reasoning = reconcile(@, item.parts[1])]
      [] item.kind = "message" -> ReconcileParts(choice, item.parts)
      [] OTHER -> ToolReconcile(choice, item.parts[1])
ChatApply(s, d) ==
    LET choice == EntryOr(s, d.index, ChatSlot)
    IN  CASE d.type = "item" -> Put(s, d.index, ReconcileChoice(choice, d.item))
          [] d.type \in {"opened", "delta"} -> Put(s, d.index, apply_delta(choice, d))
          [] OTHER -> s

(* Anthropic ---------------------------------------------------------------*)
\* A fragment extends the block of its index when their kinds agree, and
\* opens one when there is none.
push_delta(s, d) ==
    IF d.index \notin DOMAIN s
    THEN Put(s, d.index, IF d.kind = "call"
                         THEN [EmptySlot("call") EXCEPT !.streamed = d.text]
                         ELSE [EmptySlot(d.kind) EXCEPT !.parts = Put(<<>>, 1, d.text)])
    ELSE LET block == s[d.index]
         IN  IF block.kind # d.kind THEN s
             ELSE Put(s, d.index, IF d.kind = "call"
                                  THEN [block EXCEPT !.streamed = @ \o d.text]
                                  ELSE [block EXCEPT !.parts = Put(@, 1, PartText(block, 1) \o d.text)])
\* A block opens with what it holds so far: a call with the input `{}`.
from_value(item) ==
    IF item.kind = "call" THEN [EmptySlot("call") EXCEPT !.input = item.parts[1]]
    ELSE [EmptySlot(item.kind) EXCEPT !.parts = Put(<<>>, 1, item.parts[1])]
AnthropicApply(s, d) ==
    CASE d.type = "opened" -> Put(s, d.index, from_value(d.item))
      [] d.type = "delta" -> push_delta(s, d)
      [] OTHER -> s

-----------------------------------------------------------------------------
(* What an assembled slot says.                                              *)

Texts(slot) == [n \in 1 .. Cardinality(DOMAIN slot.parts) |->
                   slot.parts[SetToSortSeq(DOMAIN slot.parts, <)[n]]]
\* The authoritative input of a call wins over the streamed one, except that
\* an Anthropic block's streamed input wins over the input it opened with.
CallInput(slot) ==
    IF wire = "anthropic"
    THEN IF slot.streamed = NoText THEN slot.input ELSE slot.streamed
    ELSE IF slot.input = NoText THEN slot.streamed ELSE slot.input
\* Reasoning is one entry, its parts joined; a message has an entry per part.
entries(slot) ==
    CASE slot.kind = "message" -> [n \in DOMAIN Texts(slot) |-> <<"message", Texts(slot)[n]>>]
      [] slot.kind = "reasoning" -> <<<<"reasoning", FlattenSeq(Texts(slot))>>>>
      [] slot.kind = "call" -> <<<<"call", CallInput(slot)>>>>
      [] OTHER ->
             (IF slot.reasoning = NoText THEN <<>> ELSE <<<<"reasoning", slot.reasoning>>>>)
             \o [n \in DOMAIN Texts(slot) |-> <<"message", Texts(slot)[n]>>]
             \o (IF CallInput(slot) = NoText THEN <<>> ELSE <<<<"call", CallInput(slot)>>>>)
AssembledEntries ==
    FlattenSeq([n \in 1 .. Cardinality(DOMAIN slots) |-> entries(slots[SetToSortSeq(DOMAIN slots, <)[n]])])
completeness(readable, truncated) ==
    IF truncated THEN "partial" ELSE IF readable THEN "complete" ELSE "unsupported"
\* A body none of which is JSON is not an answer in a known format.
Incomplete == cut \/ (decoded /\ garbled)
Completeness == completeness(decoded, Incomplete)

-----------------------------------------------------------------------------
(* The provider: an item opens, its fragments follow part by part, and, in   *)
(* the styles that have them, authoritative documents repeat what was said.  *)

Opening(i) ==
    [type |-> "opened", index |-> i, kind |-> truth[i].kind, part |-> 1, text |-> NoText,
     item |-> [truth[i] EXCEPT !.parts = IF wire = "anthropic" /\ truth[i].kind = "call" THEN <<<<"{}">>>> ELSE [p \in DOMAIN @ |-> NoText]]]
Fragments(i, p) ==
    [n \in 1 .. Len(truth[i].parts[p]) |->
        [type |-> "delta", index |-> i, kind |-> truth[i].kind, part |-> p, text |-> <<truth[i].parts[p][n]>>]]
PartDone(i, p) ==
    IF wire = "responses" /\ style = "repeats" /\ truth[i].kind # "call"
    THEN <<[type |-> "done", index |-> i, kind |-> truth[i].kind, part |-> p, text |-> truth[i].parts[p]]>>
    ELSE <<>>
ItemDone(i) ==
    IF wire # "anthropic" /\ style = "repeats"
    THEN <<[type |-> "item", index |-> i, kind |-> truth[i].kind, item |-> truth[i]]>>
    ELSE <<>>
Script(i) ==
    IF style = "document" THEN <<>>
    ELSE <<Opening(i)>>
         \o FlattenSeq([p \in 1 .. Len(truth[i].parts) |-> Fragments(i, p) \o PartDone(i, p)])
         \o ItemDone(i)

Apply(s, d) ==
    CASE wire = "responses" -> apply_event(s, d)
      [] wire = "chat" -> ChatApply(s, d)
      [] OTHER -> AnthropicApply(s, d)

Shapes == {[kind |-> k, parts |-> <<<<"a", "b">>>>] : k \in Kinds}
          \cup {[kind |-> k, parts |-> <<<<"a">>, <<"b">>>>] : k \in {"message", "reasoning"}}
AsmInit ==
    /\ wire \in {"responses", "chat", "anthropic"}
    /\ style \in {"plain", "repeats", "document"}
    /\ truth \in [Items -> Shapes]
    /\ wire # "responses" => \A i \in Items : Len(truth[i].parts) = 1
    /\ sent = [i \in Items |-> 0]
    /\ slots = <<>>
    /\ decoded = FALSE /\ garbled = FALSE /\ cut = FALSE
    /\ lost = {} /\ settled = {}
    /\ closed = FALSE

Authoritative(d) == d.type = "item"
\* The next document of an item is read.
ReadDocument(i) ==
    /\ ~closed /\ sent[i] < Len(Script(i))
    /\ LET d == Script(i)[sent[i] + 1]
       IN  /\ slots' = Apply(slots, d)
           /\ settled' = IF Authoritative(d) THEN settled \cup {i} ELSE settled \ {i}
    /\ sent' = [sent EXCEPT ![i] = @ + 1]
    /\ decoded' = TRUE
    /\ UNCHANGED <<wire, truth, style, garbled, cut, lost, closed>>
\* It is not JSON.
LoseDocument(i) ==
    /\ ~closed /\ sent[i] < Len(Script(i))
    /\ garbled' = TRUE
    /\ lost' = lost \cup {i}
    /\ sent' = [sent EXCEPT ![i] = @ + 1]
    /\ UNCHANGED <<wire, truth, style, slots, decoded, cut, settled, closed>>
\* An answer that was not streamed is one document.
WholeDocument ==
    CASE wire = "responses" -> apply_output(<<>>, truth)
      [] wire = "chat" -> [i \in Items |-> ReconcileChoice(ChatSlot, truth[i])]
      [] OTHER -> [i \in Items |-> from_value(truth[i])]
\* The answer ends: the Responses API may close with the whole output.
Finish(whole) ==
    /\ ~closed /\ \A i \in Items : sent[i] = Len(Script(i))
    /\ whole = (style = "document") \/ (whole /\ wire = "responses")
    /\ slots' = IF style = "document" THEN WholeDocument
                ELSE IF whole THEN apply_event(slots, [type |-> "completed", index |-> 0, kind |-> "message", output |-> truth])
                ELSE slots
    /\ decoded' = (decoded \/ whole)
    /\ settled' = IF whole THEN Items ELSE settled
    /\ closed' = TRUE
    /\ UNCHANGED <<wire, truth, style, sent, garbled, cut, lost>>
\* The captured body ends early.
Truncate ==
    /\ ~closed
    /\ style = "document" \/ \E i \in Items : sent[i] < Len(Script(i))
    /\ cut' = TRUE
    /\ lost' = IF style = "document" THEN Items
               ELSE lost \cup {i \in Items : sent[i] < Len(Script(i))}
    /\ closed' = TRUE
    /\ UNCHANGED <<wire, truth, style, sent, slots, decoded, garbled, settled>>
AsmNext ==
    \/ \E i \in Items : ReadDocument(i) \/ LoseDocument(i)
    \/ \E whole \in BOOLEAN : Finish(whole)
    \/ Truncate

-----------------------------------------------------------------------------
(* Properties.                                                               *)

\* What a reader of item i is told when nothing of it was missed.
Said(i) ==
    CASE truth[i].kind = "message" -> [n \in DOMAIN truth[i].parts |-> <<"message", truth[i].parts[n]>>]
      [] OTHER -> <<<<truth[i].kind, FlattenSeq(truth[i].parts)>>>>
\* The interleaving of the items' documents, the repetition of texts that
\* were already streamed, and whether the provider repeats them at all do not
\* show in the assembled answer: an item nothing of which was lost, or whose
\* authoritative document came last, is told exactly as the model said it.
ItemsExact ==
    closed => \A i \in Items : (i \notin lost \/ i \in settled) =>
                  i \in DOMAIN slots /\ entries(slots[i]) = Said(i)
\* Item order is the answer's order, whatever order the documents came in.
OrderExact ==
    closed /\ lost = {} => AssembledEntries = Said(0) \o Said(1)
\* While nothing was lost an open answer never says more than the model did.
NothingInvented ==
    lost = {} => \A i \in DOMAIN slots : \A n \in DOMAIN entries(slots[i]) :
        LET e == entries(slots[i])[n]
        IN  /\ n \in DOMAIN Said(i) => IsPrefix(e[2], Said(i)[n][2]) \/ e = <<"call", <<"{}">>>>
            /\ n \in DOMAIN Said(i)
\* An answer with a gap is never marked complete (responses/response.rs,
\* chat_completions/response.rs and shared/conversation.rs, assemble).
GapsMarked == closed /\ lost # {} => Completeness # "complete"

(* A model's answer is told as it was given, or marked partial.              *)
AnswerFaithful == ItemsExact /\ OrderExact /\ NothingInvented /\ GapsMarked
=============================================================================
