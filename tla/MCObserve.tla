----------------------------- MODULE MCObserve ------------------------------
(* What the agent hook makes of the traffic it is shown.  A behaviour        *)
(* exercises one part; the others rest in one initial state.                 *)
EXTENDS AgentTurns, ResponseAssembly, EventNormalizer, UploadContext, AgentAttribution,
    RequestReading, TLC

VARIABLE part
vars == <<part, turnVars, asmVars, eventVars, uploadVars, attrVars, readVars>>
AnyFlow == Permutations(Flows)
MCNamedFiles == {<<f, g>> : f, g \in Files}
MCInlineSizes == {<<>>, <<0, 1>>}

On == [enabled |-> TRUE, content |-> Unset, processes |-> {}]
MCHookPolicies ==
    {p \in {[on |-> on, content |-> "common", harnesses |-> hs] :
               on \in BOOLEAN,
               hs \in {<<>>,
                       [h \in {"hermes"} |-> [On EXCEPT !.enabled = FALSE]],
                       [h \in {"codex", "claude-code"} |-> [On EXCEPT !.content = h]],
                       [h \in {"tool"} |-> [On EXCEPT !.content = h, !.processes = {"tool", "codex"}]],
                       [h \in {"tool", "suite"} |-> [On EXCEPT !.processes = {"tool", IF h = "suite" THEN "codex" ELSE "tool"}]],
                       [h \in {"tool"} |-> On]}} : AcceptedPolicy(p)}

RestingAnswer ==
    /\ wire = "chat" /\ style = "plain"
    /\ truth = [i \in Items |-> [kind |-> "message", parts |-> <<<<"a", "b">>>>]]
RestingExchange ==
    /\ exchange = [protocol |-> "openai", session |-> "s", request |-> <<>>, response |-> <<>>, images |-> <<>>,
                   docs |-> <<>>, response_id |-> None, assistant_id |-> None]
    /\ content = [k \in Categories |-> TRUE]
RestingTraffic ==
    /\ policyNow = [on |-> TRUE, content |-> "common", harnesses |-> <<>>]
    /\ traffic = [agent |-> "browser", source |-> "unknown", mark |-> "none", web |-> FALSE,
                  transport |-> "http", metadata |-> FALSE]
SomeRequest ==
    [dialect |-> "chat", path |-> "chat", transport |-> "http", agent |-> "other", headers |-> {},
     json |-> TRUE, truncated |-> FALSE, answered |-> TRUE, says |-> <<>>]
Init ==
    /\ part \in {"turns", "answers", "events", "uploads", "attribution", "requests"}
    /\ part = "answers" \/ RestingAnswer
    /\ part = "events" \/ RestingExchange
    /\ part = "attribution" \/ RestingTraffic
    /\ TurnsInit /\ AsmInit /\ EventInit /\ UploadInit /\ AttrInit
    /\ IF part = "requests" THEN ReadInit ELSE asked = SomeRequest /\ told = Unread
Next ==
    \/ part = "turns" /\ TurnsNext /\ UNCHANGED <<part, asmVars, eventVars, uploadVars, attrVars, readVars>>
    \/ part = "answers" /\ AsmNext /\ UNCHANGED <<part, turnVars, eventVars, uploadVars, attrVars, readVars>>
    \/ part = "events" /\ EventNext /\ UNCHANGED <<part, turnVars, asmVars, uploadVars, attrVars, readVars>>
    \/ part = "uploads" /\ UploadNext /\ UNCHANGED <<part, turnVars, asmVars, eventVars, attrVars, readVars>>
    \/ part = "attribution" /\ AttrNext /\ UNCHANGED <<part, turnVars, asmVars, eventVars, uploadVars, readVars>>
    \/ part = "requests" /\ ReadNext /\ UNCHANGED <<part, turnVars, asmVars, eventVars, uploadVars, attrVars>>
(* What the hook tells of an exchange is what was said in it.                *)
ToldAsSaid == RequestFaithful /\ AnswerFaithful /\ EventsFaithful
Spec == Init /\ [][Next]_vars
=============================================================================
