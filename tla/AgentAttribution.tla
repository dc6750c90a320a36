-------------------------- MODULE AgentAttribution --------------------------
(* Which agent an exchange is attributed to, under which content policy, and *)
(* what it declares about the turn: the harness registry, the policy it     *)
(* consults and the hook that calls it.  The hook chain asks whether the     *)
(* hook is on, then the hook takes one snapshot of the policy, which may be  *)
(* replaced at any moment.  Headers and names are reduced to what the        *)
(* detectors look for.                                                       *)
EXTENDS Integers, FiniteSets, Sequences

CONSTANTS
    HookPolicies,   \* the policies the hook can be given
    Programs    \* processes no detector knows

BuiltIn == {"codex", "claude-desktop", "claude-code", "deepseek-harness", "hermes", "cursor", "workbuddy", "opencode"}
Unset == "unset"
Nobody == "nobody"
NoTurn == 0

VARIABLES
    policyNow,  \* the policy in force
    traffic,    \* the exchange or message at hand
    hookStage,  \* "waiting", "called" or "done"
    verdict     \* what it was attributed to
attrVars == <<policyNow, traffic, hookStage, verdict>>

-----------------------------------------------------------------------------
(* Policies.                                                                 *)

\* A harness the policy does not name is enabled and takes the common content.
Named(p, h) == h \in DOMAIN p.harnesses
enabled_for_harness(p, h) == Named(p, h) => p.harnesses[h].enabled # FALSE
content_for_harness(p, h) ==
    IF Named(p, h) /\ p.harnesses[h].content # Unset THEN p.harnesses[h].content ELSE p.content
is_reserved(h) == h \in BuiltIn
\* A policy with a matcher on a built-in harness, or a harness of its own
\* without one, is refused when it is read.
AcceptedPolicy(p) ==
    \A h \in DOMAIN p.harnesses :
        IF is_reserved(h) THEN p.harnesses[h].processes = {} ELSE p.harnesses[h].processes # {}

-----------------------------------------------------------------------------
(* Detection.                                                                *)

Agents == {"browser", "codex", "claude-code", "hermes", "cursor", "deepseek-harness", "opencode"}
KnownSources == {"unknown", "codex", "claude", "desktop-helper", "workbuddy", "hermes-app"}
Marks == {"none", "x-codex", "hermes-session", "desktop-app"}
ASSUME AttributionAssumption ==
    /\ \A p \in HookPolicies : AcceptedPolicy(p) /\ IsFiniteSet(DOMAIN p.harnesses)
    /\ Programs \cap (BuiltIn \cup Agents \cup Marks \cup KnownSources) = {}
Traffic ==
    [agent: Agents, source: KnownSources \cup Programs, mark: Marks, web: BOOLEAN,
     transport: {"http", "websocket"}, metadata: BOOLEAN]
\* Client metadata is part of a WebSocket request; a Claude Web completion is
\* an HTTP exchange.
Possible(t) == (t.metadata => t.transport = "websocket") /\ (t.web => t.transport = "http")

CodexDetector(t) == t.source = "codex" \/ t.mark = "x-codex" \/ t.agent = "codex"
ClaudeDesktopDetector(t) == t.source = "desktop-helper" \/ t.mark = "desktop-app"
\* A Claude Web completion carries the desktop client's agent string.
ClaudeCodeDetector(t) == ~t.web /\ (t.source = "claude" \/ t.agent = "claude-code")
DeepSeekHarnessDetector(t) == t.agent = "deepseek-harness"
HermesDetector(t) == t.agent = "hermes" \/ t.mark = "hermes-session" \/ t.source = "hermes-app"
CursorDetector(t) == t.agent = "cursor"
WorkBuddyDetector(t) == t.source = "workbuddy"
OpenCodeDetector(t) == t.agent = "opencode"
Detected(t) ==
    {h \in BuiltIn :
        \/ h = "codex" /\ CodexDetector(t)
        \/ h = "claude-desktop" /\ ClaudeDesktopDetector(t)
        \/ h = "claude-code" /\ ClaudeCodeDetector(t)
        \/ h = "deepseek-harness" /\ DeepSeekHarnessDetector(t)
        \/ h = "hermes" /\ HermesDetector(t)
        \/ h = "cursor" /\ CursorDetector(t)
        \/ h = "workbuddy" /\ WorkBuddyDetector(t)
        \/ h = "opencode" /\ OpenCodeDetector(t)}
matches(m, t) == t.source \in m.processes
\* Hermes runs other clients: it hides them before disabled harnesses are
\* left out.
WithoutEmbedded(found) == IF "hermes" \in found THEN found \ {"codex", "claude-code"} ELSE found
CustomDetected(t, p) ==
    {h \in DOMAIN p.harnesses :
        ~is_reserved(h) /\ p.harnesses[h].enabled # FALSE /\ matches(p.harnesses[h], t)}
OnlyOne(found) == IF Cardinality(found) = 1 THEN CHOOSE h \in found : TRUE ELSE Nobody
\* Mutant: disabled harnesses are left out before Hermes hides its clients.
DetectsEnabledFirst(t, p) ==
    OnlyOne(WithoutEmbedded({h \in Detected(t) : enabled_for_harness(p, h)}) \cup CustomDetected(t, p))
\* One candidate is the answer; several are ambiguous and none is chosen.
detect(t, p) ==
    OnlyOne({h \in WithoutEmbedded(Detected(t)) : enabled_for_harness(p, h)} \cup CustomDetected(t, p))

-----------------------------------------------------------------------------
(* What the agent declares about the turn.                                   *)

\* A WebSocket's headers were sent with the upgrade, in turn 1; the message
\* at hand belongs to turn 2, as its metadata says.  An exchange's headers
\* belong to its turn.
ThisTurn == 2
UpgradeTurn == 1
RequestTurn(t) == IF t.transport = "http" THEN ThisTurn ELSE NoTurn
ConnectionTurn(t) == IF t.transport = "http" THEN ThisTurn ELSE UpgradeTurn
\* Codex names the turn in metadata or request headers, the others in request
\* headers, except that Claude Code reads the connection's too.
declare(h, t) ==
    CASE h = "codex" -> IF t.metadata THEN ThisTurn ELSE RequestTurn(t)
      [] h = "claude-code" -> ConnectionTurn(t)
      [] h \in {"hermes", "cursor", "workbuddy", "opencode"} -> RequestTurn(t)
      [] OTHER -> NoTurn

-----------------------------------------------------------------------------
(* The hook.                                                                 *)

Undecided == [harness |-> Nobody, content |-> Unset, turn |-> NoTurn, under |-> Unset]
AttrInit ==
    /\ policyNow \in HookPolicies
    /\ traffic \in {t \in Traffic : Possible(t)}
    /\ hookStage = "waiting"
    /\ verdict = Undecided
enabled ==
    /\ hookStage = "waiting"
    /\ hookStage' = IF policyNow.on THEN "called" ELSE "done"
    /\ UNCHANGED <<policyNow, traffic, verdict>>
\* One snapshot decides the harness and its content.
snapshot_events ==
    /\ hookStage = "called"
    /\ LET h == detect(traffic, policyNow)
       IN  verdict' = [harness |-> h, under |-> policyNow,
                       content |-> IF h = Nobody THEN Unset ELSE content_for_harness(policyNow, h),
                       turn |-> IF h = Nobody THEN NoTurn ELSE declare(h, traffic)]
    /\ hookStage' = "done"
    /\ UNCHANGED <<policyNow, traffic>>
update ==
    /\ hookStage # "done"
    /\ policyNow' \in HookPolicies
    /\ UNCHANGED <<traffic, hookStage, verdict>>
AttrNext == enabled \/ snapshot_events \/ update
AttrSpec == AttrInit /\ [][AttrNext]_attrVars

-----------------------------------------------------------------------------
(* Properties.                                                               *)

Attributed == verdict.harness # Nobody
\* The signs an exchange carries of a harness.
Signs(h, t, p) ==
    IF h \in BuiltIn
    THEN CASE h = "hermes" -> {t.agent, t.mark, t.source} \cap {"hermes", "hermes-session", "hermes-app"}
           [] h = "codex" -> {t.agent, t.mark, t.source} \cap {"codex", "x-codex"}
           [] h = "claude-code" -> {t.agent, t.source} \cap {"claude-code", "claude"}
           [] h = "claude-desktop" -> {t.mark, t.source} \cap {"desktop-helper", "desktop-app"}
           [] OTHER -> {t.agent, t.source} \cap {h}
    ELSE {t.source} \cap p.harnesses[h].processes
\* Signs of a client that do not count: Hermes runs it, or they are those of
\* the desktop client.
Explained(g, t, p) ==
    \/ g \in {"codex", "claude-code"} /\ Signs("hermes", t, p) # {}
    \/ g = "claude-code" /\ t.web
\* An exchange goes to a harness it carries signs of and the policy allows,
\* with that harness's content of the same policy; one that points at two
\* allowed harnesses goes to none.
AttributedExactly ==
    Attributed =>
        LET p == verdict.under h == verdict.harness
        IN  /\ Signs(h, traffic, p) # {} /\ ~Explained(h, traffic, p)
            /\ enabled_for_harness(p, h)
            /\ verdict.content = IF Named(p, h) /\ p.harnesses[h].content # Unset
                                 THEN p.harnesses[h].content ELSE p.content
            /\ \A g \in (BuiltIn \cup DOMAIN p.harnesses) \ {h} :
                   enabled_for_harness(p, g) /\ Signs(g, traffic, p) # {} => Explained(g, traffic, p)
\* A client that Hermes runs is never told apart from it, not even when
\* Hermes itself is switched off.
EmbeddedHidden ==
    Signs("hermes", traffic, policyNow) # {} => verdict.harness \notin {"codex", "claude-code"}
\* A message never declares the turn the connection was opened in.
TurnCurrent ==
    Attributed /\ verdict.harness # "claude-code" => verdict.turn \in {NoTurn, ThisTurn}

(* Exchanges are attributed to the agent that made them, under the policy    *)
(* of that moment (harness/registry/mod.rs, hook.rs).                        *)
AttributionExact == AttributedExactly /\ EmbeddedHidden /\ TurnCurrent
=============================================================================
