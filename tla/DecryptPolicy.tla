---------------------------- MODULE DecryptPolicy ----------------------------
(***************************************************************************)
(* Which TLS flows are decrypted.  A written host is as in ExplicitRequest *)
(* and normalises to its labels; <<>> is "no host".  A policy is           *)
(*   [default, missing, rules], missing in {"", "Intercept", "Passthrough"}*)
(* and a rule [id, enabled, action, names, apps, entries, hosts] with      *)
(* patterns [wild, host].  A process is [name, app, entry], "" for unknown.*)
(***************************************************************************)
EXTENDS Naturals, Sequences, SequencesExt, FiniteSets

TlsDecryptionAction == {"Intercept", "Passthrough"}
TlsDecryptionPolicyError == {"EmptyRuleId", "EmptySelectors", "EmptyProcessName",
    "EmptyApplicationId", "InvalidProcessEntryPoint", "InvalidHostPattern"}
IsPolicy(policy) ==
    /\ policy.default \in TlsDecryptionAction /\ policy.missing \in {""} \cup TlsDecryptionAction
    /\ policy.rules \in Seq(Range(policy.rules))
DefaultPolicy == [default |-> "Passthrough", missing |-> "Passthrough", rules |-> <<>>]
NoHost == [kind |-> "none", labels |-> <<>>, upper |-> FALSE, dots |-> 0]

\* normalize_host keeps what precedes the first colon, without trailing dots
\* and in lower case: of an IPv6 literal it keeps the opening bracket.
normalize_host(h) ==
    CASE h.kind = "none" -> <<>>
      [] h.kind = "v6" -> <<"[">>
      [] OTHER -> h.labels

\* A leading "*." stands for exactly one label.
host_pattern_matches(pattern, name) ==
    LET p == normalize_host(pattern.host)
    IN  /\ p # <<>>
        /\ IF pattern.wild THEN Len(name) = Len(p) + 1 /\ IsSuffix(p, name) ELSE p = name

validate_host_pattern(pattern) ==
    /\ normalize_host(pattern.host) # <<>> /\ "" \notin Range(normalize_host(pattern.host))
    /\ pattern.star = "none"

selector_matches(selectors, candidate) ==
    selectors = {} \/ (candidate # "" /\ candidate \in selectors)
destination_selector_matches(selectors, name) ==
    selectors = {} \/ (name # <<>> /\ \E p \in selectors : host_pattern_matches(p, name))
matches(rule, name, process) ==
    /\ selector_matches(rule.names, process.name)
    /\ selector_matches(rule.apps, process.app)
    /\ selector_matches(rule.entries, process.entry)
    /\ destination_selector_matches(rule.hosts, name)

\* validate: the first rule that breaks a condition, in the code's order.
validate_rule(rule) ==
    LET checks == << <<rule.id = "", "EmptyRuleId">>,
                     <<rule.names \cup rule.apps \cup rule.entries = {} /\ rule.hosts = {},
                       "EmptySelectors">>,
                     <<"" \in rule.names, "EmptyProcessName">>,
                     <<"" \in rule.apps, "EmptyApplicationId">>,
                     <<"relative" \in rule.entries, "InvalidProcessEntryPoint">>,
                     <<\E p \in rule.hosts : ~validate_host_pattern(p), "InvalidHostPattern">> >>
        first == SelectInSeq(checks, LAMBDA c : c[1])
    IN  IF first = 0 THEN "" ELSE checks[first][2]
validate(policy) ==
    LET first == SelectInSeq(policy.rules, LAMBDA r : validate_rule(r) # "")
    IN  IF first = 0 THEN "" ELSE validate_rule(policy.rules[first])

requires_sni_peek(policy) ==
    policy.missing # "" \/ policy.rules # <<>> \/ policy.default = "Passthrough"

Fallback(policy, name) ==
    IF name = <<>> /\ policy.missing # "" THEN policy.missing ELSE policy.default
\* decide: the first enabled rule that matches.
decide(policy, host, process) ==
    LET name == normalize_host(host)
        first == SelectInSeq(policy.rules, LAMBDA r : r.enabled /\ matches(r, name, process))
    IN  IF first = 0 THEN Fallback(policy, name) ELSE policy.rules[first].action

=============================================================================
