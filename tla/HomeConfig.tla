----------------------------- MODULE HomeConfig -----------------------------
(* The files of an ABYSS_HOME that commands write (abyss-cli runtime.rs,     *)
(* local_config.rs, command.rs): broker-config.toml, of which the proxy port *)
(* is kept, and runtime-policy.toml, which a running broker also writes when *)
(* it accepts hook settings.  Each file is replaced as a whole; nothing      *)
(* locks them between a read and a write.  Starting and stopping a broker    *)
(* are steps here: BrokerStart has their detail.                             *)
EXTENDS Integers, FiniteSets

CONSTANTS Setters,       \* commands, one operation at a time
          ProxyPorts,    \* ports a user asks for
          MaxSet,        \* bound on commands
          MaxHFaults     \* bound on commands that are killed

ASSUME HomeConfigAssumption ==
    Setters \subseteq Nat /\ ProxyPorts \subseteq Nat \ {0} /\ MaxSet \in Nat /\ MaxHFaults \in Nat

VARIABLES
    conf,        \* the port in broker-config.toml, or NoFile
    pol,         \* the hooks in runtime-policy.toml, or NoHooks
    srv,         \* the broker: [up, port, hooks]
    set,         \* [Setters -> [op, pc, arg, conf, hooks, solo]]
    ran,         \* commands so far
    gone,        \* [drifted, rewritten]: what excuses later states
    hFaults
homeVars == <<conf, pol, srv, set, ran, gone, hFaults>>

NoFile == 0
PackagedPort == 1            \* listen_addr left to the broker's default
NoPort == 0                  \* no port requested
NoHooks == [context |-> FALSE, override |-> "absent", enabled |-> FALSE]
PackagedHooks == [context |-> TRUE, override |-> "none", enabled |-> TRUE]
Acting(c) == set[c].pc \notin {"begin", "ok", "failed"}
SetterIdle == [op |-> "none", pc |-> "begin", arg |-> 0, conf |-> NoFile, hooks |-> NoHooks, solo |-> TRUE]

HomeInit ==
    /\ conf \in {NoFile, PackagedPort}
    /\ pol \in {NoHooks, [PackagedHooks EXCEPT !.override = "on"]}
    /\ srv = [up |-> FALSE, port |-> 0, hooks |-> NoHooks]
    /\ set = [c \in Setters |-> SetterIdle]
    /\ ran = 0 /\ hFaults = 0 /\ gone = [drifted |-> FALSE, rewritten |-> FALSE]

Turn(c, pc) == set' = [set EXCEPT ![c] = IF pc \in {"ok", "failed"} THEN [SetterIdle EXCEPT !.pc = pc]
                                      ELSE [@ EXCEPT !.pc = pc]]

(* From now on the file may name a port the broker does not listen on. *)
Drift(cause) == gone' = [gone EXCEPT !.drifted = @ \/ cause]

(* runtime_bootstrap: start, with or without a port, and config bootstrap;   *)
(* stop does not.                                                            *)
BeginSet(c) ==
    /\ ~Acting(c) /\ ran < MaxSet /\ ran' = ran + 1
    /\ \E op \in {"start", "context", "harness", "stop"}, arg \in {NoPort} \cup ProxyPorts :
        /\ op \in {"context", "harness"} => arg \in {0, 1}
        /\ op = "stop" => arg = NoPort
        /\ set' = [d \in Setters |->
            IF d = c THEN [SetterIdle EXCEPT !.op = op, !.arg = arg, !.solo = \A e \in Setters : ~Acting(e),
                                       !.pc = IF op = "stop" THEN "stop" ELSE "load"]
            ELSE IF Acting(d) THEN [set[d] EXCEPT !.solo = FALSE] ELSE set[d]]
    /\ UNCHANGED <<conf, pol, srv, gone, hFaults>>

(***************************************************************************)
(* ensure_config: both files are read, packaged values standing for absent   *)
(* ones; each is then written if it does not exist by now.                   *)
(***************************************************************************)
Parsed == [conf |-> IF conf = NoFile THEN PackagedPort ELSE conf,
           hooks |-> IF pol = NoHooks THEN PackagedHooks ELSE pol]
LoadFiles(c) ==
    /\ set[c].pc = "load"
    /\ set' = [set EXCEPT ![c].conf = Parsed.conf, ![c].hooks = Parsed.hooks,
                         ![c].pc = IF conf = NoFile THEN "config" ELSE "exists"]
    /\ UNCHANGED <<conf, pol, srv, ran, gone, hFaults>>
WriteBrokerConfig(c) ==
    /\ set[c].pc = "config" /\ conf' = set[c].conf /\ Turn(c, "exists") /\ Drift(~set[c].solo)
    /\ UNCHANGED <<pol, srv, ran, hFaults>>
(* Mutant: replaces a policy file that exists. *)
WritesPolicyAlways(c) ==
    /\ set[c].pc = "exists" /\ Turn(c, "policy")
    /\ UNCHANGED <<conf, pol, srv, ran, gone, hFaults>>
PolicyExists(c) ==
    /\ set[c].pc = "exists" /\ Turn(c, IF pol = NoHooks THEN "policy" ELSE "port")
    /\ UNCHANGED <<conf, pol, srv, ran, gone, hFaults>>
(* A first command that another one overtook puts its own reading back. *)
WritePolicy(c) ==
    /\ set[c].pc = "policy" /\ pol' = set[c].hooks /\ Turn(c, "port")
    /\ gone' = [gone EXCEPT !.rewritten = @ \/ (pol # NoHooks /\ set[c].hooks = PackagedHooks)]
    /\ UNCHANGED <<conf, srv, ran, hFaults>>

(***************************************************************************)
(* The port and the broker.                                                *)
(***************************************************************************)
(* The file is read again; set_explicit_proxy_port tells whether a requested *)
(* port changes it.                                                          *)
ReadPort(c) ==
    /\ set[c].pc = "port"
    /\ LET wanted == IF set[c].op = "start" /\ set[c].arg # NoPort THEN set[c].arg ELSE Parsed.conf
       IN  set' = [set EXCEPT ![c].conf = wanted,
                              ![c].pc = IF wanted # Parsed.conf THEN "rewrite" ELSE "reuse"]
    /\ UNCHANGED <<conf, pol, srv, ran, gone, hFaults>>
WritePort(c) ==
    /\ set[c].pc = "rewrite" /\ conf' = set[c].conf /\ Turn(c, "restart") /\ Drift(~set[c].solo)
    /\ UNCHANGED <<pol, srv, ran, hFaults>>
Launched == [up |-> TRUE, port |-> Parsed.conf, hooks |-> Parsed.hooks]
NextOf(c) == IF set[c].op = "start" THEN "ok" ELSE "get"
(* Mutant: keeps the running broker when the port changed. *)
ReusesRunning(c) ==
    /\ set[c].pc \in {"reuse", "restart"}
    /\ srv' = IF srv.up THEN srv ELSE Launched
    /\ Turn(c, NextOf(c))
    /\ UNCHANGED <<conf, pol, ran, gone, hFaults>>
(* start_broker: a running broker is kept, unless the port was changed; a    *)
(* new one reads both files.                                                 *)
StartOrReuse(c) ==
    /\ set[c].pc \in {"reuse", "restart"}
    /\ \/ /\ srv' = IF srv.up /\ set[c].pc = "reuse" THEN srv ELSE Launched
          /\ Turn(c, NextOf(c)) /\ UNCHANGED gone
       \/ /\ ~srv.up \/ set[c].pc = "restart"             \* the new broker fails
          /\ srv' = [srv EXCEPT !.up = FALSE] /\ Turn(c, "failed") /\ UNCHANGED gone
    /\ UNCHANGED <<conf, pol, ran, hFaults>>
StopBroker(c) ==
    /\ set[c].pc = "stop" /\ srv' = [srv EXCEPT !.up = FALSE] /\ Turn(c, "ok")
    /\ UNCHANGED <<conf, pol, ran, gone, hFaults>>

(***************************************************************************)
(* config: the broker's hooks are read, changed and put back.                *)
(***************************************************************************)
GetHooks(c) ==
    /\ set[c].pc = "get"
    /\ IF srv.up THEN set' = [set EXCEPT ![c].hooks = srv.hooks, ![c].pc = "put"] ELSE Turn(c, "failed")
    /\ UNCHANGED <<conf, pol, srv, ran, gone, hFaults>>
(* Mutant: switches the context hook only. *)
ContextOnly(h, on) == [h EXCEPT !.context = on]
(* set_context_capture also changes a harness's own content settings. *)
set_context_capture(h, on) ==
    [h EXCEPT !.context = on, !.override = IF @ = "none" THEN @ ELSE IF on THEN "on" ELSE "off"]
Changed(c) == IF set[c].op = "context" THEN set_context_capture(set[c].hooks, set[c].arg = 1)
              ELSE [set[c].hooks EXCEPT !.enabled = set[c].arg = 1]
(* The broker persists what it accepts before it answers. *)
PutHooks(c) ==
    /\ set[c].pc = "put"
    /\ IF srv.up THEN pol' = Changed(c) /\ srv' = [srv EXCEPT !.hooks = Changed(c)] /\ Turn(c, "ok")
       ELSE Turn(c, "failed") /\ UNCHANGED <<pol, srv>>
    /\ UNCHANGED <<conf, ran, gone, hFaults>>

(* A command is killed; a port it wrote is not applied to a running broker. *)
Killed(c) ==
    /\ Acting(c) /\ hFaults < MaxHFaults /\ hFaults' = hFaults + 1
    /\ Turn(c, "failed")
    /\ Drift(set[c].pc = "restart")
    /\ UNCHANGED <<conf, pol, srv, ran>>

SetStep(c) ==
    \/ BeginSet(c) \/ LoadFiles(c) \/ WriteBrokerConfig(c) \/ PolicyExists(c) \/ WritePolicy(c)
    \/ ReadPort(c) \/ WritePort(c) \/ StartOrReuse(c) \/ StopBroker(c)
    \/ GetHooks(c) \/ PutHooks(c) \/ Killed(c)
HomeNext == \E c \in Setters : SetStep(c)

(***************************************************************************)
(* Properties.                                                             *)
(***************************************************************************)
(* The policy on disk is the one the broker runs with, so a restart changes  *)
(* nothing, unless a first command wrote packaged settings over an update    *)
(* that was made after it looked for the file.                               *)
PolicyOnDisk == srv.up /\ ~gone.rewritten => pol = srv.hooks

(* A command that ran alone and succeeded had its effect and no other: the   *)
(* proxy listens on the port asked for, unless an earlier command was killed *)
(* after it had written a port, or overlapped another (the next one finds    *)
(* nothing to change in the file and keeps the broker); capture is switched  *)
(* for every harness and the rest of the hook settings is as the command     *)
(* found it.                                                                 *)
CommandsTakeEffect == \A c \in Setters :
    set[c].solo /\ Acting(c) /\ set'[c].pc = "ok" =>
        /\ set[c].op = "start" /\ set[c].arg # NoPort /\ ~gone.drifted => srv'.port = set[c].arg
        /\ set[c].op = "context" =>
            /\ srv'.hooks.context = (set[c].arg = 1)
            /\ srv'.hooks.override \in {"none", IF set[c].arg = 1 THEN "on" ELSE "off"}
            /\ srv'.hooks.enabled = srv.hooks.enabled
        /\ set[c].op = "harness" =>
            srv'.hooks = [srv.hooks EXCEPT !.enabled = set[c].arg = 1]
=============================================================================
