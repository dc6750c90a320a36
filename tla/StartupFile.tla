---------------------------- MODULE StartupFile ----------------------------
(* broker-config.toml has two readers, which each define its schema and its  *)
(* defaults: the command line, which checks and may rewrite it before it     *)
(* starts a broker (abyss-cli local_config.rs, runtime.rs), and the broker   *)
(* (abyss-broker config.rs).  A path is absent, empty, the default's name,   *)
(* or another one, relative or absolute.                                     *)
EXTENDS Integers

CONSTANTS Sides,         \* ports a user asks for or wrote down; 0 is any port
          Artifacts      \* of "macos", "linux" and "windows"

ASSUME StartupFileAssumption == Sides \subseteq Nat /\ Artifacts \subseteq {"macos", "linux", "windows"}

VARIABLES
    artifact,    \* the platform the programs were built for
    text,        \* the file
    original,    \* the file as the user left it
    want,        \* --port, or NoSide
    via,         \* "command" or "service": who starts the broker
    stage,       \* "command", "broker", "identity", "started", "refused", "failed"
    running      \* how the broker runs, or NotRunning
startupVars == <<artifact, text, original, want, via, stage, running>>

NoSide == -1
NoListen == [ip |-> "none", port |-> 0]
NotRunning == [plan |-> "none", listen |-> NoListen, ca |-> "none", logs |-> "none"]
Files == [schema : {1, 2}, log : {"unsectioned", "none", "empty", "rel"}, ca : {"none", "empty", "rel", "abs"},
          mode : {"omitted", "explicit", "macos", "windows"},
          listen : {NoListen} \cup [ip : {"loopback", "other"}, port : Sides],
          socket : {"none", "empty", "rel"}, upstream : {"none", "valid", "invalid"}]
StartupInit ==
    /\ artifact \in Artifacts /\ text \in Files /\ original = text /\ want \in {NoSide} \cup Sides
    /\ text.schema = 2 => text.log = "none" /\ text.ca = "none" /\ text.socket = "none"
    /\ via = IF artifact = "windows" THEN "service" ELSE "command"
    /\ want # NoSide => via = "command"
    /\ stage = (IF via = "command" THEN "command" ELSE "broker") /\ running = NotRunning

(***************************************************************************)
(* The command.                                                            *)
(***************************************************************************)
(* Serde's defaults: a missing section is not a section without the field.   *)
Local == [text EXCEPT !.mode = IF @ = "omitted" THEN "explicit" ELSE @,
                      !.ca = IF @ = "none" THEN "default" ELSE @,
                      !.log = IF @ = "unsectioned" THEN "default" ELSE @]
validate_upstream(f) == f.upstream # "none" => f.upstream = "valid" /\ f.mode = "explicit"
require_explicit_mode(f) == f.mode = "explicit"
(* Mutant: drops the configured listen address. *)
ForgetsAddress(f, port) == [f EXCEPT !.listen = [ip |-> "loopback", port |-> port]]
(* An existing listener keeps its address. *)
set_explicit_proxy_port(f, port) ==
    [f EXCEPT !.listen = [ip |-> IF @ = NoListen THEN "loopback" ELSE @.ip, port |-> port]]
ca_path(f) == IF f.ca = "empty" THEN "invalid" ELSE f.ca
CommandReads ==
    /\ stage = "command"
    /\ LET wanted == IF want = NoSide THEN Local ELSE set_explicit_proxy_port(Local, want)
       IN  IF text.schema # 1 \/ ~validate_upstream(Local) \/ ~require_explicit_mode(Local)
           THEN stage' = "refused" /\ UNCHANGED text
           ELSE /\ text' = IF wanted.listen # Local.listen THEN wanted ELSE text
                /\ stage' = IF ca_path(Local) = "invalid" THEN "refused" ELSE "broker"
    /\ UNCHANGED <<artifact, original, want, via, running>>

(***************************************************************************)
(* The broker.                                                             *)
(***************************************************************************)
platform_default == IF artifact = "linux" THEN "explicit" ELSE artifact
Loaded == [text EXCEPT !.mode = IF @ = "omitted" THEN platform_default ELSE @]
validate(f) == f.ca # "empty" /\ f.log # "empty" /\ f.socket # "empty"
validate_shape(f) ==
    /\ f.upstream # "invalid"
    /\ f.mode = "explicit" => f.socket = "none"
    /\ f.mode = "macos" => f.listen = NoListen
    /\ f.mode = "windows" => f.listen = NoListen /\ f.socket = "none"
(* ProxyConfig::plan: the modes this artifact was built with. *)
plan(f) == IF f.mode = "explicit" \/ f.mode = artifact THEN f.mode ELSE "unavailable"
resolve_relative_path(p) == IF p \in {"none", "unsectioned", "default"} THEN "default" ELSE p
AnyPort == [ip |-> "loopback", port |-> 0]
BrokerLoads ==
    /\ stage = "broker"
    /\ IF text.schema = 1 /\ validate(Loaded) /\ validate_shape(Loaded) /\ plan(Loaded) # "unavailable"
       THEN /\ running' = [plan |-> plan(Loaded), ca |-> resolve_relative_path(text.ca),
                           logs |-> resolve_relative_path(text.log),
                           listen |-> IF text.listen = NoListen THEN AnyPort ELSE text.listen]
            /\ stage' = IF via = "command" THEN "identity" ELSE "started"
       ELSE stage' = "failed" /\ UNCHANGED running
    /\ UNCHANGED <<artifact, text, original, want, via>>
(* require_owned_explicit: the command accepts only an explicit broker. *)
CommandChecks ==
    /\ stage = "identity" /\ stage' = IF running.plan = "explicit" THEN "started" ELSE "failed"
    /\ UNCHANGED <<artifact, text, original, want, via, running>>
StartupNext == CommandReads \/ BrokerLoads \/ CommandChecks

(***************************************************************************)
(* Properties.                                                             *)
(***************************************************************************)
(* A broker that a command started listens explicitly at the address of the  *)
(* file with the port asked for, signs from the CA directory the command     *)
(* prepared and logs where the file says, whether the file was rewritten or  *)
(* not: the two sets of defaults agree where the command lets a file pass.   *)
StartedAsAsked == stage = "started" /\ via = "command" =>
    /\ running.plan = "explicit"
    /\ running.listen = [ip |-> IF original.listen = NoListen THEN "loopback" ELSE original.listen.ip,
                         port |-> IF want # NoSide THEN want ELSE original.listen.port]
    /\ running.ca = resolve_relative_path(ca_path(Local))
    /\ running.logs = resolve_relative_path(original.log)

(* The command lets a file pass that the broker then rejects in three cases  *)
(* only: a socket path, an empty log directory, or a mode left out, which    *)
(* on macOS is the command's explicit mode and the broker's Network          *)
(* Extension mode.                                                           *)
PassedIsUsable == stage = "failed" /\ via = "command" =>
    \/ original.socket # "none" \/ original.log = "empty"
    \/ artifact = "macos" /\ text.mode = "omitted"

StartupAgreed == StartedAsAsked /\ PassedIsUsable
=============================================================================
