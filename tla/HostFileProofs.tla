--------------------------- MODULE HostFileProofs ---------------------------
(* What the commands of one host leave in its files, and what a query shows  *)
(* of them: for every number of commands, generations, tokens, rows, ports   *)
(* and faults.                                                               *)
(* None of the properties is inductive.  That the broker signs with a key    *)
(* that fits rests on the key being written last and by one program          *)
(* (OneGenerates, KeyLast); that the policy on disk is the one in force on   *)
(* what a command holds between reading and writing (SetterHolds); that a    *)
(* token only goes where it belongs on the pair of services it is bound to   *)
(* from its exchange on (ToolOK, Vaulted, FileHolds); that a listing leaves  *)
(* no row out on the position being in step with the rows gathered           *)
(* (Continues, SeenAt).                                                      *)
EXTENDS MCHost, TLAPS, NaturalsInduction, WellFoundedInduction

-----------------------------------------------------------------------------
(* The startup file. *)

(* Where a proxy can listen. *)
Addresses == {NoListen} \cup [ip : {"loopback", "other"}, port : Nat]
(* The address the command asks for: the file's, with the port of --port. *)
AskedListen == IF want = NoSide THEN original.listen
               ELSE [ip |-> IF original.listen = NoListen THEN "loopback" ELSE original.listen.ip, port |-> want]
(* A file the command let pass, rewritten or not. *)
CommandPassed ==
    /\ text.schema = 1 /\ text.upstream # "invalid" /\ text.ca # "empty"
    /\ text.mode \in {"omitted", "explicit"} /\ text.listen = AskedListen /\ text.socket = original.socket
    /\ resolve_relative_path(text.log) = resolve_relative_path(original.log)
    /\ text.log = "empty" => original.log = "empty"
(* The broker runs as the file says. *)
RunsAsFile ==
    /\ running.plan = plan(Loaded) /\ running.ca = resolve_relative_path(text.ca)
    /\ running.logs = resolve_relative_path(text.log)
    /\ running.listen = IF text.listen = NoListen THEN AnyPort ELSE text.listen
(* The inductive invariant of the startup file: where a command has come to *)
(* decides what the file holds and how the broker runs.                     *)
StartupInv ==
    /\ want = NoSide \/ want \in Nat
    /\ original.listen \in Addresses
    /\ artifact \in {"macos", "linux", "windows"} /\ (via = "command" => artifact # "windows")
    /\ stage = "command" => via = "command" /\ text = original /\ text \in Files
    /\ via = "command" /\ stage \in {"broker", "identity", "started", "failed"} => CommandPassed
    /\ via = "command" /\ stage \in {"identity", "started"} => RunsAsFile
    /\ stage = "started" /\ via = "command" => running.plan = "explicit"
    /\ PassedIsUsable

(* The invariant gives StartupAgreed: a broker that a command reports as *)
(* started runs on the address, authority and log path asked for.        *)
LEMMA StartupMeans == ASSUME StartupInv PROVE StartupAgreed
<1>1. PassedIsUsable BY DEF StartupInv
<1>2. ASSUME stage = "started", via = "command" PROVE
    /\ running.plan = "explicit"
    /\ running.listen = [ip |-> IF original.listen = NoListen THEN "loopback" ELSE original.listen.ip,
                         port |-> IF want # NoSide THEN want ELSE original.listen.port]
    /\ running.ca = resolve_relative_path(ca_path(Local))
    /\ running.logs = resolve_relative_path(original.log)
  <2>1. CommandPassed /\ RunsAsFile /\ running.plan = "explicit" BY <1>2 DEF StartupInv
  <2>2. text.listen = AskedListen /\ running.listen = (IF text.listen = NoListen THEN AnyPort ELSE text.listen)
    BY <2>1 DEF CommandPassed, RunsAsFile
  <2>3. original.listen \in Addresses BY DEF StartupInv
  <2>4. NoListen.ip = "none" /\ NoListen.port = 0 BY DEF NoListen
  <2>5. original.listen # NoListen => original.listen = [ip |-> original.listen.ip, port |-> original.listen.port] /\ original.listen.ip # "none"
    BY <2>3 DEF Addresses
  <2>6. running.listen = [ip |-> IF original.listen = NoListen THEN "loopback" ELSE original.listen.ip,
                         port |-> IF want # NoSide THEN want ELSE original.listen.port]
    BY <2>2, <2>4, <2>5 DEF AskedListen, AnyPort
  <2>7. running.ca = resolve_relative_path(text.ca) /\ text.ca # "empty" BY <2>1 DEF CommandPassed, RunsAsFile
  <2>8. Local.ca = IF text.ca = "none" THEN "default" ELSE text.ca BY DEF Local
  <2>9. running.ca = resolve_relative_path(ca_path(Local)) BY <2>7, <2>8 DEF ca_path, resolve_relative_path
  <2>10. running.logs = resolve_relative_path(original.log) BY <2>1 DEF CommandPassed, RunsAsFile
  <2> QED BY <2>1, <2>6, <2>9, <2>10
<1>3. StartedAsAsked BY <1>2 DEF StartedAsAsked
<1> QED BY <1>1, <1>3 DEF StartupAgreed

(* A start begins within the invariant, as does a host on which none *)
(* happens.                                                          *)
LEMMA StartupInitial == ASSUME StartupFileAssumption, StartupInit \/ RestingStartup PROVE StartupInv
<1>1. CASE StartupInit BY <1>1 DEF StartupInit, StartupFileAssumption, Files, Addresses, StartupInv, PassedIsUsable
<1>2. CASE stage = "refused" /\ artifact = "linux" /\ want = NoSide /\ original.listen = NoListen
  BY <1>2 DEF StartupInv, PassedIsUsable, Addresses
<1> QED BY <1>1, <1>2 DEF RestingStartup

(* The command reads the file, refuses it or passes it on, perhaps *)
(* rewritten for the port (runtime.rs, config.rs).                 *)
LEMMA CommandReadsKept == ASSUME StartupInv, CommandReads PROVE StartupInv'
<1>1. stage = "command" /\ via = "command" /\ text = original /\ text \in Files /\ UNCHANGED <<artifact, original, want, via, running>>
  BY DEF StartupInv, CommandReads
<1>2. (want = NoSide \/ want \in Nat)' /\ (original.listen \in Addresses)' /\ (artifact \in {"macos", "linux", "windows"} /\ (via = "command" => artifact # "windows"))'
  BY <1>1 DEF StartupInv
<1>3. CASE stage' = "refused" BY <1>2, <1>3 DEF StartupInv, PassedIsUsable
<1> DEFINE wanted == IF want = NoSide THEN Local ELSE set_explicit_proxy_port(Local, want)
<1>4. CASE stage' # "refused"
  <2>1. text.schema = 1 /\ validate_upstream(Local) /\ require_explicit_mode(Local) /\ ca_path(Local) # "invalid"
        /\ stage' = "broker" /\ text' = IF wanted.listen # Local.listen THEN wanted ELSE text
    BY <1>4 DEF CommandReads
  <2> DEFINE l == IF text.log = "unsectioned" THEN "default" ELSE text.log
             c == IF text.ca = "none" THEN "default" ELSE text.ca
             m == IF text.mode = "omitted" THEN "explicit" ELSE text.mode
             L == [schema |-> text.schema, log |-> l, ca |-> c, mode |-> m,
                   listen |-> text.listen, socket |-> text.socket, upstream |-> text.upstream]
  <2>2. Local = L
    <3>1. Local = [text EXCEPT !.mode = m, !.ca = c, !.log = l] BY Zenon DEF Local
    <3>2. text = [schema |-> text.schema, log |-> text.log, ca |-> text.ca, mode |-> text.mode,
                  listen |-> text.listen, socket |-> text.socket, upstream |-> text.upstream]
      BY <1>1 DEF Files
    <3> HIDE DEF l, c, m
    <3> QED BY <3>1, <3>2
  <2>3. text.upstream # "invalid" /\ text.ca # "empty" /\ text.mode \in {"omitted", "explicit"}
    BY <2>1, <2>2 DEF validate_upstream, require_explicit_mode, ca_path
  <2> DEFINE W == [L EXCEPT !.listen = [ip |-> IF @ = NoListen THEN "loopback" ELSE @.ip, port |-> want]]
  <2>4. wanted.listen = AskedListen BY <1>1, <2>2 DEF AskedListen, set_explicit_proxy_port
  <2>5. CASE text' = text
    BY <1>1, <1>2, <2>1, <2>2, <2>3, <2>4, <2>5 DEF StartupInv, CommandPassed, AskedListen, PassedIsUsable
  <2>6. CASE want # NoSide /\ text' = W
    BY <1>1, <1>2, <2>1, <2>3, <2>6 DEF AskedListen, resolve_relative_path, CommandPassed, StartupInv, PassedIsUsable
  <2>7. text' = text \/ (want # NoSide /\ text' = W) BY <2>1, <2>2 DEF set_explicit_proxy_port
  <2> QED BY <2>5, <2>6, <2>7
<1> QED BY <1>3, <1>4

(* The broker loads what the command passed and runs as it says, or fails *)
(* for a reason PassedIsUsable names (config.rs).                         *)
LEMMA BrokerLoadsKept == ASSUME StartupInv, BrokerLoads PROVE StartupInv'
<1>1. stage = "broker" /\ UNCHANGED <<artifact, text, original, want, via>> /\ stage' # "command" BY DEF BrokerLoads
<1>2. (want = NoSide \/ want \in Nat)' /\ (original.listen \in Addresses)' /\ (artifact \in {"macos", "linux", "windows"} /\ (via = "command" => artifact # "windows"))'
  BY <1>1 DEF StartupInv
<1>3. CASE via # "command" BY <1>1, <1>2, <1>3 DEF StartupInv, PassedIsUsable
<1>4. CASE via = "command"
  <2>1. CommandPassed BY <1>1, <1>4 DEF StartupInv
  <2>2. CommandPassed' BY <1>1, <2>1 DEF CommandPassed, AskedListen
  <2>3. CASE stage' = "failed"
    BY <1>1, <1>2, <1>4, <2>1, <2>2, <2>3 DEF BrokerLoads, Loaded, StartupInv, platform_default, CommandPassed,
       validate, validate_shape, plan, PassedIsUsable
  <2>4. CASE stage' # "failed"
    BY <1>1, <1>2, <1>4, <2>2, <2>4 DEF BrokerLoads, plan, Loaded, platform_default, RunsAsFile, StartupInv,
       PassedIsUsable
  <2> QED BY <2>3, <2>4
<1> QED BY <1>3, <1>4

(* The command reads the identity of the broker it started (runtime.rs). *)
LEMMA CommandChecksKept == ASSUME StartupInv, CommandChecks PROVE StartupInv'
<1>1. stage = "identity" /\ stage' = (IF running.plan = "explicit" THEN "started" ELSE "failed")
      /\ UNCHANGED <<artifact, text, original, want, via, running>>
  BY DEF CommandChecks
<1>2. (want = NoSide \/ want \in Nat)' /\ (original.listen \in Addresses)' /\ (artifact \in {"macos", "linux", "windows"} /\ (via = "command" => artifact # "windows"))'
  BY <1>1 DEF StartupInv
<1>3. CASE via # "command" BY <1>1, <1>2, <1>3 DEF StartupInv, PassedIsUsable
<1>4. CASE via = "command"
  BY <1>1, <1>2, <1>4 DEF StartupInv, CommandPassed, AskedListen, plan, Loaded, platform_default, RunsAsFile,
     PassedIsUsable
<1> QED BY <1>3, <1>4

(* Every step of a start keeps the invariant. *)
LEMMA StartupInductive == ASSUME StartupInv, [StartupNext]_startupVars PROVE StartupInv'
<1>1. CASE UNCHANGED startupVars
  BY <1>1 DEF startupVars, StartupInv, CommandPassed, AskedListen, RunsAsFile, PassedIsUsable, plan, Loaded,
     platform_default
<1> QED BY <1>1, CommandReadsKept, BrokerLoadsKept, CommandChecksKept DEF StartupNext

-----------------------------------------------------------------------------
(* The configuration files. *)

(* A hook policy. *)
HookSets == [context : BOOLEAN, override : {"none", "on", "off"}, enabled : BOOLEAN]
(* A hook policy, or none. *)
AnyHooks == HookSets \cup {NoHooks}
(* The ports a configuration names. *)
HomePorts == Nat \ {0}
(* The points between which a configuring command can be interrupted. *)
SetterSteps == {"begin", "ok", "failed", "load", "config", "exists", "policy", "port", "rewrite",
                "reuse", "restart", "stop", "get", "put"}
(* The locals of a configuring command. *)
SetterRecords == [op : {"none", "start", "context", "harness", "stop"}, pc : SetterSteps, arg : Nat,
                  conf : Nat, hooks : AnyHooks, solo : BOOLEAN]
(* Files, broker and the locals of the commands have their types. *)
HomeTyped ==
    /\ conf \in Nat /\ pol \in AnyHooks
    /\ srv \in [up : BOOLEAN, port : Nat, hooks : AnyHooks]
    /\ set \in [Setters -> SetterRecords]
    /\ ran \in Nat /\ hFaults \in Nat
    /\ gone \in [drifted : BOOLEAN, rewritten : BOOLEAN]

(* Alone means alone. *)
Alone == \A c, d \in Setters : set[c].solo /\ Acting(c) /\ Acting(d) => c = d

(* The points behind the first checks. *)
PastChecks == {"port", "rewrite", "reuse", "restart", "get", "put"}
(* There both files exist, and a running broker has both. *)
FilesExist ==
    /\ srv.up => conf # NoFile /\ pol # NoHooks /\ srv.hooks # NoHooks
    /\ \A c \in Setters :
        /\ set[c].pc \in PastChecks => pol # NoHooks
        /\ set[c].pc \in PastChecks \cup {"exists", "policy"} => conf # NoFile

(* What a command carries between its steps. *)
SetterHolds(c) ==
    /\ set[c].pc \in {"config", "exists"} => set[c].conf # NoFile /\ set[c].hooks # NoHooks /\ (pol # NoHooks \/ set[c].hooks = PackagedHooks)
    /\ set[c].pc = "policy" => set[c].hooks = PackagedHooks
    /\ set[c].pc \in {"rewrite", "restart"} => set[c].op = "start" /\ set[c].arg # NoPort /\ set[c].conf = set[c].arg
    /\ set[c].pc = "put" => set[c].hooks # NoHooks
    /\ set[c].pc \in {"get", "put"} => set[c].op \in {"context", "harness"}
    /\ set[c].pc = "stop" => set[c].op = "stop"
    /\ set[c].pc \in {"load", "config", "exists", "policy"} \cup PastChecks => set[c].op \in {"start", "context", "harness"}
    /\ set[c].solo =>
        /\ set[c].pc = "config" => conf = NoFile
        /\ set[c].pc = "reuse" /\ set[c].op = "start" /\ set[c].arg # NoPort => conf = set[c].arg
        /\ set[c].pc = "restart" => conf = set[c].arg
        /\ set[c].pc = "put" /\ srv.up => set[c].hooks = srv.hooks

(* The running broker listens where the file says unless a restart is due. *)
ListensAsFiled == srv.up /\ ~gone.drifted /\ (\A c \in Setters : set[c].pc # "restart") => srv.port = conf

(* The inductive invariant of the configuration files. *)
HomeInv == HomeTyped /\ Alone /\ FilesExist /\ (\A c \in Setters : SetterHolds(c)) /\ ListensAsFiled /\ PolicyOnDisk

(* The packaged policy is a policy. *)
LEMMA HooksTyped == PackagedHooks \in HookSets /\ NoHooks \notin HookSets /\ PackagedHooks # NoHooks
  BY DEF PackagedHooks, HookSets, NoHooks

(* A home with or without the two files, and no broker, satisfies it. *)
LEMMA HomeInitial == ASSUME HomeConfigAssumption, HomeInit PROVE HomeInv
<1>1. conf \in Nat BY DEF HomeInit, NoFile, PackagedPort
<1>2. pol \in AnyHooks BY DEF PackagedHooks, HookSets, HomeInit, AnyHooks
<1>3. SetterIdle \in SetterRecords BY DEF SetterIdle, SetterRecords, SetterSteps, NoFile, AnyHooks
<1>4. \A c \in Setters : set[c] = SetterIdle BY DEF HomeInit
<1>5. SetterIdle.pc = "begin" BY DEF SetterIdle
<1>6. srv = [up |-> FALSE, port |-> 0, hooks |-> NoHooks] /\ srv.up = FALSE BY DEF HomeInit
<1>7. HomeTyped BY <1>1, <1>2, <1>3, <1>6 DEF HomeInit, HomeTyped, AnyHooks
<1>8. \A c \in Setters : set[c].pc = "begin" BY <1>4, <1>5
<1>9. \A c \in Setters : SetterHolds(c) BY <1>8 DEF SetterHolds, PastChecks
<1> QED BY <1>6, <1>7, <1>8, <1>9 DEF HomeInv, Alone, Acting, FilesExist, PastChecks, ListensAsFiled, PolicyOnDisk

(* Only one command moves. *)
OnlyMoves(c) == set' \in [Setters -> SetterRecords] /\ \A d \in Setters \ {c} : set'[d] = set[d]
(* A command keeps its locals. *)
Kept(c) == /\ set'[c].op = set[c].op /\ set'[c].arg = set[c].arg /\ set'[c].conf = set[c].conf
           /\ set'[c].hooks = set[c].hooks /\ set'[c].solo = set[c].solo

(* Turn moves one command to the given point. *)
LEMMA SetterTurns ==
    ASSUME HomeTyped, NEW c \in Setters, NEW p \in SetterSteps, Turn(c, p)
    PROVE  OnlyMoves(c) /\ set'[c].pc = p /\ (p \notin {"ok", "failed"} => Kept(c))
<1>1. set[c] \in SetterRecords /\ SetterIdle \in SetterRecords
  BY DEF HomeTyped, SetterIdle, SetterRecords, SetterSteps, NoFile, AnyHooks
<1> DEFINE r == IF p \in {"ok", "failed"} THEN [SetterIdle EXCEPT !.pc = p] ELSE [set[c] EXCEPT !.pc = p]
<1>2. set' = [set EXCEPT ![c] = r] BY DEF Turn
<1>3. \A q \in SetterRecords : [q EXCEPT !.pc = p] \in SetterRecords BY DEF SetterRecords
<1>4. r \in SetterRecords BY <1>1, <1>3, Zenon
<1>5. \A q \in SetterRecords : LET n == [q EXCEPT !.pc = p] IN n.pc = p /\ n.op = q.op /\ n.arg = q.arg /\ n.conf = q.conf /\ n.hooks = q.hooks /\ n.solo = q.solo
  BY DEF SetterRecords
<1>6. r.pc = p BY <1>1, <1>5, Zenon
<1>7. p \notin {"ok", "failed"} => r.op = set[c].op /\ r.arg = set[c].arg /\ r.conf = set[c].conf /\ r.hooks = set[c].hooks /\ r.solo = set[c].solo
  BY <1>1, <1>5, Zenon
<1> HIDE DEF r
<1>8. set' \in [Setters -> SetterRecords] /\ set'[c] = r /\ \A d \in Setters \ {c} : set'[d] = set[d]
  BY <1>2, <1>4 DEF HomeTyped
<1> QED BY <1>6, <1>7, <1>8 DEF OnlyMoves, Kept

(* Obligations of a command's step to the invariant. *)
LEMMA SetterStepKept ==
    ASSUME HomeInv, NEW c \in Setters, OnlyMoves(c), Acting(c), HomeTyped',
           Acting(c)' => set'[c].solo = set[c].solo,
           conf # NoFile => conf' # NoFile, pol # NoHooks => pol' # NoHooks,
           set'[c].pc \in PastChecks => pol' # NoHooks,
           set'[c].pc \in PastChecks \cup {"exists", "policy"} => conf' # NoFile,
           srv'.up => conf' # NoFile /\ pol' # NoHooks /\ srv'.hooks # NoHooks,
           SetterHolds(c)', ListensAsFiled', PolicyOnDisk'
    PROVE  HomeInv'
<1>1. \A d \in Setters \ {c} : set'[d] = set[d] BY DEF OnlyMoves
<1>2. Alone' BY <1>1 DEF HomeInv, Alone, Acting
<1>3. FilesExist' BY <1>1 DEF HomeInv, FilesExist
<1>4. ASSUME NEW d \in Setters, d # c PROVE SetterHolds(d)'
  BY <1>1, <1>4 DEF HomeInv, Alone, SetterHolds, PastChecks, Acting
<1>5. \A d \in Setters : SetterHolds(d)' BY <1>4
<1> QED BY <1>2, <1>3, <1>5 DEF HomeInv

(* A step that leaves files and broker alone leaves Listens. *)
LEMMA ListensStay == ASSUME HomeInv, NEW c \in Setters, OnlyMoves(c), set[c].pc # "restart", UNCHANGED <<conf, srv, gone>> PROVE ListensAsFiled'
<1>1. (\A d \in Setters : set'[d].pc # "restart") => \A d \in Setters : set[d].pc # "restart" BY DEF OnlyMoves
<1> QED BY <1>1 DEF HomeInv, ListensAsFiled

(* A command's locals with another point. *)
LEMMA PcSet == \A q \in SetterRecords, p \in SetterSteps :
    LET n == [q EXCEPT !.pc = p] IN n \in SetterRecords /\ n.pc = p /\ n.op = q.op /\ n.arg = q.arg /\ n.conf = q.conf /\ n.hooks = q.hooks /\ n.solo = q.solo
<1>1. \A q \in SetterRecords, p \in SetterSteps : [q EXCEPT !.pc = p] \in SetterRecords BY DEF SetterRecords
<1>2. \A q \in SetterRecords, p \in SetterSteps : LET n == [q EXCEPT !.pc = p] IN n.pc = p /\ n.op = q.op /\ n.arg = q.arg /\ n.conf = q.conf /\ n.hooks = q.hooks /\ n.solo = q.solo
  BY DEF SetterRecords
<1> QED BY <1>1, <1>2, Zenon

(* A command's locals with another configuration. *)
LEMMA ConfSet == \A q \in SetterRecords, x \in Nat :
    LET n == [q EXCEPT !.conf = x] IN n \in SetterRecords /\ n.pc = q.pc /\ n.op = q.op /\ n.arg = q.arg /\ n.conf = x /\ n.hooks = q.hooks /\ n.solo = q.solo
<1>1. \A q \in SetterRecords, x \in Nat : [q EXCEPT !.conf = x] \in SetterRecords BY DEF SetterRecords
<1>2. \A q \in SetterRecords, x \in Nat : LET n == [q EXCEPT !.conf = x] IN n.pc = q.pc /\ n.op = q.op /\ n.arg = q.arg /\ n.conf = x /\ n.hooks = q.hooks /\ n.solo = q.solo
  BY DEF SetterRecords
<1> QED BY <1>1, <1>2, Zenon

(* A command's locals with another policy. *)
LEMMA HooksSet == \A q \in SetterRecords, h \in AnyHooks :
    LET n == [q EXCEPT !.hooks = h] IN n \in SetterRecords /\ n.pc = q.pc /\ n.op = q.op /\ n.arg = q.arg /\ n.conf = q.conf /\ n.hooks = h /\ n.solo = q.solo
<1>1. \A q \in SetterRecords, h \in AnyHooks : [q EXCEPT !.hooks = h] \in SetterRecords BY DEF SetterRecords
<1>2. \A q \in SetterRecords, h \in AnyHooks : LET n == [q EXCEPT !.hooks = h] IN n.pc = q.pc /\ n.op = q.op /\ n.arg = q.arg /\ n.conf = q.conf /\ n.hooks = h /\ n.solo = q.solo
  BY DEF SetterRecords
<1> QED BY <1>1, <1>2, Zenon

(* Only one command's locals are replaced. *)
LEMMA Replaced == ASSUME HomeTyped, NEW c \in Setters, NEW r \in SetterRecords, set' = [set EXCEPT ![c] = r]
    PROVE OnlyMoves(c) /\ set'[c] = r
  BY DEF HomeTyped, OnlyMoves

(* What parsing gives: the files, or the packaged values for the missing *)
(* ones.                                                                 *)
LEMMA ParsedTyped == ASSUME HomeTyped PROVE Parsed.conf \in HomePorts /\ Parsed.hooks \in HookSets /\ (conf # NoFile => Parsed.conf = conf)
       /\ (pol # NoHooks => Parsed.hooks = pol) /\ (pol = NoHooks => Parsed.hooks = PackagedHooks)
<1>1. conf \in Nat /\ pol \in AnyHooks BY DEF HomeTyped
<1>2. Parsed.conf = (IF conf = NoFile THEN PackagedPort ELSE conf) /\ Parsed.hooks = (IF pol = NoHooks THEN PackagedHooks ELSE pol)
  BY DEF Parsed
<1>3. Parsed.conf \in HomePorts BY <1>1, <1>2 DEF NoFile, PackagedPort, HomePorts
<1>4. Parsed.hooks \in HookSets BY <1>1, <1>2, HooksTyped DEF AnyHooks
<1> QED BY <1>2, <1>3, <1>4

(* The command reads both files (command.rs). *)
LEMMA LoadFilesKept == ASSUME HomeInv, NEW c \in Setters, LoadFiles(c) PROVE HomeInv'
<1>1. HomeTyped /\ set[c].pc = "load" /\ UNCHANGED <<conf, pol, srv, ran, gone, hFaults>> BY DEF HomeInv, LoadFiles
<1> DEFINE p == IF conf = NoFile THEN "config" ELSE "exists"
           r1 == [set[c] EXCEPT !.conf = Parsed.conf]
           r2 == [r1 EXCEPT !.hooks = Parsed.hooks]
           r == [r2 EXCEPT !.pc = p]
<1>2. set' = [set EXCEPT ![c] = r] BY DEF LoadFiles
<1>3. set[c] \in SetterRecords /\ p \in SetterSteps /\ Parsed.conf \in Nat /\ Parsed.hooks \in AnyHooks
  BY <1>1, ParsedTyped DEF HomeTyped, SetterSteps, HomePorts, AnyHooks
<1>4. r \in SetterRecords /\ r.pc = p /\ r.op = set[c].op /\ r.conf = Parsed.conf /\ r.hooks = Parsed.hooks /\ r.solo = set[c].solo
  <2>1. r1 \in SetterRecords /\ r1.op = set[c].op /\ r1.conf = Parsed.conf /\ r1.solo = set[c].solo
    BY <1>3, ConfSet, Zenon
  <2> HIDE DEF r1
  <2>2. r2 \in SetterRecords /\ r2.op = set[c].op /\ r2.conf = Parsed.conf /\ r2.hooks = Parsed.hooks /\ r2.solo = set[c].solo
    BY <1>3, <2>1, HooksSet, Zenon
  <2> HIDE DEF r2, p
  <2> QED BY <1>3, <2>2, PcSet, Zenon
<1> HIDE DEF r
<1>5. OnlyMoves(c) /\ set'[c] = r BY <1>1, <1>2, <1>4, Replaced
<1>6. HomeTyped' BY <1>1, <1>5 DEF HomeTyped, OnlyMoves
<1>12. SetterHolds(c) BY DEF HomeInv
<1>7. SetterHolds(c)' BY <1>1, <1>4, <1>5, <1>12, ParsedTyped, HooksTyped DEF SetterHolds, PastChecks, HomePorts, NoFile
<1>8. ListensAsFiled' BY <1>1, <1>5, ListensStay
<1>9. PolicyOnDisk' BY <1>1 DEF HomeInv, PolicyOnDisk
<1>10. srv.up => conf # NoFile /\ pol # NoHooks /\ srv.hooks # NoHooks BY DEF HomeInv, FilesExist
<1>11. Acting(c) /\ p \notin PastChecks \cup {"policy"} BY <1>1 DEF Acting, PastChecks
<1> QED BY <1>1, <1>4, <1>5, <1>6, <1>7, <1>8, <1>9, <1>10, <1>11, SetterStepKept

(* It writes a missing broker.toml. *)
LEMMA WriteBrokerConfigKept == ASSUME HomeInv, NEW c \in Setters, WriteBrokerConfig(c) PROVE HomeInv'
<1>1. HomeTyped /\ set[c].pc = "config" /\ UNCHANGED <<pol, srv, ran, hFaults>> /\ conf' = set[c].conf
      /\ Turn(c, "exists") /\ gone' = [gone EXCEPT !.drifted = @ \/ ~set[c].solo]
  BY DEF HomeInv, WriteBrokerConfig, Drift
<1>2. OnlyMoves(c) /\ set'[c].pc = "exists" /\ Kept(c) BY <1>1, SetterTurns DEF SetterSteps
<1>3. set[c] \in SetterRecords BY <1>1 DEF HomeTyped
<1>4. set[c].conf \in Nat /\ set[c].solo \in BOOLEAN BY <1>3 DEF SetterRecords
<1>5. gone'.drifted = (gone.drifted \/ ~set[c].solo) /\ gone'.rewritten = gone.rewritten /\ gone' \in [drifted : BOOLEAN, rewritten : BOOLEAN]
  BY <1>1, <1>4 DEF HomeTyped
<1>6. HomeTyped' BY <1>1, <1>2, <1>4, <1>5 DEF HomeTyped, OnlyMoves
<1>7. SetterHolds(c) BY DEF HomeInv
<1>8. set[c].conf # NoFile /\ set[c].hooks # NoHooks /\ (pol # NoHooks \/ set[c].hooks = PackagedHooks)
  BY <1>1, <1>7 DEF SetterHolds, PastChecks
<1>9. SetterHolds(c)' BY <1>1, <1>2, <1>7, <1>8 DEF SetterHolds, PastChecks, Kept
<1>10. srv.up => conf # NoFile /\ pol # NoHooks /\ srv.hooks # NoHooks BY DEF HomeInv, FilesExist
<1>11. set[c].solo => ~srv.up BY <1>1, <1>7, <1>10 DEF SetterHolds, PastChecks
<1>12. ListensAsFiled' BY <1>1, <1>5, <1>11 DEF ListensAsFiled
<1>13. PolicyOnDisk' BY <1>1, <1>5 DEF HomeInv, PolicyOnDisk
<1>14. Acting(c) /\ "exists" \notin PastChecks BY <1>1 DEF Acting, PastChecks
<1> QED BY <1>1, <1>2, <1>6, <1>8, <1>9, <1>10, <1>12, <1>13, <1>14, SetterStepKept DEF Kept

(* It looks for the policy file again. *)
LEMMA PolicyExistsKept == ASSUME HomeInv, NEW c \in Setters, PolicyExists(c) PROVE HomeInv'
<1> DEFINE p == IF pol = NoHooks THEN "policy" ELSE "port"
<1>1. HomeTyped /\ set[c].pc = "exists" /\ UNCHANGED <<conf, pol, srv, ran, gone, hFaults>> /\ Turn(c, p)
  BY DEF HomeInv, PolicyExists
<1>2. OnlyMoves(c) /\ set'[c].pc = p /\ Kept(c) BY <1>1, SetterTurns DEF SetterSteps
<1>3. HomeTyped' BY <1>1, <1>2 DEF HomeTyped, OnlyMoves
<1>4. SetterHolds(c) BY DEF HomeInv
<1>5. SetterHolds(c)' BY <1>1, <1>2, <1>4 DEF SetterHolds, PastChecks, Kept
<1>6. ListensAsFiled' BY <1>1, <1>2, ListensStay
<1>7. PolicyOnDisk' BY <1>1 DEF HomeInv, PolicyOnDisk
<1>8. srv.up => conf # NoFile /\ pol # NoHooks /\ srv.hooks # NoHooks BY DEF HomeInv, FilesExist
<1>9. conf # NoFile BY <1>1 DEF HomeInv, FilesExist
<1>10. Acting(c) /\ (p \in PastChecks => pol # NoHooks) BY <1>1 DEF Acting, PastChecks
<1> QED BY <1>1, <1>2, <1>3, <1>5, <1>6, <1>7, <1>8, <1>9, <1>10, SetterStepKept DEF Kept

(* It writes a policy file that was missing. *)
LEMMA WritePolicyKept == ASSUME HomeInv, NEW c \in Setters, WritePolicy(c) PROVE HomeInv'
<1>1. HomeTyped /\ set[c].pc = "policy" /\ UNCHANGED <<conf, srv, ran, hFaults>> /\ pol' = set[c].hooks /\ Turn(c, "port")
      /\ gone' = [gone EXCEPT !.rewritten = @ \/ (pol # NoHooks /\ set[c].hooks = PackagedHooks)]
  BY DEF HomeInv, WritePolicy
<1>2. OnlyMoves(c) /\ set'[c].pc = "port" /\ Kept(c) BY <1>1, SetterTurns DEF SetterSteps
<1>3. SetterHolds(c) BY DEF HomeInv
<1>4. set[c].hooks = PackagedHooks BY <1>1, <1>3 DEF SetterHolds, PastChecks
<1>5. gone'.rewritten = (gone.rewritten \/ pol # NoHooks) /\ gone'.drifted = gone.drifted /\ gone' \in [drifted : BOOLEAN, rewritten : BOOLEAN]
  BY <1>1, <1>4 DEF HomeTyped
<1>6. HomeTyped' BY <1>1, <1>2, <1>4, <1>5, HooksTyped DEF HomeTyped, OnlyMoves, AnyHooks
<1>7. SetterHolds(c)' BY <1>1, <1>2, <1>3 DEF SetterHolds, PastChecks, Kept
<1>8. srv.up => conf # NoFile /\ pol # NoHooks /\ srv.hooks # NoHooks BY DEF HomeInv, FilesExist
<1>9. conf # NoFile BY <1>1 DEF HomeInv, FilesExist
<1>10. ListensAsFiled' BY <1>1, <1>2, <1>5 DEF OnlyMoves, HomeInv, ListensAsFiled
<1>11. PolicyOnDisk' BY <1>1, <1>5, <1>8 DEF PolicyOnDisk
<1>12. Acting(c) BY <1>1 DEF Acting
<1> QED BY <1>1, <1>2, <1>4, <1>6, <1>7, <1>8, <1>9, <1>10, <1>11, <1>12, HooksTyped, SetterStepKept DEF Kept

(* It compares the port asked for with the file's. *)
LEMMA ReadPortKept == ASSUME HomeInv, NEW c \in Setters, ReadPort(c) PROVE HomeInv'
<1>1. HomeTyped /\ set[c].pc = "port" /\ UNCHANGED <<conf, pol, srv, ran, gone, hFaults>> BY DEF HomeInv, ReadPort
<1> DEFINE wanted == IF set[c].op = "start" /\ set[c].arg # NoPort THEN set[c].arg ELSE Parsed.conf
           p == IF wanted # Parsed.conf THEN "rewrite" ELSE "reuse"
           r1 == [set[c] EXCEPT !.conf = wanted]
           r == [r1 EXCEPT !.pc = p]
<1>2. set' = [set EXCEPT ![c] = r] BY DEF ReadPort
<1>3. set[c] \in SetterRecords BY <1>1 DEF HomeTyped
<1>4. wanted \in Nat /\ p \in SetterSteps BY <1>1, <1>3, ParsedTyped DEF SetterRecords, SetterSteps, HomePorts
<1>5. r \in SetterRecords /\ r.pc = p /\ r.conf = wanted /\ r.op = set[c].op /\ r.arg = set[c].arg /\ r.solo = set[c].solo
  <2> HIDE DEF wanted, p
  <2>1. r1 \in SetterRecords /\ r1.conf = wanted /\ r1.op = set[c].op /\ r1.arg = set[c].arg /\ r1.solo = set[c].solo
    BY <1>3, <1>4, ConfSet, Zenon
  <2> HIDE DEF r1
  <2> QED BY <1>4, <2>1, PcSet, Zenon
<1> HIDE DEF r
<1>6. OnlyMoves(c) /\ set'[c] = r BY <1>1, <1>2, <1>5, Replaced
<1>7. HomeTyped' BY <1>1, <1>6 DEF HomeTyped, OnlyMoves
<1>8. conf # NoFile /\ pol # NoHooks BY <1>1 DEF HomeInv, FilesExist, PastChecks
<1>9. Parsed.conf = conf BY <1>1, <1>8, ParsedTyped
<1>10. p = "rewrite" => set[c].op = "start" /\ set[c].arg # NoPort /\ wanted = set[c].arg OBVIOUS
<1>11. p = "reuse" /\ set[c].op = "start" /\ set[c].arg # NoPort => conf = set[c].arg BY <1>9
<1>12. p \in {"rewrite", "reuse"} OBVIOUS
<1> HIDE DEF p, wanted
<1>18. SetterHolds(c) BY DEF HomeInv
<1>13. SetterHolds(c)' BY <1>1, <1>18, <1>5, <1>6, <1>10, <1>11, <1>12 DEF SetterHolds, PastChecks
<1>14. ListensAsFiled' BY <1>1, <1>6, ListensStay
<1>15. PolicyOnDisk' BY <1>1 DEF HomeInv, PolicyOnDisk
<1>16. srv.up => conf # NoFile /\ pol # NoHooks /\ srv.hooks # NoHooks BY DEF HomeInv, FilesExist
<1>17. Acting(c) BY <1>1 DEF Acting
<1> QED BY <1>1, <1>5, <1>6, <1>7, <1>8, <1>13, <1>14, <1>15, <1>16, <1>17, SetterStepKept

(* It writes the port asked for. *)
LEMMA WritePortKept == ASSUME HomeInv, NEW c \in Setters, WritePort(c) PROVE HomeInv'
<1>1. HomeTyped /\ set[c].pc = "rewrite" /\ UNCHANGED <<pol, srv, ran, hFaults>> /\ conf' = set[c].conf
      /\ Turn(c, "restart") /\ gone' = [gone EXCEPT !.drifted = @ \/ ~set[c].solo]
  BY DEF HomeInv, WritePort, Drift
<1>2. OnlyMoves(c) /\ set'[c].pc = "restart" /\ Kept(c) BY <1>1, SetterTurns DEF SetterSteps
<1>3. set[c] \in SetterRecords BY <1>1 DEF HomeTyped
<1>4. set[c].conf \in Nat /\ set[c].solo \in BOOLEAN BY <1>3 DEF SetterRecords
<1>5. gone'.drifted = (gone.drifted \/ ~set[c].solo) /\ gone'.rewritten = gone.rewritten /\ gone' \in [drifted : BOOLEAN, rewritten : BOOLEAN]
  BY <1>1, <1>4 DEF HomeTyped
<1>6. HomeTyped' BY <1>1, <1>2, <1>4, <1>5 DEF HomeTyped, OnlyMoves
<1>7. SetterHolds(c) BY DEF HomeInv
<1>8. set[c].op = "start" /\ set[c].arg # NoPort /\ set[c].conf = set[c].arg BY <1>1, <1>7 DEF SetterHolds, PastChecks
<1>9. SetterHolds(c)' BY <1>1, <1>2, <1>8 DEF SetterHolds, PastChecks, Kept
<1>10. conf # NoFile /\ pol # NoHooks BY <1>1 DEF HomeInv, FilesExist, PastChecks
<1>11. srv.up => srv.hooks # NoHooks BY DEF HomeInv, FilesExist
<1>12. ListensAsFiled' BY <1>2 DEF ListensAsFiled
<1>13. PolicyOnDisk' BY <1>1, <1>5 DEF HomeInv, PolicyOnDisk
<1>14. Acting(c) /\ conf' # NoFile BY <1>1, <1>8 DEF Acting, NoPort, NoFile
<1> QED BY <1>1, <1>2, <1>6, <1>9, <1>10, <1>11, <1>12, <1>13, <1>14, SetterStepKept DEF Kept

(* A launched broker has what the files say; a stopped one is down. *)
LEMMA ServerMoves == ASSUME HomeTyped PROVE
    /\ Launched \in [up : BOOLEAN, port : Nat, hooks : AnyHooks] /\ Launched.up /\ Launched.port = Parsed.conf /\ Launched.hooks = Parsed.hooks
    /\ LET s == [srv EXCEPT !.up = FALSE] IN s \in [up : BOOLEAN, port : Nat, hooks : AnyHooks] /\ ~s.up
<1>1. Parsed.conf \in Nat /\ Parsed.hooks \in AnyHooks BY ParsedTyped DEF HomePorts, AnyHooks
<1>2. srv \in [up : BOOLEAN, port : Nat, hooks : AnyHooks] BY DEF HomeTyped
<1> QED BY <1>1, <1>2 DEF Launched

(* It reuses the running broker, or starts or restarts one. *)
LEMMA StartOrReuseKept == ASSUME HomeInv, NEW c \in Setters, StartOrReuse(c) PROVE HomeInv'
<1>1. HomeTyped /\ set[c].pc \in {"reuse", "restart"} /\ UNCHANGED <<conf, pol, ran, gone, hFaults>>
  BY DEF HomeInv, StartOrReuse
<1>2. conf # NoFile /\ pol # NoHooks BY <1>1 DEF HomeInv, FilesExist, PastChecks
<1>3. srv.up => srv.hooks # NoHooks BY DEF HomeInv, FilesExist
<1>4. Acting(c) BY <1>1 DEF Acting
<1>5. Parsed.conf = conf /\ Parsed.hooks = pol BY <1>1, <1>2, ParsedTyped
<1>6. NextOf(c) \in {"ok", "get"} BY DEF NextOf
<1>7. CASE srv' = (IF srv.up /\ set[c].pc = "reuse" THEN srv ELSE Launched) /\ Turn(c, NextOf(c))
  <2>1. OnlyMoves(c) /\ set'[c].pc = NextOf(c) /\ (NextOf(c) = "get" => Kept(c))
    BY <1>1, <1>6, <1>7, SetterTurns DEF SetterSteps
  <2>2. srv' \in [up : BOOLEAN, port : Nat, hooks : AnyHooks] /\ srv'.hooks # NoHooks
    BY <1>1, <1>2, <1>3, <1>5, <1>7, ServerMoves DEF HomeTyped
  <2>3. HomeTyped' BY <1>1, <2>1, <2>2 DEF HomeTyped, OnlyMoves
  <2>10. SetterHolds(c) BY DEF HomeInv
  <2>6. SetterHolds(c)' BY <1>1, <2>10, <2>1, <1>6 DEF SetterHolds, PastChecks, Kept, NextOf
  <2>7. ListensAsFiled' BY <1>1, <1>5, <1>7, <2>1, ListensStay, ServerMoves DEF ListensAsFiled
  <2>8. PolicyOnDisk' BY <1>1, <1>5, <1>7, ServerMoves DEF HomeInv, PolicyOnDisk
  <2>9. Acting(c)' => set'[c].solo = set[c].solo BY <2>1, <1>6 DEF Acting, Kept
  <2> QED BY <1>1, <1>2, <1>4, <2>1, <2>2, <2>3, <2>6, <2>7, <2>8, <2>9, SetterStepKept
<1>8. CASE srv' = [srv EXCEPT !.up = FALSE] /\ Turn(c, "failed")
  BY <1>1, <1>2, <1>4, <1>8, SetterTurns, ServerMoves, SetterStepKept DEF SetterSteps, HomeTyped, OnlyMoves,
     SetterHolds, PastChecks, Acting, ListensAsFiled, PolicyOnDisk
<1> QED BY <1>7, <1>8 DEF StartOrReuse

(* A stop ends the broker. *)
LEMMA StopBrokerKept == ASSUME HomeInv, NEW c \in Setters, StopBroker(c) PROVE HomeInv'
<1>1. HomeTyped /\ set[c].pc = "stop" /\ UNCHANGED <<conf, pol, ran, gone, hFaults>> /\ srv' = [srv EXCEPT !.up = FALSE] /\ Turn(c, "ok")
  BY DEF HomeInv, StopBroker
<1>2. OnlyMoves(c) /\ set'[c].pc = "ok" BY <1>1, SetterTurns DEF SetterSteps
<1>3. srv' \in [up : BOOLEAN, port : Nat, hooks : AnyHooks] /\ ~srv'.up BY <1>1, ServerMoves
<1>4. HomeTyped' BY <1>1, <1>2, <1>3 DEF HomeTyped, OnlyMoves
<1>5. SetterHolds(c)' /\ ~Acting(c)' /\ Acting(c) BY <1>1, <1>2 DEF SetterHolds, PastChecks, Acting
<1>6. ListensAsFiled' /\ PolicyOnDisk' BY <1>3 DEF ListensAsFiled, PolicyOnDisk
<1>7. set'[c].pc \notin PastChecks \cup {"exists", "policy"} BY <1>2 DEF PastChecks
<1> QED BY <1>1, <1>2, <1>3, <1>4, <1>5, <1>6, <1>7, SetterStepKept

(* It fetches the policy in force from the broker. *)
LEMMA GetHooksKept == ASSUME HomeInv, NEW c \in Setters, GetHooks(c) PROVE HomeInv'
<1>1. HomeTyped /\ set[c].pc = "get" /\ UNCHANGED <<conf, pol, srv, ran, gone, hFaults>> BY DEF HomeInv, GetHooks
<1>2. conf # NoFile /\ pol # NoHooks /\ Acting(c) BY <1>1 DEF HomeInv, FilesExist, PastChecks, Acting
<1>3. srv.up => srv.hooks # NoHooks BY DEF HomeInv, FilesExist
<1>4. PolicyOnDisk' BY <1>1 DEF HomeInv, PolicyOnDisk
<1>5. SetterHolds(c) BY DEF HomeInv
<1>6. CASE srv.up
  <2> DEFINE r1 == [set[c] EXCEPT !.hooks = srv.hooks]
             r == [r1 EXCEPT !.pc = "put"]
  <2>1. set' = [set EXCEPT ![c] = r] BY <1>6 DEF GetHooks
  <2>2. set[c] \in SetterRecords /\ srv.hooks \in AnyHooks /\ "put" \in SetterSteps BY <1>1 DEF HomeTyped, SetterSteps
  <2>3. r1 \in SetterRecords /\ r1.hooks = srv.hooks /\ r1.solo = set[c].solo /\ r1.op = set[c].op
    BY <2>2, HooksSet, Zenon
  <2> HIDE DEF r1
  <2>4. r \in SetterRecords /\ r.hooks = srv.hooks /\ r.solo = set[c].solo /\ r.op = set[c].op /\ r.pc = "put"
    BY <2>2, <2>3, PcSet, Zenon
  <2> HIDE DEF r
  <2>5. OnlyMoves(c) /\ set'[c] = r BY <1>1, <2>1, <2>4, Replaced
  <2>6. HomeTyped' BY <1>1, <2>5 DEF HomeTyped, OnlyMoves
  <2>7. SetterHolds(c)' BY <1>1, <1>3, <1>5, <1>6, <2>4, <2>5 DEF SetterHolds, PastChecks
  <2>8. ListensAsFiled' BY <1>1, <2>5, ListensStay
  <2> QED BY <1>1, <1>2, <1>3, <1>4, <2>4, <2>5, <2>6, <2>7, <2>8, SetterStepKept
<1>7. CASE Turn(c, "failed")
  <2>1. OnlyMoves(c) /\ set'[c].pc = "failed" BY <1>1, <1>7, SetterTurns DEF SetterSteps
  <2>2. HomeTyped' BY <1>1, <2>1 DEF HomeTyped, OnlyMoves
  <2>3. SetterHolds(c)' /\ ~Acting(c)' BY <2>1 DEF SetterHolds, PastChecks, Acting
  <2>4. ListensAsFiled' BY <1>1, <2>1, ListensStay
  <2> QED BY <1>1, <1>2, <1>3, <1>4, <2>1, <2>2, <2>3, <2>4, SetterStepKept
<1> QED BY <1>6, <1>7 DEF GetHooks

(* The changed policy differs in what the command names and in nothing *)
(* else.                                                               *)
LEMMA ChangedTyped == ASSUME HomeTyped, NEW c \in Setters, set[c].hooks \in HookSets PROVE
    /\ Changed(c) \in HookSets
    /\ set[c].op = "context" => /\ Changed(c).context = (set[c].arg = 1) /\ Changed(c).enabled = set[c].hooks.enabled
                                /\ Changed(c).override \in {"none", IF set[c].arg = 1 THEN "on" ELSE "off"}
    /\ set[c].op # "context" => Changed(c) = [set[c].hooks EXCEPT !.enabled = set[c].arg = 1]
<1> DEFINE on == set[c].arg = 1  h == set[c].hooks
           o == IF h.override = "none" THEN "none" ELSE IF on THEN "on" ELSE "off"
<1>1. h \in HookSets /\ on \in BOOLEAN /\ o \in {"none", "on", "off"} /\ o \in {"none", IF on THEN "on" ELSE "off"} OBVIOUS
<1>2. set_context_capture(h, on) = [h EXCEPT !.context = on, !.override = o] BY DEF set_context_capture
<1>3. set[c].op = "context" => Changed(c) = [h EXCEPT !.context = on, !.override = o] BY <1>2 DEF Changed
<1>4. set[c].op # "context" => Changed(c) = [h EXCEPT !.enabled = on] BY DEF Changed
<1> HIDE DEF h, on, o
<1>5. LET n == [h EXCEPT !.context = on, !.override = o] IN n \in HookSets /\ n.context = on /\ n.override = o /\ n.enabled = h.enabled
  BY <1>1 DEF HookSets
<1>6. [h EXCEPT !.enabled = on] \in HookSets BY <1>1 DEF HookSets
<1>7. Changed(c) \in HookSets BY <1>3, <1>4, <1>5, <1>6
<1>8. set[c].op = "context" => Changed(c).context = on /\ Changed(c).enabled = h.enabled /\ Changed(c).override \in {"none", IF on THEN "on" ELSE "off"}
  BY <1>1, <1>3, <1>5
<1> QED BY <1>4, <1>7, <1>8 DEF h, on

(* It sends the changed policy, which the broker saves and applies *)
(* (runtime_config.rs).                                            *)
LEMMA PutHooksKept == ASSUME HomeInv, NEW c \in Setters, PutHooks(c) PROVE HomeInv'
<1>1. HomeTyped /\ set[c].pc = "put" /\ UNCHANGED <<conf, ran, gone, hFaults>> BY DEF HomeInv, PutHooks
<1>2. conf # NoFile /\ pol # NoHooks /\ Acting(c) BY <1>1 DEF HomeInv, FilesExist, PastChecks, Acting
<1>3. srv.up => srv.hooks # NoHooks BY DEF HomeInv, FilesExist
<1>4. SetterHolds(c) BY DEF HomeInv
<1>5. set[c].hooks \in HookSets BY <1>1, <1>4 DEF HomeTyped, SetterHolds, PastChecks, SetterRecords, AnyHooks
<1>6. Changed(c) \in HookSets BY <1>1, <1>5, ChangedTyped
<1> DEFINE n == Changed(c)
<1>7. n \in AnyHooks /\ n # NoHooks BY <1>6, HooksTyped DEF AnyHooks
<1>8. CASE srv.up
  <2>1. pol' = n /\ srv' = [srv EXCEPT !.hooks = n] /\ Turn(c, "ok") BY <1>8 DEF PutHooks
  <2> HIDE DEF n
  <2>2. OnlyMoves(c) /\ set'[c].pc = "ok" BY <1>1, <2>1, SetterTurns DEF SetterSteps
  <2>3. srv' \in [up : BOOLEAN, port : Nat, hooks : AnyHooks] /\ srv'.hooks = n /\ srv'.up = srv.up /\ srv'.port = srv.port
    BY <1>1, <1>7, <2>1 DEF HomeTyped
  <2>4. HomeTyped' BY <1>1, <1>7, <2>1, <2>2, <2>3 DEF HomeTyped, OnlyMoves
  <2>5. SetterHolds(c)' /\ ~Acting(c)' BY <2>2 DEF SetterHolds, PastChecks, Acting
  <2>6. ListensAsFiled' BY <1>1, <2>2, <2>3 DEF OnlyMoves, HomeInv, ListensAsFiled
  <2>7. PolicyOnDisk' BY <2>1, <2>3 DEF PolicyOnDisk
  <2> QED BY <1>1, <1>2, <1>7, <2>1, <2>2, <2>3, <2>4, <2>5, <2>6, <2>7, SetterStepKept
<1>9. CASE ~srv.up
  BY <1>1, <1>2, <1>3, <1>9, SetterTurns, SetterStepKept DEF PutHooks, SetterSteps, HomeTyped, OnlyMoves,
     SetterHolds, PastChecks, Acting, ListensAsFiled, PolicyOnDisk
<1> QED BY <1>8, <1>9

(* A command is killed. *)
LEMMA KilledKept == ASSUME HomeInv, NEW c \in Setters, Killed(c) PROVE HomeInv'
<1>1. HomeTyped /\ Acting(c) /\ UNCHANGED <<conf, pol, srv, ran>> /\ hFaults' = hFaults + 1 /\ Turn(c, "failed")
      /\ gone' = [gone EXCEPT !.drifted = @ \/ set[c].pc = "restart"]
  BY DEF HomeInv, Killed, Drift
<1>2. OnlyMoves(c) /\ set'[c].pc = "failed" BY <1>1, SetterTurns DEF SetterSteps
<1>3. gone'.drifted = (gone.drifted \/ set[c].pc = "restart") /\ gone'.rewritten = gone.rewritten /\ gone' \in [drifted : BOOLEAN, rewritten : BOOLEAN]
  BY <1>1 DEF HomeTyped
<1>4. HomeTyped' BY <1>1, <1>2, <1>3 DEF HomeTyped, OnlyMoves
<1>5. SetterHolds(c)' /\ ~Acting(c)' BY <1>2 DEF SetterHolds, PastChecks, Acting
<1>6. ListensAsFiled' BY <1>1, <1>2, <1>3 DEF ListensAsFiled, OnlyMoves, HomeInv
<1>7. PolicyOnDisk' BY <1>1, <1>3 DEF HomeInv, PolicyOnDisk
<1>8. srv.up => conf # NoFile /\ pol # NoHooks /\ srv.hooks # NoHooks BY DEF HomeInv, FilesExist
<1>9. set'[c].pc \notin PastChecks \cup {"exists", "policy"} BY <1>2 DEF PastChecks
<1> QED BY <1>1, <1>2, <1>4, <1>5, <1>6, <1>7, <1>8, <1>9, SetterStepKept

(* A command's locals with another operation. *)
LEMMA OpSet == \A q \in SetterRecords, o \in {"start", "context", "harness", "stop"} :
    LET n == [q EXCEPT !.op = o] IN n \in SetterRecords /\ n.pc = q.pc /\ n.op = o /\ n.arg = q.arg /\ n.conf = q.conf /\ n.hooks = q.hooks /\ n.solo = q.solo
<1>1. \A q \in SetterRecords, o \in {"start", "context", "harness", "stop"} : [q EXCEPT !.op = o] \in SetterRecords
  BY DEF SetterRecords
<1>2. \A q \in SetterRecords, o \in {"start", "context", "harness", "stop"} : LET n == [q EXCEPT !.op = o] IN n.pc = q.pc /\ n.op = o /\ n.arg = q.arg /\ n.conf = q.conf /\ n.hooks = q.hooks /\ n.solo = q.solo
  BY DEF SetterRecords
<1> QED BY <1>1, <1>2, Zenon

(* A command's locals with another argument. *)
LEMMA ArgSet == \A q \in SetterRecords, a \in Nat :
    LET n == [q EXCEPT !.arg = a] IN n \in SetterRecords /\ n.pc = q.pc /\ n.op = q.op /\ n.arg = a /\ n.conf = q.conf /\ n.hooks = q.hooks /\ n.solo = q.solo
<1>1. \A q \in SetterRecords, a \in Nat : [q EXCEPT !.arg = a] \in SetterRecords BY DEF SetterRecords
<1>2. \A q \in SetterRecords, a \in Nat : LET n == [q EXCEPT !.arg = a] IN n.pc = q.pc /\ n.op = q.op /\ n.arg = a /\ n.conf = q.conf /\ n.hooks = q.hooks /\ n.solo = q.solo
  BY DEF SetterRecords
<1> QED BY <1>1, <1>2, Zenon

(* A command's locals, undisturbed or not. *)
LEMMA SoloSet == \A q \in SetterRecords, b \in BOOLEAN :
    LET n == [q EXCEPT !.solo = b] IN n \in SetterRecords /\ n.pc = q.pc /\ n.op = q.op /\ n.arg = q.arg /\ n.conf = q.conf /\ n.hooks = q.hooks /\ n.solo = b
<1>1. \A q \in SetterRecords, b \in BOOLEAN : [q EXCEPT !.solo = b] \in SetterRecords BY DEF SetterRecords
<1>2. \A q \in SetterRecords, b \in BOOLEAN : LET n == [q EXCEPT !.solo = b] IN n.pc = q.pc /\ n.op = q.op /\ n.arg = q.arg /\ n.conf = q.conf /\ n.hooks = q.hooks /\ n.solo = b
  BY DEF SetterRecords
<1> QED BY <1>1, <1>2, Zenon

(* What a command that begins does to the others. *)
BegunWith(c) ==
    /\ set' \in [Setters -> SetterRecords]
    /\ set'[c].pc \in {"load", "stop"} /\ set'[c].op \in {"start", "context", "harness", "stop"}
    /\ (set'[c].pc = "stop") = (set'[c].op = "stop")
    /\ set'[c].solo => \A e \in Setters : ~Acting(e)
    /\ \A d \in Setters \ {c} :
        /\ set'[d].op = set[d].op /\ set'[d].pc = set[d].pc /\ set'[d].arg = set[d].arg /\ set'[d].conf = set[d].conf /\ set'[d].hooks = set[d].hooks
        /\ Acting(d) => ~set'[d].solo

(* BeginSet begins one command, and no other is alone from then on. *)
LEMMA SetterBegins == ASSUME HomeConfigAssumption, HomeTyped, NEW c \in Setters, BeginSet(c) PROVE BegunWith(c)
<1> DEFINE b == \A e \in Setters : ~Acting(e)
<1>1. PICK op \in {"start", "context", "harness", "stop"}, arg \in {NoPort} \cup ProxyPorts :
    set' = [d \in Setters |->
            IF d = c THEN [SetterIdle EXCEPT !.op = op, !.arg = arg, !.solo = b, !.pc = IF op = "stop" THEN "stop" ELSE "load"]
            ELSE IF Acting(d) THEN [set[d] EXCEPT !.solo = FALSE] ELSE set[d]]
  BY DEF BeginSet
<1> DEFINE p == IF op = "stop" THEN "stop" ELSE "load"
           n == [SetterIdle EXCEPT !.op = op, !.arg = arg, !.solo = b, !.pc = p]
           other(d) == IF Acting(d) THEN [set[d] EXCEPT !.solo = FALSE] ELSE set[d]
<1>2. arg \in Nat BY DEF HomeConfigAssumption, NoPort
<1>3. b \in BOOLEAN /\ p \in SetterSteps BY DEF SetterSteps
<1>4. p \in {"load", "stop"} /\ (p = "stop") = (op = "stop") OBVIOUS
<1> HIDE DEF p
<1>5. n \in SetterRecords /\ n.op = op /\ n.solo = b /\ n.pc = p
  <2> DEFINE r1 == [SetterIdle EXCEPT !.op = op]
             r2 == [r1 EXCEPT !.arg = arg]
             r3 == [r2 EXCEPT !.solo = b]
  <2>1. SetterIdle \in SetterRecords BY DEF SetterIdle, SetterRecords, SetterSteps, NoFile, AnyHooks
  <2> HIDE DEF b
  <2>2. r1 \in SetterRecords /\ r1.op = op BY <2>1, OpSet, Zenon
  <2> HIDE DEF r1
  <2>3. r2 \in SetterRecords /\ r2.op = op BY <1>2, <2>2, ArgSet, Zenon
  <2> HIDE DEF r2
  <2>4. r3 \in SetterRecords /\ r3.op = op /\ r3.solo = b BY <1>3, <2>3, SoloSet, Zenon
  <2> HIDE DEF r3
  <2>5. [r3 EXCEPT !.pc = p] \in SetterRecords /\ [r3 EXCEPT !.pc = p].op = op /\ [r3 EXCEPT !.pc = p].solo = b /\ [r3 EXCEPT !.pc = p].pc = p
    BY <1>3, <2>4, PcSet, Zenon
  <2>6. n = [r3 EXCEPT !.pc = p] BY DEF r1, r2, r3
  <2> QED BY <2>5, <2>6
<1>6. \A d \in Setters : set[d] \in SetterRecords BY DEF HomeTyped
<1>12. FALSE \in BOOLEAN OBVIOUS
<1>7. \A d \in Setters : /\ other(d) \in SetterRecords /\ (Acting(d) => ~other(d).solo)
                        /\ other(d).op = set[d].op /\ other(d).pc = set[d].pc /\ other(d).arg = set[d].arg /\ other(d).conf = set[d].conf /\ other(d).hooks = set[d].hooks
  BY <1>6, <1>12, SoloSet, Zenon
<1>8. set' = [d \in Setters |-> IF d = c THEN n ELSE other(d)] BY <1>1, Zenon DEF p
<1> HIDE DEF n, other
<1>9. set'[c] = n /\ \A d \in Setters \ {c} : set'[d] = other(d) BY <1>8
<1>10. set' \in [Setters -> SetterRecords] BY <1>5, <1>7, <1>8
<1>11. b => \A e \in Setters : ~Acting(e) OBVIOUS
<1> HIDE DEF b
<1> QED BY <1>4, <1>5, <1>7, <1>9, <1>10, <1>11 DEF BegunWith

(* A command begins. *)
LEMMA BeginSetKept == ASSUME HomeConfigAssumption, HomeInv, NEW c \in Setters, BeginSet(c) PROVE HomeInv'
<1>1. HomeTyped /\ ~Acting(c) /\ ran' = ran + 1 /\ UNCHANGED <<conf, pol, srv, gone, hFaults>> BY DEF HomeInv, BeginSet
<1>2. BegunWith(c) BY <1>1, SetterBegins
<1>3. HomeTyped' BY <1>1, <1>2 DEF HomeTyped, BegunWith
<1>4. Alone' BY <1>2 DEF HomeInv, Alone, BegunWith, Acting
<1>5. FilesExist' BY <1>1, <1>2 DEF HomeInv, FilesExist, BegunWith, PastChecks
<1>6. ASSUME NEW d \in Setters PROVE SetterHolds(d)'
  <2>1. CASE d = c BY <1>2, <2>1 DEF SetterHolds, PastChecks, BegunWith
  <2>2. CASE d # c BY <1>1, <1>2, <2>2 DEF HomeInv, BegunWith, SetterHolds, PastChecks, Acting
  <2> QED BY <2>1, <2>2
<1>7. ListensAsFiled' BY <1>1, <1>2 DEF Acting, BegunWith, HomeInv, ListensAsFiled
<1>8. PolicyOnDisk' BY <1>1 DEF HomeInv, PolicyOnDisk
<1> QED BY <1>3, <1>4, <1>5, <1>6, <1>7, <1>8 DEF HomeInv

(* Every step of the configuring commands keeps the invariant. *)
LEMMA HomeInductive == ASSUME HomeConfigAssumption, HomeInv, [HomeNext]_homeVars PROVE HomeInv'
<1>1. CASE UNCHANGED homeVars
  BY <1>1 DEF homeVars, HomeInv, HomeTyped, Alone, Acting, FilesExist, SetterHolds, PastChecks, ListensAsFiled,
     PolicyOnDisk
<1>2. CASE HomeNext
  <2>1. PICK c \in Setters : SetStep(c) BY <1>2 DEF HomeNext
  <2> QED
    BY <2>1, BeginSetKept, LoadFilesKept, WriteBrokerConfigKept, PolicyExistsKept, WritePolicyKept, ReadPortKept,
       WritePortKept,
             StartOrReuseKept, StopBrokerKept, GetHooksKept, PutHooksKept, KilledKept DEF SetStep
<1> QED BY <1>1, <1>2

(* What CommandsTakeEffect asks of one command. *)
TookEffect(c) ==
        /\ set[c].op = "start" /\ set[c].arg # NoPort /\ ~gone.drifted => srv'.port = set[c].arg
        /\ set[c].op = "context" =>
            /\ srv'.hooks.context = (set[c].arg = 1)
            /\ srv'.hooks.override \in {"none", IF set[c].arg = 1 THEN "on" ELSE "off"}
            /\ srv'.hooks.enabled = srv.hooks.enabled
        /\ set[c].op = "harness" =>
            srv'.hooks = [srv.hooks EXCEPT !.enabled = set[c].arg = 1]

(* A start that succeeds undisturbed leaves the broker on the port asked *)
(* for.                                                                  *)
LEMMA StartEffect == ASSUME HomeInv, NEW c \in Setters, StartOrReuse(c), set[c].solo, set'[c].pc = "ok" PROVE TookEffect(c)
<1>1. HomeTyped /\ set[c].pc \in {"reuse", "restart"} /\ SetterHolds(c) BY DEF HomeInv, StartOrReuse
<1>2. conf # NoFile BY <1>1 DEF HomeInv, FilesExist, PastChecks
<1>3. Acting(c) BY <1>1 DEF Acting
<1>4. Parsed.conf = conf BY <1>1, <1>2, ParsedTyped
<1>5. srv' = (IF srv.up /\ set[c].pc = "reuse" THEN srv ELSE Launched) /\ Turn(c, NextOf(c))
  BY <1>1, SetterTurns DEF SetterSteps, StartOrReuse
<1>6. set[c].op = "start" BY <1>1, <1>5, SetterTurns DEF NextOf, SetterSteps
<1>7. ASSUME set[c].arg # NoPort, ~gone.drifted PROVE srv'.port = set[c].arg
  BY <1>1, <1>3, <1>4, <1>5, <1>6, <1>7, ServerMoves DEF SetterHolds, PastChecks, HomeInv, Alone, Acting,
     ListensAsFiled
<1> QED BY <1>6, <1>7 DEF TookEffect

(* A configuration command that succeeds undisturbed changed what it names, *)
(* and nothing else.                                                        *)
LEMMA PutEffect == ASSUME HomeInv, NEW c \in Setters, PutHooks(c), set[c].solo, set'[c].pc = "ok" PROVE TookEffect(c)
<1>1. HomeTyped /\ set[c].pc = "put" /\ SetterHolds(c) BY DEF HomeInv, PutHooks
<1>2. srv.up BY <1>1, SetterTurns DEF SetterSteps, PutHooks
<1>3. set[c].hooks = srv.hooks /\ set[c].hooks # NoHooks /\ set[c].op \in {"context", "harness"}
  BY <1>1, <1>2 DEF SetterHolds, PastChecks
<1>4. set[c].hooks \in HookSets BY <1>1, <1>3 DEF HomeTyped, SetterRecords, AnyHooks
<1>5. srv' = [srv EXCEPT !.hooks = Changed(c)] BY <1>2 DEF PutHooks
<1>6. srv'.hooks = Changed(c) BY <1>1, <1>5 DEF HomeTyped
<1>7. /\ set[c].op = "context" => /\ Changed(c).context = (set[c].arg = 1) /\ Changed(c).enabled = set[c].hooks.enabled
                                /\ Changed(c).override \in {"none", IF set[c].arg = 1 THEN "on" ELSE "off"}
      /\ set[c].op # "context" => Changed(c) = [set[c].hooks EXCEPT !.enabled = set[c].arg = 1]
  BY <1>1, <1>4, ChangedTyped, Zenon
<1>8. CASE set[c].op = "context" BY <1>3, <1>6, <1>7, <1>8 DEF TookEffect
<1>9. CASE set[c].op = "harness" BY <1>3, <1>6, <1>7, <1>9 DEF TookEffect
<1> QED BY <1>3, <1>8, <1>9

(* Only those two steps and a stop report success, so CommandsTakeEffect *)
(* holds of every step.                                                  *)
LEMMA EffectsTaken == ASSUME HomeConfigAssumption, HomeInv, [HomeNext]_homeVars PROVE [CommandsTakeEffect]_homeVars
<1>1. SUFFICES ASSUME HomeNext, NEW d \in Setters, set[d].solo, Acting(d), set'[d].pc = "ok" PROVE TookEffect(d)
  BY DEF CommandsTakeEffect, TookEffect
<1>2. PICK c \in Setters : SetStep(c) BY <1>1 DEF HomeNext
<1>3. HomeTyped /\ set[d].pc # "ok" /\ SetterHolds(d) BY <1>1 DEF HomeInv, Acting
<1>4. CASE StartOrReuse(c)
  BY <1>1, <1>3, <1>4, SetterTurns, StartEffect DEF NextOf, SetterSteps, StartOrReuse, OnlyMoves
<1>5. CASE PutHooks(c) BY <1>1, <1>3, <1>5, SetterTurns, PutEffect DEF SetterSteps, PutHooks, OnlyMoves
<1>6. CASE StopBroker(c)
  BY <1>1, <1>3, <1>6, SetterTurns DEF StopBroker, SetterSteps, OnlyMoves, SetterHolds, PastChecks, TookEffect
<1>7. CASE BeginSet(c) BY <1>1, <1>3, <1>7, SetterBegins DEF BegunWith
<1>8. CASE LoadFiles(c)
  <2>1. set'[d].pc # "ok" BY <1>3, <1>8 DEF LoadFiles, HomeTyped, SetterRecords
  <2> QED BY <1>1, <2>1
<1>9. CASE ReadPort(c)
  <2>1. set'[d].pc # "ok" BY <1>3, <1>9 DEF ReadPort, HomeTyped, SetterRecords
  <2> QED BY <1>1, <2>1
<1>10. CASE GetHooks(c)
  <2>1. CASE Turn(c, "failed") BY <1>1, <1>3, <2>1, SetterTurns DEF SetterSteps, OnlyMoves
  <2>2. CASE set' = [set EXCEPT ![c].hooks = srv.hooks, ![c].pc = "put"]
    <3>1. set'[d].pc # "ok" BY <1>3, <2>2 DEF HomeTyped, SetterRecords
    <3> QED BY <1>1, <3>1
  <2> QED BY <2>1, <2>2, <1>10 DEF GetHooks
<1>11. CASE \E p \in SetterSteps \ {"ok"} : Turn(c, p) BY <1>1, <1>3, <1>11, SetterTurns DEF OnlyMoves
<1>12. ASSUME WriteBrokerConfig(c) \/ PolicyExists(c) \/ WritePolicy(c) \/ WritePort(c) \/ Killed(c)
       PROVE \E p \in SetterSteps \ {"ok"} : Turn(c, p)
  BY <1>12 DEF SetterSteps, WriteBrokerConfig, PolicyExists, WritePolicy, WritePort, Killed
<1> QED BY <1>2, <1>4, <1>5, <1>6, <1>7, <1>8, <1>9, <1>10, <1>11, <1>12 DEF SetStep

-----------------------------------------------------------------------------
(* The certificate authority. *)

(* The generation of the authority that a file holds, or half a file. *)
Material == Nat \cup {Torn}
(* The points between which a program that owns the authority can be *)
(* interrupted.                                                      *)
OwnerSteps == {"begin", "ok", "failed", "presence", "der", "pem", "key", "trust", "add", "update", "verify",
               "broker", "remove", "read", "bundle", "settings", "state"}
(* The locals of such a program. *)
OwnerRecords == [op : {"none", "start", "configure", "uninstall"}, pc : OwnerSteps, gen : Nat, half : BOOLEAN,
                 bundle : SUBSET Nat, solo : BOOLEAN]
(* Files, trust store, broker, settings and locals have their types. *)
CaTyped ==
    /\ caHost \in {"macos", "linux", "windows"}
    /\ ca \in [der : Material, pem : Material, key : Material]
    /\ signer \in [up : BOOLEAN, pem : Material, key : Material]
    /\ cc \in [env : {"unset", "user", "managed"}, bundle : SUBSET Int, named : BOOLEAN]
    /\ own \in [Owners -> OwnerRecords]
    /\ gens \in Nat /\ begun \in Nat /\ cFaults \in Nat
    /\ past \in [mixed : BOOLEAN, orphaned : BOOLEAN, missed : BOOLEAN]

(* Alone means alone. *)
OwnersAlone == \A o, p \in Owners : own[o].solo /\ Busy(o) /\ Busy(p) => o = p

(* Unless programs generated at once, one writes the files, and the key last. *)
OneGenerates == ~past.mixed => \A o, p \in Owners : Generating(o) /\ Generating(p) => o = p
(* A key on disk has both certificates of its generation beside it, and may *)
(* itself be half written.                                                  *)
KeyLast == ~past.mixed => (ca.key # Missing => ca.pem > 0 /\ ca.der = ca.pem /\ ca.key \in {Torn, ca.pem})
(* What a program that generates has written. *)
Generates(o) ==
    /\ Generating(o) => own[o].gen > 0
    /\ ~past.mixed =>
        /\ own[o].pc \in {"der", "pem"} => ca.key = Missing
        /\ own[o].pc \in {"pem", "key"} => ca.der = own[o].gen
        /\ own[o].pc = "key" => ca.pem = own[o].gen /\ ca.key = IF own[o].half THEN Torn ELSE Missing

(* The broker signs with the files it loaded. *)
SignsWith == signer.up =>
    /\ ~past.mixed => signer.pem > 0 /\ signer.pem = signer.key
    /\ ~past.orphaned => all_present
    /\ ~past.mixed /\ ~past.orphaned => signer.pem = ca.pem /\ ca.key = ca.pem

(* The bundles, written and to be written. *)
GoodBundle(b) == /\ b # NoBundle /\ (cc.named => UserCert \in b) /\ (~past.mixed => \E g \in b : g > 0)
(* What Claude Code's settings and the bundle they name hold. *)
Settings == /\ cc.env = "unset" => ~cc.named
            /\ cc.env = "managed" => GoodBundle(cc.bundle)
            /\ cc.bundle = NoBundle \/ cc.bundle \in SUBSET Nat
(* What a program that merges the bundle has in hand. *)
Configures(o) ==
    /\ own[o].pc = "read" => all_present
    /\ own[o].pc = "bundle" => GoodBundle(own[o].bundle)
    /\ own[o].pc = "settings" => GoodBundle(cc.bundle)

(* A Linux bundle is made of the file unless an update failed or is due. *)
BundleMade == caHost = "linux" /\ ~past.missed /\ (\A o \in Owners : own[o].pc # "update") => trusted = store

(* Which program can be at which point, and what an undisturbed start has *)
(* seen of the trust store.                                               *)
Starts(o) ==
    /\ own[o].pc \in {"presence", "der", "pem", "key", "trust", "add", "verify", "broker"} => own[o].op = "start"
    /\ own[o].pc = "update" => own[o].op \in {"start", "uninstall"}
    /\ own[o].pc \in {"read", "bundle", "settings", "state"} => own[o].op = "configure"
    /\ own[o].pc = "remove" => own[o].op = "uninstall"
    /\ own[o].solo /\ own[o].op = "start" =>
        /\ own[o].pc \in {"add", "update", "verify"} => own[o].gen = ca.der
        /\ own[o].pc = "broker" /\ caHost # "windows" /\ ~(caHost = "linux" /\ past.missed) => ca.der \in trusted

(* The inductive invariant of the certificate authority. *)
CaInv ==
    /\ CaTyped /\ OwnersAlone /\ OneGenerates /\ KeyLast /\ SignsWith /\ Settings /\ BundleMade
    /\ \A o \in Owners : Generates(o) /\ Configures(o) /\ Starts(o)

(* A program's locals at another point. *)
LEMMA StepSet == \A q \in OwnerRecords, p \in OwnerSteps :
    LET n == [q EXCEPT !.pc = p] IN n \in OwnerRecords /\ n.pc = p /\ n.op = q.op /\ n.gen = q.gen /\ n.half = q.half /\ n.bundle = q.bundle /\ n.solo = q.solo
<1>1. \A q \in OwnerRecords, p \in OwnerSteps : [q EXCEPT !.pc = p] \in OwnerRecords BY DEF OwnerRecords
<1>2. \A q \in OwnerRecords, p \in OwnerSteps : LET n == [q EXCEPT !.pc = p] IN n.pc = p /\ n.op = q.op /\ n.gen = q.gen /\ n.half = q.half /\ n.bundle = q.bundle /\ n.solo = q.solo
  BY DEF OwnerRecords
<1> QED BY <1>1, <1>2, Zenon

(* A program's locals with another generation. *)
LEMMA GenSet == \A q \in OwnerRecords, g \in Nat :
    LET n == [q EXCEPT !.gen = g] IN n \in OwnerRecords /\ n.pc = q.pc /\ n.op = q.op /\ n.gen = g /\ n.half = q.half /\ n.bundle = q.bundle /\ n.solo = q.solo
<1>1. \A q \in OwnerRecords, g \in Nat : [q EXCEPT !.gen = g] \in OwnerRecords BY DEF OwnerRecords
<1>2. \A q \in OwnerRecords, g \in Nat : LET n == [q EXCEPT !.gen = g] IN n.pc = q.pc /\ n.op = q.op /\ n.gen = g /\ n.half = q.half /\ n.bundle = q.bundle /\ n.solo = q.solo
  BY DEF OwnerRecords
<1> QED BY <1>1, <1>2, Zenon

(* A program's locals, half-way through a file or not. *)
LEMMA HalfSet == \A q \in OwnerRecords, h \in BOOLEAN :
    LET n == [q EXCEPT !.half = h] IN n \in OwnerRecords /\ n.pc = q.pc /\ n.op = q.op /\ n.gen = q.gen /\ n.half = h /\ n.bundle = q.bundle /\ n.solo = q.solo
<1>1. \A q \in OwnerRecords, h \in BOOLEAN : [q EXCEPT !.half = h] \in OwnerRecords BY DEF OwnerRecords
<1>2. \A q \in OwnerRecords, h \in BOOLEAN : LET n == [q EXCEPT !.half = h] IN n.pc = q.pc /\ n.op = q.op /\ n.gen = q.gen /\ n.half = h /\ n.bundle = q.bundle /\ n.solo = q.solo
  BY DEF OwnerRecords
<1> QED BY <1>1, <1>2, Zenon

(* A program's locals with another bundle. *)
LEMMA BundleSet == \A q \in OwnerRecords, b \in SUBSET Nat :
    LET n == [q EXCEPT !.bundle = b] IN n \in OwnerRecords /\ n.pc = q.pc /\ n.op = q.op /\ n.gen = q.gen /\ n.half = q.half /\ n.bundle = b /\ n.solo = q.solo
<1>1. \A q \in OwnerRecords, b \in SUBSET Nat : [q EXCEPT !.bundle = b] \in OwnerRecords BY DEF OwnerRecords
<1>2. \A q \in OwnerRecords, b \in SUBSET Nat : LET n == [q EXCEPT !.bundle = b] IN n.pc = q.pc /\ n.op = q.op /\ n.gen = q.gen /\ n.half = q.half /\ n.bundle = b /\ n.solo = q.solo
  BY DEF OwnerRecords
<1> QED BY <1>1, <1>2, Zenon

(* A program's locals, undisturbed or not. *)
LEMMA AloneSet == \A q \in OwnerRecords, a \in BOOLEAN :
    LET n == [q EXCEPT !.solo = a] IN n \in OwnerRecords /\ n.pc = q.pc /\ n.op = q.op /\ n.gen = q.gen /\ n.half = q.half /\ n.bundle = q.bundle /\ n.solo = a
<1>1. \A q \in OwnerRecords, a \in BOOLEAN : [q EXCEPT !.solo = a] \in OwnerRecords BY DEF OwnerRecords
<1>2. \A q \in OwnerRecords, a \in BOOLEAN : LET n == [q EXCEPT !.solo = a] IN n.pc = q.pc /\ n.op = q.op /\ n.gen = q.gen /\ n.half = q.half /\ n.bundle = q.bundle /\ n.solo = a
  BY DEF OwnerRecords
<1> QED BY <1>1, <1>2, Zenon

(* A program's locals with another operation. *)
LEMMA OperationSet == \A q \in OwnerRecords, f \in {"start", "configure", "uninstall"} :
    LET n == [q EXCEPT !.op = f] IN n \in OwnerRecords /\ n.pc = q.pc /\ n.op = f /\ n.gen = q.gen /\ n.half = q.half /\ n.bundle = q.bundle /\ n.solo = q.solo
<1>1. \A q \in OwnerRecords, f \in {"start", "configure", "uninstall"} : [q EXCEPT !.op = f] \in OwnerRecords
  BY DEF OwnerRecords
<1>2. \A q \in OwnerRecords, f \in {"start", "configure", "uninstall"} : LET n == [q EXCEPT !.op = f] IN n.pc = q.pc /\ n.op = f /\ n.gen = q.gen /\ n.half = q.half /\ n.bundle = q.bundle /\ n.solo = q.solo
  BY DEF OwnerRecords
<1> QED BY <1>1, <1>2, Zenon

(* A host without an authority, or with the remains of one, satisfies it. *)
LEMMA CaInitial == ASSUME CaStoreAssumption, CaInit PROVE CaInv
<1>1. \A o \in Owners : own[o].pc = "begin" BY DEF CaInit
<1>2. own \in [Owners -> OwnerRecords] BY DEF OwnerRecords, OwnerSteps, CaInit
<1>3. Missing \in Material /\ 1 \in Material BY DEF Missing, Material
<1>4. ca \in [der : Material, pem : Material, key : Material] /\ ca.key = Missing BY <1>3 DEF CaInit
<1>5. signer \in [up : BOOLEAN, pem : Material, key : Material] /\ ~signer.up BY <1>3 DEF CaInit
<1>6. cc \in [env : {"unset", "user", "managed"}, bundle : SUBSET Int, named : BOOLEAN] /\ cc.env # "managed" /\ (cc.env = "unset" => ~cc.named) /\ cc.bundle = NoBundle
  <2>1. PICK named \in {FALSE, caHost = "macos"} : cc = [env |-> IF named THEN "user" ELSE "unset", bundle |-> NoBundle, named |-> named]
    BY DEF CaInit
  <2>2. NoBundle \in SUBSET Int BY DEF NoBundle
  <2>3. named \in BOOLEAN OBVIOUS
  <2> DEFINE e == IF named THEN "user" ELSE "unset"
  <2>4. e \in {"unset", "user", "managed"} /\ e # "managed" /\ (e = "unset" => ~named) BY <2>3
  <2> HIDE DEF e
  <2>5. cc = [env |-> e, bundle |-> NoBundle, named |-> named] BY <2>1 DEF e
  <2> QED BY <2>2, <2>3, <2>4, <2>5
<1>7. past \in [mixed : BOOLEAN, orphaned : BOOLEAN, missed : BOOLEAN] BY DEF CaInit
<1>8. CaTyped BY <1>2, <1>4, <1>5, <1>6, <1>7 DEF CaTyped, CaInit
<1>9. trusted = store BY DEF CaInit
<1>10. \A o \in Owners : Generates(o) /\ Configures(o) /\ Starts(o)
  BY <1>1 DEF Generates, Configures, Starts, Generating
<1> QED BY <1>1, <1>4, <1>5, <1>6, <1>8, <1>9, <1>10
   DEF CaInv, OwnersAlone, Busy, OneGenerates, Generating, KeyLast, SignsWith, Settings, BundleMade

(* Only one program moves. *)
OnlyActs(o) == own' \in [Owners -> OwnerRecords] /\ \A p \in Owners \ {o} : own'[p] = own[p]
(* A program keeps what it has in hand. *)
Carried(o) == own'[o].gen = own[o].gen /\ own'[o].half = own[o].half /\ own'[o].bundle = own[o].bundle

(* Only one program's locals are replaced. *)
LEMMA OwnerReplaced == ASSUME CaTyped, NEW o \in Owners, NEW r \in OwnerRecords, own' = [own EXCEPT ![o] = r] PROVE OnlyActs(o) /\ own'[o] = r
  BY DEF CaTyped, OnlyActs

(* Move takes one program to the given point. *)
LEMMA OwnerMoves ==
    ASSUME CaTyped, NEW o \in Owners, NEW p \in OwnerSteps, Move(o, p)
    PROVE  /\ OnlyActs(o) /\ own'[o].pc = p /\ own'[o].op = own[o].op /\ own'[o].solo = own[o].solo
           /\ p \notin {"ok", "failed"} => Carried(o)
<1> DEFINE q == own[o]
           r1 == [q EXCEPT !.pc = p]
           r2 == [r1 EXCEPT !.gen = 0]
           r3 == [r2 EXCEPT !.half = FALSE]
           r4 == [r3 EXCEPT !.bundle = {}]
           r == IF p \in {"ok", "failed"} THEN r4 ELSE r1
<1>1. own' = [own EXCEPT ![o] = r] BY DEF Move
<1>2. q \in OwnerRecords BY DEF CaTyped
<1>3. r1 \in OwnerRecords /\ r1.pc = p /\ r1.op = q.op /\ r1.solo = q.solo /\ r1.gen = q.gen /\ r1.half = q.half /\ r1.bundle = q.bundle
  BY <1>2, StepSet, Zenon
<1> HIDE DEF r1
<1>4. 0 \in Nat /\ FALSE \in BOOLEAN /\ {} \in SUBSET Nat OBVIOUS
<1>5. r2 \in OwnerRecords /\ r2.pc = p /\ r2.op = q.op /\ r2.solo = q.solo BY <1>3, <1>4, GenSet, Zenon
<1> HIDE DEF r2
<1>6. r3 \in OwnerRecords /\ r3.pc = p /\ r3.op = q.op /\ r3.solo = q.solo BY <1>4, <1>5, HalfSet, Zenon
<1> HIDE DEF r3
<1>7. r4 \in OwnerRecords /\ r4.pc = p /\ r4.op = q.op /\ r4.solo = q.solo BY <1>4, <1>6, BundleSet, Zenon
<1> HIDE DEF r4
<1>8. r \in OwnerRecords /\ r.pc = p /\ r.op = q.op /\ r.solo = q.solo
      /\ (p \notin {"ok", "failed"} => r.gen = q.gen /\ r.half = q.half /\ r.bundle = q.bundle)
  BY <1>3, <1>7
<1> HIDE DEF r, q
<1>9. OnlyActs(o) /\ own'[o] = r BY <1>1, <1>8, OwnerReplaced
<1> QED BY <1>8, <1>9 DEF Carried, q

(* What a step of one program owes to the invariant: the other programs are *)
(* either not generating or not disturbed, and no bundle gets worse.        *)
LEMMA OwnerStepKept ==
    ASSUME CaInv, NEW o \in Owners, OnlyActs(o), Busy(o), CaTyped',
           own'[o].solo = own[o].solo,
           past.mixed => past'.mixed,
           ~past'.mixed /\ Generating(o)' => Generating(o) \/ \A p \in Owners : ~Generating(p),
           ca' = ca \/ Generating(o), all_present => all_present',
           cc'.named = cc.named, cc'.bundle = cc.bundle \/ GoodBundle(cc.bundle)',
           KeyLast', SignsWith', Settings', BundleMade', Generates(o)', Configures(o)', Starts(o)'
    PROVE  CaInv'
<1>1. \A p \in Owners \ {o} : own'[p] = own[p] BY DEF OnlyActs
<1>2. OwnersAlone' BY <1>1 DEF CaInv, OwnersAlone, Busy
<1>3. OneGenerates' BY <1>1 DEF OneGenerates, Generating, CaInv
<1>4. ASSUME NEW p \in Owners, p # o PROVE Generates(p)' /\ Configures(p)' /\ Starts(p)'
  BY <1>1, <1>4 DEF CaInv, Generates, Generating, OneGenerates, GoodBundle, Configures, OwnersAlone, Starts, Busy
<1> QED BY <1>2, <1>3, <1>4 DEF CaInv

(* A step that leaves the files, the broker and the settings alone. *)
LEMMA FilesStay == ASSUME CaInv, UNCHANGED <<ca, signer, cc, past>> PROVE KeyLast' /\ SignsWith' /\ Settings' /\ all_present' = all_present
  BY DEF CaInv, KeyLast, SignsWith, Settings, GoodBundle, all_present

(* A step that leaves the trust store alone. *)
LEMMA BundleStays == ASSUME CaInv, NEW o \in Owners, OnlyActs(o), own[o].pc # "update", UNCHANGED <<caHost, store, trusted, past>> PROVE BundleMade'
<1>1. (\A p \in Owners : own'[p].pc # "update") => \A p \in Owners : own[p].pc # "update" BY DEF OnlyActs
<1> QED BY <1>1 DEF CaInv, BundleMade

(* A step that leaves the files, the broker and the settings alone. *)
LEMMA OwnerQuiet ==
    ASSUME CaInv, NEW o \in Owners, OnlyActs(o), Busy(o), CaTyped', UNCHANGED <<ca, signer, cc, past>>,
           own'[o].solo = own[o].solo, ~Generating(o)',
           BundleMade', Configures(o)', Starts(o)'
    PROVE  CaInv'
<1>1. KeyLast' /\ SignsWith' /\ Settings' /\ (all_present => all_present') BY FilesStay
<1>2. Generates(o)' BY DEF Generates, Generating
<1> QED BY <1>1, <1>2, OwnerStepKept

(* A command that ends. *)
LEMMA OwnerEnds ==
    ASSUME CaInv, NEW o \in Owners, NEW p \in {"ok", "failed"}, Move(o, p), Busy(o),
           UNCHANGED <<caHost, ca, signer, cc, past>>, CaTyped', BundleMade'
    PROVE  CaInv'
<1>1. CaTyped /\ p \in OwnerSteps BY DEF CaInv, OwnerSteps
<1>2. OnlyActs(o) /\ own'[o].pc = p /\ own'[o].solo = own[o].solo BY <1>1, OwnerMoves
<1>3. Configures(o)' /\ Starts(o)' /\ ~Generating(o)' BY <1>2 DEF Configures, Starts, Generating
<1> QED BY <1>2, <1>3, OwnerQuiet

(* Faults are counted. *)
LEMMA CFaultCounts == ASSUME CaTyped, CFault \/ UNCHANGED cFaults PROVE cFaults' \in Nat
  BY DEF CaTyped, CFault

(* load_or_generate finds all files, none, or some (ca/mod.rs). *)
LEMMA LoadKept == ASSUME CaInv, NEW o \in Owners, load_or_generate(o) PROVE CaInv'
<1>1. CaTyped /\ own[o].pc = "presence" /\ UNCHANGED <<caHost, ca, store, trusted, signer, cc, begun, cFaults>>
  BY DEF CaInv, load_or_generate
<1>2. Busy(o) /\ own[o].op = "start" BY <1>1 DEF Busy, CaInv, Starts
<1>3. CASE Move(o, "trust") /\ UNCHANGED <<gens, past>>
  BY <1>1, <1>2, <1>3, OwnerMoves, BundleStays, OwnerQuiet DEF OwnerSteps, CaTyped, OnlyActs, Configures, Starts,
     Generating
<1>4. CASE Move(o, "failed") /\ UNCHANGED <<gens, past>>
  BY <1>1, <1>2, <1>4, OwnerMoves, BundleStays, OwnerEnds DEF OwnerSteps, CaTyped, OnlyActs
<1>5. CASE /\ all_missing \/ public_material_only
           /\ gens' = gens + 1
           /\ own' = [own EXCEPT ![o].pc = WriteOrder[1], ![o].gen = gens + 1]
           /\ past' = [past EXCEPT !.mixed = @ \/ \E p \in Owners : Generating(p)]
  <2> DEFINE r1 == [own[o] EXCEPT !.pc = "der"]
             r == [r1 EXCEPT !.gen = gens + 1]
             others == \E p \in Owners : Generating(p)
  <2>1. WriteOrder[1] = "der" BY DEF WriteOrder
  <2>2. own' = [own EXCEPT ![o] = r] BY <1>5, <2>1
  <2>3. own[o] \in OwnerRecords /\ gens + 1 \in Nat /\ gens + 1 > 0 /\ "der" \in OwnerSteps
    BY <1>1 DEF CaTyped, OwnerSteps
  <2>4. r1 \in OwnerRecords /\ r1.pc = "der" /\ r1.op = own[o].op /\ r1.solo = own[o].solo BY <2>3, StepSet, Zenon
  <2> HIDE DEF r1
  <2>5. r \in OwnerRecords /\ r.pc = "der" /\ r.op = own[o].op /\ r.solo = own[o].solo /\ r.gen = gens + 1
    BY <2>3, <2>4, GenSet, Zenon
  <2> HIDE DEF r
  <2>6. OnlyActs(o) /\ own'[o] = r BY <1>1, <2>2, <2>5, OwnerReplaced
  <2>7. past' = [past EXCEPT !.mixed = @ \/ others] BY <1>5
  <2>8. others \in BOOLEAN OBVIOUS
  <2>9. (~others) => \A p \in Owners : ~Generating(p) OBVIOUS
  <2> HIDE DEF others
  <2>10. /\ past' \in [mixed : BOOLEAN, orphaned : BOOLEAN, missed : BOOLEAN] /\ past'.orphaned = past.orphaned /\ past'.missed = past.missed
         /\ past'.mixed = (past.mixed \/ others)
    BY <1>1, <2>7, <2>8 DEF CaTyped
  <2>11. CaTyped' BY <1>1, <1>5, <2>3, <2>6, <2>10 DEF CaTyped, OnlyActs
  <2>12. ca.key = Missing BY <1>5 DEF all_missing, public_material_only
  <2>13. KeyLast' BY <1>1, <2>12 DEF KeyLast
  <2>14. SignsWith' BY <1>1, <2>10 DEF CaInv, SignsWith, all_present
  <2>15. Settings' BY <1>1, <2>10 DEF CaInv, Settings, GoodBundle
  <2>16. BundleMade' BY <1>1, <2>6, <2>10 DEF OnlyActs, CaInv, BundleMade
  <2>17. Generates(o)' BY <1>1, <2>3, <2>5, <2>6, <2>12 DEF Generates, Generating
  <2>18. Configures(o)' /\ Starts(o)' BY <1>2, <2>5, <2>6 DEF Configures, Starts
  <2>19. all_present => all_present' BY <1>1 DEF all_present
  <2> QED BY <1>1, <1>2, <2>5, <2>6, <2>9, <2>10, <2>11, <2>13, <2>14, <2>15, <2>16, <2>17, <2>18, <2>19, OwnerStepKept
<1> QED BY <1>3, <1>4, <1>5 DEF load_or_generate

(* The root is installed unless it is trusted already. *)
LEMMA InstallRootKept == ASSUME CaInv, NEW o \in Owners, InstallRoot(o) PROVE CaInv'
<1>1. CaTyped /\ own[o].pc = "trust" /\ UNCHANGED <<caHost, ca, store, trusted, signer, cc, gens, begun, past, cFaults>>
  BY DEF CaInv, InstallRoot
<1>2. Busy(o) /\ own[o].op = "start" BY <1>1 DEF Busy, CaInv, Starts
<1>3. CASE Move(o, "failed")
  BY <1>1, <1>2, <1>3, OwnerMoves, BundleStays, OwnerEnds DEF OwnerSteps, CaTyped, OnlyActs
<1>4. CASE Installed(ca.der) /\ Move(o, "broker")
  <2>1. OnlyActs(o) /\ own'[o].pc = "broker" /\ own'[o].op = own[o].op /\ own'[o].solo = own[o].solo
    BY <1>1, <1>4, OwnerMoves DEF OwnerSteps
  <2>2. CaTyped' BY <1>1, <2>1 DEF CaTyped, OnlyActs
  <2>3. BundleMade' BY <1>1, <2>1, BundleStays
  <2>4. ASSUME own[o].solo, caHost # "windows", ~(caHost = "linux" /\ past.missed) PROVE ca.der \in trusted
    BY <1>1, <1>2, <1>4, <2>4 DEF Installed, stored_and_trusted, certificate_matches, CaInv, OwnersAlone, Busy,
       BundleMade, CaTyped
  <2>5. Starts(o)' BY <1>1, <1>2, <2>1, <2>4 DEF Starts
  <2>6. Configures(o)' /\ ~Generating(o)' BY <2>1 DEF Configures, Generating
  <2> QED BY <1>1, <1>2, <2>1, <2>2, <2>3, <2>5, <2>6, OwnerQuiet
<1>5. CASE all_present /\ ca.der # Torn /\ own' = [own EXCEPT ![o].gen = ca.der, ![o].pc = "add"]
  <2> DEFINE r1 == [own[o] EXCEPT !.gen = ca.der]
             r == [r1 EXCEPT !.pc = "add"]
  <2>1. own' = [own EXCEPT ![o] = r] BY <1>5
  <2>2. own[o] \in OwnerRecords /\ "add" \in OwnerSteps BY <1>1 DEF CaTyped, OwnerSteps
  <2>3. ca.der \in Nat BY <1>1, <1>5 DEF CaTyped, Material
  <2>4. r1 \in OwnerRecords /\ r1.gen = ca.der /\ r1.op = own[o].op /\ r1.solo = own[o].solo
    BY <2>2, <2>3, GenSet, Zenon
  <2> HIDE DEF r1
  <2>5. r \in OwnerRecords /\ r.pc = "add" /\ r.op = own[o].op /\ r.solo = own[o].solo /\ r.gen = ca.der
    BY <2>2, <2>4, StepSet, Zenon
  <2> HIDE DEF r
  <2>6. OnlyActs(o) /\ own'[o] = r BY <1>1, <2>1, <2>5, OwnerReplaced
  <2>7. CaTyped' BY <1>1, <2>6 DEF CaTyped, OnlyActs
  <2>8. BundleMade' BY <1>1, <2>6, BundleStays
  <2>9. Starts(o)' BY <1>1, <1>2, <2>5, <2>6 DEF Starts
  <2>10. Configures(o)' /\ ~Generating(o)' BY <2>5, <2>6 DEF Configures, Generating
  <2> QED BY <1>1, <1>2, <2>5, <2>6, <2>7, <2>8, <2>9, <2>10, OwnerQuiet
<1> QED BY <1>3, <1>4, <1>5 DEF InstallRoot

(* The root is added to the platform's store. *)
LEMMA AddCertificateKept == ASSUME CaInv, NEW o \in Owners, AddCertificate(o) PROVE CaInv'
<1>1. CaTyped /\ own[o].pc = "add" /\ UNCHANGED <<caHost, ca, signer, cc, gens, begun, past>>
  BY DEF CaInv, AddCertificate
<1>2. Busy(o) /\ own[o].op = "start" BY <1>1 DEF Busy, CaInv, Starts
<1>3. Starts(o) BY DEF CaInv
<1>4. cFaults' \in Nat BY <1>1, CFaultCounts DEF AddCertificate, AddTrusted, WriteCertificateAtomically, AddEncoded
<1>5. ASSUME NEW p \in {"verify", "update"}, Move(o, p), caHost = "linux" => p = "update" PROVE CaInv'
  BY <1>1, <1>2, <1>3, <1>4, <1>5, OwnerMoves, OwnerQuiet DEF OwnerSteps, Carried, CaTyped, OnlyActs, BundleMade,
     Starts, Configures, Generating
<1>6. CASE Move(o, "failed") /\ UNCHANGED <<store, trusted>>
  BY <1>1, <1>2, <1>4, <1>6, OwnerMoves, BundleStays, OwnerEnds DEF OwnerSteps, CaTyped, OnlyActs
<1> QED BY <1>5, <1>6 DEF AddCertificate, AddTrusted, WriteCertificateAtomically, AddEncoded

(* On Linux the bundle is made again (update-ca-certificates). *)
LEMMA UpdateKept == ASSUME CaInv, NEW o \in Owners, UpdateCertificates(o) PROVE CaInv'
<1>1. CaTyped /\ own[o].pc = "update" /\ UNCHANGED <<caHost, ca, store, signer, cc, gens, begun>>
  BY DEF CaInv, UpdateCertificates
<1>2. Busy(o) BY <1>1 DEF Busy
<1>3. Starts(o) BY DEF CaInv
<1>4. cFaults' \in Nat BY <1>1, CFaultCounts DEF UpdateCertificates
<1>5. CASE trusted' = store /\ UNCHANGED past /\ Move(o, "ok")
  BY <1>1, <1>2, <1>4, <1>5, OwnerMoves, OwnerEnds DEF OwnerSteps, CaTyped, OnlyActs, BundleMade
<1>6. CASE trusted' = store /\ UNCHANGED past /\ own[o].op # "uninstall" /\ Move(o, "verify")
  BY <1>1, <1>2, <1>3, <1>4, <1>6, OwnerMoves, OwnerQuiet DEF OwnerSteps, Carried, CaTyped, OnlyActs, BundleMade,
     Starts, Configures, Generating
<1>7. CASE Move(o, "failed") /\ UNCHANGED trusted /\ past' = [past EXCEPT !.missed = TRUE]
  <2>1. OnlyActs(o) /\ own'[o].pc = "failed" /\ own'[o].solo = own[o].solo BY <1>1, <1>7, OwnerMoves DEF OwnerSteps
  <2>2. past' \in [mixed : BOOLEAN, orphaned : BOOLEAN, missed : BOOLEAN] /\ past'.mixed = past.mixed /\ past'.orphaned = past.orphaned /\ past'.missed
    BY <1>1, <1>7 DEF CaTyped
  <2>3. CaTyped' BY <1>1, <1>4, <2>1, <2>2 DEF CaTyped, OnlyActs
  <2>4. KeyLast' /\ SignsWith' /\ Settings' /\ (all_present => all_present')
    BY <1>1, <2>2 DEF CaInv, KeyLast, SignsWith, Settings, GoodBundle, all_present
  <2>5. BundleMade' BY <2>2 DEF BundleMade
  <2>6. Generates(o)' /\ Configures(o)' /\ Starts(o)' /\ ~Generating(o)'
    BY <2>1 DEF Generates, Configures, Starts, Generating
  <2> QED BY <1>1, <1>2, <2>1, <2>2, <2>3, <2>4, <2>5, <2>6, OwnerStepKept
<1> QED BY <1>5, <1>6, <1>7 DEF UpdateCertificates

(* The installation is verified. *)
LEMMA VerifyKept == ASSUME CaInv, NEW o \in Owners, VerifyInstalled(o) PROVE CaInv'
<1>1. CaTyped /\ own[o].pc = "verify" /\ UNCHANGED <<caHost, ca, store, trusted, signer, cc, gens, begun, past, cFaults>>
  BY DEF CaInv, VerifyInstalled
<1>2. Busy(o) /\ own[o].op = "start" /\ Starts(o) BY <1>1 DEF Busy, CaInv, Starts
<1>3. CASE Move(o, "failed")
  BY <1>1, <1>2, <1>3, OwnerMoves, BundleStays, OwnerEnds DEF OwnerSteps, CaTyped, OnlyActs
<1>4. CASE Installed(own[o].gen) /\ Move(o, "broker")
  <2>1. OnlyActs(o) /\ own'[o].pc = "broker" /\ own'[o].op = own[o].op /\ own'[o].solo = own[o].solo
    BY <1>1, <1>4, OwnerMoves DEF OwnerSteps
  <2>2. CaTyped' BY <1>1, <2>1 DEF CaTyped, OnlyActs
  <2>3. BundleMade' BY <1>1, <2>1, BundleStays
  <2>4. ASSUME own[o].solo, caHost # "windows", ~(caHost = "linux" /\ past.missed) PROVE ca.der \in trusted
    BY <1>1, <1>2, <1>4, <2>4 DEF Starts, Installed, stored_and_trusted, certificate_matches, CaInv, OwnersAlone,
       Busy, BundleMade, CaTyped
  <2>5. Starts(o)' BY <1>1, <1>2, <2>1, <2>4 DEF Starts
  <2>6. Configures(o)' /\ ~Generating(o)' BY <2>1 DEF Configures, Generating
  <2> QED BY <1>1, <1>2, <2>1, <2>2, <2>3, <2>5, <2>6, OwnerQuiet
<1> QED BY <1>3, <1>4 DEF VerifyInstalled

(* The root is removed from the store. *)
LEMMA UninstallKept == ASSUME CaInv, NEW o \in Owners, UninstallRoot(o) PROVE CaInv'
<1>1. CaTyped /\ own[o].pc = "remove" /\ UNCHANGED <<caHost, ca, signer, cc, gens, begun, past>>
  BY DEF CaInv, UninstallRoot
<1>2. Busy(o) /\ own[o].op = "uninstall" BY <1>1 DEF Busy, CaInv, Starts
<1>4. cFaults' \in Nat BY <1>1, CFaultCounts DEF UninstallRoot
<1>5. ASSUME NEW p \in {"ok", "failed"}, Move(o, p), caHost = "linux" => UNCHANGED <<store, trusted>> PROVE CaInv'
  BY <1>1, <1>2, <1>4, <1>5, OwnerMoves, BundleStays, OwnerEnds DEF OwnerSteps, CaTyped, OnlyActs, BundleMade
<1>6. CASE Move(o, "update")
  BY <1>1, <1>2, <1>4, <1>6, OwnerMoves, OwnerQuiet DEF OwnerSteps, CaTyped, OnlyActs, BundleMade, Starts,
     Configures, Generating
<1>7. CASE RemoveCertificateFile(o) BY <1>5, <1>6, <1>7 DEF RemoveCertificateFile, certificate_matches
<1> QED BY <1>5, <1>7 DEF UninstallRoot, DeleteTrusted, DeleteContext

(* One file of the authority is written. *)
LEMMA FileWritten == ASSUME CaTyped, NEW f \in {"der", "pem", "key"}, NEW v \in Material, ca' = [ca EXCEPT ![f] = v] PROVE
    /\ ca' \in [der : Material, pem : Material, key : Material]
    /\ ca'.der = (IF f = "der" THEN v ELSE ca.der) /\ ca'.pem = (IF f = "pem" THEN v ELSE ca.pem) /\ ca'.key = (IF f = "key" THEN v ELSE ca.key)
<1>1. ca \in [der : Material, pem : Material, key : Material] BY DEF CaTyped
<1>2. CASE f = "der" BY <1>1, <1>2
<1>3. CASE f = "pem" BY <1>1, <1>3
<1>4. CASE f = "key" BY <1>1, <1>4
<1> QED BY <1>2, <1>3, <1>4

(* While one writes, no broker has the files unless it was left behind. *)
LEMMA NoneSigns == ASSUME CaInv, NEW o \in Owners, Generating(o), signer.up PROVE past.mixed \/ past.orphaned
<1>1. Generates(o) /\ KeyLast /\ SignsWith BY DEF CaInv
<1>2. own[o].gen \in Nat BY DEF CaInv, CaTyped, OwnerRecords
<1>3. ca.pem \in Int BY DEF CaInv, CaTyped, Material, Torn
<1> SUFFICES ASSUME ~past.mixed, ~past.orphaned PROVE FALSE OBVIOUS
<1>4. ca.key # Missing /\ ca.key = ca.pem /\ ca.pem > 0 BY <1>1 DEF SignsWith, all_present, KeyLast
<1>5. own[o].pc = "key" BY <1>1, <1>4 DEF Generates, Generating
<1>6. ca.key = Torn \/ ca.key = Missing BY <1>1, <1>5 DEF Generates
<1> QED BY <1>3, <1>4, <1>6 DEF Torn, Missing

(* A generating program writes half a file or all of it, the key last *)
(* (ca/mod.rs).                                                       *)
LEMMA WriteKept == ASSUME CaInv, NEW o \in Owners, NEW f \in {"der", "pem", "key"}, write_file(o, f) PROVE CaInv'
<1>1. CaTyped /\ own[o].pc = f /\ UNCHANGED <<caHost, store, trusted, signer, cc, gens, begun, past>>
  BY DEF CaInv, write_file
<1>2. Busy(o) /\ Generating(o) /\ own[o].op = "start" BY <1>1 DEF Busy, Generating, CaInv, Starts
<1>3. cFaults' \in Nat BY <1>1, CFaultCounts DEF write_file
<1>4. Generates(o) /\ KeyLast /\ SignsWith BY DEF CaInv
<1>5. own[o] \in OwnerRecords BY <1>1 DEF CaTyped
<1>6. own[o].gen \in Nat /\ own[o].gen > 0 /\ own[o].half \in BOOLEAN BY <1>2, <1>4, <1>5 DEF OwnerRecords, Generates
<1>7. Torn \in Material /\ own[o].gen \in Material /\ Torn # Missing /\ own[o].gen # Missing
  BY <1>6 DEF Material, Torn, Missing
<1>8. CASE Move(o, "failed") /\ UNCHANGED ca
  BY <1>1, <1>2, <1>3, <1>8, OwnerMoves, BundleStays, OwnerEnds DEF OwnerSteps, CaTyped, OnlyActs
<1>9. ASSUME NEW v \in Material, v # Missing, ca' = [ca EXCEPT ![f] = v], OnlyActs(o),
             own'[o].pc \in {"der", "pem", "key", "trust"}, own'[o].op = own[o].op, own'[o].solo = own[o].solo,
             f = "key" => v \in {Torn, own[o].gen}, Generates(o)'
      PROVE  CaInv'
  <2>1. /\ ca' \in [der : Material, pem : Material, key : Material]
        /\ ca'.der = (IF f = "der" THEN v ELSE ca.der) /\ ca'.pem = (IF f = "pem" THEN v ELSE ca.pem) /\ ca'.key = (IF f = "key" THEN v ELSE ca.key)
    BY <1>1, <1>9, FileWritten
  <2>2. CaTyped' BY <1>1, <1>3, <1>9, <2>1 DEF CaTyped, OnlyActs
  <2>3. KeyLast' BY <1>1, <1>4, <1>6, <1>9, <2>1 DEF KeyLast, Generates
  <2>4. all_present => all_present' BY <1>9, <2>1 DEF all_present
  <2>5. SignsWith' BY <1>1, <1>2, <1>4, <2>4, NoneSigns DEF SignsWith
  <2>6. Settings' BY <1>1 DEF CaInv, Settings, GoodBundle
  <2>7. BundleMade' BY <1>1, <1>9, BundleStays
  <2>8. Configures(o)' /\ Starts(o)' BY <1>2, <1>9 DEF Configures, Starts
  <2> QED BY <1>1, <1>2, <1>9, <2>2, <2>3, <2>4, <2>5, <2>6, <2>7, <2>8, OwnerStepKept
<1>10. CASE ca' = [ca EXCEPT ![f] = Torn] /\ own' = [own EXCEPT ![o].half = TRUE]
  <2> DEFINE r == [own[o] EXCEPT !.half = TRUE]
  <2>1. own' = [own EXCEPT ![o] = r] BY <1>10
  <2>2. TRUE \in BOOLEAN OBVIOUS
  <2>3. r \in OwnerRecords /\ r.pc = f /\ r.op = own[o].op /\ r.solo = own[o].solo /\ r.gen = own[o].gen /\ r.half
    BY <1>1, <1>5, <2>2, HalfSet, Zenon
  <2> HIDE DEF r
  <2>4. OnlyActs(o) /\ own'[o] = r BY <1>1, <2>1, <2>3, OwnerReplaced
  <2>5. /\ ca'.der = (IF f = "der" THEN Torn ELSE ca.der) /\ ca'.pem = (IF f = "pem" THEN Torn ELSE ca.pem) /\ ca'.key = (IF f = "key" THEN Torn ELSE ca.key)
    BY <1>1, <1>7, <1>10, FileWritten
  <2>6. Generates(o)' BY <1>1, <1>4, <1>6, <2>3, <2>4, <2>5 DEF Generates, Generating
  <2> QED BY <1>7, <1>9, <1>10, <2>3, <2>4, <2>6
<1>11. CASE ca' = [ca EXCEPT ![f] = own[o].gen] /\ own' = [own EXCEPT ![o].half = FALSE, ![o].pc = WrittenAfter(f)]
  <2> DEFINE p == WrittenAfter(f)
             r1 == [own[o] EXCEPT !.half = FALSE]
             r == [r1 EXCEPT !.pc = p]
  <2>1. own' = [own EXCEPT ![o] = r] BY <1>11
  <2>2. FALSE \in BOOLEAN OBVIOUS
  <2>3. p = IF f = "der" THEN "pem" ELSE IF f = "pem" THEN "key" ELSE "trust" BY DEF WriteOrder, WrittenAfter
  <2>4. p \in OwnerSteps BY <2>3 DEF OwnerSteps
  <2> HIDE DEF p
  <2>5. r1 \in OwnerRecords /\ r1.op = own[o].op /\ r1.solo = own[o].solo /\ r1.gen = own[o].gen /\ r1.half = FALSE
    BY <1>5, <2>2, HalfSet, Zenon
  <2> HIDE DEF r1
  <2>6. r \in OwnerRecords /\ r.pc = p /\ r.op = own[o].op /\ r.solo = own[o].solo /\ r.gen = own[o].gen /\ r.half = FALSE
    BY <2>4, <2>5, StepSet, Zenon
  <2> HIDE DEF r
  <2>7. OnlyActs(o) /\ own'[o] = r BY <1>1, <2>1, <2>6, OwnerReplaced
  <2> DEFINE g == own[o].gen
  <2>8. /\ ca'.der = (IF f = "der" THEN g ELSE ca.der) /\ ca'.pem = (IF f = "pem" THEN g ELSE ca.pem) /\ ca'.key = (IF f = "key" THEN g ELSE ca.key)
    BY <1>1, <1>7, <1>11, FileWritten
  <2>9. Generates(o)' BY <1>1, <1>4, <1>6, <2>3, <2>6, <2>7, <2>8 DEF Generates, Generating
  <2>10. own'[o].pc \in {"der", "pem", "key", "trust"} BY <2>3, <2>6, <2>7
  <2> QED BY <1>7, <1>9, <1>11, <2>6, <2>7, <2>9, <2>10
<1> QED BY <1>8, <1>10, <1>11 DEF write_file

(* The broker loads the files, or a running one stays. *)
LEMMA StartBrokerKept == ASSUME CaInv, NEW o \in Owners, StartBroker(o) PROVE CaInv'
<1>1. CaTyped /\ own[o].pc = "broker" /\ UNCHANGED <<caHost, ca, store, trusted, cc, gens, begun, past, cFaults>>
  BY DEF CaInv, StartBroker
<1>2. Busy(o) BY <1>1 DEF Busy
<1>3. CASE UNCHANGED signer /\ \E p \in {"ok", "failed"} : Move(o, p)
  BY <1>1, <1>2, <1>3, OwnerMoves, BundleStays, OwnerEnds DEF OwnerSteps, CaTyped, OnlyActs
<1>4. CASE all_present /\ ca.pem # Torn /\ ca.key # Torn /\ signer' = [up |-> TRUE, pem |-> ca.pem, key |-> ca.key] /\ Move(o, "ok")
  <2>1. OnlyActs(o) /\ own'[o].pc = "ok" /\ own'[o].solo = own[o].solo BY <1>1, <1>4, OwnerMoves DEF OwnerSteps
  <2>2. signer' \in [up : BOOLEAN, pem : Material, key : Material] /\ signer'.pem = ca.pem /\ signer'.key = ca.key
    BY <1>1, <1>4 DEF CaTyped
  <2>3. CaTyped' BY <1>1, <2>1, <2>2 DEF CaTyped, OnlyActs
  <2>4. KeyLast' /\ Settings' /\ all_present' BY <1>1, <1>4 DEF CaInv, KeyLast, Settings, GoodBundle, all_present
  <2>5. SignsWith' BY <1>1, <1>4, <2>2, <2>4 DEF CaInv, SignsWith, KeyLast, all_present
  <2>6. BundleMade' BY <1>1, <2>1, BundleStays
  <2>7. Generates(o)' /\ Configures(o)' /\ Starts(o)' /\ ~Generating(o)'
    BY <2>1 DEF Generates, Configures, Starts, Generating
  <2> QED BY <1>1, <1>2, <2>1, <2>3, <2>4, <2>5, <2>6, <2>7, OwnerStepKept
<1> QED BY <1>3, <1>4 DEF StartBroker

(* The bundle of Claude Code is put together from the user's and the *)
(* authority's (claude_code.rs).                                     *)
LEMMA MergeKept == ASSUME CaInv, NEW o \in Owners, MergeBundle(o) PROVE CaInv'
<1>1. CaTyped /\ own[o].pc = "read" /\ UNCHANGED <<caHost, ca, store, trusted, signer, cc, gens, begun, past, cFaults>>
  BY DEF CaInv, MergeBundle
<1>2. Busy(o) /\ own[o].op = "configure" /\ all_present BY <1>1 DEF Busy, CaInv, Starts, Configures
<1>3. CASE ca.pem = Missing BY <1>2, <1>3 DEF all_present
<1>4. CASE ca.pem # Missing
  <2> DEFINE b == Previous \cup ({ca.pem} \ {Torn})
             r1 == [own[o] EXCEPT !.pc = "bundle"]
             r == [r1 EXCEPT !.bundle = b]
  <2>1. own' = [own EXCEPT ![o] = r] BY <1>4 DEF MergeBundle
  <2>2. own[o] \in OwnerRecords /\ "bundle" \in OwnerSteps BY <1>1 DEF CaTyped, OwnerSteps
  <2>3. cc.env \in {"unset", "user", "managed"} /\ ca.pem \in Material /\ Settings BY <1>1 DEF CaTyped, CaInv
  <2>4. Previous \in SUBSET Nat /\ (cc.named => UserCert \in Previous)
    BY <2>3 DEF Previous, Settings, UserCert, GoodBundle
  <2>5. b \in SUBSET Nat /\ (cc.named => UserCert \in b) BY <2>3, <2>4 DEF Material
  <2>6. ~past.mixed => \E g \in b : g > 0 BY <1>2, <2>3 DEF CaInv, KeyLast, all_present, Material, Torn
  <2> HIDE DEF b
  <2>7. r1 \in OwnerRecords /\ r1.pc = "bundle" /\ r1.op = own[o].op /\ r1.solo = own[o].solo BY <2>2, StepSet, Zenon
  <2> HIDE DEF r1
  <2>8. r \in OwnerRecords /\ r.pc = "bundle" /\ r.op = own[o].op /\ r.solo = own[o].solo /\ r.bundle = b
    BY <2>5, <2>7, BundleSet, Zenon
  <2> HIDE DEF r
  <2>9. OnlyActs(o) /\ own'[o] = r BY <1>1, <2>1, <2>8, OwnerReplaced
  <2>10. CaTyped' BY <1>1, <2>9 DEF CaTyped, OnlyActs
  <2>11. BundleMade' BY <1>1, <2>9, BundleStays
  <2>12. b # NoBundle BY <2>5 DEF NoBundle
  <2>13. GoodBundle(own[o].bundle)' BY <1>1, <2>5, <2>6, <2>8, <2>9, <2>12 DEF GoodBundle
  <2>14. Configures(o)' /\ Starts(o)' /\ ~Generating(o)' BY <1>2, <2>8, <2>9, <2>13 DEF Configures, Starts, Generating
  <2> QED BY <1>1, <1>2, <2>8, <2>9, <2>10, <2>11, <2>14, OwnerQuiet
<1> QED BY <1>3, <1>4

(* Bundle, settings and state are written in this order (claude_code.rs). *)
LEMMA ConfigureKept == ASSUME CaInv, NEW o \in Owners, Configure(o) PROVE CaInv'
<1>1. CaTyped /\ UNCHANGED <<caHost, ca, store, trusted, signer, gens, begun, past>> BY DEF CaInv, Configure
<1>2. own[o].pc \in {"bundle", "settings", "state"} BY DEF Configure, WriteSettings, WriteBundleState
<1>3. Busy(o) /\ own[o].op = "configure" /\ Configures(o) /\ Settings BY <1>2 DEF Busy, CaInv, Starts
<1>4. cFaults' \in Nat BY <1>1, CFaultCounts DEF Configure
<1>5. CASE UNCHANGED cc /\ \E p \in {"ok", "failed"} : Move(o, p)
  <2>1. PICK p \in {"ok", "failed"} : Move(o, p) BY <1>5
  <2>2. OnlyActs(o) BY <1>1, <2>1, OwnerMoves DEF OwnerSteps
  <2>3. CaTyped' BY <1>1, <1>4, <1>5, <2>2 DEF CaTyped, OnlyActs
  <2>4. BundleMade' BY <1>1, <1>2, <2>2, BundleStays
  <2> QED BY <1>1, <1>3, <1>5, <2>1, <2>3, <2>4, OwnerEnds
<1>6. ASSUME NEW p \in {"settings", "state"}, Move(o, p), cc' \in [env : {"unset", "user", "managed"}, bundle : SUBSET Int, named : BOOLEAN],
             cc'.named = cc.named, cc'.env \in {cc.env, "managed"}, cc'.bundle \in SUBSET Nat, GoodBundle(cc.bundle)' PROVE CaInv'
  <2>1. OnlyActs(o) /\ own'[o].pc = p /\ own'[o].op = own[o].op /\ own'[o].solo = own[o].solo
    BY <1>1, <1>6, OwnerMoves DEF OwnerSteps
  <2>2. CaTyped' BY <1>1, <1>4, <1>6, <2>1 DEF CaTyped, OnlyActs
  <2>3. Settings' BY <1>3, <1>6 DEF Settings
  <2>4. KeyLast' /\ SignsWith' /\ (all_present => all_present') BY <1>1 DEF CaInv, KeyLast, SignsWith, all_present
  <2>5. BundleMade' BY <1>1, <1>2, <2>1, BundleStays
  <2>6. Generates(o)' /\ Configures(o)' /\ Starts(o)' /\ ~Generating(o)'
    BY <1>3, <1>6, <2>1 DEF Generates, Configures, Starts, Generating
  <2> QED BY <1>1, <1>3, <1>6, <2>1, <2>2, <2>3, <2>4, <2>5, <2>6, OwnerStepKept
<1>7. CASE own[o].pc = "bundle" /\ cc' = [cc EXCEPT !.bundle = own[o].bundle] /\ Move(o, "settings")
  BY <1>1, <1>3, <1>6, <1>7 DEF CaTyped, OwnerRecords, Configures, GoodBundle
<1>8. CASE own[o].pc = "settings" /\ cc' = [cc EXCEPT !.env = "managed"] /\ Move(o, "state")
  BY <1>1, <1>3, <1>6, <1>8 DEF Configures, CaTyped, GoodBundle, Settings
<1> QED BY <1>5, <1>7, <1>8 DEF Configure, WriteSettings, WriteBundleState

(* What an operation that begins does to the others. *)
BegunBy(o) ==
    /\ own' \in [Owners -> OwnerRecords]
    /\ own'[o].op \in {"start", "configure", "uninstall"} /\ own'[o].pc = FirstStep[own'[o].op]
    /\ own'[o].op = "configure" => all_present
    /\ own'[o].solo => \A q \in Owners : ~Busy(q)
    /\ \A p \in Owners \ {o} :
        /\ own'[p].op = own[p].op /\ own'[p].pc = own[p].pc /\ own'[p].gen = own[p].gen /\ own'[p].half = own[p].half /\ own'[p].bundle = own[p].bundle
        /\ Busy(p) => ~own'[p].solo

(* BeginOwner begins one program, and no other is alone from then on. *)
LEMMA OwnerBegins == ASSUME CaTyped, NEW o \in Owners, BeginOwner(o) PROVE BegunBy(o)
<1> DEFINE b == \A q \in Owners : ~Busy(q)
<1>1. PICK op \in {"start", "configure", "uninstall"} :
        /\ op = "configure" => signer.up /\ all_present
        /\ own' = [p \in Owners |->
            IF p = o THEN [own[o] EXCEPT !.op = op, !.pc = FirstStep[op], !.solo = b]
            ELSE IF Busy(p) THEN [own[p] EXCEPT !.solo = FALSE] ELSE own[p]]
  BY DEF BeginOwner
<1> DEFINE f == FirstStep[op]
           r1 == [own[o] EXCEPT !.op = op]
           r2 == [r1 EXCEPT !.pc = f]
           n == [r2 EXCEPT !.solo = b]
           other(p) == IF Busy(p) THEN [own[p] EXCEPT !.solo = FALSE] ELSE own[p]
<1>2. \A p \in Owners : own[p] \in OwnerRecords BY DEF CaTyped
<1>3. f \in OwnerSteps BY DEF FirstStep, OwnerSteps
<1>4. b \in BOOLEAN /\ FALSE \in BOOLEAN OBVIOUS
<1>5. own' = [p \in Owners |-> IF p = o THEN n ELSE other(p)] BY <1>1
<1>6. b => \A q \in Owners : ~Busy(q) OBVIOUS
<1>7. f = FirstStep[op] OBVIOUS
<1> HIDE DEF b, f
<1>8. r1 \in OwnerRecords /\ r1.op = op BY <1>2, OperationSet, Zenon
<1> HIDE DEF r1
<1>9. r2 \in OwnerRecords /\ r2.op = op /\ r2.pc = f BY <1>3, <1>8, StepSet, Zenon
<1> HIDE DEF r2
<1>10. n \in OwnerRecords /\ n.op = op /\ n.pc = f /\ n.solo = b BY <1>4, <1>9, AloneSet, Zenon
<1> HIDE DEF n
<1>11. \A p \in Owners : /\ other(p) \in OwnerRecords /\ (Busy(p) => ~other(p).solo)
                        /\ other(p).op = own[p].op /\ other(p).pc = own[p].pc /\ other(p).gen = own[p].gen /\ other(p).half = own[p].half /\ other(p).bundle = own[p].bundle
  BY <1>2, <1>4, AloneSet, Zenon
<1> HIDE DEF other
<1>12. own'[o] = n /\ \A p \in Owners \ {o} : own'[p] = other(p) BY <1>5
<1>13. own' \in [Owners -> OwnerRecords] BY <1>5, <1>10, <1>11
<1>14. own'[o].op = op /\ own'[o].pc = FirstStep[own'[o].op] /\ own'[o].solo = b BY <1>7, <1>10, <1>12
<1> QED BY <1>1, <1>6, <1>11, <1>12, <1>13, <1>14 DEF BegunBy

(* A program begins. *)
LEMMA BeginOwnerKept == ASSUME CaInv, NEW o \in Owners, BeginOwner(o) PROVE CaInv'
<1>1. CaTyped /\ ~Busy(o) /\ begun' = begun + 1 /\ UNCHANGED <<caHost, ca, store, trusted, signer, cc, gens, past, cFaults>>
  BY DEF CaInv, BeginOwner
<1>2. BegunBy(o) BY <1>1, OwnerBegins
<1>3. CaTyped' BY <1>1, <1>2 DEF CaTyped, BegunBy
<1>4. own'[o].pc \in {"presence", "read", "remove"}
      /\ (own'[o].pc = "presence" => own'[o].op = "start") /\ (own'[o].pc = "read" => own'[o].op = "configure") /\ (own'[o].pc = "remove" => own'[o].op = "uninstall")
  BY <1>2 DEF BegunBy, FirstStep
<1>5. ASSUME NEW p \in Owners, p # o PROVE
        /\ own'[p].op = own[p].op /\ own'[p].pc = own[p].pc /\ own'[p].gen = own[p].gen /\ own'[p].half = own[p].half /\ own'[p].bundle = own[p].bundle
        /\ Busy(p) => ~own'[p].solo
  BY <1>2, <1>5 DEF BegunBy
<1>6. OwnersAlone' BY <1>2, <1>5 DEF CaInv, OwnersAlone, BegunBy, Busy
<1>7. KeyLast' /\ SignsWith' /\ Settings' /\ all_present' = all_present BY <1>1, FilesStay
<1>8. OneGenerates' BY <1>1, <1>4, <1>5 DEF CaInv, OneGenerates, Generating
<1>9. BundleMade' BY <1>1, <1>5 DEF Busy, CaInv, BundleMade
<1>10. ASSUME NEW p \in Owners PROVE Generates(p)' /\ Configures(p)' /\ Starts(p)'
  BY <1>1, <1>2, <1>4, <1>5, <1>7 DEF BegunBy, Generates, Generating, Configures, Starts, CaInv, GoodBundle, Busy
<1> QED BY <1>3, <1>6, <1>7, <1>8, <1>9, <1>10 DEF CaInv

(* Steps taken while no program works. *)
LEMMA IdleKept == ASSUME CaInv, CaTyped', \A o \in Owners : ~Busy(o), UNCHANGED <<caHost, own, store, trusted>>, past'.missed = past.missed,
                         KeyLast', SignsWith', Settings' PROVE CaInv'
<1>1. \A o \in Owners : own[o].pc \in {"begin", "ok", "failed"} BY DEF Busy
<1>2. \A o \in Owners : Generates(o)' /\ Configures(o)' /\ Starts(o)'
  BY <1>1 DEF Generates, Generating, Configures, Starts
<1>3. OneGenerates' /\ OwnersAlone' BY <1>1 DEF OneGenerates, Generating, OwnersAlone, Busy
<1>4. BundleMade' BY DEF CaInv, BundleMade
<1> QED BY <1>2, <1>3, <1>4 DEF CaInv

(* The directory of the authority is removed. *)
LEMMA RemoveStoreKept == ASSUME CaInv, RemoveStore PROVE CaInv'
<1>1. CaTyped /\ (\A o \in Owners : ~Busy(o)) /\ UNCHANGED <<caHost, store, trusted, signer, cc, own, gens, begun>> /\ CFault
      /\ ca' = [der |-> Missing, pem |-> Missing, key |-> Missing] /\ past' = [past EXCEPT !.orphaned = @ \/ signer.up]
  BY DEF CaInv, RemoveStore
<1>2. signer.up \in BOOLEAN BY <1>1 DEF CaTyped
<1>3. /\ past' \in [mixed : BOOLEAN, orphaned : BOOLEAN, missed : BOOLEAN] /\ past'.mixed = past.mixed /\ past'.missed = past.missed
      /\ past'.orphaned = (past.orphaned \/ signer.up)
  BY <1>1, <1>2 DEF CaTyped
<1>4. ca' \in [der : Material, pem : Material, key : Material] /\ ca'.key = Missing BY <1>1 DEF Material, Missing
<1>5. cFaults' \in Nat BY <1>1, CFaultCounts
<1>6. CaTyped' BY <1>1, <1>3, <1>4, <1>5 DEF CaTyped
<1>7. KeyLast' BY <1>4 DEF KeyLast
<1>8. SignsWith' BY <1>1, <1>3 DEF CaInv, SignsWith
<1>9. Settings' BY <1>1, <1>3 DEF CaInv, Settings, GoodBundle
<1> QED BY <1>1, <1>3, <1>6, <1>7, <1>8, <1>9, IdleKept

(* The broker stops. *)
LEMMA BrokerStopsKept == ASSUME CaInv, BrokerStops PROVE CaInv'
<1>1. CaTyped /\ UNCHANGED <<caHost, ca, store, trusted, cc, own, gens, begun, past>> /\ CFault
      /\ signer' = [up |-> FALSE, pem |-> Missing, key |-> Missing]
  BY DEF CaInv, BrokerStops
<1>2. signer' \in [up : BOOLEAN, pem : Material, key : Material] /\ ~signer'.up BY <1>1 DEF Material, Missing
<1>3. cFaults' \in Nat BY <1>1, CFaultCounts
<1>4. CaTyped' BY <1>1, <1>2, <1>3 DEF CaTyped
<1>5. SignsWith' BY <1>2 DEF SignsWith
<1> QED
  BY <1>1, <1>4, <1>5 DEF CaInv, OwnersAlone, OneGenerates, KeyLast, Settings, BundleMade, Generates, Configures,
     Starts, Busy, Generating,
      GoodBundle, all_present

(* The user names an authority in the settings. *)
LEMMA UserEditsKept == ASSUME CaInv, UserEdits PROVE CaInv'
<1>1. CaTyped /\ (\A o \in Owners : ~Busy(o)) /\ UNCHANGED <<caHost, ca, store, trusted, signer, own, gens, begun, past>> /\ CFault
      /\ cc' = [cc EXCEPT !.env = "user", !.named = TRUE]
  BY DEF CaInv, UserEdits
<1>2. cc' \in [env : {"unset", "user", "managed"}, bundle : SUBSET Int, named : BOOLEAN] /\ cc'.env = "user" /\ cc'.bundle = cc.bundle
  <2>1. TRUE \in BOOLEAN OBVIOUS
  <2> QED BY <1>1, <2>1 DEF CaTyped
<1>3. cFaults' \in Nat BY <1>1, CFaultCounts
<1>4. CaTyped' BY <1>1, <1>2, <1>3 DEF CaTyped
<1>5. KeyLast' /\ SignsWith' BY <1>1 DEF CaInv, KeyLast, SignsWith, all_present
<1>6. Settings' BY <1>2 DEF CaInv, Settings
<1> QED BY <1>1, <1>4, <1>5, <1>6, IdleKept

(* Every step keeps the invariant. *)
LEMMA CaInductive == ASSUME CaInv, [CaNext]_caVars PROVE CaInv'
<1>1. CASE UNCHANGED caVars
  BY <1>1 DEF caVars, CaInv, CaTyped, OwnersAlone, OneGenerates, KeyLast, SignsWith, Settings, BundleMade,
     Generates, Configures, Starts, Busy, Generating,
      GoodBundle, all_present
<1>2. CASE \E o \in Owners : OwnerStep(o)
  <2>1. PICK o \in Owners : OwnerStep(o) BY <1>2
  <2>2. CASE GenerateAndStore(o) BY <2>2, WriteKept DEF GenerateAndStore
  <2> QED
    BY <2>1, <2>2, BeginOwnerKept, LoadKept, InstallRootKept, AddCertificateKept, UpdateKept, VerifyKept, UninstallKept,
             StartBrokerKept, MergeKept, ConfigureKept DEF OwnerStep
<1> QED BY <1>1, <1>2, RemoveStoreKept, BrokerStopsKept, UserEditsKept DEF CaNext

(* The invariant gives AuthorityKept. *)
LEMMA AuthorityMeans == ASSUME CaInv PROVE AuthorityKept
  BY DEF CaInv, SignsWith, Settings, GoodBundle, AuthorityKept, SignerWhole, BundleKept

(* Only the last step of a start reports its success. *)
LEMMA OnlyStartEnds ==
    ASSUME CaInv, [CaNext]_caVars, NEW o \in Owners, own[o].op = "start", own[o].pc # "ok", own'[o].pc = "ok"
    PROVE  StartBroker(o)
<1>1. CaTyped /\ Starts(o) BY DEF CaInv
<1>2. own' # own OBVIOUS
<1>3. PICK p \in Owners : OwnerStep(p) BY <1>2 DEF CaNext, caVars, RemoveStore, BrokerStops, UserEdits
<1>4. ASSUME OnlyActs(p) PROVE p = o BY <1>4 DEF OnlyActs
<1>5. ASSUME NEW q \in OwnerSteps \ {"ok"}, Move(p, q) PROVE FALSE BY <1>1, <1>4, <1>5, OwnerMoves
<1>6. ASSUME Move(p, "ok") PROVE p = o BY <1>1, <1>4, <1>6, OwnerMoves DEF OwnerSteps
<1>7. \A q \in {"trust", "failed", "broker", "verify", "update", "settings", "state"} : q \in OwnerSteps \ {"ok"}
  BY DEF OwnerSteps
<1>8. ~BeginOwner(p) BY <1>1, OwnerBegins DEF BegunBy, FirstStep
<1>9. ~load_or_generate(p) BY <1>1, <1>5, <1>7 DEF WriteOrder, CaTyped, OwnerRecords, load_or_generate
<1>10. ~GenerateAndStore(p)
  BY <1>1, <1>5, <1>7 DEF GenerateAndStore, CaTyped, OwnerRecords, WriteOrder, WrittenAfter, write_file
<1>11. ~InstallRoot(p) BY <1>1, <1>5, <1>7 DEF CaTyped, OwnerRecords, InstallRoot
<1>12. ~AddCertificate(p) BY <1>5, <1>7 DEF AddCertificate, AddTrusted, WriteCertificateAtomically, AddEncoded
<1>13. ~UpdateCertificates(p) BY <1>5, <1>6, <1>7 DEF UpdateCertificates
<1>14. ~VerifyInstalled(p) BY <1>5, <1>7 DEF VerifyInstalled
<1>15. ~UninstallRoot(p)
  BY <1>1, <1>5, <1>6, <1>7 DEF UninstallRoot, DeleteTrusted, RemoveCertificateFile, DeleteContext, Starts
<1>16. ~MergeBundle(p) BY <1>1, <1>5, <1>7 DEF CaTyped, OwnerRecords, MergeBundle
<1>17. ~Configure(p) BY <1>1, <1>5, <1>6, <1>7 DEF Configure, WriteSettings, WriteBundleState, Starts
<1>18. StartBroker(p) BY <1>3, <1>8, <1>9, <1>10, <1>11, <1>12, <1>13, <1>14, <1>15, <1>16, <1>17 DEF OwnerStep
<1>19. p = o BY <1>5, <1>6, <1>7, <1>18 DEF StartBroker
<1> QED BY <1>18, <1>19

(* A start that succeeds undisturbed leaves a broker whose root is trusted: *)
(* the certificate added is the one on disk, and with the key on disk that  *)
(* is the broker's.                                                         *)
LEMMA StartsTrusted == ASSUME CaInv, [CaNext]_caVars PROVE [StartTrusted]_caVars
<1> SUFFICES ASSUME NEW o \in Owners, own[o].op = "start", own[o].pc # "ok", own'[o].pc = "ok", own[o].solo, caHost # "windows",
                    ~past.mixed, ~past.orphaned, ~(caHost = "linux" /\ past.missed)
             PROVE  signer'.pem \in trusted
  BY DEF StartTrusted
<1>1. StartBroker(o) BY OnlyStartEnds
<1>2. CaTyped /\ own[o].pc = "broker" /\ KeyLast /\ SignsWith /\ Starts(o) BY <1>1 DEF StartBroker, CaInv
<1>3. ca.der \in trusted BY <1>2 DEF Starts
<1>4. CASE signer.up BY <1>1, <1>2, <1>3, <1>4 DEF StartBroker, SignsWith, all_present, KeyLast
<1>5. CASE ~signer.up BY <1>1, <1>2, <1>3, <1>5, OwnerMoves DEF OwnerSteps, all_present, KeyLast, StartBroker
<1> QED BY <1>4, <1>5

-----------------------------------------------------------------------------
(* The profiles and credentials of the query tool. *)

(* A data service with its authentication service, 0 for none. *)
PairRecord == [data : 0..2, auth : 0..2]
(* The points between which a command of the query tool can be interrupted. *)
ToolStates == {"begin", "start", "poll", "exchange", "store", "read", "revoke", "erase", "lock", "edit", "write", "resolve", "get", "ok", "failed"}
(* What such a command does. *)
ToolOps == {"none", "login", "logout", "forget", "query", "add", "remove", "signin", "signout"}
(* Its locals. *)
ToolRecord == [op : ToolOps, pc : ToolStates, pair : PairRecord, tok : Nat, tries : Nat]
(* A token at the service that issued it. *)
IssuedRecord == [st : {"none", "live", "revoked", "expired"}, pair : PairRecord]
(* Profile, vault, credential file and tokens have their types. *)
QueryTypes ==
    /\ profile \in Pairs \cup {NoProfile} /\ profLock \in Tools \cup {Nobody}
    /\ issued \in [Tokens -> IssuedRecord] /\ late \in BOOLEAN
    /\ cliCred \in [tok : Nat, auth : 0..2]
(* The locals of the commands have theirs. *)
ToolTypes == tool \in [Tools -> ToolRecord]
(* The token was issued for the pair of services. *)
IssuedFor(t, p) == t \in Tokens /\ issued[t].st # "none" /\ issued[t].pair = p /\ p \in Pairs
(* A credential in the vault was issued for the pair it is bound to. *)
Vaulted == \A v \in vault : \E p \in Pairs : v.bind = binding(p) /\ IssuedFor(v.tok, p)
(* The one in the file was issued by the service it names. *)
FileHolds == cliCred # NoToken => \E p \in Pairs : p.auth = cliCred.auth /\ IssuedFor(cliCred.tok, p)
(* A request went to the service its token was issued for. *)
SentBound ==
    \A s \in sent : \E p \in Pairs : IssuedFor(s.tok, p) /\ s.to = IF s.kind = "data" THEN p.data ELSE p.auth
(* What a command has in hand at each of its points. *)
ToolOK(c) ==
    /\ tool[c].op \in {"login", "signin", "query", "logout", "add"} /\ Engaged(c) => tool[c].pair \in Pairs
    /\ tool[c].pc \in {"store", "get"} => IssuedFor(tool[c].tok, tool[c].pair)
    /\ tool[c].op = "logout" /\ tool[c].pc \in {"revoke", "erase"} => IssuedFor(tool[c].tok, tool[c].pair)
    /\ tool[c].op = "logout" /\ tool[c].pc = "erase" => issued[tool[c].tok].st = "revoked"
    /\ tool[c].op = "signout" /\ tool[c].pc \in {"revoke", "erase"} =>
          \E p \in Pairs : p.auth = tool[c].pair.auth /\ IssuedFor(tool[c].tok, p)
    /\ tool[c].pc \in {"start", "poll", "exchange", "store"} => tool[c].op \in {"login", "signin"}
    /\ tool[c].pc \in {"resolve", "get"} => tool[c].op = "query"
    /\ tool[c].pc \in {"lock", "edit"} => tool[c].op \in {"add", "remove"}
    /\ tool[c].pc = "write" => tool[c].op = "remove"
(* Only the holder of the profile lock edits, and its view of the profile *)
(* is current.                                                            *)
EditOK(c) ==
    tool[c].pc \in {"edit", "write"} =>
        /\ profLock = c /\ (tool[c].op = "remove" => tool[c].pair = profile)
        /\ tool[c].pc = "write" /\ ~late => vault = {}
(* The inductive invariant of profiles and credentials. *)
QueryInv == /\ QueryTypes /\ ToolTypes /\ Vaulted /\ FileHolds /\ SentBound /\ VaultHasProfile
            /\ \A c \in Tools : ToolOK(c) /\ EditOK(c)

(* Tokens once issued stay so. *)
IssuedStays ==
    \A t \in Tokens : issued[t].st # "none" =>
        /\ issued'[t].st # "none" /\ issued'[t].pair = issued[t].pair
        /\ issued[t].st = "revoked" => issued'[t].st = "revoked"
(* Only one command moves. *)
OnlyTool(c) == ToolTypes' /\ \A d \in Tools \ {c} : tool'[d] = tool[d]

(* What a token was issued for does not change. *)
LEMMA StillIssued == ASSUME IssuedStays, NEW t, NEW p, IssuedFor(t, p) PROVE IssuedFor(t, p)'
  BY DEF IssuedStays, IssuedFor

(* The commands that a step does not concern keep what they have in hand. *)
LEMMA ToolsAside ==
    ASSUME QueryInv, NEW c \in Tools, OnlyTool(c), IssuedStays PROVE \A d \in Tools \ {c} : ToolOK(d)'
<1> SUFFICES ASSUME NEW d \in Tools \ {c} PROVE ToolOK(d)'
  OBVIOUS
<1>1. tool'[d] = tool[d] /\ ToolOK(d) /\ (Engaged(d)' <=> Engaged(d))
  BY DEF OnlyTool, QueryInv, Engaged
<1>2. \A t, p : IssuedFor(t, p) => IssuedFor(t, p)'
  BY StillIssued
<1>3. tool[d].op = "logout" /\ tool[d].pc = "erase" => issued'[tool[d].tok].st = "revoked"
  BY <1>1 DEF ToolOK, IssuedStays, IssuedFor
<1> QED BY <1>1, <1>2, <1>3 DEF ToolOK

(* A command at rest, and one that begins, are well formed. *)
LEMMA RestRecord == AtRest \in ToolRecord
  BY DEF ToolRecord, AtRest, NoProfile, PairRecord, ToolOps, ToolStates

(* A command's locals with another operation and point are well formed. *)
LEMMA BegunRecord == \A r \in ToolRecord : \A op \in ToolOps : \A q \in ToolStates : [r EXCEPT !.op = op, !.pc = q] \in ToolRecord
  BY DEF ToolRecord

(* At, as a step of one record. *)
LEMMA AtFacts ==
    ASSUME ToolTypes, NEW c \in Tools, NEW pc \in ToolStates, At(c, pc)
    PROVE /\ OnlyTool(c) /\ tool'[c].pc = pc /\ tool'[c].op = tool[c].op
          /\ pc \notin {"ok", "failed"} => tool'[c].pair = tool[c].pair /\ tool'[c].tok = tool[c].tok
<1>1. \A r \in ToolRecord : \A q \in ToolStates : [r EXCEPT !.pc = q] \in ToolRecord
  BY DEF ToolRecord
<1>2. \A op \in ToolOps : \A q \in ToolStates : [AtRest EXCEPT !.op = op, !.pc = q] \in ToolRecord
  BY RestRecord, BegunRecord, Zenon
<1>3. tool[c] \in ToolRecord /\ tool[c].op \in ToolOps BY DEF ToolTypes, ToolRecord
<1> DEFINE r == IF pc \in {"ok", "failed"} THEN [AtRest EXCEPT !.op = tool[c].op, !.pc = pc] ELSE [tool[c] EXCEPT !.pc = pc]
<1>4. r \in ToolRecord BY <1>1, <1>2, <1>3
<1>5. r.pc = pc /\ r.op = tool[c].op /\ (pc \notin {"ok", "failed"} => r.pair = tool[c].pair /\ r.tok = tool[c].tok)
  BY <1>3 DEF ToolRecord, AtRest
<1>6. tool' = [tool EXCEPT ![c] = r] BY DEF At
<1> HIDE DEF r
<1>7. tool'[c] = r /\ \A d \in Tools \ {c} : tool'[d] = tool[d] BY <1>6 DEF ToolTypes
<1>8. ToolTypes' BY <1>4, <1>6 DEF ToolTypes
<1> QED BY <1>5, <1>7, <1>8 DEF OnlyTool

(* A command that has ended promises nothing. *)
LEMMA EndedTool ==
    ASSUME NEW c \in Tools, tool'[c].pc \in {"ok", "failed"} PROVE ToolOK(c)' /\ EditOK(c)'
  BY DEF ToolOK, EditOK, Engaged

(* A step that leaves the profiles alone. *)
LEMMA QueryMoves ==
    ASSUME QueryInv, NEW c \in Tools, OnlyTool(c), IssuedStays, QueryTypes', ToolOK(c)', EditOK(c)',
           FileHolds', SentBound', UNCHANGED <<profile, profLock, vault, late>>
    PROVE QueryInv'
<1>1. \A t, p : IssuedFor(t, p) => IssuedFor(t, p)'
  BY StillIssued
<1>2. Vaulted'
  BY <1>1 DEF Vaulted, QueryInv, binding
<1>3. VaultHasProfile'
  BY DEF VaultHasProfile, QueryInv, binding
<1>4. \A d \in Tools : ToolOK(d)' BY ToolsAside
<1>5. \A d \in Tools \ {c} : EditOK(d)' BY DEF OnlyTool, QueryInv, EditOK
<1> QED BY <1>2, <1>3, <1>4, <1>5 DEF QueryInv, OnlyTool

(* One that also issues and sends nothing. *)
LEMMA ToolMoves ==
    ASSUME QueryInv, NEW c \in Tools, OnlyTool(c), ToolOK(c)', EditOK(c)',
           UNCHANGED <<profile, profLock, vault, late, issued, sent, cliCred>>
    PROVE QueryInv'
<1>1. IssuedStays BY DEF IssuedStays
<1>2. QueryTypes' BY DEF QueryInv, QueryTypes
<1>3. FileHolds' /\ SentBound' BY DEF QueryInv, FileHolds, SentBound, IssuedFor
<1> QED BY <1>1, <1>2, <1>3, QueryMoves

(* A step of a command that ends and changes nothing else. *)
LEMMA ToolEnds ==
    ASSUME QueryInv, NEW c \in Tools, At(c, "failed") \/ At(c, "ok"), UNCHANGED <<profile, profLock, vault, late, issued, sent, cliCred>>
    PROVE QueryInv'
<1>1. "ok" \in ToolStates /\ "failed" \in ToolStates /\ ToolTypes BY DEF ToolStates, QueryInv
<1>2. OnlyTool(c) /\ tool'[c].pc \in {"ok", "failed"} BY <1>1, AtFacts
<1> QED BY <1>2, EndedTool, ToolMoves

(* The pairs are pairs, and no profile is none of them. *)
LEMMA PairTypes == Pairs \subseteq PairRecord /\ NoProfile \in PairRecord /\ NoProfile \notin Pairs
  BY DEF Pairs, PairRecord, NoProfile

(* A command begins. *)
LEMMA BeginToolKeeps == ASSUME QueryInv, NEW c \in Tools, BeginTool(c) PROVE QueryInv'
<1>1. PICK op \in DOMAIN FirstPc : \E pair \in
            CASE op \in {"add", "signin"} -> Pairs
              [] op = "signout" -> {[data |-> 0, auth |-> cliCred.auth]}
              [] OTHER -> {profile} :
        /\ op \in {"login", "logout", "forget", "query"} => profile # NoProfile
        /\ tool' = [tool EXCEPT ![c] = [AtRest EXCEPT !.op = op, !.pc = FirstPc[op], !.pair = pair]]
  BY Zenon DEF BeginTool
<1>2. PICK pair \in
            CASE op \in {"add", "signin"} -> Pairs
              [] op = "signout" -> {[data |-> 0, auth |-> cliCred.auth]}
              [] OTHER -> {profile} :
        /\ op \in {"login", "logout", "forget", "query"} => profile # NoProfile
        /\ tool' = [tool EXCEPT ![c] = [AtRest EXCEPT !.op = op, !.pc = FirstPc[op], !.pair = pair]]
  BY <1>1, Zenon
<1>3. op \in {"login", "logout", "forget", "query", "add", "remove", "signin", "signout"} BY DEF FirstPc
<1>4. FirstPc[op] \in {"start", "read", "erase", "resolve", "lock"}
      /\ (FirstPc[op] = "start" => op \in {"login", "signin"}) /\ (FirstPc[op] = "erase" => op = "forget")
      /\ (FirstPc[op] = "resolve" => op = "query") /\ (FirstPc[op] = "lock" => op \in {"add", "remove"})
  BY <1>3 DEF FirstPc
<1>5. pair \in PairRecord /\ (op \in {"login", "signin", "query", "logout", "add"} => pair \in Pairs)
  BY <1>2, <1>3, PairTypes DEF QueryInv, QueryTypes, PairRecord
<1> DEFINE r == [AtRest EXCEPT !.op = op, !.pc = FirstPc[op], !.pair = pair]
<1>6. r \in ToolRecord BY <1>3, <1>4, <1>5, RestRecord DEF ToolRecord, ToolOps, ToolStates
<1>7. r.op = op /\ r.pc = FirstPc[op] /\ r.pair = pair BY DEF AtRest
<1>8. tool' = [tool EXCEPT ![c] = r] BY <1>2
<1> HIDE DEF r
<1>9. OnlyTool(c) /\ tool'[c] = r BY <1>6, <1>8 DEF QueryInv, ToolTypes, OnlyTool
<1>10. ToolOK(c)' /\ EditOK(c)' BY <1>4, <1>5, <1>7, <1>9 DEF ToolOK, EditOK
<1>11. UNCHANGED <<profile, profLock, vault, late, issued, sent, cliCred>> BY DEF BeginTool
<1> QED BY <1>9, <1>10, <1>11, ToolMoves

(* A login starts its attempt and polls for the user's consent (auth.rs). *)
LEMMA PlainKeeps ==
    ASSUME QueryInv, NEW c \in Tools, StartAttempt(c) \/ poll_until_authenticated(c) PROVE QueryInv'
<1>1. UNCHANGED <<profile, profLock, vault, late, issued, sent, cliCred>> BY DEF StartAttempt, poll_until_authenticated
<1>2. CASE At(c, "failed") BY <1>1, <1>2, ToolEnds
<1>3. ASSUME NEW pc \in {"poll", "exchange"}, At(c, pc) PROVE QueryInv'
  BY <1>1, <1>3, AtFacts, ToolMoves DEF ToolStates, QueryInv, StartAttempt, poll_until_authenticated, ToolOK, EditOK,
     Engaged
<1> QED BY <1>2, <1>3 DEF StartAttempt, poll_until_authenticated

(* A command goes on with a token in hand. *)
LEMMA WithToken ==
    ASSUME ToolTypes, NEW c \in Tools, NEW pc \in ToolStates, NEW t \in Nat, tool' = [tool EXCEPT ![c].pc = pc, ![c].tok = t]
    PROVE OnlyTool(c) /\ tool'[c].pc = pc /\ tool'[c].tok = t /\ tool'[c].op = tool[c].op /\ tool'[c].pair = tool[c].pair
<1>1. \A r \in ToolRecord : \A q \in ToolStates, u \in Nat : [r EXCEPT !.pc = q, !.tok = u] \in ToolRecord
  BY DEF ToolRecord
<1> DEFINE r == [tool[c] EXCEPT !.pc = pc, !.tok = t]
<1>2. tool[c] \in ToolRecord BY DEF ToolTypes
<1>3. r \in ToolRecord BY <1>1, <1>2, Zenon
<1>4. r.pc = pc /\ r.tok = t /\ r.op = tool[c].op /\ r.pair = tool[c].pair BY <1>2 DEF ToolRecord
<1>5. tool' = [tool EXCEPT ![c] = r] BY DEF ToolTypes
<1> HIDE DEF r
<1> QED BY <1>3, <1>4, <1>5 DEF OnlyTool, ToolTypes

(* Tokens are numbers, and nobody is no command. *)
LEMMA TokensAreNumbers == ASSUME QueryAuthAssumption PROVE Tokens \subseteq Nat /\ Nobody \notin Tools
  BY DEF QueryAuthAssumption, Tokens, Nobody

(* A token becomes revoked, expired or issued. *)
LEMMA IssuedChanges ==
    ASSUME QueryInv, NEW t \in Tokens, NEW r \in IssuedRecord, issued' = [issued EXCEPT ![t] = r],
           issued[t].st # "none" => r.st # "none" /\ r.pair = issued[t].pair /\ (issued[t].st = "revoked" => r.st = "revoked")
    PROVE IssuedStays /\ issued' \in [Tokens -> IssuedRecord] /\ issued'[t] = r
  BY DEF QueryInv, QueryTypes, IssuedStays

(* The service issues a token for the pair the login began with. *)
LEMMA ExchangeKeeps == ASSUME QueryAuthAssumption, QueryInv, NEW c \in Tools, Exchange(c) PROVE QueryInv'
<1>1. PICK t \in Fresh :
        \/ /\ issued' = [issued EXCEPT ![t] = [st |-> "live", pair |-> tool[c].pair]]
           /\ tool' = [tool EXCEPT ![c].pc = "store", ![c].tok = t] /\ UNCHANGED qFaults
        \/ /\ QFault /\ At(c, "failed")
           /\ issued' = [issued EXCEPT ![t] = [st |-> "live", pair |-> tool[c].pair]]
  BY DEF Exchange
<1>2. t \in Tokens /\ issued[t].st = "none" /\ t \in Nat BY TokensAreNumbers DEF Fresh
<1> DEFINE r == [st |-> "live", pair |-> tool[c].pair]
<1>3. ToolOK(c) /\ ToolTypes /\ tool[c].pc = "exchange" BY DEF QueryInv, Exchange
<1>4. tool[c].pair \in Pairs /\ tool[c].pair \in PairRecord BY <1>3, PairTypes DEF ToolOK, Engaged
<1>5. r \in IssuedRecord /\ r.st = "live" /\ r.pair = tool[c].pair BY <1>4 DEF IssuedRecord
<1>6. issued' = [issued EXCEPT ![t] = r] BY <1>1
<1> HIDE DEF r
<1>7. IssuedStays /\ issued' \in [Tokens -> IssuedRecord] /\ issued'[t] = r BY <1>2, <1>5, <1>6, IssuedChanges
<1>8. UNCHANGED <<profile, profLock, vault, cliCred, sent, late>> BY DEF Exchange
<1>9. QueryTypes' BY <1>7, <1>8 DEF QueryInv, QueryTypes
<1>10. \A u, p : IssuedFor(u, p) => IssuedFor(u, p)' BY <1>7, StillIssued
<1>11. FileHolds' /\ SentBound' BY <1>8, <1>10 DEF QueryInv, FileHolds, SentBound
<1>12. OnlyTool(c) /\ ToolOK(c)' /\ EditOK(c)'
  <2>1. CASE At(c, "failed") BY <1>3, <2>1, AtFacts, EndedTool DEF ToolStates
  <2>2. CASE tool' = [tool EXCEPT ![c].pc = "store", ![c].tok = t]
    <3>1. "store" \in ToolStates BY DEF ToolStates
    <3>2. OnlyTool(c) /\ tool'[c].pc = "store" /\ tool'[c].tok = t /\ tool'[c].op = tool[c].op /\ tool'[c].pair = tool[c].pair
      BY <1>2, <1>3, <2>2, <3>1, WithToken
    <3>3. issued'[t].st # "none" /\ issued'[t].pair = tool[c].pair BY <1>5, <1>7
    <3>4. ToolOK(c)' /\ EditOK(c)' BY <1>2, <1>3, <1>4, <3>2, <3>3 DEF ToolOK, EditOK, IssuedFor, Engaged
    <3> QED BY <3>2, <3>4
  <2> QED BY <1>1, <2>1, <2>2
<1> QED BY <1>7, <1>8, <1>9, <1>11, <1>12, QueryMoves

(* A step that writes the vault or the profile and issues nothing. *)
LEMMA VaultMoves ==
    ASSUME QueryInv, NEW c \in Tools, OnlyTool(c), ToolOK(c)', EditOK(c)', UNCHANGED <<issued, sent>>,
           QueryTypes', FileHolds', Vaulted', VaultHasProfile', \A d \in Tools \ {c} : EditOK(d)'
    PROVE QueryInv'
<1>1. IssuedStays BY DEF IssuedStays
<1>2. SentBound' BY DEF QueryInv, SentBound, IssuedFor
<1>3. \A d \in Tools : ToolOK(d)' BY <1>1, ToolsAside
<1> QED BY <1>2, <1>3 DEF QueryInv, OnlyTool

(* Credentials only go. *)
LEMMA VaultShrinks ==
    ASSUME QueryInv, NEW c \in Tools, OnlyTool(c), ToolOK(c)', EditOK(c)', UNCHANGED <<profile, profLock, late, issued, sent, cliCred>>,
           vault' \subseteq vault
    PROVE QueryInv'
<1>1. QueryTypes' BY DEF QueryInv, QueryTypes
<1>2. FileHolds' BY DEF QueryInv, FileHolds, IssuedFor
<1>3. Vaulted' /\ VaultHasProfile' BY DEF QueryInv, Vaulted, VaultHasProfile, IssuedFor, binding
<1>4. \A d \in Tools \ {c} : EditOK(d)' BY DEF QueryInv, EditOK, OnlyTool
<1> QED BY <1>1, <1>2, <1>3, <1>4, VaultMoves

(* The token is put into the vault, bound to that pair (credentials.rs). *)
LEMMA WriteVaultKeeps ==
    ASSUME QueryInv, NEW c \in Tools, tool[c].pc = "store", WriteVault(c), UNCHANGED <<profile, profLock, issued, sent>>
    PROVE QueryInv'
<1>1. ToolTypes /\ ToolOK(c) BY DEF QueryInv
<1>2. CASE issued[tool[c].tok].st = "expired" BY <1>2, ToolEnds DEF WriteVault
<1>3. CASE issued[tool[c].tok].st # "expired"
  <2> DEFINE v == [bind |-> binding(tool[c].pair), tok |-> tool[c].tok]
  <2>1. /\ vault' = {w \in vault : w.bind # binding(tool[c].pair)} \cup {v}
        /\ late' = (late \/ profile # tool[c].pair \/ \E d \in Tools : tool[d].pc = "write")
        /\ At(c, "ok") /\ UNCHANGED cliCred
    BY <1>3 DEF WriteVault
  <2>2. "ok" \in ToolStates BY DEF ToolStates
  <2>3. OnlyTool(c) /\ tool'[c].pc = "ok" BY <1>1, <2>1, <2>2, AtFacts
  <2>4. ToolOK(c)' /\ EditOK(c)' BY <2>3, EndedTool
  <2>5. late' \in BOOLEAN BY <2>1 DEF QueryInv, QueryTypes
  <2>6. QueryTypes' BY <2>1, <2>5 DEF QueryInv, QueryTypes
  <2>7. FileHolds' BY <2>1 DEF QueryInv, FileHolds, IssuedFor
  <2>8. v.bind = binding(tool[c].pair) /\ v.tok = tool[c].tok OBVIOUS
  <2>9. IssuedFor(tool[c].tok, tool[c].pair) BY <1>1 DEF ToolOK
  <2> HIDE DEF v
  <2>10. Vaulted' BY <2>1, <2>8, <2>9 DEF QueryInv, Vaulted, IssuedFor, binding
  <2>11. VaultHasProfile' BY <2>1, <2>8 DEF VaultHasProfile, binding, QueryInv
  <2>12. \A d \in Tools \ {c} : EditOK(d)' BY <2>1, <2>3 DEF QueryInv, EditOK, OnlyTool
  <2> QED BY <2>1, <2>3, <2>4, <2>6, <2>7, <2>10, <2>11, <2>12, VaultMoves
<1> QED BY <1>2, <1>3

(* The token is stored, in the vault or in the file. *)
LEMMA StoreKeeps == ASSUME QueryAuthAssumption, QueryInv, NEW c \in Tools, Store(c) PROVE QueryInv'
<1>1. tool[c].pc = "store" /\ UNCHANGED <<profile, profLock, issued, sent>> BY DEF Store
<1>2. CASE WriteVault(c) BY <1>1, <1>2, WriteVaultKeeps
<1>3. CASE WriteCredentialFile(c)
  <2>1. At(c, "ok") /\ UNCHANGED <<vault, late>> /\ cliCred' = [tok |-> tool[c].tok, auth |-> tool[c].pair.auth]
    BY <1>3 DEF WriteCredentialFile
  <2>2. "ok" \in ToolStates /\ ToolTypes /\ ToolOK(c) BY DEF ToolStates, QueryInv
  <2>3. OnlyTool(c) /\ tool'[c].pc = "ok" BY <2>1, <2>2, AtFacts
  <2>4. ToolOK(c)' /\ EditOK(c)' BY <2>3, EndedTool
  <2>5. tool[c].tok \in Nat /\ tool[c].pair.auth \in 0..2 BY <2>2 DEF ToolTypes, ToolRecord, PairRecord
  <2>6. QueryTypes' BY <1>1, <2>1, <2>5 DEF QueryInv, QueryTypes
  <2>7. IssuedFor(tool[c].tok, tool[c].pair) /\ tool[c].pair \in Pairs BY <1>1, <2>2 DEF ToolOK, IssuedFor
  <2>8. FileHolds' BY <1>1, <2>1, <2>7 DEF FileHolds, IssuedFor
  <2>9. SentBound' /\ IssuedStays BY <1>1 DEF QueryInv, SentBound, IssuedFor, IssuedStays
  <2> QED BY <1>1, <2>1, <2>3, <2>4, <2>6, <2>8, <2>9, QueryMoves
<1>4. CASE QFault /\ At(c, "failed") /\ UNCHANGED <<vault, cliCred, late>> BY <1>1, <1>4, ToolEnds
<1> QED BY <1>2, <1>3, <1>4 DEF Store

(* A logout reads the credential it is to revoke. *)
LEMMA ReadKeeps == ASSUME QueryAuthAssumption, QueryInv, NEW c \in Tools, ReadStoredCredential(c) PROVE QueryInv'
<1>1. UNCHANGED <<profile, profLock, vault, cliCred, issued, sent, late>> /\ tool[c].pc = "read"
  BY DEF ReadStoredCredential
<1>2. ToolTypes /\ ToolOK(c) BY DEF QueryInv
<1>3. CASE At(c, "failed") BY <1>1, <1>3, ToolEnds
<1>4. CASE tool[c].op = "logout" /\ \E v \in Held(c) : tool' = [tool EXCEPT ![c].pc = "revoke", ![c].tok = v.tok]
  <2>1. PICK v \in Held(c) : tool' = [tool EXCEPT ![c].pc = "revoke", ![c].tok = v.tok] BY <1>4
  <2>2. PICK p \in Pairs : v.bind = binding(p) /\ IssuedFor(v.tok, p) BY DEF Held, QueryInv, Vaulted
  <2>3. v.tok \in Nat /\ "revoke" \in ToolStates BY <2>2, TokensAreNumbers DEF IssuedFor, ToolStates
  <2>4. OnlyTool(c) /\ tool'[c].pc = "revoke" /\ tool'[c].tok = v.tok /\ tool'[c].op = tool[c].op /\ tool'[c].pair = tool[c].pair
    BY <1>2, <2>1, <2>3, WithToken
  <2>5. tool[c].pair \in Pairs BY <1>1, <1>2, <1>4 DEF ToolOK, Engaged
  <2>6. tool[c].pair = p BY <2>2, <2>5 DEF Held, binding, Pairs
  <2>8. ToolOK(c)' /\ EditOK(c)' BY <1>1, <1>4, <2>2, <2>4, <2>5, <2>6 DEF ToolOK, EditOK, IssuedFor
  <2> QED BY <1>1, <2>4, <2>8, ToolMoves
<1>5. CASE tool[c].op = "signout" /\ cliCred # NoToken /\ tool' = [tool EXCEPT ![c].pc = "erase", ![c].tok = cliCred.tok, ![c].pair.auth = cliCred.auth]
  <2>1. \A r \in ToolRecord : \A q \in ToolStates, u \in Nat, a \in 0..2 : [r EXCEPT !.pc = q, !.tok = u, !.pair.auth = a] \in ToolRecord
    BY DEF ToolRecord, PairRecord
  <2> DEFINE r == [tool[c] EXCEPT !.pc = "erase", !.tok = cliCred.tok, !.pair.auth = cliCred.auth]
  <2>2. tool[c] \in ToolRecord /\ cliCred.tok \in Nat /\ cliCred.auth \in 0..2 /\ "erase" \in ToolStates
    BY <1>2 DEF ToolTypes, QueryInv, QueryTypes, ToolStates
  <2>3. r \in ToolRecord BY <2>1, <2>2, Zenon
  <2>4. r.pc = "erase" /\ r.tok = cliCred.tok /\ r.op = "signout" /\ r.pair.auth = cliCred.auth
    BY <1>5, <2>2 DEF ToolRecord, PairRecord
  <2>5. tool' = [tool EXCEPT ![c] = r] BY <1>2, <1>5 DEF ToolTypes
  <2> HIDE DEF r
  <2>6. OnlyTool(c) /\ tool'[c] = r BY <1>2, <2>3, <2>5 DEF OnlyTool, ToolTypes
  <2>7. PICK p \in Pairs : p.auth = cliCred.auth /\ IssuedFor(cliCred.tok, p) BY <1>5 DEF QueryInv, FileHolds
  <2>8. ToolOK(c)' /\ EditOK(c)' BY <1>1, <2>4, <2>6, <2>7 DEF ToolOK, EditOK, IssuedFor
  <2> QED BY <1>1, <2>6, <2>8, ToolMoves
<1> QED BY <1>3, <1>4, <1>5 DEF ReadStoredCredential, ReadVault, ReadCredentialFile

(* A request with a token goes where the token belongs. *)
LEMMA SentTo ==
    ASSUME QueryInv, IssuedStays, NEW t, NEW kind \in {"auth", "data"}, NEW to, sent' = sent \cup {[tok |-> t, kind |-> kind, to |-> to]},
           \E p \in Pairs : IssuedFor(t, p) /\ to = IF kind = "data" THEN p.data ELSE p.auth
    PROVE SentBound'
<1> DEFINE n == [tok |-> t, kind |-> kind, to |-> to]
<1>1. \A u, p : IssuedFor(u, p) => IssuedFor(u, p)' BY StillIssued
<1>2. n.tok = t /\ n.kind = kind /\ n.to = to OBVIOUS
<1>3. \A s \in sent' : s \in sent \/ s = n OBVIOUS
<1> HIDE DEF n
<1>4. \A s \in sent : \E p \in Pairs : IssuedFor(s.tok, p)' /\ s.to = IF s.kind = "data" THEN p.data ELSE p.auth
  BY <1>1 DEF QueryInv, SentBound
<1>5. \E p \in Pairs : IssuedFor(n.tok, p)' /\ n.to = IF n.kind = "data" THEN p.data ELSE p.auth
  BY <1>1, <1>2
<1> QED BY <1>3, <1>4, <1>5 DEF SentBound, IssuedFor

(* Revoked changes the state of one token. *)
LEMMA RevokedStays ==
    ASSUME QueryInv, NEW c \in Tools, tool[c].tok \in Tokens, issued[tool[c].tok].st # "none", Revoked(c)
    PROVE IssuedStays /\ issued' \in [Tokens -> IssuedRecord] /\ issued'[tool[c].tok].st = "revoked"
<1> DEFINE t == tool[c].tok
           r == [issued[t] EXCEPT !.st = "revoked"]
<1>1. issued \in [Tokens -> IssuedRecord] /\ t \in Tokens BY DEF QueryInv, QueryTypes
<1>2. r \in IssuedRecord /\ r.st = "revoked" /\ r.pair = issued[t].pair BY <1>1 DEF IssuedRecord
<1>3. issued' = [issued EXCEPT ![t] = r] BY <1>1 DEF Revoked
<1> HIDE DEF r
<1> QED BY <1>1, <1>2, <1>3, IssuedChanges

(* The token is revoked at the service that issued it. *)
LEMMA RevokeKeeps == ASSUME QueryAuthAssumption, QueryInv, NEW c \in Tools, RevokeToken(c) PROVE QueryInv'
<1>1. /\ tool[c].pc = "revoke" /\ UNCHANGED <<profile, profLock, vault, cliCred, late>>
      /\ sent' = sent \cup {[tok |-> tool[c].tok, kind |-> "auth", to |-> tool[c].pair.auth]}
      /\ tool[c].op \in {"logout", "signout"}
  BY DEF RevokeToken, RevokeFirst, native_logout
<1>2. ToolTypes /\ ToolOK(c) BY DEF QueryInv
<1>3. \E p \in Pairs : p.auth = tool[c].pair.auth /\ IssuedFor(tool[c].tok, p)
  BY <1>1, <1>2 DEF ToolOK, IssuedFor
<1>4. tool[c].tok \in Tokens /\ issued[tool[c].tok].st # "none" BY <1>3 DEF IssuedFor
<1>5. IssuedStays /\ issued' \in [Tokens -> IssuedRecord] /\ (Revoked(c) => issued'[tool[c].tok].st = "revoked")
  BY <1>4, RevokedStays DEF IssuedStays, QueryInv, QueryTypes, RevokeToken, RevokeFirst, native_logout
<1>6. QueryTypes' BY <1>1, <1>5 DEF QueryInv, QueryTypes
<1>7. \A u, p : IssuedFor(u, p) => IssuedFor(u, p)' BY <1>5, StillIssued
<1>8. FileHolds' BY <1>1, <1>7 DEF QueryInv, FileHolds
<1>9. SentBound' BY <1>1, <1>3, <1>5, SentTo
<1>10. OnlyTool(c) /\ ToolOK(c)' /\ EditOK(c)'
  <2>1. ASSUME NEW pc \in {"ok", "failed"}, At(c, pc) PROVE OnlyTool(c) /\ ToolOK(c)' /\ EditOK(c)'
    <3>1. pc \in ToolStates BY DEF ToolStates
    <3>2. OnlyTool(c) /\ tool'[c].pc = pc BY <1>2, <2>1, <3>1, AtFacts
    <3> QED BY <3>2, EndedTool
  <2>2. CASE Revoked(c) /\ At(c, "erase") /\ tool[c].op = "logout"
    <3>1. "erase" \in ToolStates BY DEF ToolStates
    <3>2. OnlyTool(c) /\ tool'[c].pc = "erase" /\ tool'[c].op = tool[c].op /\ tool'[c].pair = tool[c].pair /\ tool'[c].tok = tool[c].tok
      BY <1>2, <2>2, <3>1, AtFacts
    <3>3. IssuedFor(tool[c].tok, tool[c].pair) /\ tool[c].pair \in Pairs BY <1>1, <1>2, <2>2 DEF ToolOK, Engaged
    <3>4. issued'[tool[c].tok].st = "revoked" /\ issued'[tool[c].tok].pair = tool[c].pair
      BY <1>5, <2>2, <3>3 DEF IssuedStays, IssuedFor
    <3>5. ToolOK(c)' /\ EditOK(c)' BY <1>4, <2>2, <3>2, <3>3, <3>4 DEF ToolOK, EditOK, IssuedFor
    <3> QED BY <3>2, <3>5
  <2> QED BY <2>1, <2>2 DEF RevokeToken, RevokeFirst, native_logout
<1> QED BY <1>1, <1>5, <1>6, <1>8, <1>9, <1>10, QueryMoves

(* The credential is erased. *)
LEMMA EraseKeeps == ASSUME QueryInv, NEW c \in Tools, EraseCredential(c) PROVE QueryInv'
<1>1. tool[c].pc = "erase" /\ UNCHANGED <<profile, profLock, issued, sent, late>> BY DEF EraseCredential
<1>2. ToolTypes /\ ToolOK(c) /\ "ok" \in ToolStates /\ "revoke" \in ToolStates BY DEF QueryInv, ToolStates
<1>3. CASE vault' = vault \ Held(c) /\ At(c, "ok") /\ UNCHANGED cliCred
  BY <1>1, <1>2, <1>3, AtFacts, EndedTool, VaultShrinks
<1>4. CASE tool[c].op = "signout" /\ cliCred' = NoToken /\ At(c, "revoke") /\ UNCHANGED vault
  <2>1. OnlyTool(c) /\ tool'[c].pc = "revoke" /\ tool'[c].op = tool[c].op /\ tool'[c].pair = tool[c].pair /\ tool'[c].tok = tool[c].tok
    BY <1>2, <1>4, AtFacts
  <2>2. PICK p \in Pairs : p.auth = tool[c].pair.auth /\ IssuedFor(tool[c].tok, p) BY <1>1, <1>2, <1>4 DEF ToolOK
  <2>3. ToolOK(c)' /\ EditOK(c)' BY <1>1, <1>4, <2>1, <2>2 DEF ToolOK, EditOK, IssuedFor
  <2>4. QueryTypes' BY <1>1, <1>4 DEF QueryInv, QueryTypes, NoToken
  <2>5. FileHolds' BY <1>4 DEF FileHolds, NoToken
  <2>6. SentBound' /\ IssuedStays BY <1>1 DEF QueryInv, SentBound, IssuedFor, IssuedStays
  <2> QED BY <1>1, <1>4, <2>1, <2>3, <2>4, <2>5, <2>6, QueryMoves
<1> QED BY <1>3, <1>4 DEF EraseCredential

(* A query looks for the credential bound to its profile. *)
LEMMA ResolveKeeps == ASSUME QueryAuthAssumption, QueryInv, NEW c \in Tools, Resolve(c) PROVE QueryInv'
<1>1. UNCHANGED <<profile, profLock, vault, cliCred, issued, sent, late>> /\ tool[c].pc = "resolve" BY DEF Resolve
<1>2. ToolTypes /\ ToolOK(c) BY DEF QueryInv
<1>3. CASE At(c, "failed") BY <1>1, <1>3, ToolEnds
<1>4. CASE \E v \in Held(c) : tool' = [tool EXCEPT ![c].pc = "get", ![c].tok = v.tok]
  <2>1. PICK v \in Held(c) : tool' = [tool EXCEPT ![c].pc = "get", ![c].tok = v.tok] BY <1>4
  <2>2. PICK p \in Pairs : v.bind = binding(p) /\ IssuedFor(v.tok, p) BY DEF Held, QueryInv, Vaulted
  <2>3. v.tok \in Nat /\ "get" \in ToolStates BY <2>2, TokensAreNumbers DEF IssuedFor, ToolStates
  <2>4. OnlyTool(c) /\ tool'[c].pc = "get" /\ tool'[c].tok = v.tok /\ tool'[c].op = tool[c].op /\ tool'[c].pair = tool[c].pair
    BY <1>2, <2>1, <2>3, WithToken
  <2>5. tool[c].pair \in Pairs /\ tool[c].op = "query" BY <1>1, <1>2 DEF ToolOK, Engaged
  <2>6. tool[c].pair = p BY <2>2, <2>5 DEF Held, binding, Pairs
  <2>7. ToolOK(c)' /\ EditOK(c)' BY <1>1, <2>2, <2>4, <2>5, <2>6 DEF ToolOK, EditOK, IssuedFor
  <2> QED BY <1>1, <2>4, <2>7, ToolMoves
<1> QED BY <1>3, <1>4 DEF Resolve

(* It sends its request with it, perhaps more than once. *)
LEMMA GetKeeps == ASSUME QueryAuthAssumption, QueryInv, NEW c \in Tools, Get(c) PROVE QueryInv'
<1>1. /\ tool[c].pc = "get" /\ UNCHANGED <<profile, profLock, vault, cliCred, issued, late>>
      /\ sent' = sent \cup {[tok |-> tool[c].tok, kind |-> "data", to |-> tool[c].pair.data]}
  BY DEF Get
<1>2. ToolTypes /\ ToolOK(c) BY DEF QueryInv
<1>3. IssuedFor(tool[c].tok, tool[c].pair) /\ tool[c].pair \in Pairs BY <1>1, <1>2 DEF ToolOK, IssuedFor
<1>4. IssuedStays /\ QueryTypes' /\ FileHolds' BY <1>1 DEF IssuedStays, QueryInv, QueryTypes, FileHolds, IssuedFor
<1>5. SentBound' BY <1>1, <1>3, <1>4, SentTo
<1>6. OnlyTool(c) /\ ToolOK(c)' /\ EditOK(c)'
  <2>1. ASSUME NEW pc \in {"ok", "failed"}, At(c, pc) PROVE OnlyTool(c) /\ ToolOK(c)' /\ EditOK(c)'
    BY <1>2, <2>1, AtFacts, EndedTool DEF ToolStates
  <2>2. CASE tool' = [tool EXCEPT ![c].tries = @ + 1]
    BY <1>1, <1>2, <1>3, <2>2 DEF ToolRecord, ToolTypes, OnlyTool, ToolOK, EditOK, IssuedFor, Engaged
  <2> QED BY <2>1, <2>2 DEF Get
<1> QED BY <1>1, <1>4, <1>5, <1>6, QueryMoves

(* A token expires. *)
LEMMA ExpireKeeps == ASSUME QueryInv, Expire PROVE QueryInv'
<1>1. PICK t \in Tokens : issued[t].st = "live" /\ issued' = [issued EXCEPT ![t].st = "expired"] BY DEF Expire
<1>2. UNCHANGED <<profile, profLock, vault, cliCred, tool, sent, late>> BY DEF Expire
<1> DEFINE r == [issued[t] EXCEPT !.st = "expired"]
<1>3. issued \in [Tokens -> IssuedRecord] BY DEF QueryInv, QueryTypes
<1>4. r \in IssuedRecord /\ r.st = "expired" /\ r.pair = issued[t].pair BY <1>3 DEF IssuedRecord
<1>5. issued' = [issued EXCEPT ![t] = r] BY <1>1, <1>3
<1> HIDE DEF r
<1>6. IssuedStays /\ issued' \in [Tokens -> IssuedRecord] BY <1>1, <1>4, <1>5, IssuedChanges
<1>7. QueryTypes' BY <1>2, <1>6 DEF QueryInv, QueryTypes
<1>8. \A u, p : IssuedFor(u, p) => IssuedFor(u, p)' BY <1>6, StillIssued
<1>9. FileHolds' /\ SentBound' /\ Vaulted' BY <1>2, <1>8 DEF QueryInv, FileHolds, SentBound, Vaulted, binding
<1>10. VaultHasProfile' /\ ToolTypes' BY <1>2 DEF QueryInv, VaultHasProfile, ToolTypes, binding
<1>11. ASSUME NEW d \in Tools PROVE ToolOK(d)' /\ EditOK(d)'
  BY <1>2, <1>6, <1>8 DEF QueryInv, ToolOK, IssuedStays, IssuedFor, Engaged, EditOK
<1> QED BY <1>7, <1>9, <1>10, <1>11 DEF QueryInv

(* Only the holder of profiles.lock edits. *)
LEMMA EditsAlone ==
    ASSUME QueryAuthAssumption, QueryInv, NEW c \in Tools, profLock \in {c, Nobody} PROVE \A d \in Tools \ {c} : tool[d].pc \notin {"edit", "write"}
  BY TokensAreNumbers DEF QueryInv, EditOK

(* A command takes the lock of the profiles. *)
LEMMA LockProfilesKeeps == ASSUME QueryAuthAssumption, QueryInv, NEW c \in Tools, LockProfiles(c) PROVE QueryInv'
<1>1. /\ tool[c].pc = "lock" /\ profLock = Nobody /\ profLock' = c
      /\ UNCHANGED <<profile, vault, cliCred, issued, sent, late>>
  BY DEF LockProfiles
<1>2. ToolTypes /\ ToolOK(c) BY DEF QueryInv
<1> DEFINE p == IF tool[c].op = "remove" THEN profile ELSE tool[c].pair
           r == [tool[c] EXCEPT !.pc = "edit", !.pair = p]
<1>3. \A i \in ToolRecord : \A q \in ToolStates, u \in PairRecord : [i EXCEPT !.pc = q, !.pair = u] \in ToolRecord
  BY DEF ToolRecord
<1>4. tool[c] \in ToolRecord /\ tool[c].pair \in PairRecord /\ "edit" \in ToolStates /\ profile \in PairRecord
  BY <1>2, PairTypes DEF ToolTypes, ToolRecord, ToolStates, QueryInv, QueryTypes
<1>5. p \in PairRecord /\ (tool[c].op = "remove" => p = profile) /\ (tool[c].op # "remove" => p = tool[c].pair) BY <1>4
<1>6. r \in ToolRecord BY <1>3, <1>4, <1>5, Zenon
<1>7. r.pc = "edit" /\ r.pair = p /\ r.op = tool[c].op BY <1>4 DEF ToolRecord
<1>8. tool' = [tool EXCEPT ![c] = r] BY <1>2 DEF LockProfiles, ToolTypes
<1> HIDE DEF r, p
<1>9. OnlyTool(c) /\ tool'[c] = r BY <1>2, <1>6, <1>8 DEF OnlyTool, ToolTypes
<1>10. ToolOK(c)' BY <1>1, <1>2, <1>5, <1>7, <1>9 DEF ToolOK, Engaged
<1>11. EditOK(c)' BY <1>1, <1>5, <1>7, <1>9 DEF EditOK
<1>12. \A d \in Tools \ {c} : EditOK(d)' BY <1>1, <1>9, EditsAlone DEF OnlyTool, EditOK
<1>13. QueryTypes' BY <1>1 DEF QueryInv, QueryTypes
<1>14. FileHolds' /\ Vaulted' /\ VaultHasProfile'
  BY <1>1 DEF QueryInv, FileHolds, Vaulted, VaultHasProfile, IssuedFor, binding
<1> QED BY <1>1, <1>9, <1>10, <1>11, <1>12, <1>13, <1>14, VaultMoves

(* The lock is dropped by its holder, or stays. *)
LEMMA UnlockFacts == ASSUME QueryInv, NEW c \in Tools, Unlock(c) PROVE profLock' \in Tools \cup {Nobody} /\ (profLock # c => profLock' = profLock)
  BY DEF Unlock, QueryInv, QueryTypes

(* A command ends and may drop the lock. *)
LEMMA UnlocksEnd ==
    ASSUME QueryAuthAssumption, QueryInv, NEW c \in Tools, NEW pc \in {"ok", "failed"}, At(c, pc), Unlock(c),
           UNCHANGED <<issued, sent, cliCred, late, vault, profile>>
    PROVE QueryInv'
<1>1. pc \in ToolStates /\ ToolTypes BY DEF ToolStates, QueryInv
<1>2. OnlyTool(c) /\ tool'[c].pc = pc BY <1>1, AtFacts
<1>3. ToolOK(c)' /\ EditOK(c)' BY <1>2, EndedTool
<1>4. profLock' \in Tools \cup {Nobody} /\ (profLock # c => profLock' = profLock) BY UnlockFacts
<1>5. QueryTypes' BY <1>4 DEF QueryInv, QueryTypes
<1>6. FileHolds' /\ Vaulted' /\ VaultHasProfile'
  BY DEF QueryInv, FileHolds, Vaulted, VaultHasProfile, IssuedFor, binding
<1>7. \A d \in Tools \ {c} : EditOK(d)' BY <1>2, <1>4, EditsAlone DEF OnlyTool, EditOK, QueryInv
<1> QED BY <1>2, <1>3, <1>5, <1>6, <1>7, VaultMoves

(* The profile changes under the lock, when no credential is left for it. *)
LEMMA ProfileChanges ==
    ASSUME QueryAuthAssumption, QueryInv, NEW c \in Tools, profLock = c, At(c, "ok"), Unlock(c), UNCHANGED <<issued, sent, cliCred, late, vault>>,
           profile' \in Pairs \cup {NoProfile}, ~late => vault = {}
    PROVE QueryInv'
<1>1. "ok" \in ToolStates /\ ToolTypes BY DEF ToolStates, QueryInv
<1>2. OnlyTool(c) /\ tool'[c].pc = "ok" BY <1>1, AtFacts
<1>3. ToolOK(c)' /\ EditOK(c)' BY <1>2, EndedTool
<1>4. profLock' \in Tools \cup {Nobody} BY UnlockFacts
<1>5. QueryTypes' BY <1>4 DEF QueryInv, QueryTypes
<1>6. FileHolds' /\ Vaulted' /\ VaultHasProfile'
  BY DEF QueryInv, FileHolds, Vaulted, VaultHasProfile, IssuedFor, binding
<1>7. \A d \in Tools \ {c} : EditOK(d)' BY <1>2, EditsAlone DEF OnlyTool, EditOK
<1> QED BY <1>2, <1>3, <1>5, <1>6, <1>7, VaultMoves

(* It adds a profile, or forgets the credentials of the one it removes *)
(* (profile.rs).                                                       *)
LEMMA EditProfilesKeeps == ASSUME QueryAuthAssumption, QueryInv, NEW c \in Tools, EditProfiles(c) PROVE QueryInv'
<1>1. tool[c].pc = "edit" /\ UNCHANGED <<cliCred, issued, sent, late>> BY DEF EditProfiles
<1>2. ToolTypes /\ ToolOK(c) /\ EditOK(c) BY DEF QueryInv
<1>3. profLock = c BY <1>1, <1>2 DEF EditOK
<1>4. CASE tool[c].op = "add" /\ profile = NoProfile /\ profile' = tool[c].pair /\ Unlock(c) /\ At(c, "ok") /\ UNCHANGED vault
  BY <1>1, <1>2, <1>3, <1>4, ProfileChanges DEF ToolOK, Engaged, QueryInv, VaultHasProfile, Vaulted, binding, Pairs,
     NoProfile
<1>5. CASE Unlock(c) /\ At(c, "failed") /\ UNCHANGED <<profile, vault>> BY <1>1, <1>5, UnlocksEnd
<1>6. CASE tool[c].op = "remove" /\ vault' = vault \ Held(c) /\ At(c, "write") /\ UNCHANGED <<profile, profLock>>
  <2>1. "write" \in ToolStates BY DEF ToolStates
  <2>2. OnlyTool(c) /\ tool'[c].pc = "write" /\ tool'[c].op = tool[c].op /\ tool'[c].pair = tool[c].pair
    BY <1>2, <1>6, <2>1, AtFacts
  <2>3. ToolOK(c)' BY <1>6, <2>2 DEF ToolOK, Engaged
  <2>4. tool[c].pair = profile BY <1>1, <1>2, <1>6 DEF EditOK
  <2>5. ~late => vault' = {} BY <1>6, <2>4 DEF QueryInv, VaultHasProfile, Held
  <2>6. EditOK(c)' BY <1>1, <1>3, <1>6, <2>2, <2>4, <2>5 DEF EditOK
  <2>7. vault' \subseteq vault BY <1>6
  <2> QED BY <1>1, <1>6, <2>2, <2>3, <2>6, <2>7, VaultShrinks
<1> QED BY <1>4, <1>5, <1>6 DEF EditProfiles

(* It writes the profiles. *)
LEMMA WriteProfilesKeeps == ASSUME QueryAuthAssumption, QueryInv, NEW c \in Tools, WriteProfiles(c) PROVE QueryInv'
<1>1. /\ tool[c].pc = "write" /\ profile' = NoProfile /\ Unlock(c) /\ At(c, "ok")
      /\ UNCHANGED <<vault, cliCred, issued, sent, late>>
  BY DEF WriteProfiles
<1>2. EditOK(c) BY DEF QueryInv
<1>3. profLock = c /\ (~late => vault = {}) BY <1>1, <1>2 DEF EditOK
<1> QED BY <1>1, <1>3, ProfileChanges

(* A command is killed. *)
LEMMA ToolDiesKeeps == ASSUME QueryAuthAssumption, QueryInv, NEW c \in Tools, ToolDies(c) PROVE QueryInv'
  BY UnlocksEnd DEF ToolDies

(* Every step of the query tool keeps the invariant. *)
LEMMA QueryInductive == ASSUME QueryAuthAssumption, QueryInv, [QueryNext]_queryVars PROVE QueryInv'
<1>1. CASE UNCHANGED queryVars
  <2>1. UNCHANGED <<profile, profLock, vault, cliCred, issued, tool, sent, late>> BY <1>1 DEF queryVars
  <2>2. QueryTypes' /\ ToolTypes' BY <2>1 DEF QueryInv, QueryTypes, ToolTypes
  <2>3. Vaulted' /\ FileHolds' /\ SentBound' /\ VaultHasProfile'
    BY <2>1 DEF QueryInv, Vaulted, FileHolds, SentBound, VaultHasProfile, IssuedFor, binding
  <2>4. \A c \in Tools : ToolOK(c)' /\ EditOK(c)' BY <2>1 DEF QueryInv, ToolOK, EditOK, IssuedFor, Engaged
  <2> QED BY <2>2, <2>3, <2>4 DEF QueryInv
<1>2. ASSUME NEW c \in Tools, ToolStep(c) PROVE QueryInv'
  BY <1>2, BeginToolKeeps, PlainKeeps, ExchangeKeeps, StoreKeeps, ReadKeeps, RevokeKeeps, EraseKeeps, LockProfilesKeeps,
     EditProfilesKeeps, WriteProfilesKeeps, ResolveKeeps, GetKeeps, ToolDiesKeeps DEF ToolStep
<1> QED BY <1>1, <1>2, ExpireKeeps DEF QueryNext

(* A tool without credentials, with or without a profile, satisfies it. *)
LEMMA QueryInitial == ASSUME QueryAuthAssumption, QueryInit PROVE QueryInv
<1>1. QueryTypes
  <2>1. [st |-> "none", pair |-> NoProfile] \in IssuedRecord BY PairTypes DEF IssuedRecord
  <2>2. issued \in [Tokens -> IssuedRecord] BY <2>1 DEF QueryInit
  <2>3. profile \in Pairs \cup {NoProfile} /\ cliCred \in [tok : Nat, auth : 0..2] BY DEF QueryInit, Pairs, NoToken
  <2>4. profLock \in Tools \cup {Nobody} /\ late \in BOOLEAN BY DEF QueryInit
  <2> QED BY <2>2, <2>3, <2>4 DEF QueryTypes
<1>2. ToolTypes BY RestRecord DEF QueryInit, ToolTypes
<1>3. Vaulted /\ FileHolds /\ SentBound /\ VaultHasProfile
  BY DEF QueryInit, Vaulted, FileHolds, SentBound, VaultHasProfile
<1>4. \A c \in Tools : ToolOK(c) /\ EditOK(c) BY DEF QueryInit, ToolOK, EditOK, Engaged, AtRest
<1> QED BY <1>1, <1>2, <1>3, <1>4 DEF QueryInv

(* The invariant gives CredentialsBound. *)
LEMMA TokensStayBound == ASSUME QueryInv PROVE CredentialsBound
<1>1. TokensBound BY DEF TokensBound, QueryInv, SentBound, IssuedFor
<1> QED BY <1>1 DEF QueryInv, CredentialsBound

(* A logout reports success only from the erasure, which comes after the *)
(* revocation.                                                           *)
LEMMA LogoutRevokes == ASSUME QueryAuthAssumption, QueryInv, [QueryNext]_queryVars PROVE [LogoutStep]_queryVars
<1> SUFFICES ASSUME QueryNext, NEW c \in Tools, tool[c].op = "logout", Engaged(c), tool'[c].pc = "ok" PROVE issued'[tool[c].tok].st = "revoked"
  BY DEF LogoutStep
<1>1. ToolTypes /\ ToolOK(c) /\ "ok" \in ToolStates /\ "failed" \in ToolStates BY DEF QueryInv, ToolStates
<1>2. ~Expire BY <1>1 DEF Expire, Engaged
<1>3. ASSUME NEW d \in Tools, ToolStep(d) PROVE d = c
  <2>1. QueryInv' BY QueryInductive
  <2>2. tool' \in [Tools -> ToolRecord] /\ tool \in [Tools -> ToolRecord] BY <2>1 DEF QueryInv, ToolTypes
  <2>3. \E r : tool' = [tool EXCEPT ![d] = r]
    BY <1>3, <2>2, ZenonT(60) DEF ToolStep, BeginTool, StartAttempt, poll_until_authenticated, Exchange, Store,
       WriteVault, WriteCredentialFile,
       ReadStoredCredential, ReadVault, ReadCredentialFile, RevokeToken, RevokeFirst, native_logout, EraseCredential, LockProfiles, EditProfiles,
       WriteProfiles, Resolve, Get, ToolDies, At
  <2> QED BY <1>1, <2>2, <2>3 DEF Engaged
<1>4. ToolStep(c) BY <1>2, <1>3 DEF QueryNext
<1>5. EraseCredential(c)
  <2>1. tool[c].pc \in {"read", "revoke", "erase"}
    BY <1>1 DEF ToolOK, Engaged, ToolTypes, ToolRecord, ToolStates
  <2>2. ~At(c, "failed") /\ ~At(c, "erase") BY <1>1, AtFacts DEF ToolStates
  <2>3. ~ToolDies(c) /\ ~BeginTool(c) BY <2>2 DEF ToolDies, BeginTool
  <2>4. ~RevokeToken(c) BY <2>2 DEF RevokeToken, RevokeFirst, native_logout
  <2>5. ~ReadStoredCredential(c)
    BY <1>1, <2>2 DEF ReadStoredCredential, ReadVault, ReadCredentialFile, ToolTypes, ToolRecord
  <2> QED BY <1>4, <2>1, <2>3, <2>4, <2>5
          DEF ToolStep, StartAttempt, poll_until_authenticated, Exchange, Store, LockProfiles, EditProfiles, WriteProfiles, Resolve, Get
<1> QED BY <1>1, <1>5 DEF ToolOK, EraseCredential

-----------------------------------------------------------------------------
(* Its listings. *)

(* What a listing asks for. *)
PageAsks == [kind : {"sessions", "events"}, first : Nat, size : Nat \ {0},
             items : Nat \ {0}, pages : Nat \ {0}, all : BOOLEAN]
(* What the service can answer. *)
PageReplies == [rows : Seq(Int), more : BOOLEAN, next : Nat, page : Nat, size : Nat, st : {"ok", "none"}]
(* What the tool has printed. *)
PageAnswers == [st : {"running", "printed", "failed"}, next : Nat, truncated : BOOLEAN]
(* Request, store, answer and gathered rows have their types. *)
PagesTyped ==
    /\ ask \in PageAsks /\ (ask.kind = "sessions" => ask.first > 0)
    /\ rows \in Nat /\ added \in Nat /\ attempt \in Nat /\ pages \in Nat /\ at \in Nat
    /\ got \in Seq(Int) /\ answer \in PageAnswers /\ reply \in PageReplies

(* The next window begins behind what was gathered and fits both budgets. *)
WithinBudget(n) == n + page_size <= ask.items /\ pages < ask.pages /\ page_size > 0
(* The position is behind the rows gathered. *)
Continues == Skip = First + Len(got) /\ (ask.kind = "sessions" => at > 0)

(* The rows gathered reach the position, as it was when a rows had been *)
(* added.                                                               *)
SeenAt(a) == got # <<>> => got[Len(got)] >= Skip - a
(* The number of rows in a window after a rows were added. *)
RowsIn(s, n, a) == IF rows + a > s THEN Least(n, rows + a - s) ELSE 0
(* The number of rows in the window asked for. *)
RowsShown(a) == RowsIn(Skip, page_size, a)
(* The answer tells of the store as it was when a rows had been added. *)
TakenAt(r, a) ==
    /\ Len(r.rows) = RowsShown(a) /\ \A k \in 1..Len(r.rows) : r.rows[k] = Skip + k - a
    /\ r.more = (rows + a > Skip + page_size)
    /\ r.more /\ ask.kind = "events" => r.next = Skip + page_size
(* An answer that passes the tool's checks tells of the store as it was at *)
(* some time since the last page.                                          *)
AnsweredTruly == reply # NoReply /\ ~Unacceptable =>
    \E a \in 0..added : SeenAt(a) /\ TakenAt(reply, a)

(* No row lies between two that were gathered after each other. *)
NoRowHidden == \A k \in 1..(Len(got) - 1) : got[k + 1] <= got[k] + 1
(* Unless rows were added, the rows gathered are those behind the first *)
(* position, in order.                                                  *)
InStep == added = 0 => \A k \in 1..Len(got) : got[k] = First + k
(* What is printed says whether and where there is more. *)
PrintedRight == answer.st = "printed" /\ added = 0 =>
        /\ (answer.next # 0) = (First + Len(got) < rows)
        /\ answer.next # 0 => SkipOf(answer.next) = First + Len(got)
        /\ answer.truncated = (ask.all /\ answer.next # 0)
(* The inductive invariant of a listing. *)
PagesInv ==
    /\ PagesTyped
    /\ answer.st = "running" => WithinBudget(Len(got)) /\ Continues /\ SeenAt(added) /\ AnsweredTruly
    /\ Len(got) <= ask.items /\ pages <= ask.pages
    /\ NoRowHidden /\ InStep /\ PrintedRight

(* The invariant gives PagesExact. *)
LEMMA PagesMean == ASSUME PagesInv PROVE PagesExact
<1>1. got \in Seq(Int) BY DEF PagesInv, PagesTyped
<1>2. ASSUME answer.st = "printed", added = 0 PROVE got = [k \in 1..Len(got) |-> First + k]
  BY <1>1, <1>2 DEF PagesInv, InStep
<1> QED BY <1>2 DEF PagesInv, PagesExact, NoRowHidden, PrintedRight

(* The smaller of two numbers. *)
LEMMA LeastOf == \A a, b \in Int : Least(a, b) \in {a, b} /\ Least(a, b) <= a /\ Least(a, b) <= b
  BY DEF Least

(* A listing begins within the invariant, as does a host on which none *)
(* happens.                                                            *)
LEMMA PagesInitial == ASSUME QueryPagesAssumption, PagesInit \/ RestingPages PROVE PagesInv
<1>1. ask \in PageAsks /\ (ask.kind = "sessions" => ask.first > 0)
  <2>1. CASE PagesInit BY <2>1 DEF PagesInit, QueryPagesAssumption, Asks, PageAsks
  <2>2. CASE ask = [kind |-> "events", first |-> 0, size |-> 1, items |-> 1, pages |-> 1, all |-> FALSE]
    BY <2>2 DEF PageAsks
  <2> QED BY <2>1, <2>2 DEF RestingPages
<1>2. rows \in Nat /\ added = 0 /\ reply = NoReply /\ attempt = 0 /\ got = <<>> /\ pages = 0 /\ at = ask.first /\ answer = Fetching
  BY DEF PagesInit, RestingPages, QueryPagesAssumption
<1>3. PagesTyped BY <1>1, <1>2 DEF PagesTyped, NoReply, Fetching, PageAnswers, PageReplies, PageAsks
<1>4. Len(got) = 0 BY <1>2
<1>5. ask.size \in Nat \ {0} /\ ask.items \in Nat \ {0} /\ ask.pages \in Nat \ {0} /\ ask.first \in Nat /\ ask.kind \in {"sessions", "events"}
  BY <1>1 DEF PageAsks
<1>6. page_size = Least(ask.size, ask.items) BY <1>4, <1>5 DEF page_size
<1>7. WithinBudget(Len(got)) BY <1>2, <1>4, <1>5, <1>6, LeastOf DEF WithinBudget
<1>8. Continues BY <1>1, <1>2, <1>4, <1>5, <1>6, LeastOf DEF Continues, Skip, First, SkipOf
<1> QED BY <1>2, <1>3, <1>4, <1>5, <1>7, <1>8
   DEF PagesInv, SeenAt, AnsweredTruly, NoRowHidden, InStep, PrintedRight, Fetching

(* The windows are numbers. *)
LEMMA WindowNumbers == ASSUME PagesTyped PROVE
    /\ ask.kind \in {"sessions", "events"} /\ ask.size \in Nat \ {0} /\ ask.items \in Nat \ {0} /\ ask.pages \in Nat \ {0}
    /\ ask.first \in Nat /\ ask.all \in BOOLEAN /\ Len(got) \in Nat
    /\ page_size \in Int /\ Skip \in Int /\ First \in Int /\ page_size <= ask.size
    /\ WithinBudget(Len(got)) /\ Continues => Skip \in Nat /\ page_size \in Nat \ {0}
<1>1. /\ ask.kind \in {"sessions", "events"} /\ ask.size \in Nat \ {0} /\ ask.items \in Nat \ {0} /\ ask.pages \in Nat \ {0}
      /\ ask.first \in Nat /\ ask.all \in BOOLEAN /\ Len(got) \in Nat /\ (ask.kind = "sessions" => ask.first - 1 \in Nat)
  BY DEF PagesTyped, PageAsks
<1>2. page_size \in Int /\ page_size <= ask.size BY <1>1, LeastOf DEF page_size
<1>3. Least(ask.size, ask.items) \in Nat BY <1>1, LeastOf
<1>4. \A a, b \in Int : a * b \in Int OBVIOUS
<1>5. \A a, b \in Nat : a * b \in Nat OBVIOUS
<1>6. First \in Nat BY <1>1, <1>3, <1>5 DEF First, SkipOf
<1>7. Skip \in Int BY <1>1, <1>2, <1>4 DEF PagesTyped, Skip
<1>8. WithinBudget(Len(got)) /\ Continues => Skip \in Nat /\ page_size \in Nat \ {0}
  BY <1>1, <1>2, <1>6, <1>7 DEF WithinBudget, Continues
<1> QED BY <1>1, <1>2, <1>6, <1>7, <1>8

(* What Window gives, row by row. *)
WindowIs(w, s, n) == w \in Seq(Int) /\ Len(w) = RowsIn(s, n, added) /\ \A k \in 1..Len(w) : w[k] = s + k - added

(* Window gives the rows from a position on, as many as fit. *)
LEMMA WindowRows == ASSUME NEW s \in Int, NEW n \in Nat, rows \in Nat, added \in Nat PROVE WindowIs(Window(s, n), s, n)
<1> DEFINE m == RowsIn(s, n, added)
<1>1. Least(n, IF rows + added > s THEN rows + added - s ELSE 0) = m BY DEF Least, RowsIn
<1>2. m \in Nat BY LeastOf DEF RowsIn
<1>3. Window(s, n) = [k \in 1..m |-> s + k - added] BY <1>1 DEF Window
<1> HIDE DEF m
<1>4. Window(s, n) \in Seq(Int) /\ Len(Window(s, n)) = m BY <1>2, <1>3
<1>5. \A k \in 1..m : Window(s, n)[k] = s + k - added BY <1>3
<1> QED BY <1>4, <1>5 DEF WindowIs, m

(* An answer that passes the checks is what the service had. *)
LEMMA AcceptedTrue ==
    ASSUME PagesTyped, WithinBudget(Len(got)), Continues, NEW r \in {Answered} \cup Broken
    PROVE  /\ r \in PageReplies /\ r # NoReply
           /\ \/ TakenAt(r, added)
              \/ ask.kind = "sessions" /\ (Len(r.rows) > page_size \/ r.page # at \/ (r.more /\ r.rows = <<>>))
              \/ ask.kind = "events" /\ (Len(r.rows) > page_size \/ (r.more /\ (r.next <= at \/ r.rows = <<>>)))
<1>1. /\ ask.kind \in {"sessions", "events"} /\ Skip \in Nat /\ page_size \in Nat \ {0}
      /\ rows \in Nat /\ added \in Nat /\ at \in Nat
  BY WindowNumbers DEF PagesTyped
<1> DEFINE w == Window(Skip, page_size)  v == Window(Skip, page_size + 1)
<1>2. w \in Seq(Int) /\ Len(w) = RowsShown(added) /\ \A k \in 1..Len(w) : w[k] = Skip + k - added
  <2>1. Skip \in Int /\ page_size \in Nat BY <1>1
  <2>2. WindowIs(w, Skip, page_size) BY <1>1, <2>1, WindowRows
  <2> QED BY <2>2 DEF WindowIs, RowsShown
<1>3. v \in Seq(Int) /\ Len(v) = RowsIn(Skip, page_size + 1, added)
      /\ \A k \in 1..Len(v) : v[k] = Skip + k - added
  <2>1. Skip \in Int /\ page_size + 1 \in Nat BY <1>1
  <2>2. WindowIs(v, Skip, page_size + 1) BY <1>1, <2>1, WindowRows
  <2> QED BY <2>2 DEF WindowIs
<1>4. HasMore \in BOOLEAN /\ HasMore = (rows + added > Skip + page_size) BY <1>1 DEF HasMore
<1>5. Skip + page_size \in Nat BY <1>1
<1> DEFINE a == Answered
<1>6. a = [rows |-> w, more |-> HasMore, next |-> Skip + page_size, page |-> at, size |-> page_size, st |-> "ok"]
  BY DEF Answered
<1>7. RowsShown(added) <= page_size BY <1>1, LeastOf DEF RowsShown, RowsIn
<1>8. Len(v) <= page_size => Len(v) = RowsShown(added)
  <2> HIDE DEF Skip, page_size
  <2> QED BY <1>1, <1>3 DEF RowsShown, RowsIn, Least
<1>9. page_size \in Nat /\ at + 1 \in Nat /\ at + 1 # at BY <1>1
<1>10. Skip = at \/ ask.kind = "sessions" BY <1>1 DEF Skip
<1>11. <<>> \in Seq(Int) /\ Len(<<>>) = 0 OBVIOUS
<1> HIDE DEF w, v, a, Skip, page_size, HasMore, RowsShown
<1>20. CASE r = a BY <1>1, <1>2, <1>4, <1>5, <1>6, <1>9, <1>20 DEF PageReplies, NoReply, TakenAt
<1>21. CASE r = [a EXCEPT !.rows = v]
  <2>1. r.rows = v /\ r.more = HasMore /\ r.next = Skip + page_size /\ r.st = "ok" BY <1>6, <1>21
  <2>2. r = [rows |-> v, more |-> HasMore, next |-> Skip + page_size, page |-> at, size |-> page_size, st |-> "ok"]
    BY <1>6, <1>21
  <2>3. r \in PageReplies BY <1>1, <1>3, <1>4, <1>5, <2>2, <1>9 DEF PageReplies
  <2>4. r # NoReply BY <2>1 DEF NoReply
  <2>5. CASE Len(v) <= page_size BY <2>1, <2>3, <2>4, <2>5, <1>3, <1>4, <1>8 DEF TakenAt
  <2>6. CASE ~(Len(v) <= page_size) BY <1>1, <1>3, <1>9, <2>1, <2>3, <2>4, <2>6
  <2> QED BY <2>5, <2>6
<1>22. CASE r = [a EXCEPT !.page = @ + 1]
  BY <1>1, <1>2, <1>4, <1>5, <1>6, <1>9, <1>22 DEF PageReplies, NoReply, TakenAt
<1>23. CASE r = [a EXCEPT !.rows = <<>>, !.more = TRUE]
  BY <1>1, <1>5, <1>6, <1>9, <1>11, <1>23 DEF PageReplies, NoReply
<1>24. CASE r = [a EXCEPT !.more = ask.kind = "events" \/ @, !.next = at]
  <2> DEFINE more == ask.kind = "events" \/ HasMore
  <2>1. r.rows = w /\ r.next = at /\ r.st = "ok" BY <1>6, <1>24
  <2>8. r.more = more BY <1>6, <1>24, Zenon
  <2>2. r = [rows |-> w, more |-> more, next |-> at, page |-> at, size |-> page_size, st |-> "ok"] BY <1>6, <1>24
  <2>5. more \in BOOLEAN BY <1>4
  <2>3. r \in PageReplies
    <3> HIDE DEF more
    <3> QED BY <1>1, <1>2, <2>5, <2>2, <1>9 DEF PageReplies
  <2>4. r # NoReply BY <2>1 DEF NoReply
  <2>6. CASE ask.kind = "events"
    <3>1. r.more /\ r.next <= at
      <4>1. r.more BY <2>8, <2>6, Zenon
      <4> QED BY <4>1, <2>1, <1>1
    <3> QED BY <3>1, <2>3, <2>4, <2>6
  <2>7. CASE ask.kind = "sessions" BY <1>2, <1>4, <2>1, <2>3, <2>4, <2>7, <2>8 DEF TakenAt
  <2> QED BY <2>6, <2>7, <1>1
<1>25. r = a \/ r \in Broken BY DEF a
<1>26. r \in Broken => r = [a EXCEPT !.rows = v] \/ r = [a EXCEPT !.page = @ + 1] \/ r = [a EXCEPT !.rows = <<>>, !.more = TRUE]
                       \/ r = [a EXCEPT !.more = ask.kind = "events" \/ @, !.next = at]
  BY DEF Broken, a, v
<1> QED BY <1>20, <1>21, <1>22, <1>23, <1>24, <1>25, <1>26

(* What a page adds to the rows gathered. *)
LEMMA PageJoins ==
    ASSUME NEW g \in Seq(Int), NEW p \in Seq(Int), NEW s \in Int, NEW a \in Int,
           \A k \in 1..Len(p) : p[k] = s + k - a,
           \A k \in 1..(Len(g) - 1) : g[k + 1] <= g[k] + 1,
           g # <<>> => g[Len(g)] >= s - a
    PROVE  /\ g \o p \in Seq(Int) /\ Len(g \o p) = Len(g) + Len(p)
           /\ \A k \in 1..(Len(g \o p) - 1) : (g \o p)[k + 1] <= (g \o p)[k] + 1
           /\ Len(p) > 0 => (g \o p)[Len(g \o p)] = s + Len(p) - a
           /\ \A f \in Int : s = f + Len(g) /\ a = 0 /\ (\A k \in 1..Len(g) : g[k] = f + k)
                 => \A k \in 1..Len(g \o p) : (g \o p)[k] = f + k
<1> DEFINE j == g \o p  n == Len(g)  m == Len(p)
<1>1. j \in Seq(Int) /\ Len(j) = n + m /\ n \in Nat /\ m \in Nat OBVIOUS
<1>2. \A k \in 1..n : j[k] = g[k] OBVIOUS
<1>3. \A k \in (n + 1)..(n + m) : j[k] = p[k - n] OBVIOUS
<1>4. \A k \in (n + 1)..(n + m) : j[k] = s + (k - n) - a BY <1>1, <1>3
<1>5. n > 0 => g[n] >= s - a OBVIOUS
<1>6. \A k \in 1..n : g[k] \in Int OBVIOUS
<1> HIDE DEF j, n, m
<1>7. \A k \in 1..(Len(j) - 1) : j[k + 1] <= j[k] + 1
  <2> TAKE k \in 1..(Len(j) - 1)
  <2>4. k \in 1..(n + m - 1) BY <1>1
  <2>1. CASE k < n
    <3>1. k \in 1..n /\ k + 1 \in 1..n /\ k \in 1..(n - 1) BY <1>1, <2>1, <2>4
    <3>2. g[k + 1] <= g[k] + 1 BY <3>1 DEF n
    <3> QED BY <3>1, <3>2, <1>2
  <2>2. CASE k = n BY <1>1, <1>2, <1>4, <1>5, <1>6, <2>2, <2>4
  <2>3. CASE k > n BY <1>1, <1>4, <2>3, <2>4
  <2> QED BY <2>1, <2>2, <2>3, <2>4, <1>1
<1>8. m > 0 => j[n + m] = s + m - a BY <1>1, <1>4
<1>9. ASSUME NEW f \in Int, s = f + n, a = 0, \A k \in 1..n : g[k] = f + k PROVE \A k \in 1..(n + m) : j[k] = f + k
  <2> TAKE k \in 1..(n + m)
  <2>1. CASE k \in 1..n BY <2>1, <1>2, <1>9
  <2>2. CASE k \in (n + 1)..(n + m) BY <2>2, <1>4, <1>9, <1>1
  <2> QED BY <2>1, <2>2, <1>1
<1>10. Len(j) = n + m /\ g \o p = j BY <1>1 DEF j
<1>11. \A f \in Int : s = f + n /\ a = 0 /\ (\A k \in 1..n : g[k] = f + k) => \A k \in 1..(n + m) : j[k] = f + k
  BY <1>9, Zenon
<1>12. g \o p \in Seq(Int) /\ Len(g \o p) = Len(g) + Len(p) BY <1>1, <1>10 DEF n, m
<1>13. \A k \in 1..(Len(g \o p) - 1) : (g \o p)[k + 1] <= (g \o p)[k] + 1
  BY <1>7, <1>10, Zenon
<1>14. Len(p) > 0 => (g \o p)[Len(g \o p)] = s + Len(p) - a BY <1>8, <1>10 DEF m
<1>15. \A f \in Int : s = f + Len(g) /\ a = 0 /\ (\A k \in 1..Len(g) : g[k] = f + k)
                 => \A k \in 1..Len(g \o p) : (g \o p)[k] = f + k
  BY <1>10, <1>11, Zenon DEF n
<1> QED BY <1>12, <1>13, <1>14, <1>15

(* Consecutive pages are consecutive windows. *)
LEMMA NextWindow == \A a, p \in Int : ((a + 1) - 1) * p = (a - 1) * p + p
  OBVIOUS

(* The tool sends its request and has an answer, right or wrong, or none *)
(* (client.rs).                                                          *)
LEMMA SendKept == ASSUME PagesInv, Send PROVE PagesInv'
<1>1. PagesTyped /\ answer.st = "running" /\ reply = NoReply /\ UNCHANGED <<ask, rows, added, got, pages, at>>
  BY DEF Send, PagesInv
<1>2. WithinBudget(Len(got)) /\ Continues /\ SeenAt(added) BY <1>1 DEF PagesInv
<1>3. UNCHANGED <<page_size, Skip, First>> BY <1>1 DEF page_size, Skip, First, SkipOf
<1>4. WithinBudget(Len(got))' /\ Continues' /\ SeenAt(added)' /\ (Len(got) <= ask.items)' /\ (pages <= ask.pages)' /\ NoRowHidden' /\ InStep'
  BY <1>1, <1>2, <1>3 DEF PagesInv, WithinBudget, Continues, SeenAt, NoRowHidden, InStep
<1>5. CASE UNCHANGED answer /\ attempt' = 0 /\ \E r \in {Answered} \cup Broken : reply' = r
  <2>1. PICK r \in {Answered} \cup Broken : reply' = r BY <1>5
  <2>2. /\ r \in PageReplies
        /\ \/ TakenAt(r, added)
           \/ ask.kind = "sessions" /\ (Len(r.rows) > page_size \/ r.page # at \/ (r.more /\ r.rows = <<>>))
           \/ ask.kind = "events" /\ (Len(r.rows) > page_size \/ (r.more /\ (r.next <= at \/ r.rows = <<>>)))
    BY <1>1, <1>2, AcceptedTrue
  <2>3. TakenAt(r, added) \/ Unacceptable' BY <2>1, <2>2, <1>1, <1>3 DEF Unacceptable, SessionsRefused, EventsRefused
  <2>4. added \in 0..added BY <1>1 DEF PagesTyped
  <2>5. TakenAt(r, added) => (TakenAt(reply, added) /\ SeenAt(added))'
    BY <2>1, <1>1, <1>2, <1>3 DEF TakenAt, RowsShown, RowsIn, SeenAt
  <2>6. AnsweredTruly' BY <2>3, <2>4, <2>5, <1>1 DEF AnsweredTruly
  <2>7. PagesTyped' BY <1>1, <1>5, <2>1, <2>2 DEF PagesTyped
  <2> QED BY <1>1, <1>4, <1>5, <2>6, <2>7 DEF PagesInv, PrintedRight
<1>6. CASE attempt < 1 /\ attempt' = attempt + 1 /\ UNCHANGED <<reply, answer>>
  BY <1>1, <1>4, <1>6 DEF PagesTyped, AnsweredTruly, NoReply, PagesInv, PrintedRight
<1>7. CASE answer' = [answer EXCEPT !.st = "failed"] /\ UNCHANGED <<reply, attempt>>
  BY <1>1, <1>4, <1>7 DEF PagesTyped, PageAnswers, PagesInv, PrintedRight
<1> QED BY <1>5, <1>6, <1>7 DEF Send

(* It refuses an answer that does not fit its request (run.rs). *)
LEMMA RefuseKept == ASSUME PagesInv, Refuse PROVE PagesInv'
<1>1. PagesTyped /\ UNCHANGED <<ask, rows, added, got, pages, at>> /\ answer' = [answer EXCEPT !.st = "failed"]
  BY DEF Refuse, PagesInv
<1>2. UNCHANGED <<page_size, Skip, First>> BY <1>1 DEF page_size, Skip, First, SkipOf
<1>3. PagesTyped' /\ answer'.st = "failed" BY <1>1 DEF PagesTyped, PageAnswers, Refuse
<1> QED BY <1>1, <1>2, <1>3 DEF PagesInv, NoRowHidden, InStep, PrintedRight

(* A row is added at the service meanwhile. *)
LEMMA RowArrivesKept == ASSUME PagesInv, RowArrives PROVE PagesInv'
<1>1. PagesTyped /\ answer.st = "running" /\ added' = added + 1 /\ UNCHANGED <<ask, rows, reply, attempt, got, pages, at, answer>>
  BY DEF RowArrives, PagesInv
<1>2. UNCHANGED <<page_size, Skip, First>> BY <1>1 DEF page_size, Skip, First, SkipOf
<1>3. PagesTyped' /\ added' \in Nat /\ added' # 0 BY <1>1 DEF PagesTyped
<1>4. WithinBudget(Len(got))' /\ Continues' BY <1>1, <1>2 DEF PagesInv, WithinBudget, Continues
<1>5. got # <<>> => got[Len(got)] \in Int BY <1>1 DEF PagesTyped
<1>6. Skip \in Int BY <1>1, WindowNumbers
<1>7. SeenAt(added)' BY <1>1, <1>2, <1>3, <1>5, <1>6 DEF PagesInv, SeenAt, PagesTyped
<1>8. AnsweredTruly'
  <2> SUFFICES ASSUME (reply # NoReply)', (~Unacceptable)' PROVE (\E a \in 0..added : SeenAt(a) /\ TakenAt(reply, a))'
    BY DEF AnsweredTruly
  <2>1. ~Unacceptable BY <1>1, <1>2 DEF Unacceptable, SessionsRefused, EventsRefused
  <2>2. PICK a \in 0..added : SeenAt(a) /\ TakenAt(reply, a) BY <2>1, <1>1 DEF PagesInv, AnsweredTruly
  <2>3. a \in 0..added' BY <1>1 DEF PagesTyped
  <2>4. got' = got /\ reply' = reply /\ rows' = rows /\ ask' = ask BY <1>1
  <2>5. (got' # <<>> => got'[Len(got')] >= Skip' - a) BY <2>2, <2>4, <1>2 DEF SeenAt
  <2> QED BY <2>2, <2>3, <2>4, <2>5, <1>2 DEF TakenAt, RowsShown, RowsIn, SeenAt
<1> QED BY <1>1, <1>2, <1>3, <1>4, <1>7, <1>8 DEF PagesInv, NoRowHidden, InStep, PrintedRight

(* It takes the page, and stops or goes on behind it (run.rs). *)
LEMMA FetchKept == ASSUME PagesInv, fetch PROVE PagesInv'
<1> DEFINE all == got \o reply.rows
           stop == bounded(Len(all))
           more == reply.more
<1>1. PagesTyped /\ answer.st = "running" /\ reply # NoReply /\ ~Unacceptable /\ UNCHANGED <<ask, rows, added, attempt>>
      /\ got' = all /\ pages' = pages + 1 /\ reply' = NoReply
  BY DEF fetch, PagesInv
<1>2. WithinBudget(Len(got)) /\ Continues BY <1>1 DEF PagesInv
<1>3. PICK a \in 0..added : SeenAt(a) /\ TakenAt(reply, a) BY <1>1 DEF PagesInv, AnsweredTruly
<1>4. /\ ask.kind \in {"sessions", "events"} /\ ask.size \in Nat \ {0} /\ ask.items \in Nat \ {0} /\ ask.pages \in Nat \ {0}
      /\ ask.first \in Nat /\ ask.all \in BOOLEAN /\ Len(got) \in Nat
      /\ Skip \in Nat /\ page_size \in Nat \ {0} /\ First \in Int /\ added \in Nat /\ rows \in Nat /\ pages \in Nat /\ at \in Nat
  BY <1>1, <1>2, WindowNumbers DEF PagesTyped
<1>5. reply.rows \in Seq(Int) /\ reply.more \in BOOLEAN /\ reply.next \in Nat /\ got \in Seq(Int) /\ answer \in PageAnswers
  BY <1>1 DEF PagesTyped, PageReplies
<1>6. a \in Int /\ a \in Nat /\ a <= added BY <1>4
<1>7. /\ all \in Seq(Int) /\ Len(all) = Len(got) + Len(reply.rows)
      /\ \A k \in 1..(Len(all) - 1) : all[k + 1] <= all[k] + 1
      /\ Len(reply.rows) > 0 => all[Len(all)] = Skip + Len(reply.rows) - a
      /\ \A f \in Int : Skip = f + Len(got) /\ a = 0 /\ (\A k \in 1..Len(got) : got[k] = f + k)
                 => \A k \in 1..Len(all) : all[k] = f + k
  <2>1. \A k \in 1..Len(reply.rows) : reply.rows[k] = Skip + k - a BY <1>3 DEF TakenAt
  <2>2. \A k \in 1..(Len(got) - 1) : got[k + 1] <= got[k] + 1 BY DEF PagesInv, NoRowHidden
  <2>3. got # <<>> => got[Len(got)] >= Skip - a BY <1>3 DEF SeenAt
  <2>4. Skip \in Int BY <1>4
  <2> QED BY <2>1, <2>2, <2>3, <2>4, <1>5, <1>6, PageJoins
<1> DEFINE n == Len(reply.rows)
<1>8. n \in Nat /\ n <= page_size /\ (rows + a > Skip + page_size => n = page_size)
      /\ (~(rows + a > Skip + page_size) => IF rows + a > Skip THEN n = rows + a - Skip ELSE n = 0)
  BY <1>3, <1>4, <1>5, <1>6 DEF TakenAt, RowsShown, RowsIn, Least
<1>9. more = (rows + a > Skip + page_size) /\ (more /\ ask.kind = "events" => reply.next = Skip + page_size)
  BY <1>3 DEF TakenAt
<1>10. Skip = First + Len(got) /\ (ask.kind = "sessions" => at > 0) /\ Len(got) + page_size <= ask.items /\ pages < ask.pages
  BY <1>2 DEF Continues, WithinBudget
<1>11. First' = First BY <1>1 DEF First, SkipOf
<1>12. (NoRowHidden /\ Len(got) <= ask.items /\ pages <= ask.pages)'
  <2>1. NoRowHidden' BY <1>1, <1>7 DEF NoRowHidden
  <2>2. Len(all) <= ask.items BY <1>4, <1>7, <1>8, <1>10
  <2>3. pages + 1 <= ask.pages BY <1>4, <1>10
  <2> QED BY <2>1, <2>2, <2>3, <1>1
<1>13. InStep'
  <2> SUFFICES ASSUME added = 0 PROVE \A k \in 1..Len(all) : all[k] = First + k BY <1>1, <1>11 DEF InStep
  <2>1. a = 0 BY <1>6
  <2>2. \A k \in 1..Len(got) : got[k] = First + k BY DEF PagesInv, InStep
  <2> QED BY <1>4, <1>7, <1>10, <2>1, <2>2
<1>14. ask.kind = "sessions" => page_size = Least(ask.size, ask.items) /\ page_size' = page_size
  BY <1>1 DEF page_size
<1>15. more => Continuation \in Nat /\ Continuation # 0 /\ SkipOf(Continuation) = Skip + page_size
  BY <1>4, <1>9, <1>14, NextWindow DEF Continuation, Skip, SkipOf
<1>16. CASE ~more \/ ~ask.all \/ stop
  <2> DEFINE next == IF more THEN Continuation ELSE 0
             cut == more /\ ask.all /\ stop
  <2>1. answer' = [st |-> "printed", next |-> next, truncated |-> cut] /\ at' = at BY <1>16 DEF fetch
  <2>2. next \in Nat BY <1>15
  <2>3. cut \in BOOLEAN BY <1>4, <1>5
  <2>4. cut = (ask.all /\ more) BY <1>4, <1>5, <1>16
  <2>5. (next # 0) = more BY <1>5, <1>15
  <2>6. answer' \in PageAnswers
    <3> HIDE DEF next, cut
    <3> QED BY <2>1, <2>2, <2>3 DEF PageAnswers
  <2>7. PagesTyped' BY <1>1, <1>5, <1>7, <1>4, <2>1, <2>6 DEF PagesTyped, NoReply, PageReplies
  <2>8. ASSUME added = 0 PROVE (next # 0) = (First + Len(all) < rows) /\ (next # 0 => SkipOf(next) = First + Len(all))
    <3>1. a = 0 BY <1>6, <2>8
    <3>2. more = (First + Len(all) < rows) BY <3>1, <1>4, <1>7, <1>8, <1>9, <1>10
    <3>3. more => next = Continuation OBVIOUS
    <3>4. more => Skip + page_size = First + Len(all)
      <4>1. more => n = page_size BY <1>8, <1>9
      <4>2. Len(all) = Len(got) + n BY <1>7
      <4> HIDE DEF all, n, more
      <4> QED BY <4>1, <4>2, <1>4, <1>10
    <3>5. more => SkipOf(next) = First + Len(all) BY <1>15, <3>3, <3>4, Zenon
    <3> QED BY <3>2, <3>5, <2>5
  <2>9. PrintedRight' BY <1>1, <1>11, <2>1, <2>4, <2>5, <2>8 DEF PrintedRight, SkipOf
  <2>10. answer'.st = "printed" BY <2>1
  <2> QED BY <2>7, <2>9, <2>10, <1>12, <1>13 DEF PagesInv
<1>17. CASE ~(~more \/ ~ask.all \/ stop)
  <2>1. more /\ ~stop /\ at' = Continuation /\ answer' = answer BY <1>17, <1>5 DEF fetch
  <2>2. at' \in Nat /\ at' # 0 BY <2>1, <1>15
  <2>3. n = page_size /\ Len(all) = Len(got) + page_size BY <2>1, <1>7, <1>8, <1>9
  <2>4. PagesTyped' BY <1>1, <1>5, <1>7, <1>4, <2>1, <2>2 DEF PagesTyped, NoReply, PageReplies
  <2>5. pages + 1 < ask.pages /\ (ask.kind = "sessions" => ask.items - Len(all) >= page_size)
        /\ (ask.kind = "events" => Len(all) < ask.items)
    BY <2>1, <2>3, <1>4 DEF bounded, SessionsBounded, EventsBounded
  <2>6. ask.kind = "events" => page_size' \in Nat \ {0} /\ page_size' <= ask.items - Len(all)
    BY <1>1, <1>4, <2>3, <2>5 DEF page_size, Least
  <2>7. WithinBudget(Len(got))' BY <1>1, <1>4, <1>14, <2>3, <2>5, <2>6 DEF WithinBudget
  <2>8. Skip' = Skip + page_size BY <1>1, <1>4, <1>14, <1>15, <2>1 DEF Skip, SkipOf
  <2>9. Continues' BY <1>1, <1>4, <1>10, <1>11, <2>2, <2>3, <2>8 DEF Continues
  <2>10. SeenAt(added)' BY <1>1, <1>4, <1>6, <1>7, <2>3, <2>8 DEF SeenAt
  <2>11. AnsweredTruly' BY <1>1 DEF AnsweredTruly
  <2> QED BY <2>1, <2>4, <2>7, <2>9, <2>10, <2>11, <1>1, <1>12, <1>13 DEF PagesInv, PrintedRight
<1> QED BY <1>16, <1>17

(* Every step of a listing keeps the invariant. *)
LEMMA PagesInductive == ASSUME PagesInv, [PagesNext]_pageVars PROVE PagesInv'
<1>1. CASE UNCHANGED pageVars
  BY <1>1 DEF pageVars, PagesInv, PagesTyped, WithinBudget, Continues, SeenAt, AnsweredTruly, NoRowHidden, InStep,
     PrintedRight,
     page_size, Skip, First, SkipOf, TakenAt, RowsShown, RowsIn, Unacceptable, SessionsRefused, EventsRefused
<1> QED BY <1>1, SendKept, RefuseKept, FetchKept, RowArrivesKept DEF PagesNext

-----------------------------------------------------------------------------
(* The support bundle. *)

(* The paths a bundle may hold. *)
PathSet == Range(Paths)
LogPaths == Range(CliPath) \cup Range(BrokerPath)

(* What a pattern announces is not there. *)
Clean(t) == \A i \in 1..Len(t) : i < Len(t) /\ t[i] = "mark" => t[i + 1] # "secret"

(* A file of the workspace. *)
FileOK(p, t) == t \in Seq(Unit) /\ Clean(t) /\ (p \in LogPaths => Len(t) <= MaxUnits)
Workspaces == UNION {[D -> Seq(Unit)] : D \in SUBSET PathSet}
WorkOK(w) == w \in Workspaces /\ \A p \in DOMAIN w : FileOK(p, w[p])

(* An archive that reads and holds no announced credential. *)
EntryOK(zip, e) ==
    /\ e.offset \in Nat /\ e.size \in Nat /\ e.offset + 1 + e.size <= Len(zip.bytes)
    /\ zip.bytes[e.offset + 1] = LocalRecord(e.path)
    /\ \A i \in 1..e.size : zip.bytes[e.offset + 1 + i][1] = "content"
    /\ e.offset + 1 + e.size < Len(zip.bytes) => zip.bytes[e.offset + 2 + e.size][1] = "local"
    /\ e.path \in LogPaths => e.size <= MaxUnits
Units == {"local", "content"} \X (PathSet \cup Unit)
Entries == [path : PathSet, offset : Nat, size : Nat]
Silent(bytes) ==
    \A i \in 1..Len(bytes) : bytes[i] = <<"content", "mark">> /\ i < Len(bytes) => bytes[i + 1] # <<"content", "secret">>
GoodZip(zip) ==
    /\ zip \in [bytes : Seq(Units), central : Seq(Entries)]
    /\ \A i \in 1..Len(zip.central) : EntryOK(zip, zip.central[i])
    /\ Silent(zip.bytes)

LEMMA PathsAre ==
    /\ Len(Paths) = 9 /\ PathSet = {Paths[i] : i \in 1..9}
    /\ "manifest.json" \in PathSet /\ {"system-info.txt", "collection-errors.json", "diagnostics/state.json",
         "config/runtime-config.redacted.json", "cli/cli.log", "cli/cli.1.log", "broker/abyss-broker.log",
         "broker/abyss-broker-trace.log"} \subseteq PathSet
    /\ LogPaths = {"cli/cli.log", "cli/cli.1.log", "broker/abyss-broker.log", "broker/abyss-broker-trace.log"}
<1>1. Len(Paths) = 9 BY DEF Paths
<1>2. DOMAIN Paths = 1..9 BY <1>1
<1>3. PathSet = {Paths[i] : i \in 1..9} BY <1>2 DEF PathSet, Range
<1>4. /\ Paths[1] = "broker/abyss-broker-trace.log" /\ Paths[2] = "broker/abyss-broker.log" /\ Paths[3] = "cli/cli.1.log"
      /\ Paths[4] = "cli/cli.log" /\ Paths[5] = "collection-errors.json"
      /\ Paths[6] = "config/runtime-config.redacted.json" /\ Paths[7] = "diagnostics/state.json"
      /\ Paths[8] = "manifest.json" /\ Paths[9] = "system-info.txt"
  BY DEF Paths
<1>5. \A i \in 1..9 : Paths[i] \in PathSet BY <1>3
<1>6. {1, 2, 3, 4, 5, 6, 7, 8, 9} \subseteq 1..9 OBVIOUS
<1>7. LogPaths = {"cli/cli.log", "cli/cli.1.log", "broker/abyss-broker.log", "broker/abyss-broker-trace.log"}
  BY DEF CliPath, Range, BrokerPath, LogPaths
<1>9. "manifest.json" \in PathSet /\ {"system-info.txt", "collection-errors.json", "diagnostics/state.json",
         "config/runtime-config.redacted.json", "cli/cli.log", "cli/cli.1.log", "broker/abyss-broker.log",
         "broker/abyss-broker-trace.log"} \subseteq PathSet
  BY <1>4, <1>5, <1>6
<1> QED BY <1>1, <1>3, <1>7, <1>9

(* Two sequences joined. *)
JoinOK(a, b) ==
    /\ Len(a \o b) = Len(a) + Len(b)
    /\ \A i \in 1..Len(a) : (a \o b)[i] = a[i]
    /\ \A i \in 1..Len(b) : (a \o b)[Len(a) + i] = b[i]
LEMMA Joined == ASSUME NEW S, NEW a \in Seq(S), NEW b \in Seq(S) PROVE JoinOK(a, b)
<1>1. a \o b \in Seq(S) /\ Len(a \o b) = Len(a) + Len(b) /\ Len(a) \in Nat /\ Len(b) \in Nat OBVIOUS
<1>2. \A i \in 1..(Len(a) + Len(b)) : (a \o b)[i] = IF i <= Len(a) THEN a[i] ELSE b[i - Len(a)] OBVIOUS
<1>3. ASSUME NEW i \in 1..Len(a) PROVE (a \o b)[i] = a[i] BY <1>1, <1>2
<1>4. ASSUME NEW i \in 1..Len(b) PROVE (a \o b)[Len(a) + i] = b[i] BY <1>1, <1>2
<1> QED BY <1>1, <1>3, <1>4 DEF JoinOK

(* Redacted text announces nothing. *)
LEMMA RedactsText == ASSUME NEW t \in Seq(Unit)
  PROVE redact_text(t) \in Seq(Unit) /\ Len(redact_text(t)) = Len(t) /\ Clean(redact_text(t))
<1> DEFINE r == redact_text(t)
<1>1. r = [i \in 1..Len(t) |-> IF i > 1 /\ t[i] = "secret" /\ t[i - 1] = "mark" THEN "redacted" ELSE t[i]]
  BY DEF redact_text
<1>2. r \in Seq(Unit) /\ Len(r) = Len(t) BY <1>1 DEF Unit
<1>3. Clean(r) BY <1>1, <1>2 DEF Clean
<1> QED BY <1>2, <1>3

(* The last units are bounded. *)
LEMMA TailBounded == ASSUME NEW t \in Seq(Unit), MaxUnits \in Nat
  PROVE LastUnits(t) \in Seq(Unit) /\ Len(LastUnits(t)) <= MaxUnits
BY DEF LastUnits

(* A bounded, redacted log is a file. *)
LEMMA LogFile == ASSUME NEW t \in Seq(Unit), NEW p, MaxUnits \in Nat
  PROVE FileOK(p, redact_text(LastUnits(t)))
BY TailBounded, RedactsText DEF FileOK

(* Documents announce nothing either. *)
LEMMA DocumentFile == ASSUME NEW p, p \notin LogPaths, NEW doc \in {Empty, Told, Message}
  PROVE FileOK(p, Flattened(redact_json(doc)))
<1>1. CASE doc = Empty
  <2>1. Flattened(redact_json(doc)) = <<>> BY <1>1 DEF Flattened, redact_json, ValueOf, Empty
  <2> QED BY <2>1 DEF FileOK, Clean
<1> DEFINE s == <<"mark", "secret">>
<1>2. s \in Seq(Unit) /\ Len(s) = 2 BY DEF Unit
<1>3. redact_text(s) = <<"mark", "redacted">> BY DEF redact_text
<1>4. CASE doc = Message
  <2>1. redact_json(doc) = [key \in {"plain"} |-> redact_text(s)] BY <1>4 DEF redact_json, Message, is_sensitive_key
  <2>2. Flattened(redact_json(doc)) = <<"mark", "redacted">> \o <<>> BY <2>1, <1>3 DEF Flattened, ValueOf
  <2>3. Flattened(redact_json(doc)) = <<"mark", "redacted">> BY <2>2
  <2> QED BY <2>3 DEF FileOK, Clean, Unit
<1>5. CASE doc = Told
  <2>1. redact_json(doc) = [key \in {"plain", "token"} |-> IF key = "token" THEN <<"redacted">> ELSE redact_text(s)]
    BY <1>5 DEF Told, is_sensitive_key, redact_json
  <2> DEFINE d == redact_json(doc)
  <2> HIDE DEF d, s
  <2>2. Flattened(d) = <<"mark", "redacted">> \o <<"redacted">> BY <1>3, <2>1 DEF d, Flattened, ValueOf
  <2> DEFINE q == Flattened(d)
  <2>3. q \in Seq(Unit) /\ Len(q) = 3 /\ q[2] = "redacted" /\ q[3] = "redacted" BY <2>2, Joined DEF Unit, JoinOK
  <2> HIDE DEF q
  <2>4. Clean(q) BY <2>3 DEF Clean
  <2> QED BY <2>3, <2>4 DEF FileOK, q, d
<1> QED BY <1>1, <1>4, <1>5

(* Adding a file to an archive that reads. *)
LEMMA EntryAdded ==
    ASSUME NEW zip, GoodZip(zip), NEW p \in DOMAIN work, p \in PathSet, FileOK(p, work[p])
    PROVE  GoodZip(AddEntry(zip, p)) /\ Members(AddEntry(zip, p)) = Members(zip) \cup {p}
<1> DEFINE t == work[p]  n == Len(zip.bytes)  z == AddEntry(zip, p)  m == Len(zip.central)
           c == [i \in DOMAIN t |-> <<"content", t[i]>>]
           e == [path |-> p, offset |-> n, size |-> Len(t)]
<1>1. t \in Seq(Unit) /\ Clean(t) /\ (p \in LogPaths => Len(t) <= MaxUnits) BY DEF FileOK
<1>2. zip.bytes \in Seq(Units) /\ zip.central \in Seq(Entries) /\ n \in Nat /\ m \in Nat BY DEF GoodZip
<1>3. c \in Seq(Units) /\ Len(c) = Len(t) /\ \A i \in 1..Len(t) : c[i] = <<"content", t[i]>> BY <1>1 DEF Units
<1>4. LocalRecord(p) \in Units BY DEF LocalRecord, Units
<1>5. z.bytes = Append(zip.bytes, LocalRecord(p)) \o c /\ z.central = Append(zip.central, e) BY DEF AddEntry
<1>6. e \in Entries BY <1>1, <1>2 DEF Entries
<1>7. z \in [bytes : Seq(Units), central : Seq(Entries)]
  BY <1>2, <1>3, <1>4, <1>5, <1>6 DEF AddEntry
<1> DEFINE a == Append(zip.bytes, LocalRecord(p))
<1>8. a \in Seq(Units) /\ Len(a) = n + 1 /\ a[n + 1] = LocalRecord(p) /\ \A i \in 1..n : a[i] = zip.bytes[i]
  BY <1>2, <1>4
<1> HIDE DEF a, c
<1>9. /\ Len(z.bytes) = n + 1 + Len(t) /\ \A i \in 1..n : z.bytes[i] = zip.bytes[i]
      /\ z.bytes[n + 1] = LocalRecord(p) /\ \A i \in 1..Len(t) : z.bytes[n + 1 + i] = <<"content", t[i]>>
  <2>1. z.bytes = a \o c BY <1>5 DEF a
  <2> HIDE DEF z, t, n
  <2>7. JoinOK(a, c) BY <1>3, <1>8, Joined
  <2>2. Len(a \o c) = Len(a) + Len(c) /\ (\A i \in 1..Len(a) : (a \o c)[i] = a[i])
        /\ (\A i \in 1..Len(c) : (a \o c)[Len(a) + i] = c[i])
    BY <2>7 DEF JoinOK
  <2>3. n + 1 \in 1..(n + 1) /\ \A i \in 1..n : i \in 1..(n + 1) BY <1>2 DEF n
  <2>4. \A i \in 1..n : z.bytes[i] = zip.bytes[i] BY <2>1, <2>2, <2>3, <1>8
  <2>5. z.bytes[n + 1] = LocalRecord(p) BY <2>1, <2>2, <2>3, <1>8
  <2>6. \A i \in 1..Len(t) : z.bytes[n + 1 + i] = c[i] BY <2>1, <2>2, <1>3, <1>8
  <2> QED BY <2>1, <2>2, <2>4, <2>5, <2>6, <1>3, <1>8
<1>10. Len(z.central) = m + 1 /\ z.central[m + 1] = e /\ \A i \in 1..m : z.central[i] = zip.central[i]
  BY <1>2, <1>5, <1>6
<1> HIDE DEF z
<1>11. LocalRecord(p)[1] = "local" /\ LocalRecord(p) # <<"content", "mark">> /\ LocalRecord(p) # <<"content", "secret">>
  BY DEF LocalRecord
<1>12. EntryOK(z, e) BY <1>1, <1>2, <1>9 DEF e, EntryOK
<1>13. ASSUME NEW i \in 1..m PROVE EntryOK(z, zip.central[i])
  <2> DEFINE x == zip.central[i]
  <2>1. EntryOK(zip, x) BY DEF GoodZip
  <2> HIDE DEF x, n, t
  <2>2. x.offset \in Nat /\ x.size \in Nat /\ x.offset + 1 + x.size <= n /\ Len(t) \in Nat BY <2>1, <1>1 DEF EntryOK, n
  <2>3. z.bytes[x.offset + 1] = LocalRecord(x.path)
    <3>1. x.offset + 1 \in 1..n BY <2>2, <1>2
    <3> QED BY <3>1, <1>9, <2>1 DEF EntryOK
  <2>4. ASSUME NEW j \in 1..x.size PROVE z.bytes[x.offset + 1 + j][1] = "content"
    <3>1. x.offset + 1 + j \in 1..n BY <2>2, <1>2
    <3> QED BY <3>1, <1>9, <2>1 DEF EntryOK
  <2>5. z.bytes[x.offset + 2 + x.size][1] = "local"
    <3>1. CASE x.offset + 1 + x.size < n
      <4>1. x.offset + 2 + x.size \in 1..n BY <3>1, <2>2, <1>2
      <4> QED BY <4>1, <3>1, <1>9, <2>1 DEF EntryOK, n
    <3>2. CASE x.offset + 1 + x.size = n
      <4>1. x.offset + 2 + x.size = n + 1 BY <3>2, <2>2, <1>2
      <4>2. z.bytes[n + 1] = LocalRecord(p) BY <1>9
      <4>3. z.bytes[x.offset + 2 + x.size] = LocalRecord(p) BY <4>1, <4>2
      <4> QED BY <4>3, <1>11, Zenon
    <3>3. n \in Nat BY <1>2
    <3>4. x.offset + 1 + x.size < n \/ x.offset + 1 + x.size = n BY <3>3, <2>2
    <3> QED BY <3>1, <3>2, <3>4, Zenon
  <2>6. x.path \in LogPaths => x.size <= MaxUnits BY <2>1 DEF EntryOK
  <2>7. x.offset + 1 + x.size <= Len(z.bytes) BY <1>9, <2>2, <1>2
  <2> QED BY <2>2, <2>3, <2>4, <2>5, <2>6, <2>7 DEF EntryOK, x
<1>14. \A i \in 1..Len(z.central) : EntryOK(z, z.central[i]) BY <1>2, <1>10, <1>12, <1>13
<1>15. Silent(z.bytes)
  <2> SUFFICES ASSUME NEW i \in 1..Len(z.bytes), z.bytes[i] = <<"content", "mark">>, i < Len(z.bytes)
               PROVE  z.bytes[i + 1] # <<"content", "secret">>
    BY DEF Silent
  <2> HIDE DEF n, t
  <2>1. i \in Nat /\ i # n + 1 BY <1>9, <1>11
  <2>2. CASE i = n BY <2>2, <1>9, <1>11
  <2>3. CASE i < n
    <3>1. i \in 1..n /\ i + 1 \in 1..n BY <2>1, <2>3, <1>2
    <3>2. zip.bytes[i] = <<"content", "mark">> BY <3>1, <1>9
    <3>3. zip.bytes[i + 1] # <<"content", "secret">> BY <3>1, <3>2, <2>3 DEF GoodZip, Silent, n
    <3> QED BY <3>1, <3>3, <1>9
  <2>4. CASE i > n + 1
    <3>1. PICK j : j = i - (n + 1) OBVIOUS
    <3>2. j \in 1..Len(t) /\ j + 1 \in 1..Len(t) /\ j < Len(t) /\ n + 1 + j = i /\ n + 1 + (j + 1) = i + 1
      BY <3>1, <2>4, <2>1, <1>1, <1>2, <1>9
    <3>3. z.bytes[i] = <<"content", t[j]>> /\ z.bytes[i + 1] = <<"content", t[j + 1]>> BY <1>9, <3>2
    <3>4. t[j] = "mark" BY <3>3
    <3>5. t[j + 1] # "secret" BY <3>2, <3>4, <1>1 DEF Clean
    <3> QED BY <3>3, <3>5
  <2> QED BY <2>1, <2>2, <2>3, <2>4, <1>2
<1>16. Members(z) = Members(zip) \cup {p}
  <2>1. DOMAIN z.central = 1..(m + 1) /\ DOMAIN zip.central = 1..m BY <1>10, <1>7, <1>2 DEF z
  <2>2. Members(z) = {z.central[i].path : i \in 1..(m + 1)} BY <2>1 DEF Members, Range
  <2>3. Members(zip) = {zip.central[i].path : i \in 1..m} BY <2>1 DEF Members, Range
  <2>4. z.central[m + 1].path = p BY <1>10 DEF e
  <2>5. 1..(m + 1) = 1..m \cup {m + 1} BY <1>2
  <2> HIDE DEF m, e
  <2>6. {z.central[i].path : i \in 1..m} = {zip.central[i].path : i \in 1..m} BY <1>10
  <2>7. Members(z) = {z.central[i].path : i \in 1..m} \cup {z.central[m + 1].path} BY <2>2, <2>5
  <2> QED BY <2>3, <2>4, <2>6, <2>7
<1>17. z \in [bytes : Seq(Units), central : Seq(Entries)] BY <1>7 DEF z
<1> QED BY <1>14, <1>15, <1>16, <1>17 DEF GoodZip, z

(* A set of natural numbers has a least one. *)
LEMMA LeastNatural ==
    ASSUME NEW S, S \subseteq Nat, S # {}
    PROVE  \E x \in S : \A y \in S : x <= y
<1>1. PICK x \in S : \A y \in S : ~ (<<y, x>> \in OpToRel(<, Nat))
  BY NatLessThanWellFounded, WFMin
<1>2. \A y \in S : ~ (y < x)
  BY <1>1 DEF OpToRel
<1> QED BY <1>2

(* The archives of the first paths, one after the other. *)
IsPacked(f, n) ==
    f = [m \in 0..n |-> IF m = 0 THEN NoArchive
                        ELSE IF Paths[m] \in DOMAIN work THEN AddEntry(f[m - 1], Paths[m]) ELSE f[m - 1]]

(* There is such a function. *)
LEMMA PackedExists == ASSUME NEW n \in Nat PROVE \E f : IsPacked(f, n)
<1> DEFINE B == {k \in Nat : ~ \E f : IsPacked(f, k)}
<1> SUFFICES ASSUME B # {} PROVE FALSE OBVIOUS
<1>1. PICK k \in B : \A y \in B : k <= y BY LeastNatural
<1>2. k \in Nat /\ ~ \E f : IsPacked(f, k) BY <1>1
<1>3. CASE k = 0
  <2> DEFINE f == [m \in 0..0 |-> NoArchive]
  <2>1. IsPacked(f, 0) BY DEF IsPacked
  <2> QED BY <2>1, <1>2, <1>3
<1>4. CASE k # 0
  <2>1. k - 1 \in Nat /\ k - 1 \notin B BY <1>1, <1>2, <1>4
  <2>2. PICK f : IsPacked(f, k - 1) BY <2>1
  <2> DEFINE g == [m \in 0..k |-> IF m < k THEN f[m]
                                  ELSE IF Paths[m] \in DOMAIN work THEN AddEntry(f[m - 1], Paths[m]) ELSE f[m - 1]]
             h(m) == IF m = 0 THEN NoArchive
                     ELSE IF Paths[m] \in DOMAIN work THEN AddEntry(g[m - 1], Paths[m]) ELSE g[m - 1]
  <2>3. \A m \in 0..(k - 1) : f[m] = IF m = 0 THEN NoArchive
            ELSE IF Paths[m] \in DOMAIN work THEN AddEntry(f[m - 1], Paths[m]) ELSE f[m - 1]
    BY <2>2 DEF IsPacked
  <2>4. \A m \in 0..k : m < k => g[m] = f[m] BY <1>2
  <2>6. ASSUME NEW m \in 0..k PROVE g[m] = h(m) BY <1>2, <1>4, <2>3, <2>4
  <2>7. g = [m \in 0..k |-> h(m)] BY <2>6
  <2>8. IsPacked(g, k) BY <2>7, Zenon DEF IsPacked
  <2> QED BY <2>8, <1>2
<1> QED BY <1>3, <1>4

(* Each path that is there is added to the archive of those before it. *)
LEMMA PackedIs ==
    /\ from_directory[0] = NoArchive
    /\ \A m \in 1..9 : from_directory[m] =
         IF Paths[m] \in DOMAIN work THEN AddEntry(from_directory[m - 1], Paths[m]) ELSE from_directory[m - 1]
<1>1. \E f : IsPacked(f, 9) BY PackedExists
<1>2. from_directory = CHOOSE f : IsPacked(f, Len(Paths)) BY Zenon DEF from_directory, IsPacked
<1>3. Len(Paths) = 9 BY PathsAre
<1>4. IsPacked(from_directory, 9) BY <1>1, <1>2, <1>3, Zenon
<1>5. PICK f : f = from_directory OBVIOUS
<1>6. \A m \in 0..9 : f[m] = IF m = 0 THEN NoArchive
            ELSE IF Paths[m] \in DOMAIN work THEN AddEntry(f[m - 1], Paths[m]) ELSE f[m - 1]
  BY <1>4, <1>5 DEF IsPacked
<1>7. \A m \in 1..9 : m \in 0..9 /\ m # 0 OBVIOUS
<1>8. 0 \in 0..9 OBVIOUS
<1>9. f[0] = NoArchive BY <1>6, <1>8
<1>10. \A m \in 1..9 : f[m] = IF Paths[m] \in DOMAIN work THEN AddEntry(f[m - 1], Paths[m]) ELSE f[m - 1]
  BY <1>6, <1>7
<1> QED BY <1>5, <1>9, <1>10, Zenon

(* The empty archive reads. *)
LEMMA EmptyReads == GoodZip(NoArchive) /\ Members(NoArchive) = {}
<1>1. NoArchive.bytes = <<>> /\ NoArchive.central = <<>> BY DEF NoArchive
<1>2. NoArchive \in [bytes : Seq(Units), central : Seq(Entries)] BY DEF NoArchive
<1>3. Members(NoArchive) = {} BY <1>1 DEF Members, Range
<1> QED BY <1>1, <1>2, <1>3 DEF GoodZip, Silent

(* The paths of the files packed so far. *)
PackedBy(n) == {Paths[i] : i \in 1..n} \cap DOMAIN work

(* The archive of a workspace holds its files and reads. *)
LEMMA ArchiveIs == ASSUME WorkOK(work) PROVE GoodZip(ZipArchive) /\ Members(ZipArchive) = DOMAIN work
<1>0. DOMAIN work \subseteq PathSet /\ \A p \in DOMAIN work : FileOK(p, work[p]) BY DEF WorkOK, Workspaces
<1>1. \A n \in 0..9 : GoodZip(from_directory[n]) /\ Members(from_directory[n]) = PackedBy(n)
  <2> DEFINE Holds(n) == GoodZip(from_directory[n]) /\ Members(from_directory[n]) = PackedBy(n)
             B == {n \in 0..9 : ~ Holds(n)}
  <2> SUFFICES ASSUME B # {} PROVE FALSE OBVIOUS
  <2>1. PICK k \in B : \A y \in B : k <= y BY LeastNatural
  <2>2. k \in 0..9 /\ ~ Holds(k) BY <2>1
  <2>3. CASE k = 0
    <3>1. PackedBy(0) = {} BY DEF PackedBy
    <3> QED BY <3>1, <2>2, <2>3, PackedIs, EmptyReads
  <2>4. CASE k # 0
    <3>1. k \in 1..9 /\ k - 1 \in 0..9 /\ k - 1 \notin B BY <2>1, <2>2, <2>4
    <3>2. GoodZip(from_directory[k - 1]) /\ Members(from_directory[k - 1]) = PackedBy(k - 1) BY <3>1
    <3>3. 1..k = 1..(k - 1) \cup {k} BY <3>1
    <3>4. {Paths[i] : i \in 1..k} = {Paths[i] : i \in 1..(k - 1)} \cup {Paths[k]} BY <3>3
    <3>5. CASE Paths[k] \in DOMAIN work
      <4>1. from_directory[k] = AddEntry(from_directory[k - 1], Paths[k]) BY <3>1, <3>5, PackedIs
      <4>2. FileOK(Paths[k], work[Paths[k]]) /\ Paths[k] \in PathSet BY <3>5, <1>0
      <4>3. GoodZip(from_directory[k]) /\ Members(from_directory[k]) = PackedBy(k - 1) \cup {Paths[k]}
        BY <4>1, <4>2, <3>2, <3>5, EntryAdded
      <4>4. PackedBy(k - 1) \cup {Paths[k]} = PackedBy(k) BY <3>4, <3>5 DEF PackedBy
      <4> QED BY <4>3, <4>4, <2>2
    <3>6. CASE Paths[k] \notin DOMAIN work BY <2>2, <3>1, <3>2, <3>4, <3>6, PackedIs DEF PackedBy
    <3> QED BY <3>5, <3>6
  <2> QED BY <2>3, <2>4
<1>2. ZipArchive = from_directory[9] BY PathsAre DEF ZipArchive
<1>3. PackedBy(9) = DOMAIN work BY <1>0, PathsAre DEF PackedBy
<1>4. 9 \in 0..9 OBVIOUS
<1> QED BY <1>1, <1>2, <1>3, <1>4

(* The command's places, and those it is at once a part of its work is over *)
(* and nothing has failed. *)
BehindErrors == {"manifest", "pack", "replace", "packed", "done"}
BehindConfig == {"system", "errors"} \cup BehindErrors
BehindDiagnostics == {"config"} \cup BehindConfig
BehindLogs == {"diagnostics"} \cup BehindDiagnostics
BehindCli == {"logs"} \cup BehindLogs
BehindHealth == {"cli"} \cup BehindCli
BehindProxy == {"health"} \cup BehindHealth
Begun == {"proxy"} \cup BehindProxy
BundleSteps == {"prepare", "failed", "error", "ended"} \cup Begun
Collecting == {"proxy", "health", "cli", "logs", "diagnostics", "config", "system", "errors", "manifest"}

Answers == {"proxy", "diagnostics", "persisted", "mitm", "hooks"}
BundleTypes ==
    /\ cliLog \in [DOMAIN CliPath -> LogFiles] /\ brokerLog \in [DOMAIN BrokerPath -> LogFiles]
    /\ serving \in BOOLEAN /\ identity \in {"found", "missing"} /\ bstep \in BundleSteps /\ client \in BOOLEAN
    /\ seen \subseteq Answers /\ WorkOK(work)

(* The manifest is written last and lists what there is. *)
ListOK ==
    /\ bstep = "prepare" => listed = {}
    /\ bstep \in Collecting => DOMAIN work = listed /\ "manifest.json" \notin listed
    /\ bstep = "pack" => DOMAIN work = listed \cup {"manifest.json"}
    /\ bstep = "replace" => Members(temporary) = listed \cup {"manifest.json"}
    /\ bstep \in {"packed", "done"} => Members(output) = listed \cup {"manifest.json"}

(* Archives read; a temporary one is there only while it is to be renamed. *)
ZipsOK ==
    /\ GoodZip(temporary) /\ GoodZip(output)
    /\ bstep \notin {"replace", "ended"} => temporary = NoArchive

(* What the bundle lacks by then has an error. *)
BrokerError == \E e \in berrors : e[1] \in {"broker", "broker-discovery"}
GapsOK ==
    /\ serving => identity = "found"
    /\ identity = "missing" /\ bstep \in Begun => BrokerError
    /\ bstep \in BehindProxy => berrors # {} \/ "proxy" \in seen
    /\ bstep \in BehindHealth => client \/ BrokerError
    /\ bstep \in BehindCli => {"cli/cli.log", "cli/cli.1.log"} \cap listed # {} \/ \E e \in berrors : e[1] = "cli"
    /\ bstep \in BehindLogs => "broker/abyss-broker.log" \in listed \/ BrokerError
    /\ bstep \in BehindDiagnostics => berrors # {} \/ {"proxy", "diagnostics"} \subseteq seen
    /\ bstep \in BehindConfig => berrors # {} \/ seen = Answers

BundleInv == BundleTypes /\ ListOK /\ ZipsOK /\ GapsOK /\ NothingLeft

(* Initially. *)
LEMMA BundleInitial == ASSUME BundleInit PROVE BundleInv
<1>1. cliLog \in [DOMAIN CliPath -> LogFiles] /\ brokerLog \in [DOMAIN BrokerPath -> LogFiles]
  BY SupportBundleAssumption DEF CliPath, BrokerPath, BundleInit
<1>2. WorkOK(work)
  <2>1. CASE work = NoWorkspace BY <2>1 DEF NoWorkspace, Workspaces, WorkOK
  <2>2. CASE work = [p \in {"manifest.json"} |-> <<"plain">>]
    BY <2>2, PathsAre DEF Unit, Clean, Workspaces, FileOK, WorkOK
  <2> QED BY <2>1, <2>2 DEF BundleInit
<1>3. BundleTypes BY <1>1, <1>2 DEF BundleInit, BundleTypes, BundleSteps
<1>4. ListOK BY DEF BundleInit, ListOK, Collecting
<1>5. ZipsOK BY EmptyReads DEF BundleInit, ZipsOK
<1>6. GapsOK
  BY DEF BundleInit, GapsOK, Begun, BehindProxy, BehindHealth, BehindCli, BehindLogs, BehindDiagnostics,
         BehindConfig, BehindErrors
<1>7. NothingLeft BY DEF BundleInit, NothingLeft
<1> QED BY <1>3, <1>4, <1>5, <1>6, <1>7 DEF BundleInv

(* When another part takes a step. *)
LEMMA BundleRests == ASSUME BundleInv, UNCHANGED bundleVars PROVE BundleInv'
<1>1. /\ UNCHANGED <<cliLog, brokerLog, serving, identity, bstep, client, seen>>
      /\ UNCHANGED <<work, listed, berrors, temporary, output, left>>
  BY DEF bundleVars
<1>2. BundleTypes' BY <1>1 DEF BundleInv, BundleTypes
<1>3. ListOK' BY <1>1 DEF BundleInv, ListOK
<1>4. ZipsOK' BY <1>1 DEF BundleInv, ZipsOK
<1>5. GapsOK' BY <1>1 DEF BundleInv, GapsOK, BrokerError
<1>6. NothingLeft' BY <1>1 DEF BundleInv, NothingLeft
<1> QED BY <1>2, <1>3, <1>4, <1>5, <1>6 DEF BundleInv

(* Errors and files are only added. *)
LEMMA ErrorsStay == ASSUME BrokerError, berrors \subseteq berrors' PROVE BrokerError'
BY DEF BrokerError

(* What new files leave behind. *)
NewFiles(new) == new \in Workspaces /\ \A p \in DOMAIN new : FileOK(p, new[p])
LEMMA FilesWritten ==
    ASSUME NEW new, NEW next, BundleInv, write_files(new, next), NewFiles(new)
    PROVE  /\ WorkOK(work')
           /\ \/ /\ bstep' = next /\ DOMAIN work' = DOMAIN work \cup DOMAIN new
                 /\ listed' = listed \cup (DOMAIN new \ {"manifest.json"})
              \/ bstep' = "failed"
<1>0. WorkOK(work) BY DEF BundleInv, BundleTypes
<1>1. CASE UNCHANGED work /\ bstep' = "failed" BY <1>0, <1>1 DEF WorkOK
<1>2. CASE /\ work' = [p \in DOMAIN work \cup DOMAIN new |-> IF p \in DOMAIN new THEN new[p] ELSE work[p]]
           /\ listed' = listed \cup (DOMAIN new \ {"manifest.json"}) /\ bstep' = next
  <2>1. PICK D \in SUBSET PathSet : work \in [D -> Seq(Unit)] BY <1>0 DEF WorkOK, Workspaces
  <2>2. PICK E \in SUBSET PathSet : new \in [E -> Seq(Unit)] BY DEF NewFiles, Workspaces
  <2>3. DOMAIN work' = D \cup E /\ work' \in [(D \cup E) -> Seq(Unit)] BY <1>2, <2>1, <2>2
  <2>4. D \cup E \in SUBSET PathSet OBVIOUS
  <2>5. work' \in Workspaces BY <2>3, <2>4, Zenon DEF Workspaces
  <2>6. \A p \in DOMAIN work' : FileOK(p, work'[p]) BY <1>0, <1>2 DEF NewFiles, WorkOK
  <2> QED BY <1>2, <2>1, <2>2, <2>3, <2>5, <2>6 DEF WorkOK
<1> QED BY <1>1, <1>2 DEF write_files

(* One file. *)
LEMMA OneFile == ASSUME NEW p \in PathSet, NEW t, FileOK(p, t) PROVE NewFiles(One(p, t)) /\ DOMAIN One(p, t) = {p}
<1>1. DOMAIN One(p, t) = {p} /\ One(p, t)[p] = t BY DEF One
<1>2. One(p, t) \in [{p} -> Seq(Unit)] BY DEF One, FileOK
<1>3. {p} \in SUBSET PathSet OBVIOUS
<1>4. One(p, t) \in Workspaces BY <1>2, <1>3, Zenon DEF Workspaces
<1> QED BY <1>1, <1>4 DEF NewFiles

(* A set of files. *)
LEMMA SomeFiles ==
    ASSUME NEW D \in SUBSET PathSet, NEW w, w = [p \in D |-> w[p]], \A p \in D : FileOK(p, w[p])
    PROVE  NewFiles(w) /\ DOMAIN w = D
<1>1. DOMAIN w = D OBVIOUS
<1>2. w \in [D -> Seq(Unit)] BY DEF FileOK
<1>3. w \in Workspaces BY <1>2, Zenon DEF Workspaces
<1> QED BY <1>1, <1>3 DEF NewFiles

(* A collecting step that wrote new files, or failed. *)
LEMMA Collects ==
    ASSUME BundleInv, bstep \in Collecting \ {"manifest"}, NEW new, NEW next \in Collecting, write_files(new, next),
           NewFiles(new), "manifest.json" \notin DOMAIN new, UNCHANGED <<World, client, temporary, output, left>>,
           seen \subseteq seen', seen' \subseteq Answers
    PROVE  /\ BundleTypes' /\ ListOK' /\ ZipsOK' /\ NothingLeft'
           /\ (bstep' = next /\ listed' = listed \cup DOMAIN new) \/ bstep' = "failed"
<1>1. /\ WorkOK(work')
      /\ \/ /\ bstep' = next /\ DOMAIN work' = DOMAIN work \cup DOMAIN new
            /\ listed' = listed \cup (DOMAIN new \ {"manifest.json"})
         \/ bstep' = "failed"
  BY FilesWritten
<1>2. DOMAIN new \ {"manifest.json"} = DOMAIN new OBVIOUS
<1>3. (bstep' = next /\ listed' = listed \cup DOMAIN new) \/ bstep' = "failed" BY <1>1, <1>2
<1>4. next \in BundleSteps /\ "failed" \in BundleSteps
  BY DEF Collecting, BundleSteps, Begun, BehindProxy, BehindHealth, BehindCli, BehindLogs, BehindDiagnostics,
         BehindConfig, BehindErrors
<1>5. BundleTypes' BY <1>1, <1>3, <1>4 DEF World, BundleInv, BundleTypes
<1>6. ListOK' BY <1>1, <1>2, <1>3 DEF BundleInv, ListOK, Collecting
<1>7. ZipsOK' BY DEF BundleInv, ZipsOK, Collecting
<1>8. NothingLeft' BY <1>3 DEF Collecting, NothingLeft
<1> QED BY <1>3, <1>5, <1>6, <1>7, <1>8

(* A step that only asks. *)
LEMMA AsksOnly ==
    ASSUME BundleInv, bstep \in {"proxy", "health", "logs"}, bstep' \in Collecting,
           UNCHANGED <<cliLog, brokerLog, serving, identity, work, listed, temporary, output, left>>,
           client' \in BOOLEAN, seen' \subseteq Answers
    PROVE  BundleTypes' /\ ListOK' /\ ZipsOK' /\ NothingLeft'
<1>1. bstep' \in BundleSteps
  BY DEF Collecting, BundleSteps, Begun, BehindProxy, BehindHealth, BehindCli, BehindLogs, BehindDiagnostics,
         BehindConfig, BehindErrors
<1>2. BundleTypes' BY <1>1 DEF BundleInv, BundleTypes
<1>3. ListOK' BY DEF BundleInv, ListOK, Collecting
<1>4. ZipsOK' BY DEF BundleInv, ZipsOK, Collecting
<1>5. NothingLeft' BY DEF Collecting, NothingLeft
<1> QED BY <1>2, <1>3, <1>4, <1>5

(* Gaps reported stay so, for a step from s to t that leaves the broker's    *)
(* identity alone; what the step itself had to do is left open. *)
LEMMA GapsStay ==
    ASSUME BundleInv, identity' = identity, serving' => serving, berrors \subseteq berrors', seen \subseteq seen',
           seen' \subseteq Answers, listed \subseteq listed', client => client'
    PROVE  /\ serving' => identity' = "found"
           /\ BrokerError => BrokerError'
           /\ bstep \in Begun /\ identity' = "missing" => BrokerError'
           /\ bstep \in BehindProxy => berrors' # {} \/ "proxy" \in seen'
           /\ bstep \in BehindHealth => client' \/ BrokerError'
           /\ bstep \in BehindCli => {"cli/cli.log", "cli/cli.1.log"} \cap listed' # {} \/ \E e \in berrors' : e[1] = "cli"
           /\ bstep \in BehindLogs => "broker/abyss-broker.log" \in listed' \/ BrokerError'
           /\ bstep \in BehindDiagnostics => berrors' # {} \/ {"proxy", "diagnostics"} \subseteq seen'
           /\ bstep \in BehindConfig => berrors' # {} \/ seen' = Answers
<1>1. BrokerError => BrokerError' BY ErrorsStay
<1>2. GapsOK BY DEF BundleInv
<1>3. bstep \in Begun /\ identity' = "missing" => BrokerError' BY <1>1, <1>2 DEF GapsOK
<1>4. bstep \in BehindProxy => berrors' # {} \/ "proxy" \in seen' BY <1>2 DEF GapsOK
<1>5. bstep \in BehindHealth => client' \/ BrokerError' BY <1>1, <1>2 DEF GapsOK
<1>6. bstep \in BehindCli => {"cli/cli.log", "cli/cli.1.log"} \cap listed' # {} \/ \E e \in berrors' : e[1] = "cli"
  BY <1>2 DEF GapsOK
<1>7. bstep \in BehindLogs => "broker/abyss-broker.log" \in listed' \/ BrokerError' BY <1>1, <1>2 DEF GapsOK
<1>8. bstep \in BehindDiagnostics => berrors' # {} \/ {"proxy", "diagnostics"} \subseteq seen' BY <1>2 DEF GapsOK
<1>9. bstep \in BehindConfig => berrors' # {} \/ seen' = Answers BY <1>2 DEF GapsOK
<1> QED BY <1>1, <1>2, <1>3, <1>4, <1>5, <1>6, <1>7, <1>8, <1>9 DEF GapsOK

(* Where nothing is asked of a command that failed. *)
LEMMA FailsOK == ASSUME bstep' \in {"failed", "error", "ended"}, serving' => identity' = "found" PROVE GapsOK'
BY DEF GapsOK, Begun, BehindProxy, BehindHealth, BehindCli, BehindLogs, BehindDiagnostics, BehindConfig, BehindErrors

LEMMA KeepsPrepare == ASSUME BundleInv, Prepare PROVE BundleInv'
<1>1. DOMAIN work' = {} /\ work' \in [{} -> Seq(Unit)] BY DEF Prepare, NoWorkspace
<1>2. {} \in SUBSET PathSet OBVIOUS
<1>3. work' \in Workspaces BY <1>1, <1>2, Zenon DEF Workspaces
<1>4. WorkOK(work') BY <1>1, <1>3 DEF WorkOK
<1>5. bstep = "prepare" /\ bstep' = "proxy" /\ listed' = listed BY DEF Prepare
<1>6. BundleTypes' BY <1>4, <1>5 DEF Prepare, World, BundleInv, BundleTypes, BundleSteps, Begun
<1>7. ListOK' BY <1>1, <1>5 DEF BundleInv, ListOK, Collecting
<1>8. ZipsOK' BY DEF Prepare, BundleInv, ZipsOK
<1>9. GapsOK'
  <2>1. serving' => identity' = "found" BY DEF Prepare, World, BundleInv, GapsOK
  <2>2. identity' = "missing" => BrokerError' BY DEF Prepare, World, BrokerError
  <2>3. "proxy" \notin BehindProxy
    BY DEF BehindProxy, BehindHealth, BehindCli, BehindLogs, BehindDiagnostics, BehindConfig, BehindErrors
  <2>4. BehindHealth \subseteq BehindProxy /\ BehindCli \subseteq BehindProxy /\ BehindLogs \subseteq BehindProxy
        /\ BehindDiagnostics \subseteq BehindProxy /\ BehindConfig \subseteq BehindProxy
    BY DEF BehindProxy, BehindHealth, BehindCli, BehindLogs, BehindDiagnostics
  <2> QED BY <2>1, <2>2, <2>3, <2>4, <1>5 DEF GapsOK
<1>10. NothingLeft' BY <1>5 DEF NothingLeft
<1> QED BY <1>6, <1>7, <1>8, <1>9, <1>10 DEF BundleInv

(* The places in their order. *)
LEMMA PlacesAre ==
    /\ BehindErrors = {"manifest", "pack", "replace", "packed", "done"}
    /\ BehindConfig = {"system", "errors", "manifest", "pack", "replace", "packed", "done"}
    /\ BehindDiagnostics = {"config", "system", "errors", "manifest", "pack", "replace", "packed", "done"}
    /\ BehindLogs = {"diagnostics", "config", "system", "errors", "manifest", "pack", "replace", "packed", "done"}
    /\ BehindCli = {"logs", "diagnostics", "config", "system", "errors", "manifest", "pack", "replace", "packed", "done"}
    /\ BehindHealth = {"cli", "logs", "diagnostics", "config", "system", "errors", "manifest", "pack", "replace",
                       "packed", "done"}
    /\ BehindProxy = {"health", "cli", "logs", "diagnostics", "config", "system", "errors", "manifest", "pack",
                      "replace", "packed", "done"}
    /\ Begun = {"proxy", "health", "cli", "logs", "diagnostics", "config", "system", "errors", "manifest", "pack",
                "replace", "packed", "done"}
<1>1. BehindConfig = {"system", "errors", "manifest", "pack", "replace", "packed", "done"}
  BY DEF BehindConfig, BehindErrors
<1>2. BehindDiagnostics = {"config", "system", "errors", "manifest", "pack", "replace", "packed", "done"}
  BY <1>1 DEF BehindDiagnostics
<1>3. BehindLogs = {"diagnostics", "config", "system", "errors", "manifest", "pack", "replace", "packed", "done"}
  BY <1>2 DEF BehindLogs
<1>4. BehindCli = {"logs", "diagnostics", "config", "system", "errors", "manifest", "pack", "replace", "packed", "done"}
  BY <1>3 DEF BehindCli
<1>5. BehindHealth = {"cli", "logs", "diagnostics", "config", "system", "errors", "manifest", "pack", "replace",
                      "packed", "done"}
  BY <1>4 DEF BehindHealth
<1>6. BehindProxy = {"health", "cli", "logs", "diagnostics", "config", "system", "errors", "manifest", "pack",
                     "replace", "packed", "done"}
  BY <1>5 DEF BehindProxy
<1>7. Begun = {"proxy", "health", "cli", "logs", "diagnostics", "config", "system", "errors", "manifest", "pack",
               "replace", "packed", "done"}
  BY <1>6 DEF Begun
<1> QED BY <1>1, <1>2, <1>3, <1>4, <1>5, <1>6, <1>7 DEF BehindErrors

LEMMA KeepsGone == ASSUME BundleInv, BrokerGone PROVE BundleInv'
<1>1. UNCHANGED <<cliLog, brokerLog, identity, bstep, client, seen, work, listed, berrors, temporary, output, left>>
      /\ serving' = FALSE
  BY DEF BrokerGone
<1>2. BundleTypes' BY <1>1 DEF BundleInv, BundleTypes
<1>3. ListOK' BY <1>1 DEF BundleInv, ListOK
<1>4. ZipsOK' BY <1>1 DEF BundleInv, ZipsOK
<1>5. GapsOK' BY <1>1 DEF BundleInv, GapsOK, BrokerError
<1>6. NothingLeft' BY <1>1 DEF BundleInv, NothingLeft
<1> QED BY <1>2, <1>3, <1>4, <1>5, <1>6 DEF BundleInv

LEMMA KeepsProxy == ASSUME BundleInv, ProxyStatus PROVE BundleInv'
<1>1. /\ bstep = "proxy" /\ bstep' = "health" /\ UNCHANGED <<cliLog, brokerLog, serving, identity, work, listed, temporary, output, left>>
      /\ client' = client /\ identity' = identity /\ serving' = serving /\ listed' = listed
  BY DEF ProxyStatus, World
<1>2. seen \subseteq seen' /\ seen' \subseteq Answers /\ berrors \subseteq berrors' /\ client \in BOOLEAN
  BY DEF ProxyStatus, BundleInv, BundleTypes, Answers
<1>3. bstep' \in Collecting BY <1>1 DEF Collecting
<1>4. BundleTypes' /\ ListOK' /\ ZipsOK' /\ NothingLeft' BY <1>1, <1>2, <1>3, AsksOnly
<1>5. GapsOK'
  <2>1. (serving' => identity' = "found") /\ (identity' = "missing" => BrokerError')
    <3>1. bstep \in Begun BY <1>1, PlacesAre
    <3> QED BY <1>1, <1>2, <3>1, GapsStay
  <2>2. berrors' # {} \/ "proxy" \in seen' BY <1>1, <2>1 DEF BrokerError, ProxyStatus
  <2>3. bstep' \notin BehindHealth /\ bstep' \notin BehindCli /\ bstep' \notin BehindLogs
        /\ bstep' \notin BehindDiagnostics /\ bstep' \notin BehindConfig
    BY <1>1, PlacesAre
  <2> QED BY <2>1, <2>2, <2>3 DEF GapsOK
<1> QED BY <1>4, <1>5 DEF BundleInv

(* An error of the broker's, or of the discovery. *)
LEMMA BrokerSaid == ASSUME NEW n, <<"broker", n>> \in berrors' PROVE BrokerError'
<1>1. <<"broker", n>>[1] = "broker" OBVIOUS
<1> QED BY <1>1 DEF BrokerError

LEMMA KeepsHealth == ASSUME BundleInv, Health PROVE BundleInv'
<1>1. /\ bstep = "health" /\ bstep' = "cli" /\ UNCHANGED <<cliLog, brokerLog, serving, identity, work, listed, temporary, output, left>>
      /\ seen' = seen /\ identity' = identity /\ serving' = serving /\ listed' = listed
  BY DEF Health, World
<1>2. seen' \subseteq Answers /\ berrors \subseteq berrors' /\ client' \in BOOLEAN /\ (client => client')
  BY DEF Health, BundleInv, BundleTypes
<1>3. bstep' \in Collecting BY <1>1 DEF Collecting
<1>4. BundleTypes' /\ ListOK' /\ ZipsOK' /\ NothingLeft' BY <1>1, <1>2, <1>3, AsksOnly
<1>5. GapsOK'
  <2>1. (serving' => identity' = "found") /\ (identity' = "missing" => BrokerError')
        /\ (berrors' # {} \/ "proxy" \in seen') BY <1>1, <1>2, PlacesAre, GapsStay
  <2>2. client' \/ BrokerError' BY <1>1, <2>1, BrokerSaid DEF Health
  <2>3. bstep' \notin BehindCli /\ bstep' \notin BehindLogs
        /\ bstep' \notin BehindDiagnostics /\ bstep' \notin BehindConfig
    BY <1>1, PlacesAre
  <2> QED BY <2>1, <2>2, <2>3 DEF GapsOK
<1> QED BY <1>4, <1>5 DEF BundleInv

LEMMA KeepsCli == ASSUME BundleInv, collect_cli_logs PROVE BundleInv'
<1> DEFINE readable == {n \in DOMAIN cliLog : cliLog[n] \notin {NoLog, Unreadable}}
           D == {CliPath[n] : n \in readable}
           new == [p \in D |-> redact_text(read_bounded_text(cliLog[CHOOSE n \in readable : CliPath[n] = p]))]
<1>1. /\ bstep = "cli" /\ write_files(new, "logs") /\ UNCHANGED <<World, client, seen, temporary, output, left>>
      /\ berrors' = berrors \cup {<<"cli", n>> : n \in {n \in DOMAIN cliLog : cliLog[n] = Unreadable}}
                       \cup (IF readable = {} THEN {<<"cli", "none">>} ELSE {})
  BY DEF collect_cli_logs
<1>2. DOMAIN cliLog = {"cli.log", "cli.1.log"} /\ \A n \in DOMAIN cliLog : cliLog[n] \in LogFiles
  BY DEF BundleInv, BundleTypes, CliPath
<1>3. \A n \in {"cli.log", "cli.1.log"} : CliPath[n] \in {"cli/cli.log", "cli/cli.1.log"} BY DEF CliPath
<1>4. D \subseteq {"cli/cli.log", "cli/cli.1.log"} BY <1>2, <1>3
<1>5. D \in SUBSET PathSet /\ "manifest.json" \notin D BY <1>4, PathsAre
<1>6. MaxUnits \in Nat BY SupportBundleAssumption
<1>7. ASSUME NEW p \in D PROVE FileOK(p, new[p]) BY <1>2, <1>6, <1>7, LogFile DEF LogFiles, read_bounded_text
<1>8. NewFiles(new) /\ DOMAIN new = D BY <1>5, <1>7, SomeFiles
<1> HIDE DEF new
<1>9. bstep \in Collecting \ {"manifest"} /\ "logs" \in Collecting BY <1>1 DEF Collecting
<1>10. seen' = seen /\ seen \subseteq Answers /\ client' = client BY <1>1 DEF BundleInv, BundleTypes
<1>11. /\ BundleTypes' /\ ListOK' /\ ZipsOK' /\ NothingLeft'
       /\ (bstep' = "logs" /\ listed' = listed \cup D) \/ bstep' = "failed"
  BY <1>1, <1>5, <1>8, <1>9, <1>10, Collects
<1>12. serving' = serving /\ identity' = identity /\ berrors \subseteq berrors' BY <1>1 DEF World
<1>13. GapsOK'
  <2>1. serving' => identity' = "found" BY <1>12 DEF BundleInv, GapsOK
  <2>2. CASE bstep' = "failed" BY <2>1, <2>2, FailsOK
  <2>3. CASE bstep' = "logs" /\ listed' = listed \cup D
    <3>1. bstep \in Begun /\ bstep \in BehindProxy /\ bstep \in BehindHealth BY <1>1, PlacesAre
    <3>2. seen \subseteq seen' /\ seen' \subseteq Answers /\ listed \subseteq listed' /\ (client => client') BY <1>10, <2>3
    <3>3. (identity' = "missing" => BrokerError') /\ (berrors' # {} \/ "proxy" \in seen') /\ (client' \/ BrokerError')
      BY <1>12, <3>1, <3>2, GapsStay
    <3>4. {"cli/cli.log", "cli/cli.1.log"} \cap listed' # {} \/ \E e \in berrors' : e[1] = "cli"
      <4>1. CASE readable = {}
        <5>1. <<"cli", "none">> \in berrors' /\ <<"cli", "none">>[1] = "cli" BY <4>1, <1>1
        <5> QED BY <5>1
      <4>2. CASE readable # {} BY <1>4, <2>3, <4>2
      <4> QED BY <4>1, <4>2
    <3>5. bstep' \notin BehindLogs /\ bstep' \notin BehindDiagnostics /\ bstep' \notin BehindConfig BY <2>3, PlacesAre
    <3> QED BY <2>1, <3>3, <3>4, <3>5 DEF GapsOK
  <2> QED BY <1>11, <2>2, <2>3
<1> QED BY <1>11, <1>13 DEF BundleInv

LEMMA KeepsLogs == ASSUME BundleInv, collect_broker_logs PROVE BundleInv'
<1>1. bstep = "logs" /\ UNCHANGED <<cliLog, brokerLog, serving, identity, client, seen, temporary, output, left>>
  BY DEF collect_broker_logs, World
<1>2. seen \subseteq Answers /\ client \in BOOLEAN BY DEF BundleInv, BundleTypes
<1>3. bstep \in Begun /\ bstep \in BehindProxy /\ bstep \in BehindHealth /\ bstep \in BehindCli BY <1>1, PlacesAre
<1>4. ASSUME bstep' = "diagnostics", berrors \subseteq berrors', listed \subseteq listed',
             "broker/abyss-broker.log" \in listed' \/ BrokerError'
      PROVE  GapsOK' BY <1>1, <1>2, <1>3, <1>4, GapsStay, PlacesAre DEF GapsOK
<1>5. ASSUME bstep' = "diagnostics", berrors \subseteq berrors', UNCHANGED <<work, listed>>, BrokerError' PROVE BundleInv'
  BY <1>1, <1>2, <1>4, <1>5, AsksOnly DEF Collecting, BundleInv
<1>6. CASE ~client /\ bstep' = "diagnostics" /\ UNCHANGED <<work, listed, bfaults, berrors>>
  BY <1>3, <1>5, <1>6, ErrorsStay DEF BundleInv, GapsOK
<1>7. CASE /\ client /\ bstep' = "diagnostics" /\ berrors' = berrors \cup {<<"broker", "none">>}
           /\ UNCHANGED <<work, listed, bfaults>> BY <1>5, <1>7, BrokerSaid
<1>8. ASSUME NEW grown \in {<<>>, <<"plain">>},
             write_files([p \in {BrokerPath[n] : n \in DOMAIN Collected(grown).files} |->
                   redact_text(Collected(grown).files[CHOOSE n \in DOMAIN Collected(grown).files : BrokerPath[n] = p])],
                   "diagnostics"),
             berrors' = berrors \cup {<<"broker", n>> : n \in Collected(grown).errors}
      PROVE  BundleInv'
  <2> DEFINE gathered == Collected(grown)  names == DOMAIN gathered.files  D == {BrokerPath[n] : n \in names}
             new == [p \in D |-> redact_text(gathered.files[CHOOSE n \in names : BrokerPath[n] = p])]
  <2>1. names = {n \in DOMAIN brokerLog : brokerLog[n] \notin {NoLog, Unreadable}} BY DEF Collected
  <2>2. \A n \in names : gathered.files[n] = read_tail(brokerLog[n], grown) BY <2>1 DEF Collected
  <2>3. gathered.errors = {n \in DOMAIN brokerLog :
                    \/ brokerLog[n] = Unreadable
                    \/ brokerLog[n] = NoLog /\ n = "abyss-broker.log"}
    BY DEF Collected
  <2>4. write_files(new, "diagnostics") /\ berrors' = berrors \cup {<<"broker", n>> : n \in gathered.errors} BY <1>8
  <2>5. /\ DOMAIN brokerLog = {"abyss-broker.log", "abyss-broker-trace.log"}
        /\ \A n \in DOMAIN brokerLog : brokerLog[n] \in LogFiles
    BY DEF BundleInv, BundleTypes, BrokerPath
  <2> HIDE DEF gathered
  <2>6. /\ \A n \in {"abyss-broker.log", "abyss-broker-trace.log"} :
               BrokerPath[n] \in {"broker/abyss-broker.log", "broker/abyss-broker-trace.log"}
        /\ BrokerPath["abyss-broker.log"] = "broker/abyss-broker.log"
    BY DEF BrokerPath
  <2>7. D \subseteq {"broker/abyss-broker.log", "broker/abyss-broker-trace.log"} BY <2>1, <2>5, <2>6
  <2>8. D \in SUBSET PathSet /\ "manifest.json" \notin D BY <2>7, PathsAre
  <2>9. MaxUnits \in Nat BY SupportBundleAssumption
  <2>10. ASSUME NEW p \in D PROVE FileOK(p, new[p])
    <3> DEFINE n == CHOOSE n \in names : BrokerPath[n] = p
    <3>1. n \in names BY <2>10
    <3> HIDE DEF n
    <3>2. brokerLog[n] \in Seq(Unit) BY <3>1, <2>1, <2>5 DEF LogFiles
    <3>3. grown \in Seq(Unit)
      <4>1. <<>> \in Seq(Unit) OBVIOUS
      <4>2. <<"plain">> \in Seq(Unit) BY DEF Unit
      <4> QED BY <4>1, <4>2, <1>8
    <3>4. ReadsToEnd(brokerLog[n], grown) \in Seq(Unit) BY <2>9, <3>2, <3>3, TailBounded DEF ReadsToEnd
    <3>5. FileOK(p, redact_text(LastUnits(ReadsToEnd(brokerLog[n], grown)))) BY <3>4, <2>9, LogFile
    <3>6. gathered.files[n] = LastUnits(ReadsToEnd(brokerLog[n], grown)) BY <3>1, <2>2 DEF read_tail
    <3>7. new[p] = redact_text(gathered.files[n]) BY <2>10 DEF n
    <3> QED BY <3>5, <3>6, <3>7, Zenon
  <2>11. NewFiles(new) /\ DOMAIN new = D
    <3>1. new = [p \in D |-> new[p]] OBVIOUS
    <3> HIDE DEF new, D
    <3> QED BY <3>1, <2>8, <2>10, SomeFiles
  <2> HIDE DEF new
  <2>12. /\ BundleTypes' /\ ListOK' /\ ZipsOK' /\ NothingLeft'
         /\ (bstep' = "diagnostics" /\ listed' = listed \cup D) \/ bstep' = "failed"
    BY <1>1, <1>2, <2>4, <2>8, <2>11, Collects DEF World, Collecting
  <2>13. GapsOK'
    <3>1. serving' => identity' = "found" BY <1>1 DEF BundleInv, GapsOK
    <3>2. CASE bstep' = "failed" BY <3>1, <3>2, FailsOK
    <3>3. CASE bstep' = "diagnostics" /\ listed' = listed \cup D
      <4>1. CASE "abyss-broker.log" \in names BY <1>4, <2>4, <2>6, <3>3, <4>1
      <4>2. CASE "abyss-broker.log" \notin names
        <5>1. "abyss-broker.log" \in gathered.errors BY <4>2, <2>1, <2>3, <2>5
        <5>2. <<"broker", "abyss-broker.log">> \in berrors' BY <5>1, <2>4
        <5>3. BrokerError' BY <5>2, BrokerSaid
        <5> HIDE DEF D
        <5> QED BY <5>3, <3>3, <2>4, <1>4
      <4> QED BY <4>1, <4>2
    <3> QED BY <2>12, <3>2, <3>3
  <2> QED BY <2>12, <2>13 DEF BundleInv
<1> QED BY <1>6, <1>7, <1>8 DEF collect_broker_logs

(* Writing one document or text. *)
LEMMA WritesOne ==
    ASSUME BundleInv, bstep \in Collecting \ {"manifest"}, NEW p \in PathSet, p # "manifest.json", NEW t, FileOK(p, t),
           NEW next \in Collecting, write_files(One(p, t), next), UNCHANGED <<World, client, temporary, output, left>>,
           seen \subseteq seen', seen' \subseteq Answers
    PROVE  /\ BundleTypes' /\ ListOK' /\ ZipsOK' /\ NothingLeft'
           /\ (bstep' = next /\ listed \subseteq listed') \/ bstep' = "failed"
<1>1. NewFiles(One(p, t)) /\ DOMAIN One(p, t) = {p} BY OneFile
<1>2. "manifest.json" \notin DOMAIN One(p, t) BY <1>1
<1>3. PICK new : new = One(p, t) OBVIOUS
<1>4. /\ BundleTypes' /\ ListOK' /\ ZipsOK' /\ NothingLeft'
      /\ (bstep' = next /\ listed' = listed \cup DOMAIN new) \/ bstep' = "failed"
  BY <1>1, <1>2, <1>3, Collects
<1> QED BY <1>4

LEMMA KeepsDiagnostics == ASSUME BundleInv, collect_diagnostics PROVE BundleInv'
<1>1. /\ bstep = "diagnostics" /\ UNCHANGED <<World, client, temporary, output, left>>
      /\ serving' = serving /\ identity' = identity /\ client' = client
  BY DEF collect_diagnostics, World
<1>2. /\ seen \subseteq seen' /\ seen' \subseteq Answers /\ berrors \subseteq berrors'
      /\ (client => "diagnostics" \in seen' \/ berrors' # {})
  BY DEF collect_diagnostics, BundleInv, BundleTypes, Answers
<1> DEFINE doc == IF seen' = {} THEN Empty ELSE Told  p == "diagnostics/state.json"
<1>3. write_files(One(p, Flattened(redact_json(doc))), "config") BY DEF collect_diagnostics, write_json_file
<1>4. p \in PathSet /\ p # "manifest.json" /\ p \notin LogPaths BY PathsAre
<1>5. doc \in {Empty, Told, Message} OBVIOUS
<1> HIDE DEF doc, p
<1>6. FileOK(p, Flattened(redact_json(doc))) BY <1>4, <1>5, DocumentFile
<1>7. bstep \in Collecting \ {"manifest"} /\ "config" \in Collecting BY <1>1 DEF Collecting
<1>8. /\ BundleTypes' /\ ListOK' /\ ZipsOK' /\ NothingLeft'
      /\ (bstep' = "config" /\ listed \subseteq listed') \/ bstep' = "failed"
  BY <1>1, <1>2, <1>3, <1>4, <1>6, <1>7, WritesOne
<1>9. GapsOK' BY <1>1, <1>2, <1>8, FailsOK, PlacesAre, GapsStay DEF BundleInv, GapsOK, BrokerError
<1> QED BY <1>8, <1>9 DEF BundleInv

LEMMA KeepsConfig == ASSUME BundleInv, collect_runtime_config PROVE BundleInv'
<1> DEFINE asked == IF client THEN {"mitm", "hooks"} ELSE {}
<1>1. PICK g \in SUBSET {"persisted", "mitm", "hooks"} :
         /\ seen' = seen \cup g
         /\ berrors' = berrors \cup {<<"runtime-config", s>> : s \in ({"persisted"} \cup asked) \ g}
         /\ write_json_file("config/runtime-config.redacted.json", IF g = {} THEN Empty ELSE Told, "system")
  BY DEF collect_runtime_config
<1>2. /\ bstep = "config" /\ UNCHANGED <<World, client, temporary, output, left>>
      /\ serving' = serving /\ identity' = identity /\ client' = client
  BY DEF collect_runtime_config, World
<1>3. seen \subseteq seen' /\ seen' \subseteq Answers /\ berrors \subseteq berrors'
  BY <1>1 DEF BundleInv, BundleTypes, Answers
<1>4. berrors' # {} \/ (client => {"persisted", "mitm", "hooks"} \subseteq g)
  <2> SUFFICES ASSUME client, NEW x \in {"persisted", "mitm", "hooks"}, x \notin g PROVE berrors' # {} OBVIOUS
  <2>1. x \in ({"persisted"} \cup asked) \ g OBVIOUS
  <2>2. <<"runtime-config", x>> \in {<<"runtime-config", s>> : s \in ({"persisted"} \cup asked) \ g} BY <2>1
  <2> QED BY <1>1, <2>2
<1> DEFINE doc == IF g = {} THEN Empty ELSE Told  p == "config/runtime-config.redacted.json"
<1>5. write_files(One(p, Flattened(redact_json(doc))), "system") BY <1>1 DEF write_json_file
<1>6. p \in PathSet /\ p # "manifest.json" /\ p \notin LogPaths BY PathsAre
<1>7. doc \in {Empty, Told, Message} OBVIOUS
<1> HIDE DEF doc, p
<1>8. FileOK(p, Flattened(redact_json(doc))) BY <1>6, <1>7, DocumentFile
<1>9. bstep \in Collecting \ {"manifest"} /\ "system" \in Collecting BY <1>2 DEF Collecting
<1>10. /\ BundleTypes' /\ ListOK' /\ ZipsOK' /\ NothingLeft'
       /\ (bstep' = "system" /\ listed \subseteq listed') \/ bstep' = "failed"
  BY <1>2, <1>3, <1>5, <1>6, <1>8, <1>9, WritesOne
<1>11. GapsOK'
  <2>1. serving' => identity' = "found" BY <1>2 DEF BundleInv, GapsOK
  <2>2. CASE bstep' = "failed" BY <2>1, <2>2, FailsOK
  <2>3. CASE bstep' = "system" /\ listed \subseteq listed'
    <3>1. bstep \in Begun /\ bstep \in BehindProxy /\ bstep \in BehindHealth /\ bstep \in BehindCli /\ bstep \in BehindLogs
          /\ bstep \in BehindDiagnostics
      BY <1>2, PlacesAre
    <3>2. /\ identity' = "missing" => BrokerError'
          /\ berrors' # {} \/ "proxy" \in seen'
          /\ client' \/ BrokerError'
          /\ {"cli/cli.log", "cli/cli.1.log"} \cap listed' # {} \/ \E e \in berrors' : e[1] = "cli"
          /\ "broker/abyss-broker.log" \in listed' \/ BrokerError'
          /\ berrors' # {} \/ {"proxy", "diagnostics"} \subseteq seen'
      BY <1>2, <1>3, <2>3, <3>1, GapsStay
    <3>3. berrors' # {} \/ seen' = Answers
      <4> SUFFICES ASSUME berrors' = {} PROVE seen' = Answers OBVIOUS
      <4>1. client BY <3>2, <1>2 DEF BrokerError
      <4>2. {"persisted", "mitm", "hooks"} \subseteq g /\ {"proxy", "diagnostics"} \subseteq seen' BY <4>1, <3>2, <1>4
      <4> QED BY <4>2, <1>1, <1>3 DEF Answers
    <3> QED BY <2>1, <3>2, <3>3 DEF GapsOK
  <2> QED BY <1>10, <2>2, <2>3
<1> QED BY <1>10, <1>11 DEF BundleInv

(* What holds once everything was asked holds until the command ends. *)
LEMMA GapsKept ==
    ASSUME BundleInv, bstep \in BehindConfig, identity' = identity, serving' = serving, berrors' = berrors, seen' = seen,
           client' = client, listed \subseteq listed'
    PROVE  GapsOK'
<1>1. bstep \in Begun /\ bstep \in BehindProxy /\ bstep \in BehindHealth /\ bstep \in BehindCli /\ bstep \in BehindLogs
      /\ bstep \in BehindDiagnostics
  BY PlacesAre
<1>2. seen \subseteq seen' /\ seen' \subseteq Answers /\ berrors \subseteq berrors' BY DEF BundleInv, BundleTypes
<1>3. /\ serving' => identity' = "found"
      /\ identity' = "missing" => BrokerError'
      /\ berrors' # {} \/ "proxy" \in seen'
      /\ client' \/ BrokerError'
      /\ {"cli/cli.log", "cli/cli.1.log"} \cap listed' # {} \/ \E e \in berrors' : e[1] = "cli"
      /\ "broker/abyss-broker.log" \in listed' \/ BrokerError'
      /\ berrors' # {} \/ {"proxy", "diagnostics"} \subseteq seen'
      /\ berrors' # {} \/ seen' = Answers
  BY <1>1, <1>2, GapsStay
<1> QED BY <1>3 DEF GapsOK

LEMMA KeepsSystem == ASSUME BundleInv, write_system_info PROVE BundleInv'
<1>1. /\ bstep = "system" /\ UNCHANGED <<World, client, temporary, output, left>> /\ UNCHANGED <<seen, berrors>>
      /\ serving' = serving /\ identity' = identity /\ client' = client
      /\ write_files(One("system-info.txt", <<"plain">>), "errors")
  BY DEF write_system_info, World
<1>2. "system-info.txt" \in PathSet /\ "system-info.txt" \notin LogPaths BY PathsAre
<1>3. <<"plain">> \in Seq(Unit) /\ Clean(<<"plain">>) BY DEF Unit, Clean
<1>4. FileOK("system-info.txt", <<"plain">>) BY <1>2, <1>3 DEF FileOK
<1>5. bstep \in Collecting \ {"manifest"} /\ "errors" \in Collecting /\ bstep \in BehindConfig
  BY <1>1, PlacesAre DEF Collecting
<1>6. seen \subseteq seen' /\ seen' \subseteq Answers BY <1>1 DEF BundleInv, BundleTypes
<1>7. /\ BundleTypes' /\ ListOK' /\ ZipsOK' /\ NothingLeft'
      /\ (bstep' = "errors" /\ listed \subseteq listed') \/ bstep' = "failed"
  BY <1>1, <1>2, <1>4, <1>5, <1>6, WritesOne
<1>8. GapsOK' BY <1>1, <1>5, <1>7, FailsOK, GapsKept DEF BundleInv, GapsOK
<1> QED BY <1>7, <1>8 DEF BundleInv

LEMMA KeepsErrors == ASSUME BundleInv, WriteErrors PROVE BundleInv'
<1> DEFINE doc == IF berrors = {} THEN Empty ELSE Message  p == "collection-errors.json"
<1>1. /\ bstep = "errors" /\ UNCHANGED <<World, client, temporary, output, left>> /\ UNCHANGED <<seen, berrors>>
      /\ serving' = serving /\ identity' = identity /\ client' = client
      /\ write_files(One(p, Flattened(redact_json(doc))), "manifest")
  BY DEF WriteErrors, World, write_json_file
<1>2. p \in PathSet /\ p # "manifest.json" /\ p \notin LogPaths BY PathsAre
<1>3. doc \in {Empty, Told, Message} OBVIOUS
<1> HIDE DEF doc, p
<1>4. FileOK(p, Flattened(redact_json(doc))) BY <1>2, <1>3, DocumentFile
<1>5. bstep \in Collecting \ {"manifest"} /\ "manifest" \in Collecting /\ bstep \in BehindConfig
  BY <1>1, PlacesAre DEF Collecting
<1>6. seen \subseteq seen' /\ seen' \subseteq Answers BY <1>1 DEF BundleInv, BundleTypes
<1>7. /\ BundleTypes' /\ ListOK' /\ ZipsOK' /\ NothingLeft'
      /\ (bstep' = "manifest" /\ listed \subseteq listed') \/ bstep' = "failed"
  BY <1>1, <1>2, <1>4, <1>5, <1>6, WritesOne
<1>8. GapsOK' BY <1>1, <1>5, <1>7, FailsOK, GapsKept DEF BundleInv, GapsOK
<1> QED BY <1>7, <1>8 DEF BundleInv

LEMMA KeepsManifest == ASSUME BundleInv, WriteManifest PROVE BundleInv'
<1> DEFINE p == "manifest.json"
<1>1. /\ bstep = "manifest" /\ UNCHANGED <<cliLog, brokerLog, serving, identity, client, temporary, output, left>>
      /\ UNCHANGED <<seen, berrors>> /\ write_files(One(p, <<"plain">>), "pack")
  BY DEF WriteManifest, World
<1>2. p \in PathSet /\ p \notin LogPaths BY PathsAre
<1>3. <<"plain">> \in Seq(Unit) /\ Clean(<<"plain">>) BY DEF Unit, Clean
<1>4. FileOK(p, <<"plain">>) BY <1>2, <1>3 DEF FileOK
<1>5. NewFiles(One(p, <<"plain">>)) /\ DOMAIN One(p, <<"plain">>) = {p}
  <2> HIDE DEF p
  <2> QED BY <1>2, <1>4, OneFile
<1>6. /\ WorkOK(work')
      /\ (bstep' = "pack" /\ DOMAIN work' = DOMAIN work \cup {p} /\ listed' = listed) \/ bstep' = "failed"
  BY <1>1, <1>5, FilesWritten
<1>7. BundleTypes' BY <1>1, <1>6, PlacesAre DEF BundleInv, BundleTypes, BundleSteps
<1>8. ListOK' BY <1>1, <1>6 DEF BundleInv, ListOK, Collecting
<1>9. ZipsOK' BY <1>1, <1>6 DEF BundleInv, ZipsOK
<1>10. NothingLeft' BY <1>6 DEF NothingLeft
<1>11. GapsOK' BY <1>1, <1>6, FailsOK, PlacesAre, GapsKept DEF BundleInv, GapsOK
<1> QED BY <1>7, <1>8, <1>9, <1>10, <1>11 DEF BundleInv

(* The last steps write no file. *)
LEMMA Closes ==
    ASSUME BundleInv, UNCHANGED <<cliLog, brokerLog, serving, identity, client, seen, berrors, listed>>,
           WorkOK(work'), bstep' \in BundleSteps, bstep \in BehindConfig \/ bstep' \in {"failed", "error", "ended"}
    PROVE  BundleTypes' /\ GapsOK'
<1>1. BundleTypes' BY DEF BundleInv, BundleTypes
<1>2. serving' => identity' = "found" BY DEF BundleInv, GapsOK
<1>3. CASE bstep' \in {"failed", "error", "ended"} BY <1>1, <1>2, <1>3, FailsOK
<1>4. CASE bstep \in BehindConfig BY <1>1, <1>4, GapsKept
<1> QED BY <1>3, <1>4

LEMMA KeepsPack == ASSUME BundleInv, write_to PROVE BundleInv'
<1>1. /\ bstep = "pack" /\ UNCHANGED <<cliLog, brokerLog, serving, identity, client, seen, berrors, listed>>
      /\ UNCHANGED <<work, output, left>>
      /\ (temporary' = ZipArchive /\ bstep' = "replace") \/ (temporary' = temporary /\ bstep' = "failed")
  BY DEF write_to, World
<1>2. WorkOK(work') BY <1>1 DEF BundleInv, BundleTypes
<1>3. WorkOK(work) BY DEF BundleInv, BundleTypes
<1>4. BundleTypes' /\ GapsOK' BY <1>1, <1>2, PlacesAre, Closes DEF BundleSteps
<1>5. GoodZip(ZipArchive) /\ Members(ZipArchive) = DOMAIN work BY <1>3, ArchiveIs
<1>6. temporary = NoArchive /\ GoodZip(temporary) /\ GoodZip(output) BY <1>1 DEF BundleInv, ZipsOK
<1>7. ZipsOK' BY <1>1, <1>5, <1>6 DEF ZipsOK
<1>8. ListOK' BY <1>1, <1>5 DEF BundleInv, ListOK, Collecting
<1>9. NothingLeft' BY <1>1 DEF NothingLeft
<1> QED BY <1>4, <1>7, <1>8, <1>9 DEF BundleInv

LEMMA KeepsReplace == ASSUME BundleInv, Replace PROVE BundleInv'
<1>1. /\ bstep = "replace" /\ UNCHANGED <<cliLog, brokerLog, serving, identity, client, seen, berrors, listed>>
      /\ UNCHANGED <<work, left>> /\ temporary' = NoArchive
      /\ (output' = temporary /\ bstep' = "packed") \/ (output' \in {output, temporary} /\ bstep' = "failed")
  BY DEF Replace, World
<1>2. WorkOK(work') BY <1>1 DEF BundleInv, BundleTypes
<1>3. BundleTypes' /\ GapsOK' BY <1>1, <1>2, PlacesAre, Closes DEF BundleSteps
<1>4. GoodZip(temporary) /\ GoodZip(output) BY DEF BundleInv, ZipsOK
<1>5. GoodZip(output') BY <1>1, <1>4
<1>6. ZipsOK' BY <1>1, <1>5, EmptyReads DEF ZipsOK
<1>7. ListOK' BY <1>1 DEF BundleInv, ListOK, Collecting
<1>8. NothingLeft' BY <1>1 DEF NothingLeft
<1> QED BY <1>3, <1>6, <1>7, <1>8 DEF BundleInv

LEMMA KeepsCleanup == ASSUME BundleInv, Cleanup PROVE BundleInv'
<1>1. /\ UNCHANGED <<cliLog, brokerLog, serving, identity, client, seen, berrors, listed>>
      /\ UNCHANGED <<temporary, output>>
      /\ (bstep = "packed" /\ bstep' = "done") \/ (bstep = "failed" /\ bstep' = "error")
      /\ (work' = NoWorkspace /\ left' = left) \/ (work' = work /\ left' = TRUE)
  BY DEF Cleanup, World
<1>2. WorkOK(work')
  <2>1. CASE work' = work BY <2>1 DEF BundleInv, BundleTypes
  <2>2. CASE work' = NoWorkspace
    <3>1. DOMAIN work' = {} /\ work' \in [{} -> Seq(Unit)] BY <2>2 DEF NoWorkspace
    <3>2. {} \in SUBSET PathSet OBVIOUS
    <3>3. work' \in Workspaces BY <3>1, <3>2, Zenon DEF Workspaces
    <3> QED BY <3>1, <3>3 DEF WorkOK
  <2> QED BY <1>1, <2>1, <2>2
<1>3. BundleTypes' /\ GapsOK' BY <1>1, <1>2, PlacesAre, Closes DEF BundleSteps
<1>4. temporary = NoArchive /\ GoodZip(temporary) /\ GoodZip(output) BY <1>1 DEF BundleInv, ZipsOK
<1>5. ZipsOK' BY <1>1, <1>4 DEF ZipsOK
<1>6. ListOK' BY <1>1 DEF BundleInv, ListOK, Collecting
<1>7. NothingLeft' BY <1>1, <1>4 DEF NothingLeft
<1> QED BY <1>3, <1>5, <1>6, <1>7 DEF BundleInv

LEMMA KeepsKilled == ASSUME BundleInv, BundleKilled PROVE BundleInv'
<1>1. /\ UNCHANGED <<cliLog, brokerLog, serving, identity, client, seen, berrors, listed>>
      /\ UNCHANGED <<work, temporary, output>> /\ bstep' = "ended"
  BY DEF BundleKilled, World
<1>2. WorkOK(work') BY <1>1 DEF BundleInv, BundleTypes
<1>3. BundleTypes' /\ GapsOK' BY <1>1, <1>2, Closes DEF BundleSteps
<1>4. GoodZip(temporary) /\ GoodZip(output) BY DEF BundleInv, ZipsOK
<1>5. ZipsOK' BY <1>1, <1>4 DEF ZipsOK
<1>6. ListOK' BY <1>1 DEF ListOK, Collecting
<1>7. NothingLeft' BY <1>1 DEF NothingLeft
<1> QED BY <1>3, <1>5, <1>6, <1>7 DEF BundleInv

(* Every step keeps it. *)
LEMMA BundleInductive == ASSUME BundleInv, [BundleNext]_bundleVars PROVE BundleInv'
BY BundleRests, KeepsGone, KeepsPrepare, KeepsProxy, KeepsHealth, KeepsCli, KeepsLogs, KeepsDiagnostics, KeepsConfig,
   KeepsSystem, KeepsErrors, KeepsManifest, KeepsPack, KeepsReplace, KeepsCleanup, KeepsKilled
   DEF BundleNext

(* What the invariant says of a bundle. *)
LEMMA BundleMeans == ASSUME BundleInv PROVE BundleHonest
<1>1. GapsReported BY PlacesAre DEF GapsReported, Answers, BrokerError, BundleInv, ListOK, GapsOK
<1>2. ASSUME NEW zip, GoodZip(zip) PROVE \A e \in Range(zip.central) : EntryOK(zip, e) BY <1>2 DEF GoodZip, Range
<1>3. GoodZip(temporary) /\ GoodZip(output) BY DEF BundleInv, ZipsOK
<1>4. ArchiveReads BY <1>2, <1>3 DEF ArchiveReads, EntryOK
<1>5. NothingAnnounced
  <2>1. DOMAIN output.bytes = 1..Len(output.bytes) BY <1>3 DEF GoodZip
  <2>2. Silent(output.bytes) BY <1>3 DEF GoodZip
  <2> QED BY <2>1, <2>2 DEF NothingAnnounced, Silent
<1>6. LogsBounded BY <1>2, <1>3 DEF LogsBounded, LogPaths, EntryOK
<1>7. NothingLeft BY DEF BundleInv
<1> QED BY <1>1, <1>4, <1>5, <1>6, <1>7 DEF BundleHonest

-----------------------------------------------------------------------------
(* The inductive invariant of the files of one host. *)
FilesInv == CaInv /\ HomeInv /\ QueryInv /\ PagesInv /\ StartupInv /\ BundleInv

(* A step of the host is one of each component, or leaves it alone. *)
LEMMA FileSteps ==
    ASSUME [Next]_vars
    PROVE  /\ [CaNext]_caVars /\ [HomeNext]_homeVars /\ [QueryNext]_queryVars
           /\ [PagesNext]_pageVars /\ [StartupNext]_startupVars /\ [BundleNext]_bundleVars
<1>1. CASE UNCHANGED fileVars BY <1>1 DEF fileVars
<1>2. CASE CaNext /\ UNCHANGED <<homeVars, queryVars, pageVars, startupVars, bundleVars>> BY <1>2
<1>3. CASE HomeNext /\ UNCHANGED <<caVars, queryVars, pageVars, startupVars, bundleVars>> BY <1>3
<1>4. CASE QueryNext /\ UNCHANGED <<caVars, homeVars, pageVars, startupVars, bundleVars>> BY <1>4
<1>5. CASE PagesNext /\ UNCHANGED <<caVars, homeVars, queryVars, startupVars, bundleVars>> BY <1>5
<1>6. CASE StartupNext /\ UNCHANGED <<caVars, homeVars, queryVars, pageVars, bundleVars>> BY <1>6
<1>7. CASE BundleNext /\ UNCHANGED <<caVars, homeVars, queryVars, pageVars, startupVars>> BY <1>7
<1> QED BY <1>1, <1>2, <1>3, <1>4, <1>5, <1>6, <1>7 DEF Next, vars, OtherThanBroker

(* The host begins within the invariant. *)
LEMMA FilesInitial == ASSUME Init PROVE FilesInv
<1>1. CaInv /\ HomeInv /\ QueryInv
  BY CaStoreAssumption, HomeConfigAssumption, QueryAuthAssumption, CaInitial, HomeInitial, QueryInitial DEF Init
<1>2. PagesInv BY QueryPagesAssumption, PagesInitial DEF Init
<1>3. StartupInv BY StartupFileAssumption, StartupInitial DEF Init
<1>4. BundleInv BY BundleInitial DEF Init
<1> QED BY <1>1, <1>2, <1>3, <1>4 DEF FilesInv

(* Every step keeps the invariant of every component. *)
LEMMA FilesInductive == ASSUME FilesInv, [Next]_vars PROVE FilesInv'
<1>1. /\ [CaNext]_caVars /\ [HomeNext]_homeVars /\ [QueryNext]_queryVars
      /\ [PagesNext]_pageVars /\ [StartupNext]_startupVars /\ [BundleNext]_bundleVars
  BY FileSteps
<1>2. CaInv' BY <1>1, CaInductive DEF FilesInv
<1>3. HomeInv' BY <1>1, HomeConfigAssumption, HomeInductive DEF FilesInv
<1>4. QueryInv' BY <1>1, QueryAuthAssumption, QueryInductive DEF FilesInv
<1>5. PagesInv' BY <1>1, PagesInductive DEF FilesInv
<1>6. StartupInv' BY <1>1, StartupInductive DEF FilesInv
<1>7. BundleInv' BY <1>1, BundleInductive DEF FilesInv
<1> QED BY <1>2, <1>3, <1>4, <1>5, <1>6, <1>7 DEF FilesInv

(* Whatever commands race, fail half-way or are killed, the invariant holds. *)
THEOREM FilesInvariance == Spec => []FilesInv
<1>1. Init => FilesInv BY FilesInitial
<1>2. FilesInv /\ [Next]_vars => FilesInv' BY FilesInductive
<1> QED BY <1>1, <1>2, PTL DEF Spec

(* The broker signs with a key that fits its certificate, Claude Code keeps  *)
(* the user's own authorities, the policy on disk is the one in force, a     *)
(* broker started by a command runs as the startup file and the command say, *)
(* and a support bundle is whole or says what it lacks (ca/mod.rs,           *)
(* claude_code.rs, runtime.rs, config.rs, support_bundle.rs).                *)
THEOREM FilesKept == Spec => []HomeKept
<1>1. FilesInv => AuthorityKept /\ PolicyOnDisk /\ StartupAgreed
  BY AuthorityMeans, StartupMeans DEF FilesInv, HomeInv
<1>2. FilesInv => BundleHonest BY BundleMeans DEF FilesInv
<1>3. FilesInv => HomeKept BY <1>1, <1>2 DEF HomeKept
<1> QED BY <1>3, FilesInvariance, PTL

(* A query sends its credential to the services that issued it and no        *)
(* others, and shows the rows asked for, in order and without a gap          *)
(* (abyss-query-cli credentials.rs, run.rs).                                 *)
THEOREM QueriesFaithful == Spec => []QueryFaithful
<1>1. FilesInv => QueryFaithful BY TokensStayBound, PagesMean DEF FilesInv, QueryFaithful
<1> QED BY <1>1, FilesInvariance, PTL

(* A command that reports success had its effect: a start leaves a trusted   *)
(* broker on the port asked for, a configuration command changes what it     *)
(* names and nothing else, a logout revoked the session (runtime.rs,         *)
(* command.rs, abyss-query-cli auth.rs).                                     *)
THEOREM CommandsEffective == Spec => CommandsDone
<1>1. FilesInv /\ [Next]_vars => [StartTrusted /\ CommandsTakeEffect /\ LogoutStep]_vars
  BY FileSteps, StartsTrusted, HomeConfigAssumption, EffectsTaken, QueryAuthAssumption, LogoutRevokes DEF FilesInv,
     caVars, StartTrusted, homeVars, CommandsTakeEffect, Acting, queryVars, LogoutStep, Engaged
<1> QED BY <1>1, FilesInvariance, PTL DEF Spec, CommandsDone
=============================================================================
