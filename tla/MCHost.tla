------------------------------- MODULE MCHost -------------------------------
(* The commands that manage processes, files and credentials on one host.  A *)
(* behaviour exercises one of the parts; the others rest in an initial state.*)
EXTENDS BrokerStart, WorkerStart, DeployLocal, CaStore, HomeConfig, QueryAuth, QueryPages, StartupFile,
        SupportBundle

VARIABLE part
processVars == <<workerVars, deployVars>>
fileVars == <<caVars, homeVars, queryVars, pageVars, startupVars, bundleVars>>
vars == <<part, startVars, processVars, fileVars>>

Parts == {"broker", "worker", "deploy", "ca", "home", "query", "pages", "startup", "bundle"}
OtherThanBroker == UNCHANGED <<part, processVars, fileVars>>
Resting ==
    /\ part # "broker" => host = "macos" /\ info = NoPid
    /\ part # "worker" => stored = NoCredential /\ wInfo = NoRecord /\ managed
    /\ part # "deploy" => dstate = NoState /\ files.token = 0 /\ pconf = NoConf
    /\ part # "ca" => caHost = "macos" /\ all_missing /\ ~cc.named
    /\ part # "home" => conf = NoFile /\ pol = NoHooks
    /\ part # "query" => profile = NoProfile
RestingPages ==
    /\ ask = [kind |-> "events", first |-> 0, size |-> 1, items |-> 1, pages |-> 1, all |-> FALSE]
    /\ rows = 0 /\ added = 0 /\ reply = NoReply /\ attempt = 0 /\ got = <<>> /\ pages = 0
    /\ at = 0 /\ answer = Fetching
RestingStartup ==
    /\ artifact = "linux" /\ want = NoSide /\ via = "command" /\ stage = "refused" /\ running = NotRunning
    /\ text = [schema |-> 1, log |-> "none", ca |-> "none", mode |-> "explicit", listen |-> NoListen,
               socket |-> "none", upstream |-> "none"] /\ original = text
(* Logs with a credential in their last lines, or cut behind its marker.     *)
Recent == <<"plain", "mark", "secret">>
Cut == <<"mark", "secret", "plain">>
Pair(names, first, a, b) == [n \in DOMAIN names |-> IF n = first THEN a ELSE b]
MCCliLogs == {Pair(CliPath, "cli.log", l[1], l[2]) :
    l \in {<<NoLog, NoLog>>, <<Recent, Unreadable>>, <<Cut, Recent>>}}
MCBrokerLogs == {Pair(BrokerPath, "abyss-broker.log", l[1], l[2]) :
    l \in {<<NoLog, NoLog>>, <<Recent, Unreadable>>, <<Cut, NoLog>>}}

RestingBundle ==
    /\ cliLog = Pair(CliPath, "cli.log", NoLog, NoLog) /\ identity = "missing" /\ work = NoWorkspace
    /\ brokerLog = Pair(BrokerPath, "abyss-broker.log", NoLog, NoLog)
Init ==
    /\ part \in Parts
    /\ StartInit /\ WorkerInit /\ DeployInit /\ CaInit /\ HomeInit /\ QueryInit /\ Resting
    /\ IF part = "pages" THEN PagesInit ELSE RestingPages
    /\ IF part = "startup" THEN StartupInit ELSE RestingStartup
    /\ (part # "bundle" => RestingBundle) /\ BundleInit
Next ==
    \/ part = "broker" /\ StartNext /\ OtherThanBroker
    \/ part = "worker" /\ WorkerNext /\ UNCHANGED <<part, startVars, deployVars, fileVars>>
    \/ part = "deploy" /\ DeployNext /\ UNCHANGED <<part, startVars, workerVars, fileVars>>
    \/ part = "ca" /\ CaNext /\ UNCHANGED <<part, startVars, processVars, homeVars, queryVars, pageVars, startupVars, bundleVars>>
    \/ part = "home" /\ HomeNext /\ UNCHANGED <<part, startVars, processVars, caVars, queryVars, pageVars, startupVars, bundleVars>>
    \/ part = "query" /\ QueryNext /\ UNCHANGED <<part, startVars, processVars, caVars, homeVars, pageVars, startupVars, bundleVars>>
    \/ part = "pages" /\ PagesNext /\ UNCHANGED <<part, startVars, processVars, caVars, homeVars, queryVars, startupVars, bundleVars>>
    \/ part = "startup" /\ StartupNext /\ UNCHANGED <<part, startVars, processVars, caVars, homeVars, queryVars, pageVars, bundleVars>>
    \/ part = "bundle" /\ BundleNext /\ UNCHANGED <<part, startVars, processVars, caVars, homeVars, queryVars, pageVars, startupVars>>
(* Commands run; systemd bounds its stop jobs and so, on Linux, the broker's *)
(* way out.                                                                  *)
Fairness ==
    /\ \A c \in Clis : WF_vars(part = "broker" /\ CliStep(c) /\ OtherThanBroker)
    /\ \A p \in Pids : WF_vars(part = "broker" /\ host = "linux" /\ ProcStep(p) /\ OtherThanBroker)
    /\ WF_vars(part = "broker" /\ UnitStep /\ OtherThanBroker)
Spec == Init /\ [][Next]_vars /\ Fairness

(* No process of the product runs unknown to the commands that manage it:    *)
(* the broker a start or stop would look for, the delivery worker that holds *)
(* the spool, the services of a local deployment (platform/*/broker.rs,      *)
(* delivery.rs, deploy_local/mod.rs).                                        *)
ProcessesOwned == BrokerFindable /\ WorkerFindable /\ DeployOwned

(* What the files of an ABYSS_HOME promise at every moment: the broker signs *)
(* with a key that fits its certificate, Claude Code keeps the user's own    *)
(* authorities, the policy on disk is the one in force, a broker started by  *)
(* a command runs as the startup file and the command say, and a support     *)
(* bundle is whole or says what it lacks (ca/mod.rs, claude_code.rs,         *)
(* runtime.rs, config.rs, support_bundle.rs).                                *)
HomeKept == AuthorityKept /\ PolicyOnDisk /\ StartupAgreed /\ BundleHonest

(* A command that reports success had its effect: a start leaves a trusted   *)
(* broker on the port asked for, a configuration command changes what it     *)
(* names and nothing else, a logout revoked the session (runtime.rs,         *)
(* command.rs, abyss-query-cli auth.rs).                                     *)
CommandsDone == [][StartTrusted /\ CommandsTakeEffect /\ LogoutStep]_vars

(* A query shows what was asked for with the credential meant for it         *)
(* (abyss-query-cli credentials.rs, run.rs).                                 *)
QueryFaithful == CredentialsBound /\ PagesExact
=============================================================================
