--------------------------- MODULE SupportBundle ---------------------------
(* `abyss log dump`: the logs, diagnostics and configuration of the command  *)
(* line and of the broker, redacted, in one ZIP file (abyss-cli              *)
(* support_bundle.rs, abyss-broker support_logs.rs).  The broker may be      *)
(* gone, refuse or stop at any request, the disk may fail and the command    *)
(* may be killed.  Text is a sequence of units: a "mark" that announces a    *)
(* credential (Authorization: Bearer, Cookie:, access_token=), a "secret", a *)
(* "plain" one or the "redacted" that replaces a secret.                     *)
EXTENDS Naturals, Sequences, FiniteSets, SequencesExt

CONSTANTS CliLogs,       \* what the two CLI logs may be: name -> text, NoLog or Unreadable
          BrokerLogs,    \* the same for the broker's two logs
          MaxUnits,      \* MAX_BYTES_PER_CLI_FILE and MAX_BYTES_PER_BROKER_FILE
          MaxZip,        \* u32::MAX: the largest offset of the archive
          MaxBundleFaults \* bound: disk failures

Unit == {"mark", "secret", "plain", "redacted"}
NoLog == <<"missing">>
Unreadable == <<"unreadable">>
LogFiles == Seq(Unit) \cup {NoLog, Unreadable}
ASSUME SupportBundleAssumption ==
    /\ {MaxUnits, MaxZip, MaxBundleFaults} \subseteq Nat
    /\ CliLogs \subseteq [{"cli.log", "cli.1.log"} -> LogFiles]
    /\ BrokerLogs \subseteq [{"abyss-broker.log", "abyss-broker-trace.log"} -> LogFiles]

VARIABLES
    cliLog, brokerLog,  \* the log files
    serving,            \* the broker answers
    identity,           \* its startup identity: "found" or "missing"
    bstep,              \* where the command is
    client,             \* it holds an authenticated client
    seen,               \* [proxy, diagnostics]: what the broker has told so far
    work,               \* the workspace: path -> content, or NoWorkspace
    listed,             \* `files`: the paths the manifest will list
    berrors,            \* `errors`: <<source, file>>
    temporary,          \* the archive being written, or NoArchive
    output,             \* the file the command names, or NoArchive
    bfaults,            \* disk failures so far
    left                \* history: killed, or the workspace could not be removed
bundleVars == <<cliLog, brokerLog, serving, identity, bstep, client, seen, work, listed, berrors,
                temporary, output, bfaults, left>>

NoWorkspace == <<>>
NoArchive == [bytes |-> <<>>, central |-> <<>>]
(* Every path a bundle may hold, in the order of the archive.                *)
Paths == <<"broker/abyss-broker-trace.log", "broker/abyss-broker.log", "cli/cli.1.log", "cli/cli.log",
           "collection-errors.json", "config/runtime-config.redacted.json", "diagnostics/state.json",
           "manifest.json", "system-info.txt">>
CliPath == [n \in {"cli.log", "cli.1.log"} |-> IF n = "cli.log" THEN "cli/cli.log" ELSE "cli/cli.1.log"]
BrokerPath == [n \in {"abyss-broker.log", "abyss-broker-trace.log"} |->
    IF n = "abyss-broker.log" THEN "broker/abyss-broker.log" ELSE "broker/abyss-broker-trace.log"]

BundleInit ==
    /\ cliLog \in CliLogs /\ brokerLog \in BrokerLogs /\ identity \in {"found", "missing"}
    /\ serving \in BOOLEAN /\ (serving => identity = "found")
    /\ bstep = "prepare" /\ client = FALSE /\ seen = {} /\ listed = {} /\ berrors = {}
    /\ work \in {NoWorkspace, [p \in {"manifest.json"} |-> <<"plain">>]}   \* a former one may be left
    /\ temporary = NoArchive /\ output = NoArchive /\ bfaults = 0 /\ left = FALSE

(* redact_text: every pattern replaces what follows its marker.              *)
redact_text(t) ==
    [i \in DOMAIN t |-> IF i > 1 /\ t[i] = "secret" /\ t[i - 1] = "mark" THEN "redacted" ELSE t[i]]
(* redact_json: the value of a sensitive key is dropped whole, every other   *)
(* string is treated as text.  A document maps its keys to their strings.    *)
is_sensitive_key(key) == key = "token"
(* Mutant: strings under other keys are kept as they are.                    *)
RedactsKeysOnly(doc) == [key \in DOMAIN doc |-> IF is_sensitive_key(key) THEN <<"redacted">> ELSE doc[key]]
redact_json(doc) ==
    [key \in DOMAIN doc |-> IF is_sensitive_key(key) THEN <<"redacted">> ELSE redact_text(doc[key])]
(* A document as it is written: keys in their order.                         *)
ValueOf(doc, key) == IF key \in DOMAIN doc THEN doc[key] ELSE <<>>
Flattened(doc) == ValueOf(doc, "plain") \o ValueOf(doc, "token")
(* What the broker's own answers may carry, and what an error message may.   *)
Told == [plain |-> <<"mark", "secret">>, token |-> <<"secret">>]
Message == [plain |-> <<"mark", "secret">>]
Empty == <<>>

LastUnits(t) == SubSeq(t, IF Len(t) > MaxUnits THEN Len(t) - MaxUnits + 1 ELSE 1, Len(t))
read_bounded_text(t) == LastUnits(t)
(* The broker measures its log, seeks, and reads to an end that has moved.   *)
ReadsToEnd(t, grown) == LastUnits(t) \o grown
read_tail(t, grown) == LastUnits(ReadsToEnd(t, grown))

(***************************************************************************)
(* The broker.                                                             *)
(***************************************************************************)
(* It stops; after the last question to it that makes no difference.         *)
BrokerGone ==
    /\ serving /\ bstep \in {"proxy", "health", "cli", "logs", "diagnostics", "config"} /\ serving' = FALSE
    /\ UNCHANGED <<cliLog, brokerLog, identity, bstep, client, seen, work, listed, berrors,
                   temporary, output, bfaults, left>>
(* BrokerLogCollector::collect: a missing optional log is no error.          *)
Collected(grown) ==
    [files |-> [n \in {n \in DOMAIN brokerLog : brokerLog[n] \notin {NoLog, Unreadable}} |->
                    read_tail(brokerLog[n], grown)],
     errors |-> {n \in DOMAIN brokerLog :
                    \/ brokerLog[n] = Unreadable
                    \/ brokerLog[n] = NoLog /\ n = "abyss-broker.log"}]

(***************************************************************************)
(* The command.                                                            *)
(***************************************************************************)
World == <<cliLog, brokerLog, serving, identity>>
(* Files are created anew: the first that exists or cannot be written ends   *)
(* the collection with an error.                                             *)
Clash(new) == DOMAIN new \cap DOMAIN work # {}
write_files(new, next) ==
    \/ /\ ~Clash(new)
       /\ work' = [p \in DOMAIN work \cup DOMAIN new |-> IF p \in DOMAIN new THEN new[p] ELSE work[p]]
       /\ listed' = listed \cup (DOMAIN new \ {"manifest.json"}) /\ bstep' = next /\ UNCHANGED bfaults
    \/ Clash(new) /\ bstep' = "failed" /\ UNCHANGED <<work, listed, bfaults>>
    \/ /\ bfaults < MaxBundleFaults /\ bfaults' = bfaults + 1
       /\ bstep' = "failed" /\ UNCHANGED <<work, listed>>
One(path, content) == [p \in {path} |-> content]

(* A workspace of the same name is removed before the new one is made.       *)
Prepare ==
    /\ bstep = "prepare" /\ bstep' = "proxy" /\ work' = NoWorkspace
    /\ berrors' = IF identity = "missing" THEN {<<"broker-discovery", "startup-info.json">>} ELSE {}
    /\ UNCHANGED <<World, client, seen, listed, temporary, output, bfaults, left>>
ProxyStatus ==
    /\ bstep = "proxy" /\ bstep' = "health"
    /\ \/ serving /\ seen' = seen \cup {"proxy"} /\ UNCHANGED berrors
       \/ /\ identity = "found" /\ berrors' = berrors \cup {<<"diagnostics", "proxy">>} /\ UNCHANGED seen
       \/ identity = "missing" /\ UNCHANGED <<seen, berrors>>
    /\ UNCHANGED <<World, client, work, listed, temporary, output, bfaults, left>>
(* health, then the token file for an authenticated client.                  *)
Health ==
    /\ bstep = "health" /\ bstep' = "cli"
    /\ \/ serving /\ client' = TRUE /\ UNCHANGED berrors
       \/ identity = "found" /\ berrors' = berrors \cup {<<"broker", "none">>} /\ UNCHANGED client
       \/ identity = "missing" /\ UNCHANGED <<client, berrors>>
    /\ UNCHANGED <<World, seen, work, listed, temporary, output, bfaults, left>>
collect_cli_logs ==
    LET readable == {n \in DOMAIN cliLog : cliLog[n] \notin {NoLog, Unreadable}} IN
    /\ bstep = "cli"
    /\ write_files([p \in {CliPath[n] : n \in readable} |->
           redact_text(read_bounded_text(cliLog[CHOOSE n \in readable : CliPath[n] = p]))], "logs")
    /\ berrors' = berrors \cup {<<"cli", n>> : n \in {n \in DOMAIN cliLog : cliLog[n] = Unreadable}}
                     \cup (IF readable = {} THEN {<<"cli", "none">>} ELSE {})
    /\ UNCHANGED <<World, client, seen, temporary, output, left>>
collect_broker_logs ==
    /\ bstep = "logs"
    /\ \/ ~client /\ bstep' = "diagnostics" /\ UNCHANGED <<work, listed, bfaults, berrors>>
       \/ /\ client /\ serving /\ \E grown \in {<<>>, <<"plain">>} : LET got == Collected(grown) IN
             /\ write_files([p \in {BrokerPath[n] : n \in DOMAIN got.files} |->
                   redact_text(got.files[CHOOSE n \in DOMAIN got.files : BrokerPath[n] = p])], "diagnostics")
             /\ berrors' = berrors \cup {<<"broker", n>> : n \in got.errors}
       \/ /\ client /\ bstep' = "diagnostics" /\ berrors' = berrors \cup {<<"broker", "none">>}
          /\ UNCHANGED <<work, listed, bfaults>>
    /\ UNCHANGED <<World, client, seen, temporary, output, left>>
(* A document is written through redact_json.                                *)
write_json_file(path, doc, next) == write_files(One(path, Flattened(redact_json(doc))), next)
collect_diagnostics ==
    /\ bstep = "diagnostics"
    /\ \/ client /\ serving /\ seen' = seen \cup {"diagnostics"} /\ UNCHANGED berrors
       \/ client /\ berrors' = berrors \cup {<<"diagnostics", "state.json">>} /\ UNCHANGED seen
       \/ ~client /\ UNCHANGED <<seen, berrors>>
    /\ write_json_file("diagnostics/state.json", IF seen' = {} THEN Empty ELSE Told, "config")
    /\ UNCHANGED <<World, client, temporary, output, left>>
(* The startup file and then, from the broker, the MITM and hook settings:   *)
(* one that cannot be had is an error of its own.                            *)
collect_runtime_config ==
    /\ bstep = "config"
    /\ \E got \in SUBSET {"persisted", "mitm", "hooks"} : LET asked == IF client THEN {"mitm", "hooks"} ELSE {} IN
         /\ got \cap {"mitm", "hooks"} \subseteq (IF serving THEN asked ELSE {})
         /\ seen' = seen \cup got
         /\ berrors' = berrors \cup {<<"runtime-config", part>> : part \in ({"persisted"} \cup asked) \ got}
         /\ write_json_file("config/runtime-config.redacted.json", IF got = {} THEN Empty ELSE Told, "system")
    /\ UNCHANGED <<World, client, temporary, output, left>>
write_system_info ==
    /\ bstep = "system" /\ write_files(One("system-info.txt", <<"plain">>), "errors")
    /\ UNCHANGED <<World, client, seen, berrors, temporary, output, left>>
(* collection-errors.json and, last, the manifest, which lists every file    *)
(* but itself.                                                               *)
WriteErrors ==
    /\ bstep = "errors"
    /\ write_json_file("collection-errors.json", IF berrors = {} THEN Empty ELSE Message, "manifest")
    /\ UNCHANGED <<World, client, seen, berrors, temporary, output, left>>
WriteManifest ==
    /\ bstep = "manifest" /\ write_files(One("manifest.json", <<"plain">>), "pack")
    /\ UNCHANGED <<World, client, seen, berrors, temporary, output, left>>

(* ZipArchive: local records one behind the other, then the directory with   *)
(* the offset of each.                                                       *)
LocalRecord(path) == <<"local", path>>
(* Mutant: the offset of an entry is taken after its record was appended.    *)
OffsetsAfter(zip, path) ==
    LET bytes == Append(zip.bytes, LocalRecord(path)) \o [i \in DOMAIN work[path] |-> <<"content", work[path][i]>>]
    IN  [bytes |-> bytes, central |-> Append(zip.central, [path |-> path, offset |-> Len(bytes), size |-> Len(work[path])])]
(* One file: its record, and its line in the directory.                      *)
AddEntry(zip, path) ==
    [bytes |-> Append(zip.bytes, LocalRecord(path)) \o [i \in DOMAIN work[path] |-> <<"content", work[path][i]>>],
     central |-> Append(zip.central, [path |-> path, offset |-> Len(zip.bytes), size |-> Len(work[path])])]
(* The files there are, in the order of their paths.                         *)
from_directory[n \in 0..Len(Paths)] ==
    IF n = 0 THEN NoArchive
    ELSE IF Paths[n] \in DOMAIN work THEN AddEntry(from_directory[n - 1], Paths[n]) ELSE from_directory[n - 1]
ZipArchive == from_directory[Len(Paths)]
(* The archive is built, written to a temporary file and synced ...          *)
write_to ==
    /\ bstep = "pack"
    /\ \/ Len(ZipArchive.bytes) <= MaxZip /\ temporary' = ZipArchive /\ bstep' = "replace" /\ UNCHANGED bfaults
       \/ Len(ZipArchive.bytes) > MaxZip /\ bstep' = "failed" /\ UNCHANGED <<temporary, bfaults>>
       \/ bfaults < MaxBundleFaults /\ bfaults' = bfaults + 1 /\ bstep' = "failed" /\ UNCHANGED temporary
    /\ UNCHANGED <<World, client, seen, work, listed, berrors, output, left>>
(* ... then renamed over the output, which is at last protected.  A failure  *)
(* removes the temporary file.                                               *)
Replace ==
    /\ bstep = "replace" /\ temporary' = NoArchive
    /\ \/ output' = temporary /\ bstep' = "packed" /\ UNCHANGED bfaults
       \/ /\ bfaults < MaxBundleFaults /\ bfaults' = bfaults + 1 /\ bstep' = "failed"
          /\ output' \in {output, temporary}
    /\ UNCHANGED <<World, client, seen, work, listed, berrors, left>>
(* The workspace goes on every way out; that it cannot be removed is not     *)
(* reported.                                                                 *)
Cleanup ==
    /\ bstep \in {"packed", "failed"} /\ bstep' = IF bstep = "packed" THEN "done" ELSE "error"
    /\ \/ work' = NoWorkspace /\ UNCHANGED <<bfaults, left>>
       \/ bfaults < MaxBundleFaults /\ bfaults' = bfaults + 1 /\ left' = TRUE /\ UNCHANGED work
    /\ UNCHANGED <<World, client, seen, listed, berrors, temporary, output>>
BundleKilled ==
    /\ bstep \notin {"done", "error", "ended"} /\ bstep' = "ended" /\ left' = TRUE
    /\ UNCHANGED <<World, client, seen, work, listed, berrors, temporary, output, bfaults>>

BundleNext ==
    \/ BrokerGone \/ Prepare \/ ProxyStatus \/ Health \/ collect_cli_logs \/ collect_broker_logs
    \/ collect_diagnostics \/ collect_runtime_config \/ write_system_info \/ WriteErrors \/ WriteManifest
    \/ write_to \/ Replace \/ Cleanup \/ BundleKilled

(***************************************************************************)
(* Properties.                                                             *)
(***************************************************************************)
Members(zip) == {e.path : e \in Range(zip.central)}
(* What is not in a bundle that was reported written has an entry in its     *)
(* collection-errors.json, so that a bundle without errors is whole: every   *)
(* question to the broker was answered, and there is a log of each program.  *)
GapsReported ==
    bstep = "done" =>
      /\ Members(output) = listed \cup {"manifest.json"}
      /\ berrors = {} => seen = {"proxy", "diagnostics", "persisted", "mitm", "hooks"}
      /\ {"cli/cli.log", "cli/cli.1.log"} \cap listed = {} => \E e \in berrors : e[1] = "cli"
      /\ "broker/abyss-broker.log" \notin listed =>
            \E e \in berrors : e[1] \in {"broker", "broker-discovery"}
(* The output is at every moment absent or an archive that reads: each       *)
(* directory entry leads to the record of its file, with its whole content.  *)
ArchiveReads ==
    \A zip \in {output, temporary} : \A e \in Range(zip.central) :
        /\ zip.bytes[e.offset + 1] = LocalRecord(e.path)
        /\ \A i \in 1..e.size : zip.bytes[e.offset + 1 + i][1] = "content"
        /\ e.offset + 1 + e.size < Len(zip.bytes) => zip.bytes[e.offset + 2 + e.size][1] = "local"
(* No announced credential reaches the archive, and no log more than its     *)
(* bound, however the log grew while it was read.                            *)
NothingAnnounced ==
    \A i \in DOMAIN output.bytes : output.bytes[i] = <<"content", "mark">> /\ i < Len(output.bytes) =>
        output.bytes[i + 1] # <<"content", "secret">>
LogsBounded ==
    \A e \in Range(output.central) : e.path \in Range(CliPath) \cup Range(BrokerPath) => e.size <= MaxUnits
(* The command leaves its workspace behind only when it was killed or the    *)
(* removal failed, and never a half-written output.                          *)
NothingLeft == bstep \in {"done", "error"} /\ ~left => work = NoWorkspace /\ temporary = NoArchive
BundleHonest == GapsReported /\ ArchiveReads /\ NothingAnnounced /\ LogsBounded /\ NothingLeft
=============================================================================
