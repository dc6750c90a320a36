------------------------------ MODULE CaStore ------------------------------
(* The root CA of an ABYSS_HOME: its three files (abyss-mitm ca/mod.rs), the *)
(* platform's trust store (ca/platform), the copy a running broker signs     *)
(* with (tls.rs), and the bundle handed to Claude Code (abyss-cli            *)
(* claude_code.rs).  Material is told apart by its generation: a certificate *)
(* and a key of one generation belong together.  A load reads the three      *)
(* files in one step; a write truncates and fills a file in two.             *)
EXTENDS Integers, FiniteSets

CONSTANTS Owners,        \* programs that own the store, one operation at a time
          MaxGen,        \* bound on generations
          MaxBegun,      \* bound on operations
          MaxCFaults     \* bound on crashes, failed commands and removed stores

ASSUME CaStoreAssumption == Owners \subseteq Nat /\ MaxGen \in Nat \ {0} /\ MaxBegun \in Nat /\ MaxCFaults \in Nat

VARIABLES
    caHost,      \* "macos", "linux" or "windows"
    ca,          \* [der, pem, key]: a generation, Missing, or Torn by a crash
    store,       \* certificates in the platform's store
    trusted,     \* certificates clients accept
    signer,      \* the running broker's [up, pem, key]
    cc,          \* Claude Code: NODE_EXTRA_CA_CERTS, the managed bundle, whether the user named one
    own,         \* [Owners -> [op, pc, gen, half, bundle, solo]]
    gens,        \* generations so far
    begun,       \* operations so far
    past,        \* [mixed, orphaned, missed]: what excuses later states
    cFaults
caVars == <<caHost, ca, store, trusted, signer, cc, own, gens, begun, past, cFaults>>

Missing == 0
Torn == -1
UserCert == 0                \* a certificate of the user's own bundle
NoBundle == {-2}
Busy(o) == own[o].pc \notin {"begin", "ok", "failed"}
Generating(o) == own[o].pc \in {"der", "pem", "key"}

(* The store starts empty or without its key; the user may already name a    *)
(* bundle in NODE_EXTRA_CA_CERTS (tried on one platform: nothing in it       *)
(* depends on the platform).                                                 *)
CaInit ==
    /\ caHost \in {"macos", "linux", "windows"}
    /\ ca \in {[der |-> Missing, pem |-> Missing, key |-> Missing], [der |-> 1, pem |-> 1, key |-> Missing]}
    /\ store = {} /\ trusted = {} /\ signer = [up |-> FALSE, pem |-> Missing, key |-> Missing]
    /\ \E named \in {FALSE, caHost = "macos"} : cc = [env |-> IF named THEN "user" ELSE "unset", bundle |-> NoBundle, named |-> named]
    /\ own = [o \in Owners |-> [op |-> "none", pc |-> "begin", gen |-> 0, half |-> FALSE, bundle |-> {}, solo |-> TRUE]]
    /\ gens = 1 /\ begun = 0 /\ cFaults = 0
    /\ past = [mixed |-> FALSE, orphaned |-> FALSE, missed |-> FALSE]

(* A command that returns forgets what it had read. *)
Move(o, pc) == own' = [own EXCEPT ![o] =
    IF pc \in {"ok", "failed"} THEN [@ EXCEPT !.pc = pc, !.gen = 0, !.half = FALSE, !.bundle = {}]
    ELSE [@ EXCEPT !.pc = pc]]
CFault == cFaults < MaxCFaults /\ cFaults' = cFaults + 1

all_missing == ca.der = Missing /\ ca.pem = Missing /\ ca.key = Missing
all_present == ca.der # Missing /\ ca.pem # Missing /\ ca.key # Missing
public_material_only == ca.der # Missing /\ ca.pem # Missing /\ ca.key = Missing

FirstStep == [start |-> "presence", configure |-> "read", uninstall |-> "remove"]
(* A start, an uninstall, or a configuration of Claude Code (the bootstrap   *)
(* that precedes it is a start).                                             *)
BeginOwner(o) ==
    /\ ~Busy(o) /\ begun < MaxBegun /\ begun' = begun + 1
    /\ \E op \in {"start", "configure", "uninstall"} :
        /\ op = "configure" => signer.up /\ all_present
        /\ own' = [p \in Owners |->
            IF p = o THEN [own[o] EXCEPT !.op = op, !.pc = FirstStep[op],
                                         !.solo = \A q \in Owners : ~Busy(q)]
            ELSE IF Busy(p) THEN [own[p] EXCEPT !.solo = FALSE] ELSE own[p]]
    /\ UNCHANGED <<caHost, ca, store, trusted, signer, cc, gens, past, cFaults>>

(***************************************************************************)
(* The files.                                                              *)
(***************************************************************************)
(* Mutant: writes the key before the certificate. *)
KeyBeforeCertificate == <<"key", "der", "pem">>
(* generate_and_store writes its files in this order. *)
WriteOrder == <<"der", "pem", "key">>
WrittenAfter(f) == CASE f = WriteOrder[1] -> WriteOrder[2] [] f = WriteOrder[2] -> WriteOrder[3] [] OTHER -> "trust"

(* load_or_generate_with, up to the first write: existing files are not      *)
(* examined further.                                                         *)
load_or_generate(o) ==
    /\ own[o].pc = "presence"
    /\ \/ all_present /\ Move(o, "trust") /\ UNCHANGED <<gens, past>>
       \/ /\ all_missing \/ public_material_only
          /\ gens < MaxGen /\ gens' = gens + 1
          /\ own' = [own EXCEPT ![o].pc = WriteOrder[1], ![o].gen = gens + 1]
          /\ past' = [past EXCEPT !.mixed = @ \/ \E p \in Owners : Generating(p)]
       \/ /\ ~all_present /\ ~all_missing /\ ~public_material_only         \* InvalidStore
          /\ Move(o, "failed") /\ UNCHANGED <<gens, past>>
    /\ UNCHANGED <<caHost, ca, store, trusted, signer, cc, begun, cFaults>>

(* write_public, write_private: truncate, then fill and sync; an error or a  *)
(* crash ends the command and leaves the file as it is.                      *)
write_file(o, f) ==
    /\ own[o].pc = f
    /\ \/ ~own[o].half /\ ca' = [ca EXCEPT ![f] = Torn] /\ own' = [own EXCEPT ![o].half = TRUE] /\ UNCHANGED cFaults
       \/ /\ own[o].half /\ ca' = [ca EXCEPT ![f] = own[o].gen] /\ UNCHANGED cFaults
          /\ own' = [own EXCEPT ![o].half = FALSE, ![o].pc = WrittenAfter(f)]
       \/ CFault /\ Move(o, "failed") /\ UNCHANGED ca
    /\ UNCHANGED <<caHost, store, trusted, signer, cc, gens, begun, past>>
GenerateAndStore(o) == \E f \in {"der", "pem", "key"} : write_file(o, f)

(* The user clears a store that will not load, or replaces it at will. *)
RemoveStore ==
    /\ CFault /\ \A o \in Owners : ~Busy(o)
    /\ ~all_missing
    /\ ca' = [der |-> Missing, pem |-> Missing, key |-> Missing]
    /\ past' = [past EXCEPT !.orphaned = @ \/ signer.up]
    /\ UNCHANGED <<caHost, store, trusted, signer, cc, own, gens, begun>>

(***************************************************************************)
(* The trust store.                                                        *)
(***************************************************************************)
(* root_certificate_status: the keychain's certificate verified; the file    *)
(* under /usr/local/share, not the bundle made from it; the Windows store.   *)
stored_and_trusted(c) == c \in store /\ c \in trusted
certificate_matches(c) == c \in store
find_by_sha256(c) == c \in store
Installed(c) == CASE caHost = "macos" -> stored_and_trusted(c)
                  [] caHost = "linux" -> certificate_matches(c)
                  [] OTHER -> find_by_sha256(c)

(* install: load_required, then nothing more to do if installed; Linux       *)
(* refuses to replace another certificate.                                   *)
InstallRoot(o) ==
    /\ own[o].pc = "trust"
    /\ IF ~all_present \/ ca.der = Torn \/ (caHost = "linux" /\ store \ {ca.der} # {}) THEN Move(o, "failed")
       ELSE IF Installed(ca.der) THEN Move(o, "broker")
       ELSE own' = [own EXCEPT ![o].gen = ca.der, ![o].pc = "add"]
    /\ UNCHANGED <<caHost, ca, store, trusted, signer, cc, gens, begun, past, cFaults>>

(* The platform adds the certificate, or its command fails: security         *)
(* add-trusted-cert may then have added it without trust; Linux renames a    *)
(* file into place and has still to make its bundle.                         *)
AddTrusted(o) ==
    /\ caHost = "macos" /\ store' = store \cup {own[o].gen} /\ Move(o, "verify")
    /\ \/ trusted' = trusted \cup {own[o].gen} /\ UNCHANGED cFaults
       \/ CFault /\ UNCHANGED trusted
WriteCertificateAtomically(o) ==
    /\ caHost = "linux" /\ store' = store \cup {own[o].gen} /\ Move(o, "update")
    /\ UNCHANGED <<trusted, cFaults>>
AddEncoded(o) ==
    /\ caHost = "windows" /\ store' = store \cup {own[o].gen} /\ Move(o, "verify")
    /\ trusted' = trusted \cup {own[o].gen} /\ UNCHANGED cFaults
AddCertificate(o) ==
    /\ own[o].pc = "add"
    /\ \/ AddTrusted(o) \/ WriteCertificateAtomically(o) \/ AddEncoded(o)
       \/ CFault /\ Move(o, "failed") /\ UNCHANGED <<store, trusted>>
    /\ UNCHANGED <<caHost, ca, signer, cc, gens, begun, past>>
(* update-ca-certificates makes the bundle from the file. *)
UpdateCertificates(o) ==
    /\ own[o].pc = "update"
    /\ \/ trusted' = store /\ UNCHANGED <<past, cFaults>>
          /\ Move(o, IF own[o].op = "uninstall" THEN "ok" ELSE "verify")
       \/ CFault /\ Move(o, "failed") /\ UNCHANGED trusted /\ past' = [past EXCEPT !.missed = TRUE]
    /\ UNCHANGED <<caHost, ca, store, signer, cc, gens, begun>>
(* Mutant: takes the installation as done. *)
TrustsAdded(o) ==
    /\ own[o].pc = "verify" /\ Move(o, "broker")
    /\ UNCHANGED <<caHost, ca, store, trusted, signer, cc, gens, begun, past, cFaults>>
(* install_root_certificate_with_adapter verifies what the platform did. *)
VerifyInstalled(o) ==
    /\ own[o].pc = "verify" /\ Move(o, IF Installed(own[o].gen) THEN "broker" ELSE "failed")
    /\ UNCHANGED <<caHost, ca, store, trusted, signer, cc, gens, begun, past, cFaults>>
(* uninstall: what is not there is not removed, and a failed removal is      *)
(* reported; Linux makes its bundle again if it removed its file.            *)
DeleteTrusted(o) ==
    /\ caHost = "macos" /\ store' = store \ {ca.der} /\ trusted' = trusted \ {ca.der} /\ Move(o, "ok")
RemoveCertificateFile(o) ==
    /\ caHost = "linux" /\ store' = store \ {ca.der} /\ UNCHANGED trusted
    /\ Move(o, IF certificate_matches(ca.der) THEN "update" ELSE "ok")
DeleteContext(o) ==
    /\ caHost = "windows" /\ store' = store \ {ca.der} /\ trusted' = trusted \ {ca.der} /\ Move(o, "ok")
UninstallRoot(o) ==
    /\ own[o].pc = "remove"
    /\ \/ (~all_present \/ ca.der = Torn) /\ Move(o, "failed") /\ UNCHANGED <<store, trusted, cFaults>>
       \/ /\ all_present /\ ca.der # Torn /\ UNCHANGED cFaults
          /\ (DeleteTrusted(o) \/ RemoveCertificateFile(o) \/ DeleteContext(o))
       \/ CFault /\ ca.der \in store /\ Move(o, "failed") /\ UNCHANGED <<store, trusted>>
    /\ UNCHANGED <<caHost, ca, signer, cc, gens, begun, past>>

(***************************************************************************)
(* The broker.                                                             *)
(***************************************************************************)
(* start_broker reuses a running one; a new one loads the files, parses the  *)
(* certificate and the key, and checks nothing else of them.                 *)
StartBroker(o) ==
    /\ own[o].pc = "broker"
    /\ IF caHost = "windows" \/ signer.up THEN Move(o, "ok") /\ UNCHANGED signer
       ELSE IF all_present /\ ca.pem # Torn /\ ca.key # Torn
       THEN signer' = [up |-> TRUE, pem |-> ca.pem, key |-> ca.key] /\ Move(o, "ok")
       ELSE Move(o, "failed") /\ UNCHANGED signer
    /\ UNCHANGED <<caHost, ca, store, trusted, cc, gens, begun, past, cFaults>>
BrokerStops ==
    /\ signer.up /\ CFault /\ signer' = [up |-> FALSE, pem |-> Missing, key |-> Missing]
    /\ UNCHANGED <<caHost, ca, store, trusted, cc, own, gens, begun, past>>

(***************************************************************************)
(* Claude Code.                                                            *)
(***************************************************************************)
Previous == CASE cc.env = "unset" -> {}
              [] cc.env = "user" -> {UserCert}
              [] cc.env = "managed" /\ cc.bundle = NoBundle -> {}
              [] OTHER -> cc.bundle
(* merged_bundle: the named bundle with the root certificate, if missing; a  *)
(* truncated certificate adds nothing.                                       *)
MergeBundle(o) ==
    /\ own[o].pc = "read"
    /\ IF ca.pem = Missing THEN Move(o, "failed")
       ELSE own' = [own EXCEPT ![o].pc = "bundle", ![o].bundle = Previous \cup ({ca.pem} \ {Torn})]
    /\ UNCHANGED <<caHost, ca, store, trusted, signer, cc, gens, begun, past, cFaults>>
(* Mutant: points the clients at the bundle before it is written. *)
SettingsFirst(o) ==
    \/ own[o].pc = "bundle" /\ cc' = [cc EXCEPT !.env = "managed"] /\ Move(o, "settings")
    \/ own[o].pc = "settings" /\ cc' = [cc EXCEPT !.bundle = own[o].bundle] /\ Move(o, "state")
(* The bundle, then the settings that name it, each replaced as a whole. *)
WriteSettings(o) ==
    \/ own[o].pc = "bundle" /\ cc' = [cc EXCEPT !.bundle = own[o].bundle] /\ Move(o, "settings")
    \/ own[o].pc = "settings" /\ cc' = [cc EXCEPT !.env = "managed"] /\ Move(o, "state")
(* The record of what was configured is read by no code. *)
WriteBundleState(o) == own[o].pc = "state" /\ UNCHANGED cc /\ Move(o, "ok")
Configure(o) ==
    /\ \/ (WriteSettings(o) \/ WriteBundleState(o)) /\ UNCHANGED cFaults
       \/ own[o].pc \in {"bundle", "settings", "state"} /\ CFault /\ Move(o, "failed") /\ UNCHANGED cc
    /\ UNCHANGED <<caHost, ca, store, trusted, signer, gens, begun, past>>
(* The user names a bundle of their own again. *)
UserEdits ==
    /\ cc.env = "managed" /\ CFault /\ \A o \in Owners : ~Busy(o)
    /\ cc' = [cc EXCEPT !.env = "user", !.named = TRUE]
    /\ UNCHANGED <<caHost, ca, store, trusted, signer, own, gens, begun, past>>

OwnerStep(o) ==
    \/ BeginOwner(o) \/ load_or_generate(o) \/ GenerateAndStore(o) \/ InstallRoot(o)
    \/ AddCertificate(o) \/ UpdateCertificates(o) \/ VerifyInstalled(o) \/ UninstallRoot(o)
    \/ StartBroker(o) \/ MergeBundle(o) \/ Configure(o)
CaNext == RemoveStore \/ BrokerStops \/ UserEdits \/ \E o \in Owners : OwnerStep(o)

(***************************************************************************)
(* Properties.                                                             *)
(***************************************************************************)
(* The broker signs with a certificate and the key that belongs to it,       *)
(* whatever crashes interrupted a generation (nothing compares the two:      *)
(* only the order of generate_and_store keeps them together), unless two     *)
(* programs generated at the same time.                                      *)
SignerWhole == signer.up /\ ~past.mixed => signer.pem > 0 /\ signer.pem = signer.key

(* The bundle Claude Code's settings name exists, has a root of this store   *)
(* and kept the certificates the user had named before (claude_code.rs),     *)
(* through crashes between its writes and commands that overlap.             *)
BundleKept == cc.env = "managed" =>
    /\ cc.bundle # NoBundle
    /\ cc.named => UserCert \in cc.bundle
    /\ ~past.mixed => \E g \in cc.bundle : g > 0

AuthorityKept == SignerWhole /\ BundleKept

(* A start that reports success leaves the broker's certificate accepted by  *)
(* clients, unless the store was removed under a running broker, programs    *)
(* generated or ran at once, or a Linux bundle update failed after its file  *)
(* was written (the status only reads the file).                             *)
StartTrusted == \A o \in Owners :
    own[o].op = "start" /\ own[o].pc # "ok" /\ own'[o].pc = "ok" /\ own[o].solo /\ caHost # "windows"
    /\ ~past.mixed /\ ~past.orphaned /\ ~(caHost = "linux" /\ past.missed)
    => signer'.pem \in trusted
=============================================================================
