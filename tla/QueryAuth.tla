----------------------------- MODULE QueryAuth -----------------------------
(* Signing in from a terminal: the query tool's profiles and credential      *)
(* vault (abyss-query-cli config.rs, credentials.rs, auth.rs), the endpoint  *)
(* command's credential (abyss-cli auth.rs, abyss-terminal-auth) and the     *)
(* requests that carry a token (abyss-data-client transport.rs).  One         *)
(* profile name; a profile is the pair of its data and sign-in endpoints.    *)
EXTENDS Integers, FiniteSets

CONSTANTS Tools,         \* processes of one user, one operation at a time
          MaxToken,      \* bound on tokens issued
          MaxOps,        \* bound on operations
          MaxRetries,    \* DataClientOptions::retries
          MaxQFaults     \* bound on lost replies, refusals and crashes

ASSUME QueryAuthAssumption ==
    Tools \subseteq Nat \ {0} /\ {MaxToken, MaxOps, MaxRetries, MaxQFaults} \subseteq Nat

VARIABLES
    profile,     \* the profile's [data, auth], or NoProfile
    profLock,    \* holder of profiles.lock, or Nobody
    vault,       \* stored credentials: [bind, tok]
    cliCred,     \* the endpoint command's credential: [tok, auth], or NoToken
    issued,      \* [1..MaxToken -> [st, pair]]: what sign-in services issued
    tool,        \* [Tools -> [op, pc, pair, tok, tries]]
    sent,        \* requests that carried a token: [tok, kind, to]
    ops,
    late,        \* a login finished after its profile was removed
    qFaults
queryVars == <<profile, profLock, vault, cliCred, issued, tool, sent, ops, late, qFaults>>

Nobody == 0
Pairs == {[data |-> 1, auth |-> 1], [data |-> 2, auth |-> 1], [data |-> 1, auth |-> 2]}
NoProfile == [data |-> 0, auth |-> 0]
NoToken == [tok |-> 0, auth |-> 0]
Tokens == 1..MaxToken
AtRest == [op |-> "none", pc |-> "begin", pair |-> NoProfile, tok |-> 0, tries |-> 0]
Engaged(c) == tool[c].pc \notin {"begin", "ok", "failed"}

QueryInit ==
    /\ profile \in {NoProfile, [data |-> 1, auth |-> 1]}
    /\ profLock = Nobody /\ vault = {} /\ cliCred = NoToken
    /\ issued = [t \in Tokens |-> [st |-> "none", pair |-> NoProfile]]
    /\ tool = [c \in Tools |-> AtRest]
    /\ sent = {} /\ ops = 0 /\ late = FALSE /\ qFaults = 0

At(c, pc) == tool' = [tool EXCEPT ![c] = IF pc \in {"ok", "failed"} THEN [AtRest EXCEPT !.op = tool[c].op, !.pc = pc]
                                        ELSE [@ EXCEPT !.pc = pc]]
QFault == qFaults < MaxQFaults /\ qFaults' = qFaults + 1

(* Mutant: binds a credential to the profile name only. *)
BindsNameOnly(p) == [data |-> 0, auth |-> 0]
(* A credential is stored under a digest of the profile's name and both      *)
(* endpoints.                                                                *)
binding(p) == [data |-> p.data, auth |-> p.auth]

FirstPc == [login |-> "start", logout |-> "read", forget |-> "erase", query |-> "resolve",
            add |-> "lock", remove |-> "lock", signin |-> "start", signout |-> "read"]
(* The selected profile is read once, without the lock; the endpoint command *)
(* signs in at its configured control plane and out at the stored one.       *)
BeginTool(c) ==
    /\ ~Engaged(c) /\ ops < MaxOps /\ ops' = ops + 1
    /\ \E op \in DOMAIN FirstPc : \E pair \in
            CASE op \in {"add", "signin"} -> Pairs
              [] op = "signout" -> {[data |-> 0, auth |-> cliCred.auth]}
              [] OTHER -> {profile} :
        /\ op \in {"login", "logout", "forget", "query"} => profile # NoProfile
        /\ tool' = [tool EXCEPT ![c] = [AtRest EXCEPT !.op = op, !.pc = FirstPc[op], !.pair = pair]]
    /\ UNCHANGED <<profile, profLock, vault, cliCred, issued, sent, late, qFaults>>

(***************************************************************************)
(* Signing in.  Nothing sent by POST is repeated.                           *)
(***************************************************************************)
(* The attempt is opened, and polled until it is completed in the browser; a *)
(* failed request or the deadline ends it (the query tool also stops at the  *)
(* attempt's own expiry).                                                    *)
StartAttempt(c) ==
    /\ tool[c].pc = "start"
    /\ \/ At(c, "poll") /\ UNCHANGED qFaults
       \/ QFault /\ At(c, "failed")
    /\ UNCHANGED <<profile, profLock, vault, cliCred, issued, sent, ops, late>>
poll_until_authenticated(c) ==
    /\ tool[c].pc = "poll"
    /\ \/ At(c, "exchange") /\ UNCHANGED qFaults
       \/ QFault /\ At(c, "failed")
    /\ UNCHANGED <<profile, profLock, vault, cliCred, issued, sent, ops, late>>
Fresh == {t \in Tokens : issued[t].st = "none" /\ \A u \in Tokens : u < t => issued[u].st # "none"}
(* The exchange issues a token; its reply may be lost.                       *)
Exchange(c) ==
    /\ tool[c].pc = "exchange"
    /\ \E t \in Fresh :
        \/ /\ issued' = [issued EXCEPT ![t] = [st |-> "live", pair |-> tool[c].pair]]
           /\ tool' = [tool EXCEPT ![c].pc = "store", ![c].tok = t] /\ UNCHANGED qFaults
        \/ /\ QFault /\ At(c, "failed")
           /\ issued' = [issued EXCEPT ![t] = [st |-> "live", pair |-> tool[c].pair]]
    /\ UNCHANGED <<profile, profLock, vault, cliCred, sent, ops, late>>
(* CredentialVault::write: whole or not at all, and not if the credential    *)
(* has expired already.                                                      *)
WriteVault(c) ==
    /\ tool[c].op = "login" /\ UNCHANGED <<cliCred, qFaults>>
    /\ IF issued[tool[c].tok].st = "expired" THEN At(c, "failed") /\ UNCHANGED <<vault, late>>
       ELSE /\ vault' = {v \in vault : v.bind # binding(tool[c].pair)}
                        \cup {[bind |-> binding(tool[c].pair), tok |-> tool[c].tok]}
            /\ late' = (late \/ profile # tool[c].pair \/ \E d \in Tools : tool[d].pc = "write")
            /\ At(c, "ok")
(* FileCredentialStore::write replaces the endpoint command's file. *)
WriteCredentialFile(c) ==
    /\ tool[c].op = "signin" /\ UNCHANGED <<vault, late, qFaults>> /\ At(c, "ok")
    /\ cliCred' = [tok |-> tool[c].tok, auth |-> tool[c].pair.auth]
Store(c) ==
    /\ tool[c].pc = "store"
    /\ \/ WriteVault(c) \/ WriteCredentialFile(c)
       \/ QFault /\ At(c, "failed") /\ UNCHANGED <<vault, cliCred, late>>
    /\ UNCHANGED <<profile, profLock, issued, sent, ops>>

(***************************************************************************)
(* Signing out.                                                            *)
(***************************************************************************)
Held(c) == {v \in vault : v.bind = binding(tool[c].pair)}
ReadVault(c) ==
    /\ tool[c].op = "logout"
    /\ IF Held(c) = {} THEN At(c, "failed")
       ELSE \E v \in Held(c) : tool' = [tool EXCEPT ![c].pc = "revoke", ![c].tok = v.tok]
ReadCredentialFile(c) ==
    /\ tool[c].op = "signout"
    /\ IF cliCred = NoToken THEN At(c, "failed")
       ELSE tool' = [tool EXCEPT ![c].pc = "erase", ![c].tok = cliCred.tok, ![c].pair.auth = cliCred.auth]
ReadStoredCredential(c) ==
    /\ tool[c].pc = "read" /\ (ReadVault(c) \/ ReadCredentialFile(c))
    /\ UNCHANGED <<profile, profLock, vault, cliCred, issued, sent, ops, late, qFaults>>
Revoked(c) == issued' = [issued EXCEPT ![tool[c].tok].st = "revoked"]
(* Mutant: erases the credential before it is revoked. *)
ErasesFirst(c) ==
    /\ tool[c].pc = "revoke" /\ tool[c].op = "logout"
    /\ vault' = vault \ Held(c) /\ sent' = sent \cup {[tok |-> tool[c].tok, kind |-> "auth", to |-> tool[c].pair.auth]}
    /\ \/ Revoked(c) /\ UNCHANGED qFaults
       \/ QFault /\ UNCHANGED issued
    /\ At(c, "ok")
    /\ UNCHANGED <<profile, profLock, cliCred, ops, late>>
(* The sign-in service revokes the token.  A lost reply or a refusal fails   *)
(* the query tool's logout and is only a warning to the endpoint command.    *)
RevokeFirst(c) ==
    /\ tool[c].op = "logout"
    /\ \/ Revoked(c) /\ At(c, "erase") /\ UNCHANGED qFaults
       \/ QFault /\ (Revoked(c) \/ UNCHANGED issued) /\ At(c, "failed")
native_logout(c) ==
    /\ tool[c].op = "signout" /\ At(c, "ok")
    /\ \/ Revoked(c) /\ UNCHANGED qFaults
       \/ QFault /\ (Revoked(c) \/ UNCHANGED issued)
RevokeToken(c) ==
    /\ tool[c].pc = "revoke" /\ (RevokeFirst(c) \/ native_logout(c))
    /\ sent' = sent \cup {[tok |-> tool[c].tok, kind |-> "auth", to |-> tool[c].pair.auth]}
    /\ UNCHANGED <<profile, profLock, vault, cliCred, ops, late>>
(* The local credential goes after the revocation (query), or before it.     *)
EraseCredential(c) ==
    /\ tool[c].pc = "erase"
    /\ \/ /\ tool[c].op \in {"logout", "forget"} /\ vault' = vault \ Held(c) /\ At(c, "ok")
          /\ UNCHANGED cliCred
       \/ tool[c].op = "signout" /\ cliCred' = NoToken /\ At(c, "revoke") /\ UNCHANGED vault
    /\ UNCHANGED <<profile, profLock, issued, sent, ops, late, qFaults>>

(***************************************************************************)
(* Profiles, under profiles.lock.                                          *)
(***************************************************************************)
LockProfiles(c) ==
    /\ tool[c].pc = "lock" /\ profLock = Nobody /\ profLock' = c
    /\ tool' = [tool EXCEPT ![c].pc = "edit", ![c].pair = IF tool[c].op = "remove" THEN profile ELSE @]
    /\ UNCHANGED <<profile, vault, cliCred, issued, sent, ops, late, qFaults>>
Unlock(c) == profLock' = IF profLock = c THEN Nobody ELSE profLock
(* Mutant: writes the profiles before the credential is gone. *)
WritesProfilesFirst(c) ==
    /\ tool[c].pc = "edit" /\ tool[c].op = "remove" /\ profile # NoProfile
    /\ profile' = NoProfile /\ Unlock(c) /\ (At(c, "erase") \/ At(c, "failed"))
    /\ UNCHANGED <<vault, cliCred, issued, sent, ops, late, qFaults>>
(* An existing profile is not replaced; removing one removes its credential  *)
(* first, and the file is then written as a whole.                           *)
EditProfiles(c) ==
    /\ tool[c].pc = "edit" /\ UNCHANGED <<late>>
    /\ \/ /\ tool[c].op = "add" /\ profile = NoProfile /\ profile' = tool[c].pair
          /\ Unlock(c) /\ At(c, "ok") /\ UNCHANGED <<vault, qFaults>>
       \/ /\ (tool[c].op = "add") = (profile # NoProfile)
          /\ Unlock(c) /\ At(c, "failed") /\ UNCHANGED <<profile, vault, qFaults>>
       \/ /\ tool[c].op = "remove" /\ profile # NoProfile
          /\ vault' = vault \ Held(c) /\ At(c, "write") /\ UNCHANGED <<profile, profLock, qFaults>>
    /\ UNCHANGED <<cliCred, issued, sent, ops>>
WriteProfiles(c) ==
    /\ tool[c].pc = "write"
    /\ profile' = NoProfile /\ Unlock(c) /\ At(c, "ok")
    /\ UNCHANGED <<vault, cliCred, issued, sent, ops, late, qFaults>>

(***************************************************************************)
(* A query.                                                                *)
(***************************************************************************)
Resolve(c) ==
    /\ tool[c].pc = "resolve"
    /\ IF Held(c) = {} THEN At(c, "failed")
       ELSE \E v \in Held(c) :
            IF issued[v.tok].st = "expired" THEN At(c, "failed")
            ELSE tool' = [tool EXCEPT ![c].pc = "get", ![c].tok = v.tok]
    /\ UNCHANGED <<profile, profLock, vault, cliCred, issued, sent, ops, late, qFaults>>
(* A GET is repeated a bounded number of times. *)
Get(c) ==
    /\ tool[c].pc = "get"
    /\ sent' = sent \cup {[tok |-> tool[c].tok, kind |-> "data", to |-> tool[c].pair.data]}
    /\ \/ At(c, "ok") /\ UNCHANGED qFaults
       \/ tool[c].tries < MaxRetries /\ QFault /\ tool' = [tool EXCEPT ![c].tries = @ + 1]
       \/ tool[c].tries = MaxRetries /\ QFault /\ At(c, "failed")
    /\ UNCHANGED <<profile, profLock, vault, cliCred, issued, ops, late>>

(* Tokens expire; a process dies with its lock. *)
Expire == \E t \in Tokens :
    /\ issued[t].st = "live" /\ issued' = [issued EXCEPT ![t].st = "expired"] /\ QFault
    /\ UNCHANGED <<profile, profLock, vault, cliCred, tool, sent, ops, late>>
ToolDies(c) ==
    /\ Engaged(c) /\ QFault /\ At(c, "failed") /\ Unlock(c)
    /\ UNCHANGED <<profile, vault, cliCred, issued, sent, ops, late>>

ToolStep(c) ==
    \/ BeginTool(c) \/ StartAttempt(c) \/ poll_until_authenticated(c) \/ Exchange(c) \/ Store(c) \/ ReadStoredCredential(c)
    \/ RevokeToken(c) \/ EraseCredential(c) \/ LockProfiles(c) \/ EditProfiles(c)
    \/ WriteProfiles(c) \/ Resolve(c) \/ Get(c) \/ ToolDies(c)
QueryNext == Expire \/ \E c \in Tools : ToolStep(c)

(***************************************************************************)
(* Properties.                                                             *)
(***************************************************************************)
(* A token goes to the endpoints of the profile it was obtained for and to   *)
(* the service that issued it, whatever happens to the profile of that name  *)
(* while commands that read it run.                                          *)
TokensBound == \A s \in sent :
    LET p == issued[s.tok].pair IN s.to = IF s.kind = "data" THEN p.data ELSE p.auth

(* A credential outlives its profile only if its login was still under way   *)
(* when the profile was removed: removal erases it first, so a crash leaves  *)
(* a profile without a credential and not the reverse.                       *)
VaultHasProfile == ~late => \A v \in vault : v.bind = binding(profile)

CredentialsBound == TokensBound /\ VaultHasProfile

(* The query tool forgets a credential on logout only when the service has   *)
(* revoked the token it had read; another login may have replaced it.        *)
LogoutStep == \A c \in Tools :
    tool[c].op = "logout" /\ Engaged(c) /\ tool'[c].pc = "ok" => issued'[tool[c].tok].st = "revoked"
=============================================================================
