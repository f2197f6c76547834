------------------------------- MODULE Auth -------------------------------
(***************************************************************************)
(* OAuth credentials, the host ID and the model catalog of OpenAI:         *)
(* auth/manager.go, file_store.go, host.go and oauth.go, app/runtime.go,   *)
(* provider/openai and provider/manager.go, with the login, logout and     *)
(* models commands of cmd/claw/commands.go.                                *)
(*                                                                         *)
(* The messaging process has several conversations, which ask for the      *)
(* credential before every call of the model. A command is a process of    *)
(* its own. Inside a process a lock per provider covers load, refresh and  *)
(* save; between processes there is none, which docs/security.md says: the *)
(* history variable overlap records that two processes were between load   *)
(* and save at the same time.                                              *)
(*                                                                         *)
(* A grant is what the token endpoint issued: tokens, expiry and scopes    *)
(* under one registration (client ID, issuer and subject). Its refresh     *)
(* token is named by the grant it came with first; when the endpoint       *)
(* rotates it, the one presented is spent.                                 *)
(***************************************************************************)
EXTENDS Naturals, Sequences, FiniteSets

CONSTANTS
    Callers,       \* conversations of the messaging process
    Commands,      \* slots for command processes
    Registrations, \* client ID, issuer and subject
    MaxGrants,     \* bound: grants ever issued
    MaxCommands,   \* bound: commands ever started
    MaxCrashes     \* bound: processes killed

Actors == Callers \cup Commands

ASSUME AuthAssumption ==
    /\ Callers \cap Commands = {} /\ IsFiniteSet(Actors)
    /\ MaxGrants \in Nat /\ MaxCommands \in Nat /\ MaxCrashes \in Nat

VARIABLES
    stored,    \* the record of openai in auth.json
    grants,    \* the endpoint: grants issued, in order
    spent,     \* the endpoint: refresh tokens that were rotated
    lock,      \* callers that hold the provider's lock
    act,       \* what each conversation or command is doing
    hostFile,  \* ID in host.json, 0 when there is none
    hostLock,  \* host.json.lock exists
    catalog,   \* openai-models.json
    reused,    \* history: a spent refresh token was presented
    lost,      \* history: a rotation never reached auth.json
    overlap,   \* history: see above
    started, crashes, made

server == <<grants, spent>>
files == <<stored, hostFile, hostLock, catalog>>
history == <<reused, lost, overlap>>
bounds == <<started, crashes, made>>
vars == <<files, server, lock, act, history, bounds>>

NoCredential == [type |-> "none", grant |-> 0]
APIKey == [type |-> "api_key", grant |-> 0]
OAuth(n) == [type |-> "oauth", grant |-> n]

\* A catalog and the registration its models were discovered for; the one in
\* the binary, for an API key, is for nobody.
NoCatalog == [label |-> {}, of |-> {}, static |-> FALSE]
Static == [NoCatalog EXCEPT !.static = TRUE]

\* models is openai's part of a command's ModelRegistry.
Idle == [pc |-> "idle", cred |-> NoCredential, prev |-> NoCredential, host |-> 0,
         models |-> NoCatalog]

Init ==
    /\ stored = NoCredential /\ grants = <<>> /\ spent = {}
    /\ lock = {} /\ act = [a \in Actors |-> Idle]
    /\ hostFile = 0 /\ hostLock = FALSE /\ catalog = NoCatalog
    /\ reused = FALSE /\ lost = FALSE /\ overlap = FALSE
    /\ started = 0 /\ crashes = 0 /\ made = 0

Registration(c) == grants[c.grant].registration

\* sameRegistration, of complete records: CheckCredential lets no other in.
SameRegistration(saved, next) ==
    /\ Registration(saved) = Registration(next)
    /\ grants[saved.grant].host = grants[next.grant].host

CanUse(c) == c.type = "oauth" => grants[c.grant].plan

Section == {"refresh", "answered", "save"}
Overlaps(a) ==
    \E b \in Actors \ {a} : ~({a, b} \subseteq Callers) /\ act[b].pc \in Section

Goto(a, pc) == act' = [act EXCEPT ![a].pc = pc]
\* The call or the command returns; a command's process ends.
Ends(a) == act' = [act EXCEPT ![a] = Idle] /\ lock' = lock \ {a}

-----------------------------------------------------------------------------
(* Manager.GetCredential.                                                   *)

\* The caller has its credential, or an error.
Receives(a, c) ==
    IF a \in Callers THEN Ends(a)
    ELSE act' = [act EXCEPT ![a] = [@ EXCEPT !.pc = "discover", !.cred = c]] /\ UNCHANGED lock

Call(a) ==
    /\ a \in Callers /\ act[a].pc = "idle"
    /\ Goto(a, "want")
    /\ UNCHANGED <<files, server, lock, history, bounds>>

\* mutant: no lock around load, refresh and save.
ResolveUnlocked(a) ==
    /\ act[a].pc = "want"
    /\ overlap' = (overlap \/ Overlaps(a))
    /\ \/ /\ stored.type = "oauth" /\ CanUse(stored) /\ grants[stored.grant].due
          /\ act' = [act EXCEPT ![a] = [@ EXCEPT !.pc = "refresh", !.cred = stored]]
          /\ UNCHANGED lock
       \/ /\ stored.type = "oauth" /\ ~grants[stored.grant].due
          /\ Receives(a, stored)
       \/ Ends(a)
    /\ UNCHANGED <<files, server, reused, lost, bounds>>

\* acquire and resolve. A conversation ends here with an API key, stored or from
\* the environment, or with an error. due is set once a refresh is called for
\* and allowed: one that is deferred leaves the credential usable until it has
\* expired.
Resolve(a) ==
    /\ act[a].pc = "want"
    /\ a \in Callers => lock = {}
    /\ overlap' = (overlap \/ Overlaps(a))
    /\ \/ /\ stored.type = "oauth" /\ CanUse(stored) /\ grants[stored.grant].due
          /\ act' = [act EXCEPT ![a] = [@ EXCEPT !.pc = "refresh", !.cred = stored]]
          /\ lock' = IF a \in Callers THEN lock \cup {a} ELSE lock
       \/ /\ stored.type = "oauth" /\ CanUse(stored) /\ ~grants[stored.grant].due
          /\ Receives(a, stored)
       \/ Ends(a)
    /\ UNCHANGED <<files, server, reused, lost, bounds>>

Issue(r, h, p, t) ==
    grants' = Append(grants, [registration |-> r, host |-> h, plan |-> p, refresh |-> t,
                              due |-> FALSE])

\* OAuthClient.Refresh reaches the token endpoint, which refuses a spent token,
\* or issues a grant, with a new refresh token or without. A reply without
\* scopes leaves those there were.
Refresh(a) ==
    /\ act[a].pc = "refresh"
    /\ LET old == grants[act[a].cred.grant]  n == Len(grants) + 1 IN
       \/ /\ reused' = (reused \/ old.refresh \in spent)
          /\ Ends(a) /\ UNCHANGED server
       \/ /\ old.refresh \notin spent /\ n <= MaxGrants
          /\ \E p \in BOOLEAN, rotates \in BOOLEAN :
                /\ Issue(old.registration, old.host, p, IF rotates THEN n ELSE old.refresh)
                /\ spent' = IF rotates THEN spent \cup {old.refresh} ELSE spent
          /\ act' = [act EXCEPT ![a] = [@ EXCEPT !.pc = "answered", !.prev = act[a].cred,
                                                 !.cred = OAuth(n)]]
          /\ UNCHANGED <<lock, reused>>
    /\ UNCHANGED <<files, lost, overlap, bounds>>

Rotated(a) == grants[act[a].cred.grant].refresh # grants[act[a].prev.grant].refresh

\* The rest of GetCredential: the whole grant is saved before a lost permission
\* is reported; or the answer is lost, invalid or of another identity, or Save
\* fails.
Answer(a) ==
    /\ act[a].pc = "answered"
    /\ \/ /\ stored' = act[a].cred
          /\ IF CanUse(act[a].cred) THEN Receives(a, act[a].cred) \/ Ends(a) ELSE Ends(a)
          /\ UNCHANGED lost
       \/ /\ lost' = (lost \/ Rotated(a))
          /\ Ends(a) /\ UNCHANGED stored
    /\ UNCHANGED <<hostFile, hostLock, catalog, server, reused, overlap, bounds>>

-----------------------------------------------------------------------------
(* The host ID.                                                             *)

Unwritten == <<stored, catalog>>

\* A command starts and loads the runtime.
LoadedCatalog(c, f) ==
    IF c.type # "oauth" THEN Static
    ELSE IF CanUse(c) /\ f.label = {Registration(c)} THEN f ELSE NoCatalog

Start(a) ==
    /\ a \in Commands /\ act[a].pc \in {"idle", "shown"} /\ started < MaxCommands
    /\ started' = started + 1
    /\ \E pc \in {"host", "key", "logout", "models"} :
          act' = [act EXCEPT ![a] =
                    [Idle EXCEPT !.pc = pc, !.models = LoadedCatalog(stored, catalog)]]
    /\ UNCHANGED <<files, server, lock, history, crashes, made>>

\* OpenAIHostID: the file, if it is there before the lock is asked for.
ReadHost(a) ==
    /\ act[a].pc = "host"
    /\ act' = [act EXCEPT ![a] = IF hostFile # 0 THEN [@ EXCEPT !.pc = "client", !.host = hostFile]
                                 ELSE [@ EXCEPT !.pc = "mkdir"]]
    /\ UNCHANGED <<files, server, lock, history, bounds>>

\* mutant: a lock that stays too long is taken over.
MakeLockStealing(a) ==
    /\ act[a].pc = "mkdir"
    /\ hostLock' = TRUE /\ Goto(a, "reread") /\ UNCHANGED lock
    /\ UNCHANGED <<stored, hostFile, catalog, server, history, bounds>>

\* mkdir of the lock, retried until ten seconds have passed.
MakeLock(a) ==
    /\ act[a].pc = "mkdir"
    /\ \/ ~hostLock /\ hostLock' = TRUE /\ Goto(a, "reread") /\ UNCHANGED lock
       \/ hostLock /\ Ends(a) /\ UNCHANGED hostLock
    /\ UNCHANGED <<stored, hostFile, catalog, server, history, bounds>>

\* Under the lock the file is looked at once more; a new ID is written only
\* where there is none.
RereadHost(a) ==
    /\ act[a].pc = "reread"
    /\ act' = [act EXCEPT ![a] = IF hostFile # 0 THEN [@ EXCEPT !.pc = "unlock", !.host = hostFile]
                                 ELSE [@ EXCEPT !.pc = "write"]]
    /\ UNCHANGED <<files, server, lock, history, bounds>>

WriteHost(a) ==
    /\ act[a].pc = "write"
    /\ hostFile' = made + 1 /\ made' = made + 1
    /\ act' = [act EXCEPT ![a] = [@ EXCEPT !.pc = "unlock", !.host = made + 1]]
    /\ UNCHANGED <<Unwritten, hostLock, server, lock, history, started, crashes>>

\* The deferred Remove, after an answer or an error.
Unlock(a) ==
    /\ act[a].pc \in {"reread", "write", "unlock"}
    /\ hostLock' = FALSE
    /\ IF act[a].pc = "unlock" THEN Goto(a, "client") /\ UNCHANGED lock ELSE Ends(a)
    /\ UNCHANGED <<Unwritten, hostFile, server, history, bounds>>

-----------------------------------------------------------------------------
(* Login and logout.                                                        *)

\* NewOAuthClient: a registration that returns must be of this installation.
Returns(c, host) == c.type = "oauth" => grants[c.grant].host = host

LoginClient(a) ==
    /\ act[a].pc = "client"
    /\ \/ /\ Returns(stored, act[a].host)
          /\ act' = [act EXCEPT ![a] = [@ EXCEPT !.pc = "browser", !.prev = stored]]
          /\ UNCHANGED lock
       \/ Ends(a)
    /\ UNCHANGED <<files, server, history, bounds>>

\* OAuthClient.Login waits: a callback brings an authorization code, or an error
\* or five minutes end it.
Authorize(a) ==
    /\ act[a].pc = "browser"
    /\ (Goto(a, "exchange") /\ UNCHANGED lock) \/ Ends(a)
    /\ UNCHANGED <<files, server, history, bounds>>

\* The user signed in to some account and granted the plan or did not; a login
\* that returns refuses another identity.
Exchange(a) ==
    /\ act[a].pc = "exchange"
    /\ \/ /\ Len(grants) < MaxGrants
          /\ \E r \in Registrations, p \in BOOLEAN :
                /\ act[a].prev.type = "oauth" => r = Registration(act[a].prev)
                /\ Issue(r, act[a].host, p, Len(grants) + 1)
          /\ act' = [act EXCEPT ![a] = [@ EXCEPT !.pc = "login", !.cred = OAuth(Len(grants) + 1),
                                                 !.prev = NoCredential, !.host = 0]]
          /\ UNCHANGED lock
       \/ Ends(a) /\ UNCHANGED grants
    /\ UNCHANGED <<files, spent, history, bounds>>

\* mutant: only the registration read before the browser opened counts.
LoginChecksTrusting(a) ==
    /\ act[a].pc = "login"
    /\ overlap' = (overlap \/ Overlaps(a))
    /\ Goto(a, "save") /\ UNCHANGED lock
    /\ UNCHANGED <<files, server, reused, lost, bounds>>

\* Manager.Login up to Save: what is stored now must be of the same
\* registration.
LoginChecks(a) ==
    /\ act[a].pc = "login"
    /\ overlap' = (overlap \/ Overlaps(a))
    /\ IF stored.type = "oauth" /\ ~SameRegistration(stored, act[a].cred)
       THEN Ends(a) ELSE Goto(a, "save") /\ UNCHANGED lock
    /\ UNCHANGED <<files, server, reused, lost, bounds>>

LoginSaves(a) ==
    /\ act[a].pc = "save"
    /\ \/ stored' = act[a].cred /\ Goto(a, "clear") /\ UNCHANGED lock
       \/ Ends(a) /\ UNCHANGED stored
    /\ UNCHANGED <<hostFile, hostLock, catalog, server, history, bounds>>

\* Login with an API key, or Logout: one step on the file.
Replace(a) ==
    /\ act[a].pc \in {"key", "logout"}
    /\ overlap' = (overlap \/ Overlaps(a))
    /\ \/ /\ stored' = IF act[a].pc = "key" THEN APIKey ELSE NoCredential
          /\ Goto(a, "clear") /\ UNCHANGED lock
       \/ Ends(a) /\ UNCHANGED stored
    /\ UNCHANGED <<hostFile, hostLock, catalog, server, reused, lost, bounds>>

-----------------------------------------------------------------------------
(* The catalog.                                                             *)

\* ClearOpenAICatalog: the models go and the file goes, or cannot be removed, ...
ClearCatalog(a) ==
    /\ act[a].pc = "clear"
    /\ \/ /\ catalog' = NoCatalog
          /\ act' = [act EXCEPT ![a] = [@ EXCEPT !.pc = "reload", !.models = NoCatalog]]
          /\ UNCHANGED lock
       \/ Ends(a) /\ UNCHANGED catalog
    /\ UNCHANGED <<stored, hostFile, hostLock, server, history, bounds>>

\* ... and what the record now calls for is loaded. A login with plan usage then
\* discovers.
ReloadCatalog(a) ==
    /\ act[a].pc = "reload"
    /\ \/ /\ act[a].cred.type = "oauth" /\ CanUse(act[a].cred)
          /\ act' = [act EXCEPT ![a] = [@ EXCEPT !.pc = "models",
                                                 !.models = LoadedCatalog(stored, catalog)]]
          /\ UNCHANGED lock
       \/ Ends(a)
    /\ UNCHANGED <<files, server, history, bounds>>

\* RefreshOpenAICatalog, as far as GetCredential.
ListModels(a) ==
    /\ act[a].pc = "models"
    /\ IF stored.type = "oauth"
       THEN act' = [act EXCEPT ![a] = [@ EXCEPT !.pc = "want", !.models = NoCatalog]]
       ELSE act' = [act EXCEPT ![a] = [Idle EXCEPT !.pc = "shown", !.models = Static]]
    /\ UNCHANGED <<files, server, lock, history, bounds>>

\* mutant: any authorized record will do after discovery.
RecheckAny(a) ==
    /\ act[a].pc = "discover"
    /\ \/ /\ stored.type = "oauth" /\ CanUse(stored)
          /\ act' = [act EXCEPT ![a] = [@ EXCEPT !.pc = "publish", !.prev = stored]]
          /\ UNCHANGED lock
       \/ Ends(a)
    /\ UNCHANGED <<files, server, history, bounds>>

\* Discovery with the credential, and then the stored record again: an API key,
\* another registration or a lost permission discards what was discovered.
Recheck(a) ==
    /\ act[a].pc = "discover"
    /\ \/ /\ stored.type = "oauth" /\ SameRegistration(stored, act[a].cred) /\ CanUse(stored)
          /\ act' = [act EXCEPT ![a] = [@ EXCEPT !.pc = "publish", !.prev = stored]]
          /\ UNCHANGED lock
       \/ Ends(a)
    /\ UNCHANGED <<files, server, history, bounds>>

\* SaveCatalog and ReplaceProvider.
Publish(a) ==
    /\ act[a].pc = "publish"
    /\ \/ LET c == [NoCatalog EXCEPT !.label = {Registration(act[a].prev)},
                                     !.of = {Registration(act[a].cred)}]
          IN /\ catalog' = c
             /\ act' = [act EXCEPT ![a] = [Idle EXCEPT !.pc = "shown", !.models = c]]
             /\ UNCHANGED lock
       \/ Ends(a) /\ UNCHANGED catalog
    /\ UNCHANGED <<stored, hostFile, hostLock, server, history, bounds>>

-----------------------------------------------------------------------------
\* The stored access token nears its end and may be refreshed.
TimePasses ==
    /\ stored.type = "oauth"
    /\ grants' = [grants EXCEPT ![stored.grant].due = TRUE]
    /\ UNCHANGED <<files, spent, lock, act, history, bounds>>

\* A process is killed: a command, or all conversations at once.
Crash ==
    /\ crashes < MaxCrashes /\ crashes' = crashes + 1
    /\ \E killed \in {Callers} \cup {{a} : a \in Commands} :
          /\ \E a \in killed : act[a].pc # "idle"
          /\ act' = [a \in Actors |-> IF a \in killed THEN Idle ELSE act[a]]
          /\ lock' = lock \ killed
          /\ lost' = (lost \/ \E a \in killed : act[a].pc = "answered" /\ Rotated(a))
    /\ UNCHANGED <<files, server, reused, overlap, started, made>>

Credential(a) == Call(a) \/ Resolve(a) \/ Refresh(a) \/ Answer(a)
Host(a)  == ReadHost(a) \/ MakeLock(a) \/ RereadHost(a) \/ WriteHost(a) \/ Unlock(a)
Login(a) ==
    \/ LoginClient(a) \/ Authorize(a) \/ Exchange(a)
    \/ LoginChecks(a) \/ LoginSaves(a) \/ Replace(a)
Catalog(a) ==
    ClearCatalog(a) \/ ReloadCatalog(a) \/ ListModels(a) \/ Recheck(a) \/ Publish(a)

Next ==
    \/ TimePasses \/ Crash
    \/ \E a \in Actors : Credential(a)
    \/ \E a \in Commands : Start(a) \/ Host(a) \/ Login(a) \/ Catalog(a)

Spec == Init /\ [][Next]_vars

-----------------------------------------------------------------------------
\* A refresh token is presented once: however many conversations ask for the
\* credential at the same moment, and whatever they find stored, none presents
\* a token that the endpoint has already rotated, unless two processes were at
\* it together or an answer never reached the file (Manager.GetCredential).
GrantsSpentOnce == reused => overlap \/ lost

\* An account is never replaced by another: from one registration to the next
\* the record was empty or an API key in between, however long the browser was
\* open (Manager.Login, OAuthClient.Exchange).
AccountChangesByLogout ==
    [][stored.type = "oauth" /\ stored'.type = "oauth" =>
         SameRegistration(stored, stored') \/ overlap']_vars

\* One installation has one ID: every login got the one in host.json and every
\* grant carries it, though several processes found no file, and although one
\* died while it held the lock (HostStore.OpenAIHostID).
HostIDIsOne ==
    /\ \A a \in Actors : act[a].host \in {0, hostFile}
    /\ \A i \in DOMAIN grants : grants[i].host = hostFile

\* A catalog lists the models of the account it is labelled with, in the file and
\* in every command that shows it, although accounts come and go while models are
\* discovered (RefreshOpenAICatalog, LoadCatalog).
AccountsDoNotMix ==
    \A c \in {catalog} \cup {act[a].models : a \in Commands} : c.label = c.of

-----------------------------------------------------------------------------
(* The inductive invariant.                                                 *)

Credentials == [type : {"none", "api_key", "oauth"}, grant : Nat]
Catalogs == [label : SUBSET Registrations, of : SUBSET Registrations, static : BOOLEAN]
Grants == [registration : Registrations, host : Nat, plan : BOOLEAN, refresh : Nat,
           due : BOOLEAN]
Places == {"idle", "want", "refresh", "answered", "discover", "publish", "shown", "host", "mkdir",
           "reread", "write", "unlock", "client", "browser", "exchange", "login", "save", "clear",
           "reload", "key", "logout", "models"}
Acts == [pc : Places, cred : Credentials, prev : Credentials, host : Nat, models : Catalogs]

\* Where a command is under the lock of the host file.
Under == {"reread", "write", "unlock"}

\* A credential is of a grant that was issued.
Issued(c) == c.type = "oauth" => c.grant \in 1..Len(grants)

\* Types.
TypeOK ==
    /\ stored \in Credentials /\ Issued(stored) /\ catalog \in Catalogs
    /\ grants \in Seq(Grants) /\ spent \subseteq 1..Len(grants)
    /\ \A i \in 1..Len(grants) : grants[i].refresh \in 1..i
    /\ lock \subseteq Callers
    /\ act \in [Actors -> Acts]
    /\ \A a \in Actors : Issued(act[a].cred) /\ Issued(act[a].prev)
    /\ hostFile \in Nat /\ made \in Nat /\ hostLock \in BOOLEAN
    /\ reused \in BOOLEAN /\ lost \in BOOLEAN /\ overlap \in BOOLEAN
    /\ started \in Nat /\ crashes \in Nat

\* What a conversation or a command works with, by where it is.
ActorOK ==
    /\ \A a \in Callers : act[a].pc \in {"idle", "want", "refresh", "answered"}
    /\ \A a \in Actors :
          /\ act[a].pc \in {"refresh", "answered", "login", "save", "discover", "publish"} =>
                act[a].cred.type = "oauth"
          /\ act[a].pc \in {"answered", "publish"} =>
                /\ act[a].prev.type = "oauth"
                /\ SameRegistration(act[a].prev, act[a].cred)

\* The provider's lock is held by one conversation, from load to save.
LockOK ==
    /\ \A a \in Callers : a \in lock <=> act[a].pc \in {"refresh", "answered"}
    /\ \A a, b \in lock : a = b

\* Without overlap one actor at a time is between load and save, and what it
\* loaded is what is stored.
SectionOK ==
    ~overlap =>
       /\ \A a, b \in Actors : act[a].pc \in Section /\ act[b].pc \in Section => a = b
       /\ \A a \in Actors :
             /\ act[a].pc = "refresh" => act[a].cred = stored
             /\ act[a].pc = "answered" => act[a].prev = stored
             /\ act[a].pc = "save" /\ stored.type = "oauth" =>
                    SameRegistration(stored, act[a].cred)

\* Nobody knows the tokens of a login before they are saved.
LoginOK ==
    \A a \in Actors : act[a].pc \in {"login", "save"} =>
       LET g == act[a].cred.grant IN
       /\ g \notin spent /\ stored # OAuth(g)
       /\ \A i \in 1..Len(grants) : grants[i].refresh = g <=> i = g
       /\ \A b \in Actors \ {a} : act[b].cred # OAuth(g)

\* The stored refresh token is good, unless the answer that rotated it is on
\* its way to the file.
TokensOK ==
    ~overlap /\ ~lost =>
       /\ ~reused
       /\ stored.type = "oauth" /\ grants[stored.grant].refresh \in spent =>
             \E a \in Actors : act[a].pc = "answered" /\ Rotated(a)
       /\ \A a \in Actors : act[a].pc = "answered" =>
             grants[act[a].cred.grant].refresh \notin spent

\* One actor at a time is under the host file's lock, and writes it only where
\* there is none; whoever logs in has the ID.
HostOK ==
    /\ HostIDIsOne
    /\ \A i \in 1..Len(grants) : grants[i].host # 0
    /\ \A a \in Actors :
          /\ act[a].pc \in Under => hostLock
          /\ act[a].pc = "write" => hostFile = 0
          /\ act[a].pc \in {"unlock", "client", "browser", "exchange"} => act[a].host # 0
    /\ \A a, b \in Actors : act[a].pc \in Under /\ act[b].pc \in Under => a = b

\* Everything above together.
AuthInvariant ==
    TypeOK /\ ActorOK /\ LockOK /\ SectionOK /\ LoginOK /\ TokensOK /\ HostOK /\ AccountsDoNotMix
=============================================================================
