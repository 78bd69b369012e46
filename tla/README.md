# PABEL: TLA+ models, checks and proofs

PABEL puts an MCP server between AI agents and documents encrypted with
attribute-based encryption (ABE). A section of a document is returned only if
the attributes of two principals together satisfy its policy: the human, known
by a Keycloak token, and the agent installation, known by a client-credentials
token of its own. A connector on the user's machine intercepts the agent's tool
calls and relays reads of `.abe` files to the server.

This directory holds models of that program, the TLC runs that check them on
small instances, and theorems that TLAPS checks for every instance. Paths such
as `server/core.py` are relative to `src/`; `connector/` abbreviates
`src/connector/src/pabel_connector/`.

## 1. Inventory

### Components, their state and what makes them correct

| Component | Code | State it keeps | Operations | What makes it correct |
|---|---|---|---|---|
| MCP server | `server/mcp_server.py`, `core.py`, `token_verifier.py`, `auth.py` | the locals of the call it serves | `whoami`, `read_document`, `report_denial` | nothing comes back that the two principals of *this* call are not entitled to; every answer is preceded by one audit record at both stores |
| Tables | `server/db.py`, `schema.sql` | `agents`, `agent_installations`, `agent_keys`, `audit_log` | one autocommit statement per function | a cached key is the one its hash stands for |
| Registry administration | `server/agents_admin.py` | the first two tables, Keycloak clients | add, enable/disable, create and revoke installations | a revocation takes effect on the next request; the two stores agree, or the administrator was told |
| Documents | `server/document.py`, `abe.py` | none (temp files) | `load_abe`, `decrypt_with`, `oabe_*` | every section gets its own text or a denial |
| Human session | `core.Session`, `login.py`; `connector/pabel_client/session.py` | a session file, an mtime cache, refresh tokens | login, refresh, logout | a call acts for whoever was logged in during it; the last login or logout stands |
| Browser login | `server/oauth_browser.py`, `connector/pabel_client/oauth_browser.py` | one callback port, a state and a verifier per attempt | open, listen, check, exchange | every wait ends; no login spends another's code |
| Agent credentials | `connector/pabel_client/agent_session.py` | one JSON file for all agents of the machine | `store_credentials`, `access_token` | no agent gets another's token; replaced credentials are gone |
| Agent adapters | `connector/adapters/*` | none | `parse`, `render` | the same call fares the same through every agent; each agent obeys the decision and is shown what was relayed |
| Hook policy | `connector/hook.py`, `connector/core/decide.py`, `detection.py` | none | `decide` | one decision per call; every local denial is reported and logged; relayed reads are audited by the server |
| Relay | `connector/pabel_client/relay.py`, `mcp_local_server.py` | none | read, login once on `AuthError`, retry once | at most one login and two reads per call; reporting never changes the decision |
| Materialized copies | `connector/pabel_client/materialize.py` | a directory per agent product | create, purge at session end | a copy outlives its session only if the purge could not know of it |
| Deployment | `server/admin.py` | realm, database, ABE authority | bootstrap, onboard, grant, teardown | what was handed out is served while its product is enabled; a document is read group by group, each section its own text |
| Installers | `connector/installers/*`, `cli/main.py` | each agent's configuration files, the credentials file | install, uninstall, doctor | a stored credential without enforcement is loud; merges keep what belongs to others |
| Client-side audit log | `connector/pabel_client/audit_log.py` | an encrypted, append-only file and its key | append, read | every local denial has an entry |

### How they interact

The hook is a fresh subprocess per tool call; hooks of several agents, the local
MCP server and the CLI share the files under `~/.pabel`. The hook and the local
MCP server call the server over streamable-http. Server processes (one
streamable-http server, plus a stdio process per session) share only Postgres
and the audit file. `agents_admin.py` writes the registry tables while servers
read them. Keycloak and OpenABE are external.

### What is hard

* **Two reads of the registry.** `resolve_agent` reads the installation and then
  the product on separate connections; an administrator's statement can fall
  between them (`core.py:244-247`).
* **A shared cache filled by several processes**, `core.py:274-278`: look up,
  generate and store are three steps, and attributes change between calls.
* **Accountability on every exit.** A record at two stores, each of which may
  fail, before the caller gets its result or exception (`core.py:62-119`).
* **Read-modify-write of shared files** by concurrent hook processes, with a
  network wait in the middle (`agent_session.py:64-85`, `session.py:44-60`).
* **Multi-step administration** across Keycloak and Postgres with no
  transaction (`agents_admin.py:169-205`, `admin.py`), and Keycloak's state in a
  container that may go at any time.
* **One callback port** for every login of the machine, with redirects that come
  late, twice, or for another login (`oauth_browser.py`).
* **A purge racing the writers** of what it purges (`materialize.py:54-72`).
* **Configuration shared with others**: several Pythons, several agents and other
  tools write the same files (`installers/`), and a credential stored for an agent
  that is not wired is a hole nobody sees (`cli/main.py`).
* **Six wire formats for one policy** (`adapters/`): a call must not fare better
  because its agent words it differently.
* **Timeouts that overlap**: the 3 s of `report_denial`, 10 s per Keycloak
  request, 180 s of login, 200 s of the hook.

`PROJECT.json` lists every hazard at its line.

## 2. Structure

| Module | Subject | Uses |
|---|---|---|
| `AbeAttributes` | attribute strings, policies, what a key opens | |
| `PabelServer` | the tool call, step by step, over the shared tables | `AbeAttributes` |
| `AccessContract` | what one call promises, without steps, cache or audit | `AbeAttributes` |
| `AccessWindows` | `PabelServer` with the history of the registry; the refinement | `PabelServer`, instance of `AccessContract` |
| `AbeDocument` | documents: groups, payloads, sections | |
| `Deployment` | bootstrap to teardown, onboarding, revocation, and a server reading | `AbeDocument` |
| `ServerSession` | the stdio servers' session: file, mtime cache, login, logout | |
| `AgentCredentials` | the credentials file under concurrent processes | |
| `ConnectorSession` | the connector's session file under refresh, login, logout | |
| `HookDecide` | `decide`, the relay and the two audit trails | |
| `HookWire` | an agent's call through its adapter, the detection, the hook and back | `HookDecide` |
| `LocalTools` | the connector's MCP tools, browser logins, materialized copies | |
| `Installers` | install, uninstall, doctor, the client half of teardown | |
| `*Proofs` | the theorems about the module they are named after (`HookDecideProofs`: and about `HookWire`; `PabelServerProofs`: and about `AccessWindows`) | that module, TLAPS |
| `MC*` | the small instances | the module they are named after |

The modules meet where the code does. `HookWire` composes the adapters, the
detection and `HookDecide`; `AccessWindows` composes the server, its administrator
and the contract; `Deployment` composes the administrator's commands with a
server reading documents. The insides of the two `access_token` functions are
`AgentCredentials` and `ConnectorSession`, of which `HookDecide` and `LocalTools`
see only the outcome.

## 3. Modules

**`AbeAttributes`.** An attribute string `a|b|c` is the sequence of its tokens, a
policy the set of tokens it asks for, a document the sequence of its sections'
policies. `Entitled(doc, string)` are the sections a key for that string opens:
OpenABE's conjunctive policies, taken as external.

**`PabelServer`.** One value of `pc` per place where a server process may be
interrupted: before each table statement, each `oabe_*` child and each audit
store.

| Action | Code |
|---|---|
| `Begin`, `Reject` | a call reaches a tool; the bearer middleware turns it away (streamable-http) |
| `Identify`, `Unidentified` | `current_identity`; `report_denial` goes on without a human |
| `VerifyAgentToken`, `ReadInstallation`, `ReadAgent` | `resolve_agent`, in the order of its look-ups |
| `LookupKey`, `Keygen`, `StoreKey` | `agent_session_key` and the cache |
| `Decrypt` | `decrypt_document` |
| `Fail` | any other exception of the tool body |
| `AuditFile`, `AuditTable` | `audit`, called by `audit_op` on every exit |
| `Crash` | the process is killed |
| `AddAgent`, `SetAgentEnabled`, `AddInstallation`, `SetInstallationRevoked` | the statements of `agents_admin.py` |

What a step reads and what it later uses are kept apart: the row read, the key
generated and the key stored live in `ctx`, the tables in `agents`,
`installations` and `agentKeys`. A human token may say anything in `Claims` on
each call, since an administrator may edit the user in Keycloak between calls.
SHA-256 is taken to be injective. The tools are synchronous functions run on the
server's event loop, so a process serves one call at a time.

**`AccessContract`** is the abstract specification: a request opens, the registry
changes or not, a reply comes. `Allowed` says what a reply may be, given only
what the registry said during the call. It has no steps, cache or audit.

**`AccessWindows`** adds to `PabelServer` the history variable `seen` (the registry
entries during the call), with the same fairness, and states the refinement
`KeepsContract`. The reply is
visible from outside only once both audit stores were tried.

**`AgentCredentials`** is `agent_session.py`: one JSON file for every agent on
the machine, read and written whole by unsynchronised processes.

| Action | Code |
|---|---|
| `Start` | a hook, the local MCP server or `install` begins one call |
| `ReadBroken`, `ReadToStore`, `ReadForToken` | `_read_all` and what `store_credentials` or `access_token` do with it |
| `Request` | the client-credentials grant |
| `Open`, `Write` | `write_text`: truncation, then the text, possibly over another's |
| `Kill` | the process is killed; its copy is gone, the file stays as it is |

A token is identified with the credential it was issued for, so that a stale one
can be told apart. `installed` and `overlapped` are history variables.

**`HookDecide`** is one process per intercepted call: `decide.py` with the relay.
What `detection.py` finds in a call is an attribute of the call; the adapters
never classify one call as both a write and an execute.

| Action | Code |
|---|---|
| `Start`, with `Verdict` | `main` and the ordered checks of `decide`, up to its first wait |
| `AgentToken`, `HumanToken` | `agent_session.access_token`, `session.access_token` |
| `CallServer` | `_call_tool`: answered, refused, or the answer is lost |
| `AuthFails`, `RelayFails` | which `except` clause takes a failure, by what the hook was doing |
| `Login`, `Callback` | `login_with_browser`: the browser, the one callback port, the wait |
| `LogLocally` | `append_entry`, before the decision is returned |
| `Escape`, `Kill` | an exception `decide` does not catch; the agent's timeout |
| `Outside` | tokens age, people log in and out, a credential is installed |

Hooks share the session, the credential and the port. Only the outcome of the
two `access_token` functions appears here; `AgentCredentials` and
`ConnectorSession` have their insides. An unset `PABEL_SERVER_URL` is found after the agent's token was
fetched, as in the code.

**`ServerSession`** is `core.Session` under stdio: one session file, written and
removed by `login.py`, read by each server process and cached there with the
file's modification time.

| Action | Code |
|---|---|
| `LoginOpens`, `LoginWrites`, `LoginKilled` | `core.login_with_browser`, `_persist_session`: truncation, then the text |
| `Logout` | `core.logout` |
| `Begin`, `Stat`, `Read` | `access_token`'s `exists()`; `_read_session_file`'s `stat()` and read |
| `Token`, `Refresh` | the expiry check; the refresh, kept in memory only |
| `Verify` | `current_identity`, `KeycloakAuth.verify` |
| `Restart` | the client ends its server; the next has an empty `Session` |

A session is the number of the login it stems from. Modification times are
counted in half logins: a login waits for a browser and so outlasts a tick of the
clock, but its truncation and its write may share one. Logins do not overlap
(they share a callback port). `seen`, a history variable, is what the file was
during each call.

**`ConnectorSession`** is `session.py`: the connector's session file, which every
hook, local MCP server and CLI process both reads and writes, without a lock.

| Action | Code |
|---|---|
| `Start` | a hook, the login tool, `pabel-connector login` or `logout` begins a call |
| `Exists`, `Read`, `Refresh`, `Reread` | `access_token` |
| `NotLoggedIn`, `Broken` | an `AuthError`, on which the login tool goes on to log in; any other exception |
| `Browser`, `Open`, `Write` | `login` and `_persist` |
| `Unlink` | `logout` |
| `Kill` | the process is killed; the file stays as it is |

**`HookWire`** puts `HookDecide` between an agent and its adapter. The input of a
call is the sequence of its strings in the order `detection.py` walks them, each
reduced to what the patterns find in it; an agent's tool names are reduced to the
act (read, write, run, MCP call).

| Definition | Code |
|---|---|
| `ParseClaude`, ... `ParseOpencode` | `parse` of each adapter: which tools execute or mutate, whose MCP tool is called, what is visible of the input |
| `Detect`, `Relayable` | `detection.py`; the first existing file of a call |
| `RenderClaude`, ... `RenderOpencode` | `render`: allow, block, and the channels a relayed result is shown in |
| `Receive` | an agent starts its hook on a call it has a hook point for |
| `Work` | a step of `HookDecide`; an injection that got a token changes the input |
| `Deliver` | the agent reads the response - or finds none, on which only opencode's bridge is known to block |

**`AbeDocument`** says what `load_abe` and `decrypt_document` make of a document:
groups share a payload, texts and sections are zipped. A group is named by a Python
index, which may count from the end (`GroupOf`). A group opens if its key fits and its
own `oabe_dec` did not fail: `decrypt_bytes` returns the same None for both
(`Opens`). A text is the number of the section it was written for. `AsWritten` is
the reference: every section its own text unless the reader is barred.

**`Deployment`** is the administrator at work, one command at a time, one step per
store touched. Any step may fail, with or without its effect (`Raise`, `GoOr`).

| Action | Code |
|---|---|
| `Command`, `Fail` | a command starts; its next step raises |
| `RealmFile`, `ComposeUp`, `Wait`, `Profile`, `InitSchema`, `SetupAuthority` | `cmd_bootstrap` |
| `Product`, `Role`, `Check`, `CreateClient`, `Secret`, `InsertRow`, `HandOut` | `cmd_onboard`, `do_add`, `do_create_installation`; a product that is added again keeps its flag, so an installation may be handed out for a disabled one |
| `SetProduct` | `do_set_enabled`: `disable` and `enable` of the product |
| `SetRow`, `SetClient` | `do_set_installation_revoked`: Postgres, then Keycloak as best effort |
| `Down`, `RemoveFiles`, `Done` | `cmd_teardown` |
| `Recreate` | the containers go, and perhaps come back, outside the scripts |
| `Open`, `Keygen`, `StoreKey`, `Decrypt` | a server's `read_document`, against the authority that then exists; each group's `oabe_dec` may fail on its own, which reads as a denial |
| `ReadFails` | a read that raises instead |

`owed` (installations handed out and not ended since), `told` (those about which
the administrator saw an error or a warning), `lost` (what went with a container,
and the role that `add` leaves to be created), `halted` (the product was disabled
and not enabled since) and `replaced` are history variables, and so is the `failed`
of a read.

**`LocalTools`** is `mcp_local_server.py`, one process per session, with the
browser login and the copies.

| Action | Code |
|---|---|
| `Begin`, `Token`, `Relay` | a tool is called; `access_token`; the relayed read, as one step |
| `OpenBrowser`, `Bind`, `Redirected`, `GiveUp`, `Check`, `Exchange` | `oauth_browser.login_with_browser`: the browser is opened before anyone listens, one connection is served, state and code are checked, and the code is redeemed |
| `Mkdir`, `Create`, `Write` | `materialize.create_async` |
| `EndSession`, `PurgeOne`, `PurgeEnds` | the SessionEnd hook and `purge_all` |
| `Expire`, `StopServer` | tokens age; the agent ends a session's server |

A taken port is either refused or shared, since `SO_REUSEADDR` differs between
platforms. `session.login()` blocks the event loop, and so the other calls of its
process (`Free`). Keycloak takes each code once: `spent` are the logins whose code
it has seen, whether it gave tokens for it or not.

**`Installers`** is the CLI with the installers, on the configuration files of one
agent of each kind.

| Action | Code |
|---|---|
| `Install`, `NextAgent`, `WriteHooks`, `Register`, `Credential` | `cmd_install`, `_install_one`: hooks, then MCP registration and skill, then the credential |
| `Uninstall`, `Teardown`, `TeardownOne`, `ForgetCredentials` | `cmd_uninstall`; `admin._teardown_client` |
| `Follow`, with `Advice` and `Silent` | the user does what `doctor` asks for (`_hook_wiring_ok`) |
| `Interrupt`, `EditHooks`, `Spoil`, `Mend`, `Revoke`, `Vanish` | Ctrl-C at a prompt; edits by hand; files that do not parse, or have comments; a dead credential; a deleted interpreter |

The **`*Proofs`** modules hold the theorems (section 5).

Operators named `Name_Variant` (for instance `Hit_AnyHash`) are deliberately
wrong versions of `Name`: each property was seen to fail when one replaced the
original. No specification uses them.

## 4. Runs

| Run | Instance | Shows |
|---|---|---|
| `access_windows` | one streamable-http process, all tools, two product definitions with different roles | types; every call ends; one record per answer at both stores, whatever fails; grants and refusals are justified by the registry during the call; the server implements `AccessContract` |
| `server_pair` | a streamable-http and a stdio process, reads and reports | cached keys match their hashes; a call decrypts with its own key; nothing readable beyond the two principals' entitlement |
| `server_reports` | one streamable-http process, all tools | **violated**: see section 7 |
| `session_logins` | one stdio server, three logins | a call acts for someone who was logged in during it; it fails otherwise only for a cause |
| `credentials_pair` | two processes, two products, one of them with a replaced credential | tokens never change product or credential; every call returns; a broken file stays broken; until calls overlap the last installed credential stands |
| `credentials_race` | as `credentials_pair` | **violated**: see section 7 |
| `connector_pair` | two processes, any calls, two logins | a returned token's session was in the file during the call; until calls overlap the last login or logout stands; what mends a broken file |
| `hook` | one hook on every call of every agent; two hooks on three typical calls | only harmless calls are let through; decision, log, reports and server records agree; one login and one retry at most; every hook ends; each agent does and shows what was decided; one call, one verdict |
| `deployment` | two installations, two authorities, three shapes of documents | what is handed out is served while its product is enabled, which only enabling it brings about; the stores disagree only where the administrator was told or a container went; sections get their own text or a denial, by whole groups, and under their own authority are denied wrongly only if an `oabe_dec` failed |
| `teardown_clean` | one installation, one authority | **violated**: see section 7 |
| `installers` | Claude Code, VS Code, opencode and the two codex products; two interpreters, one directory | doctor's silence is enforcement; others' entries are kept; credentials follow wiring; doing what doctor says ends |
| `local_tools` | two calls, two sessions of Claude Code and one of opencode | every call and purge ends; a call goes to the browser at most once, and finds its code unspent by any other; which copies outlive their session |

Bounds of the server runs: one user with three kinds of token (with the role,
without it, without attributes), one product and one client are enough for the cache to be hit,
missed, stale and overwritten, since cache rows of different keys do not
interact; two processes are enough for the row to change between any two steps
of a call. A document has one section per case: for the user alone, for the
user through the agent, and (in `access_windows`) through the agent as
re-registered. The audit stores are modelled per call, so nothing grows and no
state constraint is used.

Bounds of the session and credential runs: the credentials file is keyed by
product, so one product whose credential is replaced and another beside it show
every way one process's copy can overwrite another's; two processes are enough to
garble the file. Stdio servers share nothing but the session file and never write
it, so one is enough; three logins give it a session to have cached, one to have
missed and one to meet. On the connector's file two processes and two sessions
are enough for one to overwrite the other's.

Bounds of `hook`: a hook serves one call, so its whole behaviour is covered by one
hook over all calls: every act, every thing `detection.py` knows alone, two files
in either order, and second values only a check on the whole input can notice.
Hooks meet only at the session, the credential and the port, for which two hooks
with one call of each way through `decide` (`Together`) are enough.

Bounds of `deployment`: one installation to be worked on beside another that must
not be affected, and one authority to be replaced by another (`MaxEpoch`). The
documents are one with interleaved groups of every kind, one counted from the end,
one with a payload that is too short, and one that does not load. The two
installations are interchangeable, and the run claims no liveness, so it uses their
symmetry. Of `installers`: one agent for each
combination of features the code distinguishes (two hook points, no machine-wide
place, a bridge with one file, a shared MCP file), two interpreters to install
over each other, `MaxCommands = 2` commands and `MaxMishaps = 1` besides whatever
`doctor` asks for, which is not bounded. Of `local_tools`: two calls are two
logins on one port, or a reader beside a writer of copies; the third session is of
a product without the SessionEnd hook.

Fairness: weak fairness of each process's own steps, so a call that was taken up
goes on. On the server every Keycloak request has a timeout in the code.
`abe._run` and `psycopg.connect` have none: that an `oabe_*` child exits and that
the database answers or refuses is an assumption of `EveryCallEnds`, not something
the code enforces. Nothing is assumed of callers, administrators or crashes. In
the connector, weak fairness stands for the timeout every wait has: 3 s for a
report, 10 s for Keycloak, 180 s for the browser, the MCP client's own for the
server. Kills, redirects and the ends of sessions are not fair. In `local_tools` a
SessionEnd hook, once started, runs to its end. In `installers` a command goes on
(the user answers its prompts), files that do not parse are repaired at some time,
and the user does what `doctor` says: `DoctorIsSatisfied` is about that user.
`deployment`, `session_logins` and `connector_pair` claim no liveness and assume
no fairness.

`installers` and `local_tools` do not check deadlock: with its commands or calls
used up and nothing left to repair or purge the system really has nothing to do.

## 5. Proofs

For every set of processes, users, agents, clients, tokens, products and
requests, from `ConstantsAssumption` alone, `PabelServerProofs` proves that
`Spec` implies `[]TypeOK`, `[]CachedKeysMatchHashes`, `[]KeyIsForThisCall`,
`[]ReadableIsEntitled` and `[]AnswersAreAudited`.

The three about keys are not inductive. That a readable section is entitled
depends on the key in `ctx`, which is right because either this call made it
from its own locals or it found a row whose hash is its own string and whose key
is the one the hash stands for; and that holds of the row because every call
that stored one had the right key in `ctx`, whoever the call was for. The
inductive invariant `IInv` is therefore the types, the cache property and, for
each process, `CallOK`: what each place of a call may rely on (who is known, that
the key is for the call's own string, that the answer is within the
entitlement). There is one lemma per action; steps that only end a call share
`EndKeeps`. The audit is a second induction, `AuditOK`: until the audit a call's
trail is empty, and then the file and the table are offered the record in turn.
It needs `IInv` for the types and for what an ended call has answered.

The same module, with `WindowAssumption` besides, proves of `AccessWindows`
`GrantsWereOffered`, `RefusalsHadCause` and the refinement `KeepsContract`, for any number of processes
and any registry. The invariant `WInv` puts `WindowOK` on top of `IInv`: the entry a
call would see now is in its history (`Look`), whatever it was granted was granted
by two entries of that history (`Granted`), and between the two reads the
installation still leads to the product found (`Found`). The last one needs that
administrators neither remove an installation's row nor move it to another
product (`RowsKept`); `AccessContract` states the same of its administrator. For
the refinement each step is matched with one of the contract: `Begin` with
`Request`, `AuditTable` with `Reply`, `Reject` and `Crash` with `Drop`, an
administrator's statement with `Administer`, and every other step with none,
because what it changes is not visible and it adds nothing to the history
(`InsideUnseen`). That the reply is allowed is `ReplyAllowed`, where `IInv` and
`WindowOK` meet: the key was for this call's two principals, and the history holds
entries that offered them. `AccessWindows` only watches: each of its steps is, in
the server's variables, one of `PabelServer`, so types, keys, entitlement and audit
hold of `WindowSpec`, the specification the runs check (`WindowKeepsServer`).

`AgentCredentialsProofs`, from `CredentialsAssumption` (no credential belongs to
two products): the types, `TokensStayWithTheirCredential` and `StuckForGood` for any
number of processes. The invariant requires of every copy a process holds what
it requires of the file (`Sound`), because any copy may become the file.
`InstalledStandsAlone` is a second induction on top of it: until two calls have
overlapped (the history variable `overlapped`), at most one process is running
and its copy lags behind the file in nothing but the entry its own call sets
(`AloneInv`). That the condition is needed is what `credentials_race` shows.

`ConnectorSessionProofs`, for any number of processes and logins: the types,
`TokensWereCurrent`, `LastLoginStands` and `OnlyLoginsMend`. The first induction
relates what a call holds to the history of the file during it (`CallOK`), and the
file to the sessions there have been (`FileOK`); the second (`AloneInv`) is about
runs in which no two calls have overlapped, as for the credentials.

`HookDecideProofs`, from `CallsAssumption`: the types, `OnlyHarmlessIsAllowed`,
`TrailsAgree` and `OneLoginOneRetry`. The invariant relates, for one hook, its
place, call, task, decision and trail (`Consistent`); no conjunct mentions another
hook or the shared state, so the argument holds for any number of hooks. The same
module lifts this to `HookWire`, the specification the run checks: a behaviour of
`WireSpec` is, in the hook's state, one of `HookDecide` (`WireRunsHooks`), so the
three invariants hold of a call through any adapter (`WireKeepsHooks`). Of the
adapters themselves it proves `AnswersFollowDecisions` and `SameCallSameVerdict`,
for any calls and hooks: a hook that is over never changes its decision
(`Answered`), and the call it decides is the one its adapter made (`Normalised`).

`HandedOver` needs the longest argument of this module, and `WireAssumption`. It
follows one call from `Receive` to `Deliver`: the task a hook works at is the one
its verdict on this call gave it (`Tasked`), a token is on its way only to an
injection that found a stored credential (`Carried`), and what a delivered call
shows is `render` of exactly that (`HandedTo`). The rest is about the adapters as
operators: each shows a read in every channel its agent has (`Channels`), the
document relayed is the first relayable string of the input (`ShownIsFirst`, a
least element of the positions that hold one), and a token goes only into a call
for the deployed server's tools (`TokenGoesToPabel`).

`ServerSessionProofs`, from `SessionAssumption`: the types, `ActsAsLoggedIn` and
`ExceptionsHaveCause`, for any number of processes and logins. What makes the
cache right (`CacheOK`) is that the modification time kept is never later than
the content kept, because it is taken before the read: a login in between makes
the next call read again. `FileOK` says that whatever the file holds is of the
latest login.

`LocalToolsProofs`, from `LocalToolsAssumption`: types, `OneLoginEach` and
`CopiesGoWithTheirSession`, for any number of tool calls, sessions and products.
That a login finds its code unspent takes three facts of every call (`LoginFits`):
it presents no code but its own, since it compared the state; its URL is out from
the browser on; and once it is out the call has `tried`, so that whatever the server
refuses afterwards leads nowhere near the browser again.
The invariant says besides what a call knows at each place (`CallOK`), that the list a
purge works through holds copies of its own product only (`Listed`), and that a
copy of a session that is over is on such a list, could not be deleted, or came
late (`Accounted`).

`DeploymentProofs`, from `DeploymentAssumption`: the types, `InstallationsServe` and
`StoresAgreeOrTold`, for any number of clients, documents and policies. A command
that fails between two stores leaves them apart, so no single conjunct holds at
every step: `InHand` says, step by step, what Postgres, Keycloak and the user know
of the installation the command is working on, `Settled` and `Served` what holds
of all the others, and `Roled` and `Products` the same of the product's role and
flag: that is what the administrator last set, since neither onboarding nor adding
the product again touches it, and a product that is not there is enabled.

`ReadsAreWhole` is proved there too. `KeysCurrent`: while nothing was replaced
behind the administrator's back (`replaced`), a key in use or in the cache is of the
authority that exists. What `load_abe` and `decrypt_document` do then follows
for every document: the texts of a group are zipped with its sections, and the
n-th text is that of the n-th section because both stand behind as many others of
their group (a bijection with the earlier sections, which needs no
induction over the document). A group that does not open, for whatever reason,
therefore takes no other with it and shifts no text.

`CommandsKeepRegistry` ties the two modules that have administrators. It reads the
product and the rows of `Deployment` as the two tables of `PabelServer`
(`Server == INSTANCE PabelServer WITH ...`) and proves that every step of every
command, failing or not, is an `AdminStep` there or changes nothing. So what
`PabelServerProofs` assumes of administrators (no row removed, none moved to another
product) is what the commands do - while the tables exist: `teardown` and a lost
container drop them, and TLC refutes the theorem without that condition.

`InstallersProofs`, from `InstallersAssumption`, for any agents, hook points,
interpreters and directories: the types, `SilenceIsEnforcement`, `OthersKept`,
`ArmedAfterWiring` and `WiringLasts`. A command writes one file per step; `Completed`
says what its earlier steps have left behind when it gets to the next (hooks written
before servers, both before the credential), and `OnePerName` that no file has two
servers of a name, so that replacing one takes only that one. That doctor's silence
means enforcement needs no history at all: `SilenceIsEnforcement` holds in every
state of the files, however they came about, because `Silent` looks at each hook
point and interpreter itself. It is a theorem about what doctor looks at, not about
what installers do.

The assumptions say besides that `None` is not one of the values it stands beside.

## 6. Only model-checked

Liveness under fairness is out of the prover's reach: `EveryCallEnds`,
`EveryCallReturns`, `EveryHookEnds`, `EveryToolEnds`, `DoctorIsSatisfied`.
Every invariant and every other action property that a passing run checks is also
a theorem. The three properties that a run refutes (section 7) are false and so
have none. No theorem needs fairness, and so none says that a call ends at all:
that is left to the properties above.

Nothing proved crosses from the insides of the two `access_token` functions
(`AgentCredentials`, `ConnectorSession`) to the modules that see only their outcome
(`HookDecide`, `LocalTools`): that the outcomes those modules allow include the ones
the insides produce was settled by reading both, not by a refinement.

## 7. Disagreements between docs and code

Three are shown by runs.

* **`server_reports`.** `report_denial`'s docstring (`server/mcp_server.py:133-138`)
  says that a missing human session "is recorded as username=None rather than
  rejecting the call". Under streamable-http the bearer middleware rejects a
  request whose human token does not verify before the tool runs
  (`token_verifier.py:25-29`), so such a report leaves no record. The docstring is
  right under stdio, where `Unidentified` covers it.
* **`credentials_race`.** `store_credentials` "replaces any previous entry outright"
  (`agent_session.py:42-44`), but a hook that read the old entry and waits for
  Keycloak writes it back over the new one (line 84). Without overlap it is true,
  and proved: `InstalledStandsAlone`.
* **`teardown_clean`.** `teardown` prints "done. Run `python admin.py bootstrap` for a
  clean deployment." (`admin.py:292`) also when `compose down -v` failed
  (`check=False`, line 278): containers, tables and the key cache then outlive the
  authority whose keys they hold.

Others are modelled as the code has them, and noted here because what does hold
is a property of some run.

* `read_document` says that "Every section whose policy that combination satisfies is
  returned in full" (`server/mcp_server.py:106-107`), and `decrypt_bytes` that it
  returns "None when the key does not satisfy the policy" (`abe.py:161`). It returns
  None whenever `oabe_dec` left no output (lines 175-180), so a child that fails for a
  reason of its own reads as a denial, which `document.py:88-91` calls "the one thing
  a reader must never confuse". What does hold is `ReadsAreWhole`.
* "The relay denials don't need this - they're already audited server-side"
  (`relay.py:135-136`): not when no token was obtained, the login failed or the
  server was not reached. What does hold is part of `TrailsAgree`.
* The login is said to run "if there's no valid session" (`relay.py:93-94`); it runs
  on any `AuthError`, which a missing or refused agent credential raises before the
  session is looked at. That it runs at most once is `OneLoginOneRetry`.
* `pabel-connector logout` is said to "clear the saved PABEL session"
  (`cli/main.py:551`); a refresh that was waiting for Keycloak then writes the
  session back (`session.py:58`). Without overlap it stays cleared
  (`LastLoginStandsAlone`).
* `find_relayable_file` is said to return None for "several candidates"
  (`detection.py:165-168`) and returns the first. That it is the first for every
  agent is part of `HandedOver`.
* A materialized copy "is deleted automatically when the session ends"
  (`mcp_local_server.py:103-104`): only Claude Code has the SessionEnd hook,
  copies that come late stay, and a session's end removes the copies of the
  product's other open sessions too. What does hold is `CopiesGoWithTheirSession`.
* Once the wait for the browser has ended, or before it began, the message asks to
  "open this URL yourself" (`oauth_browser.py:72-77`, `91-93`), although nobody
  listens for the redirect.
* `_teardown_client` is said to touch "machine-wide state only"
  (`admin.py:303-308`); `uninstall` of an agent without a machine-wide place
  resolves to the current directory's project.
* `cmd_install` and `cmd_uninstall` are said to "reject a call without --global" for
  the codex products (`cli/main.py:57-59`, `installers/codex_cli.py:29-31`); they
  write machine-wide whatever was asked for (`Scope`).

## 8. Not modelled, and abstractions

* Outside the repository: OpenABE's cryptography (a key opens what the tokens it
  was made for satisfy), Keycloak's internals, HTTP and the MCP protocol.
* Wording, JSON and TOML layout, logging; the vendors' tool names beyond the act
  they stand for. The managed-settings script and its PowerShell are generation of
  static text with no state of its own.
* `grant`, `status`, the `.env` file and the demonstration documents of `admin.py`;
  the audit log's key handling and reading (only its appends matter to `TrailsAgree`).
* Lengths of time. Every wait ends and every hook may be killed at any step, but
  there is no clock: that the 3 s of a report cannot interrupt a blocking token
  request of 10 s (`relay.py:144`) is listed as a hazard without a property.
* In `Installers` commands run one at a time and a file is read and written at
  once; the `pabel` entry for the deployed server, the environment captured by
  install and doctor's branch for an unreachable Keycloak are left out.
* In `LocalTools` the relayed read is one step (its insides are `HookDecide`'s) and
  a stray connection to the callback port is an unanswered wait.
* In `Deployment` clients are random identities, so each is used once, and there is
  one product, one user and one administrator. How two administrators interleave
  is left to the single statements of `PabelServer`, and so is that adding a product
  again may change its attributes and its role.
