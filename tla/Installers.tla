----------------------------- MODULE Installers -----------------------------
(***************************************************************************)
(* pabel-connector install, uninstall and doctor (cli/main.py, installers) *)
(* and the client half of `admin.py teardown`: what turns an agent's       *)
(* stored credential into enforcement.  Several Pythons may have the       *)
(* connector, each hook entry names the one that wrote it, and the         *)
(* configuration files belong to the agents and to other tools as well.    *)
(* Commands run one at a time and each reads and writes one file at once;  *)
(* others edit the files between two commands.                             *)
(***************************************************************************)
EXTENDS Naturals, FiniteSets

CONSTANTS
  Agents,       \* the keys of INSTALLERS
  Keys,         \* HOOK_KEYS (HOOK_KEY for a bridge) of each; {} without hooks
  Wide,         \* agents with GLOBAL_CONFIG_RELATIVE_PATH
  GlobalOnly,   \* GLOBAL_ONLY: MCP registration in one shared file, no hook
  Bridged,      \* enforced by a plugin file that holds one interpreter
  Registering,  \* agents whose install also registers MCP servers
  Skilled,      \* agents whose install copies a skill
  Interpreters, \* Pythons that have the connector
  Other,        \* another tool that writes to the same files
  Machine,      \* the user-level scope
  Dirs,         \* project directories
  Batches,      \* the selections one install can be given
  MaxCommands,  \* bound: commands other than those doctor asks for
  MaxMishaps    \* bound: interrupts, edits by hand, revocations

ASSUME InstallersAssumption ==
  /\ GlobalOnly \subseteq Wide /\ Bridged \subseteq Wide
  /\ \A a \in GlobalOnly : Keys[a] = {}
  /\ \A a \in Bridged : Cardinality(Keys[a]) = 1
  /\ Machine \notin Dirs /\ Other \notin Interpreters \cup Agents
  /\ Batches \subseteq SUBSET Agents

VARIABLES
  hooks,     \* the entries of each agent's hook file in each scope: <<who, key>>
  servers,   \* the entries of each MCP file: <<name, who>>
  skills,    \* the skill files
  broken,    \* files that are not valid JSON or TOML
  commented, \* files that are JSON with comments
  creds,     \* agent_credentials.json, and whether an entry authenticates
  live,      \* the interpreters that still exist
  me,        \* the one the user runs when doctor asks for something
  cmd,       \* the command in progress
  commands, mishaps

files == <<hooks, servers, skills>>
health == <<broken, commented>>
counts == <<commands, mishaps>>
vars == <<files, health, creds, live, me, cmd, counts>>

Scopes == Dirs \cup {Machine}
Hooked == {a \in Agents : Keys[a] # {}}
Own(i, a) == {i} \X Keys[a]

\* Where install and uninstall write: machine-wide unless --dir is given or
\* the agent has no such location.
Scope(a, toDir, d) ==
  IF a \in GlobalOnly \/ (a \in Wide /\ ~toDir) THEN Machine ELSE d

HookFile(a, s) == <<"hooks", a, s>>
\* Both codex products share config.toml; a bridge's agent has one file per
\* scope; the others register in the project whatever the scope.
ServerFile(a, s, d) ==
  CASE a \in GlobalOnly -> <<"mcp", "shared", Machine>>
    [] a \in Bridged -> <<"mcp", a, s>>
    [] OTHER -> <<"mcp", a, d>>
ServerFiles == {ServerFile(a, s, d) : a \in Registering, s \in Scopes, d \in Dirs}
HookFiles == {HookFile(a, s) : a \in Hooked \ Bridged, s \in Scopes}
SkillFile(a, s) == <<IF a \in GlobalOnly THEN "shared" ELSE a, s>>

NoCommand == [at |-> "idle"]

Init ==
  /\ hooks = [a \in Hooked |-> [s \in Scopes |-> IF a \in Bridged THEN {} ELSE {<<Other, "its own">>}]]
  /\ servers = [f \in ServerFiles |-> {<<Other, Other>>}]
  /\ skills = {} /\ broken = {} /\ commented = {}
  /\ creds = [a \in Agents |-> "none"]
  /\ live = Interpreters /\ me \in Interpreters
  /\ cmd = NoCommand /\ commands = 0 /\ mishaps = 0

----------------------------------------------------------------------------
(* install.                                                                *)

\* merge_hook_list and its nested twin append what is missing; a plugin is
\* rewritten.
Merge_Once(present, i, a) == IF a \in Bridged /\ present # {} THEN present ELSE present \cup Own(i, a)
Merge(present, i, a) == IF a \in Bridged THEN Own(i, a) ELSE present \cup Own(i, a)

Put(entries, name, who) == {e \in entries : e[1] # name} \cup {<<name, who>>}

\* A file that does not parse ends the command, a whole batch included.
AfterBroken_Goes == [cmd EXCEPT !.at = "credential"]
AfterBroken == NoCommand

Start(i, d, toDir, batch, asked) ==
  /\ cmd = NoCommand
  /\ cmd' = [at |-> "next", by |-> i, dir |-> d, toDir |-> toDir, rest |-> batch, asked |-> asked]

Install ==
  /\ commands < MaxCommands /\ commands' = commands + 1
  /\ \E i \in live, d \in Dirs, toDir \in BOOLEAN, batch \in Batches :
       Start(i, d, toDir, batch, FALSE)
  /\ UNCHANGED <<files, health, creds, live, me, mishaps>>

NextAgent ==
  /\ cmd.at = "next"
  /\ IF cmd.rest = {} THEN cmd' = NoCommand
     ELSE \E a \in cmd.rest :
            cmd' = [at |-> "hooks", by |-> cmd.by, dir |-> cmd.dir, toDir |-> cmd.toDir,
                    rest |-> cmd.rest \ {a}, asked |-> cmd.asked,
                    agent |-> a, scope |-> Scope(a, cmd.toDir, cmd.dir)]
  /\ UNCHANGED <<files, health, creds, live, me, counts>>

WriteHooks ==
  /\ cmd.at = "hooks"
  /\ LET a == cmd.agent IN
     IF HookFile(a, cmd.scope) \in broken
     THEN cmd' = AfterBroken /\ UNCHANGED hooks
     ELSE /\ cmd' = [cmd EXCEPT !.at = "servers"]
          /\ hooks' = IF a \notin Hooked THEN hooks
                      ELSE [hooks EXCEPT ![a][cmd.scope] = Merge(@, cmd.by, a)]
  /\ UNCHANGED <<servers, skills, health, creds, live, me, counts>>

\* The installation's own local server, then the skill.  A file with comments
\* is left alone, and the install still counts.
Register ==
  /\ cmd.at = "servers"
  /\ LET a == cmd.agent
         f == ServerFile(a, cmd.scope, cmd.dir)
     IN IF a \in Registering /\ f \in broken
        THEN cmd' = AfterBroken /\ UNCHANGED <<servers, skills>>
        ELSE /\ cmd' = [cmd EXCEPT !.at = "credential"]
             /\ servers' = IF a \notin Registering \/ f \in commented THEN servers
                           ELSE [servers EXCEPT ![f] = Put(@, a, cmd.by)]
             /\ skills' = IF a \in Skilled THEN skills \cup {SkillFile(a, cmd.scope)} ELSE skills
  /\ UNCHANGED <<hooks, health, creds, live, me, counts>>

\* The credential comes from the administrator and is not tried; without one
\* this agent has failed and a batch goes on.
Credential ==
  /\ cmd.at = "credential"
  /\ \E given \in {"valid", "dead", "none"} :
       /\ cmd.asked => given = "valid"
       /\ creds' = IF given = "none" THEN creds ELSE [creds EXCEPT ![cmd.agent] = given]
  /\ cmd' = [at |-> "next", by |-> cmd.by, dir |-> cmd.dir, toDir |-> cmd.toDir,
             rest |-> cmd.rest, asked |-> cmd.asked]
  /\ UNCHANGED <<files, health, live, me, counts>>

----------------------------------------------------------------------------
(* uninstall, and teardown --include-client.                               *)

\* remove_matching_commands: the entries this interpreter wrote.
Left_Keys(present, i, a) == {e \in present : e[2] \notin Keys[a]}
Left(present, i, a) == IF a \in Bridged THEN {} ELSE present \ Own(i, a)

RemoveHooks(i, a, s) ==
  IF a \in Hooked /\ HookFile(a, s) \notin broken
  THEN hooks' = [hooks EXCEPT ![a][s] = Left(@, i, a)]
  ELSE UNCHANGED hooks

\* Only the codex products and opencode take their servers out again.
RemoveServers(a, s, d) ==
  LET f == ServerFile(a, s, d) IN
  IF a \in (GlobalOnly \cup Bridged) \cap Registering /\ f \notin broken \cup commented
  THEN servers' = [servers EXCEPT ![f] = {e \in @ : e[1] # a}]
  ELSE UNCHANGED servers

RemoveSkill(a, s) ==
  skills' = IF a \in GlobalOnly \/ (a \in Hooked /\ HookFile(a, s) \in broken) THEN skills
            ELSE skills \ {SkillFile(a, s)}

Remove(i, a, s, d) == RemoveHooks(i, a, s) /\ RemoveServers(a, s, d) /\ RemoveSkill(a, s)

Uninstall ==
  /\ cmd = NoCommand
  /\ commands < MaxCommands /\ commands' = commands + 1
  /\ \E i \in live, d \in Dirs, toDir \in BOOLEAN, a \in Agents :
       Remove(i, a, Scope(a, toDir, d), d)
  /\ UNCHANGED <<health, creds, live, me, cmd, mishaps>>

\* _teardown_client uninstalls, with the pabel-connector of the PATH, what has
\* a credential, and then removes the credentials whatever became of that.
Teardown ==
  /\ cmd = NoCommand
  /\ commands < MaxCommands /\ commands' = commands + 1
  /\ \E i \in live, d \in Dirs :
       cmd' = [at |-> "teardown", by |-> i, dir |-> d,
               rest |-> {a \in Agents : creds[a] # "none"}]
  /\ UNCHANGED <<files, health, creds, live, me, mishaps>>

TeardownOne ==
  /\ cmd.at = "teardown" /\ cmd.rest # {}
  /\ \E a \in cmd.rest :
       /\ Remove(cmd.by, a, Scope(a, FALSE, cmd.dir), cmd.dir)
       /\ cmd' = [cmd EXCEPT !.rest = @ \ {a}]
  /\ UNCHANGED <<health, creds, live, me, counts>>

ForgetCredentials ==
  /\ cmd.at = "teardown" /\ cmd.rest = {}
  /\ creds' = [a \in Agents |-> "none"] /\ cmd' = NoCommand
  /\ UNCHANGED <<files, health, live, me, counts>>

----------------------------------------------------------------------------
(* doctor, run by interpreter i from directory d.                          *)

Wired_Some(i, a, s) == Own(i, a) \cap hooks[a][s] # {}
Wired(i, a, s) == Own(i, a) \subseteq hooks[a][s]

\* The scopes whose file doctor has to read: the project's only when the
\* machine's does not satisfy it.
Consulted(i, a, d) ==
  CASE a \notin Wide -> {d}
    [] a \in Wide /\ Wired(i, a, Machine) -> {Machine}
    [] a \in Wide /\ ~Wired(i, a, Machine) -> {Machine, d}
Crashes(i, a, d) ==
  a \in Hooked /\ \E s \in Consulted(i, a, d) : HookFile(a, s) \in broken

\* What it asks for: a project install first, then a machine-wide one.
Advice(i, a, d) ==
  IF a \notin Hooked \/ (a \in Wide /\ Wired(i, a, Machine)) THEN "nothing"
  ELSE IF ~Wired(i, a, d) THEN "install here"
  ELSE IF a \in Wide THEN "install machine-wide" ELSE "nothing"

Silent(i, a, d) ==
  /\ ~Crashes(i, a, d)
  /\ Advice(i, a, d) = "nothing"
  /\ creds[a] = "valid"

\* The user does what doctor says, with a credential that works, once the
\* files can be read.
Follow ==
  /\ broken = {}
  /\ \E a \in Agents, d \in Dirs :
       /\ creds[a] # "none" /\ ~Silent(me, a, d)
       /\ Start(me, d, Advice(me, a, d) = "install here", {a}, TRUE)
  /\ UNCHANGED <<files, health, creds, live, me, counts>>

----------------------------------------------------------------------------
(* What others do.                                                         *)

Mishap == mishaps < MaxMishaps /\ mishaps' = mishaps + 1

\* Ctrl-C, above all at one of the prompts.
Interrupt ==
  /\ Mishap /\ cmd # NoCommand /\ cmd' = NoCommand
  /\ UNCHANGED <<files, health, creds, live, me, commands>>

EditHooks ==
  /\ Mishap /\ cmd = NoCommand
  /\ \E a \in Hooked, s \in Scopes : \E e \in hooks[a][s] :
       e[1] # Other /\ hooks' = [hooks EXCEPT ![a][s] = @ \ {e}]
  /\ UNCHANGED <<servers, skills, health, creds, live, me, cmd, commands>>

Spoil ==
  /\ Mishap /\ cmd = NoCommand
  /\ \/ \E f \in (HookFiles \cup ServerFiles) \ broken :
          broken' = broken \cup {f} /\ UNCHANGED commented
     \/ \E a \in Bridged, s \in Scopes, d \in Dirs :
          commented' = commented \cup {ServerFile(a, s, d)} /\ UNCHANGED broken
  /\ UNCHANGED <<files, creds, live, me, cmd, commands>>

Mend ==
  /\ cmd = NoCommand /\ broken # {} /\ broken' = {}
  /\ UNCHANGED <<files, commented, creds, live, me, cmd, counts>>

Revoke ==
  /\ Mishap /\ cmd = NoCommand
  /\ \E a \in Agents : creds[a] = "valid" /\ creds' = [creds EXCEPT ![a] = "dead"]
  /\ UNCHANGED <<files, health, live, me, cmd, commands>>

\* A virtual environment is deleted.
Vanish ==
  /\ Mishap /\ cmd = NoCommand
  /\ \E i, j \in live : i # j /\ live' = live \ {i} /\ me' = j
  /\ UNCHANGED <<files, health, creds, cmd, commands>>

Step == NextAgent \/ WriteHooks \/ Register \/ Credential \/ TeardownOne \/ ForgetCredentials
Next ==
  \/ Install \/ Uninstall \/ Teardown \/ Follow \/ Step
  \/ Interrupt \/ EditHooks \/ Spoil \/ Mend \/ Revoke \/ Vanish

\* A command goes on (the user answers its prompts), files get repaired, and
\* the user does what doctor says.
Spec == Init /\ [][Next]_vars /\ WF_vars(Step) /\ WF_vars(Mend) /\ WF_vars(Follow)

----------------------------------------------------------------------------
(* Properties.                                                             *)

\* An agent runs the entries of the given scopes, as far as their interpreters
\* exist.
Enforced(a, scopes) ==
  \A k \in Keys[a] : \E i \in live : \E s \in scopes : <<i, k>> \in hooks[a][s]

\* A stored credential without enforcement is loud (_hook_wiring_ok): when
\* doctor says nothing about an agent that has hooks, every hook point of it
\* runs, from that directory and, where a machine-wide place exists, from
\* any directory; whoever else installed, edited or deleted what.
SilenceIsEnforcement ==
  \A i \in live, a \in Hooked, d \in Dirs :
    Silent(i, a, d) => Enforced(a, IF a \in Wide THEN {Machine} ELSE {d})

\* install and uninstall never clobber another tool's hooks, another
\* product's servers (merge_hook_list, uninstall_mcp_registration), the hooks
\* another interpreter wrote, or a file with comments or that does not parse.
OthersKept ==
  [][mishaps' = mishaps =>
     /\ \E i \in live : \A a \in Hooked \ Bridged, s \in Scopes :
          hooks[a][s] \ hooks'[a][s] \subseteq Own(i, a)
     /\ \A f \in ServerFiles : \A e, g \in servers[f] \ servers'[f] : e = g /\ e[1] # Other
     /\ \A f \in commented \cup broken : f \in ServerFiles => servers'[f] = servers[f]]_vars

\* A credential is stored only for an agent whose wiring that very install
\* completed: an install that failed half-way leaves no armed, unwired agent
\* behind (_install_one).
ArmedAfterWiring ==
  [][\A a \in Agents : creds'[a] # creds[a] /\ creds'[a] = "valid" =>
       /\ a \in Hooked => Wired(cmd.by, a, cmd.scope)
       /\ a \in Registering =>
            LET f == ServerFile(a, cmd.scope, cmd.dir)
            IN f \in commented \/ <<a, cmd.by>> \in servers[f]]_vars

\* A user who does what doctor says is done in the end: wherever it is run, it
\* has nothing left to say about any installed agent.
DoctorIsSatisfied ==
  <>[](\A a \in Agents, d \in Dirs : creds[a] # "none" => Silent(me, a, d))
=============================================================================
