--------------------------- MODULE InstallersProofs ---------------------------
(***************************************************************************)
(* Theorems about Installers, for every set of agents, hook points,        *)
(* interpreters and directories.                                           *)
(*                                                                         *)
(* A command works on one file at a time, so what its last step relies on  *)
(* was done by earlier ones: that the credential it asks for belongs to an *)
(* agent it wired is kept from step to step by Completed.  That a file has *)
(* one server of a name (OnePerName) is what makes the replacement of an   *)
(* own entry take nobody else's with it.                                   *)
(***************************************************************************)
EXTENDS Installers, TLAPS

Points == UNION {Keys[a] : a \in Hooked}
HookEntries == (Interpreters \X Points) \cup {<<Other, "its own">>}
ServerEntries == (Agents \X Interpreters) \cup {<<Other, Other>>}

Batch == [at : {"next"}, by : Interpreters, dir : Dirs, toDir : BOOLEAN,
          rest : SUBSET Agents, asked : BOOLEAN]
Single == [at : {"hooks", "servers", "credential"}, by : Interpreters, dir : Dirs,
           toDir : BOOLEAN, rest : SUBSET Agents, asked : BOOLEAN,
           agent : Agents, scope : Scopes]
Removal == [at : {"teardown"}, by : Interpreters, dir : Dirs, rest : SUBSET Agents]

\* The configuration files keep their types, and a command knows the agent,
\* the scope and the interpreter it works for.
TypeOK ==
  /\ hooks \in [Hooked -> [Scopes -> SUBSET HookEntries]]
  /\ servers \in [ServerFiles -> SUBSET ServerEntries]
  /\ \A f \in skills : \E a \in Skilled, s \in Scopes : f = SkillFile(a, s)
  /\ creds \in [Agents -> {"none", "valid", "dead"}]
  /\ live \subseteq Interpreters /\ me \in live
  /\ cmd \in {NoCommand} \cup Batch \cup Single \cup Removal
  /\ cmd # NoCommand => cmd.by \in live
  /\ commands \in Nat /\ mishaps \in Nat

OnePerName == \A f \in ServerFiles : \A e, g \in servers[f] : e[1] = g[1] => e = g

\* What an install has done by the time it asks for the credential.
HooksDone(c) == c.agent \in Hooked => Wired(c.by, c.agent, c.scope)
ServersDone(c) ==
  c.agent \in Registering =>
    LET f == ServerFile(c.agent, c.scope, c.dir)
    IN f \in commented \/ <<c.agent, c.by>> \in servers[f]
Completed ==
  /\ cmd.at \in {"servers", "credential"} => HooksDone(cmd)
  /\ cmd.at = "credential" => ServersDone(cmd)

IInv == TypeOK /\ OnePerName /\ Completed

----------------------------------------------------------------------------
(* Where a command writes.                                                 *)

LEMMA ScopesOfAgents ==
  ASSUME NEW a \in Agents, NEW toDir, NEW d \in Dirs
  PROVE  Scope(a, toDir, d) \in Scopes
BY DEF Scope, Scopes

LEMMA ServerFilesOf ==
  ASSUME NEW a \in Registering, NEW s \in Scopes, NEW d \in Dirs
  PROVE  ServerFile(a, s, d) \in ServerFiles
BY DEF ServerFiles

\* What a write to one place of the hook files leaves.
LEMMA HooksWritten ==
  ASSUME hooks \in [Hooked -> [Scopes -> SUBSET HookEntries]],
         NEW a \in Hooked, NEW s \in Scopes, NEW v \in SUBSET HookEntries,
         hooks' = [hooks EXCEPT ![a][s] = v]
  PROVE  /\ hooks' \in [Hooked -> [Scopes -> SUBSET HookEntries]]
         /\ hooks'[a][s] = v
         /\ \A b \in Hooked, t \in Scopes : <<b, t>> # <<a, s>> => hooks'[b][t] = hooks[b][t]
<1>1. hooks' = [hooks EXCEPT ![a] = [hooks[a] EXCEPT ![s] = v]]
  OBVIOUS
<1>2. hooks[a] \in [Scopes -> SUBSET HookEntries]
  OBVIOUS
<1>3. [hooks[a] EXCEPT ![s] = v] \in [Scopes -> SUBSET HookEntries]
  BY <1>2
<1>4. hooks' \in [Hooked -> [Scopes -> SUBSET HookEntries]]
  BY <1>1, <1>3
<1>5. hooks'[a] = [hooks[a] EXCEPT ![s] = v] /\ \A b \in Hooked \ {a} : hooks'[b] = hooks[b]
  BY <1>1
<1> QED BY <1>2, <1>4, <1>5

LEMMA OwnEntries ==
  ASSUME NEW i \in Interpreters, NEW a \in Hooked
  PROVE  Own(i, a) \subseteq HookEntries
BY DEF Own, HookEntries, Points

----------------------------------------------------------------------------

LEMMA Initially == Init => IInv
<1> SUFFICES ASSUME Init PROVE IInv
  OBVIOUS
<1>1. hooks \in [Hooked -> [Scopes -> SUBSET HookEntries]]
  BY DEF Init, HookEntries
<1>2. servers \in [ServerFiles -> SUBSET ServerEntries]
  BY DEF Init, ServerEntries
<1>3. TypeOK
  <2>1. creds \in [Agents -> {"none", "valid", "dead"}]
    BY DEF Init
  <2>2. skills = {}
    BY DEF Init
  <2>3. cmd \in {NoCommand} \cup Batch \cup Single \cup Removal
    BY DEF Init
  <2> QED BY <1>1, <1>2, <2>1, <2>2, <2>3 DEF Init, TypeOK
<1>4. OnePerName
  BY DEF Init, OnePerName
<1>5. Completed
  BY DEF Init, Completed, NoCommand
<1> QED BY <1>3, <1>4, <1>5 DEF IInv

\* The steps of an install.
LEMMA CommandKinds ==
  ASSUME TypeOK
  PROVE  /\ cmd.at = "next" => cmd \in Batch
         /\ cmd.at \in {"hooks", "servers", "credential"} => cmd \in Single
         /\ cmd.at = "teardown" => cmd \in Removal
         /\ cmd.at \in {"next", "hooks", "servers", "credential", "teardown"} => cmd.by \in live
BY DEF TypeOK, NoCommand, Batch, Single, Removal

LEMMA StartKeeps ==
  ASSUME IInv, NEW i \in live, NEW d \in Dirs, NEW toDir \in BOOLEAN, NEW asked \in BOOLEAN,
         NEW batch \in SUBSET Agents, Start(i, d, toDir, batch, asked),
         UNCHANGED <<files, health, creds, live, me>>, commands' \in Nat, mishaps' \in Nat
  PROVE  IInv'
<1>1. cmd' \in Batch /\ cmd'.by \in live' /\ cmd'.at = "next"
  BY DEF Start, Batch, IInv, TypeOK
<1>2. TypeOK'
  BY <1>1 DEF IInv, TypeOK, files
<1>3. OnePerName' /\ Completed'
  BY <1>1 DEF IInv, OnePerName, Completed, files
<1> QED BY <1>2, <1>3 DEF IInv

LEMMA NextAgentKeeps == IInv /\ NextAgent => IInv'
<1> SUFFICES ASSUME IInv, NextAgent PROVE IInv'
  OBVIOUS
<1>1. cmd \in Batch /\ cmd.by \in live /\ cmd.by \in Interpreters
  BY CommandKinds DEF IInv, TypeOK, NextAgent
<1>2. CASE cmd' = NoCommand
  BY <1>2 DEF IInv, TypeOK, OnePerName, Completed, NextAgent, NoCommand, files, health, counts
<1>3. CASE \E a \in cmd.rest :
            cmd' = [at |-> "hooks", by |-> cmd.by, dir |-> cmd.dir, toDir |-> cmd.toDir,
                    rest |-> cmd.rest \ {a}, asked |-> cmd.asked,
                    agent |-> a, scope |-> Scope(a, cmd.toDir, cmd.dir)]
  <2>1. PICK a \in cmd.rest :
            cmd' = [at |-> "hooks", by |-> cmd.by, dir |-> cmd.dir, toDir |-> cmd.toDir,
                    rest |-> cmd.rest \ {a}, asked |-> cmd.asked,
                    agent |-> a, scope |-> Scope(a, cmd.toDir, cmd.dir)]
    BY <1>3
  <2>2. a \in Agents /\ Scope(a, cmd.toDir, cmd.dir) \in Scopes
    BY <1>1, ScopesOfAgents DEF Batch
  <2>3. cmd' \in Single /\ cmd'.by = cmd.by /\ cmd'.at = "hooks"
    BY <1>1, <2>1, <2>2 DEF Batch, Single
  <2>4. TypeOK'
    BY <1>1, <2>3 DEF IInv, TypeOK, NextAgent, files, counts
  <2>5. OnePerName' /\ Completed'
    BY <2>3 DEF IInv, OnePerName, Completed, NextAgent, files
  <2> QED BY <2>4, <2>5 DEF IInv
<1> QED BY <1>2, <1>3 DEF NextAgent

LEMMA WriteHooksKeeps == IInv /\ WriteHooks => IInv'
<1> SUFFICES ASSUME IInv, WriteHooks PROVE IInv'
  OBVIOUS
<1> DEFINE a == cmd.agent
<1>1. cmd \in Single /\ cmd.by \in live /\ cmd.by \in Interpreters
  BY CommandKinds DEF IInv, TypeOK, WriteHooks
<1>2. OnePerName'
  BY DEF IInv, OnePerName, WriteHooks
<1>3. CASE cmd' = NoCommand /\ UNCHANGED hooks
  BY <1>2, <1>3 DEF IInv, TypeOK, Completed, WriteHooks, NoCommand, health, counts
<1>4. CASE /\ cmd' = [cmd EXCEPT !.at = "servers"]
           /\ hooks' = IF a \notin Hooked THEN hooks
                       ELSE [hooks EXCEPT ![a][cmd.scope] = Merge(@, cmd.by, a)]
  <2>1. /\ cmd' \in Single /\ cmd'.by = cmd.by /\ cmd'.at = "servers"
        /\ cmd'.agent = a /\ cmd'.scope = cmd.scope /\ cmd.scope \in Scopes
    BY <1>1, <1>4 DEF Single
  <2>2. hooks' \in [Hooked -> [Scopes -> SUBSET HookEntries]]
        /\ (a \in Hooked => Own(cmd.by, a) \subseteq hooks'[a][cmd.scope])
    <3>1. CASE a \notin Hooked
      BY <1>4, <3>1 DEF IInv, TypeOK
    <3>2. CASE a \in Hooked
      <4> DEFINE v == Merge(hooks[a][cmd.scope], cmd.by, a)
      <4>1. hooks[a][cmd.scope] \in SUBSET HookEntries
        BY <2>1, <3>2 DEF IInv, TypeOK
      <4>2. v \in SUBSET HookEntries /\ Own(cmd.by, a) \subseteq v
        BY <1>1, <3>2, <4>1, OwnEntries DEF Merge
      <4>3. hooks' = [hooks EXCEPT ![a][cmd.scope] = v]
        BY <1>4, <3>2
      <4> HIDE DEF v, a
      <4> QED BY <2>1, <3>2, <4>2, <4>3, HooksWritten DEF IInv, TypeOK
    <3> QED BY <3>1, <3>2
  <2>3. TypeOK'
    BY <1>1, <2>1, <2>2 DEF IInv, TypeOK, WriteHooks, counts
  <2>4. Completed'
    BY <2>1, <2>2 DEF Completed, HooksDone, Wired
  <2> QED BY <1>2, <2>3, <2>4 DEF IInv
<1> QED BY <1>3, <1>4 DEF WriteHooks, AfterBroken

\* Replacing the own entry of a file leaves it one entry of each name.
LEMMA ServersPut ==
  ASSUME TypeOK, OnePerName, NEW f \in ServerFiles, NEW a \in Agents, NEW i \in Interpreters,
         servers' = [servers EXCEPT ![f] = Put(@, a, i)]
  PROVE  /\ servers' \in [ServerFiles -> SUBSET ServerEntries] /\ OnePerName'
         /\ <<a, i>> \in servers'[f]
         /\ \A g \in ServerFiles \ {f} : servers'[g] = servers[g]
         /\ \A e \in servers[f] \ servers'[f] : e[1] = a
<1> DEFINE v == Put(servers[f], a, i)
<1>1. servers[f] \in SUBSET ServerEntries /\ DOMAIN servers = ServerFiles
  BY DEF TypeOK
<1>2. v \in SUBSET ServerEntries
  BY <1>1 DEF Put, ServerEntries
<1>3. <<a, i>> \in v /\ \A e \in v : e = <<a, i>> \/ (e \in servers[f] /\ e[1] # a)
  BY DEF Put
<1>4. \A e \in servers[f] \ v : e[1] = a
  BY DEF Put
<1>5. servers' = [servers EXCEPT ![f] = v]
  OBVIOUS
<1> HIDE DEF v
<1>6. servers'[f] = v /\ \A g \in ServerFiles \ {f} : servers'[g] = servers[g]
  BY <1>1, <1>5
<1>7. servers' \in [ServerFiles -> SUBSET ServerEntries]
  BY <1>2, <1>5 DEF TypeOK
<1>8. \A e, g \in v : e[1] = g[1] => e = g
  BY <1>3 DEF OnePerName
<1> QED BY <1>3, <1>4, <1>6, <1>7, <1>8 DEF OnePerName

LEMMA RegisterKeeps == IInv /\ Register => IInv'
<1> SUFFICES ASSUME IInv, Register PROVE IInv'
  OBVIOUS
<1> DEFINE a == cmd.agent
           f == ServerFile(a, cmd.scope, cmd.dir)
<1>1. cmd \in Single /\ cmd.by \in live /\ cmd.by \in Interpreters
  BY CommandKinds DEF IInv, TypeOK, Register
<1>2. UNCHANGED <<hooks, broken, commented, creds, live, me, commands, mishaps>>
  BY DEF Register, health, counts
<1>3. CASE cmd' = NoCommand /\ UNCHANGED <<servers, skills>>
  BY <1>2, <1>3 DEF IInv, TypeOK, OnePerName, Completed, NoCommand
<1>4. CASE /\ cmd' = [cmd EXCEPT !.at = "credential"]
           /\ servers' = IF a \notin Registering \/ f \in commented THEN servers
                         ELSE [servers EXCEPT ![f] = Put(@, a, cmd.by)]
           /\ skills' = IF a \in Skilled THEN skills \cup {SkillFile(a, cmd.scope)} ELSE skills
  <2>1. /\ cmd' \in Single /\ cmd'.by = cmd.by /\ cmd'.at = "credential"
        /\ cmd'.agent = a /\ cmd'.scope = cmd.scope /\ cmd'.dir = cmd.dir
        /\ cmd.scope \in Scopes /\ cmd.dir \in Dirs /\ a \in Agents
    BY <1>1, <1>4 DEF Single
  <2>2. /\ servers' \in [ServerFiles -> SUBSET ServerEntries] /\ OnePerName'
        /\ (a \in Registering => f \in commented \/ <<a, cmd.by>> \in servers'[f])
    <3>1. CASE a \notin Registering \/ f \in commented
      BY <1>4, <3>1 DEF IInv, TypeOK, OnePerName
    <3>2. CASE a \in Registering /\ f \notin commented
      <4>1. f \in ServerFiles /\ servers' = [servers EXCEPT ![f] = Put(@, a, cmd.by)]
        BY <1>4, <2>1, <3>2, ServerFilesOf
      <4> HIDE DEF f, a
      <4> QED BY <1>1, <2>1, <4>1, ServersPut DEF IInv
    <3> QED BY <3>1, <3>2
  <2>3. \A g \in skills' : \E b \in Skilled, s \in Scopes : g = SkillFile(b, s)
    <3> HIDE DEF a
    <3> QED BY <1>4, <2>1 DEF IInv, TypeOK
  <2>4. TypeOK'
    BY <1>1, <1>2, <2>1, <2>2, <2>3 DEF IInv, TypeOK
  <2>5. HooksDone(cmd)'
    <3>1. HooksDone(cmd)
      BY DEF IInv, Completed, Register
    <3> QED BY <1>2, <2>1, <3>1 DEF HooksDone, Wired
  <2>6. ServersDone(cmd)'
    BY <1>2, <2>1, <2>2 DEF ServersDone
  <2> QED BY <2>2, <2>4, <2>5, <2>6 DEF IInv, Completed
<1> QED BY <1>3, <1>4 DEF Register, AfterBroken

LEMMA CredentialKeeps == IInv /\ Credential => IInv'
<1> SUFFICES ASSUME IInv, Credential PROVE IInv'
  OBVIOUS
<1>1. cmd \in Single /\ cmd.by \in live /\ cmd.by \in Interpreters
  BY CommandKinds DEF IInv, TypeOK, Credential
<1>2. cmd' \in Batch /\ cmd'.by = cmd.by /\ cmd'.at = "next"
  BY <1>1 DEF Credential, Single, Batch
<1>3. creds' \in [Agents -> {"none", "valid", "dead"}]
  <2>1. cmd.agent \in Agents
    BY <1>1 DEF Single
  <2> QED BY <2>1 DEF Credential, IInv, TypeOK
<1>4. TypeOK'
  BY <1>1, <1>2, <1>3 DEF IInv, TypeOK, Credential, files, counts
<1>5. OnePerName' /\ Completed'
  BY <1>2 DEF IInv, OnePerName, Completed, Credential, files
<1> QED BY <1>4, <1>5 DEF IInv

----------------------------------------------------------------------------
(* What a removal does to the files.                                       *)

LEMMA Removed ==
  ASSUME TypeOK, OnePerName, NEW i \in Interpreters, NEW a \in Agents, NEW s \in Scopes,
         NEW d \in Dirs, Remove(i, a, s, d)
  PROVE  /\ hooks' \in [Hooked -> [Scopes -> SUBSET HookEntries]]
         /\ \A b \in Hooked \ Bridged, t \in Scopes : hooks[b][t] \ hooks'[b][t] \subseteq Own(i, b)
         /\ \A b \in Hooked, t \in Scopes : <<b, t>> # <<a, s>> => hooks'[b][t] = hooks[b][t]
         /\ servers' \in [ServerFiles -> SUBSET ServerEntries] /\ OnePerName'
         /\ \A f \in ServerFiles : \A e \in servers[f] \ servers'[f] : e[1] = a
         /\ \A f \in ServerFiles \cap (commented \cup broken) : servers'[f] = servers[f]
         /\ skills' \subseteq skills
<1>1. /\ hooks' \in [Hooked -> [Scopes -> SUBSET HookEntries]]
      /\ \A b \in Hooked \ Bridged, t \in Scopes : hooks[b][t] \ hooks'[b][t] \subseteq Own(i, b)
      /\ \A b \in Hooked, t \in Scopes : <<b, t>> # <<a, s>> => hooks'[b][t] = hooks[b][t]
  <2>1. CASE UNCHANGED hooks
    BY <2>1 DEF TypeOK
  <2>2. CASE a \in Hooked /\ hooks' = [hooks EXCEPT ![a][s] = Left(@, i, a)]
    <3>1. PICK v : v = Left(hooks[a][s], i, a)
      OBVIOUS
    <3>2. v \in SUBSET HookEntries
      BY <2>2, <3>1 DEF TypeOK, Left
    <3>3. a \notin Bridged => hooks[a][s] \ v \subseteq Own(i, a)
      BY <3>1 DEF Left
    <3>4. hooks' = [hooks EXCEPT ![a][s] = v]
      BY <2>2, <3>1
    <3>5. /\ hooks' \in [Hooked -> [Scopes -> SUBSET HookEntries]]
          /\ hooks'[a][s] = v
          /\ \A b \in Hooked, t \in Scopes : <<b, t>> # <<a, s>> => hooks'[b][t] = hooks[b][t]
      BY <2>2, <3>2, <3>4, HooksWritten DEF TypeOK
    <3>6. ASSUME NEW b \in Hooked \ Bridged, NEW t \in Scopes
          PROVE  hooks[b][t] \ hooks'[b][t] \subseteq Own(i, b)
      <4>1. CASE b = a /\ t = s
        BY <3>3, <3>5, <4>1
      <4>2. CASE ~(b = a /\ t = s)
        <5>1. hooks'[b][t] = hooks[b][t]
          BY <3>5, <4>2
        <5> QED BY <5>1
      <4> QED BY <4>1, <4>2
    <3> QED BY <3>5, <3>6
  <2> QED BY <2>1, <2>2 DEF Remove, RemoveHooks
<1>2. /\ servers' \in [ServerFiles -> SUBSET ServerEntries] /\ OnePerName'
      /\ \A f \in ServerFiles : \A e \in servers[f] \ servers'[f] : e[1] = a
      /\ \A f \in ServerFiles \cap (commented \cup broken) : servers'[f] = servers[f]
  <2>1. CASE UNCHANGED servers
    BY <2>1 DEF TypeOK, OnePerName
  <2>2. ASSUME NEW f \in ServerFiles, f \notin broken \cup commented,
               servers' = [servers EXCEPT ![f] = {e \in @ : e[1] # a}]
        PROVE  /\ servers' \in [ServerFiles -> SUBSET ServerEntries] /\ OnePerName'
               /\ \A g \in ServerFiles : \A e \in servers[g] \ servers'[g] : e[1] = a
               /\ \A g \in ServerFiles \cap (commented \cup broken) : servers'[g] = servers[g]
    <3>1. PICK v : v = {e \in servers[f] : e[1] # a}
      OBVIOUS
    <3>2. v \subseteq servers[f] /\ \A e \in servers[f] \ v : e[1] = a
      BY <3>1
    <3>3. servers' = [servers EXCEPT ![f] = v]
      BY <2>2, <3>1
    <3>4. v \in SUBSET ServerEntries
      BY <3>2 DEF TypeOK
    <3>5. servers' \in [ServerFiles -> SUBSET ServerEntries]
      BY <3>3, <3>4 DEF TypeOK
    <3>6. servers'[f] = v /\ \A g \in ServerFiles \ {f} : servers'[g] = servers[g]
      BY <3>3 DEF TypeOK
    <3>7. OnePerName'
      BY <3>2, <3>6 DEF OnePerName
    <3> QED BY <2>2, <3>2, <3>5, <3>6, <3>7
  <2>3. CASE /\ a \in (GlobalOnly \cup Bridged) \cap Registering
             /\ ServerFile(a, s, d) \notin broken \cup commented
             /\ servers' = [servers EXCEPT ![ServerFile(a, s, d)] = {e \in @ : e[1] # a}]
    <3>1. PICK f : f = ServerFile(a, s, d)
      OBVIOUS
    <3>2. f \in ServerFiles
      BY <2>3, <3>1, ServerFilesOf
    <3> QED BY <2>2, <2>3, <3>1, <3>2
  <2> QED BY <2>1, <2>3 DEF Remove, RemoveServers
<1>3. skills' \subseteq skills
  BY DEF Remove, RemoveSkill
<1> QED BY <1>1, <1>2, <1>3

LEMMA UninstallKeeps == IInv /\ Uninstall => IInv'
<1> SUFFICES ASSUME IInv, Uninstall PROVE IInv'
  OBVIOUS
<1>1. PICK i \in live, d \in Dirs, toDir \in BOOLEAN, a \in Agents :
        Remove(i, a, Scope(a, toDir, d), d)
  BY DEF Uninstall
<1>2. i \in Interpreters /\ Scope(a, toDir, d) \in Scopes
  BY ScopesOfAgents DEF IInv, TypeOK
<1>3. /\ hooks' \in [Hooked -> [Scopes -> SUBSET HookEntries]]
      /\ servers' \in [ServerFiles -> SUBSET ServerEntries] /\ OnePerName'
      /\ skills' \subseteq skills
  BY <1>1, <1>2, Removed DEF IInv
<1>4. cmd' = NoCommand /\ UNCHANGED <<creds, live, me, mishaps>> /\ commands' \in Nat
  BY DEF Uninstall, IInv, TypeOK
<1>5. TypeOK'
  BY <1>3, <1>4 DEF IInv, TypeOK
<1>6. Completed'
  BY <1>4 DEF Completed, NoCommand
<1> QED BY <1>3, <1>5, <1>6 DEF IInv

LEMMA TeardownOneKeeps == IInv /\ TeardownOne => IInv'
<1> SUFFICES ASSUME IInv, TeardownOne PROVE IInv'
  OBVIOUS
<1>1. cmd \in Removal /\ cmd.by \in live /\ cmd.by \in Interpreters
  BY CommandKinds DEF IInv, TypeOK, TeardownOne
<1>2. PICK a \in cmd.rest : /\ Remove(cmd.by, a, Scope(a, FALSE, cmd.dir), cmd.dir)
                            /\ cmd' = [cmd EXCEPT !.rest = @ \ {a}]
  BY DEF TeardownOne
<1>3. a \in Agents /\ cmd.dir \in Dirs /\ Scope(a, FALSE, cmd.dir) \in Scopes
  BY <1>1, ScopesOfAgents DEF Removal
<1>4. /\ hooks' \in [Hooked -> [Scopes -> SUBSET HookEntries]]
      /\ servers' \in [ServerFiles -> SUBSET ServerEntries] /\ OnePerName'
      /\ skills' \subseteq skills
  BY <1>1, <1>2, <1>3, Removed DEF IInv
<1>5. cmd' \in Removal /\ cmd'.by = cmd.by /\ cmd'.at = "teardown"
  BY <1>1, <1>2 DEF Removal
<1>6. TypeOK'
  BY <1>1, <1>4, <1>5 DEF IInv, TypeOK, TeardownOne, counts
<1>7. Completed'
  BY <1>5 DEF Completed
<1> QED BY <1>4, <1>6, <1>7 DEF IInv

----------------------------------------------------------------------------

LEMMA OthersKeep ==
  IInv /\ (\/ Install \/ Teardown \/ ForgetCredentials \/ Follow \/ Interrupt \/ EditHooks
           \/ Spoil \/ Mend \/ Revoke \/ Vanish \/ UNCHANGED vars) => IInv'
<1> SUFFICES ASSUME IInv PROVE
      (\/ Install \/ Teardown \/ ForgetCredentials \/ Follow \/ Interrupt \/ EditHooks
       \/ Spoil \/ Mend \/ Revoke \/ Vanish \/ UNCHANGED vars) => IInv'
  OBVIOUS
<1>1. ASSUME UNCHANGED <<hooks, servers, skills>>,
             creds' \in [Agents -> {"none", "valid", "dead"}],
             cmd' = NoCommand \/ (cmd' \in Removal /\ cmd'.at = "teardown" /\ cmd'.by \in live'),
             live' \subseteq Interpreters /\ me' \in live',
             commands' \in Nat /\ mishaps' \in Nat
      PROVE  IInv'
  <2>1. TypeOK'
    BY <1>1 DEF IInv, TypeOK
  <2>2. OnePerName' /\ Completed'
    BY <1>1 DEF IInv, OnePerName, Completed, NoCommand
  <2> QED BY <2>1, <2>2 DEF IInv
<1>2. CASE Install
  <2>1. commands' \in Nat /\ mishaps' \in Nat
    BY <1>2 DEF Install, IInv, TypeOK
  <2>2. PICK i \in live, d \in Dirs, toDir \in BOOLEAN, batch \in Batches :
          Start(i, d, toDir, batch, FALSE)
    BY <1>2 DEF Install
  <2>3. batch \in SUBSET Agents /\ UNCHANGED <<files, health, creds, live, me>>
    BY <1>2, InstallersAssumption DEF Install
  <2> QED BY <2>1, <2>2, <2>3, StartKeeps
<1>3. CASE Follow
  <2>1. commands' \in Nat /\ mishaps' \in Nat
    BY <1>3 DEF Follow, counts, IInv, TypeOK
  <2>2. PICK a \in Agents, d \in Dirs : Start(me, d, Advice(me, a, d) = "install here", {a}, TRUE)
    BY <1>3 DEF Follow
  <2>3. PICK toDir \in BOOLEAN : Start(me, d, toDir, {a}, TRUE)
    BY <2>2
  <2>4. {a} \in SUBSET Agents /\ me \in live /\ UNCHANGED <<files, health, creds, live, me>>
    BY <1>3 DEF Follow, IInv, TypeOK
  <2> QED BY <2>1, <2>3, <2>4, StartKeeps
<1>4. CASE Teardown
  <2>1. cmd' \in Removal /\ cmd'.at = "teardown" /\ cmd'.by \in live'
    BY <1>4 DEF Teardown, Removal, IInv, TypeOK
  <2> QED BY <1>1, <1>4, <2>1 DEF Teardown, IInv, TypeOK, files
<1>5. CASE ForgetCredentials
  BY <1>1, <1>5 DEF ForgetCredentials, IInv, TypeOK, files, counts
<1>6. CASE Interrupt
  BY <1>1, <1>6 DEF Interrupt, Mishap, IInv, TypeOK, files
<1>7. CASE EditHooks
  <2>1. PICK a \in Hooked, s \in Scopes :
          \E e : hooks' = [hooks EXCEPT ![a][s] = @ \ {e}]
    BY <1>7 DEF EditHooks
  <2>2. PICK v \in SUBSET HookEntries : hooks' = [hooks EXCEPT ![a][s] = v]
    <3>1. PICK e : hooks' = [hooks EXCEPT ![a][s] = @ \ {e}]
      BY <2>1
    <3>2. hooks[a][s] \ {e} \in SUBSET HookEntries
      BY DEF IInv, TypeOK
    <3>3. hooks' = [hooks EXCEPT ![a][s] = hooks[a][s] \ {e}]
      BY <3>1
    <3> QED BY <3>2, <3>3
  <2>3. hooks' \in [Hooked -> [Scopes -> SUBSET HookEntries]]
    BY <2>2, HooksWritten DEF IInv, TypeOK
  <2>4. cmd' = NoCommand /\ UNCHANGED <<servers, skills, creds, live, me, commands>>
        /\ mishaps' \in Nat
    BY <1>7 DEF EditHooks, Mishap, IInv, TypeOK
  <2>5. TypeOK'
    BY <2>3, <2>4 DEF IInv, TypeOK
  <2>6. OnePerName' /\ Completed'
    BY <2>4 DEF IInv, OnePerName, Completed, NoCommand
  <2> QED BY <2>5, <2>6 DEF IInv
<1>8. CASE Spoil \/ Mend
  BY <1>1, <1>8 DEF Spoil, Mend, Mishap, IInv, TypeOK, files, counts
<1>9. CASE Revoke
  BY <1>1, <1>9 DEF Revoke, Mishap, IInv, TypeOK, files
<1>10. CASE Vanish
  BY <1>1, <1>10 DEF Vanish, Mishap, IInv, TypeOK, files
<1>11. CASE UNCHANGED vars
  BY <1>11 DEF vars, files, health, counts, IInv, TypeOK, OnePerName, Completed, HooksDone,
     ServersDone, Wired
<1> QED BY <1>2, <1>3, <1>4, <1>5, <1>6, <1>7, <1>8, <1>9, <1>10, <1>11

LEMMA NextKeeps == IInv /\ [Next]_vars => IInv'
BY NextAgentKeeps, WriteHooksKeeps, RegisterKeeps, CredentialKeeps, UninstallKeeps,
   TeardownOneKeeps, OthersKeep DEF Next, Step

LEMMA Invariance == Spec => []IInv
BY Initially, NextKeeps, PTL DEF Spec

\* The types of the configuration files, of the credentials and of the command
\* at work, whichever agents, interpreters and directories there are.
THEOREM InstallerTypes == Spec => []TypeOK
BY Invariance, PTL DEF IInv

\* _hook_wiring_ok: doctor is silent about an agent with hooks only where each
\* of its hook points runs.
THEOREM SilenceAlwaysEnforcement == Spec => []SilenceIsEnforcement
<1>1. SilenceIsEnforcement
  <2> SUFFICES ASSUME NEW i \in live, NEW a \in Hooked, NEW d \in Dirs, Silent(i, a, d)
               PROVE  Enforced(a, IF a \in Wide THEN {Machine} ELSE {d})
    BY DEF SilenceIsEnforcement
  <2>1. Wired(i, a, IF a \in Wide THEN Machine ELSE d)
    BY DEF Silent, Advice
  <2>2. \A k \in Keys[a] : <<i, k>> \in Own(i, a)
    BY DEF Own
  <2>3. CASE a \in Wide
    BY <2>1, <2>2, <2>3 DEF Wired, Enforced
  <2>4. CASE a \notin Wide
    BY <2>1, <2>2, <2>4 DEF Wired, Enforced
  <2> QED BY <2>3, <2>4
<1> QED BY <1>1, PTL

----------------------------------------------------------------------------
(* Nobody else's entries are touched.                                      *)

OthersStep ==
  /\ \E i \in live : \A a \in Hooked \ Bridged, s \in Scopes :
       hooks[a][s] \ hooks'[a][s] \subseteq Own(i, a)
  /\ \A f \in ServerFiles : \A e, g \in servers[f] \ servers'[f] : e = g /\ e[1] # Other
  /\ \A f \in commented \cup broken : f \in ServerFiles => servers'[f] = servers[f]

\* Where what a step takes out of a server file has one agent's name.
LEMMA OneServerGone ==
  ASSUME OnePerName, NEW a \in Agents,
         \A f \in ServerFiles : \A e \in servers[f] \ servers'[f] : e[1] = a
  PROVE  \A f \in ServerFiles : \A e, g \in servers[f] \ servers'[f] : e = g /\ e[1] # Other
BY InstallersAssumption DEF OnePerName

LEMMA HookStepAdds ==
  ASSUME IInv, WriteHooks, NEW a \in Hooked \ Bridged, NEW s \in Scopes
  PROVE  hooks[a][s] \subseteq hooks'[a][s]
<1>1. cmd \in Single /\ cmd.by \in live /\ cmd.scope \in Scopes /\ UNCHANGED servers
  BY CommandKinds DEF IInv, TypeOK, WriteHooks, Single
<1>2. CASE UNCHANGED hooks
  BY <1>2
<1>3. CASE cmd.agent \in Hooked /\ hooks' = [hooks EXCEPT ![cmd.agent][cmd.scope] =
                                              Merge(@, cmd.by, cmd.agent)]
  <2>1. PICK b, t, v : /\ b = cmd.agent /\ t = cmd.scope
                       /\ v = Merge(hooks[b][t], cmd.by, b)
    OBVIOUS
  <2>2. hooks' = [hooks EXCEPT ![b][t] = v]
    BY <1>3, <2>1
  <2>3. b \notin Bridged => hooks[b][t] \subseteq v
    BY <2>1 DEF Merge
  <2>4. hooks[b][t] \in SUBSET HookEntries /\ Own(cmd.by, b) \subseteq HookEntries
    BY <1>1, <1>3, <2>1, OwnEntries DEF IInv, TypeOK
  <2>5. v \in SUBSET HookEntries
    BY <2>1, <2>4 DEF Merge
  <2>6. hooks'[b][t] = v
        /\ (<<a, s>> # <<b, t>> => hooks'[a][s] = hooks[a][s])
    BY <1>1, <1>3, <2>1, <2>2, <2>5, HooksWritten DEF IInv, TypeOK
  <2>7. CASE a = b /\ s = t
    BY <2>3, <2>6, <2>7
  <2>8. CASE ~(a = b /\ s = t)
    <3>1. hooks'[a][s] = hooks[a][s]
      BY <2>6, <2>8
    <3> QED BY <3>1
  <2> QED BY <2>7, <2>8
<1> QED BY <1>2, <1>3 DEF WriteHooks

LEMMA HookStepSpares == IInv /\ WriteHooks => OthersStep
<1> SUFFICES ASSUME IInv, WriteHooks PROVE OthersStep
  OBVIOUS
<1>1. me \in live /\ UNCHANGED servers
  BY DEF IInv, TypeOK, WriteHooks
<1> QED BY <1>1, HookStepAdds DEF OthersStep

LEMMA RegisterSpares == IInv /\ Register => OthersStep
<1> SUFFICES ASSUME IInv, Register PROVE OthersStep
  OBVIOUS
<1>1. /\ cmd \in Single /\ cmd.by \in live /\ cmd.by \in Interpreters
      /\ cmd.scope \in Scopes /\ cmd.dir \in Dirs /\ cmd.agent \in Agents /\ UNCHANGED hooks
  BY CommandKinds DEF IInv, TypeOK, Register, Single
<1>2. \A a \in Hooked \ Bridged, s \in Scopes : hooks[a][s] \ hooks'[a][s] \subseteq Own(cmd.by, a)
  BY <1>1
<1>3. CASE UNCHANGED servers
  BY <1>1, <1>2, <1>3 DEF OthersStep
<1>4. CASE /\ cmd.agent \in Registering
           /\ ServerFile(cmd.agent, cmd.scope, cmd.dir) \notin commented \cup broken
           /\ servers' = [servers EXCEPT ![ServerFile(cmd.agent, cmd.scope, cmd.dir)] =
                            Put(@, cmd.agent, cmd.by)]
  <2>1. PICK f : f = ServerFile(cmd.agent, cmd.scope, cmd.dir)
    OBVIOUS
  <2>2. f \in ServerFiles /\ f \notin commented \cup broken
        /\ servers' = [servers EXCEPT ![f] = Put(@, cmd.agent, cmd.by)]
    BY <1>1, <1>4, <2>1, ServerFilesOf
  <2>3. /\ \A g \in ServerFiles \ {f} : servers'[g] = servers[g]
        /\ \A e \in servers[f] \ servers'[f] : e[1] = cmd.agent
    BY <1>1, <2>2, ServersPut DEF IInv
  <2>4. \A g \in ServerFiles : \A e \in servers[g] \ servers'[g] : e[1] = cmd.agent
    BY <2>3
  <2>5. \A g \in ServerFiles : \A e, h \in servers[g] \ servers'[g] : e = h /\ e[1] # Other
    BY <1>1, <2>4, OneServerGone DEF IInv
  <2>6. \A g \in commented \cup broken : g \in ServerFiles => servers'[g] = servers[g]
    BY <2>2, <2>3
  <2> QED BY <1>1, <1>2, <2>5, <2>6 DEF OthersStep
<1> QED BY <1>3, <1>4 DEF Register

LEMMA RemoveSpares ==
  ASSUME IInv, NEW i \in live, NEW a \in Agents, NEW s \in Scopes, NEW d \in Dirs,
         Remove(i, a, s, d)
  PROVE  OthersStep
<1>1. i \in Interpreters
  BY DEF IInv, TypeOK
<1>2. /\ \A b \in Hooked \ Bridged, t \in Scopes : hooks[b][t] \ hooks'[b][t] \subseteq Own(i, b)
      /\ \A f \in ServerFiles : \A e \in servers[f] \ servers'[f] : e[1] = a
      /\ \A f \in ServerFiles \cap (commented \cup broken) : servers'[f] = servers[f]
  BY <1>1, Removed DEF IInv
<1>3. \A f \in ServerFiles : \A e, g \in servers[f] \ servers'[f] : e = g /\ e[1] # Other
  BY <1>2, OneServerGone DEF IInv
<1> QED BY <1>2, <1>3 DEF OthersStep

\* merge_hook_list, remove_matching_commands and the MCP registration touch
\* entries of their own only, and at most one server.
THEOREM OthersAlwaysKept == Spec => OthersKept
<1>1. IInv /\ [Next]_vars => [mishaps' = mishaps => OthersStep]_vars
  <2> SUFFICES ASSUME IInv, Next, mishaps' = mishaps PROVE OthersStep
    OBVIOUS
  <2>1. mishaps \in Nat /\ me \in live
    BY DEF IInv, TypeOK
  <2>2. CASE UNCHANGED <<hooks, servers>>
    BY <2>1, <2>2 DEF OthersStep
  <2>3. CASE Uninstall
    BY <2>3, RemoveSpares, ScopesOfAgents DEF Uninstall
  <2>4. CASE TeardownOne
    <3>1. cmd \in Removal /\ cmd.by \in live
      BY <2>4, CommandKinds DEF IInv, TeardownOne
    <3> QED BY <2>4, <3>1, RemoveSpares, ScopesOfAgents DEF TeardownOne, Removal
  <2>5. CASE Interrupt \/ EditHooks \/ Spoil \/ Revoke \/ Vanish
    BY <2>1, <2>5 DEF Interrupt, EditHooks, Spoil, Revoke, Vanish, Mishap
  <2>6. CASE Install \/ Teardown \/ Follow \/ NextAgent \/ Credential \/ ForgetCredentials \/ Mend
    BY <2>2, <2>6 DEF Install, Teardown, Follow, NextAgent, Credential, ForgetCredentials, Mend, files
  <2> QED BY <2>3, <2>4, <2>5, <2>6, HookStepSpares, RegisterSpares DEF Next, Step
<1> QED BY <1>1, Invariance, PTL DEF Spec, OthersKept, OthersStep

\* The wiring of an agent by one interpreter goes only when that interpreter
\* removes it from that place, or by hand: no install, and nobody else's
\* uninstall or teardown, takes a hook point of it (remove_matching_commands).
THEOREM WiringLasts ==
  Spec => [][\A i \in Interpreters, a \in Hooked \ Bridged, s \in Scopes :
               mishaps' = mishaps /\ Wired(i, a, s) =>
                 Wired(i, a, s)' \/ \E d \in Dirs : Remove(i, a, s, d)]_vars
<1>1. IInv /\ [Next]_vars =>
        [\A i \in Interpreters, a \in Hooked \ Bridged, s \in Scopes :
           mishaps' = mishaps /\ Wired(i, a, s) =>
             Wired(i, a, s)' \/ \E d \in Dirs : Remove(i, a, s, d)]_vars
  <2> SUFFICES ASSUME IInv, Next, mishaps' = mishaps,
                      NEW i \in Interpreters, NEW a \in Hooked \ Bridged, NEW s \in Scopes,
                      Wired(i, a, s)
               PROVE  Wired(i, a, s)' \/ \E d \in Dirs : Remove(i, a, s, d)
    OBVIOUS
  <2>1. CASE UNCHANGED hooks
    BY <2>1 DEF Wired
  <2>2. CASE WriteHooks
    <3>1. hooks[a][s] \subseteq hooks'[a][s]
      BY <2>2, HookStepAdds
    <3> QED BY <3>1 DEF Wired
  <2>3. ASSUME NEW j \in live, NEW b \in Agents, NEW t \in Scopes, NEW d \in Dirs,
               Remove(j, b, t, d)
        PROVE  Wired(i, a, s)' \/ \E e \in Dirs : Remove(i, a, s, e)
    <3>1. /\ hooks[a][s] \ hooks'[a][s] \subseteq Own(j, a)
          /\ <<a, s>> # <<b, t>> => hooks'[a][s] = hooks[a][s]
      BY <2>3, Removed DEF IInv, TypeOK
    <3>2. CASE <<a, s>> # <<b, t>>
      BY <3>1, <3>2 DEF Wired
    <3>3. CASE i # j
      <4>1. Own(i, a) \cap Own(j, a) = {}
        BY <3>3 DEF Own
      <4> QED BY <3>1, <4>1 DEF Wired
    <3>4. CASE a = b /\ s = t /\ i = j
      BY <2>3, <3>4
    <3> QED BY <3>2, <3>3, <3>4
  <2>4. CASE Uninstall
    BY <2>3, <2>4, ScopesOfAgents DEF Uninstall
  <2>5. CASE TeardownOne
    <3>1. cmd \in Removal /\ cmd.by \in live
      BY <2>5, CommandKinds DEF IInv, TeardownOne
    <3> QED BY <2>3, <2>5, <3>1, ScopesOfAgents DEF TeardownOne, Removal
  <2>6. CASE EditHooks
    <3>1. mishaps \in Nat
      BY DEF IInv, TypeOK
    <3> QED BY <2>6, <3>1 DEF EditHooks, Mishap
  <2>7. CASE \/ Install \/ Teardown \/ Follow \/ NextAgent \/ Register \/ Credential
             \/ ForgetCredentials \/ Interrupt \/ Spoil \/ Mend \/ Revoke \/ Vanish
    BY <2>1, <2>7 DEF Install, Teardown, Follow, NextAgent, Register, Credential,
       ForgetCredentials, Interrupt, Spoil, Mend, Revoke, Vanish, files
  <2> QED BY <2>2, <2>4, <2>5, <2>6, <2>7 DEF Next, Step
<1> QED BY <1>1, Invariance, PTL DEF Spec

----------------------------------------------------------------------------

\* _install_one: the credential is stored last, of an agent this very command
\* has wired and registered.
THEOREM AlwaysArmedAfterWiring == Spec => ArmedAfterWiring
<1> DEFINE Armed == \A a \in Agents : creds'[a] # creds[a] /\ creds'[a] = "valid" =>
              /\ a \in Hooked => Wired(cmd.by, a, cmd.scope)
              /\ a \in Registering =>
                   LET f == ServerFile(a, cmd.scope, cmd.dir)
                   IN f \in commented \/ <<a, cmd.by>> \in servers[f]
<1>1. IInv /\ [Next]_vars => [Armed]_vars
  <2> SUFFICES ASSUME IInv, Next, NEW a \in Agents, creds'[a] # creds[a], creds'[a] = "valid"
      PROVE  /\ a \in Hooked => Wired(cmd.by, a, cmd.scope)
             /\ a \in Registering =>
                  LET f == ServerFile(a, cmd.scope, cmd.dir)
                  IN f \in commented \/ <<a, cmd.by>> \in servers[f]
    OBVIOUS
  <2>1. creds \in [Agents -> {"none", "valid", "dead"}]
    BY DEF IInv, TypeOK
  <2>2. CASE Credential
    <3>1. a = cmd.agent /\ cmd.at = "credential"
      BY <2>1, <2>2 DEF Credential
    <3> QED BY <3>1 DEF IInv, Completed, HooksDone, ServersDone
  <2>3. CASE ForgetCredentials \/ Revoke
    BY <2>1, <2>3 DEF ForgetCredentials, Revoke
  <2>4. CASE UNCHANGED creds
    BY <2>4
  <2> QED BY <2>2, <2>3, <2>4 DEF Next, Step, Install, Uninstall, Teardown, Follow, NextAgent,
        WriteHooks, Register, TeardownOne, Interrupt, EditHooks, Spoil, Mend, Vanish
<1> QED BY <1>1, Invariance, PTL DEF Spec, ArmedAfterWiring
=============================================================================
