----------------------------- MODULE HookDecide -----------------------------
(***************************************************************************)
(* The connector's hook: one process per intercepted tool call.  decide()  *)
(* settles most calls by itself, reports its own denials to the server,    *)
(* and relays a read of one .abe file, logging the user in on the way.     *)
(* Hooks share the human session, the agent's stored credential and the    *)
(* one port on which a browser login is awaited.                           *)
(*                                                                         *)
(* The patterns of detection.py are abstracted to what they found in the   *)
(* call; adapters never classify one call as both a write and an execute.  *)
(***************************************************************************)
EXTENDS Naturals, Sequences, FiniteSets

CONSTANTS
  Hooks,    \* hook processes
  Files,    \* existing .abe files
  Calls,    \* the calls the agent attempts
  None

CallType ==
  [store     : BOOLEAN,      \* names the credential or the session file
   execute   : BOOLEAN,      \* runs a command
   internals : BOOLEAN,      \* names pabel_connector or pabel-connector-hook
   oabe      : BOOLEAN,      \* names an oabe_* binary
   mcp       : {"none", "pabel", "pabel-connector"},
   write     : {"none", "abe", "config", "other"},    \* what it writes to
   mentions  : BOOLEAN,      \* names an .abe file or documents/
   files     : SUBSET Files] \* the .abe files it names that exist

LocalDenials == {"DENY_CREDENTIAL_ACCESS", "DENY_HOOK_BYPASS", "DENY_MUTATING",
                 "DENY_CONFIG_TAMPER", "DENY_OABE_BINARY", "DENY_AMBIGUOUS"}
RelayDenials == {"DENY_AUTH_ERROR", "DENY_RELAY_ERROR"}
Kinds == {"ALLOW", "DENY_WITH_RELAY"} \cup LocalDenials \cup RelayDenials
Tasks == {"read", "inject", "report"}

ASSUME CallsAssumption ==
  /\ Calls \subseteq CallType
  /\ \A c \in Calls : /\ c.execute => c.write = "none"
                      /\ c.files # {} => c.mentions
  /\ None \notin Kinds \cup Tasks

----------------------------------------------------------------------------
(* The policy: the first check of decide() that applies settles the call.  *)

\* What a write is denied for is its target, never its content.
WriteVerdict(c) ==
  CASE c.write = "abe"    -> "DENY_MUTATING"
    [] c.write = "config" -> "DENY_CONFIG_TAMPER"
    [] OTHER              -> "ALLOW"

ReadVerdict_FilesFirst(c) ==    \* mutant: two checks swapped
  IF ~c.mentions THEN "ALLOW"
  ELSE IF c.execute /\ c.oabe THEN "DENY_OABE_BINARY"
  ELSE IF c.files = {} THEN "DENY_AMBIGUOUS" ELSE "relay"

ReadVerdict(c) ==
  IF c.execute /\ c.oabe THEN "DENY_OABE_BINARY"
  ELSE IF ~c.mentions THEN "ALLOW"
  ELSE IF c.files = {} THEN "DENY_AMBIGUOUS" ELSE "relay"

Verdict(c) ==
  IF c.store THEN "DENY_CREDENTIAL_ACCESS"
  ELSE IF c.execute /\ c.internals THEN "DENY_HOOK_BYPASS"
  ELSE IF c.mcp = "pabel-connector" THEN "own tools"
  ELSE IF c.mcp = "pabel" THEN "server tools"
  ELSE IF c.write # "none" THEN WriteVerdict(c) ELSE ReadVerdict(c)

----------------------------------------------------------------------------

VARIABLES
  session,     \* the human's session file: "none", "live" or "expired"
  credential,  \* whether the agent's credential is stored
  port,        \* the hook whose callback listener holds the port
  pc,          \* where each hook is
  call,        \* the call it was started for
  task,        \* what it needs its tokens for
  kind,        \* its decision, once made
  trail        \* what it left behind

vars == <<session, credential, port, pc, call, task, kind, trail>>

Trails == [reads : 0..2, logins : 0..1, reports : 0..1, logs : 0..1,
           served : SUBSET {"ok", "denied", "report"}]  \* records at the server
Attempts(reads, reports) ==
  [reads |-> reads, logins |-> 0, reports |-> reports, logs |-> 0, served |-> {}]
NoTrail == Attempts(0, 0)

Running == {"agent token", "human token", "server", "login", "callback", "log"}
Over == {"idle", "decided", "crashed"}

Init ==
  /\ session \in {"none", "live"}
  /\ credential \in BOOLEAN
  /\ port = None
  /\ pc = [h \in Hooks |-> "idle"]
  /\ call = [h \in Hooks |-> None]
  /\ task = [h \in Hooks |-> None]
  /\ kind = [h \in Hooks |-> None]
  /\ trail = [h \in Hooks |-> NoTrail]

Goto(h, l) == pc' = [pc EXCEPT ![h] = l]
Decide(h, k) == kind' = [kind EXCEPT ![h] = k]
Conclude(h, k) == Decide(h, k) /\ Goto(h, "log")
shared == <<session, credential, port>>

----------------------------------------------------------------------------
(* decide(), up to its first call that waits.                              *)

Start(h) ==
  /\ pc[h] = "idle"
  /\ \E c \in Calls :
       LET v == Verdict(c) IN
       /\ call' = [call EXCEPT ![h] = c]
       /\ Goto(h, CASE v = "own tools" -> "log"
                    [] v = "ALLOW"     -> "decided"
                    [] OTHER           -> "agent token")
       /\ Decide(h, CASE v = "own tools" -> "ALLOW"
                      [] v \in Kinds     -> v
                      [] OTHER           -> None)
       /\ task' = [task EXCEPT ![h] = CASE v = "relay"          -> "read"
                                        [] v = "server tools"   -> "inject"
                                        [] v \in LocalDenials   -> "report"
                                        [] OTHER                -> None]
       /\ trail' = [trail EXCEPT ![h] =
            Attempts(IF v = "relay" THEN 1 ELSE 0, IF v \in LocalDenials THEN 1 ELSE 0)]
  /\ UNCHANGED shared

----------------------------------------------------------------------------
(* The relay (relay.py): tokens, the server, and what each failure means.  *)

\* An AuthError.  The first one of a read opens a login; a report swallows
\* it; an injection lets the call through unmodified.
AuthFails_Again(h) ==        \* mutant: every AuthError opens a login
  /\ \/ task[h] = "read" /\ Goto(h, "login") /\ UNCHANGED kind
     \/ task[h] = "report" /\ Goto(h, "log") /\ UNCHANGED kind
     \/ task[h] = "inject" /\ Conclude(h, "ALLOW")
  /\ UNCHANGED <<call, task>>

AuthFails_Repeats(h) ==      \* mutant: a report is tried until it gets through
  /\ \/ task[h] = "read" /\ trail[h].reads = 1 /\ Goto(h, "login") /\ UNCHANGED kind
     \/ task[h] = "read" /\ trail[h].reads = 2 /\ Conclude(h, "DENY_AUTH_ERROR")
     \/ task[h] = "report" /\ Goto(h, "agent token") /\ UNCHANGED kind
     \/ task[h] = "inject" /\ Conclude(h, "ALLOW")
  /\ UNCHANGED <<call, task>>

AuthFails(h) ==
  /\ \/ task[h] = "read" /\ trail[h].reads = 1 /\ Goto(h, "login") /\ UNCHANGED kind
     \/ task[h] = "read" /\ trail[h].reads = 2 /\ Conclude(h, "DENY_AUTH_ERROR")
     \/ task[h] = "report" /\ Goto(h, "log") /\ UNCHANGED kind
     \/ task[h] = "inject" /\ Conclude(h, "ALLOW")
  /\ UNCHANGED <<call, task>>

\* Any other failure of the relay, a report's own short timeout included (it
\* can strike only where the code awaits): never a reason to log in.
RelayFails(h) ==
  /\ \/ task[h] = "read" /\ Conclude(h, "DENY_RELAY_ERROR")
     \/ task[h] = "report" /\ Goto(h, "log") /\ UNCHANGED kind
  /\ UNCHANGED <<call, task>>

\* agent_session.access_token, preceded in a read by reading the file.
AgentToken(h) ==
  /\ pc[h] = "agent token"
  /\ \/ /\ credential
        /\ \/ task[h] = "inject" /\ Conclude(h, "ALLOW")
           \/ task[h] # "inject" /\ Goto(h, "human token") /\ UNCHANGED kind
        /\ UNCHANGED <<call, task>>
     \/ AuthFails(h)                 \* none stored, refused, or unreachable
     \/ task[h] = "read" /\ RelayFails(h)                         \* OSError
  /\ UNCHANGED <<shared, trail>>

\* session.access_token, after looking up PABEL_SERVER_URL.
HumanToken(h) ==
  /\ pc[h] = "human token"
  /\ \/ /\ session # "none"
        /\ session' = "live"                        \* refreshed when expired
        /\ Goto(h, "server")
        /\ UNCHANGED <<call, task, kind>>
     \/ session # "live" /\ AuthFails(h) /\ UNCHANGED session
     \/ RelayFails(h) /\ UNCHANGED session                     \* no such URL
  /\ UNCHANGED <<credential, port, trail>>

\* The call itself.  The server may answer, answer with an error, or do
\* either and the answer be lost; or the call never gets to a tool.
CallServer_Forgets(h) ==     \* mutant: an empty answer counts as a result
  /\ pc[h] = "server"
  /\ \/ \E r \in (IF task[h] = "report" THEN {"report"} ELSE {"ok", "denied"}) :
          trail' = [trail EXCEPT ![h].served = @ \cup {r}]
     \/ UNCHANGED trail
  /\ IF task[h] = "read" THEN Conclude(h, "DENY_WITH_RELAY")
                         ELSE Goto(h, "log") /\ UNCHANGED kind
  /\ UNCHANGED <<call, task, shared>>

CallServer(h) ==
  /\ pc[h] = "server"
  /\ \/ /\ task[h] = "read"
        /\ trail' = [trail EXCEPT ![h].served = @ \cup {"ok"}]
        /\ \/ Conclude(h, "DENY_WITH_RELAY") /\ UNCHANGED <<call, task>>
           \/ RelayFails(h)
     \/ /\ trail' = [trail EXCEPT ![h].served =
                       @ \cup {IF task[h] = "report" THEN "report" ELSE "denied"}]
        /\ RelayFails(h)
     \/ RelayFails(h) /\ UNCHANGED trail
  /\ UNCHANGED shared

\* session.login(): the browser, then the listener on the one port.
Login(h) ==
  /\ pc[h] = "login"
  /\ \/ /\ port = None
        /\ port' = h
        /\ Goto(h, "callback")
        /\ UNCHANGED kind
     \/ Conclude(h, "DENY_AUTH_ERROR") /\ UNCHANGED port    \* no browser
  /\ UNCHANGED <<session, credential, call, task, trail>>

\* The redirect arrives and its code is exchanged, or the wait is over.
Callback(h) ==
  /\ pc[h] = "callback"
  /\ port' = None
  /\ \/ /\ session' = "live"
        /\ trail' = [trail EXCEPT ![h].logins = @ + 1, ![h].reads = @ + 1]
        /\ Goto(h, "agent token")
        /\ UNCHANGED kind
     \/ Conclude(h, "DENY_AUTH_ERROR") /\ UNCHANGED <<session, trail>>
  /\ UNCHANGED <<credential, call, task>>

\* An exception decide() does not catch leaves the hook without a decision:
\* a file that does not parse, or a port that is taken.
Escape(h) ==
  /\ \/ pc[h] \in {"agent token", "human token"} /\ task[h] # "report"
     \/ pc[h] = "login" /\ port # None
  /\ Goto(h, "crashed")
  /\ UNCHANGED <<shared, call, task, kind, trail>>

\* audit_log.append_entry, the last thing before the decision is returned.
LogLocally(h) ==
  /\ pc[h] = "log"
  /\ trail' = [trail EXCEPT ![h].logs = @ + 1]
  /\ Goto(h, "decided")
  /\ UNCHANGED <<shared, call, task, kind>>

\* The agent kills a hook that outlives its timeout.
Kill(h) ==
  /\ pc[h] \in Running
  /\ port' = IF port = h THEN None ELSE port
  /\ Goto(h, "crashed")
  /\ UNCHANGED <<session, credential, call, task, kind, trail>>

\* Outside the hooks: tokens age, people log in, out, and install.
Outside ==
  /\ \/ session = "live" /\ session' \in {"expired", "none"} /\ UNCHANGED credential
     \/ session # "live" /\ session' \in {"live", "none"} /\ UNCHANGED credential
     \/ ~credential /\ credential' = TRUE /\ UNCHANGED session
  /\ UNCHANGED <<port, pc, call, task, kind, trail>>

----------------------------------------------------------------------------

Step(h) == \/ AgentToken(h) \/ HumanToken(h) \/ CallServer(h)
           \/ Login(h) \/ Callback(h) \/ Escape(h) \/ LogLocally(h)

Next == Outside \/ \E h \in Hooks : Start(h) \/ Step(h) \/ Kill(h)

\* Every wait of a hook has a timeout: 3 s for a report, 10 s for Keycloak,
\* 180 s for the browser, and the MCP client's own for the server.
Spec == Init /\ [][Next]_vars /\ \A h \in Hooks : WF_vars(Step(h))

----------------------------------------------------------------------------

TypeOK ==
  /\ session \in {"none", "live", "expired"}
  /\ credential \in BOOLEAN
  /\ port \in Hooks \cup {None}
  /\ pc \in [Hooks -> Running \cup Over]
  /\ call \in [Hooks -> Calls \cup {None}]
  /\ task \in [Hooks -> Tasks \cup {None}]
  /\ kind \in [Hooks -> Kinds \cup {None}]
  /\ trail \in [Hooks -> Trails]

Decided(h) == pc[h] = "decided"

\* Whatever else a call is classified as, it is let through only if it is one
\* of PABEL's own tools or touches nothing that is protected: no secret, no
\* internals, no OpenABE binary, no protected file as its target, no .abe file.
OnlyHarmlessIsAllowed ==
  \A h \in Hooks : Decided(h) /\ kind[h] = "ALLOW" =>
    LET c == call[h] IN
    /\ ~c.store
    /\ ~(c.execute /\ c.internals)
    /\ \/ c.mcp # "none"
       \/ c.write = "other"
       \/ c.write = "none" /\ ~(c.execute /\ c.oabe) /\ ~c.mentions

\* The decision and the two audit trails agree: content is handed over only
\* if the server served and recorded this very read; an authentication denial
\* never got as far as the server; exactly the local denials were reported,
\* once; exactly the PABEL-relevant outcomes were logged, once, before the
\* decision was returned.
TrailsAgree ==
  \A h \in Hooks : Decided(h) =>
    /\ kind[h] = "DENY_WITH_RELAY" => "ok" \in trail[h].served
    /\ kind[h] = "DENY_AUTH_ERROR" => trail[h].served = {}
    /\ trail[h].reports = 1 <=> kind[h] \in LocalDenials
    /\ trail[h].logs = 0 <=> kind[h] = "ALLOW" /\ call[h].mcp = "none"

\* One call costs its user at most one login, and a second read only after it.
OneLoginOneRetry ==
  \A h \in Hooks : pc[h] \in {"login", "callback"} \cup Over =>
    /\ trail[h].logins <= 1
    /\ trail[h].reads <= 1 + trail[h].logins
    /\ pc[h] \in {"login", "callback"} => trail[h].logins = 0

\* Every hook ends, with or without a decision.
EveryHookEnds == \A h \in Hooks : pc[h] \in Running ~> pc[h] \in Over
=============================================================================
