---------------------------- MODULE PabelServer ----------------------------
(***************************************************************************)
(* The PABEL server: the three MCP tools of server/mcp_server.py, the      *)
(* two-principal checks and the key cache of server/core.py they run, and  *)
(* the Postgres tables of server/schema.sql they share.                    *)
(*                                                                         *)
(* A server process runs its (synchronous) tools one at a time, so the     *)
(* interleavings are those of several processes - one streamable-http      *)
(* server and any number of per-session stdio processes - with each other  *)
(* and with agents_admin.py.  Every db.* function opens an autocommit      *)
(* connection and runs one statement, so each is one atomic step.          *)
(*                                                                         *)
(* SHA-256 is taken to be injective, so the hash of an attribute string is *)
(* the string itself; a key is the string oabe_keygen made it for.         *)
(***************************************************************************)
EXTENDS AbeAttributes

CONSTANTS
  Servers,      \* server processes
  HttpServers,  \* those running streamable-http; the others run stdio
  Users, Agents, Clients, Roles, Tokens,
  Claims,       \* what a verified human token may say
  Products,     \* what an administrator may register for an agent product
  Requests,     \* the tool calls made: tool, azp of the agent token (None for
                \* a token without one), and the document, as the sequence of
                \* its sections' policies
  None          \* a NULL, a missing row, a Python None

Tools == {"whoami", "read_document", "report_denial"}

\* How a call may end, why, and the sections that came back readable.
Causes == {"none", "identity", "agent token", "installation", "product",
           "no attributes", "exception"}
Answers == [result : {"ok", "denied", "error"}, cause : Causes,
            readable : SUBSET Nat]

ASSUME ConstantsAssumption ==
  /\ HttpServers \subseteq Servers
  /\ Claims \subseteq [user : Users, attrs : Seq(Tokens), roles : SUBSET Roles]
  /\ Products \subseteq [attrs : Seq(Tokens), role : Roles]
  /\ Requests \subseteq [tool : Tools, azp : Clients \cup {None},
                          doc : Seq(SUBSET Tokens)]
  /\ None \notin Answers

VARIABLES
  agents,         \* table agents, by agent_id
  installations,  \* table agent_installations, by client_id
  agentKeys,      \* table agent_keys, by (username, agent_id)
  pc,             \* where each process is in the call it serves
  req,            \* that call's tool, document and agent token
  ctx,            \* that call's local variables and audit context
  answer,         \* how that call ended
  trail           \* what that call's attempts at each audit store came to

vars == <<agents, installations, agentKeys, pc, req, ctx, answer, trail>>

AgentRows == [attrs : Seq(Tokens), role : Roles, enabled : BOOLEAN]
InstallationRows == [agent : Agents, revoked : BOOLEAN]
KeyRows == [hash : Seq(Tokens), key : Seq(Tokens)]

Contexts == [claims  : Claims \cup {None},   \* None until the human is known
             product : Agents \cup {None},   \* agent_id of the row just read
             agent   : Agents \cup {None},   \* agent_id once resolved
             attrs   : Seq(Tokens),          \* what the agent contributes
             key     : Seq(Tokens) \cup {None}]
NoContext == [claims |-> None, product |-> None, agent |-> None,
              attrs |-> <<>>, key |-> None]

Records == [result : {"ok", "denied", "error"},
            user : Users \cup {None}, agent : Agents \cup {None}]
Trails == [file : Seq(Records \cup {None}), table : Seq(Records \cup {None})]
NoTrail == [file |-> <<>>, table |-> <<>>]

Serving == {"identity", "agent token", "installation", "product", "lookup",
            "keygen", "store", "decrypt", "audit file", "audit table"}
Resting == {"idle", "rejected", "done"}

Init ==
  /\ agents = [a \in Agents |-> None]
  /\ installations = [c \in Clients |-> None]
  /\ agentKeys = [ua \in Users \X Agents |-> None]
  /\ pc = [s \in Servers |-> "idle"]
  /\ req = [s \in Servers |-> None]
  /\ ctx = [s \in Servers |-> NoContext]
  /\ answer = [s \in Servers |-> None]
  /\ trail = [s \in Servers |-> NoTrail]

----------------------------------------------------------------------------
(* Helpers: how a step moves the call on, and how a call ends.             *)

Goto(s, l) == pc' = [pc EXCEPT ![s] = l]
Local(s, c) == ctx' = [ctx EXCEPT ![s] = c]

\* The tool body is over: audit_op writes the record before the caller gets
\* the result or the exception.
End(s, result, cause, readable) ==
  /\ answer' = [answer EXCEPT ![s] = [result |-> result, cause |-> cause,
                                      readable |-> readable]]
  /\ Goto(s, "audit file")

Deny(s, cause) == End(s, "denied", cause, {})

RolesOf(s) == IF ctx[s].claims = None THEN {} ELSE ctx[s].claims.roles
Combined(s) == ctx[s].claims.attrs \o ctx[s].attrs
KeyOf(s) == <<ctx[s].claims.user, ctx[s].agent>>

----------------------------------------------------------------------------
(* One tool call, step by step.                                            *)

\* A call reaches the tool.
Begin(s) ==
  /\ pc[s] \in Resting
  /\ \E r \in Requests : req' = [req EXCEPT ![s] = r]
  /\ Local(s, NoContext)
  /\ answer' = [answer EXCEPT ![s] = None]
  /\ trail' = [trail EXCEPT ![s] = NoTrail]
  /\ Goto(s, "identity")
  /\ UNCHANGED <<agents, installations, agentKeys>>

\* streamable-http only: the bearer middleware refuses a request whose human
\* token does not verify, before any tool (and audit_op) runs.
Reject(s) ==
  /\ s \in HttpServers
  /\ pc[s] \in Resting
  /\ \E r \in Requests : req' = [req EXCEPT ![s] = r]
  /\ Local(s, NoContext)
  /\ answer' = [answer EXCEPT ![s] = None]
  /\ trail' = [trail EXCEPT ![s] = NoTrail]
  /\ Goto(s, "rejected")
  /\ UNCHANGED <<agents, installations, agentKeys>>

\* current_identity(): verified claims, or AuthError.  report_denial alone
\* goes on without a human.
Identify(s) ==
  /\ pc[s] = "identity"
  /\ \E c \in Claims : Local(s, [ctx[s] EXCEPT !.claims = c])
  /\ Goto(s, "agent token")
  /\ UNCHANGED <<agents, installations, agentKeys, req, answer, trail>>

Unidentified(s) ==
  /\ pc[s] = "identity"
  /\ \/ /\ req[s].tool = "report_denial"
        /\ Goto(s, "agent token")
        /\ UNCHANGED answer
     \/ /\ req[s].tool # "report_denial"
        /\ Deny(s, "identity")
  /\ UNCHANGED <<agents, installations, agentKeys, req, ctx, trail>>

\* resolve_agent(), in the order of its three look-ups.
VerifyAgentToken_NoDenial(s) ==     \* mutant: a token that fails hangs the call
  /\ pc[s] = "agent token"
  /\ req[s].azp # None
  /\ Goto(s, "installation")
  /\ UNCHANGED <<agents, installations, agentKeys, req, ctx, answer, trail>>

VerifyAgentToken(s) ==
  /\ pc[s] = "agent token"
  /\ \/ /\ req[s].azp # None
        /\ Goto(s, "installation")
        /\ UNCHANGED answer
     \/ Deny(s, "agent token")
  /\ UNCHANGED <<agents, installations, agentKeys, req, ctx, trail>>

Active_Present(row) == row # None   \* mutant: the revoked column is not read
Active(row) == row # None /\ ~row.revoked

ReadInstallation(s) ==
  LET row == installations[req[s].azp] IN
  /\ pc[s] = "installation"
  /\ \/ /\ Active(row)
        /\ Local(s, [ctx[s] EXCEPT !.product = row.agent])
        /\ Goto(s, "product")
        /\ UNCHANGED answer
     \/ /\ ~Active(row)
        /\ Deny(s, "installation")
        /\ UNCHANGED ctx
  /\ UNCHANGED <<agents, installations, agentKeys, req, trail>>

\* A user without the product's role is let through with "" for the agent.
Contribution_None(s, row) ==        \* mutant: None instead of ""
  IF row.role \in RolesOf(s) THEN row.attrs ELSE None
Contribution_Anyone(s, row) == row.attrs    \* mutant: no role check
Contribution(s, row) == IF row.role \in RolesOf(s) THEN row.attrs ELSE <<>>

Enabled_Inverted(row) == row # None /\ ~row.enabled    \* mutant
Enabled(row) == row # None /\ row.enabled

ReadAgent(s) ==
  LET row == agents[ctx[s].product] IN
  /\ pc[s] = "product"
  /\ \/ /\ Enabled(row)
        /\ Local(s, [ctx[s] EXCEPT !.agent = ctx[s].product,
                                   !.attrs = Contribution(s, row)])
        /\ \/ /\ req[s].tool = "read_document"
              /\ Goto(s, "lookup")
              /\ UNCHANGED answer
           \/ /\ req[s].tool # "read_document"
              /\ End(s, "ok", "none", {})
     \/ /\ ~Enabled(row)
        /\ Deny(s, "product")
        /\ UNCHANGED ctx
  /\ UNCHANGED <<agents, installations, agentKeys, req, trail>>

\* agent_session_key(): the cached key when its hash is the current one, a
\* new key otherwise; the caller uses the key it made, not the row it stored.
Hit_AnyHash(s, row) == row # None   \* mutant: the hash is not compared
Hit_UserPart(s, row) ==             \* mutant: the agent's part is not hashed
  row # None /\ SubSeq(row.hash, 1, Len(ctx[s].claims.attrs)) = ctx[s].claims.attrs
Hit(s, row) == row # None /\ row.hash = Combined(s)

LookupKey(s) ==
  LET row == agentKeys[KeyOf(s)] IN
  /\ pc[s] = "lookup"
  /\ \/ /\ ctx[s].claims.attrs = <<>>
        /\ Deny(s, "no attributes")
        /\ UNCHANGED ctx
     \/ /\ ctx[s].claims.attrs # <<>>
        /\ Hit(s, row)
        /\ Local(s, [ctx[s] EXCEPT !.key = row.key])
        /\ Goto(s, "decrypt")
        /\ UNCHANGED answer
     \/ /\ ctx[s].claims.attrs # <<>>
        /\ ~Hit(s, row)
        /\ Goto(s, "keygen")
        /\ UNCHANGED <<ctx, answer>>
  /\ UNCHANGED <<agents, installations, agentKeys, req, trail>>

Keygen(s) ==
  /\ pc[s] = "keygen"
  /\ Local(s, [ctx[s] EXCEPT !.key = Combined(s)])
  /\ Goto(s, "store")
  /\ UNCHANGED <<agents, installations, agentKeys, req, answer, trail>>

StoreKey_HashOnly(s) ==      \* mutant: ON CONFLICT forgets key_material
  /\ pc[s] = "store"
  /\ agentKeys' = [agentKeys EXCEPT ![KeyOf(s)] =
       [hash |-> Combined(s), key |-> IF @ = None THEN ctx[s].key ELSE @.key]]
  /\ Goto(s, "decrypt")
  /\ UNCHANGED <<agents, installations, req, ctx, answer, trail>>

StoreKey(s) ==
  /\ pc[s] = "store"
  /\ agentKeys' = [agentKeys EXCEPT ![KeyOf(s)] =
                     [hash |-> Combined(s), key |-> ctx[s].key]]
  /\ Goto(s, "decrypt")
  /\ UNCHANGED <<agents, installations, req, ctx, answer, trail>>

\* decrypt_document(): a section is readable when its policy is satisfied;
\* oabe_dec producing no output for any other reason reads as a denial too.
Decrypt(s) ==
  /\ pc[s] = "decrypt"
  /\ \E lost \in SUBSET Entitled(req[s].doc, ctx[s].key) :
       End(s, "ok", "none", Entitled(req[s].doc, ctx[s].key) \ lost)
  /\ UNCHANGED <<agents, installations, agentKeys, req, ctx, trail>>

\* Any other exception of the tool body: an unreadable session file (stdio),
\* an unreachable database, a failing oabe_* tool, a malformed document.
Fail(s) ==
  /\ \/ pc[s] = "identity" /\ s \notin HttpServers
     \/ pc[s] \in {"installation", "product", "keygen", "store", "decrypt"}
     \/ pc[s] = "lookup" /\ ctx[s].claims.attrs # <<>>
  /\ End(s, "error", "exception", {})
  /\ UNCHANGED <<agents, installations, agentKeys, req, ctx, trail>>

\* audit(): the local file first, then the database mirror; neither store's
\* failure stops the other, and only then does the caller get the answer.
Record(s) ==
  [result |-> answer[s].result,
   user   |-> IF ctx[s].claims = None THEN None ELSE ctx[s].claims.user,
   agent  |-> ctx[s].agent]

AuditFile_Only(s) ==         \* mutant: the caller is answered before the mirror
  /\ pc[s] = "audit file"
  /\ \E entry \in {Record(s), None} :
       trail' = [trail EXCEPT ![s].file = Append(@, entry)]
  /\ Goto(s, "done")
  /\ UNCHANGED <<agents, installations, agentKeys, req, ctx, answer>>

AuditFile(s) ==
  /\ pc[s] = "audit file"
  /\ \E entry \in {Record(s), None} :       \* None: OSError, swallowed
       trail' = [trail EXCEPT ![s].file = Append(@, entry)]
  /\ Goto(s, "audit table")
  /\ UNCHANGED <<agents, installations, agentKeys, req, ctx, answer>>

AuditTable(s) ==
  /\ pc[s] = "audit table"
  /\ \E entry \in {Record(s), None} :       \* None: psycopg.Error, swallowed
       trail' = [trail EXCEPT ![s].table = Append(@, entry)]
  /\ Goto(s, "done")
  /\ UNCHANGED <<agents, installations, agentKeys, req, ctx, answer>>

\* The process is killed: the call's locals go, the stores stay.
Crash(s) ==
  /\ pc[s] \in Serving
  /\ Goto(s, "idle")
  /\ Local(s, NoContext)
  /\ answer' = [answer EXCEPT ![s] = None]
  /\ UNCHANGED <<agents, installations, agentKeys, req, trail>>

----------------------------------------------------------------------------
(* The administrator's statements (agents_admin.py, through db.py).        *)

\* INSERT ... ON CONFLICT DO UPDATE, which leaves "enabled" as it was.
AddAgent(a) ==
  /\ \E p \in Products :
       agents' = [agents EXCEPT ![a] =
         [attrs |-> p.attrs, role |-> p.role,
          enabled |-> IF agents[a] = None THEN TRUE ELSE agents[a].enabled]]
  /\ UNCHANGED <<installations, agentKeys, pc, req, ctx, answer, trail>>

SetAgentEnabled(a, enabled) ==
  /\ agents[a] # None
  /\ agents' = [agents EXCEPT ![a].enabled = enabled]
  /\ UNCHANGED <<installations, agentKeys, pc, req, ctx, answer, trail>>

AddInstallation(c, a) ==
  /\ installations[c] = None
  /\ agents[a] # None
  /\ installations' = [installations EXCEPT ![c] =
                         [agent |-> a, revoked |-> FALSE]]
  /\ UNCHANGED <<agents, agentKeys, pc, req, ctx, answer, trail>>

SetInstallationRevoked(c, revoked) ==
  /\ installations[c] # None
  /\ installations' = [installations EXCEPT ![c].revoked = revoked]
  /\ UNCHANGED <<agents, agentKeys, pc, req, ctx, answer, trail>>

----------------------------------------------------------------------------

ServeStep(s) ==
  \/ Identify(s) \/ Unidentified(s) \/ VerifyAgentToken(s)
  \/ ReadInstallation(s) \/ ReadAgent(s)
  \/ LookupKey(s) \/ Keygen(s) \/ StoreKey(s) \/ Decrypt(s)
  \/ Fail(s) \/ AuditFile(s) \/ AuditTable(s)

AdminStep ==
  \/ \E a \in Agents : AddAgent(a)
  \/ \E a \in Agents, b \in BOOLEAN : SetAgentEnabled(a, b)
  \/ \E c \in Clients, a \in Agents : AddInstallation(c, a)
  \/ \E c \in Clients, b \in BOOLEAN : SetInstallationRevoked(c, b)

Next ==
  \/ \E s \in Servers : Begin(s) \/ Reject(s) \/ ServeStep(s) \/ Crash(s)
  \/ AdminStep

\* A process that has taken up a call keeps running it: each network call
\* has a timeout and each oabe_* child is assumed to exit.  Nothing is
\* assumed of callers, administrators or crashes.
Spec == Init /\ [][Next]_vars /\ \A s \in Servers : WF_vars(ServeStep(s))

----------------------------------------------------------------------------
(* Properties.                                                             *)

TypeOK ==
  /\ agents \in [Agents -> AgentRows \cup {None}]
  /\ installations \in [Clients -> InstallationRows \cup {None}]
  /\ agentKeys \in [Users \X Agents -> KeyRows \cup {None}]
  /\ pc \in [Servers -> Serving \cup Resting]
  /\ req \in [Servers -> Requests \cup {None}]
  /\ ctx \in [Servers -> Contexts]
  /\ answer \in [Servers -> Answers \cup {None}]
  /\ trail \in [Servers -> Trails]

\* A cached key always belongs to the attribute string whose hash is stored
\* beside it, whatever processes and stores interleaved: a hash hit can be
\* trusted (core.agent_session_key, db.store_agent_key).
CachedKeysMatchHashes ==
  \A ua \in Users \X Agents :
    agentKeys[ua] # None => agentKeys[ua].key = agentKeys[ua].hash

\* The key a call decrypts with was made for exactly this call's verified
\* user attributes and what the agent contributes to this user now, even when
\* another process replaced the cached row between the look-up and the use.
KeyIsForThisCall ==
  \A s \in Servers :
    pc[s] \in {"store", "decrypt"} => ctx[s].key = Combined(s)

\* No section comes back readable unless the attributes of this call's two
\* principals satisfy its policy, whoever filled the cache.
ReadableIsEntitled ==
  \A s \in Servers :
    answer[s] # None /\ answer[s].readable # {} =>
      answer[s].readable \subseteq Entitled(req[s].doc, Combined(s))

\* Nobody is told how a call ended before both audit stores were offered its
\* one record, and neither store ever holds anything of the call but that
\* record: its outcome and the two principals it was decided on (audit_op).
AnswersAreAudited ==
  \A s \in Servers, store \in {"file", "table"} :
    /\ Len(trail[s][store]) <= 1
    /\ pc[s] = "done" => Len(trail[s][store]) = 1
    /\ pc[s] \in Serving \cup {"done"} /\ trail[s][store] # <<>> =>
         answer[s] # None /\ trail[s][store][1] \in {Record(s), None}

\* Every call that was taken up ends: answered, or lost with its process.
EveryCallEnds ==
  \A s \in Servers : pc[s] \in Serving ~> pc[s] \in Resting

\* Docstring of report_denial: "this tool must never fail to log an attempt
\* because identity resolution failed".
ReportsAreNeverLost ==
  \A s \in Servers :
    req[s] # None /\ req[s].tool = "report_denial" => pc[s] # "rejected"
=============================================================================
