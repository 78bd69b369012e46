-------------------------- MODULE AccessContract --------------------------
(***************************************************************************)
(* What the PABEL server promises about one tool call, with no steps, no   *)
(* key cache and no audit trail: the agent counts only through an          *)
(* installation that was active and a product that was enabled at some     *)
(* moment of this very call - a revocation therefore takes effect on the   *)
(* next request - and a section is readable only if the attributes of the  *)
(* two principals so established satisfy its policy.                       *)
(***************************************************************************)
EXTENDS AbeAttributes

CONSTANTS Servers, Clients, Agents, Users, Claims, Requests, None

VARIABLES
  agents, installations,   \* the registry, as the administrator sees it
  open,                    \* the request each process is serving, or None
  seen,                    \* the registry's entries for it since it began
  reply                    \* the reply to the last request, until the next

vars == <<agents, installations, open, seen, reply>>

Active(row) == row # None /\ ~row.revoked
Enabled(row) == row # None /\ row.enabled

\* What the registry says of a client: its own row and its product's row.
Entry == [c \in Clients \cup {None} |->
  IF c = None THEN [inst |-> None, prod |-> None]
  ELSE IF installations[c] = None THEN [inst |-> None, prod |-> None]
  ELSE [inst |-> installations[c], prod |-> agents[installations[c].agent]]]

Replies == [result : {"ok", "denied", "error"},
            user : Users \cup {None}, agent : Agents \cup {None},
            readable : SUBSET Nat]

\* The attributes a user and a product bring together.
Together(claims, product) ==
  claims.attrs \o (IF product.role \in claims.roles THEN product.attrs ELSE <<>>)

\* v and w are two looks at the registry, not one: the code reads the
\* installation and then the product, and either may change in between.
Allowed(s, rep) ==
  \/ rep.result \in {"denied", "error"} /\ rep.readable = {}
  \/ /\ rep.result = "ok"
     /\ \E v, w \in seen[s] :
          /\ Active(v.inst) /\ rep.agent = v.inst.agent
          /\ Enabled(w.prod)
          /\ \/ rep.readable = {} /\ open[s].tool # "read_document"
             \/ \E c \in Claims :
                  /\ c.attrs # <<>> /\ rep.user = c.user
                  /\ rep.readable \subseteq Entitled(open[s].doc, Together(c, w.prod))

Init ==
  /\ agents = [a \in Agents |-> None]
  /\ installations = [c \in Clients |-> None]
  /\ open = [s \in Servers |-> None]
  /\ seen = [s \in Servers |-> {}]
  /\ reply = [s \in Servers |-> None]

Request(s) ==
  /\ \E r \in Requests :
       /\ open' = [open EXCEPT ![s] = r]
       /\ seen' = [seen EXCEPT ![s] = {Entry[r.azp]}]
  /\ reply' = [reply EXCEPT ![s] = None]
  /\ UNCHANGED <<agents, installations>>

Reply(s) ==
  /\ open[s] # None
  /\ reply'[s] \in Replies /\ Allowed(s, reply'[s])
  /\ reply' = [reply EXCEPT ![s] = reply'[s]]
  /\ open' = [open EXCEPT ![s] = None]
  /\ seen' = [seen EXCEPT ![s] = {}]
  /\ UNCHANGED <<agents, installations>>

\* The process died, or turned a request away.
Drop(s) ==
  /\ open' = [open EXCEPT ![s] = None]
  /\ seen' = [seen EXCEPT ![s] = {}]
  /\ reply' = [reply EXCEPT ![s] = None]
  /\ UNCHANGED <<agents, installations>>

\* The administrator changes the registry: no row disappears, and an
\* installation stays with its product.
Administer ==
  /\ \/ \E a \in Agents :
          /\ agents'[a] # None
          /\ agents' = [agents EXCEPT ![a] = agents'[a]]
          /\ UNCHANGED installations
     \/ \E c \in Clients :
          /\ installations'[c] # None
          /\ installations[c] # None => installations'[c].agent = installations[c].agent
          /\ installations' = [installations EXCEPT ![c] = installations'[c]]
          /\ UNCHANGED agents
  /\ seen' = [s \in Servers |->
                IF open[s] = None THEN seen[s]
                ELSE seen[s] \cup {Entry'[open[s].azp]}]
  /\ UNCHANGED <<open, reply>>

Next == Administer \/ \E s \in Servers : Request(s) \/ Reply(s) \/ Drop(s)

Spec == Init /\ [][Next]_vars
=============================================================================
