-------------------------- MODULE AgentCredentials --------------------------
(***************************************************************************)
(* pabel_client/agent_session.py: the credentials of every agent installed *)
(* on a machine, in one JSON file.  Each hook is a process of its own that *)
(* reads the whole file, may wait for Keycloak, and writes all of it back; *)
(* `pabel-connector install` does the same.  No lock is taken.             *)
(*                                                                         *)
(* A credential is a client_id with its secret, and a token is identified  *)
(* with the credential it was issued for.  Whether a cached token is still *)
(* within its lifetime is the clock's choice at each look.                 *)
(***************************************************************************)
EXTENDS Naturals

CONSTANTS
  Procs,     \* hook processes, local MCP servers and the CLI
  Agents,    \* agent products
  Creds,     \* credentials an administrator may hand out
  CredsOf,   \* those created for each product
  None

Entries == [cred : Creds, token : Creds \cup {None}]
Outcomes == {"stored", "AuthError", "JSONDecodeError"}

ASSUME CredentialsAssumption ==
  /\ CredsOf \in [Agents -> SUBSET Creds]
  /\ \A a, b \in Agents : a # b => CredsOf[a] \cap CredsOf[b] = {}
  /\ None \notin Creds \cup Entries
  /\ Creds \cap Outcomes = {}

VARIABLES
  status,     \* what parsing the file would find
  file,       \* and its entries, if it parses
  pc,         \* where each process is
  call,       \* the call it makes: "token" or "store", for an agent
  data,       \* its copy of the file
  result,     \* what its last call returned
  installed,  \* history: the credential last stored for each agent
  overlapped  \* history: whether two calls have overlapped

vars == <<status, file, pc, call, data, result, installed, overlapped>>

\* "empty" after open(..., "w"); "garbled" when two writers overlapped.
Statuses == {"valid", "empty", "garbled"}
Files == [Agents -> Entries \cup {None}]
NoFile == [a \in Agents |-> None]          \* _read_all() of a missing file

Calls == [op : {"token", "store"}, agent : Agents, cred : Creds \cup {None}]
Results == Creds \cup Outcomes \cup {None}

Init ==
  /\ status = "valid" /\ file = NoFile
  /\ pc = [p \in Procs |-> "idle"]
  /\ call = [p \in Procs |-> None]
  /\ data = [p \in Procs |-> NoFile]
  /\ result = [p \in Procs |-> None]
  /\ installed = [a \in Agents |-> None]
  /\ overlapped = FALSE

Goto(p, l) == pc' = [pc EXCEPT ![p] = l]
Forget(p) == data' = [data EXCEPT ![p] = NoFile]
Return(p, r) == Goto(p, "idle") /\ result' = [result EXCEPT ![p] = r]

----------------------------------------------------------------------------

\* A process is started for one call.
Start(p) ==
  /\ pc[p] = "idle"
  /\ \E a \in Agents :
       \/ call' = [call EXCEPT ![p] = [op |-> "token", agent |-> a, cred |-> None]]
       \/ \E c \in CredsOf[a] :
            call' = [call EXCEPT ![p] = [op |-> "store", agent |-> a, cred |-> c]]
  /\ result' = [result EXCEPT ![p] = None]
  /\ Goto(p, "read")
  /\ overlapped' = (overlapped \/ \E q \in Procs : pc[q] # "idle")
  /\ UNCHANGED <<status, file, data, installed>>

\* data[agent_id] = entry
With_Flat(d, a, e) == [b \in Agents |-> e]    \* mutant: not keyed per agent
With(d, a, e) == [d EXCEPT ![a] = e]

Fresh_Bare(c) == [cred |-> c]                 \* mutant
Fresh(c) == [cred |-> c, token |-> None]

\* _read_all() raises on a file that does not parse, in either call.
ReadBroken_AsEmpty(p) ==        \* mutant: a broken file is taken for a missing one
  /\ pc[p] = "read" /\ status # "valid"
  /\ data' = [data EXCEPT ![p] =
                IF call[p].op = "store"
                THEN With(NoFile, call[p].agent, Fresh(call[p].cred)) ELSE NoFile]
  /\ IF call[p].op = "store" THEN Goto(p, "open") /\ UNCHANGED result
                             ELSE Return(p, "AuthError")
  /\ UNCHANGED <<status, file, call, installed, overlapped>>

ReadBroken(p) ==
  /\ pc[p] = "read"
  /\ status # "valid"
  /\ Return(p, "JSONDecodeError")
  /\ UNCHANGED <<status, file, call, data, installed, overlapped>>

\* store_credentials replaces the entry outright.
ReadToStore_Merged(p) ==        \* mutant: entry.update(...)
  LET a == call[p].agent IN
  /\ pc[p] = "read" /\ call[p].op = "store"
  /\ status = "valid"
  /\ data' = [data EXCEPT ![p] = With(file, a, [cred |-> call[p].cred,
                 token |-> IF file[a] = None THEN None ELSE file[a].token])]
  /\ Goto(p, "open")
  /\ UNCHANGED <<status, file, call, result, installed, overlapped>>

ReadToStore(p) ==
  LET a == call[p].agent IN
  /\ pc[p] = "read" /\ call[p].op = "store"
  /\ status = "valid"
  /\ data' = [data EXCEPT ![p] = With(file, a, Fresh(call[p].cred))]
  /\ Goto(p, "open")
  /\ UNCHANGED <<status, file, call, result, installed, overlapped>>

\* access_token: no entry, a cached token, or a new one to request.
ReadForToken_Waits(p) ==        \* mutant: an agent never installed waits
  LET entry == file[call[p].agent] IN
  /\ pc[p] = "read" /\ call[p].op = "token"
  /\ status = "valid" /\ entry # None
  /\ data' = [data EXCEPT ![p] = file] /\ Goto(p, "request") /\ UNCHANGED result
  /\ UNCHANGED <<status, file, call, installed, overlapped>>

ReadForToken(p) ==
  LET entry == file[call[p].agent] IN
  /\ pc[p] = "read" /\ call[p].op = "token"
  /\ status = "valid"
  /\ \/ entry = None /\ Return(p, "AuthError") /\ UNCHANGED data
     \/ entry # None /\ entry.token # None /\ Return(p, entry.token) /\ UNCHANGED data
     \/ /\ entry # None
        /\ data' = [data EXCEPT ![p] = file]
        /\ Goto(p, "request")
        /\ UNCHANGED result
  /\ UNCHANGED <<status, file, call, installed, overlapped>>

\* The client_credentials grant: a token, or AuthError (refused, unreachable).
Request(p) ==
  LET a == call[p].agent IN
  /\ pc[p] = "request"
  /\ \/ /\ data' = [data EXCEPT ![p] =
                      With(data[p], a, [data[p][a] EXCEPT !.token = data[p][a].cred])]
        /\ Goto(p, "open")
        /\ UNCHANGED result
     \/ Return(p, "AuthError") /\ Forget(p)
  /\ UNCHANGED <<status, file, call, installed, overlapped>>

\* _write_all(): opening the file truncates it ...
Open(p) ==
  /\ pc[p] = "open"
  /\ status' = "empty" /\ file' = NoFile
  /\ Goto(p, "write")
  /\ UNCHANGED <<call, data, result, installed, overlapped>>

\* ... and the text is then written over whatever another process put there.
Write(p) ==
  LET a == call[p].agent IN
  /\ pc[p] = "write"
  /\ \/ status' = "valid" /\ file' = data[p]
     \/ status # "empty" /\ status' = "garbled" /\ file' = NoFile
  /\ \/ /\ call[p].op = "store"
        /\ Return(p, "stored")
        /\ installed' = [installed EXCEPT ![a] = call[p].cred]
     \/ /\ call[p].op = "token"
        /\ Return(p, data[p][a].token)
        /\ UNCHANGED installed
  /\ Forget(p)
  /\ UNCHANGED <<call, overlapped>>

\* The agent's own hook timeout, or its user, kills the process.
Kill(p) ==
  /\ pc[p] # "idle"
  /\ Return(p, None) /\ Forget(p)
  /\ UNCHANGED <<status, file, call, installed, overlapped>>

Step(p) == \/ ReadBroken(p) \/ ReadToStore(p) \/ ReadForToken(p)
           \/ Request(p) \/ Open(p) \/ Write(p)

Next == \E p \in Procs : Start(p) \/ Step(p) \/ Kill(p)

\* A running process runs on: the token request has a timeout.
Spec == Init /\ [][Next]_vars /\ \A p \in Procs : WF_vars(Step(p))

----------------------------------------------------------------------------

TypeOK ==
  /\ status \in Statuses
  /\ file \in Files
  /\ pc \in [Procs -> {"idle", "read", "request", "open", "write"}]
  /\ call \in [Procs -> Calls \cup {None}]
  /\ data \in [Procs -> Files]
  /\ result \in [Procs -> Results]
  /\ installed \in [Agents -> Creds \cup {None}]
  /\ overlapped \in BOOLEAN

\* However the processes' copies overwrite each other, no agent is ever given
\* a token of another product, and a cached token always belongs to the
\* credential stored beside it (store_credentials: "a stale cached access_token
\* from an old credential is never carried over").
TokensStayWithTheirCredential ==
  /\ \A a \in Agents : file[a] # None =>
       file[a].cred \in CredsOf[a] /\ file[a].token \in {None, file[a].cred}
  /\ \A p \in Procs : result[p] \in Creds => result[p] \in CredsOf[call[p].agent]

\* As long as no two calls have overlapped, and whichever were killed at
\* whatever step, what was installed last is what the file holds whenever it
\* can be read.
LastInstalledStands ==
  ~overlapped /\ status = "valid" =>
    \A a \in Agents : installed[a] # None =>
      file[a] # None /\ file[a].cred = installed[a]

\* Docstring of store_credentials: "Replaces any previous entry outright (so a
\* stale cached access_token from an old credential is never carried over)".
ReplacedOutright ==
  \A a \in Agents : installed[a] # None /\ file[a] # None =>
    file[a].token \in {None, installed[a]}

\* A file left empty by a killed writer, or garbled by two, is never repaired
\* by the program once no process holds a copy: not by a hook and not by
\* `install`, which reads it first.
Stuck == status # "valid" /\ \A p \in Procs : pc[p] \in {"idle", "read"}
StuckForGood == [][Stuck => Stuck']_vars

\* Every call comes back or is killed, whatever state the file is in.
EveryCallReturns == \A p \in Procs : pc[p] # "idle" ~> pc[p] = "idle"
=============================================================================
