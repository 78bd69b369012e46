-------------------------- MODULE ConnectorSession --------------------------
(***************************************************************************)
(* pabel_client/session.py: the connector's human session, one file shared *)
(* by hooks, local MCP servers and the CLI.  access_token() writes the     *)
(* file back after a refresh; login() writes it after a browser login;     *)
(* logout() removes it.  No lock is taken.                                 *)
(*                                                                         *)
(* A session is the number of the login it stems from: a refresh changes   *)
(* its tokens, not whose they are.  The file system is POSIX's: a file     *)
(* that was unlinked can still be written, to no effect.                   *)
(***************************************************************************)
EXTENDS Naturals

CONSTANTS
  Procs,       \* hooks, local MCP servers and CLI processes
  MaxLogins    \* bound on the logins explored

ASSUME ConnectorAssumption == MaxLogins \in Nat

\* "login" is session.login(); "tool login" the local MCP server's tool, which
\* looks for a session first.
Calls == {"token", "login", "tool login", "logout"}
Outcomes == {"none", "token", "AuthError", "exception", "logged in", "logged out"}

VARIABLES
  status,    \* the file: "missing", "valid", or "empty"/"garbled" if it does not parse
  login,     \* the session in it, if valid
  logins,    \* logins so far
  pc, call,  \* where each process is, in which call
  mine,      \* the session it read or created, and will write
  linked,    \* whether the file it has opened is still the one in the directory
  outcome,   \* how its last call ended
  current,   \* history: the session the last completed login or logout left
  seen,      \* history: the sessions in the file during each call
  overlapped \* history: whether two calls have overlapped

vars == <<status, login, logins, pc, call, mine, linked, outcome, current,
          seen, overlapped>>
theFile == <<status, login, current>>

Init ==
  /\ status = "missing" /\ login = 0 /\ logins = 0 /\ current = 0
  /\ pc = [p \in Procs |-> "idle"]
  /\ call = [p \in Procs |-> "token"]
  /\ mine = [p \in Procs |-> 0]
  /\ linked = [p \in Procs |-> FALSE]
  /\ outcome = [p \in Procs |-> "none"]
  /\ seen = [p \in Procs |-> {}]
  /\ overlapped = FALSE

Goto(p, l) == pc' = [pc EXCEPT ![p] = l]
Hold(p, n) == mine' = [mine EXCEPT ![p] = n]
Return(p, o) == Goto(p, "idle") /\ outcome' = [outcome EXCEPT ![p] = o]

\* Every state the file takes is seen by all calls under way.
Replace(s, n) ==
  /\ status' = s
  /\ login' = n
  /\ seen' = [p \in Procs |-> IF pc[p] # "idle" THEN seen[p] \cup {n} ELSE seen[p]]

----------------------------------------------------------------------------

Start_Cached(p) ==              \* mutant: a session kept in memory across calls
  /\ pc[p] = "idle"
  /\ \E c \in Calls :
       /\ call' = [call EXCEPT ![p] = c]
       /\ \/ c = "token" /\ mine[p] # 0 /\ Return(p, "token")
          \/ /\ c # "token" \/ mine[p] = 0
             /\ Goto(p, IF c = "login" THEN "browser" ELSE "exists")
             /\ outcome' = [outcome EXCEPT ![p] = "none"]
  /\ seen' = [seen EXCEPT ![p] = {login}]
  /\ overlapped' = (overlapped \/ \E q \in Procs : pc[q] # "idle")
  /\ UNCHANGED <<theFile, logins, mine, linked>>

Start(p) ==
  /\ pc[p] = "idle"
  /\ \E c \in Calls :
       /\ call' = [call EXCEPT ![p] = c]
       /\ Goto(p, IF c = "login" THEN "browser" ELSE "exists")
  /\ outcome' = [outcome EXCEPT ![p] = "none"]
  /\ seen' = [seen EXCEPT ![p] = {login}]
  /\ Hold(p, 0)
  /\ overlapped' = (overlapped \/ \E q \in Procs : pc[q] # "idle")
  /\ UNCHANGED <<theFile, logins, linked>>

\* An AuthError of access_token(): the login tool goes on to log in.
NotLoggedIn(p) ==
  \/ /\ call[p] = "tool login"
     /\ call' = [call EXCEPT ![p] = "login"]
     /\ Goto(p, "browser")
     /\ UNCHANGED outcome
  \/ call[p] # "tool login" /\ Return(p, "AuthError") /\ UNCHANGED call

Exists(p) ==
  /\ pc[p] = "exists"
  /\ \/ /\ status # "missing"
        /\ Goto(p, IF call[p] = "logout" THEN "unlink" ELSE "read")
        /\ UNCHANGED <<call, outcome>>
     \/ status = "missing" /\ call[p] # "logout" /\ NotLoggedIn(p)
     \/ status = "missing" /\ call[p] = "logout" /\ Return(p, "logged out") /\ UNCHANGED call
  /\ UNCHANGED <<theFile, logins, mine, linked, seen, overlapped>>

\* A file that does not parse, or has gone, is not an AuthError.
Broken_AsLoggedOut(p) ==        \* mutant: except ValueError -> AuthError
  NotLoggedIn(p)
Broken(p) == Return(p, "exception") /\ UNCHANGED call

Read(p) ==
  /\ pc[p] = "read"
  /\ \/ status # "valid" /\ Broken(p) /\ UNCHANGED mine
     \/ status = "valid" /\ Return(p, "token") /\ Hold(p, login) /\ UNCHANGED call
     \/ /\ status = "valid"                                 \* close to expiry
        /\ Hold(p, login)
        /\ Goto(p, "refresh")
        /\ UNCHANGED <<call, outcome>>
  /\ UNCHANGED <<theFile, logins, linked, seen, overlapped>>

Refresh(p) ==
  /\ pc[p] = "refresh"
  /\ \/ Goto(p, "open") /\ UNCHANGED <<call, outcome>>
     \/ NotLoggedIn(p)
  /\ UNCHANGED <<theFile, logins, mine, linked, seen, overlapped>>

\* login_with_browser()
Browser_Kept(p) ==              \* mutant: tokens kept from a login that timed out
  /\ pc[p] = "browser"
  /\ Hold(p, logins + 1)
  /\ \/ /\ logins < MaxLogins
        /\ logins' = logins + 1
        /\ Goto(p, "open")
        /\ UNCHANGED outcome
     \/ Return(p, "AuthError") /\ UNCHANGED logins
  /\ UNCHANGED <<theFile, call, linked, seen, overlapped>>

Browser(p) ==
  /\ pc[p] = "browser"
  /\ \/ /\ logins < MaxLogins
        /\ logins' = logins + 1
        /\ Hold(p, logins + 1)
        /\ Goto(p, "open")
        /\ UNCHANGED outcome
     \/ Return(p, "AuthError") /\ UNCHANGED <<logins, mine>>
  /\ UNCHANGED <<theFile, call, linked, seen, overlapped>>

\* _persist(): write_text truncates or creates the file, then writes it.
Open(p) ==
  /\ pc[p] = "open"
  /\ Replace("empty", 0)
  /\ linked' = [linked EXCEPT ![p] = TRUE]
  /\ Goto(p, "write")
  /\ UNCHANGED <<logins, call, mine, outcome, current, overlapped>>

Write(p) ==
  /\ pc[p] = "write"
  /\ \/ linked[p] /\ Replace("valid", mine[p])
     \/ linked[p] /\ status # "empty" /\ Replace("garbled", 0)
     \/ ~linked[p] /\ UNCHANGED <<status, login, seen>>
  /\ IF call[p] = "login"
     THEN Return(p, "logged in") /\ current' = mine[p]
     ELSE Goto(p, "reread") /\ UNCHANGED <<outcome, current>>
  /\ UNCHANGED <<logins, call, mine, linked, overlapped>>

\* access_token() returns what the file holds now, not what it wrote.
Reread(p) ==
  /\ pc[p] = "reread"
  /\ \/ status # "valid" /\ Return(p, "exception") /\ UNCHANGED mine
     \/ status = "valid" /\ Return(p, "token") /\ Hold(p, login)
  /\ UNCHANGED <<theFile, logins, call, linked, seen, overlapped>>

Unlink_Blanks(p) ==             \* mutant: a logout only announced
  /\ pc[p] = "unlink"
  /\ Return(p, "logged out")
  /\ current' = 0
  /\ UNCHANGED <<status, login, logins, call, mine, linked, seen, overlapped>>

Unlink(p) ==
  /\ pc[p] = "unlink"
  /\ \/ status = "missing" /\ Return(p, "exception") /\ UNCHANGED <<theFile, linked, seen>>
     \/ /\ status # "missing"
        /\ Replace("missing", 0)
        /\ linked' = [q \in Procs |-> FALSE]
        /\ current' = 0
        /\ Return(p, "logged out")
  /\ UNCHANGED <<logins, call, mine, overlapped>>

\* A hook's timeout, the end of an MCP client, Ctrl-C.
Kill(p) ==
  /\ pc[p] # "idle"
  /\ Return(p, "none")
  /\ UNCHANGED <<theFile, logins, call, mine, linked, seen, overlapped>>

Next == \E p \in Procs : \/ Start(p) \/ Exists(p) \/ Read(p) \/ Refresh(p)
                         \/ Browser(p) \/ Open(p) \/ Write(p) \/ Reread(p)
                         \/ Unlink(p) \/ Kill(p)

Spec == Init /\ [][Next]_vars

----------------------------------------------------------------------------

TypeOK ==
  /\ status \in {"missing", "empty", "garbled", "valid"}
  /\ logins \in 0..MaxLogins
  /\ {login, current} \subseteq 0..logins
  /\ pc \in [Procs -> {"idle", "exists", "read", "refresh", "browser", "open",
                       "write", "reread", "unlink"}]
  /\ call \in [Procs -> Calls]
  /\ mine \in [Procs -> 0..logins]
  /\ linked \in [Procs -> BOOLEAN]
  /\ outcome \in [Procs -> Outcomes]
  /\ seen \in [Procs -> SUBSET (0..logins)]
  /\ overlapped \in BOOLEAN

\* A token that is returned is of a session that was in the file during the
\* call, even if others logged in or out while it was refreshed.
TokensWereCurrent ==
  \A p \in Procs : outcome[p] = "token" => mine[p] # 0 /\ mine[p] \in seen[p]

\* A file that does not parse, and that nobody is about to write, is mended by
\* a logout or by a login that did not look for a session first; no hook and
\* no login tool ever gets past it.
Stuck == /\ status \in {"empty", "garbled"}
         /\ \A p \in Procs : pc[p] \in {"idle", "exists", "read", "unlink"}
OnlyLoginsMend ==
  [][Stuck => \/ Stuck'
              \/ status' = "missing"
              \/ \E p \in Procs : pc[p] = "idle" /\ call'[p] = "login"]_vars

\* As long as no two calls have overlapped the file holds the session of the
\* last login or logout that completed, whatever was refreshed or killed since.
LastLoginStands == ~overlapped /\ status = "valid" => login = current
=============================================================================
