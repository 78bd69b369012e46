--------------------------- MODULE ServerSession ---------------------------
(***************************************************************************)
(* core.Session and login.py: the human session of the stdio servers.  It  *)
(* is one file, written and removed by login.py on a terminal and read by  *)
(* every server process, each of which caches what it read together with   *)
(* the file's modification time and refreshes its tokens in memory only.   *)
(*                                                                         *)
(* A session is the number of the login that created it.  One login runs   *)
(* at a time, and each outlasts a tick of the file system's clock (it      *)
(* waits for a browser), but the truncation and the write of one login may *)
(* fall into the same tick: modification times are counted in half logins. *)
(***************************************************************************)
EXTENDS Naturals

CONSTANTS
  Procs,       \* stdio server processes
  MaxLogins,   \* bound on the logins explored
  None

Missing == [content |-> 0, mtime |-> 0]     \* no file
FileStates == [content : Nat, mtime : Nat]  \* content 0: truncated, no JSON
Outcomes == {"none", "identified", "AuthError", "exception"}

ASSUME SessionAssumption == MaxLogins \in Nat /\ None \notin Nat

VARIABLES
  file,      \* the session file
  writing,   \* whether login.py has opened it and not yet written it
  logins,    \* logins so far
  pc,        \* where each process is in access_token() and verify()
  cache,     \* its Session object: the login its tokens are of, and the mtime
  stamp,     \* the mtime that its current call's stat() returned
  outcome,   \* how its last call ended
  seen       \* history: the states of the file during its last call

vars == <<file, writing, logins, pc, cache, stamp, outcome, seen>>
caller == <<pc, cache, stamp, outcome>>

Init ==
  /\ file = Missing
  /\ writing = FALSE
  /\ logins = 0
  /\ pc = [p \in Procs |-> "idle"]
  /\ cache = [p \in Procs |-> [login |-> None, mtime |-> None]]
  /\ stamp = [p \in Procs |-> None]
  /\ outcome = [p \in Procs |-> "none"]
  /\ seen = [p \in Procs |-> {}]

----------------------------------------------------------------------------
(* login.py.                                                               *)

Witness(f) == seen' = [p \in Procs |-> IF pc[p] = "idle" THEN seen[p]
                                                         ELSE seen[p] \cup {f}]
Replace(f) == file' = f /\ Witness(f)

\* The browser flow and verify() are over; write_text opens the file ...
LoginOpens ==
  /\ ~writing
  /\ logins < MaxLogins
  /\ logins' = logins + 1
  /\ writing' = TRUE
  /\ Replace([content |-> 0, mtime |-> 2 * logins + 1])
  /\ UNCHANGED caller

\* ... and writes it, unless a logout has unlinked what it opened.
LoginWrites ==
  /\ writing
  /\ writing' = FALSE
  /\ \/ /\ file # Missing
        /\ \E m \in {2 * logins - 1, 2 * logins} :
             Replace([content |-> logins, mtime |-> m])
     \/ file = Missing /\ UNCHANGED <<file, seen>>
  /\ UNCHANGED <<logins, caller>>

LoginKilled ==
  /\ writing
  /\ writing' = FALSE
  /\ UNCHANGED <<file, logins, seen, caller>>

Logout ==
  /\ file # Missing
  /\ Replace(Missing)
  /\ UNCHANGED <<writing, logins, caller>>

----------------------------------------------------------------------------
(* Session.access_token() and the verify() that follows, in one process.   *)

Goto(p, l) == pc' = [pc EXCEPT ![p] = l]
End(p, o) == outcome' = [outcome EXCEPT ![p] = o] /\ Goto(p, "idle")

Begin_Unchecked(p) ==           \* mutant: no exists() check
  /\ pc[p] = "idle"
  /\ seen' = [seen EXCEPT ![p] = {file}]
  /\ Goto(p, "stat")
  /\ outcome' = [outcome EXCEPT ![p] = "none"]
  /\ UNCHANGED <<file, writing, logins, cache, stamp>>

\* SESSION_FILE.exists()
Begin(p) ==
  /\ pc[p] = "idle"
  /\ seen' = [seen EXCEPT ![p] = {file}]
  /\ \/ file = Missing /\ End(p, "AuthError")
     \/ /\ file # Missing
        /\ Goto(p, "stat")
        /\ outcome' = [outcome EXCEPT ![p] = "none"]
  /\ UNCHANGED <<file, writing, logins, cache, stamp>>

\* The cached tokens are kept while the file's mtime is the cached one.
Unchanged_Kept(p) == cache[p].mtime # None    \* mutant: read once, kept for good
Unchanged(p) == cache[p].mtime = file.mtime

Stat(p) ==
  /\ pc[p] = "stat"
  /\ \/ file = Missing /\ End(p, "exception") /\ UNCHANGED stamp
     \/ /\ file # Missing /\ Unchanged(p)
        /\ Goto(p, "token")
        /\ UNCHANGED <<outcome, stamp>>
     \/ /\ file # Missing /\ ~Unchanged(p)
        /\ stamp' = [stamp EXCEPT ![p] = file.mtime]
        /\ Goto(p, "read")
        /\ UNCHANGED outcome
  /\ UNCHANGED <<file, writing, logins, cache, seen>>

\* read_text() and json.loads(): the mtime kept is that of before the read.
Read_Blank(p) ==                \* mutant: an empty file reads as an empty session
  /\ pc[p] = "read"
  /\ cache' = [cache EXCEPT ![p] = [login |-> file.content, mtime |-> stamp[p]]]
  /\ Goto(p, "token")
  /\ UNCHANGED <<file, writing, logins, stamp, outcome, seen>>

Read(p) ==
  /\ pc[p] = "read"
  /\ \/ file.content = 0 /\ End(p, "exception") /\ UNCHANGED cache
     \/ /\ file.content # 0
        /\ cache' = [cache EXCEPT ![p] = [login |-> file.content, mtime |-> stamp[p]]]
        /\ Goto(p, "token")
        /\ UNCHANGED outcome
  /\ UNCHANGED <<file, writing, logins, stamp, seen>>

\* Within the token's lifetime, or close to its end.
Token(p) ==
  /\ pc[p] = "token"
  /\ Goto(p, "verify") \/ Goto(p, "refresh")
  /\ UNCHANGED <<file, writing, logins, cache, stamp, outcome, seen>>

\* kc.refresh(): new tokens of the same login, kept in memory.
Refresh(p) ==
  /\ pc[p] = "refresh"
  /\ \/ Goto(p, "verify") /\ UNCHANGED outcome
     \/ End(p, "AuthError")
  /\ UNCHANGED <<file, writing, logins, cache, stamp, seen>>

Verify(p) ==
  /\ pc[p] = "verify"
  /\ End(p, "identified") \/ End(p, "AuthError")
  /\ UNCHANGED <<file, writing, logins, cache, stamp, seen>>

\* The client ends its server; the next one starts with an empty Session.
Restart(p) ==
  /\ End(p, "none")
  /\ cache' = [cache EXCEPT ![p] = [login |-> None, mtime |-> None]]
  /\ UNCHANGED <<file, writing, logins, stamp, seen>>

Next ==
  \/ LoginOpens \/ LoginWrites \/ LoginKilled \/ Logout
  \/ \E p \in Procs : \/ Begin(p) \/ Stat(p) \/ Read(p) \/ Token(p)
                      \/ Refresh(p) \/ Verify(p) \/ Restart(p)

Spec == Init /\ [][Next]_vars

----------------------------------------------------------------------------

TypeOK ==
  /\ file \in FileStates
  /\ writing \in BOOLEAN
  /\ logins \in 0..MaxLogins
  /\ pc \in [Procs -> {"idle", "stat", "read", "token", "refresh", "verify"}]
  /\ cache \in [Procs -> [login : (Nat \ {0}) \cup {None}, mtime : Nat \cup {None}]]
  /\ stamp \in [Procs -> Nat \cup {None}]
  /\ outcome \in [Procs -> Outcomes]
  /\ seen \in [Procs -> SUBSET FileStates]

\* Class Session: "Re-read whenever its mtime changes, so logging in as
\* someone else, or out, takes effect on the next call".  Who a call acts for
\* was logged in at some moment of that call, whatever the process cached.
ActsAsLoggedIn ==
  \A p \in Procs : outcome[p] = "identified" =>
    \E f \in seen[p] : f # Missing /\ f.content = cache[p].login

\* A call ends with an exception that is not an AuthError only if a login or
\* a logout came between its steps, or a login.py was killed while it wrote.
ExceptionsHaveCause ==
  \A p \in Procs : outcome[p] = "exception" =>
    \E f, g \in seen[p] : f # g \/ (f # Missing /\ f.content = 0)
=============================================================================
