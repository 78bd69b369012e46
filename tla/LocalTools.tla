----------------------------- MODULE LocalTools -----------------------------
(***************************************************************************)
(* The tools of mcp_local_server.py, one process per session of an agent,  *)
(* with what they wait for and leave behind: the browser login             *)
(* (oauth_browser.py; the server's login.py takes the same port by the     *)
(* same code), and the copies of materialize.py, which the SessionEnd hook *)
(* purges.  The relayed read itself is HookDecide's and one step here.     *)
(***************************************************************************)
EXTENDS Naturals, FiniteSets

CONSTANTS
  Calls,     \* identities of tool calls, each also of its login attempt
  Sessions,  \* agent sessions, each with its own MCP server process
  Product,   \* which agent product each runs
  Purging,   \* products whose SessionEnd hook is installed: claude-code
  None

ASSUME LocalToolsAssumption ==
  /\ Product \in [Sessions -> {Product[s] : s \in Sessions}]
  /\ None \notin Calls

VARIABLES
  call,      \* each call: where it is, its tool, session, redirect and outcome
  tokens,    \* whether session.json holds usable tokens
  opened,    \* logins whose URL a browser or the user has
  spent,     \* logins whose code Keycloak has seen: it takes each once
  session,   \* "open", "purging" or "ended"
  todo,      \* what each purge has listed and not yet treated
  dirs,      \* the products whose cache directory exists
  copies,    \* the copies on disk, each named by its call
  late,      \* those that came after their session's purge had listed
  stuck      \* those a purge met while they were being written, and left

login == <<tokens, opened, spent>>
disk == <<dirs, copies, late, stuck>>
ends == <<session, todo>>
vars == <<call, login, ends, disk>>

ToolNames == {"login", "whoami", "read_document", "materialize_document"}
Fresh == [pc |-> "idle", tool |-> None, in |-> None, got |-> None, tried |-> FALSE, copied |-> FALSE]
CacheDir(p) == {p}
InDir(p) == {c \in copies : Product[call[c].in] \in CacheDir(p)}

Init ==
  /\ call = [c \in Calls |-> Fresh]
  /\ tokens = FALSE /\ opened = {} /\ spent = {}
  /\ session = [s \in Sessions |-> "open"] /\ todo = [s \in Sessions |-> {}]
  /\ dirs = {} /\ copies = {} /\ late = {} /\ stuck = {}

----------------------------------------------------------------------------
(* A tool call.                                                            *)

\* session.login() blocks the event loop of its process, and with it the
\* other calls of that session.
WaitsForBrowser(c) == call[c].pc \in {"bind", "listening"}
Free(c) == \A d \in Calls \ {c} : WaitsForBrowser(d) => call[d].in # call[c].in

At(c, pc) == call[c].pc = pc /\ Free(c)
Goto(c, pc) == call' = [call EXCEPT ![c].pc = pc]
\* With an answer, an error the tool reports, or an exception it does not
\* expect: what comes of it is the same here.
Done(c) == [Fresh EXCEPT !.pc = "done", !.in = call[c].in]
End(c) == call' = [call EXCEPT ![c] = Done(c)]

Begin(c) ==
  /\ call[c].pc = "idle"
  /\ \E t \in ToolNames, s \in Sessions :
       /\ session[s] = "open"
       /\ \A d \in Calls : WaitsForBrowser(d) => call[d].in # s
       /\ call' = [call EXCEPT ![c].pc = "token", ![c].tool = t, ![c].in = s]
  /\ UNCHANGED <<login, ends, disk>>

\* session.access_token(), for the login tool and for the relay: without a
\* session the login tool and a read turn to the browser, once.
Retries(c) == call[c].tool \in {"login", "read_document", "materialize_document"} /\ ~call[c].tried
Unauthenticated(c) ==
  IF Retries(c) THEN Goto(c, "browser") ELSE End(c)

Token(c) ==
  /\ At(c, "token")
  /\ \/ ~tokens /\ Unauthenticated(c)
     \/ tokens /\ (IF call[c].tool = "login" THEN End(c) ELSE Goto(c, "relay"))
  /\ UNCHANGED <<login, ends, disk>>

\* The server answers, refuses (RelayError), or does not accept one of the
\* two tokens (AuthError).
Relay(c) ==
  /\ At(c, "relay")
  /\ \/ IF call[c].tool = "materialize_document" THEN Goto(c, "mkdir") ELSE End(c)
     \/ End(c)
     \/ Unauthenticated(c)
  /\ UNCHANGED <<login, ends, disk>>

----------------------------------------------------------------------------
(* The browser login of a call; its state and its PKCE verifier are its    *)
(* own, so the call stands for both.                                       *)

\* The browser is opened before anyone listens.
OpenBrowser(c) ==
  /\ At(c, "browser")
  /\ opened' = opened \cup {c}
  /\ \/ call' = [call EXCEPT ![c].pc = "bind", ![c].tried = TRUE]
     \/ End(c)
  /\ UNCHANGED <<tokens, spent, ends, disk>>

\* A taken port is an OSError, which no tool expects, or is shared, as the
\* platform treats SO_REUSEADDR.
Bind(c) ==
  /\ At(c, "bind")
  /\ \/ Goto(c, "listening")
     \/ (\E d \in Calls : call[d].pc = "listening") /\ End(c)
  /\ UNCHANGED <<login, ends, disk>>

\* handle_request serves one connection.  The redirect of any URL the browser
\* or the human has may reach it, in time or not, again or not, with a code or
\* an error; or a stray connection, or none in time.
Receive(c, r) == call[c].pc = "listening" /\ call' = [call EXCEPT ![c].pc = "received", ![c].got = r]

Redirected(c) ==
  /\ \E d \in opened, code \in BOOLEAN : Receive(c, [state |-> d, code |-> code])
  /\ UNCHANGED <<login, ends, disk>>

GiveUp_Never(c) == FALSE /\ UNCHANGED vars
GiveUp(c) == Receive(c, None) /\ UNCHANGED <<login, ends, disk>>

Accepts_Any(c, r) == r # None /\ r.code
Accepts(c, r) == r # None /\ r.state = c /\ r.code

Check(c) ==
  /\ At(c, "received")
  /\ IF Accepts(c, call[c].got) THEN Goto(c, "exchange") ELSE End(c)
  /\ UNCHANGED <<login, ends, disk>>

\* exchange_code and session._persist.  Keycloak takes a code once, and only with
\* the verifier of its login; one that it refuses, or whose answer is lost, may
\* be spent all the same.
Exchange(c) ==
  /\ At(c, "exchange")
  /\ LET d == call[c].got.state IN
     \/ /\ d = c /\ d \notin spent
        /\ tokens' = TRUE /\ spent' = spent \cup {d}
        /\ IF call[c].tool = "login" THEN End(c) ELSE Goto(c, "relay")
     \/ End(c) /\ spent' \in {spent, spent \cup {d}} /\ UNCHANGED tokens
  /\ UNCHANGED <<opened, ends, disk>>

Expire ==
  /\ tokens /\ tokens' = FALSE
  /\ UNCHANGED <<call, opened, spent, ends, disk>>

----------------------------------------------------------------------------
(* materialize.create_async, and purge_all.                                *)

Mkdir(c) ==
  /\ At(c, "mkdir") /\ Goto(c, "create")
  /\ dirs' = dirs \cup CacheDir(Product[call[c].in])
  /\ UNCHANGED <<login, ends, copies, late, stuck>>

\* write_text creates the file before it writes; without the directory it
\* raises.
Create(c) ==
  /\ At(c, "create")
  /\ IF CacheDir(Product[call[c].in]) \subseteq dirs
     THEN /\ Goto(c, "write")
          /\ copies' = copies \cup {c}
          /\ late' = IF session[call[c].in] = "open" THEN late ELSE late \cup {c}
     ELSE End(c) /\ UNCHANGED <<copies, late>>
  /\ UNCHANGED <<login, ends, dirs, stuck>>

Write(c) ==
  /\ At(c, "write") /\ call' = [call EXCEPT ![c] = [Done(c) EXCEPT !.copied = TRUE]]
  /\ UNCHANGED <<login, ends, disk>>

\* SessionEnd: rmtree lists the product's directory, whoever wrote there,
EndSession(s) ==
  /\ session[s] = "open"
  /\ IF Product[s] \in Purging
     THEN /\ session' = [session EXCEPT ![s] = "purging"]
          /\ todo' = [todo EXCEPT ![s] = InDir(Product[s])]
     ELSE session' = [session EXCEPT ![s] = "ended"] /\ UNCHANGED todo
  /\ UNCHANGED <<call, login, disk>>

\* removes what it listed, passing over what it cannot remove,
StopsPurge_Raise == TRUE
StopsPurge == FALSE

PurgeOne(s) ==
  /\ session[s] = "purging"
  /\ \E c \in todo[s] :
       \/ /\ copies' = copies \ {c} /\ late' = late \ {c}
          /\ todo' = [todo EXCEPT ![s] = @ \ {c}]
          /\ stuck' = stuck \ {c} /\ UNCHANGED session
       \/ /\ c \in copies /\ call[c].pc = "write"
          /\ stuck' = stuck \cup {c}
          /\ IF StopsPurge
             THEN session' = [session EXCEPT ![s] = "ended"] /\ todo' = [todo EXCEPT ![s] = {}]
             ELSE todo' = [todo EXCEPT ![s] = @ \ {c}] /\ UNCHANGED session
          /\ UNCHANGED <<copies, late>>
  /\ UNCHANGED <<call, login, dirs>>

\* and the directory, if nothing came meanwhile.
PurgeEnds(s) ==
  /\ session[s] = "purging" /\ todo[s] = {}
  /\ session' = [session EXCEPT ![s] = "ended"]
  /\ dirs' = IF InDir(Product[s]) = {} THEN dirs \ CacheDir(Product[s]) ELSE dirs
  /\ UNCHANGED <<call, login, todo, copies, late, stuck>>

\* The agent ends the server of a session that is over, whatever it is doing.
StopServer(c) ==
  /\ call[c].pc \notin {"idle", "done"} /\ session[call[c].in] # "open"
  /\ End(c)
  /\ UNCHANGED <<login, ends, disk>>

Step(c) ==
  \/ Token(c) \/ Relay(c) \/ OpenBrowser(c) \/ Bind(c) \/ GiveUp(c) \/ Check(c)
  \/ Exchange(c) \/ Mkdir(c) \/ Create(c) \/ Write(c)
Purge(s) == PurgeOne(s) \/ PurgeEnds(s)

Next ==
  \/ \E c \in Calls : Begin(c) \/ Step(c) \/ Redirected(c) \/ StopServer(c)
  \/ \E s \in Sessions : EndSession(s) \/ Purge(s)
  \/ Expire

\* A call goes on, every wait of oauth_browser.py and of a request to the
\* server or Keycloak being bounded; a SessionEnd hook runs to its end.
Spec ==
  /\ Init /\ [][Next]_vars
  /\ \A c \in Calls : WF_vars(Step(c))
  /\ \A s \in Sessions : WF_vars(Purge(s))

----------------------------------------------------------------------------
(* Properties.                                                             *)

\* A copy outlives its session (materialize_document's promise) only if the
\* session's purge could not know of it: it came after the purge had listed
\* the directory, or was being written just then.  The copies of a product
\* without that hook are never removed by another product's.
CopiesGoWithTheirSession ==
  /\ \A c \in copies :
       session[call[c].in] = "ended" /\ Product[call[c].in] \in Purging => c \in late \cup stuck
  /\ \A c \in Calls : call[c].copied /\ Product[call[c].in] \notin Purging => c \in copies

\* The human is sent to the browser at most once for each tool call, whatever the
\* server and Keycloak refuse.  And a login that has its code can still redeem
\* it: although the logins share the callback port, where stale and repeated
\* redirects arrive, no login ever spends the code of another, and none its own
\* twice (login_with_browser's state, and the retry of the tools).
OneLoginEach ==
  \A c \in Calls : /\ call[c].pc = "browser" => c \notin opened
                  /\ call[c].pc = "exchange" => c \notin spent

\* Every tool call ends, whatever the human and the other logins do; and so does
\* every purge.
EveryToolEnds ==
  []<>(/\ \A c \in Calls : call[c].pc \in {"idle", "done"}
       /\ \A s \in Sessions : session[s] # "purging")
=============================================================================
