------------------------------ MODULE HookWire ------------------------------
(***************************************************************************)
(* A tool call on its way through the connector: an adapter normalises the *)
(* payload of its agent, detection.py says what the call touches, the hook *)
(* decides (HookDecide), and the adapter renders the decision in the form  *)
(* its agent obeys.  The input of a call is the sequence of its string     *)
(* values in the order detection.py walks them, each reduced to what the   *)
(* patterns find in it; an agent's own tool names are reduced to the act.  *)
(***************************************************************************)
EXTENDS HookDecide

CONSTANTS
  Ops,           \* the calls the agents attempt
  Together,      \* bound: the keys and calls that run beside another hook
  SourceCheckout \* whether the project is the connector's own source

Points == [cursor   |-> {"read", "run", "mcp"},         \* no write point
           windsurf |-> {"read", "write", "run", "mcp"}]
SinglePoint == {"claude-code", "vscode", "copilot-cli", "opencode"}
Acts == {"read", "write", "run", "mcp"}

\* The registry's keys: an agent, and the act its hook point is for.
Keys == {<<a, "any">> : a \in SinglePoint}
        \cup UNION {{<<a, p>> : p \in Points[a]} : a \in DOMAIN Points}
Agent(k) == k[1]
Handles(k, o) == k[2] \in {"any", o.act}

Things == {"secret", "internals", "oabe", "config", "missing abe", "documents", "plain"}
Tools == {"read_document", "login", "another"}
OpType == [act    : Acts,
           server : {"pabel", "pabel-connector", "foreign"},    \* of an MCP call
           prefix : BOOLEAN,    \* whether the tool's name is prefixed with it
           tool   : Tools,
           input  : Seq(Things \cup Files)]

ASSUME WireAssumption ==
  /\ Ops \subseteq OpType /\ Together \subseteq Keys \X Ops
  /\ \A o \in Ops : o.input # <<>>
  /\ SourceCheckout \in BOOLEAN
  /\ Files \cap Things = {} /\ None \notin Files

----------------------------------------------------------------------------
(* parse(): the NormalizedCall an adapter makes of its agent's payload.    *)

\* Executing and mutating tools are told by their names, or by the hook point.
\* The target of a write is its path, or the first of its files.
Runs(o) == o.act = "run"
Normal(o, input, mcp, execute) ==
  [input |-> input, execute |-> execute, mcp |-> mcp,
   target |-> IF o.act = "write" THEN input[1] ELSE None]

\* mcp__<server>__<tool>, for any server.
NamedMcp(o) == IF o.act = "mcp" /\ o.server # "foreign" THEN o.server ELSE "none"
ParseClaude(o)  == Normal(o, o.input, NamedMcp(o), Runs(o))
ParseCopilot(o) == Normal(o, o.input, NamedMcp(o), Runs(o))
ParseVscode(o)  == Normal(o, o.input, NamedMcp(o), Runs(o))

\* Cursor names no server, so the tool's name stands for it.
CursorMcp(o) == IF o.act = "mcp" /\ o.tool = "read_document" THEN "pabel" ELSE "none"
ParseCursor(o) == Normal(o, o.input, CursorMcp(o), Runs(o))

\* Windsurf shows of a write its target only: its edits are not looked at.
WindsurfMcp(o) == IF o.act = "mcp" /\ o.server = "pabel" THEN "pabel" ELSE "none"
WindsurfRuns_Never(o) == FALSE      \* mutant: the point forgets is_execute
WindsurfRuns(o) == Runs(o)
ParseWindsurf(o) ==
  Normal(o, IF o.act = "write" THEN <<o.input[1]>> ELSE o.input, WindsurfMcp(o), WindsurfRuns(o))

\* A known server as a prefix, or a bare name of one of PABEL's tools.
OpencodeMcp(o) ==
  IF o.act # "mcp" THEN "none"
  ELSE IF o.prefix THEN IF o.server = "foreign" THEN "none" ELSE o.server
  ELSE IF o.tool = "another" THEN "none" ELSE "pabel"
ParseOpencode(o) == Normal(o, o.input, OpencodeMcp(o), Runs(o))

ParseBy(a, o) ==
  CASE a = "claude-code" -> ParseClaude(o)
    [] a = "copilot-cli" -> ParseCopilot(o)
    [] a = "vscode"      -> ParseVscode(o)
    [] a = "cursor"      -> ParseCursor(o)
    [] a = "windsurf"    -> ParseWindsurf(o)
    [] a = "opencode"    -> ParseOpencode(o)

----------------------------------------------------------------------------
(* detection.py: what a call touches.                                      *)

Mentions(in, things) == \E i \in DOMAIN in : in[i] \in things
Targets == Files \cup {"missing abe", "documents"}

\* A write counts by its target alone, and any other call by all it says.
TargetClass(v) ==
  CASE v = None      -> "none"
    [] v \in Targets -> "abe"
    [] v = "config"  -> "config"
    [] OTHER         -> "other"

Detect(n) ==
  [store     |-> Mentions(n.input, {"secret"}),
   execute   |-> n.execute,
   internals |-> Mentions(n.input, {"internals"}) /\ ~SourceCheckout,
   oabe      |-> Mentions(n.input, {"oabe"}),
   mcp       |-> n.mcp,
   write     |-> TargetClass(n.target),
   mentions  |-> Mentions(n.input, Targets),
   files     |-> {f \in Files : Mentions(n.input, {f})}]

\* find_relayable_file: the first value that is an existing file.
Relayable_Last(in) ==             \* mutant: the last candidate
  LET at == {i \in DOMAIN in : in[i] \in Files} IN
  IF at = {} THEN None ELSE in[CHOOSE i \in at : \A j \in at : i >= j]

Relayable(in) ==
  LET at == {i \in DOMAIN in : in[i] \in Files} IN
  IF at = {} THEN None ELSE in[CHOOSE i \in at : \A j \in at : i <= j]

----------------------------------------------------------------------------
(* render(): the decision in the agent's own terms.  A denial shows a      *)
(* relayed result beside its reason, or folded into the reason.            *)

Response(does, shows, token) == [does |-> does, shows |-> shows, token |-> token]
Block(k, f, channels) ==
  Response("block", IF k = "DENY_WITH_RELAY" THEN {<<c, f>> : c \in channels} ELSE {}, FALSE)
Folded == {"reason"}

RenderClaude(k, f, t)   == IF k = "ALLOW" THEN Response("run", {}, t)
                                          ELSE Block(k, f, {"context"})
RenderVscode(k, f, t)   == IF k = "ALLOW" THEN Response("run", {}, FALSE)
                                          ELSE Block(k, f, {"context"})
RenderCopilot(k, f, t)  == IF k = "ALLOW" THEN Response("run", {}, FALSE)
                                          ELSE Block(k, f, Folded \cup {"context"})
RenderCursor(k, f, t)   == IF k = "ALLOW" THEN Response("run", {}, FALSE)
                                          ELSE Block(k, f, Folded)
RenderWindsurf(k, f, t) == IF k = "ALLOW" THEN Response("run", {}, FALSE)
                                          ELSE Block(k, f, Folded)
RenderOpencode(k, f, t) == IF k = "ALLOW" THEN Response("run", {}, t)
                                          ELSE Block(k, f, Folded)

RenderBy(a, k, f, t) ==
  CASE a = "claude-code" -> RenderClaude(k, f, t)
    [] a = "copilot-cli" -> RenderCopilot(k, f, t)
    [] a = "vscode"      -> RenderVscode(k, f, t)
    [] a = "cursor"      -> RenderCursor(k, f, t)
    [] a = "windsurf"    -> RenderWindsurf(k, f, t)
    [] a = "opencode"    -> RenderOpencode(k, f, t)

----------------------------------------------------------------------------

VARIABLES
  key,      \* the registry key each hook was started with
  op,       \* the call it was started for
  token,    \* whether it put the agent's token into the call
  answer    \* what its agent then did

wire == <<key, op, token, answer>>
wireVars == <<vars, wire>>

WireInit ==
  /\ Init
  /\ key = [h \in Hooks |-> None]
  /\ op = [h \in Hooks |-> None]
  /\ token = [h \in Hooks |-> FALSE]
  /\ answer = [h \in Hooks |-> None]

\* An agent calls a tool it has a hook for, and starts the hook.
Receive(h) ==
  \E k \in Keys, o \in Ops :
    /\ Handles(k, o)
    /\ pc[h] = "idle"
    /\ \A g \in Hooks \ {h} : pc[g] # "idle" =>
         {<<k, o>>, <<key[g], op[g]>>} \subseteq Together
    /\ call' = [call EXCEPT ![h] = Detect(ParseBy(Agent(k), o))]
    /\ Start(h)
    /\ key' = [key EXCEPT ![h] = k]
    /\ op' = [op EXCEPT ![h] = o]
    /\ UNCHANGED <<token, answer>>

\* One step of decide(); an injection that got its token changes the input.
Work(h) ==
  /\ Step(h)
  /\ IF task[h] = "inject" /\ pc[h] = "agent token" /\ pc'[h] = "log"
     THEN \E t \in {FALSE, credential} : token' = [token EXCEPT ![h] = t]
     ELSE UNCHANGED token
  /\ UNCHANGED <<key, op, answer>>

\* A hook that ended without a response is an error, on which opencode's
\* bridge blocks and the other agents do as they please.
OnError_Open(a) == {"run", "block"}      \* mutant: the bridge falls through
OnError(a) == IF a = "opencode" THEN {"block"} ELSE {"run", "block"}

\* The agent reads the response.
Deliver(h) ==
  /\ answer[h] = None
  /\ LET a == Agent(key[h]) IN
     \/ /\ pc[h] = "decided"
        /\ answer' = [answer EXCEPT ![h] =
             RenderBy(a, kind[h], Relayable(ParseBy(a, op[h]).input), token[h])]
     \/ /\ pc[h] = "crashed"
        /\ \E does \in OnError(a) :
             answer' = [answer EXCEPT ![h] = Response(does, {}, FALSE)]
  /\ UNCHANGED <<vars, key, op, token>>

WireNext ==
  \/ \E h \in Hooks : \/ Receive(h) \/ Work(h) \/ Deliver(h)
                      \/ Kill(h) /\ UNCHANGED wire
  \/ Outside /\ UNCHANGED wire

WireSpec == /\ WireInit /\ [][WireNext]_wireVars
            /\ \A h \in Hooks : WF_wireVars(Work(h) \/ Deliver(h))

----------------------------------------------------------------------------

\* An agent's call runs only if the hook decided to allow it - or the hook
\* died without a decision at an agent other than opencode - and it is blocked
\* only if the hook did not.  The bridge (pabel.js: "deny, never fall through")
\* lets nothing run that was not allowed.
AnswersFollowDecisions ==
  \A h \in Hooks : answer[h] # None =>
    LET allowed == pc[h] = "decided" /\ kind[h] = "ALLOW" IN
    /\ allowed => answer[h].does = "run"
    /\ ~allowed /\ answer[h].does = "run" =>
         pc[h] = "crashed" /\ Agent(key[h]) # "opencode"

\* Every agent is handed what its call was decided to get and nothing else: a
\* served read's content, of the file that call named first, in every channel
\* its agent has for it; the agent's token only inside the input of a call
\* for the deployed server's tools, and only when it was stored.
HandedOver ==
  \A h \in Hooks : answer[h] # None =>
    LET in == op[h].input IN
    /\ kind[h] = "DENY_WITH_RELAY" /\ pc[h] = "decided"
         <=> answer[h].shows # {}
    /\ \A s \in answer[h].shows :
         \E i \in DOMAIN in : /\ in[i] = s[2] /\ s[2] \in call[h].files
                              /\ \A j \in 1..(i - 1) : in[j] \notin Files
    /\ Agent(key[h]) \notin {"claude-code", "vscode"} =>
         ("reason" \in {s[1] : s \in answer[h].shows} <=> answer[h].shows # {})
    /\ answer[h].token =>
         /\ answer[h].does = "run" /\ credential /\ op[h].act = "mcp"
         /\ \/ op[h].server = "pabel"
            \/ Agent(key[h]) = "opencode" /\ ~op[h].prefix /\ op[h].tool # "another"

\* One call, one verdict: whichever agent a read, a command or a write is made
\* through, the policy says the same.  Only the MCP calls, which agents name
\* differently, and the writes, of which Windsurf shows the target alone, may
\* fare differently.
SameCallSameVerdict ==
  \A h \in Hooks : op[h] # None /\ op[h].act # "mcp" =>
    LET mine == ParseBy(Agent(key[h]), op[h]) IN
    \A k \in Keys :
      LET theirs == ParseBy(Agent(k), op[h]) IN
      Handles(k, op[h]) /\ theirs.input = mine.input =>
        Verdict(Detect(theirs)) = Verdict(call[h])
=============================================================================
