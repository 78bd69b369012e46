-------------------------- MODULE LocalToolsProofs --------------------------
(***************************************************************************)
(* Theorems about LocalTools, for any number of calls, sessions and        *)
(* products: that every call logs in once and redeems its own code, and    *)
(* which copies outlive their session.                                     *)
(*                                                                         *)
(* A call that has been to the browser does not return to it, and its code *)
(* is presented by no other, since a login compares the state (LoginFits). *)
(*                                                                         *)
(* A copy of a session that is over is in one of three places: still on    *)
(* its purge's list, left by the purge because it was being written, or    *)
(* younger than the list (Accounted).  Since only a purge of the copy's    *)
(* own product can have it on a list (Listed), nothing else removes it.    *)
(***************************************************************************)
EXTENDS LocalTools, TLAPS

Places == {"idle", "token", "relay", "browser", "bind", "listening", "received",
           "exchange", "mkdir", "create", "write", "done"}
Redirects == [state : Calls, code : BOOLEAN]
CallType == [pc : Places, tool : ToolNames \cup {None}, in : Sessions \cup {None},
             got : Redirects \cup {None}, tried : BOOLEAN, copied : BOOLEAN]

Types ==
  /\ call \in [Calls -> CallType]
  /\ opened \subseteq Calls /\ spent \subseteq Calls
  /\ session \in [Sessions -> {"open", "purging", "ended"}]
  /\ todo \in [Sessions -> SUBSET Calls]
  /\ copies \subseteq Calls

\* Where a call r may be, by whether its URL is out and its code is spent.
LoginFits(c, r, out, used) ==
  /\ r.pc = "exchange" => r.got.state = c
  /\ r.pc \in {"bind", "listening", "received", "exchange"} => c \in out
  /\ c \in out => r.pc = "done" \/ (r.tried /\ r.pc \notin {"idle", "token", "browser"})
  /\ c \in used => c \in out /\ r.pc \in {"relay", "mkdir", "create", "write", "done"}

\* What a call is known by.
CallOK(c) ==
  /\ call[c].pc # "idle" => call[c].in \in Sessions
  /\ LoginFits(c, call[c], opened, spent)
  /\ call[c].copied => call[c].pc = "done"
  /\ c \in copies => call[c].pc \in {"write", "done"}
  /\ call[c].pc = "write" \/ call[c].copied =>
       Product[call[c].in] \in Purging \/ c \in copies

\* A list holds copies of its own product.
Listed(s) ==
  /\ \A c \in todo[s] : /\ call[c].pc \in {"write", "done"}
                        /\ Product[call[c].in] = Product[s] /\ Product[s] \in Purging
  /\ session[s] = "ended" => todo[s] = {}

Accounted(c) ==
  c \in copies /\ session[call[c].in] # "open" /\ Product[call[c].in] \in Purging =>
    c \in late \cup stuck \cup todo[call[c].in]

IInv ==
  /\ Types
  /\ \A c \in Calls : CallOK(c) /\ Accounted(c)
  /\ \A s \in Sessions : Listed(s)

----------------------------------------------------------------------------

LEMMA InitIInv == Init => IInv
BY LocalToolsAssumption DEF Init, IInv, Types, CallOK, LoginFits, Accounted, Listed, Fresh, CallType, Places, ToolNames

\* A step of call c adds at most itself to both.
Adds(c) ==
  /\ opened' \in {opened, opened \cup {c}}
  /\ spent' \in {spent, spent \cup {c}}

\* A step of one call that touches no file.
LEMMA CallMoves ==
  ASSUME IInv, NEW c \in Calls, NEW r \in CallType,
         call' = [call EXCEPT ![c] = r], Adds(c), UNCHANGED <<ends, disk>>,
         call[c].pc # "done", r.in \in Sessions, call[c].pc # "idle" => r.in = call[c].in,
         r.pc \notin {"idle", "write"}, call[c].pc = "write" => r.pc = "done",
         r.copied => r.pc = "done" /\ call[c].pc = "write",
         LoginFits(c, r, opened', spent')
  PROVE  IInv'
<1>1. /\ call'[c] = r /\ \A d \in Calls \ {c} : call'[d] = call[d]
      /\ session' = session /\ todo' = todo /\ copies' = copies /\ late' = late /\ stuck' = stuck
  BY DEF IInv, Types, ends, disk
<1>2. Types'
  BY <1>1 DEF IInv, Types, Adds
<1>3. ASSUME NEW d \in Calls PROVE CallOK(d)' /\ Accounted(d)'
  <2>1. CASE d # c
    <3>1. CallOK(d) /\ Accounted(d)
      BY DEF IInv
    <3>2. (d \in opened' <=> d \in opened) /\ (d \in spent' <=> d \in spent)
      BY <2>1 DEF Adds
    <3>3. CallOK(d)'
      BY <1>1, <2>1, <3>1, <3>2 DEF CallOK, LoginFits
    <3> QED BY <1>1, <2>1, <3>1, <3>3 DEF Accounted
  <2>2. CASE d = c
    <3>1. CallOK(c) /\ Accounted(c)
      BY DEF IInv
    <3>2. CallOK(c)'
      BY <1>1, <3>1 DEF CallOK
    <3>3. Accounted(c)'
      BY <1>1, <3>1 DEF CallOK, Accounted
    <3> QED BY <2>2, <3>2, <3>3
  <2> QED BY <2>1, <2>2
<1>4. ASSUME NEW s \in Sessions PROVE Listed(s)'
  <2>1. Listed(s) /\ todo[s] \subseteq Calls
    BY DEF IInv, Types
  <2>2. ASSUME NEW d \in todo[s]
        PROVE  call'[d].pc \in {"write", "done"} /\ call'[d].in = call[d].in
    BY <1>1, <2>1 DEF Listed
  <2> QED
    BY <1>1, <2>1, <2>2 DEF Listed
<1> QED
  BY <1>2, <1>3, <1>4 DEF IInv

\* A call that ends where it is.
LEMMA EndKeeps ==
  ASSUME IInv, NEW c \in Calls, End(c), call[c].pc \notin {"idle", "done"},
         Adds(c), c \in spent' => c \in opened', UNCHANGED <<ends, disk>>
  PROVE  IInv'
<1>1. call[c] \in CallType /\ CallOK(c)
  BY DEF IInv, Types
<1>2. Done(c) \in CallType
  BY <1>1 DEF Done, Fresh, CallType, Places
<1>3. LoginFits(c, Done(c), opened', spent')
  BY DEF LoginFits, Done, Fresh
<1> QED
  BY <1>1, <1>2, <1>3, CallMoves DEF End, Done, Fresh, CallOK

\* A call that goes on.
LEMMA GotoKeeps ==
  ASSUME IInv, NEW c \in Calls, NEW l \in Places \ {"idle", "write"}, Goto(c, l),
         call[c].pc \notin {"idle", "write", "done"},
         Adds(c), LoginFits(c, [call[c] EXCEPT !.pc = l], opened', spent'), UNCHANGED <<ends, disk>>
  PROVE  IInv'
<1>1. call[c] \in CallType /\ CallOK(c)
  BY DEF IInv, Types
<1> DEFINE r == [call[c] EXCEPT !.pc = l]
<1>2. r \in CallType /\ r.pc = l /\ r.in = call[c].in /\ r.copied = call[c].copied
  BY <1>1 DEF CallType
<1>3. call' = [call EXCEPT ![c] = r]
  BY DEF Goto, IInv, Types
<1>4. ~r.copied /\ r.in \in Sessions
  BY <1>1, <1>2 DEF CallOK
<1>5. LoginFits(c, r, opened', spent')
  OBVIOUS
<1> HIDE DEF r
<1> QED
  BY <1>2, <1>3, <1>4, <1>5, CallMoves

LEMMA UnauthenticatedKeeps ==
  ASSUME IInv, NEW c \in Calls, Unauthenticated(c), call[c].pc \in {"token", "relay"},
         UNCHANGED <<login, ends, disk>>
  PROVE  IInv'
<1>1. /\ call[c] \in CallType /\ LoginFits(c, call[c], opened, spent)
      /\ Adds(c) /\ opened' = opened /\ spent' = spent
  BY DEF IInv, Types, CallOK, Adds, login
<1>2. CASE Retries(c)
  <2>1. LoginFits(c, [call[c] EXCEPT !.pc = "browser"], opened', spent')
    BY <1>1, <1>2 DEF LoginFits, Retries, CallType
  <2> QED BY <1>1, <1>2, <2>1, GotoKeeps DEF Unauthenticated, Places
<1>3. CASE ~Retries(c)
  BY <1>1, <1>3, EndKeeps DEF Unauthenticated, LoginFits
<1> QED
  BY <1>2, <1>3

LEMMA BeginKeeps ==
  ASSUME IInv, NEW c \in Calls, Begin(c)
  PROVE  IInv'
<1>1. PICK t \in ToolNames, s \in Sessions :
        call' = [call EXCEPT ![c].pc = "token", ![c].tool = t, ![c].in = s]
  BY DEF Begin
<1> DEFINE r == [call[c] EXCEPT !.pc = "token", !.tool = t, !.in = s]
<1>2. call[c] \in CallType /\ CallOK(c) /\ call[c].pc = "idle" /\ Adds(c)
      /\ opened' = opened /\ spent' = spent /\ UNCHANGED <<ends, disk>>
  BY DEF IInv, Types, Begin, login, Adds
<1>3. r \in CallType /\ r.pc = "token" /\ r.in = s /\ r.copied = call[c].copied
  BY <1>2 DEF CallType, Places
<1>4. call' = [call EXCEPT ![c] = r]
  BY <1>1 DEF IInv, Types
<1>5. ~r.copied /\ LoginFits(c, r, opened', spent')
  BY <1>2, <1>3 DEF CallOK, LoginFits
<1> HIDE DEF r
<1> QED
  BY <1>2, <1>3, <1>4, <1>5, CallMoves

LEMMA LoginKeeps ==
  ASSUME IInv, NEW c \in Calls,
         Token(c) \/ Relay(c) \/ OpenBrowser(c) \/ Bind(c)
  PROVE  IInv'
<1>0. call[c] \in CallType /\ CallOK(c) /\ LoginFits(c, call[c], opened, spent)
  BY DEF IInv, Types, CallOK
<1>1. CASE Token(c)
  <2>1. /\ call[c].pc = "token" /\ Adds(c) /\ opened' = opened /\ spent' = spent
        /\ UNCHANGED <<login, ends, disk>>
    BY <1>1 DEF Token, At, Adds, login
  <2>2. LoginFits(c, [call[c] EXCEPT !.pc = "relay"], opened', spent')
    BY <1>0, <2>1 DEF LoginFits, CallType
  <2>3. c \in spent' => c \in opened'
    BY <1>0, <2>1 DEF LoginFits
  <2> QED BY <1>1, <2>1, <2>2, <2>3, EndKeeps, GotoKeeps, UnauthenticatedKeeps DEF Token, Places
<1>2. CASE Relay(c)
  <2>1. /\ call[c].pc = "relay" /\ Adds(c) /\ opened' = opened /\ spent' = spent
        /\ UNCHANGED <<login, ends, disk>>
    BY <1>2 DEF Relay, At, Adds, login
  <2>2. LoginFits(c, [call[c] EXCEPT !.pc = "mkdir"], opened', spent')
    BY <1>0, <2>1 DEF LoginFits, CallType
  <2>3. c \in spent' => c \in opened'
    BY <1>0, <2>1 DEF LoginFits
  <2> QED BY <1>2, <2>1, <2>2, <2>3, EndKeeps, GotoKeeps, UnauthenticatedKeeps DEF Relay, Places
<1>3. CASE OpenBrowser(c)
  <2>1. /\ call[c].pc = "browser" /\ Adds(c) /\ c \in opened' /\ c \notin spent'
        /\ UNCHANGED <<ends, disk>>
    BY <1>0, <1>3 DEF OpenBrowser, At, Adds, LoginFits
  <2>2. CASE call' = [call EXCEPT ![c].pc = "bind", ![c].tried = TRUE]
    <3> DEFINE r == [call[c] EXCEPT !.pc = "bind", !.tried = TRUE]
    <3>1. /\ r \in CallType /\ r.pc = "bind" /\ r.in = call[c].in
          /\ r.copied = call[c].copied /\ r.tried
      BY <1>0 DEF CallType, Places
    <3>2. call' = [call EXCEPT ![c] = r]
      BY <2>2 DEF IInv, Types
    <3>3. ~r.copied /\ r.in \in Sessions /\ LoginFits(c, r, opened', spent')
      BY <1>0, <2>1, <3>1 DEF CallOK, LoginFits
    <3> HIDE DEF r
    <3> QED BY <2>1, <3>1, <3>2, <3>3, CallMoves
  <2>3. CASE End(c)
    BY <2>1, <2>3, EndKeeps
  <2> QED BY <1>3, <2>2, <2>3 DEF OpenBrowser
<1>4. CASE Bind(c)
  <2>1. /\ call[c].pc = "bind" /\ Adds(c) /\ opened' = opened /\ spent' = spent
        /\ UNCHANGED <<ends, disk>>
    BY <1>4 DEF Bind, At, Adds, login
  <2>2. LoginFits(c, [call[c] EXCEPT !.pc = "listening"], opened', spent')
    BY <1>0, <2>1 DEF LoginFits, CallType
  <2>3. c \in spent' => c \in opened'
    BY <1>0, <2>1 DEF LoginFits
  <2> QED BY <1>4, <2>1, <2>2, <2>3, EndKeeps, GotoKeeps DEF Bind, Places
<1> QED
  BY <1>1, <1>2, <1>3, <1>4

LEMMA CallbackKeeps ==
  ASSUME IInv, NEW c \in Calls, Redirected(c) \/ GiveUp(c)
  PROVE  IInv'
<1>1. PICK got \in Redirects \cup {None} :
        call' = [call EXCEPT ![c].pc = "received", ![c].got = got]
  BY DEF Redirected, GiveUp, Receive, Redirects, IInv, Types
<1>2. /\ call[c] \in CallType /\ CallOK(c) /\ call[c].pc = "listening"
      /\ Adds(c) /\ opened' = opened /\ spent' = spent /\ UNCHANGED <<ends, disk>>
  BY DEF Redirected, GiveUp, Receive, IInv, Types, Adds, login
<1> DEFINE r == [call[c] EXCEPT !.pc = "received", !.got = got]
<1>3. /\ r \in CallType /\ r.pc = "received" /\ r.in = call[c].in
      /\ r.copied = call[c].copied /\ r.tried = call[c].tried
  BY <1>2 DEF CallType, Places
<1>4. call' = [call EXCEPT ![c] = r]
  BY <1>1 DEF IInv, Types
<1>5. ~r.copied /\ r.in \in Sessions /\ LoginFits(c, r, opened', spent')
  BY <1>2, <1>3 DEF CallOK, LoginFits
<1> HIDE DEF r
<1> QED
  BY <1>2, <1>3, <1>4, <1>5, CallMoves

\* The one step that leads to an exchange.
LEMMA CheckKeeps ==
  ASSUME IInv, NEW c \in Calls, Check(c)
  PROVE  IInv'
<1>1. /\ call[c] \in CallType /\ CallOK(c) /\ call[c].pc = "received"
      /\ Adds(c) /\ opened' = opened /\ spent' = spent /\ UNCHANGED <<ends, disk>>
  BY DEF Check, At, IInv, Types, Adds, login
<1>2. CASE Accepts(c, call[c].got)
  <2> DEFINE r == [call[c] EXCEPT !.pc = "exchange"]
  <2>1. /\ r \in CallType /\ r.pc = "exchange" /\ r.in = call[c].in /\ r.got = call[c].got
        /\ r.copied = call[c].copied /\ r.tried = call[c].tried
    BY <1>1 DEF CallType, Places
  <2>2. call' = [call EXCEPT ![c] = r]
    BY <1>2 DEF Check, Goto, IInv, Types
  <2>3. ~r.copied /\ r.in \in Sessions /\ LoginFits(c, r, opened', spent')
    BY <1>1, <1>2, <2>1 DEF CallOK, LoginFits, Accepts
  <2> HIDE DEF r
  <2> QED BY <1>1, <2>1, <2>2, <2>3, CallMoves
<1>3. CASE ~Accepts(c, call[c].got)
  BY <1>1, <1>3, EndKeeps DEF Check, CallOK, LoginFits
<1> QED
  BY <1>2, <1>3

LEMMA ExchangeKeeps ==
  ASSUME IInv, NEW c \in Calls, Exchange(c)
  PROVE  IInv'
<1>1. /\ call[c] \in CallType /\ CallOK(c) /\ LoginFits(c, call[c], opened, spent)
      /\ call[c].pc = "exchange" /\ call[c].got.state = c
  BY DEF Exchange, At, IInv, Types, CallOK, LoginFits
<1>2. Adds(c) /\ c \in opened' /\ UNCHANGED <<ends, disk>>
  BY <1>1 DEF Exchange, Adds, LoginFits
<1>3. LoginFits(c, [call[c] EXCEPT !.pc = "relay"], opened', spent')
  BY <1>1, <1>2 DEF LoginFits, CallType
<1> QED
  BY <1>1, <1>2, <1>3, EndKeeps, GotoKeeps DEF Exchange, Places

LEMMA StopKeeps ==
  ASSUME IInv, NEW c \in Calls, StopServer(c)
  PROVE  IInv'
BY EndKeeps DEF StopServer, Adds, login, IInv, CallOK, LoginFits

----------------------------------------------------------------------------
(* The copies.                                                             *)

LEMMA MkdirKeeps ==
  ASSUME IInv, NEW c \in Calls, Mkdir(c)
  PROVE  IInv'
<1>1. /\ call[c] \in CallType /\ CallOK(c) /\ call[c].pc = "mkdir" /\ Types
      /\ call' = [call EXCEPT ![c].pc = "create"]
      /\ UNCHANGED <<opened, spent, session, todo, copies, late, stuck>>
  BY DEF Mkdir, At, Goto, login, ends, IInv, Types
<1>2. /\ call'[c].pc = "create" /\ call'[c].in = call[c].in /\ call'[c].copied = call[c].copied
      /\ call'[c].tried = call[c].tried
      /\ \A d \in Calls \ {c} : call'[d] = call[d]
  BY <1>1 DEF Types, CallType
<1>3. Types'
  BY <1>1 DEF Types, CallType, Places
<1>4. \A d \in Calls : CallOK(d)' /\ Accounted(d)'
  BY <1>1, <1>2 DEF IInv, CallOK, LoginFits, Accounted
<1>5. \A s \in Sessions : Listed(s)'
  BY <1>1, <1>2 DEF IInv, Listed, Types
<1> QED
  BY <1>3, <1>4, <1>5 DEF IInv

\* A new copy: on no list, and late unless its session is open.
LEMMA CreateKeeps ==
  ASSUME IInv, NEW c \in Calls, Create(c)
  PROVE  IInv'
<1>1. CASE CacheDir(Product[call[c].in]) \subseteq dirs
  <2>1. /\ call[c] \in CallType /\ CallOK(c) /\ call[c].pc = "create" /\ Types
        /\ call' = [call EXCEPT ![c].pc = "write"] /\ copies' = copies \cup {c}
        /\ late' = IF session[call[c].in] = "open" THEN late ELSE late \cup {c}
        /\ UNCHANGED <<opened, spent, session, todo, stuck>>
    BY <1>1 DEF Create, At, Goto, login, ends, IInv, Types
  <2>2. /\ call'[c].pc = "write" /\ call'[c].in = call[c].in /\ call'[c].copied = call[c].copied
        /\ call'[c].tried = call[c].tried
        /\ \A d \in Calls \ {c} : call'[d] = call[d]
    BY <2>1 DEF Types, CallType
  <2>3. Types'
    BY <2>1 DEF Types, CallType, Places
  <2>4. ASSUME NEW d \in Calls PROVE CallOK(d)' /\ Accounted(d)'
    <3>1. CASE d # c
      BY <2>1, <2>2, <3>1 DEF IInv, CallOK, LoginFits, Accounted
    <3>2. CASE d = c
      BY <2>1, <2>2, <3>2 DEF IInv, CallOK, LoginFits, Accounted
    <3> QED BY <3>1, <3>2
  <2>5. \A s \in Sessions : Listed(s)'
    BY <2>1, <2>2 DEF IInv, Listed, Types
  <2> QED
    BY <2>3, <2>4, <2>5 DEF IInv
<1>2. CASE ~(CacheDir(Product[call[c].in]) \subseteq dirs)
  BY <1>2, EndKeeps DEF Create, At, login, disk, Adds, IInv, CallOK, LoginFits
<1> QED
  BY <1>1, <1>2

LEMMA WriteKeeps ==
  ASSUME IInv, NEW c \in Calls, Write(c)
  PROVE  IInv'
<1> DEFINE r == [Done(c) EXCEPT !.copied = TRUE]
<1>1. /\ call[c] \in CallType /\ CallOK(c) /\ call[c].pc = "write"
      /\ call' = [call EXCEPT ![c] = r]
      /\ Adds(c) /\ opened' = opened /\ spent' = spent /\ UNCHANGED <<ends, disk>>
  BY DEF Write, At, login, Adds, IInv, Types
<1>2. r \in CallType /\ r.pc = "done" /\ r.in = call[c].in
  BY <1>1 DEF Done, Fresh, CallType, Places
<1>3. r.in \in Sessions /\ LoginFits(c, r, opened', spent')
  BY <1>1, <1>2 DEF CallOK, LoginFits
<1> HIDE DEF r
<1> QED
  BY <1>1, <1>2, <1>3, CallMoves

LEMMA EndSessionKeeps ==
  ASSUME IInv, NEW s \in Sessions, EndSession(s)
  PROVE  IInv'
<1>1. Types /\ session[s] = "open" /\ UNCHANGED <<call, opened, spent, copies, late, stuck>>
  BY DEF EndSession, login, disk, IInv
<1>2. CASE Product[s] \in Purging
  <2>1. /\ session' = [session EXCEPT ![s] = "purging"]
        /\ todo' = [todo EXCEPT ![s] = InDir(Product[s])]
    BY <1>2 DEF EndSession
  <2>2. /\ \A x \in Sessions \ {s} : session'[x] = session[x] /\ todo'[x] = todo[x]
        /\ session'[s] = "purging"
        /\ todo'[s] = {c \in copies : Product[call[c].in] = Product[s]}
    BY <1>1, <2>1 DEF Types, InDir, CacheDir
  <2>3. Types'
    BY <1>1, <2>1, <2>2 DEF Types
  <2>4. \A c \in Calls : CallOK(c)' /\ Accounted(c)'
    BY <1>1, <2>2 DEF IInv, CallOK, Accounted
  <2>5. \A x \in Sessions : Listed(x)'
    BY <1>1, <1>2, <2>2 DEF IInv, CallOK, Listed, Types
  <2> QED BY <2>3, <2>4, <2>5 DEF IInv
<1>3. CASE Product[s] \notin Purging
  <2>1. session' = [session EXCEPT ![s] = "ended"] /\ todo' = todo
    BY <1>3 DEF EndSession
  <2>2. (\A x \in Sessions \ {s} : session'[x] = session[x]) /\ session'[s] = "ended"
    BY <1>1, <2>1 DEF Types
  <2>3. Types'
    BY <1>1, <2>1 DEF Types
  <2>4. \A c \in Calls : CallOK(c)' /\ Accounted(c)'
    BY <1>1, <1>3, <2>1, <2>2 DEF IInv, CallOK, Accounted
  <2>5. \A x \in Sessions : Listed(x)'
    <3>1. todo[s] = {}
      BY <1>3 DEF IInv, Listed
    <3> QED BY <1>1, <2>1, <2>2, <3>1 DEF IInv, Listed
  <2> QED BY <2>3, <2>4, <2>5 DEF IInv
<1> QED
  BY <1>2, <1>3

\* A purge removes a copy of its own product, or leaves it behind.
LEMMA PurgeOneKeeps ==
  ASSUME IInv, NEW s \in Sessions, PurgeOne(s)
  PROVE  IInv'
<1>1. PICK c \in todo[s] :
        \/ /\ copies' = copies \ {c} /\ late' = late \ {c}
           /\ todo' = [todo EXCEPT ![s] = @ \ {c}]
           /\ stuck' = stuck \ {c} /\ UNCHANGED session
        \/ /\ stuck' = stuck \cup {c}
           /\ todo' = [todo EXCEPT ![s] = @ \ {c}] /\ UNCHANGED session
           /\ UNCHANGED <<copies, late>>
  BY DEF PurgeOne, StopsPurge
<1>2. /\ Types /\ c \in Calls /\ UNCHANGED <<call, opened, spent, session>>
      /\ call[c].pc \in {"write", "done"}
      /\ Product[call[c].in] = Product[s] /\ Product[s] \in Purging
  BY <1>1 DEF PurgeOne, login, IInv, Types, Listed
<1>3. todo'[s] = todo[s] \ {c} /\ \A x \in Sessions \ {s} : todo'[x] = todo[x]
  BY <1>1, <1>2 DEF Types
<1>4. Types'
  BY <1>1, <1>2, <1>3 DEF Types
<1>5. \A d \in Calls : CallOK(d)'
  BY <1>1, <1>2 DEF IInv, CallOK
<1>6. \A d \in Calls : Accounted(d)'
  BY <1>1, <1>2, <1>3 DEF IInv, Accounted, CallOK
<1>7. \A x \in Sessions : Listed(x)'
  BY <1>1, <1>2, <1>3 DEF IInv, Listed
<1> QED
  BY <1>4, <1>5, <1>6, <1>7 DEF IInv

LEMMA PurgeEndsKeeps ==
  ASSUME IInv, NEW s \in Sessions, PurgeEnds(s)
  PROVE  IInv'
<1>1. /\ Types /\ session[s] = "purging" /\ todo[s] = {}
      /\ session' = [session EXCEPT ![s] = "ended"]
      /\ UNCHANGED <<call, opened, spent, todo, copies, late, stuck>>
  BY DEF PurgeEnds, login, IInv
<1>2. session'[s] = "ended" /\ \A x \in Sessions \ {s} : session'[x] = session[x]
  BY <1>1 DEF Types
<1>3. Types'
  BY <1>1 DEF Types
<1>4. \A c \in Calls : CallOK(c)' /\ Accounted(c)'
  BY <1>1, <1>2 DEF IInv, CallOK, Accounted
<1>5. \A x \in Sessions : Listed(x)'
  BY <1>1, <1>2 DEF IInv, Listed
<1> QED
  BY <1>3, <1>4, <1>5 DEF IInv

LEMMA NextKeeps == IInv /\ [Next]_vars => IInv'
<1> SUFFICES ASSUME IInv, [Next]_vars PROVE IInv'
  OBVIOUS
<1>1. CASE UNCHANGED vars
  BY <1>1 DEF vars, login, ends, disk, IInv, Types, CallOK, Accounted, Listed
<1>2. ASSUME NEW c \in Calls, Begin(c) \/ Step(c) \/ Redirected(c) \/ StopServer(c) PROVE IInv'
  BY <1>2, BeginKeeps, LoginKeeps, CallbackKeeps, CheckKeeps, ExchangeKeeps, StopKeeps,
     MkdirKeeps, CreateKeeps, WriteKeeps DEF Step
<1>3. ASSUME NEW s \in Sessions, EndSession(s) \/ Purge(s) PROVE IInv'
  BY <1>3, EndSessionKeeps, PurgeOneKeeps, PurgeEndsKeeps DEF Purge
<1>4. CASE Expire
  BY <1>4 DEF Expire, ends, disk, IInv, Types, CallOK, Accounted, Listed
<1> QED
  BY <1>1, <1>2, <1>3, <1>4 DEF Next

LEMMA AlwaysIInv == Spec => []IInv
BY InitIInv, NextKeeps, PTL DEF Spec

\* Calls, sessions, the port and the purges' lists keep their types.
THEOREM LocalToolTypes == Spec => []Types
BY AlwaysIInv, PTL DEF IInv

\* Every call goes to the browser at most once, and a login that has its code
\* finds it unspent, however many logins share the port and whatever arrives
\* there.
THEOREM OneLoginAlways == Spec => []OneLoginEach
<1>1. IInv => OneLoginEach
  BY DEF IInv, CallOK, LoginFits, OneLoginEach
<1> QED BY <1>1, AlwaysIInv, PTL

\* A copy outlives its session only if the purge could not know of it, and one
\* of a product without the hook is removed by nobody.
THEOREM CopiesAlwaysGo == Spec => []CopiesGoWithTheirSession
<1>1. ASSUME IInv PROVE CopiesGoWithTheirSession
  <2>1. ASSUME NEW c \in copies, session[call[c].in] = "ended", Product[call[c].in] \in Purging
        PROVE  c \in late \cup stuck
    <3>1. c \in Calls /\ Accounted(c) /\ CallOK(c)
      BY <1>1 DEF IInv, Types
    <3>2. call[c].in \in Sessions
      BY <3>1 DEF CallOK
    <3>3. todo[call[c].in] = {}
      BY <1>1, <2>1, <3>2 DEF IInv, Listed
    <3> QED BY <2>1, <3>1, <3>3 DEF Accounted
  <2>2. ASSUME NEW c \in Calls, call[c].copied, Product[call[c].in] \notin Purging
        PROVE  c \in copies
    BY <1>1, <2>2 DEF IInv, CallOK
  <2> QED
    BY <2>1, <2>2 DEF CopiesGoWithTheirSession
<1> QED BY <1>1, AlwaysIInv, PTL
=============================================================================
