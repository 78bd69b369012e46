-------------------------- MODULE HookDecideProofs --------------------------
(***************************************************************************)
(* Theorems about HookDecide, and about HookWire around it, for every set  *)
(* of hooks, files and calls.                                              *)
(*                                                                         *)
(* What a hook decides follows from its call alone (VerdictSound) and from *)
(* how its relay went.  Progress says what each place of a hook knows of   *)
(* the latter; nothing in it depends on the other hooks, so whatever they  *)
(* do to the shared session, credential and port, it stays true.           *)
(***************************************************************************)
EXTENDS HookWire, WellFoundedInduction, TLAPS

\* What may be let through.
Harmless(c) ==
  /\ ~c.store
  /\ ~(c.execute /\ c.internals)
  /\ \/ c.mcp # "none"
     \/ c.write = "other"
     \/ c.write = "none" /\ ~(c.execute /\ c.oabe) /\ ~c.mentions

Relaying == {"agent token", "human token", "server", "login", "callback"}

\* How a hook came by its task and its decision.
Cause(c, w, k) ==
  /\ w = "report" <=> k \in LocalDenials
  /\ w = "inject" => c.mcp # "none" /\ Harmless(c)
  /\ k = "ALLOW" => Harmless(c)

\* What each place of a hook knows.
Place(l, c, w, k, t) ==
  /\ l = "idle" => k = None /\ t.logs = 0
  /\ l # "idle" => c \in Calls
  /\ l \in Relaying => w \in Tasks /\ k \in LocalDenials \cup {None}
  /\ l \in Relaying /\ w = "inject" => l = "agent token"
  /\ l \in {"login", "callback"} => w = "read" /\ t.logins = 0
  /\ l = "log" => k # None /\ (k = "ALLOW" => c.mcp # "none")
  /\ l = "decided" => (t.logs = 0 <=> k = "ALLOW" /\ c.mcp = "none")

\* What a hook has left behind: attempts, reports, logs, records at the server.
Left(l, w, k, t) ==
  /\ w # "read" => t.reads = 0 /\ t.logins = 0
  /\ w = "read" => \/ t.reads = 1 /\ t.logins = 0
                   \/ t.reads = 2 /\ t.logins = 1
  /\ t.reports = 1 <=> w = "report"
  /\ l \in Relaying \/ k = "DENY_AUTH_ERROR" => t.served = {}
  /\ k = "DENY_WITH_RELAY" => "ok" \in t.served
  /\ l \in Running => t.logs = 0

Consistent(l, c, w, k, t) == Cause(c, w, k) /\ Place(l, c, w, k, t) /\ Left(l, w, k, t)

Progress(h) == Consistent(pc[h], call[h], task[h], kind[h], trail[h])

IInv == TypeOK /\ \A h \in Hooks : Progress(h)

----------------------------------------------------------------------------

\* The first check that applies settles the call.
LEMMA VerdictSound ==
  ASSUME NEW c \in Calls
  PROVE  /\ Verdict(c) \in LocalDenials \cup {"ALLOW", "own tools", "server tools", "relay"}
         /\ Verdict(c) \in {"ALLOW", "own tools", "server tools"} => Harmless(c)
         /\ Verdict(c) \in {"own tools", "server tools"} => c.mcp # "none"
         /\ Verdict(c) = "ALLOW" => c.mcp = "none"
<1> /\ c.mcp \in {"none", "pabel", "pabel-connector"}
    /\ c.write \in {"none", "abe", "config", "other"}
  BY CallsAssumption DEF CallType
<1> QED
  BY DEF Verdict, WriteVerdict, ReadVerdict, Harmless, LocalDenials

----------------------------------------------------------------------------

LEMMA AttemptsType ==
  ASSUME NEW r \in {0, 1}, NEW d \in {0, 1}
  PROVE  /\ Attempts(r, d) \in Trails
         /\ Attempts(r, d).reads = r /\ Attempts(r, d).reports = d
         /\ Attempts(r, d).logins = 0 /\ Attempts(r, d).logs = 0
         /\ Attempts(r, d).served = {}
BY DEF Attempts, Trails

LEMMA Digits == 0 # 1 /\ 1 # 2 /\ 0 # 2
OBVIOUS

LEMMA NoneIsNone ==
  /\ None \notin {"read", "inject", "report", "ALLOW", "DENY_WITH_RELAY",
                  "DENY_AUTH_ERROR", "DENY_RELAY_ERROR"}
  /\ None \notin LocalDenials
BY CallsAssumption DEF Kinds, Tasks, RelayDenials

\* The values of one hook are well-typed.
LEMMA Types ==
  ASSUME IInv, NEW h \in Hooks
  PROVE  /\ pc[h] \in Running \cup Over /\ call[h] \in Calls \cup {None}
         /\ task[h] \in Tasks \cup {None} /\ kind[h] \in Kinds \cup {None}
         /\ trail[h] \in Trails
         /\ Consistent(pc[h], call[h], task[h], kind[h], trail[h])
BY DEF IInv, TypeOK, Progress

LEMMA InitIInv == Init => IInv
<1> SUFFICES ASSUME Init PROVE IInv
  OBVIOUS
<1>1. NoTrail \in Trails /\ NoTrail.reads = 0 /\ NoTrail.reports = 0
      /\ NoTrail.logins = 0 /\ NoTrail.logs = 0 /\ NoTrail.served = {}
  BY AttemptsType DEF NoTrail
<1>2. TypeOK
  BY <1>1 DEF Init, TypeOK, Over
<1>3. Consistent("idle", None, None, None, NoTrail)
  BY <1>1, NoneIsNone DEF Consistent, Cause, Place, Left, Relaying, Running
<1>4. ASSUME NEW h \in Hooks PROVE Progress(h)
  BY <1>3 DEF Init, Progress
<1> QED BY <1>2, <1>4 DEF IInv

\* A step of h keeps the invariant if the values it leads to are consistent.
LEMMA Keeps ==
  ASSUME IInv, NEW h \in Hooks,
         session' \in {"none", "live", "expired"}, credential' \in BOOLEAN,
         port' \in Hooks \cup {None},
         NEW l \in Running \cup Over, pc' = [pc EXCEPT ![h] = l],
         NEW c \in Calls \cup {None}, call' = [call EXCEPT ![h] = c],
         NEW w \in Tasks \cup {None}, task' = [task EXCEPT ![h] = w],
         NEW k \in Kinds \cup {None}, kind' = [kind EXCEPT ![h] = k],
         NEW t \in Trails, trail' = [trail EXCEPT ![h] = t],
         Consistent(l, c, w, k, t)
  PROVE  IInv'
<1>1. TypeOK'
  BY DEF IInv, TypeOK
<1>2. ASSUME NEW g \in Hooks PROVE Progress(g)'
  <2>1. CASE g = h
    <3>1. /\ pc'[g] = l /\ call'[g] = c /\ task'[g] = w /\ kind'[g] = k /\ trail'[g] = t
      BY <2>1 DEF IInv, TypeOK
    <3> QED BY <3>1 DEF Progress
  <2>2. CASE g # h
    <3>1. /\ pc'[g] = pc[g] /\ call'[g] = call[g] /\ task'[g] = task[g]
          /\ kind'[g] = kind[g] /\ trail'[g] = trail[g]
      BY <2>2 DEF IInv, TypeOK
    <3> QED BY <3>1 DEF IInv, Progress
  <2> QED BY <2>1, <2>2
<1> QED BY <1>1, <1>2 DEF IInv

\* The same for a step that only goes on with the call and task it has.
LEMMA Moves ==
  ASSUME IInv, NEW h \in Hooks, UNCHANGED <<call, task>>,
         session' \in {"none", "live", "expired"}, UNCHANGED credential,
         port' \in Hooks \cup {None},
         NEW l \in Running \cup Over, Goto(h, l),
         NEW k \in Kinds \cup {None}, Decide(h, k),
         NEW t \in Trails, trail' = [trail EXCEPT ![h] = t],
         Consistent(l, call[h], task[h], k, t)
  PROVE  IInv'
<1>1. call' = [call EXCEPT ![h] = call[h]] /\ task' = [task EXCEPT ![h] = task[h]]
  BY DEF IInv, TypeOK
<1>2. call[h] \in Calls \cup {None} /\ task[h] \in Tasks \cup {None} /\ credential' \in BOOLEAN
  BY DEF IInv, TypeOK
<1> QED BY <1>1, <1>2, Keeps DEF Goto, Decide

----------------------------------------------------------------------------
(* What a step leads to, from consistent values.                           *)

LEMMA LeftAtStart ==
  ASSUME NEW l, NEW w, NEW k, NEW t, t.served = {}, t.logs = 0, t.logins = 0,
         w = "read" => t.reads = 1, w # "read" => t.reads = 0,
         t.reports = 1 <=> w = "report", k # "DENY_WITH_RELAY"
  PROVE  Left(l, w, k, t)
BY DEF Left

LEMMA Started ==
  ASSUME NEW c \in Calls, NEW t \in Trails, NEW l, NEW w, NEW k, NEW v,
         v = Verdict(c), t.served = {}, t.logs = 0, t.logins = 0,
         \/ v = "own tools" /\ l = "log" /\ w = None /\ k = "ALLOW" /\ t.reads = 0 /\ t.reports = 0
         \/ v = "ALLOW" /\ l = "decided" /\ w = None /\ k = "ALLOW" /\ t.reads = 0 /\ t.reports = 0
         \/ v = "server tools" /\ l = "agent token" /\ w = "inject" /\ k = None /\ t.reads = 0 /\ t.reports = 0
         \/ v = "relay" /\ l = "agent token" /\ w = "read" /\ k = None /\ t.reads = 1 /\ t.reports = 0
         \/ v \in LocalDenials /\ l = "agent token" /\ w = "report" /\ k = v /\ t.reads = 0 /\ t.reports = 1
  PROVE  Consistent(l, c, w, k, t)
<1>1. /\ v \in {"ALLOW", "own tools", "server tools"} => Harmless(c)
      /\ v \in {"own tools", "server tools"} => c.mcp # "none"
      /\ v = "ALLOW" => c.mcp = "none"
  BY VerdictSound
<1>2. Cause(c, w, k)
  BY <1>1, NoneIsNone DEF Cause, LocalDenials
<1>3. Place(l, c, w, k, t)
  BY <1>1, NoneIsNone DEF Place, Relaying, Tasks
<1>4. Left(l, w, k, t)
  <2>1. (w = "read" => t.reads = 1) /\ (w # "read" => t.reads = 0)
    BY NoneIsNone, Zenon
  <2>2. t.reports = 1 <=> w = "report"
    BY NoneIsNone, Digits, Zenon
  <2>3. k # "DENY_WITH_RELAY"
    BY NoneIsNone DEF LocalDenials
  <2> QED BY <2>1, <2>2, <2>3, LeftAtStart, Zenon
<1> QED BY <1>2, <1>3, <1>4 DEF Consistent

\* An AuthError: what AuthFails does with it.
LEMMA AfterAuthError ==
  ASSUME NEW l, NEW c \in Calls, NEW w, NEW k, NEW t, NEW l2, NEW k2,
         Consistent(l, c, w, k, t), l \in {"agent token", "human token"},
         \/ w = "read" /\ t.reads = 1 /\ l2 = "login" /\ k2 = k
         \/ w = "read" /\ l2 = "log" /\ k2 = "DENY_AUTH_ERROR"
         \/ w = "report" /\ l2 = "log" /\ k2 = k
         \/ w = "inject" /\ l2 = "log" /\ k2 = "ALLOW"
  PROVE  Consistent(l2, c, w, k2, t)
<1>1. Cause(c, w, k) /\ Place(l, c, w, k, t) /\ Left(l, w, k, t)
  BY DEF Consistent
<1>2. Cause(c, w, k2)
  BY <1>1, NoneIsNone DEF Cause, LocalDenials
<1>3. t.served = {} /\ t.logs = 0
  BY <1>1 DEF Left, Relaying, Running
<1>4. t.reads = 1 => t.logins = 0
  BY <1>1, Digits, Zenon DEF Left
<1>5. Place(l2, c, w, k2, t)
  BY <1>1, <1>4, NoneIsNone DEF Place, Cause, Relaying, Tasks, LocalDenials
<1>6. Left(l2, w, k2, t)
  BY <1>1, <1>3 DEF Left
<1> QED BY <1>2, <1>5, <1>6 DEF Consistent

\* Any other failure, whatever the server has on record by then.
SameButServed(u, t) ==
  u.reads = t.reads /\ u.logins = t.logins /\ u.reports = t.reports /\ u.logs = t.logs

LEMMA AfterFailure ==
  ASSUME NEW l, NEW c \in Calls, NEW w, NEW k, NEW t, NEW k2, NEW u,
         Consistent(l, c, w, k, t), l \in {"agent token", "human token", "server"},
         SameButServed(u, t),
         \/ w = "read" /\ k2 = "DENY_RELAY_ERROR"
         \/ w = "report" /\ k2 = k
  PROVE  Consistent("log", c, w, k2, u)
<1>1. Cause(c, w, k) /\ Place(l, c, w, k, t) /\ Left(l, w, k, t)
  BY DEF Consistent
<1>2. Cause(c, w, k2)
  BY <1>1 DEF Cause, LocalDenials
<1>3. Place("log", c, w, k2, u)
  BY <1>1, NoneIsNone DEF Place, Cause, Relaying, Tasks, LocalDenials
<1>4. u.logs = 0 /\ k2 \notin {"DENY_AUTH_ERROR", "DENY_WITH_RELAY"}
  BY <1>1 DEF Left, Cause, LocalDenials, Running, SameButServed
<1>5. Left("log", w, k2, u)
  BY <1>1, <1>4 DEF Left, Relaying, SameButServed
<1> QED BY <1>2, <1>3, <1>5 DEF Consistent

\* A relay that goes on, or a login that ends it, with nothing left behind.
LEMMA Onward ==
  ASSUME NEW l, NEW c \in Calls, NEW w, NEW k, NEW t, NEW l2, NEW k2,
         Consistent(l, c, w, k, t),
         \/ l = "agent token" /\ w # "inject" /\ l2 = "human token" /\ k2 = k
         \/ l = "agent token" /\ w = "inject" /\ l2 = "log" /\ k2 = "ALLOW"
         \/ l = "human token" /\ l2 = "server" /\ k2 = k
         \/ l = "login" /\ l2 = "callback" /\ k2 = k
         \/ l \in {"login", "callback"} /\ l2 = "log" /\ k2 = "DENY_AUTH_ERROR"
  PROVE  Consistent(l2, c, w, k2, t)
<1>1. Cause(c, w, k) /\ Place(l, c, w, k, t) /\ Left(l, w, k, t)
  BY DEF Consistent
<1>2. Cause(c, w, k2)
  BY <1>1, NoneIsNone DEF Cause, Place, LocalDenials
<1>3. Place(l2, c, w, k2, t)
  BY <1>1, NoneIsNone DEF Place, Cause, Relaying, Tasks, LocalDenials
<1>4. t.served = {} /\ t.logs = 0 /\ k2 # "DENY_WITH_RELAY"
  BY <1>1, NoneIsNone DEF Left, Place, Relaying, Running, LocalDenials
<1>5. Left(l2, w, k2, t)
  BY <1>1, <1>4 DEF Left
<1> QED BY <1>2, <1>3, <1>5 DEF Consistent

\* Content arrives.
LEMMA Relayed ==
  ASSUME NEW c \in Calls, NEW k, NEW t, NEW u, Consistent("server", c, "read", k, t),
         SameButServed(u, t), "ok" \in u.served
  PROVE  Consistent("log", c, "read", "DENY_WITH_RELAY", u)
<1>1. Left("server", "read", k, t)
  BY DEF Consistent
<1>2. Left("log", "read", "DENY_WITH_RELAY", u)
  BY <1>1 DEF Left, SameButServed, Running, Relaying
<1>3. Cause(c, "read", "DENY_WITH_RELAY")
  BY DEF Cause, LocalDenials
<1>4. Place("log", c, "read", "DENY_WITH_RELAY", u)
  BY NoneIsNone DEF Place, Relaying
<1> QED BY <1>2, <1>3, <1>4 DEF Consistent

LEMMA SecondRead ==
  ASSUME NEW t \in Trails, t.reads = 1, t.logins = 0, NEW u,
         u = [t EXCEPT !.logins = @ + 1, !.reads = @ + 1]
  PROVE  /\ u \in Trails /\ u.reads = 2 /\ u.logins = 1
         /\ u.reports = t.reports /\ u.logs = t.logs /\ u.served = t.served
<1> DEFINE v == [reads |-> 2, logins |-> 1, reports |-> t.reports,
                 logs |-> t.logs, served |-> t.served]
<1>1. u = v
  <2>1. t = [reads |-> 1, logins |-> 0, reports |-> t.reports,
             logs |-> t.logs, served |-> t.served]
    BY DEF Trails
  <2>2. 1 + 1 = 2 /\ 0 + 1 = 1
    OBVIOUS
  <2> QED BY <2>1, <2>2
<1>2. v \in Trails
  BY DEF Trails
<1>3. /\ v.reads = 2 /\ v.logins = 1
      /\ v.reports = t.reports /\ v.logs = t.logs /\ v.served = t.served
  OBVIOUS
<1> HIDE DEF v
<1> QED BY <1>1, <1>2, <1>3, Zenon

\* A login succeeds: the read is tried once more.
LEMMA LoggedIn ==
  ASSUME NEW c \in Calls, NEW w, NEW k, NEW t \in Trails, NEW u,
         Consistent("callback", c, w, k, t),
         u = [t EXCEPT !.logins = @ + 1, !.reads = @ + 1]
  PROVE  Consistent("agent token", c, w, k, u) /\ u \in Trails
<1>1. Cause(c, w, k) /\ Place("callback", c, w, k, t) /\ Left("callback", w, k, t)
  BY DEF Consistent
<1>2. w = "read" /\ t.logins = 0
  BY <1>1 DEF Place
<1>3. t.reads = 1 /\ t.served = {} /\ t.logs = 0
  BY <1>1, <1>2, Digits DEF Left, Relaying, Running
<1>4. /\ u.logins = 1 /\ u.reads = 2 /\ u.served = {} /\ u.logs = 0 /\ u.reports = t.reports
      /\ u \in Trails
  BY <1>2, <1>3, SecondRead
<1>5. Left("agent token", w, k, u)
  BY <1>1, <1>2, <1>4 DEF Left, Relaying
<1>6. Place("agent token", c, w, k, u)
  BY <1>1, <1>2 DEF Place, Relaying
<1> QED BY <1>1, <1>4, <1>5, <1>6 DEF Consistent

\* The decision is logged.
LEMMA Logged ==
  ASSUME NEW c \in Calls, NEW w, NEW k, NEW t \in Trails, NEW u,
         Consistent("log", c, w, k, t), u = [t EXCEPT !.logs = @ + 1]
  PROVE  Consistent("decided", c, w, k, u) /\ u \in Trails
<1>1. Cause(c, w, k) /\ Place("log", c, w, k, t) /\ Left("log", w, k, t)
  BY DEF Consistent
<1>2. t.logs = 0
  BY <1>1 DEF Left, Running
<1>3. /\ u.logs = 1 /\ u.reads = t.reads /\ u.logins = t.logins /\ u.reports = t.reports
      /\ u.served = t.served /\ u \in Trails
  BY <1>2 DEF Trails
<1>4. Left("decided", w, k, u)
  BY <1>1, <1>3 DEF Left, Relaying, Running
<1>5. Place("decided", c, w, k, u)
  BY <1>1, <1>3, Digits DEF Place, Relaying
<1> QED BY <1>1, <1>3, <1>4, <1>5 DEF Consistent

LEMMA Crashed ==
  ASSUME NEW l \in Running, NEW c, NEW w, NEW k, NEW t, Consistent(l, c, w, k, t)
  PROVE  Consistent("crashed", c, w, k, t)
<1>1. Place("crashed", c, w, k, t)
  BY DEF Consistent, Place, Running, Relaying
<1>2. Left("crashed", w, k, t)
  BY DEF Consistent, Left, Running, Relaying
<1> QED BY <1>1, <1>2 DEF Consistent

----------------------------------------------------------------------------
(* One lemma per action.                                                   *)

LEMMA StartKeeps == ASSUME IInv, NEW h \in Hooks, Start(h) PROVE IInv'
<1>1. PICK c \in Calls :
        /\ call' = [call EXCEPT ![h] = c]
        /\ Goto(h, CASE Verdict(c) = "own tools" -> "log"
                     [] Verdict(c) = "ALLOW"     -> "decided"
                     [] OTHER                    -> "agent token")
        /\ Decide(h, CASE Verdict(c) = "own tools" -> "ALLOW"
                       [] Verdict(c) \in Kinds     -> Verdict(c)
                       [] OTHER                    -> None)
        /\ task' = [task EXCEPT ![h] = CASE Verdict(c) = "relay"         -> "read"
                                         [] Verdict(c) = "server tools"  -> "inject"
                                         [] Verdict(c) \in LocalDenials  -> "report"
                                         [] OTHER                        -> None]
        /\ trail' = [trail EXCEPT ![h] =
             Attempts(IF Verdict(c) = "relay" THEN 1 ELSE 0,
                      IF Verdict(c) \in LocalDenials THEN 1 ELSE 0)]
  BY Zenon DEF Start
<1> DEFINE v == Verdict(c)
<1>2. v \in LocalDenials \cup {"ALLOW", "own tools", "server tools", "relay"}
  BY VerdictSound
<1> HIDE DEF v
<1>3. PICK l, w, k, r, d :
        /\ pc' = [pc EXCEPT ![h] = l] /\ task' = [task EXCEPT ![h] = w]
        /\ kind' = [kind EXCEPT ![h] = k] /\ trail' = [trail EXCEPT ![h] = Attempts(r, d)]
        /\ \/ v = "own tools" /\ l = "log" /\ w = None /\ k = "ALLOW" /\ r = 0 /\ d = 0
           \/ v = "ALLOW" /\ l = "decided" /\ w = None /\ k = "ALLOW" /\ r = 0 /\ d = 0
           \/ v = "server tools" /\ l = "agent token" /\ w = "inject" /\ k = None /\ r = 0 /\ d = 0
           \/ v = "relay" /\ l = "agent token" /\ w = "read" /\ k = None /\ r = 1 /\ d = 0
           \/ v \in LocalDenials /\ l = "agent token" /\ w = "report" /\ k = v /\ r = 0 /\ d = 1
  BY <1>1, <1>2 DEF v, Goto, Decide, Kinds, LocalDenials, RelayDenials
<1>4. r \in {0, 1} /\ d \in {0, 1}
  BY <1>3
<1>5. Consistent(l, c, w, k, Attempts(r, d))
  BY <1>3, <1>4, AttemptsType, Started DEF v
<1>6. l \in Running \cup Over /\ w \in Tasks \cup {None} /\ k \in Kinds \cup {None}
  BY <1>3 DEF Running, Over, Tasks, Kinds
<1>7. /\ session' \in {"none", "live", "expired"} /\ credential' \in BOOLEAN
      /\ port' \in Hooks \cup {None}
  BY DEF Start, shared, IInv, TypeOK
<1> HIDE DEF v
<1>8. Attempts(r, d) \in Trails /\ call' = [call EXCEPT ![h] = c]
  BY <1>1, <1>4, AttemptsType
<1> QED BY <1>3, <1>5, <1>6, <1>7, <1>8, Keeps

\* What every step of a running hook has in hand.
LEMMA InHand ==
  ASSUME IInv, NEW h \in Hooks, pc[h] \in Running
  PROVE  /\ call[h] \in Calls /\ trail[h] \in Trails /\ kind[h] \in Kinds \cup {None}
         /\ Consistent(pc[h], call[h], task[h], kind[h], trail[h])
         /\ session \in {"none", "live", "expired"} /\ port \in Hooks \cup {None}
         /\ [trail EXCEPT ![h] = trail[h]] = trail
         /\ [kind EXCEPT ![h] = kind[h]] = kind
BY Types DEF IInv, TypeOK, Consistent, Place, Running

LEMMA AuthFailsKeeps ==
  ASSUME IInv, NEW h \in Hooks, pc[h] \in {"agent token", "human token"}, AuthFails(h),
         UNCHANGED <<session, credential, port, trail>>
  PROVE  IInv'
<1>1. /\ call[h] \in Calls /\ trail[h] \in Trails /\ kind[h] \in Kinds \cup {None}
      /\ Consistent(pc[h], call[h], task[h], kind[h], trail[h])
      /\ session \in {"none", "live", "expired"} /\ port \in Hooks \cup {None}
      /\ [trail EXCEPT ![h] = trail[h]] = trail /\ [kind EXCEPT ![h] = kind[h]] = kind
  BY InHand DEF Running
<1>2. PICK l2, k2 :
        /\ Goto(h, l2) /\ Decide(h, k2)
        /\ \/ task[h] = "read" /\ trail[h].reads = 1 /\ l2 = "login" /\ k2 = kind[h]
           \/ task[h] = "read" /\ l2 = "log" /\ k2 = "DENY_AUTH_ERROR"
           \/ task[h] = "report" /\ l2 = "log" /\ k2 = kind[h]
           \/ task[h] = "inject" /\ l2 = "log" /\ k2 = "ALLOW"
  BY <1>1 DEF AuthFails, Conclude, Decide
<1>3. Consistent(l2, call[h], task[h], k2, trail[h])
  BY <1>1, <1>2, AfterAuthError
<1>4. l2 \in Running \cup Over /\ k2 \in Kinds \cup {None} /\ UNCHANGED <<call, task>>
  BY <1>1, <1>2 DEF Running, Kinds, RelayDenials, AuthFails
<1> QED BY <1>1, <1>2, <1>3, <1>4, Moves

LEMMA RelayFailsKeeps ==
  ASSUME IInv, NEW h \in Hooks, pc[h] \in {"agent token", "human token", "server"},
         RelayFails(h), NEW u \in Trails, trail' = [trail EXCEPT ![h] = u],
         SameButServed(u, trail[h]), UNCHANGED <<session, credential, port>>
  PROVE  IInv'
<1>1. /\ call[h] \in Calls /\ trail[h] \in Trails /\ kind[h] \in Kinds \cup {None}
      /\ Consistent(pc[h], call[h], task[h], kind[h], trail[h])
      /\ session \in {"none", "live", "expired"} /\ port \in Hooks \cup {None}
      /\ [kind EXCEPT ![h] = kind[h]] = kind
  BY InHand DEF Running
<1>2. PICK k2 : /\ Goto(h, "log") /\ Decide(h, k2)
                /\ \/ task[h] = "read" /\ k2 = "DENY_RELAY_ERROR"
                   \/ task[h] = "report" /\ k2 = kind[h]
  BY <1>1 DEF RelayFails, Conclude, Decide
<1>3. Consistent("log", call[h], task[h], k2, u)
  BY <1>1, <1>2, AfterFailure
<1>4. "log" \in Running \cup Over /\ k2 \in Kinds \cup {None} /\ UNCHANGED <<call, task>>
  BY <1>1, <1>2 DEF Running, Kinds, RelayDenials, RelayFails
<1> QED BY <1>1, <1>2, <1>3, <1>4, Moves

\* A step that leaves nothing behind.
LEMMA OnwardKeeps ==
  ASSUME IInv, NEW h \in Hooks, pc[h] \in Relaying,
         UNCHANGED <<call, task, credential, trail>>,
         session' \in {"none", "live", "expired"}, port' \in Hooks \cup {None},
         NEW l2 \in Running, Goto(h, l2),
         NEW k2 \in {kind[h], "ALLOW", "DENY_AUTH_ERROR"}, Decide(h, k2),
         \/ pc[h] = "agent token" /\ task[h] # "inject" /\ l2 = "human token" /\ k2 = kind[h]
         \/ pc[h] = "agent token" /\ task[h] = "inject" /\ l2 = "log" /\ k2 = "ALLOW"
         \/ pc[h] = "human token" /\ l2 = "server" /\ k2 = kind[h]
         \/ pc[h] = "login" /\ l2 = "callback" /\ k2 = kind[h]
         \/ pc[h] \in {"login", "callback"} /\ l2 = "log" /\ k2 = "DENY_AUTH_ERROR"
  PROVE  IInv'
<1>1. /\ call[h] \in Calls /\ trail[h] \in Trails /\ kind[h] \in Kinds \cup {None}
      /\ Consistent(pc[h], call[h], task[h], kind[h], trail[h])
      /\ session \in {"none", "live", "expired"} /\ port \in Hooks \cup {None}
      /\ [trail EXCEPT ![h] = trail[h]] = trail /\ [kind EXCEPT ![h] = kind[h]] = kind
  BY InHand DEF Relaying, Running
<1>2. Consistent(l2, call[h], task[h], k2, trail[h])
  BY <1>1, Onward
<1>3. k2 \in Kinds \cup {None} /\ l2 \in Running \cup Over
      /\ trail' = [trail EXCEPT ![h] = trail[h]]
  BY <1>1 DEF Kinds, RelayDenials
<1> QED BY <1>1, <1>2, <1>3, Moves

LEMMA AgentTokenKeeps == ASSUME IInv, NEW h \in Hooks, AgentToken(h) PROVE IInv'
<1>1. /\ call[h] \in Calls /\ trail[h] \in Trails /\ kind[h] \in Kinds \cup {None}
      /\ Consistent(pc[h], call[h], task[h], kind[h], trail[h])
      /\ session \in {"none", "live", "expired"} /\ port \in Hooks \cup {None}
      /\ [trail EXCEPT ![h] = trail[h]] = trail /\ [kind EXCEPT ![h] = kind[h]] = kind
      /\ pc[h] = "agent token" /\ UNCHANGED <<session, credential, port, trail>>
  BY InHand DEF AgentToken, shared, Running
<1>2. CASE AuthFails(h)
  BY <1>1, <1>2, AuthFailsKeeps
<1>3. CASE RelayFails(h)
  BY <1>1, <1>3, RelayFailsKeeps DEF SameButServed
<1>4. CASE task[h] = "inject" /\ Conclude(h, "ALLOW") /\ UNCHANGED <<call, task>>
  BY <1>1, <1>4, OnwardKeeps DEF Conclude, Relaying, Running
<1>5. CASE task[h] # "inject" /\ Goto(h, "human token") /\ UNCHANGED <<call, task, kind>>
  BY <1>1, <1>5, OnwardKeeps DEF Decide, Relaying, Running
<1> QED BY <1>2, <1>3, <1>4, <1>5 DEF AgentToken

LEMMA HumanTokenKeeps == ASSUME IInv, NEW h \in Hooks, HumanToken(h) PROVE IInv'
<1>1. /\ call[h] \in Calls /\ trail[h] \in Trails /\ kind[h] \in Kinds \cup {None}
      /\ Consistent(pc[h], call[h], task[h], kind[h], trail[h])
      /\ session \in {"none", "live", "expired"} /\ port \in Hooks \cup {None}
      /\ [trail EXCEPT ![h] = trail[h]] = trail /\ [kind EXCEPT ![h] = kind[h]] = kind
      /\ pc[h] = "human token" /\ UNCHANGED <<credential, port, trail>>
  BY InHand DEF HumanToken, Running
<1>2. CASE AuthFails(h) /\ UNCHANGED session
  BY <1>1, <1>2, AuthFailsKeeps
<1>3. CASE RelayFails(h) /\ UNCHANGED session
  BY <1>1, <1>3, RelayFailsKeeps DEF SameButServed
<1>4. CASE session' = "live" /\ Goto(h, "server") /\ UNCHANGED <<call, task, kind>>
  BY <1>1, <1>4, OnwardKeeps DEF Decide, Relaying, Running
<1> QED BY <1>2, <1>3, <1>4 DEF HumanToken

LEMMA CallServerKeeps == ASSUME IInv, NEW h \in Hooks, CallServer(h) PROVE IInv'
<1>1. /\ call[h] \in Calls /\ trail[h] \in Trails /\ kind[h] \in Kinds \cup {None}
      /\ Consistent(pc[h], call[h], task[h], kind[h], trail[h])
      /\ session \in {"none", "live", "expired"} /\ port \in Hooks \cup {None}
      /\ [trail EXCEPT ![h] = trail[h]] = trail /\ [kind EXCEPT ![h] = kind[h]] = kind
      /\ pc[h] = "server" /\ UNCHANGED <<session, credential, port>>
  BY InHand DEF CallServer, shared, Running
<1> DEFINE with(r) == [trail[h] EXCEPT !.served = @ \cup {r}]
<1>2. ASSUME NEW r \in {"ok", "denied", "report"}
      PROVE  with(r) \in Trails /\ SameButServed(with(r), trail[h]) /\ r \in with(r).served
  BY <1>1 DEF Trails, SameButServed
<1>3. CASE /\ task[h] = "read" /\ trail' = [trail EXCEPT ![h] = with("ok")]
           /\ Conclude(h, "DENY_WITH_RELAY") /\ UNCHANGED <<call, task>>
  <2>1. /\ with("ok") \in Trails /\ SameButServed(with("ok"), trail[h])
        /\ "ok" \in with("ok").served
    BY <1>2
  <2> HIDE DEF with
  <2>2. Consistent("log", call[h], task[h], "DENY_WITH_RELAY", with("ok"))
    BY <1>1, <1>3, <2>1, Relayed
  <2>3. "DENY_WITH_RELAY" \in Kinds \cup {None} /\ "log" \in Running \cup Over
    BY DEF Kinds, Running
  <2> QED BY <1>1, <1>3, <2>1, <2>2, <2>3, Moves DEF Conclude
<1>4. ASSUME NEW r \in {"ok", "denied", "report"}, RelayFails(h),
             trail' = [trail EXCEPT ![h] = with(r)]
      PROVE  IInv'
  <2>1. with(r) \in Trails /\ SameButServed(with(r), trail[h])
    BY <1>2
  <2> HIDE DEF with
  <2> QED BY <1>1, <1>4, <2>1, RelayFailsKeeps
<1>5. CASE RelayFails(h) /\ UNCHANGED trail
  BY <1>1, <1>5, RelayFailsKeeps DEF SameButServed
<1>6. \/ /\ task[h] = "read" /\ trail' = [trail EXCEPT ![h] = with("ok")]
         /\ Conclude(h, "DENY_WITH_RELAY") /\ UNCHANGED <<call, task>>
      \/ \E r \in {"ok", "denied", "report"} :
           RelayFails(h) /\ trail' = [trail EXCEPT ![h] = with(r)]
      \/ RelayFails(h) /\ UNCHANGED trail
  BY Zenon DEF CallServer
<1> HIDE DEF with
<1> QED BY <1>3, <1>4, <1>5, <1>6

LEMMA LoginKeeps == ASSUME IInv, NEW h \in Hooks, Login(h) PROVE IInv'
<1>1. /\ call[h] \in Calls /\ trail[h] \in Trails /\ kind[h] \in Kinds \cup {None}
      /\ Consistent(pc[h], call[h], task[h], kind[h], trail[h])
      /\ session \in {"none", "live", "expired"} /\ port \in Hooks \cup {None}
      /\ [trail EXCEPT ![h] = trail[h]] = trail /\ [kind EXCEPT ![h] = kind[h]] = kind
      /\ pc[h] = "login" /\ UNCHANGED <<session, credential, call, task, trail>>
  BY InHand DEF Login, Running
<1>2. CASE port' = h /\ Goto(h, "callback") /\ UNCHANGED kind
  BY <1>1, <1>2, OnwardKeeps DEF Decide, Relaying, Running
<1>3. CASE Conclude(h, "DENY_AUTH_ERROR") /\ UNCHANGED port
  BY <1>1, <1>3, OnwardKeeps DEF Conclude, Relaying, Running
<1> QED BY <1>2, <1>3 DEF Login

LEMMA CallbackKeeps == ASSUME IInv, NEW h \in Hooks, Callback(h) PROVE IInv'
<1>1. /\ call[h] \in Calls /\ trail[h] \in Trails /\ kind[h] \in Kinds \cup {None}
      /\ Consistent(pc[h], call[h], task[h], kind[h], trail[h])
      /\ session \in {"none", "live", "expired"} /\ port \in Hooks \cup {None}
      /\ [trail EXCEPT ![h] = trail[h]] = trail /\ [kind EXCEPT ![h] = kind[h]] = kind
      /\ pc[h] = "callback" /\ port' = None /\ UNCHANGED <<credential, call, task>>
  BY InHand DEF Callback, Running
<1> DEFINE u == [trail[h] EXCEPT !.logins = @ + 1, !.reads = @ + 1]
<1>2. CASE /\ session' = "live" /\ trail' = [trail EXCEPT ![h] = u]
           /\ Goto(h, "agent token") /\ UNCHANGED kind
  <2>1. u = [trail[h] EXCEPT !.logins = @ + 1, !.reads = @ + 1]
    OBVIOUS
  <2> HIDE DEF u
  <2>2. Consistent("callback", call[h], task[h], kind[h], trail[h])
    BY <1>1
  <2>3. Consistent("agent token", call[h], task[h], kind[h], u) /\ u \in Trails
    BY <1>1, <2>2, <2>1, LoggedIn, Zenon
  <2>4. "agent token" \in Running \cup Over
    BY DEF Running
  <2> QED BY <1>1, <1>2, <2>3, <2>4, Moves DEF Decide
<1>3. CASE Conclude(h, "DENY_AUTH_ERROR") /\ UNCHANGED <<session, trail>>
  BY <1>1, <1>3, OnwardKeeps DEF Conclude, Relaying, Running
<1>4. trail' = [trail EXCEPT ![h].logins = @ + 1, ![h].reads = @ + 1]
        => trail' = [trail EXCEPT ![h] = u]
  BY DEF IInv, TypeOK
<1> HIDE DEF u
<1> QED BY <1>2, <1>3, <1>4, Zenon DEF Callback

LEMMA LogLocallyKeeps == ASSUME IInv, NEW h \in Hooks, LogLocally(h) PROVE IInv'
<1>1. /\ call[h] \in Calls /\ trail[h] \in Trails /\ kind[h] \in Kinds \cup {None}
      /\ Consistent(pc[h], call[h], task[h], kind[h], trail[h])
      /\ session \in {"none", "live", "expired"} /\ port \in Hooks \cup {None}
      /\ [trail EXCEPT ![h] = trail[h]] = trail /\ [kind EXCEPT ![h] = kind[h]] = kind
      /\ pc[h] = "log" /\ UNCHANGED <<session, credential, port, call, task, kind>>
  BY InHand DEF LogLocally, shared, Running
<1> DEFINE u == [trail[h] EXCEPT !.logs = @ + 1]
<1>2. trail' = [trail EXCEPT ![h] = u] /\ Goto(h, "decided")
  BY DEF LogLocally
<1>3. Consistent("decided", call[h], task[h], kind[h], u) /\ u \in Trails
  BY <1>1, Logged
<1>4. "decided" \in Running \cup Over
  BY DEF Over
<1> HIDE DEF u
<1> QED BY <1>1, <1>2, <1>3, <1>4, Moves DEF Decide

LEMMA CrashKeeps ==
  ASSUME IInv, NEW h \in Hooks, pc[h] \in Running, Goto(h, "crashed"),
         port' \in {port, None}, UNCHANGED <<session, credential, call, task, kind, trail>>
  PROVE  IInv'
<1>1. /\ call[h] \in Calls /\ trail[h] \in Trails /\ kind[h] \in Kinds \cup {None}
      /\ Consistent(pc[h], call[h], task[h], kind[h], trail[h])
      /\ session \in {"none", "live", "expired"} /\ port \in Hooks \cup {None}
      /\ [trail EXCEPT ![h] = trail[h]] = trail /\ [kind EXCEPT ![h] = kind[h]] = kind
  BY InHand
<1>2. Consistent("crashed", call[h], task[h], kind[h], trail[h])
  BY <1>1, Crashed
<1>3. "crashed" \in Running \cup Over
  BY DEF Over
<1> QED BY <1>1, <1>2, <1>3, Moves DEF Decide

LEMMA OutsideKeeps == ASSUME IInv, Outside \/ UNCHANGED vars PROVE IInv'
<1>1. /\ session' \in {"none", "live", "expired"} /\ credential' \in BOOLEAN
      /\ UNCHANGED <<port, pc, call, task, kind, trail>>
  BY DEF Outside, vars, IInv, TypeOK
<1> QED BY <1>1 DEF IInv, TypeOK, Progress

LEMMA NextKeeps == IInv /\ [Next]_vars => IInv'
<1> SUFFICES ASSUME IInv, [Next]_vars PROVE IInv'
  OBVIOUS
<1>1. ASSUME NEW h \in Hooks, Escape(h) \/ Kill(h) PROVE IInv'
  <2>1. /\ pc[h] \in Running /\ Goto(h, "crashed") /\ port' \in {port, None}
        /\ UNCHANGED <<session, credential, call, task, kind, trail>>
    BY <1>1 DEF Escape, Kill, shared, Running
  <2> QED BY <2>1, CrashKeeps
<1>2. ASSUME NEW h \in Hooks, Start(h) \/ Step(h) \/ Kill(h) PROVE IInv'
  BY <1>1, <1>2, StartKeeps, AgentTokenKeeps, HumanTokenKeeps, CallServerKeeps,
     LoginKeeps, CallbackKeeps, LogLocallyKeeps DEF Step
<1> QED BY <1>2, OutsideKeeps DEF Next

----------------------------------------------------------------------------
(* What the inductive invariant implies.                                   *)

LEMMA IInvAllowsTheHarmless == IInv => OnlyHarmlessIsAllowed
BY DEF IInv, Progress, Consistent, Cause, Harmless, OnlyHarmlessIsAllowed

LEMMA IInvAgrees == IInv => TrailsAgree
<1>1. ASSUME IInv, NEW h \in Hooks, Decided(h)
      PROVE  /\ kind[h] = "DENY_WITH_RELAY" => "ok" \in trail[h].served
             /\ kind[h] = "DENY_AUTH_ERROR" => trail[h].served = {}
             /\ trail[h].reports = 1 <=> kind[h] \in LocalDenials
             /\ trail[h].logs = 0 <=> kind[h] = "ALLOW" /\ call[h].mcp = "none"
  BY <1>1, Types DEF Consistent, Cause, Place, Left, Decided
<1> QED BY <1>1 DEF TrailsAgree

LEMMA IInvOnce == IInv => OneLoginOneRetry
<1>1. ASSUME IInv, NEW h \in Hooks, pc[h] \in {"login", "callback"} \cup Over
      PROVE  /\ trail[h].logins <= 1
             /\ trail[h].reads <= 1 + trail[h].logins
             /\ pc[h] \in {"login", "callback"} => trail[h].logins = 0
  <2>1. Place(pc[h], call[h], task[h], kind[h], trail[h])
        /\ Left(pc[h], task[h], kind[h], trail[h])
    BY <1>1, Types DEF Consistent
  <2>2. \/ trail[h].reads = 0 /\ trail[h].logins = 0
        \/ trail[h].reads = 1 /\ trail[h].logins = 0
        \/ trail[h].reads = 2 /\ trail[h].logins = 1
    BY <2>1 DEF Left
  <2>3. pc[h] \in {"login", "callback"} => trail[h].logins = 0
    BY <2>1 DEF Place
  <2> QED BY <2>2, <2>3
<1> QED BY <1>1 DEF OneLoginOneRetry

----------------------------------------------------------------------------
(* The theorems.                                                           *)

\* The inductive invariant holds throughout.
THEOREM Invariance == Spec => []IInv
BY InitIInv, NextKeeps, PTL DEF Spec

\* decide(): every shared and local value keeps its type; in particular no
\* hook reads more than twice or logs in, reports or logs more than once.
THEOREM HookTypes == Spec => []TypeOK
<1>1. IInv => TypeOK
  BY DEF IInv
<1> QED BY <1>1, Invariance, PTL

\* decide(): whatever a call is classified as, it is let through only if
\* harmless.
THEOREM AllowedIsHarmless == Spec => []OnlyHarmlessIsAllowed
BY IInvAllowsTheHarmless, Invariance, PTL

\* decide() and relay.py: the decision agrees with what the server recorded,
\* what was reported and what was logged.
THEOREM TrailsAlwaysAgree == Spec => []TrailsAgree
BY IInvAgrees, Invariance, PTL

\* read_document_with_login_async: one login and one retry at most, for any
\* number of hooks and any interference with what they share.
THEOREM OneLoginOneRetryAlways == Spec => []OneLoginOneRetry
BY IInvOnce, Invariance, PTL

----------------------------------------------------------------------------
(* HookWire: what the adapters do around decide().                         *)

\* A call on the wire is the one its adapter made of what the agent attempted.
Normalised(h) ==
  op[h] # None \/ pc[h] # "idle" =>
    /\ key[h] \in Keys /\ op[h] \in Ops
    /\ call[h] = Detect(ParseBy(Agent(key[h]), op[h]))

\* An answer follows the decision of the hook, which is over.
Answered(h) ==
  /\ pc[h] # "idle" => key[h] \in Keys
  /\ answer[h] # None =>
       /\ pc[h] \in {"decided", "crashed"}
       /\ pc[h] = "decided" => (answer[h].does = "run" <=> kind[h] = "ALLOW")
       /\ pc[h] = "crashed" /\ Agent(key[h]) = "opencode" => answer[h].does # "run"

WireIInv ==
  /\ key \in [Hooks -> Keys \cup {None}]
  /\ op \in [Hooks -> Ops \cup {None}]
  /\ DOMAIN call = Hooks /\ DOMAIN pc = Hooks /\ DOMAIN answer = Hooks /\ DOMAIN kind = Hooks
  /\ \A h \in Hooks : Normalised(h) /\ Answered(h)

LEMMA AgentsOfKeys ==
  ASSUME NEW k \in Keys
  PROVE  Agent(k) \in {"claude-code", "vscode", "copilot-cli", "opencode", "cursor", "windsurf"}
BY DEF Keys, Agent, SinglePoint, Points

\* Six adapters, one rendering of what may run.
LEMMA OnlyAllowedRuns ==
  ASSUME NEW a \in {"claude-code", "vscode", "copilot-cli", "opencode", "cursor", "windsurf"},
         NEW k, NEW f, NEW t
  PROVE  RenderBy(a, k, f, t).does = "run" <=> k = "ALLOW"
BY DEF RenderBy, RenderClaude, RenderVscode, RenderCopilot, RenderCursor, RenderWindsurf,
       RenderOpencode, Block, Response

\* Six adapters, one reading of whatever is not an MCP call.
LEMMA OneReading ==
  ASSUME NEW a \in {"claude-code", "vscode", "copilot-cli", "opencode", "cursor", "windsurf"},
         NEW b \in {"claude-code", "vscode", "copilot-cli", "opencode", "cursor", "windsurf"},
         NEW o, o.act # "mcp", ParseBy(a, o).input = ParseBy(b, o).input
  PROVE  ParseBy(a, o) = ParseBy(b, o)
<1>1. ASSUME NEW in, NEW m, NEW x
      PROVE  Normal(o, in, m, x).input = in
  BY DEF Normal
<1>2. ASSUME NEW c \in {"claude-code", "vscode", "copilot-cli", "opencode", "cursor", "windsurf"}
      PROVE  \E in : ParseBy(c, o) = Normal(o, in, "none", Runs(o))
  <2>1. CASE c = "windsurf"
    BY <2>1 DEF ParseBy, ParseWindsurf, WindsurfMcp, WindsurfRuns
  <2>2. CASE c = "opencode"
    <3>1. OpencodeMcp(o) = "none"
      BY DEF OpencodeMcp
    <3>2. ParseBy(c, o) = ParseOpencode(o)
      BY <2>2 DEF ParseBy
    <3> QED BY <3>1, <3>2 DEF ParseOpencode
  <2>3. CASE c = "cursor"
    BY <2>3 DEF ParseBy, ParseCursor, CursorMcp
  <2>4. CASE c \in {"claude-code", "vscode", "copilot-cli"}
    BY <2>4 DEF ParseBy, ParseClaude, ParseCopilot, ParseVscode, NamedMcp
  <2> QED BY <2>1, <2>2, <2>3, <2>4
<1> QED BY <1>1, <1>2

\* A step of decide() keeps the call and, once it is over, the decision.
LEMMA StepsKeepCalls ==
  ASSUME NEW g \in Hooks, Step(g) \/ Kill(g), DOMAIN pc = Hooks, DOMAIN kind = Hooks
  PROVE  /\ UNCHANGED call /\ pc[g] \in Running
         /\ DOMAIN pc' = Hooks /\ DOMAIN kind' = Hooks
         /\ \A h \in Hooks \ {g} : pc'[h] = pc[h] /\ kind'[h] = kind[h]
BY DEF Step, Kill, AgentToken, HumanToken, CallServer, Login, Callback, Escape, LogLocally,
       AuthFails, RelayFails, Conclude, Decide, Goto, shared, Running

LEMMA WireInitially == WireInit => WireIInv
BY DEF WireInit, Init, WireIInv, Normalised, Answered

\* Where neither the call nor the decision of a hook changes, nor what is known of it.
LEMMA Undisturbed ==
  ASSUME NEW h \in Hooks, Normalised(h), Answered(h), answer'[h] = answer[h],
         key'[h] = key[h], op'[h] = op[h], call'[h] = call[h],
         \/ pc'[h] = pc[h] /\ kind'[h] = kind[h]
         \/ pc[h] \in Running
  PROVE  Normalised(h)' /\ Answered(h)'
BY DEF Normalised, Answered, Running

LEMMA ReceiveKeeps == ASSUME WireIInv, NEW g \in Hooks, Receive(g) PROVE WireIInv'
<1>1. PICK k \in Keys, o \in Ops :
        /\ pc[g] = "idle" /\ Start(g)
        /\ call' = [call EXCEPT ![g] = Detect(ParseBy(Agent(k), o))]
        /\ key' = [key EXCEPT ![g] = k] /\ op' = [op EXCEPT ![g] = o]
        /\ UNCHANGED <<token, answer>>
  BY DEF Receive
<1>2. \A h \in Hooks \ {g} : pc'[h] = pc[h] /\ kind'[h] = kind[h]
  BY <1>1 DEF Start, Goto, Decide, WireIInv
<1>3. DOMAIN pc' = Hooks /\ DOMAIN kind' = Hooks
  BY <1>1 DEF Start, Goto, Decide, WireIInv
<1>4. Normalised(g)' /\ Answered(g)'
  BY <1>1 DEF WireIInv, Normalised, Answered
<1>5. ASSUME NEW h \in Hooks \ {g} PROVE Normalised(h)' /\ Answered(h)'
  BY <1>1, <1>2, Undisturbed DEF WireIInv
<1> QED BY <1>1, <1>3, <1>4, <1>5 DEF WireIInv

LEMMA WorkKeeps ==
  ASSUME WireIInv, NEW g \in Hooks, Step(g) \/ Kill(g), UNCHANGED <<key, op, answer>>
  PROVE  WireIInv'
<1>1. /\ UNCHANGED call /\ pc[g] \in Running /\ DOMAIN pc' = Hooks /\ DOMAIN kind' = Hooks
      /\ \A h \in Hooks \ {g} : pc'[h] = pc[h] /\ kind'[h] = kind[h]
  BY StepsKeepCalls DEF WireIInv
<1>2. ASSUME NEW h \in Hooks PROVE Normalised(h)' /\ Answered(h)'
  BY <1>1, Undisturbed DEF WireIInv
<1> QED BY <1>1, <1>2 DEF WireIInv

LEMMA DeliverKeeps == ASSUME WireIInv, NEW g \in Hooks, Deliver(g) PROVE WireIInv'
<1>1. UNCHANGED <<vars, key, op, token>> /\ answer[g] = None
  BY DEF Deliver
<1>2. UNCHANGED <<pc, call, kind>>
  BY <1>1 DEF vars
<1>3. DOMAIN answer' = Hooks /\ \A h \in Hooks \ {g} : answer'[h] = answer[h]
  BY DEF Deliver, WireIInv
<1>4. ASSUME NEW h \in Hooks \ {g} PROVE Normalised(h)' /\ Answered(h)'
  BY <1>1, <1>2, <1>3, Undisturbed DEF WireIInv
<1>5. Normalised(g)'
  BY <1>1, <1>2 DEF WireIInv, Normalised
<1>6. pc[g] # "idle" => key[g] \in Keys
  BY DEF WireIInv, Answered
<1>7. ASSUME pc[g] = "decided",
             answer' = [answer EXCEPT ![g] = RenderBy(Agent(key[g]), kind[g],
               Relayable(ParseBy(Agent(key[g]), op[g]).input), token[g])]
      PROVE  Answered(g)'
  <2>1. answer'[g].does = "run" <=> kind[g] = "ALLOW"
    BY <1>6, <1>7, AgentsOfKeys, OnlyAllowedRuns DEF WireIInv
  <2>2. /\ pc'[g] = "decided" /\ kind'[g] = kind[g] /\ key'[g] = key[g]
        /\ key[g] \in Keys
    BY <1>1, <1>2, <1>6, <1>7
  <2> QED BY <2>1, <2>2 DEF Answered
<1>8. ASSUME pc[g] = "crashed",
             \E does \in OnError(Agent(key[g])) :
               answer' = [answer EXCEPT ![g] = Response(does, {}, FALSE)]
      PROVE  Answered(g)'
  <2>1. Agent(key[g]) = "opencode" => answer'[g].does # "run"
    BY <1>8 DEF OnError, Response, WireIInv
  <2>2. /\ pc'[g] = "crashed" /\ key'[g] = key[g] /\ key[g] \in Keys
    BY <1>1, <1>2, <1>6, <1>8
  <2> QED BY <2>1, <2>2 DEF Answered
<1>9. Answered(g)'
  BY <1>7, <1>8, Zenon DEF Deliver
<1> QED BY <1>1, <1>2, <1>3, <1>4, <1>5, <1>9 DEF WireIInv

LEMMA WireStepKeeps == WireIInv /\ [WireNext]_wireVars => WireIInv'
<1> SUFFICES ASSUME WireIInv, [WireNext]_wireVars PROVE WireIInv'
  OBVIOUS
<1>1. ASSUME NEW h \in Hooks, Receive(h) PROVE WireIInv'
  BY <1>1, ReceiveKeeps
<1>2. ASSUME NEW h \in Hooks, Work(h) \/ (Kill(h) /\ UNCHANGED wire) PROVE WireIInv'
  BY <1>2, WorkKeeps DEF Work, wire
<1>3. ASSUME NEW h \in Hooks, Deliver(h) PROVE WireIInv'
  BY <1>3, DeliverKeeps
<1>4. CASE Outside /\ UNCHANGED wire
  BY <1>4 DEF Outside, wire, WireIInv, Normalised, Answered
<1>5. CASE UNCHANGED wireVars
  BY <1>5 DEF wireVars, vars, wire, WireIInv, Normalised, Answered
<1> QED BY <1>1, <1>2, <1>3, <1>4, <1>5 DEF WireNext

\* The adapters add nothing to decide(): every behaviour of the wire is, in
\* the hook's own state, one HookDecide allows.
THEOREM WireRunsHooks == WireSpec => Init /\ [][Next]_vars
<1>1. WireInit => Init
  BY DEF WireInit
<1>2. [WireNext]_wireVars => [Next]_vars
  BY DEF WireNext, wireVars, Receive, Work, Deliver, Next
<1> QED BY <1>1, <1>2, PTL DEF WireSpec

\* Hence what HookDecide promises holds of a call through any adapter.
THEOREM WireKeepsHooks == WireSpec => [](OnlyHarmlessIsAllowed /\ TrailsAgree /\ OneLoginOneRetry)
<1>1. Init /\ [][Next]_vars => []IInv
  BY InitIInv, NextKeeps, PTL
<1>2. IInv => OnlyHarmlessIsAllowed /\ TrailsAgree /\ OneLoginOneRetry
  BY IInvAllowsTheHarmless, IInvAgrees, IInvOnce
<1> QED BY <1>1, <1>2, WireRunsHooks, PTL

THEOREM WireInvariance == WireSpec => []WireIInv
BY WireInitially, WireStepKeeps, PTL DEF WireSpec

\* render() and the bridge: an agent's call runs only if it was allowed, or
\* the hook died and the agent is not opencode.
THEOREM AnswersAlwaysFollow == WireSpec => []AnswersFollowDecisions
<1>1. WireIInv => AnswersFollowDecisions
  BY DEF WireIInv, Answered, AnswersFollowDecisions
<1> QED BY <1>1, WireInvariance, PTL

\* parse() and detection.py: a read, a command or a write gets the same
\* verdict through every agent that shows the hook the same input.
THEOREM AlwaysTheSameVerdict == WireSpec => []SameCallSameVerdict
<1>1. ASSUME WireIInv, NEW h \in Hooks, op[h] # None, op[h].act # "mcp", NEW k \in Keys,
             ParseBy(Agent(k), op[h]).input = ParseBy(Agent(key[h]), op[h]).input
      PROVE  Verdict(Detect(ParseBy(Agent(k), op[h]))) = Verdict(call[h])
  <2>1. key[h] \in Keys /\ call[h] = Detect(ParseBy(Agent(key[h]), op[h]))
    BY <1>1 DEF WireIInv, Normalised
  <2>2. ParseBy(Agent(k), op[h]) = ParseBy(Agent(key[h]), op[h])
    BY <1>1, <2>1, AgentsOfKeys, OneReading
  <2> QED BY <2>1, <2>2
<1>2. WireIInv => SameCallSameVerdict
  BY <1>1 DEF SameCallSameVerdict
<1> QED BY <1>2, WireInvariance, PTL

----------------------------------------------------------------------------
(* What an agent is handed.  A relayed content and an injected token each  *)
(* need that the task of a hook is what its call was classified for        *)
(* (Tasked), and a token that it was stored when it was put in (Carried).  *)

Tasked(h) ==
  /\ task[h] = "read" => Verdict(call[h]) = "relay"
  /\ task[h] = "inject" => Verdict(call[h]) = "server tools"
  /\ kind[h] = "DENY_WITH_RELAY" => task[h] = "read"

Carried(h) ==
  /\ token[h] \in BOOLEAN
  /\ token[h] = TRUE => /\ credential = TRUE /\ task[h] = "inject" /\ kind[h] = "ALLOW"
                        /\ pc[h] \in {"log", "decided", "crashed"}

\* The channels through which a response shows something.
Channels(r) == {s[1] : s \in r.shows}

HandedTo(h) ==
  answer[h] # None =>
    LET in == op[h].input IN
    /\ kind[h] = "DENY_WITH_RELAY" /\ pc[h] = "decided"
         <=> answer[h].shows # {}
    /\ \A s \in answer[h].shows :
         \E i \in DOMAIN in : /\ in[i] = s[2] /\ s[2] \in call[h].files
                              /\ \A j \in 1..(i - 1) : in[j] \notin Files
    /\ Agent(key[h]) \notin {"claude-code", "vscode"} =>
         ("reason" \in {s[1] : s \in answer[h].shows} <=> answer[h].shows # {})
    /\ answer[h].token =>
         /\ answer[h].does = "run" /\ credential /\ op[h].act = "mcp"
         /\ \/ op[h].server = "pabel"
            \/ Agent(key[h]) = "opencode" /\ ~op[h].prefix /\ op[h].tool # "another"

HandIInv ==
  /\ IInv /\ WireIInv /\ DOMAIN token = Hooks
  /\ \A h \in Hooks : Tasked(h) /\ Carried(h) /\ HandedTo(h)

LEMMA LeastOf ==
  ASSUME NEW T \in SUBSET Nat, T # {}
  PROVE  \E i \in T : \A j \in T : i <= j
<1>1. PICK i \in T : \A j \in T : <<j, i>> \notin OpToRel(<, Nat)
  BY NatLessThanWellFounded, WFMin
<1>2. ASSUME NEW j \in T, ~(i <= j) PROVE <<j, i>> \in OpToRel(<, Nat)
  <2>1. j \in Nat /\ i \in Nat /\ j < i
    BY <1>2
  <2> QED BY <2>1 DEF OpToRel
<1> QED BY <1>1, <1>2

\* find_relayable_file returns the first file among the values, if there is one.
LEMMA RelayableIsFirst ==
  ASSUME NEW S, NEW in \in Seq(S), {i \in DOMAIN in : in[i] \in Files} # {}
  PROVE  \E i \in DOMAIN in : /\ Relayable(in) = in[i] /\ in[i] \in Files
                              /\ \A j \in 1..(i - 1) : in[j] \notin Files
<1> DEFINE first == {i \in DOMAIN in : in[i] \in Files}
<1>1. DOMAIN in = 1..Len(in) /\ Len(in) \in Nat
  OBVIOUS
<1>2. \E i \in first : \A j \in first : i <= j
  <2>1. first \in SUBSET Nat /\ first # {}
    BY <1>1
  <2> HIDE DEF first
  <2> QED BY <2>1, LeastOf
<1> DEFINE i == CHOOSE i \in first : \A j \in first : i <= j
<1>3. i \in first /\ \A j \in first : i <= j
  BY <1>2
<1>4. Relayable(in) = in[i]
  BY DEF Relayable
<1> HIDE DEF i
<1>5. ASSUME NEW j \in 1..(i - 1) PROVE in[j] \notin Files
  BY <1>1, <1>3
<1> QED BY <1>3, <1>4, <1>5

LEMMA VerdictNeeds ==
  ASSUME NEW c \in Calls
  PROVE  /\ Verdict(c) = "relay" => c.files # {}
         /\ Verdict(c) = "server tools" => c.mcp = "pabel"
         /\ Verdict(c) # "DENY_WITH_RELAY"
BY DEF Verdict, WriteVerdict, ReadVerdict

\* What a relay shows is the first file of the call, and one its verdict saw.
LEMMA ShownIsFirst ==
  ASSUME NEW k \in Keys, NEW o \in Ops, NEW c, c = Detect(ParseBy(Agent(k), o)), c.files # {}
  PROVE  \E i \in DOMAIN o.input :
           /\ o.input[i] = Relayable(ParseBy(Agent(k), o).input) /\ o.input[i] \in c.files
           /\ \A j \in 1..(i - 1) : o.input[j] \notin Files
<1> DEFINE in == ParseBy(Agent(k), o).input
<1>1. o.input \in Seq(Things \cup Files) /\ o.input # <<>>
  BY WireAssumption DEF OpType
<1>2. in = o.input \/ in = <<o.input[1]>>
  BY AgentsOfKeys DEF ParseBy, ParseClaude, ParseCopilot, ParseVscode, ParseCursor,
     ParseWindsurf, ParseOpencode, Normal
<1>3. 1 \in DOMAIN o.input /\ o.input[1] \in Things \cup Files
  BY <1>1
<1>4. in \in Seq(Things \cup Files)
  <2>1. ASSUME NEW x \in Things \cup Files PROVE <<x>> \in Seq(Things \cup Files)
    OBVIOUS
  <2> HIDE DEF in
  <2> QED BY <1>1, <1>2, <1>3, <2>1
<1> HIDE DEF in
<1>5. c.files = {f \in Files : \E i \in DOMAIN in : in[i] \in {f}}
  BY DEF Detect, Mentions, in
<1>6. {i \in DOMAIN in : in[i] \in Files} # {}
  BY <1>5
<1>7. PICK i \in DOMAIN in : /\ Relayable(in) = in[i] /\ in[i] \in Files
                             /\ \A j \in 1..(i - 1) : in[j] \notin Files
  BY <1>4, <1>6, RelayableIsFirst
<1>8. in[i] \in c.files
  BY <1>5, <1>7
<1>9. CASE in = o.input
  BY <1>7, <1>8, <1>9 DEF in
<1>10. CASE in = <<o.input[1]>>
  <2>1. i = 1 /\ in[i] = o.input[1]
    BY <1>10
  <2> QED BY <1>3, <1>7, <1>8, <2>1 DEF in
<1> QED BY <1>2, <1>9, <1>10

\* Only Claude Code and opencode put a token into a call, and only into one
\* for the deployed server's tools.
LEMMA TokenGoesToPabel ==
  ASSUME NEW a \in {"claude-code", "opencode"}, NEW o \in Ops,
         Detect(ParseBy(a, o)).mcp = "pabel"
  PROVE  /\ o.act = "mcp"
         /\ \/ o.server = "pabel"
            \/ a = "opencode" /\ ~o.prefix /\ o.tool # "another"
<1>1. ParseBy(a, o).mcp = "pabel"
  BY DEF Detect
<1>2. CASE a = "claude-code"
  BY <1>1, <1>2 DEF ParseBy, ParseClaude, Normal, NamedMcp
<1>3. CASE a = "opencode"
  <2>1. OpencodeMcp(o) = "pabel"
    BY <1>1, <1>3 DEF ParseBy, ParseOpencode, Normal
  <2> QED BY <1>3, <2>1 DEF OpencodeMcp
<1> QED BY <1>2, <1>3

\* What each rendering shows and carries: the file f with a relayed result,
\* the token with an allowed call.
Shows(a, d, f, t, r) ==
  /\ d = "DENY_WITH_RELAY" <=> r.shows # {}
  /\ \A s \in r.shows : s[2] = f
  /\ a \notin {"claude-code", "vscode"} => ("reason" \in Channels(r) <=> r.shows # {})
  /\ r.token \in BOOLEAN
  /\ r.token = TRUE => /\ r.does = "run" /\ d = "ALLOW" /\ t = TRUE
                       /\ a \in {"claude-code", "opencode"}

LEMMA Rendered ==
  ASSUME NEW k \in Keys, NEW d, NEW f, NEW t \in BOOLEAN,
         NEW r, r = RenderBy(Agent(k), d, f, t)
  PROVE  Shows(Agent(k), d, f, t, r)
<1>1. ASSUME NEW channels, NEW x \in channels
      PROVE  LET b == Block(d, f, channels) IN
             /\ d = "DENY_WITH_RELAY" <=> b.shows # {}
             /\ \A s \in b.shows : s[2] = f
             /\ d = "DENY_WITH_RELAY" => {s[1] : s \in b.shows} = channels
             /\ b.token = FALSE
  <2> DEFINE shows == {<<c, f>> : c \in channels}
  <2>1. Block(d, f, channels).shows = IF d = "DENY_WITH_RELAY" THEN shows ELSE {}
    BY DEF Block, Response
  <2>2. Block(d, f, channels).token = FALSE
    BY DEF Block, Response
  <2>3. <<x, f>> \in shows
    OBVIOUS
  <2>4. {s[1] : s \in shows} = channels
    <3>1. ASSUME NEW c \in channels PROVE c \in {s[1] : s \in shows}
      <4>1. <<c, f>> \in shows /\ <<c, f>>[1] = c
        OBVIOUS
      <4> QED BY <4>1
    <3>2. ASSUME NEW s \in shows PROVE s[1] \in channels
      OBVIOUS
    <3> HIDE DEF shows
    <3> QED BY <3>1, <3>2
  <2>5. \A s \in shows : s[2] = f
    OBVIOUS
  <2> HIDE DEF shows
  <2> QED BY <2>1, <2>2, <2>3, <2>4, <2>5
<1>2. PICK channels \in SUBSET {"reason", "context"}, u \in BOOLEAN :
        /\ r = IF d = "ALLOW" THEN Response("run", {}, u) ELSE Block(d, f, channels)
        /\ channels # {}
        /\ Agent(k) \notin {"claude-code", "vscode"} => "reason" \in channels
        /\ u = TRUE => t = TRUE /\ Agent(k) \in {"claude-code", "opencode"}
  <2>1. CASE Agent(k) \in {"claude-code", "opencode"}
    <3>1. r = IF d = "ALLOW" THEN Response("run", {}, t)
              ELSE Block(d, f, IF Agent(k) = "opencode" THEN {"reason"} ELSE {"context"})
      BY <2>1 DEF RenderBy, RenderClaude, RenderOpencode, Folded
    <3> QED BY <2>1, <3>1
  <2>2. CASE Agent(k) = "vscode"
    <3>1. r = IF d = "ALLOW" THEN Response("run", {}, FALSE) ELSE Block(d, f, {"context"})
      BY <2>2 DEF RenderBy, RenderVscode
    <3> QED BY <2>2, <3>1
  <2>3. CASE Agent(k) = "copilot-cli"
    <3>1. r = IF d = "ALLOW" THEN Response("run", {}, FALSE)
              ELSE Block(d, f, Folded \cup {"context"})
      BY <2>3 DEF RenderBy, RenderCopilot
    <3> QED BY <3>1 DEF Folded
  <2>4. CASE Agent(k) \in {"cursor", "windsurf"}
    <3>1. r = IF d = "ALLOW" THEN Response("run", {}, FALSE) ELSE Block(d, f, Folded)
      BY <2>4 DEF RenderBy, RenderCursor, RenderWindsurf
    <3> QED BY <3>1 DEF Folded
  <2> QED BY <2>1, <2>2, <2>3, <2>4, AgentsOfKeys
<1>3. CASE d = "ALLOW"
  <2>1. r.shows = {} /\ r.token = u /\ r.does = "run"
    BY <1>2, <1>3 DEF Response
  <2>2. Channels(r) = {}
    BY <2>1 DEF Channels
  <2> QED BY <1>2, <1>3, <2>1, <2>2 DEF Shows
<1>4. CASE d # "ALLOW"
  <2>1. r = Block(d, f, channels)
    BY <1>2, <1>4
  <2>2. PICK x : x \in channels
    BY <1>2
  <2>3. /\ d = "DENY_WITH_RELAY" <=> r.shows # {}
        /\ \A s \in r.shows : s[2] = f
        /\ d = "DENY_WITH_RELAY" => Channels(r) = channels
        /\ r.token = FALSE
    BY <1>1, <2>1, <2>2 DEF Channels
  <2>4. r.shows = {} => "reason" \notin Channels(r)
    BY DEF Channels
  <2> QED BY <1>2, <2>3, <2>4 DEF Shows
<1> QED BY <1>3, <1>4

LEMMA HandInitially == WireInit => HandIInv
<1> SUFFICES ASSUME WireInit PROVE HandIInv
  OBVIOUS
<1>1. IInv /\ WireIInv
  BY InitIInv, WireInitially DEF WireInit
<1>2. DOMAIN token = Hooks /\ \A h \in Hooks : Tasked(h) /\ Carried(h) /\ HandedTo(h)
  BY NoneIsNone DEF WireInit, Init, Tasked, Carried, HandedTo
<1> QED BY <1>1, <1>2 DEF HandIInv

\* Where nothing of a hook changes, what is known of it stays, whatever else
\* does: a stored credential is never taken away.
LEMMA HandUndisturbed ==
  ASSUME NEW h \in Hooks, Tasked(h), Carried(h), HandedTo(h),
         pc'[h] = pc[h], call'[h] = call[h], task'[h] = task[h], kind'[h] = kind[h],
         token'[h] = token[h], key'[h] = key[h], op'[h] = op[h], answer'[h] = answer[h],
         credential = TRUE => credential' = TRUE
  PROVE  Tasked(h)' /\ Carried(h)' /\ HandedTo(h)'
<1>1. Tasked(h)' /\ Carried(h)'
  BY DEF Tasked, Carried
<1>2. HandedTo(h)'
  BY DEF HandedTo
<1> QED BY <1>1, <1>2

\* A hook's own steps, by what they do to its task and decision.
LEMMA StepTasks ==
  ASSUME IInv, NEW h \in Hooks, Step(h) \/ Kill(h)
  PROVE  /\ UNCHANGED <<call, task, credential>>
         /\ kind'[h] = "DENY_WITH_RELAY" => kind[h] = kind'[h] \/ task[h] = "read"
         /\ pc[h] = "log" => kind'[h] = kind[h] /\ pc'[h] \in {"decided", "crashed"}
         /\ task[h] = "inject" /\ pc[h] = "agent token" /\ pc'[h] = "log" => kind'[h] = "ALLOW"
         /\ \A g \in Hooks \ {h} : pc'[g] = pc[g] /\ kind'[g] = kind[g]
<1>1. DOMAIN pc = Hooks /\ DOMAIN kind = Hooks /\ DOMAIN trail = Hooks
  BY DEF IInv, TypeOK
<1>2. CASE AgentToken(h) \/ HumanToken(h) \/ CallServer(h)
  BY <1>1, <1>2 DEF AgentToken, HumanToken, CallServer, AuthFails, RelayFails, Conclude, Decide,
     Goto, shared
<1>3. CASE Login(h) \/ Callback(h) \/ Escape(h) \/ LogLocally(h) \/ Kill(h)
  BY <1>1, <1>3 DEF Login, Callback, Escape, LogLocally, Kill, Conclude, Decide, Goto, shared
<1> QED BY <1>2, <1>3 DEF Step

LEMMA ReceiveHands ==
  ASSUME HandIInv, NEW g \in Hooks, Receive(g)
  PROVE  \A h \in Hooks : Tasked(h)' /\ Carried(h)' /\ HandedTo(h)'
<1>1. PICK c \in Calls :
        /\ pc[g] = "idle" /\ UNCHANGED <<token, answer, credential>>
        /\ call' = [call EXCEPT ![g] = c]
        /\ task' = [task EXCEPT ![g] = CASE Verdict(c) = "relay"          -> "read"
                                         [] Verdict(c) = "server tools"   -> "inject"
                                         [] Verdict(c) \in LocalDenials   -> "report"
                                         [] OTHER                         -> None]
        /\ kind' = [kind EXCEPT ![g] = CASE Verdict(c) = "own tools" -> "ALLOW"
                                         [] Verdict(c) \in Kinds     -> Verdict(c)
                                         [] OTHER                    -> None]
  BY DEF Receive, Start, Decide, shared
<1>2. \A h \in Hooks \ {g} : /\ pc'[h] = pc[h] /\ call'[h] = call[h] /\ task'[h] = task[h]
                             /\ kind'[h] = kind[h] /\ key'[h] = key[h] /\ op'[h] = op[h]
  <2>1. \E k, o : key' = [key EXCEPT ![g] = k] /\ op' = [op EXCEPT ![g] = o]
    BY DEF Receive
  <2>2. \E l : pc' = [pc EXCEPT ![g] = l]
    BY DEF Receive, Start, Goto
  <2>3. /\ DOMAIN pc = Hooks /\ DOMAIN call = Hooks /\ DOMAIN task = Hooks
        /\ DOMAIN kind = Hooks /\ DOMAIN key = Hooks /\ DOMAIN op = Hooks
    BY DEF HandIInv, IInv, TypeOK, WireIInv
  <2> QED BY <1>1, <2>1, <2>3, <2>2
<1>3. ASSUME NEW h \in Hooks \ {g} PROVE Tasked(h)' /\ Carried(h)' /\ HandedTo(h)'
  BY <1>1, <1>2, HandUndisturbed DEF HandIInv
<1>4. Tasked(g)'
  <2>1. DOMAIN task = Hooks /\ DOMAIN kind = Hooks /\ DOMAIN call = Hooks
    BY DEF HandIInv, IInv, TypeOK
  <2>2. Verdict(c) \in LocalDenials \cup {"ALLOW", "own tools", "server tools", "relay"}
        /\ Verdict(c) # "DENY_WITH_RELAY"
    BY VerdictSound, VerdictNeeds
  <2> QED BY <1>1, <2>1, <2>2, NoneIsNone DEF Tasked, LocalDenials
<1>5. Carried(g)' /\ HandedTo(g)'
  <2>1. token'[g] = FALSE
    BY <1>1 DEF HandIInv, Carried
  <2>2. answer'[g] = None
    BY <1>1 DEF HandIInv, WireIInv, Answered
  <2> QED BY <2>1, <2>2 DEF Carried, HandedTo
<1> QED BY <1>3, <1>4, <1>5

LEMMA WorkHands ==
  ASSUME HandIInv, NEW g \in Hooks, Step(g) \/ Kill(g), UNCHANGED <<key, op, answer>>,
         \/ UNCHANGED token
         \/ /\ task[g] = "inject" /\ pc[g] = "agent token" /\ pc'[g] = "log"
            /\ \E t \in {FALSE, credential} : token' = [token EXCEPT ![g] = t]
  PROVE  DOMAIN token' = Hooks /\ \A h \in Hooks : Tasked(h)' /\ Carried(h)' /\ HandedTo(h)'
<1>1. /\ UNCHANGED <<call, task, credential>>
      /\ kind'[g] = "DENY_WITH_RELAY" => kind[g] = kind'[g] \/ task[g] = "read"
      /\ pc[g] = "log" => kind'[g] = kind[g] /\ pc'[g] \in {"decided", "crashed"}
      /\ task[g] = "inject" /\ pc[g] = "agent token" /\ pc'[g] = "log" => kind'[g] = "ALLOW"
      /\ \A h \in Hooks \ {g} : pc'[h] = pc[h] /\ kind'[h] = kind[h]
  BY StepTasks DEF HandIInv
<1>2. DOMAIN token = Hooks /\ DOMAIN token' = Hooks /\ \A h \in Hooks \ {g} : token'[h] = token[h]
  BY DEF HandIInv
<1>3. ASSUME NEW h \in Hooks \ {g} PROVE Tasked(h)' /\ Carried(h)' /\ HandedTo(h)'
  BY <1>1, <1>2, <1>3, HandUndisturbed DEF HandIInv
<1>4. pc[g] \in Running
  BY StepsKeepCalls DEF HandIInv, WireIInv
<1>5. Tasked(g)'
  BY <1>1 DEF HandIInv, Tasked
<1>6. HandedTo(g)'
  BY <1>4 DEF HandIInv, WireIInv, Answered, HandedTo, Running
<1>7. Carried(g)'
  <2>1. CASE UNCHANGED token
    BY <1>1, <1>4, <2>1 DEF HandIInv, Carried, Running
  <2>2. CASE /\ task[g] = "inject" /\ pc[g] = "agent token" /\ pc'[g] = "log"
             /\ \E t \in {FALSE, credential} : token' = [token EXCEPT ![g] = t]
    <3>1. token'[g] \in {FALSE, credential} /\ credential \in BOOLEAN
      BY <1>2, <2>2 DEF HandIInv, IInv, TypeOK
    <3> QED BY <1>1, <2>2, <3>1 DEF Carried
  <2> QED BY <2>1, <2>2
<1> QED BY <1>2, <1>3, <1>5, <1>6, <1>7

LEMMA DeliverHands ==
  ASSUME HandIInv, NEW g \in Hooks, Deliver(g)
  PROVE  \A h \in Hooks : Tasked(h)' /\ Carried(h)' /\ HandedTo(h)'
<1>1. UNCHANGED <<pc, call, task, kind, credential, key, op, token>>
  BY DEF Deliver, vars
<1>2. \A h \in Hooks \ {g} : answer'[h] = answer[h]
  BY DEF Deliver, HandIInv, WireIInv
<1>3. ASSUME NEW h \in Hooks \ {g} PROVE Tasked(h)' /\ Carried(h)' /\ HandedTo(h)'
  BY <1>1, <1>2, HandUndisturbed DEF HandIInv
<1>4. Tasked(g)' /\ Carried(g)'
  BY <1>1 DEF HandIInv, Tasked, Carried
<1>5. pc[g] # "idle" => key[g] \in Keys
  BY DEF HandIInv, WireIInv, Answered
<1>6. ASSUME pc[g] = "crashed", NEW does, answer' = [answer EXCEPT ![g] = Response(does, {}, FALSE)]
      PROVE  HandedTo(g)'
  <2>1. answer'[g].shows = {} /\ answer'[g].token = FALSE /\ pc'[g] = "crashed"
    BY <1>1, <1>6 DEF HandIInv, WireIInv, Response
  <2> QED BY <2>1 DEF HandedTo
<1>7. ASSUME pc[g] = "decided",
             answer' = [answer EXCEPT ![g] = RenderBy(Agent(key[g]), kind[g],
               Relayable(ParseBy(Agent(key[g]), op[g]).input), token[g])]
      PROVE  HandedTo(g)'
  <2>1. PICK f : f = Relayable(ParseBy(Agent(key[g]), op[g]).input)
    OBVIOUS
  <2>2. PICK r : r = RenderBy(Agent(key[g]), kind[g], f, token[g])
    OBVIOUS
  <2>3. answer'[g] = r
    BY <1>7, <2>1, <2>2 DEF HandIInv, WireIInv
  <2>4. key[g] \in Keys /\ token[g] \in BOOLEAN
    BY <1>5, <1>7 DEF HandIInv, Carried
  <2>5. /\ kind[g] = "DENY_WITH_RELAY" <=> r.shows # {}
        /\ \A s \in r.shows : s[2] = f
        /\ Agent(key[g]) \notin {"claude-code", "vscode"} =>
             ("reason" \in Channels(r) <=> r.shows # {})
        /\ r.token \in BOOLEAN
        /\ r.token = TRUE => /\ r.does = "run" /\ kind[g] = "ALLOW" /\ token[g] = TRUE
                             /\ Agent(key[g]) \in {"claude-code", "opencode"}
    <3>1. Shows(Agent(key[g]), kind[g], f, token[g], r)
      BY <2>2, <2>4, Rendered
    <3> QED BY <3>1 DEF Shows
  <2>6. call[g] \in Calls
    BY <1>7, Types DEF HandIInv, Consistent, Place
  <2>7. op[g] \in Ops /\ call[g] = Detect(ParseBy(Agent(key[g]), op[g]))
    BY <1>7 DEF HandIInv, WireIInv, Normalised
  <2>8. ASSUME r.shows # {}
        PROVE  \E i \in DOMAIN op[g].input :
                 /\ op[g].input[i] = f /\ op[g].input[i] \in call[g].files
                 /\ \A j \in 1..(i - 1) : op[g].input[j] \notin Files
    <3>1. call[g].files # {}
      BY <2>5, <2>6, <2>8, VerdictNeeds DEF HandIInv, Tasked
    <3> QED BY <2>1, <2>4, <2>7, <3>1, ShownIsFirst
  <2>9. ASSUME r.token = TRUE
        PROVE  /\ r.does = "run" /\ credential = TRUE /\ op[g].act = "mcp"
               /\ \/ op[g].server = "pabel"
                  \/ Agent(key[g]) = "opencode" /\ ~op[g].prefix /\ op[g].tool # "another"
    <3>1. credential = TRUE /\ Verdict(call[g]) = "server tools"
      BY <2>5, <2>9 DEF HandIInv, Carried, Tasked
    <3>2. call[g].mcp = "pabel"
      BY <2>6, <3>1, VerdictNeeds
    <3> QED BY <2>5, <2>7, <2>9, <3>1, <3>2, TokenGoesToPabel
  <2> QED BY <1>1, <1>7, <2>3, <2>5, <2>8, <2>9 DEF HandedTo, Channels
<1> QED BY <1>3, <1>4, <1>6, <1>7 DEF Deliver

LEMMA HandStepKeeps == HandIInv /\ [WireNext]_wireVars => HandIInv'
<1> SUFFICES ASSUME HandIInv, [WireNext]_wireVars PROVE HandIInv'
  OBVIOUS
<1> DEFINE Kept == DOMAIN token' = Hooks
                   /\ \A h \in Hooks : Tasked(h)' /\ Carried(h)' /\ HandedTo(h)'
<1>1. IInv' /\ WireIInv'
  <2>1. [Next]_vars
    BY DEF WireNext, wireVars, Receive, Work, Deliver, Next
  <2> QED BY <2>1, NextKeeps, WireStepKeeps DEF HandIInv
<1>2. ASSUME NEW h \in Hooks, Receive(h) PROVE Kept
  BY <1>2, ReceiveHands DEF Receive, HandIInv
<1>3. ASSUME NEW h \in Hooks, Work(h) \/ (Kill(h) /\ UNCHANGED wire) PROVE Kept
  BY <1>3, WorkHands DEF Work, wire
<1>4. ASSUME NEW h \in Hooks, Deliver(h) PROVE Kept
  BY <1>4, DeliverHands DEF Deliver, HandIInv
<1>5. ASSUME (Outside /\ UNCHANGED wire) \/ UNCHANGED wireVars PROVE Kept
  <2>1. /\ UNCHANGED <<pc, call, task, kind, token, key, op, answer>>
        /\ credential = TRUE => credential' = TRUE
    BY <1>5 DEF Outside, wire, wireVars, vars
  <2>2. ASSUME NEW h \in Hooks PROVE Tasked(h)' /\ Carried(h)' /\ HandedTo(h)'
    BY <2>1, HandUndisturbed DEF HandIInv
  <2> QED BY <2>1, <2>2 DEF HandIInv
<1> HIDE DEF Kept
<1>6. Kept
  BY <1>2, <1>3, <1>4, <1>5 DEF WireNext
<1> QED BY <1>1, <1>6 DEF HandIInv, Kept

\* render() and detection.py: a served read's content, of the file its call
\* named first, reaches the agent through every channel it has; a token only
\* PABEL's own tools, and only a stored one.
THEOREM AlwaysHandedOver == WireSpec => []HandedOver
<1>1. HandIInv => HandedOver
  BY DEF HandIInv, HandedTo, HandedOver
<1> QED BY <1>1, HandInitially, HandStepKeeps, PTL DEF WireSpec
=============================================================================
