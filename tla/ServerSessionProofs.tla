------------------------ MODULE ServerSessionProofs ------------------------
(***************************************************************************)
(* Theorems about ServerSession, for any number of servers and logins.     *)
(*                                                                         *)
(* What makes the cache safe is that the mtime kept with some tokens is    *)
(* never later than the file they were read from (CacheOK): if it equals   *)
(* the mtime of the file there is now, no login came in between.           *)
(***************************************************************************)
EXTENDS ServerSession, TLAPS

\* The file there is, is the latest login's; it is empty until written.
FileOK ==
  file # Missing =>
    /\ file.mtime \in {2 * logins - 1, 2 * logins}
    /\ logins > 0
    /\ file.content \in {0, logins}
    /\ file.content = 0 => file.mtime = 2 * logins - 1

\* A mtime that was read from the file belongs to no later login than n.
NotAfter(m, n) == m \in Nat /\ m <= 2 * n

CacheOK(p) ==
  /\ cache[p].login = None <=> cache[p].mtime = None
  /\ cache[p].login # None =>
       /\ cache[p].login \in 1..logins
       /\ NotAfter(cache[p].mtime, cache[p].login)
       /\ file # Missing /\ cache[p].login = logins => file.content = logins

CallOK(p) ==
  /\ pc[p] # "idle" => file \in seen[p] /\ outcome[p] = "none"
  /\ pc[p] \in {"stat", "read"} => \E f \in seen[p] : f # Missing
  /\ pc[p] = "read" => NotAfter(stamp[p], logins)
  /\ pc[p] \in {"token", "refresh", "verify"} =>
       \E f \in seen[p] : f # Missing /\ f.content = cache[p].login

IInv ==
  /\ TypeOK /\ FileOK
  /\ ActsAsLoggedIn /\ ExceptionsHaveCause
  /\ \A p \in Procs : CacheOK(p) /\ CallOK(p)

----------------------------------------------------------------------------

LEMMA MissingType == Missing \in FileStates
BY DEF Missing, FileStates

LEMMA InitIInv == Init => IInv
<1> SUFFICES ASSUME Init PROVE IInv
  OBVIOUS
<1>1. TypeOK
  <2>1. file \in FileStates /\ logins \in 0..MaxLogins
    BY MissingType, SessionAssumption DEF Init
  <2>2. cache \in [Procs -> [login : (Nat \ {0}) \cup {None}, mtime : Nat \cup {None}]]
    BY DEF Init
  <2> QED
    BY <2>1, <2>2 DEF Init, TypeOK, Outcomes
<1>2. FileOK
  BY DEF Init, FileOK
<1>3. ActsAsLoggedIn /\ ExceptionsHaveCause
  BY DEF Init, ActsAsLoggedIn, ExceptionsHaveCause
<1>4. ASSUME NEW p \in Procs PROVE CacheOK(p) /\ CallOK(p)
  BY DEF Init, CacheOK, CallOK
<1> QED
  BY <1>1, <1>2, <1>3, <1>4 DEF IInv

\* What login.py does is seen by every call under way and by no other.
LEMMA Witnessed ==
  ASSUME TypeOK, NEW f \in FileStates, Replace(f)
  PROVE  /\ seen' \in [Procs -> SUBSET FileStates]
         /\ file' = f
         /\ \A p \in Procs : seen[p] \subseteq seen'[p]
         /\ \A p \in Procs : pc[p] # "idle" => f \in seen'[p]
BY DEF TypeOK, Replace, Witness

\* It keeps what calls rely on, if it keeps the file and the caches right.
LEMMA LoginKeeps ==
  ASSUME IInv, NEW f \in FileStates, Replace(f), UNCHANGED caller,
         logins' \in 0..MaxLogins, logins' >= logins, writing' \in BOOLEAN,
         FileOK', \A p \in Procs : CacheOK(p)'
  PROVE  IInv'
<1>1. /\ seen' \in [Procs -> SUBSET FileStates]
      /\ file' = f
      /\ \A p \in Procs : seen[p] \subseteq seen'[p]
      /\ \A p \in Procs : pc[p] # "idle" => f \in seen'[p]
  BY Witnessed DEF IInv
<1>2. TypeOK'
  BY <1>1 DEF IInv, TypeOK, caller
<1>6. pc' = pc /\ cache' = cache /\ stamp' = stamp /\ outcome' = outcome
  BY DEF caller
<1>3. ActsAsLoggedIn'
  <2> SUFFICES ASSUME NEW p \in Procs, outcome[p] = "identified"
               PROVE  \E g \in seen'[p] : g # Missing /\ g.content = cache[p].login
    BY <1>6 DEF ActsAsLoggedIn
  <2>1. PICK g \in seen[p] : g # Missing /\ g.content = cache[p].login
    BY DEF IInv, ActsAsLoggedIn
  <2> QED
    BY <1>1, <2>1
<1>4. ExceptionsHaveCause'
  <2> SUFFICES ASSUME NEW p \in Procs, outcome[p] = "exception"
               PROVE  \E g, h \in seen'[p] : g # h \/ (g # Missing /\ g.content = 0)
    BY <1>6 DEF ExceptionsHaveCause
  <2>1. PICK g \in seen[p], h \in seen[p] : g # h \/ (g # Missing /\ g.content = 0)
    BY DEF IInv, ExceptionsHaveCause
  <2> QED
    BY <1>1, <2>1
<1>5. ASSUME NEW p \in Procs PROVE CallOK(p)'
  <2>1. CallOK(p)
    BY DEF IInv
  <2>2. pc[p] = "read" => NotAfter(stamp[p], logins')
    <3>1. logins \in Nat /\ logins' \in Nat
      BY SessionAssumption DEF IInv, TypeOK
    <3> QED
      BY <2>1, <3>1 DEF CallOK, NotAfter
  <2>3. pc[p] # "idle" => file' \in seen'[p] /\ outcome[p] = "none"
    BY <1>1, <2>1 DEF CallOK
  <2>4. pc[p] \in {"stat", "read"} => \E g \in seen'[p] : g # Missing
    BY <1>1, <2>1 DEF CallOK
  <2>5. pc[p] \in {"token", "refresh", "verify"} =>
          \E g \in seen'[p] : g # Missing /\ g.content = cache[p].login
    BY <1>1, <2>1 DEF CallOK
  <2> QED
    BY <1>6, <2>2, <2>3, <2>4, <2>5 DEF CallOK
<1> QED
  BY <1>2, <1>3, <1>4, <1>5 DEF IInv

LEMMA LoginOpensKeeps == ASSUME IInv, LoginOpens PROVE IInv'
<1> DEFINE f == [content |-> 0, mtime |-> 2 * logins + 1]
<1>1. logins \in Nat /\ logins' = logins + 1 /\ logins' \in 0..MaxLogins
  BY SessionAssumption DEF IInv, TypeOK, LoginOpens
<1>2. f \in FileStates /\ f.content = 0 /\ f.mtime = 2 * logins' - 1 /\ f # Missing
  BY <1>1 DEF FileStates, Missing
<1>3. Replace(f) /\ file' = f /\ writing' \in BOOLEAN /\ UNCHANGED caller
  BY DEF LoginOpens, Replace
<1>4. FileOK'
  BY <1>1, <1>2, <1>3 DEF FileOK
<1>5. ASSUME NEW p \in Procs PROVE CacheOK(p)'
  BY <1>1, <1>3 DEF IInv, CacheOK, caller
<1>6. logins' >= logins
  BY <1>1
<1> HIDE DEF f
<1> QED
  BY <1>1, <1>2, <1>3, <1>4, <1>5, <1>6, LoginKeeps

LEMMA LoginWritesKeeps == ASSUME IInv, LoginWrites PROVE IInv'
<1>0. /\ logins \in Nat /\ logins \in 0..MaxLogins
      /\ logins' = logins /\ writing' = FALSE /\ UNCHANGED caller
  BY SessionAssumption DEF IInv, TypeOK, LoginWrites
<1>1. CASE file # Missing
  <2>1. PICK m \in {2 * logins - 1, 2 * logins} :
          Replace([content |-> logins, mtime |-> m])
    BY <1>1 DEF LoginWrites
  <2> DEFINE f == [content |-> logins, mtime |-> m]
  <2>2. logins > 0
    BY <1>1 DEF IInv, FileOK
  <2>3. f \in FileStates /\ f.content = logins /\ f.mtime = m
    BY <1>0, <2>1, <2>2 DEF FileStates
  <2>4. Replace(f) /\ file' = f
    BY <2>1 DEF Replace
  <2>5. FileOK'
    BY <1>0, <2>1, <2>2, <2>3, <2>4 DEF FileOK
  <2>6. ASSUME NEW p \in Procs PROVE CacheOK(p)'
    BY <1>0, <2>3, <2>4 DEF IInv, CacheOK, caller
  <2>7. logins' \in 0..MaxLogins /\ logins' >= logins
    BY <1>0, SessionAssumption
  <2>8. writing' \in BOOLEAN
    BY <1>0
  <2> HIDE DEF f
  <2> QED
    BY <1>0, <2>3, <2>4, <2>5, <2>6, <2>7, <2>8, LoginKeeps
<1>2. CASE file = Missing /\ UNCHANGED <<file, seen>>
  BY <1>0, <1>2 DEF IInv, TypeOK, FileOK, ActsAsLoggedIn, ExceptionsHaveCause,
                    CacheOK, CallOK, caller
<1> QED
  BY <1>1, <1>2 DEF LoginWrites

LEMMA LogoutKeeps == ASSUME IInv, Logout PROVE IInv'
<1>1. /\ logins' = logins /\ writing' = writing /\ UNCHANGED caller
      /\ Replace(Missing) /\ file' = Missing
  BY DEF Logout, Replace
<1>2. FileOK'
  BY <1>1 DEF FileOK
<1>3. ASSUME NEW p \in Procs PROVE CacheOK(p)'
  BY <1>1 DEF IInv, CacheOK, caller
<1>4. logins' \in 0..MaxLogins /\ logins' >= logins /\ writing' \in BOOLEAN
  BY <1>1, SessionAssumption DEF IInv, TypeOK
<1> QED
  BY <1>1, <1>2, <1>3, <1>4, MissingType, LoginKeeps

----------------------------------------------------------------------------

\* A step of one process keeps IInv if it keeps what concerns that process.
LEMMA StepKeeps ==
  ASSUME IInv, NEW p \in Procs, TypeOK', UNCHANGED <<file, writing, logins>>,
         \A q \in Procs \ {p} : /\ pc'[q] = pc[q] /\ cache'[q] = cache[q]
                               /\ stamp'[q] = stamp[q] /\ outcome'[q] = outcome[q]
                               /\ seen'[q] = seen[q],
         CacheOK(p)', CallOK(p)',
         outcome'[p] = "identified" =>
           \E f \in seen'[p] : f # Missing /\ f.content = cache'[p].login,
         outcome'[p] = "exception" =>
           \E f, g \in seen'[p] : f # g \/ (f # Missing /\ f.content = 0)
  PROVE  IInv'
<1>1. FileOK'
  BY DEF IInv, FileOK
<1>2. ActsAsLoggedIn'
  BY DEF IInv, ActsAsLoggedIn
<1>3. ExceptionsHaveCause'
  BY DEF IInv, ExceptionsHaveCause
<1>4. ASSUME NEW q \in Procs \ {p} PROVE CacheOK(q)' /\ CallOK(q)'
  BY DEF IInv, CacheOK, CallOK
<1> QED
  BY <1>1, <1>2, <1>3, <1>4 DEF IInv

LEMMA BeginKeeps == ASSUME IInv, NEW p \in Procs, Begin(p) PROVE IInv'
<1>1. TypeOK'
  BY DEF IInv, TypeOK, Begin, End, Goto, Outcomes
<1>2. /\ seen'[p] = {file}
      /\ \/ pc'[p] = "idle" /\ outcome'[p] = "AuthError"
         \/ pc'[p] = "stat" /\ outcome'[p] = "none" /\ file # Missing
  BY DEF IInv, TypeOK, Begin, End, Goto
<1>3. \A q \in Procs \ {p} : /\ pc'[q] = pc[q] /\ cache'[q] = cache[q]
                            /\ stamp'[q] = stamp[q] /\ outcome'[q] = outcome[q]
                            /\ seen'[q] = seen[q]
  BY DEF IInv, TypeOK, Begin, End, Goto
<1>4. UNCHANGED <<file, writing, logins, cache, stamp>>
  BY DEF Begin
<1>5. CallOK(p)'
  BY <1>2, <1>4 DEF CallOK
<1>6. CacheOK(p)'
  BY <1>4 DEF IInv, CacheOK
<1> QED
  BY <1>1, <1>2, <1>3, <1>4, <1>5, <1>6, StepKeeps

LEMMA StatKeeps == ASSUME IInv, NEW p \in Procs, Stat(p) PROVE IInv'
<1>0. file \in FileStates /\ file.mtime \in Nat /\ file.content \in Nat
  BY DEF IInv, TypeOK, FileStates
<1>1. TypeOK'
  BY <1>0 DEF IInv, TypeOK, Stat, End, Goto, Outcomes
<1>2. UNCHANGED <<file, writing, logins, cache, seen>> /\ pc[p] = "stat"
  BY DEF Stat
<1>3. \A q \in Procs \ {p} : /\ pc'[q] = pc[q] /\ cache'[q] = cache[q]
                            /\ stamp'[q] = stamp[q] /\ outcome'[q] = outcome[q]
                            /\ seen'[q] = seen[q]
  BY DEF IInv, TypeOK, Stat, End, Goto
<1>4. CacheOK(p)'
  BY <1>2 DEF IInv, CacheOK
<1>5. CallOK(p) /\ file \in seen[p] /\ outcome[p] = "none"
  BY <1>2 DEF IInv, CallOK
<1>6. CASE file = Missing /\ End(p, "exception")
  <2>1. pc'[p] = "idle" /\ outcome'[p] = "exception"
    BY <1>6 DEF IInv, TypeOK, End, Goto
  <2>2. \E f, g \in seen'[p] : f # g
    BY <1>2, <1>5, <1>6 DEF CallOK
  <2>3. CallOK(p)'
    BY <2>1 DEF CallOK
  <2> QED
    BY <1>1, <1>2, <1>3, <1>4, <2>1, <2>2, <2>3, StepKeeps
<1>7. CASE file # Missing /\ Unchanged(p) /\ Goto(p, "token") /\ UNCHANGED outcome
  <2>1. pc'[p] = "token" /\ outcome'[p] = "none"
    BY <1>5, <1>7 DEF IInv, TypeOK, Goto
  <2>2. file.content = cache[p].login
    <3>1. CacheOK(p) /\ FileOK /\ cache[p].mtime = file.mtime /\ logins \in Nat
      BY <1>7 DEF IInv, Unchanged, TypeOK
    <3>2. cache[p].login # None /\ cache[p].login \in 1..logins
      BY <3>1, <1>0, SessionAssumption DEF CacheOK
    <3>3. file.mtime <= 2 * cache[p].login /\ file.mtime >= 2 * logins - 1
      BY <3>1, <3>2, <1>0, <1>7 DEF CacheOK, NotAfter, FileOK
    <3>4. cache[p].login = logins
      BY <3>1, <3>2, <3>3, <1>0
    <3> QED
      BY <3>1, <3>2, <3>4, <1>7 DEF CacheOK
  <2>3. CallOK(p)'
    BY <1>2, <1>5, <1>7, <2>1, <2>2 DEF CallOK
  <2> QED
    BY <1>1, <1>2, <1>3, <1>4, <2>1, <2>3, StepKeeps
<1>8. CASE file # Missing /\ stamp' = [stamp EXCEPT ![p] = file.mtime]
           /\ Goto(p, "read") /\ UNCHANGED outcome
  <2>1. pc'[p] = "read" /\ outcome'[p] = "none" /\ stamp'[p] = file.mtime
    BY <1>5, <1>8 DEF IInv, TypeOK, Goto
  <2>2. NotAfter(file.mtime, logins)
    BY <1>0, <1>8 DEF IInv, TypeOK, FileOK, NotAfter
  <2>3. CallOK(p)'
    BY <1>2, <1>5, <1>8, <2>1, <2>2 DEF CallOK
  <2> QED
    BY <1>1, <1>2, <1>3, <1>4, <2>1, <2>3, StepKeeps
<1> QED
  BY <1>6, <1>7, <1>8 DEF Stat

LEMMA ReadKeeps == ASSUME IInv, NEW p \in Procs, Read(p) PROVE IInv'
<1>0. /\ file \in FileStates /\ file.content \in Nat
      /\ stamp[p] \in Nat \cup {None} /\ logins \in Nat
  BY DEF IInv, TypeOK, FileStates
<1>2. UNCHANGED <<file, writing, logins, stamp, seen>> /\ pc[p] = "read"
  BY DEF Read
<1>1. TypeOK'
  <2>1. cache' \in [Procs -> [login : (Nat \ {0}) \cup {None}, mtime : Nat \cup {None}]]
    BY <1>0 DEF IInv, TypeOK, Read
  <2>2. /\ pc' \in [Procs -> {"idle", "stat", "read", "token", "refresh", "verify"}]
        /\ outcome' \in [Procs -> Outcomes]
    BY DEF IInv, TypeOK, Read, End, Goto, Outcomes
  <2> QED
    BY <1>2, <2>1, <2>2 DEF IInv, TypeOK
<1>3. \A q \in Procs \ {p} : /\ pc'[q] = pc[q] /\ cache'[q] = cache[q]
                            /\ stamp'[q] = stamp[q] /\ outcome'[q] = outcome[q]
                            /\ seen'[q] = seen[q]
  BY DEF IInv, TypeOK, Read, End, Goto
<1>4. CallOK(p) /\ CacheOK(p) /\ file \in seen[p] /\ outcome[p] = "none"
  BY <1>2 DEF IInv, CallOK
<1>5. CASE file.content = 0 /\ End(p, "exception") /\ UNCHANGED cache
  <2>1. pc'[p] = "idle" /\ outcome'[p] = "exception"
    BY <1>5 DEF IInv, TypeOK, End, Goto
  <2>2. PICK f \in seen[p] : f # Missing
    BY <1>2, <1>4 DEF CallOK
  <2>3. \E g, h \in seen'[p] : g # h \/ (g # Missing /\ g.content = 0)
    <3>1. CASE f = file
      BY <1>2, <1>5, <2>2, <3>1
    <3>2. CASE f # file
      BY <1>2, <1>4, <2>2, <3>2
    <3> QED BY <3>1, <3>2
  <2>4. CallOK(p)' /\ CacheOK(p)'
    BY <1>2, <1>4, <1>5, <2>1 DEF CallOK, CacheOK
  <2> QED
    BY <1>1, <1>2, <1>3, <2>1, <2>3, <2>4, StepKeeps
<1>6. CASE /\ file.content # 0
           /\ cache' = [cache EXCEPT ![p] = [login |-> file.content, mtime |-> stamp[p]]]
           /\ Goto(p, "token") /\ UNCHANGED outcome
  <2>1. /\ pc'[p] = "token" /\ outcome'[p] = "none"
        /\ cache'[p].login = file.content /\ cache'[p].mtime = stamp[p]
    BY <1>4, <1>6 DEF IInv, TypeOK, Goto
  <2>2. file # Missing
    BY <1>6 DEF Missing
  <2>3. file.content = logins /\ logins > 0
    BY <1>6, <2>2 DEF IInv, FileOK
  <2>4. NotAfter(stamp[p], logins)
    BY <1>2, <1>4 DEF CallOK
  <2>5. CacheOK(p)'
    <3>1. cache'[p].login # None /\ cache'[p].mtime # None
      BY <1>0, <2>1, <2>4, SessionAssumption DEF NotAfter
    <3> QED
      BY <1>0, <1>2, <2>1, <2>3, <2>4, <3>1 DEF CacheOK
  <2>6. CallOK(p)'
    BY <1>2, <1>4, <2>1, <2>2 DEF CallOK
  <2> QED
    BY <1>1, <1>2, <1>3, <2>1, <2>5, <2>6, StepKeeps
<1> QED
  BY <1>5, <1>6 DEF Read

LEMMA TokenKeeps ==
  ASSUME IInv, NEW p \in Procs, Token(p) \/ Refresh(p) \/ Verify(p)
  PROVE  IInv'
<1>1. TypeOK'
  BY DEF IInv, TypeOK, Token, Refresh, Verify, End, Goto, Outcomes
<1>2. UNCHANGED <<file, writing, logins, cache, stamp, seen>>
  BY DEF Token, Refresh, Verify
<1>3. \A q \in Procs \ {p} : /\ pc'[q] = pc[q] /\ cache'[q] = cache[q]
                            /\ stamp'[q] = stamp[q] /\ outcome'[q] = outcome[q]
                            /\ seen'[q] = seen[q]
  BY DEF IInv, TypeOK, Token, Refresh, Verify, End, Goto
<1>4. /\ pc[p] \in {"token", "refresh", "verify"}
      /\ \/ pc'[p] \in {"refresh", "verify"} /\ outcome'[p] = outcome[p]
         \/ pc'[p] = "idle" /\ outcome'[p] \in {"identified", "AuthError"}
  BY DEF IInv, TypeOK, Token, Refresh, Verify, End, Goto
<1>5. CallOK(p) /\ CacheOK(p)
  BY DEF IInv
<1>6. outcome[p] = "none" /\ \E f \in seen[p] : f # Missing /\ f.content = cache[p].login
  BY <1>4, <1>5 DEF CallOK
<1>7. CallOK(p)'
  BY <1>2, <1>4, <1>5, <1>6 DEF CallOK
<1>8. CacheOK(p)'
  BY <1>2, <1>5 DEF CacheOK
<1> QED
  BY <1>1, <1>2, <1>3, <1>4, <1>6, <1>7, <1>8, StepKeeps

LEMMA RestartKeeps == ASSUME IInv, NEW p \in Procs, Restart(p) PROVE IInv'
<1>1. TypeOK'
  BY DEF IInv, TypeOK, Restart, End, Goto, Outcomes
<1>2. UNCHANGED <<file, writing, logins, stamp, seen>>
  BY DEF Restart
<1>3. \A q \in Procs \ {p} : /\ pc'[q] = pc[q] /\ cache'[q] = cache[q]
                            /\ stamp'[q] = stamp[q] /\ outcome'[q] = outcome[q]
                            /\ seen'[q] = seen[q]
  BY DEF IInv, TypeOK, Restart, End, Goto
<1>4. /\ pc'[p] = "idle" /\ outcome'[p] = "none"
      /\ cache'[p].login = None /\ cache'[p].mtime = None
  BY DEF IInv, TypeOK, Restart, End, Goto
<1>5. CallOK(p)' /\ CacheOK(p)'
  BY <1>4 DEF CallOK, CacheOK
<1> QED
  BY <1>1, <1>2, <1>3, <1>4, <1>5, StepKeeps

----------------------------------------------------------------------------

LEMMA NextKeeps == IInv /\ [Next]_vars => IInv'
<1> SUFFICES ASSUME IInv, [Next]_vars PROVE IInv'
  OBVIOUS
<1>1. CASE LoginKilled \/ UNCHANGED vars
  <2>1. UNCHANGED <<file, logins, pc, cache, stamp, outcome, seen>>
    BY <1>1 DEF LoginKilled, vars, caller
  <2>2. writing' \in BOOLEAN
    BY <1>1 DEF LoginKilled, vars, IInv, TypeOK
  <2>3. TypeOK' /\ FileOK'
    BY <2>1, <2>2 DEF IInv, TypeOK, FileOK
  <2>4. ActsAsLoggedIn' /\ ExceptionsHaveCause'
    BY <2>1 DEF IInv, ActsAsLoggedIn, ExceptionsHaveCause
  <2>5. ASSUME NEW p \in Procs PROVE CacheOK(p)' /\ CallOK(p)'
    BY <2>1 DEF IInv, CacheOK, CallOK
  <2> QED
    BY <2>3, <2>4, <2>5 DEF IInv
<1> QED
  BY <1>1, LoginOpensKeeps, LoginWritesKeeps, LogoutKeeps, BeginKeeps, StatKeeps,
     ReadKeeps, TokenKeeps, RestartKeeps DEF Next

LEMMA Invariance == Spec => []IInv
BY InitIInv, NextKeeps, PTL DEF Spec

\* The types, for any number of servers and logins.
THEOREM SessionTypes == Spec => []TypeOK
<1>1. IInv => TypeOK
  BY DEF IInv
<1> QED BY <1>1, Invariance, PTL

\* The mtime cache never makes a server act for somebody whose session was not
\* in the file during that very call.
THEOREM AlwaysActsAsLoggedIn == Spec => []ActsAsLoggedIn
<1>1. IInv => ActsAsLoggedIn
  BY DEF IInv
<1> QED BY <1>1, Invariance, PTL

\* Only a concurrent login or logout, or one killed half way, makes reading the
\* session fail with anything but an AuthError.
THEOREM ExceptionsAlwaysHaveCause == Spec => []ExceptionsHaveCause
<1>1. IInv => ExceptionsHaveCause
  BY DEF IInv
<1> QED BY <1>1, Invariance, PTL
=============================================================================
