----------------------- MODULE ConnectorSessionProofs -----------------------
(***************************************************************************)
(* Theorems about ConnectorSession, for any number of processes and        *)
(* logins.  What a call returns is right because it is read from the file  *)
(* and every state of the file is in the history of every running call;    *)
(* what it writes is a session it read or created (CallOK).  As long as    *)
(* calls do not overlap the one that runs finds the file as the last login *)
(* or logout left it, and puts back what it found (AloneInv).              *)
(***************************************************************************)
EXTENDS ConnectorSession, TLAPS

FileOK == status = "valid" => login # 0

CallOK(p) ==
  /\ pc[p] # "idle" => outcome[p] = "none" /\ login \in seen[p]
  /\ pc[p] \in {"refresh", "open", "write"} => mine[p] # 0

IInv == TypeOK /\ FileOK /\ TokensWereCurrent /\ \A p \in Procs : CallOK(p)

AloneInv ==
  ~overlapped =>
    /\ status = "valid" => login = current
    /\ \A p, q \in Procs : pc[p] # "idle" /\ pc[q] # "idle" => p = q
    /\ \A p \in Procs :
         /\ pc[p] = "browser" => call[p] = "login"
         /\ pc[p] = "refresh" => mine[p] = current
         /\ pc[p] \in {"open", "write"} /\ call[p] # "login" => mine[p] = current
         /\ pc[p] = "write" => linked[p]

----------------------------------------------------------------------------

LEMMA Zero == TypeOK => logins \in Nat /\ 0 \in 0..logins
<1> SUFFICES ASSUME TypeOK PROVE logins \in Nat
  OBVIOUS
<1> QED
  BY ConnectorAssumption DEF TypeOK

LEMMA InitIInv == Init => IInv /\ AloneInv
<1> SUFFICES ASSUME Init PROVE IInv /\ AloneInv
  OBVIOUS
<1>1. TypeOK
  <2>1. logins = 0 /\ 0 \in 0..logins /\ 0 \in 0..MaxLogins
    BY ConnectorAssumption DEF Init
  <2>2. /\ mine \in [Procs -> 0..logins] /\ seen \in [Procs -> SUBSET (0..logins)]
        /\ {login, current} \subseteq 0..logins
    BY <2>1 DEF Init
  <2>3. /\ call \in [Procs -> Calls] /\ outcome \in [Procs -> Outcomes]
        /\ linked \in [Procs -> BOOLEAN]
    BY DEF Init, Calls, Outcomes
  <2> QED
    BY <2>1, <2>2, <2>3 DEF Init, TypeOK
<1> QED
  BY <1>1 DEF Init, IInv, AloneInv, FileOK, CallOK, TokensWereCurrent

\* What is put into the file is seen by every call under way.
LEMMA Witnessed ==
  ASSUME TypeOK, NEW s, NEW n \in 0..logins, Replace(s, n)
  PROVE  /\ status' = s /\ login' = n
         /\ seen' \in [Procs -> SUBSET (0..logins)]
         /\ \A q \in Procs : seen[q] \subseteq seen'[q]
         /\ \A q \in Procs : pc[q] # "idle" => n \in seen'[q]
BY DEF TypeOK, Replace

\* A step of one process keeps IInv if it keeps what concerns that process and
\* shows the others every new state of the file.
LEMMA StepKeeps ==
  ASSUME IInv, NEW p \in Procs, TypeOK', FileOK',
         \A q \in Procs \ {p} :
           /\ pc'[q] = pc[q] /\ mine'[q] = mine[q] /\ outcome'[q] = outcome[q]
           /\ seen[q] \subseteq seen'[q]
           /\ pc[q] # "idle" => login' \in seen'[q],
         CallOK(p)',
         outcome'[p] = "token" => mine'[p] # 0 /\ mine'[p] \in seen'[p]
  PROVE  IInv'
<1>1. ASSUME NEW q \in Procs \ {p} PROVE CallOK(q)'
  BY DEF IInv, CallOK
<1>2. ASSUME NEW q \in Procs, outcome'[q] = "token"
      PROVE  mine'[q] # 0 /\ mine'[q] \in seen'[q]
  <2>1. CASE q = p
    BY <1>2, <2>1
  <2>2. CASE q # p
    BY <1>2, <2>2 DEF IInv, TokensWereCurrent
  <2> QED BY <2>1, <2>2
<1> QED
  BY <1>1, <1>2 DEF IInv, TokensWereCurrent

\* A step that leaves the file alone shows nothing new.
LEMMA QuietKeeps ==
  ASSUME IInv, NEW p \in Procs, TypeOK', UNCHANGED <<theFile, seen>>,
         \A q \in Procs \ {p} :
           pc'[q] = pc[q] /\ mine'[q] = mine[q] /\ outcome'[q] = outcome[q],
         CallOK(p)',
         outcome'[p] = "token" => mine'[p] # 0 /\ mine'[p] \in seen'[p]
  PROVE  IInv'
<1>1. FileOK'
  BY DEF IInv, FileOK, theFile
<1>2. \A q \in Procs \ {p} :
        /\ seen[q] \subseteq seen'[q]
        /\ pc[q] # "idle" => login' \in seen'[q]
  BY DEF IInv, CallOK, theFile
<1> QED
  BY <1>1, <1>2, StepKeeps

----------------------------------------------------------------------------

LEMMA StartKeeps == ASSUME IInv, NEW p \in Procs, Start(p) PROVE IInv'
<1>0. UNCHANGED <<theFile, logins, linked>>
  BY DEF Start
<1>1. TypeOK'
  <2>1. overlapped' \in BOOLEAN
    BY Zenon DEF Start
  <2>2. mine' \in [Procs -> 0..logins] /\ seen' \in [Procs -> SUBSET (0..logins)]
    BY Zero DEF IInv, TypeOK, Start, Hold
  <2>3. /\ pc' \in [Procs -> {"idle", "exists", "read", "refresh", "browser", "open",
                              "write", "reread", "unlink"}]
        /\ call' \in [Procs -> Calls] /\ outcome' \in [Procs -> Outcomes]
    BY DEF IInv, TypeOK, Start, Goto, Calls, Outcomes
  <2> QED
    BY <1>0, <2>1, <2>2, <2>3 DEF IInv, TypeOK, theFile
<1>2. \A q \in Procs \ {p} : /\ pc'[q] = pc[q] /\ mine'[q] = mine[q]
                             /\ outcome'[q] = outcome[q] /\ seen'[q] = seen[q]
  BY DEF IInv, TypeOK, Start, Goto, Hold
<1>3. /\ pc'[p] \in {"browser", "exists"}
      /\ outcome'[p] = "none" /\ seen'[p] = {login}
  BY DEF IInv, TypeOK, Start, Goto
<1>4. CallOK(p)'
  BY <1>0, <1>3 DEF CallOK, theFile
<1>5. \A q \in Procs \ {p} : pc[q] # "idle" => login' \in seen'[q]
  BY <1>0, <1>2 DEF IInv, CallOK, theFile
<1>6. FileOK'
  BY <1>0 DEF IInv, FileOK, theFile
<1> QED
  BY <1>1, <1>2, <1>3, <1>4, <1>5, <1>6, StepKeeps

LEMMA LookKeeps ==
  ASSUME IInv, NEW p \in Procs, Exists(p) \/ Refresh(p) \/ Kill(p)
  PROVE  IInv'
<1>0. UNCHANGED <<theFile, logins, mine, linked, seen, overlapped>> /\ pc[p] # "idle"
  BY DEF Exists, Refresh, Kill
<1>1. TypeOK'
  BY DEF IInv, TypeOK, Exists, Refresh, Kill, NotLoggedIn, Goto, Return, Calls,
         Outcomes, theFile
<1>2. \A q \in Procs \ {p} : pc'[q] = pc[q] /\ outcome'[q] = outcome[q]
  BY DEF IInv, TypeOK, Exists, Refresh, Kill, NotLoggedIn, Goto, Return
<1>3. \/ /\ pc'[p] \in {"unlink", "read", "browser"} /\ outcome'[p] = outcome[p]
      \/ pc'[p] = "open" /\ pc[p] = "refresh" /\ outcome'[p] = outcome[p]
      \/ pc'[p] = "idle" /\ outcome'[p] # "token"
  BY DEF IInv, TypeOK, Exists, Refresh, Kill, NotLoggedIn, Goto, Return
<1>4. CallOK(p)
  BY DEF IInv
<1>5. CallOK(p)' /\ outcome'[p] # "token"
  BY <1>0, <1>3, <1>4 DEF CallOK, theFile
<1> QED
  BY <1>0, <1>1, <1>2, <1>5, QuietKeeps

LEMMA ReadKeeps ==
  ASSUME IInv, NEW p \in Procs, Read(p) \/ Reread(p)
  PROVE  IInv'
<1>0. UNCHANGED <<theFile, logins, linked, seen, overlapped>> /\ pc[p] # "idle"
  BY DEF Read, Reread
<1>1. TypeOK'
  <2>1. mine' \in [Procs -> 0..logins]
    BY DEF IInv, TypeOK, Read, Reread, Broken, Hold
  <2>2. /\ pc' \in [Procs -> {"idle", "exists", "read", "refresh", "browser", "open",
                              "write", "reread", "unlink"}]
        /\ call' = call /\ outcome' \in [Procs -> Outcomes]
    BY DEF IInv, TypeOK, Read, Reread, Broken, Goto, Return, Outcomes
  <2> QED
    BY <1>0, <2>1, <2>2 DEF IInv, TypeOK, theFile
<1>2. \A q \in Procs \ {p} :
        pc'[q] = pc[q] /\ mine'[q] = mine[q] /\ outcome'[q] = outcome[q]
  BY DEF IInv, TypeOK, Read, Reread, Broken, Goto, Hold, Return
<1>3. \/ pc'[p] = "idle" /\ outcome'[p] = "exception"
      \/ /\ status = "valid" /\ mine'[p] = login
         /\ \/ pc'[p] = "idle" /\ outcome'[p] = "token"
            \/ pc'[p] = "refresh" /\ outcome'[p] = outcome[p]
  BY DEF IInv, TypeOK, Read, Reread, Broken, Goto, Hold, Return
<1>4. CallOK(p) /\ FileOK
  BY DEF IInv
<1>5. CallOK(p)'
  BY <1>0, <1>3, <1>4 DEF CallOK, FileOK, theFile
<1>6. outcome'[p] = "token" => mine'[p] # 0 /\ mine'[p] \in seen'[p]
  BY <1>0, <1>3, <1>4 DEF CallOK, FileOK, theFile
<1> QED
  BY <1>0, <1>1, <1>2, <1>5, <1>6, QuietKeeps

LEMMA BrowserKeeps == ASSUME IInv, NEW p \in Procs, Browser(p) PROVE IInv'
<1>0. /\ UNCHANGED <<theFile, call, linked, seen, overlapped>>
      /\ pc[p] = "browser" /\ logins \in Nat
  BY ConnectorAssumption DEF Browser, IInv, TypeOK
<1>1. TypeOK'
  <2>1. logins' \in 0..MaxLogins /\ logins <= logins'
    BY <1>0, ConnectorAssumption DEF IInv, TypeOK, Browser
  <2>2. 0..logins \subseteq 0..logins'
    BY <1>0, <2>1, ConnectorAssumption
  <2>3. mine' \in [Procs -> 0..logins']
    <3>1. mine \in [Procs -> 0..logins'] /\ (logins' = logins + 1 => logins + 1 \in 0..logins')
      BY <1>0, <2>2 DEF IInv, TypeOK
    <3> QED BY <3>1 DEF Browser, Hold
  <2>4. seen' \in [Procs -> SUBSET (0..logins')]
    BY <1>0, <2>2 DEF IInv, TypeOK
  <2>5. {login', current'} \subseteq 0..logins' /\ status' = status
    BY <1>0, <2>2 DEF IInv, TypeOK, theFile
  <2>6. /\ pc' \in [Procs -> {"idle", "exists", "read", "refresh", "browser", "open",
                              "write", "reread", "unlink"}]
        /\ outcome' \in [Procs -> Outcomes]
    BY DEF IInv, TypeOK, Browser, Goto, Return, Outcomes
  <2> QED
    BY <1>0, <2>1, <2>3, <2>4, <2>5, <2>6 DEF IInv, TypeOK
<1>2. \A q \in Procs \ {p} :
        pc'[q] = pc[q] /\ mine'[q] = mine[q] /\ outcome'[q] = outcome[q]
  BY DEF IInv, TypeOK, Browser, Goto, Hold, Return
<1>3. \/ pc'[p] = "open" /\ mine'[p] = logins + 1 /\ outcome'[p] = outcome[p]
      \/ pc'[p] = "idle" /\ outcome'[p] = "AuthError"
  BY DEF IInv, TypeOK, Browser, Goto, Hold, Return
<1>4. CallOK(p)
  BY DEF IInv
<1>5. CallOK(p)' /\ outcome'[p] # "token"
  BY <1>0, <1>3, <1>4 DEF CallOK, theFile
<1> QED
  BY <1>0, <1>1, <1>2, <1>5, QuietKeeps

\* The three writers of the file.
LEMMA FileStepKeeps ==
  ASSUME IInv, NEW p \in Procs, NEW s \in {"missing", "empty", "garbled", "valid"},
         NEW n \in 0..logins, Replace(s, n), s = "valid" => n # 0,
         pc[p] # "idle", TypeOK',
         \A q \in Procs \ {p} :
           pc'[q] = pc[q] /\ mine'[q] = mine[q] /\ outcome'[q] = outcome[q],
         mine'[p] = mine[p], outcome'[p] # "token",
         pc'[p] # "idle" => outcome'[p] = outcome[p],
         pc'[p] \in {"refresh", "open", "write"} =>
           pc[p] \in {"refresh", "open", "write"}
  PROVE  IInv'
<1>1. /\ status' = s /\ login' = n
      /\ \A q \in Procs : seen[q] \subseteq seen'[q]
      /\ \A q \in Procs : pc[q] # "idle" => n \in seen'[q]
  BY Witnessed DEF IInv
<1>2. FileOK'
  BY <1>1 DEF FileOK
<1>3. CallOK(p)'
  BY <1>1 DEF IInv, CallOK
<1> QED
  BY <1>1, <1>2, <1>3, StepKeeps

LEMMA OpenKeeps == ASSUME IInv, NEW p \in Procs, Open(p) PROVE IInv'
<1>0. /\ Replace("empty", 0) /\ 0 \in 0..logins /\ pc[p] = "open"
      /\ UNCHANGED <<logins, call, mine, outcome, current, overlapped>>
  BY ConnectorAssumption DEF Open, IInv, TypeOK
<1>1. /\ status' = "empty" /\ login' = 0 /\ seen' \in [Procs -> SUBSET (0..logins)]
  BY <1>0, Witnessed DEF IInv
<1>2. TypeOK'
  BY <1>0, <1>1 DEF IInv, TypeOK, Open, Goto
<1>3. /\ pc'[p] = "write" /\ \A q \in Procs \ {p} : pc'[q] = pc[q]
  BY DEF IInv, TypeOK, Open, Goto
<1>4. outcome[p] = "none"
  BY <1>0 DEF IInv, CallOK
<1> QED
  BY <1>0, <1>2, <1>3, <1>4, FileStepKeeps

LEMMA WriteKeeps == ASSUME IInv, NEW p \in Procs, Write(p) PROVE IInv'
<1>0. /\ pc[p] = "write" /\ UNCHANGED <<logins, call, mine, linked, overlapped>>
      /\ mine[p] \in 0..logins /\ mine[p] # 0 /\ 0 \in 0..logins
  <2>1. pc[p] = "write" /\ UNCHANGED <<logins, call, mine, linked, overlapped>>
    BY DEF Write
  <2>2. mine[p] \in 0..logins /\ mine[p] # 0
    BY <2>1 DEF IInv, TypeOK, CallOK
  <2> QED
    BY <2>1, <2>2, Zero DEF IInv
<1>1. /\ \A q \in Procs \ {p} : pc'[q] = pc[q] /\ outcome'[q] = outcome[q]
      /\ \/ pc'[p] = "idle" /\ outcome'[p] = "logged in"
         \/ pc'[p] = "reread" /\ outcome'[p] = outcome[p]
      /\ pc' \in [Procs -> {"idle", "exists", "read", "refresh", "browser", "open",
                            "write", "reread", "unlink"}]
      /\ outcome' \in [Procs -> Outcomes]
      /\ current' \in {mine[p], current}
  BY DEF IInv, TypeOK, Write, Goto, Return, Outcomes
<1>2. CallOK(p) /\ outcome[p] = "none" /\ outcome'[p] # "token"
  BY <1>0, <1>1 DEF IInv, CallOK
<1>3. ASSUME NEW s \in {"missing", "empty", "garbled", "valid"}, NEW n \in 0..logins,
             Replace(s, n), s = "valid" => n # 0
      PROVE  IInv'
  <2>1. status' = s /\ login' = n /\ seen' \in [Procs -> SUBSET (0..logins)]
    BY <1>3, Witnessed DEF IInv
  <2>2. TypeOK'
    BY <1>0, <1>1, <2>1 DEF IInv, TypeOK
  <2> QED
    BY <1>0, <1>1, <1>2, <1>3, <2>2, FileStepKeeps
<1>4. CASE UNCHANGED <<status, login, seen>>
  <2>1. TypeOK'
    BY <1>0, <1>1, <1>4 DEF IInv, TypeOK
  <2>2. CallOK(p)'
    BY <1>0, <1>1, <1>2, <1>4 DEF CallOK
  <2>3. FileOK' /\ \A q \in Procs \ {p} : pc[q] # "idle" => login' \in seen'[q]
    BY <1>4 DEF IInv, FileOK, CallOK
  <2> QED
    BY <1>0, <1>1, <1>2, <1>4, <2>1, <2>2, <2>3, StepKeeps
<1> QED
  BY <1>0, <1>3, <1>4 DEF Write

LEMMA UnlinkKeeps == ASSUME IInv, NEW p \in Procs, Unlink(p) PROVE IInv'
<1>0. /\ pc[p] = "unlink" /\ UNCHANGED <<logins, call, mine, overlapped>>
      /\ 0 \in 0..logins
  BY Zero DEF Unlink, IInv
<1>1. /\ \A q \in Procs \ {p} : pc'[q] = pc[q] /\ outcome'[q] = outcome[q]
      /\ pc'[p] = "idle" /\ outcome'[p] \in {"exception", "logged out"}
      /\ pc' \in [Procs -> {"idle", "exists", "read", "refresh", "browser", "open",
                            "write", "reread", "unlink"}]
      /\ outcome' \in [Procs -> Outcomes]
      /\ linked' \in [Procs -> BOOLEAN]
      /\ current' \in {0, current}
  BY DEF IInv, TypeOK, Unlink, Goto, Return, Outcomes, theFile
<1>2. CASE Replace("missing", 0)
  <2>1. status' = "missing" /\ login' = 0 /\ seen' \in [Procs -> SUBSET (0..logins)]
    BY <1>0, <1>2, Witnessed DEF IInv
  <2>2. TypeOK'
    BY <1>0, <1>1, <2>1 DEF IInv, TypeOK
  <2> QED
    BY <1>0, <1>1, <1>2, <2>2, FileStepKeeps
<1>3. CASE UNCHANGED <<theFile, linked, seen>>
  <2>1. TypeOK'
    BY <1>0, <1>1, <1>3 DEF IInv, TypeOK, theFile
  <2>2. CallOK(p)'
    BY <1>1 DEF CallOK
  <2> QED
    BY <1>0, <1>1, <1>3, <2>1, <2>2, QuietKeeps
<1> QED
  BY <1>2, <1>3 DEF Unlink

LEMMA NextKeeps == IInv /\ [Next]_vars => IInv'
<1> SUFFICES ASSUME IInv, [Next]_vars PROVE IInv'
  OBVIOUS
<1>1. CASE UNCHANGED vars
  BY <1>1 DEF vars, IInv, TypeOK, FileOK, TokensWereCurrent, CallOK
<1> QED
  BY <1>1, StartKeeps, LookKeeps, ReadKeeps, BrowserKeeps, OpenKeeps, WriteKeeps,
     UnlinkKeeps DEF Next

LEMMA Invariance == Spec => []IInv
BY InitIInv, NextKeeps, PTL DEF Spec

----------------------------------------------------------------------------

\* One process at a time: what each action does to the only call there is.
LEMMA AloneKeeps == IInv /\ AloneInv /\ [Next]_vars => AloneInv'
<1> SUFFICES ASSUME IInv, AloneInv, [Next]_vars, ~overlapped' PROVE AloneInv'
  BY DEF AloneInv
<1>1. CASE UNCHANGED vars
  BY <1>1 DEF vars, AloneInv
<1>2. ASSUME NEW p \in Procs, Start(p) PROVE AloneInv'
  <2>1. ~overlapped /\ \A q \in Procs : pc[q] = "idle"
    BY <1>2 DEF Start, IInv, TypeOK
  <2>2. \A q \in Procs \ {p} : pc'[q] = "idle"
    BY <1>2, <2>1 DEF Start, Goto, IInv, TypeOK
  <2>3. \/ pc'[p] = "browser" /\ call'[p] = "login"
        \/ pc'[p] = "exists"
    BY <1>2 DEF Start, Goto, IInv, TypeOK
  <2>4. status' = status /\ login' = login /\ current' = current
    BY <1>2 DEF Start, theFile
  <2> QED
    BY <2>1, <2>2, <2>3, <2>4 DEF AloneInv
<1>3. ASSUME NEW p \in Procs,
             \/ Exists(p) \/ Refresh(p) \/ Kill(p) \/ Read(p) \/ Reread(p)
             \/ Browser(p) \/ Open(p) \/ Write(p) \/ Unlink(p)
      PROVE  AloneInv'
  <2>0. overlapped' = overlapped
    BY <1>3 DEF Exists, Refresh, Kill, Read, Reread, Browser, Open, Write, Unlink
  <2>1. pc[p] # "idle" /\ ~overlapped
    BY <1>3, <2>0 DEF Exists, Refresh, Kill, Read, Reread, Browser, Open, Write, Unlink
  <2>2. \A q \in Procs \ {p} : pc[q] = "idle"
    BY <2>1 DEF AloneInv
  <2>3. \A q \in Procs \ {p} : pc'[q] = "idle"
    BY <1>3, <2>2 DEF Exists, Refresh, Kill, Read, Reread, Browser, Open, Write,
       Unlink, NotLoggedIn, Broken, Goto, Return, IInv, TypeOK
  <2>4. SUFFICES /\ status' = "valid" => login' = current'
                 /\ pc'[p] = "browser" => call'[p] = "login"
                 /\ pc'[p] = "refresh" => mine'[p] = current'
                 /\ pc'[p] \in {"open", "write"} /\ call'[p] # "login" => mine'[p] = current'
                 /\ pc'[p] = "write" => linked'[p]
    BY <2>3 DEF AloneInv
  <2>5. /\ status = "valid" => login = current
        /\ pc[p] = "browser" => call[p] = "login"
        /\ pc[p] = "refresh" => mine[p] = current
        /\ pc[p] \in {"open", "write"} /\ call[p] # "login" => mine[p] = current
        /\ pc[p] = "write" => linked[p]
    BY <2>1 DEF AloneInv
  <2>6. CASE Exists(p) \/ Refresh(p) \/ Kill(p)
    BY <2>5, <2>6 DEF Exists, Refresh, Kill, NotLoggedIn, Goto, Return, theFile,
       IInv, TypeOK
  <2>7. CASE Read(p) \/ Reread(p)
    BY <2>5, <2>7 DEF Read, Reread, Broken, Goto, Hold, Return, theFile, IInv, TypeOK
  <2>8. CASE Browser(p)
    BY <2>5, <2>8 DEF Browser, Goto, Hold, Return, theFile, IInv, TypeOK
  <2>9. CASE Open(p)
    BY <2>5, <2>9 DEF Open, Replace, Goto, IInv, TypeOK
  <2>10. CASE Write(p)
    BY <2>5, <2>10 DEF Write, Replace, Goto, Return, IInv, TypeOK
  <2>11. CASE Unlink(p)
    BY <2>5, <2>11 DEF Unlink, Replace, Goto, Return, theFile, IInv, TypeOK
  <2> QED
    BY <1>3, <2>6, <2>7, <2>8, <2>9, <2>10, <2>11
<1> QED
  BY <1>1, <1>2, <1>3 DEF Next

LEMMA AloneInvariance == Spec => []AloneInv
<1>1. Init => AloneInv
  BY InitIInv
<1> QED
  BY <1>1, AloneKeeps, Invariance, PTL DEF Spec

----------------------------------------------------------------------------

\* The types, for any number of processes and logins.
THEOREM ConnectorTypes == Spec => []TypeOK
<1>1. IInv => TypeOK
  BY DEF IInv
<1> QED BY <1>1, Invariance, PTL

\* access_token() never returns a token of a session that was not in the file
\* during the call, whoever logs in, logs out, refreshes or is killed meanwhile.
THEOREM TokensAlwaysCurrent == Spec => []TokensWereCurrent
<1>1. IInv => TokensWereCurrent
  BY DEF IInv
<1> QED BY <1>1, Invariance, PTL

\* Processes that do not overlap never undo a login or a logout.
THEOREM LastLoginStandsAlone == Spec => []LastLoginStands
<1>1. AloneInv => LastLoginStands
  BY DEF AloneInv, LastLoginStands
<1> QED BY <1>1, AloneInvariance, PTL

\* No hook and no login tool gets past a session file left broken.
THEOREM OnlyLoginsEverMend == Spec => OnlyLoginsMend
<1>1. TypeOK /\ [Next]_vars =>
        [Stuck => \/ Stuck'
                  \/ status' = "missing"
                  \/ \E p \in Procs : pc[p] = "idle" /\ call'[p] = "login"]_vars
  <2> SUFFICES ASSUME TypeOK, Next, Stuck, status' # "missing",
                      \A p \in Procs : pc[p] = "idle" => call'[p] # "login"
               PROVE  Stuck'
    BY DEF Stuck, vars
  <2>1. PICK p \in Procs : \/ Start(p) \/ Exists(p) \/ Read(p) \/ Refresh(p)
                           \/ Browser(p) \/ Open(p) \/ Write(p) \/ Reread(p)
                           \/ Unlink(p) \/ Kill(p)
    BY DEF Next
  <2>2. pc[p] \in {"idle", "exists", "read", "unlink"} /\ status \in {"empty", "garbled"}
    BY DEF Stuck
  <2>3. /\ status' = status /\ \A q \in Procs \ {p} : pc'[q] = pc[q]
        /\ pc'[p] \in {"idle", "exists", "read", "unlink"}
    BY <2>1, <2>2 DEF TypeOK, Start, Exists, Read, Refresh, Browser, Open, Write,
       Reread, Unlink, Kill, Replace, NotLoggedIn, Broken, Goto, Hold, Return, theFile
  <2> QED
    BY <2>2, <2>3 DEF Stuck
<1>2. IInv => TypeOK
  BY DEF IInv
<1> QED
  BY <1>1, <1>2, Invariance, PTL DEF Spec, OnlyLoginsMend
=============================================================================
