----------------------- MODULE AgentCredentialsProofs -----------------------
(***************************************************************************)
(* Theorems about AgentCredentials, for every set of processes, products   *)
(* and credentials.                                                        *)
(*                                                                         *)
(* A file is as sound as the copies processes write into it, and a copy as *)
(* sound as the file it was read from, so soundness is an invariant of all *)
(* of them together with what each place of a call knows.                  *)
(***************************************************************************)
EXTENDS AgentCredentials, TLAPS

\* Every entry belongs to its product, its token to its credential.
Sound(f) ==
  \A a \in Agents : f[a] # None =>
    f[a].cred \in CredsOf[a] /\ f[a].token \in {None, f[a].cred}

Copied == {"request", "open", "write"}

CallOK(p) ==
  /\ pc[p] # "idle" => /\ call[p] \in Calls
                       /\ call[p].op = "store" => call[p].cred \in CredsOf[call[p].agent]
  /\ pc[p] = "request" => call[p].op = "token"
  /\ pc[p] \in Copied => data[p][call[p].agent] \in Entries
  /\ result[p] \in Creds => result[p] \in CredsOf[call[p].agent]

IInv ==
  /\ TypeOK
  /\ Sound(file)
  /\ \A p \in Procs : Sound(data[p]) /\ CallOK(p)

----------------------------------------------------------------------------

LEMMA NoFileSound == NoFile \in Files /\ Sound(NoFile)
BY DEF NoFile, Files, Sound

\* Putting a sound entry of a product into a sound file.
LEMMA WithSound ==
  ASSUME NEW d \in Files, Sound(d), NEW a \in Agents, NEW e \in Entries,
         e.cred \in CredsOf[a], e.token \in {None, e.cred}
  PROVE  With(d, a, e) \in Files /\ Sound(With(d, a, e)) /\ With(d, a, e)[a] = e
BY DEF With, Files, Sound

LEMMA CredsOfProduct ==
  ASSUME NEW a \in Agents, NEW c \in CredsOf[a]
  PROVE  c \in Creds /\ Fresh(c) \in Entries /\ Fresh(c).cred = c /\ Fresh(c).token = None
BY CredentialsAssumption DEF Fresh, Entries

\* A sound entry that is there.
LEMMA EntrySound ==
  ASSUME NEW d \in Files, Sound(d), NEW a \in Agents, d[a] \in Entries
  PROVE  /\ d[a] # None
         /\ d[a].cred \in CredsOf[a] /\ d[a].cred \in Creds
         /\ d[a].token \in {None, d[a].cred}
BY CredentialsAssumption DEF Sound, Entries

\* Whoever is not the process that moves knows what it knew.
LEMMA OthersKeep ==
  ASSUME NEW p \in Procs, CallOK(p), Sound(data[p]),
         pc'[p] = pc[p], call'[p] = call[p], data'[p] = data[p], result'[p] = result[p]
  PROVE  CallOK(p)' /\ Sound(data[p])'
BY DEF CallOK, Sound

----------------------------------------------------------------------------

LEMMA InitIInv == Init => IInv
<1> SUFFICES ASSUME Init PROVE IInv
  OBVIOUS
<1>1. TypeOK
  BY NoFileSound DEF Init, TypeOK, Statuses, Results
<1>2. Sound(file) /\ \A p \in Procs : Sound(data[p])
  BY NoFileSound DEF Init
<1>3. \A p \in Procs : CallOK(p)
  BY CredentialsAssumption DEF Init, CallOK, Copied
<1> QED
  BY <1>1, <1>2, <1>3 DEF IInv

(* One lemma per action.                                                   *)

LEMMA StartKeeps == ASSUME IInv, NEW p \in Procs, Start(p) PROVE IInv'
<1> USE DEF IInv
<1>1. PICK k \in Calls : /\ call' = [call EXCEPT ![p] = k]
                         /\ k.op = "store" => k.cred \in CredsOf[k.agent]
  <2>1. PICK b \in Agents :
          \/ call' = [call EXCEPT ![p] = [op |-> "token", agent |-> b, cred |-> None]]
          \/ \E c \in CredsOf[b] :
               call' = [call EXCEPT ![p] = [op |-> "store", agent |-> b, cred |-> c]]
    BY DEF Start
  <2>2. CASE call' = [call EXCEPT ![p] = [op |-> "token", agent |-> b, cred |-> None]]
    <3>1. [op |-> "token", agent |-> b, cred |-> None] \in Calls
      BY DEF Calls
    <3> QED BY <2>2, <3>1
  <2>3. ASSUME NEW c \in CredsOf[b],
               call' = [call EXCEPT ![p] = [op |-> "store", agent |-> b, cred |-> c]]
        PROVE  \E k \in Calls : /\ call' = [call EXCEPT ![p] = k]
                                /\ k.op = "store" => k.cred \in CredsOf[k.agent]
    <3>1. [op |-> "store", agent |-> b, cred |-> c] \in Calls
      BY CredsOfProduct DEF Calls
    <3> QED BY <2>3, <3>1
  <2> QED BY <2>1, <2>2, <2>3
<1>2. /\ pc' = [pc EXCEPT ![p] = "read"] /\ result' = [result EXCEPT ![p] = None]
      /\ UNCHANGED <<status, file, data, installed>>
      /\ overlapped' = (overlapped \/ \E q \in Procs : pc[q] # "idle")
  BY DEF Start, Goto
<1>3. TypeOK'
  BY <1>1, <1>2 DEF TypeOK, Results
<1>4. Sound(file)'
  BY <1>2 DEF Sound
<1>5. ASSUME NEW q \in Procs PROVE Sound(data[q])' /\ CallOK(q)'
  <2>1. CASE q = p
    BY <1>1, <1>2, <2>1, CredentialsAssumption DEF Sound, CallOK, TypeOK, Copied
  <2>2. CASE q # p
    BY <1>1, <1>2, <2>2, OthersKeep DEF TypeOK
  <2> QED BY <2>1, <2>2
<1> QED BY <1>3, <1>4, <1>5

\* A step that ends the call of p without touching the file.
LEMMA ReturnKeeps ==
  ASSUME IInv, NEW p \in Procs, pc[p] # "idle", NEW r \in Results, Return(p, r),
         r \in Creds => r \in CredsOf[call[p].agent],
         data' = data \/ Forget(p),
         UNCHANGED <<status, file, call, installed, overlapped>>
  PROVE  IInv'
<1> USE DEF IInv
<1>1. pc' = [pc EXCEPT ![p] = "idle"] /\ result' = [result EXCEPT ![p] = r]
  BY DEF Return, Goto
<1>2. /\ data' \in [Procs -> Files]
      /\ \A q \in Procs : Sound(data'[q])
      /\ \A q \in Procs \ {p} : data'[q] = data[q]
  BY NoFileSound DEF Forget, TypeOK
<1>3. TypeOK'
  BY <1>1, <1>2 DEF TypeOK
<1>4. Sound(file)'
  BY DEF Sound
<1>5. ASSUME NEW q \in Procs PROVE CallOK(q)'
  <2>1. CASE q = p
    BY <1>1, <2>1 DEF CallOK, TypeOK, Copied
  <2>2. CASE q # p
    BY <1>1, <1>2, <2>2, OthersKeep DEF TypeOK
  <2> QED BY <2>1, <2>2
<1>6. \A q \in Procs : Sound(data[q])'
  BY <1>2 DEF Sound
<1> QED BY <1>3, <1>4, <1>5, <1>6

\* A step that gives p a copy and leads to l, or lets it go on with one.
LEMMA CopyKeeps ==
  ASSUME IInv, NEW p \in Procs, pc[p] # "idle",
         NEW d \in Files, Sound(d), d[call[p].agent] \in Entries,
         NEW l \in {"request", "open"}, l = "request" => call[p].op = "token",
         data' = [data EXCEPT ![p] = d], Goto(p, l),
         UNCHANGED <<status, file, call, result, installed, overlapped>>
  PROVE  IInv'
<1> USE DEF IInv
<1>1. TypeOK'
  BY DEF TypeOK, Goto
<1>2. Sound(file)'
  BY DEF Sound
<1>3. ASSUME NEW q \in Procs PROVE Sound(data[q])' /\ CallOK(q)'
  <2>1. CASE q = p
    <3>1. data'[p] = d /\ pc'[p] = l
      BY DEF TypeOK, Goto
    <3>2. Sound(data[q])'
      BY <2>1, <3>1 DEF Sound
    <3> QED
      BY <2>1, <3>1, <3>2 DEF CallOK, Copied
  <2>2. CASE q # p
    BY <2>2, OthersKeep DEF TypeOK, Goto
  <2> QED BY <2>1, <2>2
<1> QED BY <1>1, <1>2, <1>3

LEMMA ReadBrokenKeeps == ASSUME IInv, NEW p \in Procs, ReadBroken(p) PROVE IInv'
<1>1. pc[p] # "idle" /\ Return(p, "JSONDecodeError")
      /\ UNCHANGED <<status, file, call, data, installed, overlapped>>
  BY DEF ReadBroken
<1>2. "JSONDecodeError" \in Results /\ "JSONDecodeError" \notin Creds
  BY CredentialsAssumption DEF Results, Outcomes
<1> QED BY <1>1, <1>2, ReturnKeeps

LEMMA ReadToStoreKeeps == ASSUME IInv, NEW p \in Procs, ReadToStore(p) PROVE IInv'
<1> DEFINE a == call[p].agent
           d == With(file, a, Fresh(call[p].cred))
<1>1. a \in Agents /\ call[p].cred \in CredsOf[a] /\ pc[p] # "idle"
  BY DEF IInv, CallOK, ReadToStore, Calls
<1>2. d \in Files /\ Sound(d) /\ d[a] \in Entries
  BY <1>1, CredsOfProduct, WithSound DEF IInv, TypeOK
<1>3. /\ data' = [data EXCEPT ![p] = d] /\ Goto(p, "open")
      /\ UNCHANGED <<status, file, call, result, installed, overlapped>>
  BY DEF ReadToStore
<1> HIDE DEF d
<1> QED BY <1>1, <1>2, <1>3, CopyKeeps

LEMMA ReadForTokenKeeps == ASSUME IInv, NEW p \in Procs, ReadForToken(p) PROVE IInv'
<1> DEFINE a == call[p].agent
<1>1. /\ a \in Agents /\ pc[p] # "idle" /\ call[p].op = "token"
      /\ file \in Files /\ Sound(file)
      /\ UNCHANGED <<status, file, call, installed, overlapped>>
  BY DEF IInv, TypeOK, CallOK, ReadForToken, Calls
<1>2. CASE file[a] = None /\ Return(p, "AuthError") /\ UNCHANGED data
  <2>1. "AuthError" \in Results /\ "AuthError" \notin Creds
    BY CredentialsAssumption DEF Results, Outcomes
  <2> QED BY <1>1, <1>2, <2>1, ReturnKeeps
<1>3. CASE file[a] # None /\ file[a].token # None /\ Return(p, file[a].token) /\ UNCHANGED data
  <2>1. file[a].token \in CredsOf[a] /\ file[a].token \in Results
    BY <1>1, <1>3, CredsOfProduct DEF Sound, Results
  <2> QED BY <1>1, <1>3, <2>1, ReturnKeeps
<1>4. CASE /\ file[a] # None /\ data' = [data EXCEPT ![p] = file]
           /\ Goto(p, "request") /\ UNCHANGED result
  <2>1. file[a] \in Entries
    BY <1>1, <1>4 DEF Files
  <2> QED BY <1>1, <1>4, <2>1, CopyKeeps
<1> QED BY <1>2, <1>3, <1>4 DEF ReadForToken

LEMMA RequestKeeps == ASSUME IInv, NEW p \in Procs, Request(p) PROVE IInv'
<1> DEFINE a == call[p].agent
           e == [data[p][a] EXCEPT !.token = data[p][a].cred]
           d == With(data[p], a, e)
<1>1. /\ a \in Agents /\ pc[p] # "idle"
      /\ data[p] \in Files /\ Sound(data[p]) /\ data[p][a] \in Entries
      /\ UNCHANGED <<status, file, call, installed, overlapped>>
  BY DEF IInv, TypeOK, CallOK, Request, Calls, Copied
<1>2. CASE data' = [data EXCEPT ![p] = d] /\ Goto(p, "open") /\ UNCHANGED result
  <2>1. data[p][a].cred \in CredsOf[a] /\ data[p][a].cred \in Creds
    BY <1>1, EntrySound
  <2>2. e \in Entries /\ e.cred = data[p][a].cred /\ e.token = e.cred
    BY <1>1, <2>1 DEF Entries
  <2>3. d \in Files /\ Sound(d) /\ d[a] \in Entries
    BY <1>1, <2>1, <2>2, WithSound
  <2> HIDE DEF d
  <2> QED BY <1>1, <1>2, <2>3, CopyKeeps
<1>3. CASE Return(p, "AuthError") /\ Forget(p)
  <2>1. "AuthError" \in Results /\ "AuthError" \notin Creds
    BY CredentialsAssumption DEF Results, Outcomes
  <2> QED BY <1>1, <1>3, <2>1, ReturnKeeps
<1> QED BY <1>2, <1>3 DEF Request

LEMMA OpenKeeps == ASSUME IInv, NEW p \in Procs, Open(p) PROVE IInv'
<1> USE DEF IInv
<1>1. /\ pc[p] = "open" /\ pc' = [pc EXCEPT ![p] = "write"]
      /\ status' = "empty" /\ file' = NoFile
      /\ UNCHANGED <<call, data, result, installed, overlapped>>
  BY DEF Open, Goto
<1>2. TypeOK'
  BY <1>1, NoFileSound DEF TypeOK, Statuses
<1>3. Sound(file)'
  BY <1>1, NoFileSound DEF Sound
<1>4. ASSUME NEW q \in Procs PROVE Sound(data[q])' /\ CallOK(q)'
  <2>1. CASE q = p
    BY <1>1, <2>1 DEF CallOK, Sound, TypeOK, Copied
  <2>2. CASE q # p
    BY <1>1, <2>2, OthersKeep DEF TypeOK
  <2> QED BY <2>1, <2>2
<1> QED BY <1>2, <1>3, <1>4

LEMMA WriteKeeps == ASSUME IInv, NEW p \in Procs, Write(p) PROVE IInv'
<1> USE DEF IInv
<1> DEFINE a == call[p].agent
<1>1. /\ a \in Agents /\ call[p] \in Calls /\ pc[p] = "write"
      /\ data[p] \in Files /\ Sound(data[p]) /\ data[p][a] \in Entries
  BY DEF TypeOK, CallOK, Write, Calls, Copied
<1>2. status' \in Statuses /\ file' \in Files /\ Sound(file')
  BY <1>1, NoFileSound DEF Write, Statuses
<1>3. PICK r \in Results : /\ Return(p, r)
                           /\ r \in Creds => r \in CredsOf[a]
  <2>1. "stored" \in Results /\ "stored" \notin Creds
    BY CredentialsAssumption DEF Results, Outcomes
  <2>2. data[p][a].token \in Results
        /\ (data[p][a].token \in Creds => data[p][a].token \in CredsOf[a])
    BY <1>1, EntrySound, CredentialsAssumption DEF Results
  <2> QED BY <2>1, <2>2 DEF Write
<1>4. installed' \in [Agents -> Creds \cup {None}]
  BY <1>1 DEF Write, TypeOK, Calls
<1>5. /\ pc' = [pc EXCEPT ![p] = "idle"] /\ result' = [result EXCEPT ![p] = r]
      /\ data' = [data EXCEPT ![p] = NoFile] /\ UNCHANGED <<call, overlapped>>
  BY <1>3 DEF Write, Return, Goto, Forget
<1>6. TypeOK'
  BY <1>2, <1>4, <1>5, NoFileSound DEF TypeOK
<1>7. ASSUME NEW q \in Procs PROVE Sound(data[q])' /\ CallOK(q)'
  <2>1. CASE q = p
    BY <1>3, <1>5, <2>1, NoFileSound DEF CallOK, Sound, TypeOK, Copied
  <2>2. CASE q # p
    BY <1>5, <2>2, OthersKeep DEF TypeOK
  <2> QED BY <2>1, <2>2
<1>8. Sound(file)'
  BY <1>2 DEF Sound
<1> QED BY <1>6, <1>7, <1>8

LEMMA KillKeeps == ASSUME IInv, NEW p \in Procs, Kill(p) PROVE IInv'
<1>1. /\ pc[p] # "idle" /\ Return(p, None) /\ Forget(p)
      /\ UNCHANGED <<status, file, call, installed, overlapped>>
  BY DEF Kill
<1>2. None \in Results /\ None \notin Creds
  BY CredentialsAssumption DEF Results
<1> QED BY <1>1, <1>2, ReturnKeeps

LEMMA NextKeeps == IInv /\ [Next]_vars => IInv'
<1> SUFFICES ASSUME IInv, [Next]_vars PROVE IInv'
  OBVIOUS
<1>1. ASSUME NEW p \in Procs, Start(p) \/ Step(p) \/ Kill(p) PROVE IInv'
  BY <1>1, StartKeeps, ReadBrokenKeeps, ReadToStoreKeeps, ReadForTokenKeeps,
     RequestKeeps, OpenKeeps, WriteKeeps, KillKeeps DEF Step
<1>2. CASE UNCHANGED vars
  BY <1>2 DEF vars, IInv, TypeOK, Sound, CallOK
<1> QED
  BY <1>1, <1>2 DEF Next

----------------------------------------------------------------------------
(* The theorems.                                                           *)

\* The inductive invariant holds throughout.
THEOREM Invariance == Spec => []IInv
BY InitIInv, NextKeeps, PTL DEF Spec

\* The file, each process's copy and call, and what calls return keep their
\* types, whatever processes overwrite each other.
THEOREM CredentialTypes == Spec => []TypeOK
<1>1. IInv => TypeOK
  BY DEF IInv
<1> QED BY <1>1, Invariance, PTL

\* No product is ever given another's token, and a cached token belongs to the
\* credential beside it, for any number of unsynchronised processes.
THEOREM TokensNeverMixed == Spec => []TokensStayWithTheirCredential
<1>1. IInv => TokensStayWithTheirCredential
  BY DEF IInv, Sound, CallOK, TokensStayWithTheirCredential
<1> QED BY <1>1, Invariance, PTL

\* Once the file is broken and no process holds a copy, the program itself
\* never repairs it.
THEOREM NeverRepaired == Spec => StuckForGood
<1>1. TypeOK /\ [Next]_vars => (Stuck => Stuck')
  <2> SUFFICES ASSUME TypeOK, [Next]_vars, Stuck PROVE Stuck'
    OBVIOUS
  <2>1. ASSUME NEW p \in Procs, Start(p) \/ Step(p) \/ Kill(p)
        PROVE  status' = status /\ pc' \in [Procs -> {"idle", "read"}]
    <3>1. pc \in [Procs -> {"idle", "read"}]
      BY DEF Stuck, TypeOK
    <3>2. ~ReadToStore(p) /\ ~ReadForToken(p) /\ ~Request(p) /\ ~Open(p) /\ ~Write(p)
      BY DEF Stuck, ReadToStore, ReadForToken, Request, Open, Write
    <3>3. Start(p) \/ ReadBroken(p) \/ Kill(p)
      BY <2>1, <3>2 DEF Step
    <3> QED
      BY <3>1, <3>3 DEF Start, ReadBroken, Kill, Return, Goto
  <2>2. CASE UNCHANGED vars
    BY <2>2 DEF vars, Stuck
  <2>3. CASE Next
    <3>1. status' = status /\ pc' \in [Procs -> {"idle", "read"}]
      BY <2>1, <2>3 DEF Next
    <3> QED BY <3>1 DEF Stuck
  <2> QED BY <2>2, <2>3
<1> QED
  BY <1>1, CredentialTypes, PTL DEF Spec, StuckForGood

----------------------------------------------------------------------------
(* Until calls overlap: what was installed last is what the file holds.    *)
(* A copy lags behind the file in nothing but the entry its own call sets. *)

Holds(f, b) ==
  installed[b] # None => f[b] # None /\ f[b].cred = installed[b]

Stands == status = "valid" => \A b \in Agents : Holds(file, b)

CopyUpToDate(p) ==
  /\ pc[p] \in Copied =>
       \A b \in Agents : call[p].op = "token" \/ b # call[p].agent => Holds(data[p], b)
  /\ pc[p] \in {"open", "write"} /\ call[p].op = "store" =>
       data[p][call[p].agent].cred = call[p].cred
  /\ pc[p] = "write" => status = "empty"

Alone(p) == \A q \in Procs : q # p => pc[q] = "idle"

AloneInv ==
  ~overlapped =>
    /\ Stands
    /\ \A p \in Procs : CopyUpToDate(p) /\ (pc[p] # "idle" => Alone(p))

\* Changing the token of an entry, or another product's entry, changes nothing.
LEMMA HoldsWith ==
  ASSUME NEW d \in Files, NEW a \in Agents, NEW e \in Entries, NEW b \in Agents,
         Holds(d, b), b = a => e.cred = d[b].cred
  PROVE  Holds(With(d, a, e), b)
BY CredentialsAssumption DEF Holds, With, Files

LEMMA AloneStep ==
  ASSUME IInv, Stands, NEW p \in Procs, CopyUpToDate(p),
         Start(p) \/ Step(p) \/ Kill(p)
  PROVE  Stands' /\ CopyUpToDate(p)'
<1> DEFINE a == call[p].agent
<1>a. TypeOK /\ CallOK(p) /\ Sound(data[p]) /\ CopyUpToDate(p)
  BY DEF IInv
<1>b. pc[p] # "idle" => a \in Agents /\ call[p].op \in {"token", "store"}
  BY <1>a DEF CallOK, Calls
<1>c. ASSUME status' = status, file' = file, installed' = installed
      PROVE  Stands'
  BY <1>c DEF Stands, Holds
<1>d. ASSUME pc'[p] \notin Copied PROVE CopyUpToDate(p)'
  BY <1>d DEF CopyUpToDate, Copied
<1>1. CASE Start(p)
  <2>1. pc'[p] = "read"
    BY <1>1, <1>a DEF Start, Goto, TypeOK
  <2> QED BY <1>1, <1>c, <1>d, <2>1 DEF Start, Copied
<1>2. CASE ReadBroken(p) \/ Kill(p)
  <2>1. pc'[p] = "idle"
    BY <1>2, <1>a DEF ReadBroken, Kill, Return, Goto, TypeOK
  <2> QED BY <1>2, <1>c, <1>d, <2>1 DEF ReadBroken, Kill, Copied
<1>3. CASE ReadToStore(p)
  <2> DEFINE e == Fresh(call[p].cred)
  <2>1. /\ pc'[p] = "open" /\ data'[p] = With(file, a, e) /\ call' = call
        /\ call[p].op = "store" /\ status = "valid"
        /\ UNCHANGED <<status, file, installed>>
    BY <1>3, <1>a DEF ReadToStore, Goto, TypeOK
  <2>2. a \in Agents /\ file \in Files /\ e \in Entries /\ e.cred = call[p].cred
    BY <1>3, <1>a, <1>b, CredsOfProduct DEF ReadToStore, CallOK, TypeOK
  <2>3. \A b \in Agents : Holds(file, b)
    BY <2>1 DEF Stands
  <2>4. \A b \in Agents : b # a => Holds(With(file, a, e), b)
    BY <2>2, <2>3, HoldsWith
  <2>5. With(file, a, e)[a] = e
    BY <2>2 DEF With, Files
  <2> HIDE DEF e
  <2> QED BY <1>c, <2>1, <2>2, <2>4, <2>5 DEF CopyUpToDate, Copied, Holds
<1>4. CASE ReadForToken(p)
  <2>0. UNCHANGED <<status, file, call, installed>> /\ call[p].op = "token"
    BY <1>4 DEF ReadForToken
  <2>1. CASE pc'[p] = "idle"
    BY <1>c, <1>d, <2>0, <2>1 DEF Copied
  <2>2. CASE data' = [data EXCEPT ![p] = file] /\ Goto(p, "request")
    <3>1. data'[p] = file /\ pc'[p] = "request"
      BY <1>a, <2>2 DEF TypeOK, Goto
    <3>2. \A b \in Agents : Holds(file, b)
      BY <1>4 DEF Stands, ReadForToken
    <3> QED BY <1>c, <2>0, <3>1, <3>2 DEF CopyUpToDate, Copied, Holds
  <2> QED BY <1>4, <1>a, <2>1, <2>2 DEF ReadForToken, Return, Goto, TypeOK
<1>5. CASE Request(p)
  <2> DEFINE e == [data[p][a] EXCEPT !.token = data[p][a].cred]
  <2>0. /\ UNCHANGED <<status, file, call, installed>> /\ call[p].op = "token"
        /\ a \in Agents /\ data[p] \in Files /\ data[p][a] \in Entries
    BY <1>5, <1>a, <1>b DEF Request, CallOK, TypeOK, Copied
  <2>1. CASE pc'[p] = "idle"
    BY <1>c, <1>d, <2>0, <2>1 DEF Copied
  <2>2. CASE data' = [data EXCEPT ![p] = With(data[p], a, e)] /\ Goto(p, "open")
    <3>1. data'[p] = With(data[p], a, e) /\ pc'[p] = "open"
      BY <1>a, <2>2 DEF TypeOK, Goto
    <3>2. e \in Entries /\ e.cred = data[p][a].cred
      BY <2>0, CredentialsAssumption DEF Entries
    <3>3. \A b \in Agents : Holds(data[p], b)
      BY <1>5, <1>a, <2>0 DEF CopyUpToDate, Copied, Request
    <3> HIDE DEF e
    <3>4. \A b \in Agents : Holds(With(data[p], a, e), b)
      BY <2>0, <3>2, <3>3, HoldsWith
    <3> QED BY <1>c, <2>0, <3>1, <3>4 DEF CopyUpToDate, Copied, Holds
  <2> QED BY <1>5, <1>a, <2>1, <2>2 DEF Request, Return, Goto, TypeOK
<1>6. CASE Open(p)
  <2>1. /\ pc[p] = "open" /\ pc'[p] = "write" /\ status' = "empty"
        /\ UNCHANGED <<call, data, installed>>
    BY <1>6, <1>a DEF Open, Goto, TypeOK
  <2> QED BY <1>a, <2>1 DEF CopyUpToDate, Copied, Holds, Stands
<1>7. CASE Write(p)
  <2>1. pc[p] = "write" /\ pc'[p] = "idle" /\ status = "empty" /\ file' = data[p]
    BY <1>7, <1>a DEF Write, Return, Goto, TypeOK, CopyUpToDate
  <2>2. a \in Agents /\ data[p] \in Files /\ data[p][a] \in Entries /\ data[p][a] # None
    BY <1>a, <1>b, <2>1, CredentialsAssumption DEF CallOK, TypeOK, Copied
  <2>3. ASSUME NEW b \in Agents, installed'[b] # None
        PROVE  data[p][b] # None /\ data[p][b].cred = installed'[b]
    <3>1. CASE call[p].op = "store" /\ b = a
      <4>1. installed'[b] = call[p].cred
        BY <1>7, <1>a, <3>1 DEF Write, TypeOK
      <4> QED BY <1>a, <2>1, <2>2, <3>1, <4>1 DEF CopyUpToDate
    <3>2. CASE call[p].op = "token" \/ b # a
      <4>1. installed'[b] = installed[b]
        BY <1>7, <1>a, <3>2 DEF Write, TypeOK
      <4> QED BY <1>a, <2>1, <2>3, <3>2, <4>1 DEF CopyUpToDate, Copied, Holds
    <3> QED BY <1>b, <2>1, <3>1, <3>2
  <2>4. Stands'
    BY <2>1, <2>3 DEF Stands, Holds
  <2> QED BY <1>d, <2>1, <2>4 DEF Copied
<1> QED
  BY <1>1, <1>2, <1>3, <1>4, <1>5, <1>6, <1>7 DEF Step

\* Whoever does not move, and is idle, has no copy.
LEMMA AloneKeeps ==
  ASSUME IInv, AloneInv, NEW p \in Procs, Start(p) \/ Step(p) \/ Kill(p)
  PROVE  AloneInv'
<1> SUFFICES ASSUME ~overlapped'
    PROVE  Stands' /\ \A q \in Procs : CopyUpToDate(q)' /\ (pc'[q] # "idle" => Alone(q)')
  BY DEF AloneInv
<1>1. ~overlapped /\ (pc[p] # "idle" \/ \A q \in Procs : pc[q] = "idle")
  <2>1. CASE Start(p)
    BY <2>1 DEF Start, IInv, TypeOK
  <2>2. CASE Step(p) \/ Kill(p)
    <3>1. pc[p] # "idle" /\ UNCHANGED overlapped
      BY <2>2 DEF Step, ReadBroken, ReadToStore, ReadForToken, Request, Open, Write, Kill
    <3> QED BY <3>1
  <2> QED BY <2>1, <2>2
<1>2. Alone(p)
  BY <1>1 DEF AloneInv, Alone
<1>3. Stands' /\ CopyUpToDate(p)'
  BY <1>1, AloneStep DEF AloneInv
<1>4. \A q \in Procs : q # p => pc'[q] = "idle"
  <2>1. \A q \in Procs : q # p => pc'[q] = pc[q]
    BY DEF IInv, TypeOK, Start, Step, ReadBroken, ReadToStore, ReadForToken,
           Request, Open, Write, Kill, Return, Goto
  <2> QED BY <1>2, <2>1 DEF Alone
<1>5. \A q \in Procs : q # p => CopyUpToDate(q)'
  BY <1>4 DEF CopyUpToDate, Copied
<1> QED
  BY <1>3, <1>4, <1>5 DEF Alone

\* As long as no two calls have overlapped, an installed credential is never
\* lost, even if processes are killed: what two of them do in run
\* credentials_race is the missing lock's doing, not a crash's.
THEOREM InstalledStandsAlone == Spec => []LastInstalledStands
<1>1. Init => AloneInv
  BY DEF Init, AloneInv, Stands, Holds, CopyUpToDate, Copied
<1>2. IInv /\ AloneInv /\ [Next]_vars => AloneInv'
  <2> SUFFICES ASSUME IInv, AloneInv, [Next]_vars PROVE AloneInv'
    OBVIOUS
  <2>1. CASE Next
    BY <2>1, AloneKeeps DEF Next
  <2>2. CASE UNCHANGED vars
    BY <2>2 DEF vars, AloneInv, Stands, CopyUpToDate, Holds, Alone
  <2> QED BY <2>1, <2>2
<1>3. AloneInv => LastInstalledStands
  BY DEF AloneInv, Stands, Holds, LastInstalledStands
<1> QED
  BY <1>1, <1>2, <1>3, Invariance, PTL DEF Spec
=============================================================================
