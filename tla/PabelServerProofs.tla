------------------------- MODULE PabelServerProofs -------------------------
(***************************************************************************)
(* Theorems about PabelServer and AccessWindows, for every set of          *)
(* processes, users, agents, clients and requests.                         *)
(*                                                                         *)
(* None of the safety properties is inductive by itself: a stored key is   *)
(* the right one because the call computed it from locals that its earlier *)
(* steps set, and a cached key is the right one because every call that    *)
(* stored one did so.  CallOK collects what each step of a call leaves for *)
(* the next ones; IInv joins it with the types and the cache.              *)
(***************************************************************************)
EXTENDS AccessWindows, TLAPS

Ended == {"audit file", "audit table", "done"}

\* What is known of the call a process serves, by how far it has come.
CallOK(s) ==
  /\ pc[s] \in Serving => req[s] \in Requests
  /\ pc[s] \in {"agent token", "installation", "product"} =>
       ctx[s].claims \in Claims \/ req[s].tool = "report_denial"
  /\ pc[s] = "installation" => req[s].azp \in Clients
  /\ pc[s] = "product" => ctx[s].product \in Agents
  /\ pc[s] \in {"lookup", "keygen", "store", "decrypt"} =>
       ctx[s].claims \in Claims /\ ctx[s].agent \in Agents
  /\ pc[s] \in {"store", "decrypt"} => ctx[s].key = Combined(s)
  /\ pc[s] \in Ended =>
       /\ answer[s] \in Answers
       /\ answer[s].readable # {} =>
            /\ ctx[s].claims \in Claims
            /\ answer[s].readable \subseteq Entitled(req[s].doc, Combined(s))
  /\ pc[s] \notin Ended => answer[s] = None

IInv ==
  /\ TypeOK
  /\ CachedKeysMatchHashes
  /\ \A s \in Servers : CallOK(s)

----------------------------------------------------------------------------
(* Lemmas about the operators.                                             *)

\* The combined attribute string is an attribute string.
LEMMA CombinedType ==
  ASSUME TypeOK, NEW s \in Servers, ctx[s].claims \in Claims
  PROVE  Combined(s) \in Seq(Tokens)
<1>1. ctx[s].attrs \in Seq(Tokens)
  BY DEF TypeOK, Contexts
<1>2. ctx[s].claims.attrs \in Seq(Tokens)
  BY ConstantsAssumption
<1> QED
  BY <1>1, <1>2 DEF Combined

\* What a key opens is a set of positions of the document.
LEMMA EntitledType ==
  ASSUME NEW doc \in Seq(SUBSET Tokens), NEW string
  PROVE  Entitled(doc, string) \subseteq Nat
BY DEF Entitled

----------------------------------------------------------------------------

LEMMA EmptyTypes == NoContext \in Contexts /\ NoTrail \in Trails
BY DEF NoContext, Contexts, NoTrail, Trails

\* Ending a call yields a well-formed answer.
LEMMA EndType ==
  ASSUME TypeOK, NEW s \in Servers,
         NEW result \in {"ok", "denied", "error"}, NEW cause \in Causes,
         NEW readable \in SUBSET Nat, End(s, result, cause, readable)
  PROVE  /\ answer' \in [Servers -> Answers \cup {None}]
         /\ pc' \in [Servers -> Serving \cup Resting]
         /\ answer'[s].readable = readable
         /\ answer'[s] \in Answers
         /\ pc'[s] = "audit file"
         /\ \A x \in Servers \ {s} : answer'[x] = answer[x] /\ pc'[x] = pc[x]
BY DEF TypeOK, End, Goto, Answers, Serving

\* The record of a call names known principals only.
LEMMA RecordType ==
  ASSUME TypeOK, NEW s \in Servers, answer[s] \in Answers
  PROVE  Record(s) \in Records
<1>1. ctx[s] \in Contexts
  BY DEF TypeOK
<1>2. (IF ctx[s].claims = None THEN None ELSE ctx[s].claims.user) \in Users \cup {None}
  BY <1>1, ConstantsAssumption DEF Contexts
<1> QED
  BY <1>1, <1>2 DEF Record, Records, Answers, Contexts

LEMMA InitIInv == Init => IInv
<1> SUFFICES ASSUME Init PROVE IInv
  OBVIOUS
<1>1. TypeOK
  BY DEF Init, TypeOK, Resting, Contexts, NoContext, Trails, NoTrail
<1>2. CachedKeysMatchHashes
  BY DEF Init, CachedKeysMatchHashes
<1>3. ASSUME NEW s \in Servers PROVE CallOK(s)
  BY DEF Init, CallOK, Serving, Ended
<1> QED
  BY <1>1, <1>2, <1>3 DEF IInv

(* One lemma per action: it keeps IInv.                                    *)

\* A step that only ends the call keeps IInv, if what it says is readable is.
LEMMA EndKeeps ==
  ASSUME IInv, NEW s \in Servers, pc[s] \in Serving,
         NEW result \in {"ok", "denied", "error"}, NEW cause \in Causes,
         NEW readable \in SUBSET Nat, End(s, result, cause, readable),
         readable # {} => /\ ctx[s].claims \in Claims
                          /\ readable \subseteq Entitled(req[s].doc, Combined(s)),
         UNCHANGED <<agents, installations, agentKeys, req, ctx, trail>>
  PROVE  IInv'
<1>1. /\ answer' \in [Servers -> Answers \cup {None}]
      /\ pc' \in [Servers -> Serving \cup Resting]
      /\ answer'[s].readable = readable
      /\ answer'[s] \in Answers
      /\ pc'[s] = "audit file"
      /\ \A x \in Servers \ {s} : answer'[x] = answer[x] /\ pc'[x] = pc[x]
  BY EndType DEF IInv
<1>2. TypeOK'
  BY <1>1 DEF IInv, TypeOK
<1>3. CachedKeysMatchHashes'
  BY DEF IInv, CachedKeysMatchHashes
<1>4. ASSUME NEW x \in Servers PROVE CallOK(x)'
  <2>1. CASE x = s
    <3>1. req'[s] \in Requests /\ pc'[s] = "audit file" /\ answer'[s] \in Answers
      BY <1>1 DEF IInv, CallOK
    <3>2. answer'[s].readable # {} =>
            /\ ctx'[s].claims \in Claims
            /\ answer'[s].readable \subseteq Entitled(req'[s].doc, Combined(s)')
      <4>1. Combined(s)' = Combined(s) /\ req' = req /\ ctx' = ctx
        BY DEF Combined
      <4>2. answer'[s].readable = readable
        BY <1>1
      <4> QED BY <4>1, <4>2
    <3> QED
      BY <2>1, <3>1, <3>2 DEF CallOK, Ended
  <2>2. CASE x # s
    BY <1>1, <2>2 DEF IInv, CallOK, Combined
  <2> QED BY <2>1, <2>2
<1> QED
  BY <1>2, <1>3, <1>4 DEF IInv

LEMMA DenyKeeps ==
  ASSUME IInv, NEW s \in Servers, pc[s] \in Serving,
         NEW cause \in Causes, Deny(s, cause),
         UNCHANGED <<agents, installations, agentKeys, req, ctx, trail>>
  PROVE  IInv'
<1>1. End(s, "denied", cause, {})
  BY DEF Deny
<1> QED
  BY <1>1, EndKeeps

LEMMA IdentifyKeeps ==
  ASSUME IInv, NEW s \in Servers, Identify(s)
  PROVE  IInv'
<1>1. PICK c \in Claims : ctx' = [ctx EXCEPT ![s] = [ctx[s] EXCEPT !.claims = c]]
  BY DEF Identify, Local
<1>2. TypeOK'
  BY <1>1 DEF IInv, TypeOK, Identify, Goto, Contexts, Serving
<1>3. CachedKeysMatchHashes'
  BY DEF IInv, CachedKeysMatchHashes, Identify
<1>4. ASSUME NEW x \in Servers PROVE CallOK(x)'
  <2>1. CASE x = s
    BY <1>1, <2>1 DEF IInv, TypeOK, CallOK, Identify, Goto, Contexts, Serving, Ended
  <2>2. CASE x # s
    BY <1>1, <2>2 DEF IInv, TypeOK, CallOK, Identify, Goto, Combined
  <2> QED BY <2>1, <2>2
<1> QED
  BY <1>2, <1>3, <1>4 DEF IInv

LEMMA BeginKeeps ==
  ASSUME IInv, NEW s \in Servers, Begin(s)
  PROVE  IInv'
<1>1. PICK r \in Requests : req' = [req EXCEPT ![s] = r]
  BY DEF Begin
<1>2. TypeOK'
  BY <1>1, EmptyTypes DEF IInv, TypeOK, Begin, Goto, Local, Serving
<1>3. CachedKeysMatchHashes'
  BY DEF IInv, CachedKeysMatchHashes, Begin
<1>4. ASSUME NEW x \in Servers PROVE CallOK(x)'
  <2>1. CASE x = s
    BY <1>1, <2>1 DEF IInv, TypeOK, CallOK, Begin, Goto, Local, Serving, Ended
  <2>2. CASE x # s
    BY <1>1, <2>2 DEF IInv, TypeOK, CallOK, Begin, Goto, Local, Combined
  <2> QED BY <2>1, <2>2
<1> QED
  BY <1>2, <1>3, <1>4 DEF IInv

LEMMA StoreKeyKeeps ==
  ASSUME IInv, NEW s \in Servers, StoreKey(s)
  PROVE  IInv'
<1>1. Combined(s) \in Seq(Tokens) /\ ctx[s].key = Combined(s)
  BY CombinedType DEF IInv, CallOK, StoreKey
<1>2. TypeOK'
  BY <1>1 DEF IInv, TypeOK, StoreKey, Goto, KeyRows, Serving
<1>3. CachedKeysMatchHashes'
  BY <1>1 DEF IInv, TypeOK, CachedKeysMatchHashes, StoreKey
<1>4. ASSUME NEW x \in Servers PROVE CallOK(x)'
  <2>1. CASE x = s
    BY <2>1 DEF IInv, TypeOK, CallOK, StoreKey, Goto, Serving, Ended, Combined
  <2>2. CASE x # s
    BY <2>2 DEF IInv, TypeOK, CallOK, StoreKey, Goto, Combined
  <2> QED BY <2>1, <2>2
<1> QED
  BY <1>2, <1>3, <1>4 DEF IInv

LEMMA RejectKeeps ==
  ASSUME IInv, NEW s \in Servers, Reject(s)
  PROVE  IInv'
<1>1. PICK r \in Requests : req' = [req EXCEPT ![s] = r]
  BY DEF Reject
<1>2. TypeOK'
  BY <1>1, EmptyTypes DEF IInv, TypeOK, Reject, Goto, Local, Resting
<1>3. CachedKeysMatchHashes'
  BY DEF IInv, CachedKeysMatchHashes, Reject
<1>4. ASSUME NEW x \in Servers PROVE CallOK(x)'
  <2>1. CASE x = s
    BY <1>1, <2>1 DEF IInv, TypeOK, CallOK, Reject, Goto, Local, Serving, Ended
  <2>2. CASE x # s
    BY <1>1, <2>2 DEF IInv, TypeOK, CallOK, Reject, Goto, Local, Combined
  <2> QED BY <2>1, <2>2
<1> QED
  BY <1>2, <1>3, <1>4 DEF IInv

LEMMA UnidentifiedKeeps ==
  ASSUME IInv, NEW s \in Servers, Unidentified(s)
  PROVE  IInv'
<1>1. CASE req[s].tool = "report_denial"
  <2>1. TypeOK'
    BY <1>1 DEF IInv, TypeOK, Unidentified, Goto, Serving
  <2>2. ASSUME NEW x \in Servers PROVE CallOK(x)'
    BY <1>1 DEF IInv, TypeOK, CallOK, Unidentified, Goto, Serving, Ended, Combined
  <2> QED
    BY <2>1, <2>2 DEF IInv, CachedKeysMatchHashes, Unidentified
<1>2. CASE req[s].tool # "report_denial"
  BY <1>2, DenyKeeps DEF Unidentified, Causes, Serving
<1> QED
  BY <1>1, <1>2

LEMMA VerifyAgentTokenKeeps ==
  ASSUME IInv, NEW s \in Servers, VerifyAgentToken(s)
  PROVE  IInv'
<1>1. CASE /\ req[s].azp # None
           /\ Goto(s, "installation")
           /\ UNCHANGED answer
  <2>1. req[s].azp \in Clients
    BY <1>1, ConstantsAssumption DEF IInv, CallOK, VerifyAgentToken, Serving
  <2>2. TypeOK'
    BY <1>1 DEF IInv, TypeOK, VerifyAgentToken, Goto, Serving
  <2>3. ASSUME NEW x \in Servers PROVE CallOK(x)'
    BY <1>1, <2>1 DEF IInv, TypeOK, CallOK, VerifyAgentToken, Goto, Serving, Ended, Combined
  <2> QED
    BY <2>2, <2>3 DEF IInv, CachedKeysMatchHashes, VerifyAgentToken
<1>2. CASE Deny(s, "agent token")
  BY <1>2, DenyKeeps DEF VerifyAgentToken, Causes, Serving
<1> QED
  BY <1>1, <1>2 DEF VerifyAgentToken

LEMMA ReadInstallationKeeps ==
  ASSUME IInv, NEW s \in Servers, ReadInstallation(s)
  PROVE  IInv'
<1> DEFINE row == installations[req[s].azp]
<1>1. CASE /\ Active(row)
           /\ Local(s, [ctx[s] EXCEPT !.product = row.agent])
           /\ Goto(s, "product")
           /\ UNCHANGED answer
  <2>1. /\ pc[s] = "installation"
        /\ UNCHANGED <<agents, installations, agentKeys, req, trail>>
    BY DEF ReadInstallation
  <2>2. row.agent \in Agents
    BY <1>1, <2>1 DEF IInv, TypeOK, CallOK, Active, InstallationRows
  <2> HIDE DEF row
  <2>3. TypeOK'
    BY <1>1, <2>1, <2>2 DEF IInv, TypeOK, Local, Goto, Contexts, Serving
  <2>4. ASSUME NEW x \in Servers PROVE CallOK(x)'
    <3>1. CASE x = s
      <4>1. CallOK(s) /\ ctx[s] \in Contexts
        BY DEF IInv, TypeOK
      <4>2. /\ pc'[s] = "product" /\ ctx'[s] = [ctx[s] EXCEPT !.product = row.agent]
            /\ req'[s] = req[s] /\ answer'[s] = answer[s]
        BY <1>1, <2>1 DEF IInv, TypeOK, Local, Goto
      <4>3. ctx'[s].claims = ctx[s].claims /\ ctx'[s].product = row.agent
        BY <4>1, <4>2 DEF Contexts
      <4> QED
        BY <2>1, <2>2, <3>1, <4>1, <4>2, <4>3 DEF CallOK, Serving, Ended
    <3>2. CASE x # s
      BY <1>1, <2>1, <3>2 DEF IInv, TypeOK, CallOK, Local, Goto, Combined
    <3> QED BY <3>1, <3>2
  <2> QED
    BY <2>1, <2>3, <2>4 DEF IInv, CachedKeysMatchHashes
<1>2. CASE Deny(s, "installation") /\ UNCHANGED ctx
  BY <1>2, DenyKeeps DEF ReadInstallation, Causes, Serving
<1> QED
  BY <1>1, <1>2 DEF ReadInstallation

LEMMA ReadAgentKeeps ==
  ASSUME IInv, NEW s \in Servers, ReadAgent(s)
  PROVE  IInv'
<1> DEFINE row == agents[ctx[s].product]
           new == [ctx[s] EXCEPT !.agent = ctx[s].product,
                                 !.attrs = Contribution(s, row)]
<1>1. CASE Enabled(row) /\ Local(s, new)
  <2>1. /\ ctx[s].product \in Agents
        /\ ctx[s].claims \in Claims \/ req[s].tool = "report_denial"
    BY DEF IInv, CallOK, ReadAgent
  <2>2. Contribution(s, row) \in Seq(Tokens)
    <3>1. row.attrs \in Seq(Tokens)
      BY <1>1, <2>1 DEF IInv, TypeOK, Enabled, AgentRows
    <3> QED BY <3>1 DEF Contribution
  <2>3. new \in Contexts /\ new.claims = ctx[s].claims /\ new.agent \in Agents
    BY <2>1, <2>2 DEF IInv, TypeOK, Contexts
  <2> HIDE DEF row, new
  <2>4. ctx' \in [Servers -> Contexts] /\ ctx'[s] = new
    BY <1>1, <2>3 DEF IInv, TypeOK, Local
  <2>5. CASE /\ req[s].tool = "read_document"
             /\ Goto(s, "lookup")
             /\ UNCHANGED answer
    <3>1. TypeOK'
      BY <2>4, <2>5 DEF IInv, TypeOK, ReadAgent, Goto, Serving
    <3>2. ASSUME NEW x \in Servers PROVE CallOK(x)'
      <4>1. CASE x = s
        BY <2>1, <2>3, <2>4, <2>5, <4>1
           DEF IInv, TypeOK, CallOK, ReadAgent, Goto, Serving, Ended
      <4>2. CASE x # s
        BY <1>1, <2>5, <4>2 DEF IInv, TypeOK, CallOK, ReadAgent, Local, Goto, Combined
      <4> QED BY <4>1, <4>2
    <3> QED
      BY <3>1, <3>2 DEF IInv, CachedKeysMatchHashes, ReadAgent
  <2>6. CASE End(s, "ok", "none", {})
    <3>1. /\ answer' \in [Servers -> Answers \cup {None}]
          /\ pc' \in [Servers -> Serving \cup Resting]
          /\ answer'[s].readable = {}
          /\ answer'[s] \in Answers
          /\ pc'[s] = "audit file"
          /\ \A x \in Servers \ {s} : answer'[x] = answer[x] /\ pc'[x] = pc[x]
      <4> DEFINE ok == "ok"  none == "none"
      <4>1. ok \in {"ok", "denied", "error"} /\ none \in Causes /\ {} \in SUBSET Nat
        BY DEF Causes
      <4> HIDE DEF ok, none
      <4> QED BY <2>6, <4>1, EndType DEF IInv, ok, none
    <3>2. TypeOK'
      BY <2>4, <3>1 DEF IInv, TypeOK, ReadAgent
    <3>3. ASSUME NEW x \in Servers PROVE CallOK(x)'
      <4>1. CASE x = s
        <5>1. req'[s] \in Requests
          BY DEF IInv, CallOK, ReadAgent, Serving
        <5> QED BY <3>1, <4>1, <5>1 DEF CallOK, Ended
      <4>2. CASE x # s
        BY <1>1, <3>1, <4>2 DEF IInv, TypeOK, CallOK, ReadAgent, Local, Combined
      <4> QED BY <4>1, <4>2
    <3> QED
      BY <3>2, <3>3 DEF IInv, CachedKeysMatchHashes, ReadAgent
  <2> QED
    BY <1>1, <2>5, <2>6 DEF ReadAgent, row, new, Deny, Local
<1>2. CASE Deny(s, "product") /\ UNCHANGED ctx
  BY <1>2, DenyKeeps DEF ReadAgent, Causes, Serving
<1> QED
  BY <1>1, <1>2 DEF ReadAgent

LEMMA LookupKeyKeeps ==
  ASSUME IInv, NEW s \in Servers, LookupKey(s)
  PROVE  IInv'
<1> DEFINE row == agentKeys[KeyOf(s)]
<1>1. /\ pc[s] = "lookup"
      /\ UNCHANGED <<agents, installations, agentKeys, req, trail>>
      /\ ctx[s].claims \in Claims /\ ctx[s].agent \in Agents
  BY DEF LookupKey, IInv, CallOK
<1>2. CASE Deny(s, "no attributes") /\ UNCHANGED ctx
  BY <1>1, <1>2, DenyKeeps DEF Causes, Serving
<1>3. CASE /\ Hit(s, row)
           /\ Local(s, [ctx[s] EXCEPT !.key = row.key])
           /\ Goto(s, "decrypt")
           /\ UNCHANGED answer
  <2>1. KeyOf(s) \in Users \X Agents
    BY <1>1, ConstantsAssumption DEF KeyOf
  <2>2. row.key = Combined(s) /\ row.key \in Seq(Tokens)
    BY <1>3, <2>1 DEF IInv, TypeOK, CachedKeysMatchHashes, Hit, KeyRows
  <2> DEFINE new == [ctx[s] EXCEPT !.key = row.key]
  <2>3. /\ new \in Contexts
        /\ new.claims = ctx[s].claims /\ new.attrs = ctx[s].attrs
        /\ new.agent = ctx[s].agent /\ new.key = Combined(s)
    BY <2>2 DEF IInv, TypeOK, Contexts
  <2>4. ctx' = [ctx EXCEPT ![s] = new]
    BY <1>3 DEF Local
  <2> HIDE DEF row, new
  <2>5. ctx' \in [Servers -> Contexts] /\ ctx'[s] = new
    BY <2>3, <2>4 DEF IInv, TypeOK
  <2>6. TypeOK'
    BY <1>1, <1>3, <2>5 DEF IInv, TypeOK, Goto, Serving
  <2>7. ASSUME NEW x \in Servers PROVE CallOK(x)'
    <3>1. CASE x = s
      <4>1. Combined(s)' = Combined(s)
        BY <2>3, <2>5 DEF Combined
      <4> QED
        BY <1>1, <1>3, <2>3, <2>5, <3>1, <4>1 DEF IInv, TypeOK, CallOK, Goto,
                                                  Serving, Ended
    <3>2. CASE x # s
      BY <1>1, <1>3, <2>4, <3>2 DEF IInv, TypeOK, CallOK, Goto, Combined
    <3> QED BY <3>1, <3>2
  <2> QED
    BY <1>1, <2>6, <2>7 DEF IInv, CachedKeysMatchHashes
<1>4. CASE Goto(s, "keygen") /\ UNCHANGED <<ctx, answer>>
  <2>1. TypeOK'
    BY <1>1, <1>4 DEF IInv, TypeOK, Goto, Serving
  <2>2. ASSUME NEW x \in Servers PROVE CallOK(x)'
    BY <1>1, <1>4 DEF IInv, TypeOK, CallOK, Goto, Serving, Ended, Combined
  <2> QED
    BY <1>1, <2>1, <2>2 DEF IInv, CachedKeysMatchHashes
<1> QED
  BY <1>2, <1>3, <1>4 DEF LookupKey

LEMMA KeygenKeeps ==
  ASSUME IInv, NEW s \in Servers, Keygen(s)
  PROVE  IInv'
<1>1. Combined(s) \in Seq(Tokens) /\ Combined(s)' = Combined(s)
  BY CombinedType DEF IInv, CallOK, Keygen, TypeOK, Local, Combined, Contexts
<1>2. TypeOK'
  BY <1>1 DEF IInv, TypeOK, Keygen, Local, Goto, Contexts, Serving
<1>3. ASSUME NEW x \in Servers PROVE CallOK(x)'
  <2>1. CASE x = s
    BY <1>1, <2>1 DEF IInv, TypeOK, CallOK, Keygen, Local, Goto, Contexts, Serving, Ended
  <2>2. CASE x # s
    BY <2>2 DEF IInv, TypeOK, CallOK, Keygen, Local, Goto, Combined
  <2> QED BY <2>1, <2>2
<1> QED
  BY <1>2, <1>3 DEF IInv, CachedKeysMatchHashes, Keygen

LEMMA DecryptKeeps ==
  ASSUME IInv, NEW s \in Servers, Decrypt(s)
  PROVE  IInv'
<1>1. PICK lost \in SUBSET Entitled(req[s].doc, ctx[s].key) :
        End(s, "ok", "none", Entitled(req[s].doc, ctx[s].key) \ lost)
  BY DEF Decrypt
<1> DEFINE readable == Entitled(req[s].doc, ctx[s].key) \ lost
<1>2. /\ pc[s] \in Serving /\ req[s] \in Requests
      /\ ctx[s].claims \in Claims /\ ctx[s].key = Combined(s)
      /\ UNCHANGED <<agents, installations, agentKeys, req, ctx, trail>>
  BY DEF IInv, CallOK, Decrypt, Serving
<1>3. req[s].doc \in Seq(SUBSET Tokens)
  BY <1>2, ConstantsAssumption
<1>4. readable \in SUBSET Nat /\ readable \subseteq Entitled(req[s].doc, Combined(s))
  BY <1>2, <1>3, EntitledType
<1> HIDE DEF readable
<1>5. End(s, "ok", "none", readable)
  BY <1>1 DEF readable
<1>6. "ok" \in {"ok", "denied", "error"} /\ "none" \in Causes
  BY DEF Causes
<1> QED
  BY <1>2, <1>4, <1>5, <1>6, EndKeeps

LEMMA FailKeeps ==
  ASSUME IInv, NEW s \in Servers, Fail(s)
  PROVE  IInv'
<1>1. /\ pc[s] \in Serving
      /\ End(s, "error", "exception", {})
      /\ UNCHANGED <<agents, installations, agentKeys, req, ctx, trail>>
  BY DEF Fail, Serving
<1>2. "error" \in {"ok", "denied", "error"} /\ "exception" \in Causes /\ {} \in SUBSET Nat
  BY DEF Causes
<1> QED
  BY <1>1, <1>2, EndKeeps

\* Writing an audit record changes nothing but the trail and the place.
LEMMA AuditKeeps ==
  ASSUME IInv, NEW s \in Servers,
         AuditFile(s) \/ AuditTable(s)
  PROVE  IInv'
<1>1. /\ pc[s] \in {"audit file", "audit table"}
      /\ pc' \in [Servers -> Serving \cup Resting]
      /\ pc'[s] \in {"audit table", "done"}
      /\ \A x \in Servers \ {s} : pc'[x] = pc[x]
      /\ UNCHANGED <<agents, installations, agentKeys, req, ctx, answer>>
  BY DEF IInv, TypeOK, AuditFile, AuditTable, Goto, Serving, Resting
<1>2. Record(s) \in Records
  BY <1>1, RecordType DEF IInv, CallOK, Ended
<1>3. trail' \in [Servers -> Trails]
  <2>1. /\ trail[s] \in Trails
        /\ trail[s].file \in Seq(Records \cup {None})
        /\ trail[s].table \in Seq(Records \cup {None})
    BY DEF IInv, TypeOK, Trails
  <2>2. CASE AuditFile(s)
    <3>1. PICK entry \in {Record(s), None} :
            trail' = [trail EXCEPT ![s].file = Append(@, entry)]
      BY <2>2 DEF AuditFile
    <3>2. Append(trail[s].file, entry) \in Seq(Records \cup {None})
      BY <1>2, <2>1
    <3>3. [trail[s] EXCEPT !.file = Append(trail[s].file, entry)] \in Trails
      BY <2>1, <3>2, Zenon DEF Trails
    <3> QED
      BY <3>1, <3>3 DEF IInv, TypeOK
  <2>3. CASE AuditTable(s)
    <3>1. PICK entry \in {Record(s), None} :
            trail' = [trail EXCEPT ![s].table = Append(@, entry)]
      BY <2>3 DEF AuditTable
    <3>2. Append(trail[s].table, entry) \in Seq(Records \cup {None})
      BY <1>2, <2>1
    <3>3. [trail[s] EXCEPT !.table = Append(trail[s].table, entry)] \in Trails
      BY <2>1, <3>2, Zenon DEF Trails
    <3> QED
      BY <3>1, <3>3 DEF IInv, TypeOK
  <2> QED
    BY <2>2, <2>3
<1>4. TypeOK'
  BY <1>1, <1>3 DEF IInv, TypeOK
<1>5. ASSUME NEW x \in Servers PROVE CallOK(x)'
  <2>1. CASE x = s
    BY <1>1, <2>1 DEF IInv, CallOK, Serving, Ended, Combined
  <2>2. CASE x # s
    BY <1>1, <2>2 DEF IInv, CallOK, Combined
  <2> QED BY <2>1, <2>2
<1> QED
  BY <1>1, <1>4, <1>5 DEF IInv, CachedKeysMatchHashes

LEMMA CrashKeeps ==
  ASSUME IInv, NEW s \in Servers, Crash(s)
  PROVE  IInv'
<1>1. TypeOK'
  BY EmptyTypes DEF IInv, TypeOK, Crash, Goto, Local, Resting
<1>2. ASSUME NEW x \in Servers PROVE CallOK(x)'
  <2>1. CASE x = s
    BY <2>1 DEF IInv, TypeOK, CallOK, Crash, Goto, Local, Serving, Ended
  <2>2. CASE x # s
    BY <2>2 DEF IInv, TypeOK, CallOK, Crash, Goto, Local, Combined
  <2> QED BY <2>1, <2>2
<1> QED
  BY <1>1, <1>2 DEF IInv, CachedKeysMatchHashes, Crash

LEMMA AdminKeeps ==
  ASSUME IInv, AdminStep
  PROVE  IInv'
<1>1. UNCHANGED <<agentKeys, pc, req, ctx, answer, trail>>
  BY DEF AdminStep, AddAgent, SetAgentEnabled, AddInstallation, SetInstallationRevoked
<1>2. agents' \in [Agents -> AgentRows \cup {None}]
  <2>1. ASSUME NEW a \in Agents, AddAgent(a) PROVE agents' \in [Agents -> AgentRows \cup {None}]
    <3>1. PICK p \in Products : agents' = [agents EXCEPT ![a] =
            [attrs |-> p.attrs, role |-> p.role,
             enabled |-> IF agents[a] = None THEN TRUE ELSE agents[a].enabled]]
      BY <2>1 DEF AddAgent
    <3>2. p.attrs \in Seq(Tokens) /\ p.role \in Roles
      BY ConstantsAssumption
    <3>3. agents[a] # None => agents[a].enabled \in BOOLEAN
      BY DEF IInv, TypeOK, AgentRows
    <3>4. (IF agents[a] = None THEN TRUE ELSE agents[a].enabled) \in BOOLEAN
      BY <3>3
    <3> QED
      BY <3>1, <3>2, <3>4 DEF IInv, TypeOK, AgentRows
  <2>2. ASSUME NEW a \in Agents, NEW b \in BOOLEAN, SetAgentEnabled(a, b)
        PROVE  agents' \in [Agents -> AgentRows \cup {None}]
    <3>1. agents[a] \in AgentRows
      BY <2>2 DEF IInv, TypeOK, SetAgentEnabled
    <3>2. [agents[a] EXCEPT !.enabled = b] \in AgentRows
      BY <3>1 DEF AgentRows
    <3> QED
      BY <2>2, <3>2 DEF IInv, TypeOK, SetAgentEnabled
  <2> QED
    BY <2>1, <2>2 DEF IInv, TypeOK, AdminStep, AddInstallation, SetInstallationRevoked
<1>3. installations' \in [Clients -> InstallationRows \cup {None}]
  <2>1. ASSUME NEW c \in Clients, NEW a \in Agents, AddInstallation(c, a)
        PROVE  installations' \in [Clients -> InstallationRows \cup {None}]
    BY <2>1 DEF IInv, TypeOK, AddInstallation, InstallationRows
  <2>2. ASSUME NEW c \in Clients, NEW b \in BOOLEAN, SetInstallationRevoked(c, b)
        PROVE  installations' \in [Clients -> InstallationRows \cup {None}]
    <3>1. installations[c] \in InstallationRows
      BY <2>2 DEF IInv, TypeOK, SetInstallationRevoked
    <3>2. [installations[c] EXCEPT !.revoked = b] \in InstallationRows
      BY <3>1 DEF InstallationRows
    <3> QED
      BY <2>2, <3>2 DEF IInv, TypeOK, SetInstallationRevoked
  <2> QED
    BY <2>1, <2>2 DEF IInv, TypeOK, AdminStep, AddAgent, SetAgentEnabled
<1>4. TypeOK'
  BY <1>1, <1>2, <1>3 DEF IInv, TypeOK
<1>5. ASSUME NEW x \in Servers PROVE CallOK(x)'
  BY <1>1 DEF IInv, CallOK, Combined
<1> QED
  BY <1>1, <1>4, <1>5 DEF IInv, CachedKeysMatchHashes

----------------------------------------------------------------------------

LEMMA NextKeepsIInv == IInv /\ [Next]_vars => IInv'
<1> SUFFICES ASSUME IInv, [Next]_vars PROVE IInv'
  OBVIOUS
<1>1. ASSUME NEW s \in Servers, Begin(s) \/ Reject(s) \/ ServeStep(s) \/ Crash(s)
      PROVE  IInv'
  BY <1>1, BeginKeeps, RejectKeeps, IdentifyKeeps, UnidentifiedKeeps,
     VerifyAgentTokenKeeps, ReadInstallationKeeps, ReadAgentKeeps, LookupKeyKeeps,
     KeygenKeeps, StoreKeyKeeps, DecryptKeeps, FailKeeps, AuditKeeps, CrashKeeps
     DEF ServeStep
<1>2. CASE AdminStep
  BY <1>2, AdminKeeps
<1>3. CASE UNCHANGED vars
  BY <1>3 DEF vars, IInv, TypeOK, CachedKeysMatchHashes, CallOK, Combined
<1> QED
  BY <1>1, <1>2, <1>3 DEF Next

\* Without the fairness, so that it also serves a specification that has more
\* variables.
LEMMA SafelyInvariant == Init /\ [][Next]_vars => []IInv
BY InitIInv, NextKeepsIInv, PTL

LEMMA Invariance == Spec => []IInv
BY SafelyInvariant, PTL DEF Spec

\* Type correctness: every table, local variable and audit entry stays of its
\* type, for any number of processes, users, products and installations.
THEOREM TypeCorrect == Spec => []TypeOK
<1>1. IInv => TypeOK
  BY DEF IInv
<1> QED
  BY <1>1, Invariance, PTL

\* The key cache is sound: no interleaving of look-ups and stores by any
\* number of processes separates a cached key from its attribute hash.
THEOREM CacheSound == Spec => []CachedKeysMatchHashes
<1>1. IInv => CachedKeysMatchHashes
  BY DEF IInv
<1> QED
  BY <1>1, Invariance, PTL

\* Every decryption uses a key made for exactly the attributes its own call
\* established, whatever the other processes stored meanwhile.
THEOREM KeyAlwaysOwn == Spec => []KeyIsForThisCall
<1>1. IInv => KeyIsForThisCall
  BY DEF IInv, CallOK, KeyIsForThisCall
<1> QED
  BY <1>1, Invariance, PTL

\* Nothing is ever returned readable beyond what the two principals of the
\* call are entitled to together.
THEOREM NothingBeyondEntitlement == Spec => []ReadableIsEntitled
<1>1. IInv => ReadableIsEntitled
  BY DEF IInv, CallOK, ReadableIsEntitled
<1> QED
  BY <1>1, Invariance, PTL

----------------------------------------------------------------------------
(* The audit trail.  Its invariant rests on IInv only for its types and for *)
(* what an ended call has answered, so it is a second, separate induction. *)

\* The store was offered the record of the call, once.
Tried(s, store) == \E entry \in {Record(s), None} : trail[s][store] = <<entry>>

\* How far the two audit attempts of the process's call have come.
AuditOK(s) ==
  /\ pc[s] \in Serving \ {"audit table"} =>
       trail[s].file = <<>> /\ trail[s].table = <<>>
  /\ pc[s] = "audit table" => Tried(s, "file") /\ trail[s].table = <<>>
  /\ pc[s] = "done" => Tried(s, "file") /\ Tried(s, "table")
  /\ Len(trail[s].file) <= 1 /\ Len(trail[s].table) <= 1

\* The step is the process's own: it leaves the calls of all others alone.
Others(s) ==
  \A x \in Servers \ {s} :
    pc'[x] = pc[x] /\ ctx'[x] = ctx[x] /\ answer'[x] = answer[x] /\ trail'[x] = trail[x]

\* What a process leaves alone stays right.
LEMMA OthersAuditOK ==
  ASSUME NEW s \in Servers, Others(s), NEW x \in Servers \ {s}, AuditOK(x)
  PROVE  AuditOK(x)'
BY DEF Others, AuditOK, Tried, Record

\* No step of the tool body, its failures included, touches a store or
\* passes the audit by.
LEMMA BodyStep ==
  ASSUME TypeOK, NEW s \in Servers,
         \/ Identify(s) \/ Unidentified(s) \/ VerifyAgentToken(s)
         \/ ReadInstallation(s) \/ ReadAgent(s) \/ LookupKey(s)
         \/ Keygen(s) \/ StoreKey(s) \/ Decrypt(s) \/ Fail(s)
  PROVE  /\ pc[s] \in Serving \ {"audit file", "audit table"}
         /\ pc'[s] \in Serving \ {"audit table"}
         /\ trail' = trail
         /\ Others(s)
<1> USE DEF TypeOK, Others, Goto, Local, End, Deny, Serving
<1>1. CASE Identify(s)
  BY <1>1 DEF Identify
<1>2. CASE Unidentified(s)
  BY <1>2 DEF Unidentified
<1>3. CASE VerifyAgentToken(s)
  BY <1>3 DEF VerifyAgentToken
<1>4. CASE ReadInstallation(s)
  BY <1>4 DEF ReadInstallation
<1>5. CASE ReadAgent(s)
  BY <1>5 DEF ReadAgent
<1>6. CASE LookupKey(s)
  BY <1>6 DEF LookupKey
<1>7. CASE Keygen(s)
  BY <1>7 DEF Keygen
<1>8. CASE StoreKey(s)
  BY <1>8 DEF StoreKey
<1>9. CASE Decrypt(s)
  BY <1>9 DEF Decrypt
<1>10. CASE Fail(s)
  BY <1>10 DEF Fail
<1> QED
  BY <1>1, <1>2, <1>3, <1>4, <1>5, <1>6, <1>7, <1>8, <1>9, <1>10

\* Writing the record changes nothing the record is made of.
LEMMA AuditStep ==
  ASSUME TypeOK, NEW s \in Servers, AuditFile(s) \/ AuditTable(s)
  PROVE  Others(s) /\ Record(s)' = Record(s)
<1>1. UNCHANGED <<ctx, answer>> /\ Record(s)' = Record(s)
  BY DEF AuditFile, AuditTable, Record
<1>2. \A x \in Servers \ {s} : pc'[x] = pc[x]
  BY DEF TypeOK, AuditFile, AuditTable, Goto
<1>3. \A x \in Servers \ {s} : trail'[x] = trail[x]
  BY DEF TypeOK, AuditFile, AuditTable
<1> QED
  BY <1>1, <1>2, <1>3 DEF Others

LEMMA AppendToNone == ASSUME NEW entry PROVE Append(<<>>, entry) = <<entry>>
OBVIOUS

\* Each store is offered exactly that record, the file before the table.
LEMMA AuditKeepsAudit ==
  ASSUME TypeOK, NEW s \in Servers, AuditOK(s), AuditFile(s) \/ AuditTable(s)
  PROVE  AuditOK(s)'
<1>1. Record(s)' = Record(s)
  BY AuditStep
<1>2. trail[s] \in Trails
  BY DEF TypeOK
<1>3. CASE AuditFile(s)
  <2>1. PICK entry \in {Record(s), None} :
          trail' = [trail EXCEPT ![s].file = Append(@, entry)]
    BY <1>3 DEF AuditFile
  <2>2. trail[s].file = <<>> /\ trail[s].table = <<>>
    BY <1>3 DEF AuditFile, AuditOK, Serving
  <2>3. trail'[s] = [trail[s] EXCEPT !.file = Append(trail[s].file, entry)]
    BY <2>1 DEF TypeOK
  <2>4. trail'[s].file = <<entry>> /\ trail'[s].table = <<>>
    BY <1>2, <2>2, <2>3, AppendToNone DEF Trails
  <2>5. pc'[s] = "audit table"
    BY <1>3 DEF AuditFile, Goto, TypeOK
  <2>6. Tried(s, "file")'
    BY <1>1, <2>4 DEF Tried
  <2>7. Len(trail'[s].file) = 1 /\ Len(trail'[s].table) = 0
    BY <2>4
  <2>8. Len(trail'[s].file) <= 1 /\ Len(trail'[s].table) <= 1
    BY <2>7
  <2> QED
    BY <2>4, <2>5, <2>6, <2>8, Zenon DEF AuditOK, Serving
<1>4. CASE AuditTable(s)
  <2>1. PICK entry \in {Record(s), None} :
          trail' = [trail EXCEPT ![s].table = Append(@, entry)]
    BY <1>4 DEF AuditTable
  <2>2. /\ Tried(s, "file")
        /\ trail[s].table = <<>>
        /\ Len(trail[s].file) <= 1
    BY <1>4 DEF AuditTable, AuditOK
  <2>3. trail'[s] = [trail[s] EXCEPT !.table = Append(trail[s].table, entry)]
    BY <2>1 DEF TypeOK
  <2>4. trail'[s].table = <<entry>> /\ trail'[s].file = trail[s].file
    BY <1>2, <2>2, <2>3, AppendToNone DEF Trails
  <2>5. pc'[s] = "done"
    BY <1>4 DEF AuditTable, Goto, TypeOK
  <2>6. Tried(s, "file")' /\ Tried(s, "table")'
    BY <1>1, <2>2, <2>4 DEF Tried
  <2>7. Len(trail'[s].table) = 1 /\ Len(trail'[s].file) <= 1
    BY <2>2, <2>4
  <2>8. Len(trail'[s].table) <= 1 /\ Len(trail'[s].file) <= 1
    BY <2>7
  <2> QED
    BY <2>5, <2>6, <2>8, Zenon DEF AuditOK, Serving
<1> QED
  BY <1>3, <1>4

LEMMA NextKeepsAudit ==
  ASSUME IInv, \A s \in Servers : AuditOK(s), [Next]_vars
  PROVE  \A s \in Servers : AuditOK(s)'
<1>0. TypeOK
  BY DEF IInv
<1>1. ASSUME NEW s \in Servers, Begin(s) \/ Reject(s)
      PROVE  Others(s) /\ AuditOK(s)'
  <2>1. Others(s) /\ trail'[s] = NoTrail /\ pc'[s] \in {"identity", "rejected"}
    BY <1>0, <1>1 DEF TypeOK, Begin, Reject, Others, Goto, Local
  <2>2. trail'[s].file = <<>> /\ trail'[s].table = <<>>
    BY <2>1 DEF NoTrail
  <2>3. Len(trail'[s].file) <= 1 /\ Len(trail'[s].table) <= 1
    BY <2>2
  <2> QED
    BY <2>1, <2>2, <2>3, Zenon DEF AuditOK, Serving
<1>2. ASSUME NEW s \in Servers,
             \/ Identify(s) \/ Unidentified(s) \/ VerifyAgentToken(s)
             \/ ReadInstallation(s) \/ ReadAgent(s) \/ LookupKey(s)
             \/ Keygen(s) \/ StoreKey(s) \/ Decrypt(s) \/ Fail(s)
      PROVE  Others(s) /\ AuditOK(s)'
  <2>1. /\ pc[s] \in Serving \ {"audit file", "audit table"}
        /\ pc'[s] \in Serving \ {"audit table"}
        /\ trail' = trail
        /\ Others(s)
    BY <1>0, <1>2, BodyStep
  <2> QED
    BY <2>1 DEF AuditOK, Serving
<1>3. ASSUME NEW s \in Servers, AuditFile(s) \/ AuditTable(s)
      PROVE  Others(s) /\ AuditOK(s)'
  BY <1>0, <1>3, AuditStep, AuditKeepsAudit
<1>4. ASSUME NEW s \in Servers, Crash(s)
      PROVE  Others(s) /\ AuditOK(s)'
  <2>1. Others(s) /\ trail' = trail /\ pc'[s] = "idle"
    BY <1>0, <1>4 DEF TypeOK, Crash, Others, Goto, Local
  <2> QED
    BY <2>1 DEF AuditOK, Serving
<1>5. ASSUME NEW s \in Servers, Others(s) /\ AuditOK(s)', NEW x \in Servers
      PROVE  AuditOK(x)'
  BY <1>5, OthersAuditOK
<1>6. CASE AdminStep \/ UNCHANGED vars
  <2>1. UNCHANGED <<pc, ctx, answer, trail>>
    BY <1>6 DEF AdminStep, AddAgent, SetAgentEnabled, AddInstallation,
                SetInstallationRevoked, vars
  <2> QED
    BY <2>1 DEF AuditOK, Tried, Record
<1> QED
  BY <1>1, <1>2, <1>3, <1>4, <1>5, <1>6 DEF Next, ServeStep

LEMMA SafelyAudited == Init /\ [][Next]_vars => []AnswersAreAudited
<1>1. Init => \A s \in Servers : AuditOK(s)
  BY DEF Init, AuditOK, Serving, NoTrail
<1>2. IInv /\ (\A s \in Servers : AuditOK(s)) /\ [Next]_vars => (\A s \in Servers : AuditOK(s))'
  BY NextKeepsAudit
<1>3. ASSUME IInv, \A s \in Servers : AuditOK(s) PROVE AnswersAreAudited
  <2> SUFFICES ASSUME NEW s \in Servers, NEW store \in {"file", "table"}
      PROVE /\ Len(trail[s][store]) <= 1
            /\ pc[s] = "done" => Len(trail[s][store]) = 1
            /\ pc[s] \in Serving \cup {"done"} /\ trail[s][store] # <<>> =>
                 answer[s] # None /\ trail[s][store][1] \in {Record(s), None}
    BY DEF AnswersAreAudited
  <2>1. AuditOK(s) /\ CallOK(s)
    BY <1>3 DEF IInv
  <2>2. Len(trail[s][store]) <= 1
    BY <2>1 DEF AuditOK
  <2>3. pc[s] = "done" => Tried(s, store)
    BY <2>1 DEF AuditOK
  <2>4. pc[s] \in Serving \cup {"done"} /\ trail[s][store] # <<>> =>
          Tried(s, store) /\ pc[s] \in Ended
    BY <2>1 DEF AuditOK, NoTrail, Ended, Serving
  <2>5. Tried(s, store) => /\ Len(trail[s][store]) = 1
                           /\ trail[s][store][1] \in {Record(s), None}
    BY DEF Tried
  <2>6. pc[s] \in Ended => answer[s] # None
    BY <2>1, ConstantsAssumption DEF CallOK
  <2> QED
    BY <2>2, <2>3, <2>4, <2>5, <2>6
<1> QED
  BY <1>1, <1>2, <1>3, SafelyInvariant, PTL

\* No caller is told how its call ended before both stores were offered the
\* call's one record, and no store holds anything else of the call.
THEOREM AlwaysAudited == Spec => []AnswersAreAudited
BY SafelyAudited, PTL DEF Spec

----------------------------------------------------------------------------
(***************************************************************************)
(* What the registry said during a call, and that the server implements    *)
(* AccessContract.                                                         *)
(*                                                                         *)
(* A call reads the installation and the product in two steps.  What makes *)
(* the two looks one justified decision is that a row of an installation   *)
(* is never removed nor moved to another product (RowsKept), so the second *)
(* look still concerns the product the first one found; and that each look *)
(* sees an entry which the history of the call holds.                      *)
(***************************************************************************)

Early == {"identity", "agent token", "installation", "product"}
Look(s) == Entry[req[s].azp]

\* The two looks at the registry that granted what the call has.
Granted(s) ==
  \E v, w \in seen[s] :
    /\ Active(v.inst) /\ v.inst.agent = ctx[s].agent
    /\ Enabled(w.prod) /\ ctx[s].attrs = Contribution(s, w.prod)

\* The first of them, when the second is still to come.
Found(s) ==
  /\ req[s].azp \in Clients /\ installations[req[s].azp] # None
  /\ installations[req[s].azp].agent = ctx[s].product
  /\ \E v \in seen[s] : Active(v.inst) /\ v.inst.agent = ctx[s].product

Refused(s) ==
  answer[s] # None =>
    /\ answer[s].cause = "installation" => \E v \in seen[s] : ~Active(v.inst)
    /\ answer[s].cause = "product" =>
         \E v, w \in seen[s] : Active(v.inst) /\ ~Enabled(w.prod)

\* What a reply may say besides.
Sober(s) ==
  answer[s] # None =>
    /\ answer[s].result # "ok" => answer[s].readable = {}
    /\ answer[s].result = "ok" =>
         /\ ctx[s].agent # None
         /\ \/ answer[s].readable = {} /\ req[s].tool # "read_document"
            \/ ctx[s].claims \in Claims /\ ctx[s].claims.attrs # <<>>

WindowOK(s) ==
  /\ pc[s] \notin Serving => seen[s] = {}
  /\ pc[s] \in Serving =>
       /\ Look(s) \in seen[s]
       /\ ctx[s].agent # None => Granted(s)
       /\ Refused(s) /\ Sober(s)
  /\ pc[s] \in Early => ctx[s].agent = None
  /\ pc[s] = "product" => Found(s)
  /\ pc[s] \in {"keygen", "store", "decrypt"} => ctx[s].claims.attrs # <<>>

WInv == IInv /\ WindowTypeOK /\ \A s \in Servers : WindowOK(s)

----------------------------------------------------------------------------
(* The registry and its history.                                           *)

SeenType == SUBSET [inst : InstallationRows \cup {None}, prod : AgentRows \cup {None}]

\* What an entry of the registry is, now and after a step.
LEMMA EntryIs ==
  ASSUME NEW c \in Clients
  PROVE  /\ Entry[c].inst = installations[c]
         /\ installations[c] # None => Entry[c].prod = agents[installations[c].agent]
BY WindowAssumption DEF Entry, Contract!Entry

LEMMA EntryIsNext ==
  ASSUME NEW c \in Clients
  PROVE  /\ Entry'[c].inst = installations'[c]
         /\ installations'[c] # None => Entry'[c].prod = agents'[installations'[c].agent]
BY WindowAssumption DEF Entry, Contract!Entry

LEMMA EntryType ==
  ASSUME TypeOK', NEW c \in Clients \cup {None}
  PROVE  {Entry'[c]} \in SeenType
<1>1. CASE c = None
  BY <1>1 DEF Entry, Contract!Entry, SeenType
<1>2. CASE c \in Clients /\ installations'[c] = None
  BY <1>2, WindowAssumption DEF Entry, Contract!Entry, SeenType
<1>3. CASE c \in Clients /\ installations'[c] # None
  <2>1. installations'[c] \in InstallationRows
    BY <1>3 DEF TypeOK
  <2>2. agents'[installations'[c].agent] \in AgentRows \cup {None}
    BY <2>1 DEF TypeOK, InstallationRows
  <2>3. Entry'[c] = [inst |-> installations'[c], prod |-> agents'[installations'[c].agent]]
    BY <1>3, WindowAssumption DEF Entry, Contract!Entry
  <2> QED
    BY <2>1, <2>2, <2>3 DEF SeenType
<1> QED
  BY <1>1, <1>2, <1>3

\* What the history holds of a call after a step.
LEMMA Watched ==
  ASSUME Observe, NEW s \in Servers
  PROVE  /\ pc'[s] \notin Serving => seen'[s] = {}
         /\ pc'[s] \in Serving =>
              seen'[s] = (IF pc[s] \in Serving THEN seen[s] ELSE {}) \cup {Look(s)'}
BY DEF Observe, Look

LEMMA WatchedType ==
  ASSUME WInv, IInv', Observe
  PROVE  WindowTypeOK'
<1>1. ASSUME NEW s \in Servers, pc'[s] \in Serving PROVE {Look(s)'} \in SeenType
  <2>1. req'[s] \in Requests
    BY <1>1 DEF IInv, CallOK
  <2>2. req'[s].azp \in Clients \cup {None}
    BY <2>1, ConstantsAssumption
  <2> QED
    BY <2>2, EntryType DEF Look, IInv
<1>2. ASSUME NEW s \in Servers
      PROVE  seen'[s] \in SeenType /\ (seen'[s] = {} <=> pc'[s] \notin Serving)
  <2>1. seen[s] \in SeenType
    BY DEF WInv, WindowTypeOK, SeenType
  <2> QED
    BY <1>1, <2>1, Watched DEF SeenType
<1>3. seen' \in [Servers -> SeenType]
  BY <1>2 DEF Observe
<1> QED
  BY <1>2, <1>3 DEF WindowTypeOK, SeenType

\* No statement of the administrator removes an installation or moves it.
RowsKept ==
  \A c \in Clients : installations[c] # None =>
    installations'[c] # None /\ installations'[c].agent = installations[c].agent

LEMMA AdminRows ==
  ASSUME TypeOK, TypeOK', AdminStep \/ UNCHANGED installations
  PROVE  RowsKept
<1>1. CASE UNCHANGED installations
  BY <1>1 DEF RowsKept
<1>2. CASE \E a \in Agents : AddAgent(a) \/ \E b \in BOOLEAN : SetAgentEnabled(a, b)
  BY <1>2 DEF RowsKept, AddAgent, SetAgentEnabled
<1>3. ASSUME NEW c \in Clients, NEW a \in Agents, AddInstallation(c, a) PROVE RowsKept
  BY <1>3 DEF RowsKept, AddInstallation, TypeOK
<1>4. ASSUME NEW c \in Clients, NEW b \in BOOLEAN, SetInstallationRevoked(c, b)
      PROVE  RowsKept
  <2>1. installations[c] \in InstallationRows
    BY <1>4 DEF SetInstallationRevoked, TypeOK
  <2>2. installations' = [installations EXCEPT ![c] = [@ EXCEPT !.revoked = b]]
    BY <1>4 DEF SetInstallationRevoked
  <2>3. installations'[c] \in InstallationRows /\ installations'[c].agent = installations[c].agent
    BY <2>1, <2>2 DEF TypeOK, InstallationRows
  <2> QED
    BY <2>2, <2>3, WindowAssumption DEF RowsKept, TypeOK
<1> QED
  BY <1>1, <1>2, <1>3, <1>4 DEF AdminStep

----------------------------------------------------------------------------
(* What a step leaves of a call's window.                                  *)

\* A window only grows while its call runs.
LEMMA Grown ==
  ASSUME Observe, NEW s \in Servers, pc[s] \in Serving, pc'[s] \in Serving
  PROVE  seen[s] \subseteq seen'[s] /\ Look(s)' \in seen'[s]
BY Watched

\* Neither others nor the administrator disturb a call.
LEMMA Untouched ==
  ASSUME WInv, Observe, RowsKept, NEW s \in Servers,
         pc'[s] = pc[s], req'[s] = req[s], ctx'[s] = ctx[s], answer'[s] = answer[s]
  PROVE  WindowOK(s)'
<1>0. WindowOK(s)
  BY DEF WInv
<1>1. CASE pc[s] \notin Serving
  BY <1>0, <1>1, Watched DEF WindowOK, Early, Serving
<1>2. CASE pc[s] \in Serving
  <2>1. seen[s] \subseteq seen'[s] /\ Look(s)' \in seen'[s]
    BY <1>2, Grown
  <2>2. ctx'[s].agent # None => Granted(s)'
    BY <1>0, <1>2, <2>1 DEF WindowOK, Granted, Contribution, RolesOf
  <2>3. Refused(s)'
    BY <1>0, <1>2, <2>1 DEF WindowOK, Refused
  <2>4. Sober(s)'
    BY <1>0, <1>2 DEF WindowOK, Sober
  <2>5. pc'[s] = "product" => Found(s)'
    <3> SUFFICES ASSUME Found(s) PROVE Found(s)'
      BY <1>0 DEF WindowOK
    <3>1. /\ installations'[req[s].azp] # None
          /\ installations'[req[s].azp].agent = ctx[s].product
      BY DEF Found, RowsKept
    <3> QED
      BY <2>1, <3>1 DEF Found
  <2> QED
    BY <1>0, <1>2, <2>1, <2>2, <2>3, <2>4, <2>5 DEF WindowOK
<1> QED
  BY <1>1, <1>2

\* A step of the call itself, other than its two looks.
LEMMA Onward ==
  ASSUME WInv, Observe, NEW s \in Servers,
         pc[s] \in Serving, pc'[s] \in Serving \ {"product"}, req'[s] = req[s],
         ctx'[s].agent = ctx[s].agent, ctx'[s].attrs = ctx[s].attrs,
         ctx'[s].claims = ctx[s].claims \/ pc[s] = "identity",
         pc'[s] \in Early => pc[s] \in Early,
         answer'[s] # None =>
           \/ answer'[s] = answer[s] /\ ctx'[s].claims = ctx[s].claims
           \/ answer'[s].cause \notin {"installation", "product"} /\ Sober(s)',
         pc'[s] \in {"keygen", "store", "decrypt"} => ctx'[s].claims.attrs # <<>>
  PROVE  WindowOK(s)'
<1>0. WindowOK(s)
  BY DEF WInv
<1>1. seen[s] \subseteq seen'[s] /\ Look(s)' \in seen'[s]
  BY Grown
<1>2. ctx'[s].agent # None => Granted(s)'
  BY <1>0, <1>1 DEF WindowOK, Granted, Contribution, RolesOf, Early
<1>3. Refused(s)'
  BY <1>0, <1>1 DEF WindowOK, Refused
<1>4. Sober(s)'
  BY <1>0 DEF WindowOK, Sober
<1>5. pc'[s] \in Early => ctx'[s].agent = None
  BY <1>0 DEF WindowOK
<1> QED
  BY <1>1, <1>2, <1>3, <1>4, <1>5 DEF WindowOK

----------------------------------------------------------------------------
(* The steps of a call.                                                    *)

\* An ended call: what it says, and how.
LEMMA Ending ==
  ASSUME TypeOK, NEW s \in Servers, NEW result, NEW cause, NEW readable,
         End(s, result, cause, readable)
  PROVE  /\ pc'[s] = "audit file"
         /\ answer'[s].result = result /\ answer'[s].cause = cause
         /\ answer'[s].readable = readable
BY DEF TypeOK, End, Goto

LEMMA FailedEnd ==
  ASSUME WInv, Observe, NEW s \in Servers, pc[s] \in Serving,
         NEW result \in {"denied", "error"},
         NEW cause \in Causes \ {"installation", "product"},
         End(s, result, cause, {}), UNCHANGED <<req, ctx>>
  PROVE  WindowOK(s)'
<1>1. /\ pc'[s] = "audit file" /\ answer'[s].result # "ok"
      /\ answer'[s].cause = cause /\ answer'[s].readable = {}
  BY Ending DEF WInv, IInv
<1>2. Sober(s)'
  BY <1>1 DEF Sober
<1> QED
  BY <1>1, <1>2, Onward DEF Serving, Early

LEMMA IdentifyWindow ==
  ASSUME WInv, Observe, NEW s \in Servers, Identify(s)
  PROVE  WindowOK(s)'
<1>1. /\ pc[s] = "identity" /\ pc'[s] = "agent token" /\ req' = req
      /\ ctx'[s].agent = ctx[s].agent /\ ctx'[s].attrs = ctx[s].attrs
  BY DEF WInv, IInv, TypeOK, Identify, Goto, Local, Contexts
<1>2. answer' = answer /\ answer[s] = None
  BY <1>1 DEF WInv, IInv, CallOK, Ended, Identify
<1> QED
  BY <1>1, <1>2, Onward DEF Serving, Early

LEMMA TokensWindow ==
  ASSUME WInv, Observe, NEW s \in Servers, Unidentified(s) \/ VerifyAgentToken(s)
  PROVE  WindowOK(s)'
<1>1. /\ pc[s] \in {"identity", "agent token"} /\ UNCHANGED <<req, ctx>>
      /\ \/ pc'[s] \in {"agent token", "installation"} /\ answer' = answer
         \/ Deny(s, "identity") \/ Deny(s, "agent token")
  BY DEF WInv, IInv, TypeOK, Unidentified, VerifyAgentToken, Goto
<1>2. CASE pc'[s] \in {"agent token", "installation"} /\ answer' = answer
  BY <1>1, <1>2, Onward DEF Serving, Early
<1>3. CASE Deny(s, "identity") \/ Deny(s, "agent token")
  BY <1>1, <1>3, FailedEnd DEF Deny, Causes, Serving
<1> QED
  BY <1>1, <1>2, <1>3

LEMMA ReadInstallationWindow ==
  ASSUME WInv, Observe, NEW s \in Servers, ReadInstallation(s)
  PROVE  WindowOK(s)'
<1> DEFINE row == installations[req[s].azp]
<1>1. /\ pc[s] = "installation" /\ req[s].azp \in Clients /\ answer[s] = None
      /\ UNCHANGED <<agents, installations, req>> /\ ctx[s].agent = None
  BY DEF WInv, IInv, CallOK, WindowOK, Early, Ended, ReadInstallation
<1>2. Entry' = Entry /\ Look(s)'.inst = row
  BY <1>1, EntryIs DEF Look, Entry, Contract!Entry
<1>3. pc'[s] \in {"product", "audit file"}
  BY DEF WInv, IInv, TypeOK, ReadInstallation, Deny, End, Goto
<1>4. seen[s] \subseteq seen'[s] /\ Look(s)' \in seen'[s]
  BY <1>1, <1>3, Grown DEF Serving
<1>5. CASE Active(row) /\ pc'[s] = "product" /\ UNCHANGED answer
           /\ Local(s, [ctx[s] EXCEPT !.product = row.agent])
  <2>1. ctx'[s].product = row.agent /\ ctx'[s].agent = None
    BY <1>1, <1>5 DEF WInv, IInv, TypeOK, Local, Contexts
  <2>2. Found(s)'
    BY <1>1, <1>2, <1>4, <1>5, <2>1 DEF Found, Active
  <2>3. Refused(s)' /\ Sober(s)'
    BY <1>1, <1>5 DEF Refused, Sober
  <2> QED
    BY <1>4, <1>5, <2>1, <2>2, <2>3 DEF WindowOK, Early, Serving
<1>6. CASE ~Active(row) /\ Deny(s, "installation") /\ UNCHANGED ctx
  <2>1. /\ pc'[s] = "audit file" /\ answer'[s].cause = "installation"
        /\ answer'[s].result = "denied" /\ answer'[s].readable = {}
    BY <1>6, Ending DEF WInv, IInv, Deny
  <2>2. Refused(s)'
    BY <1>2, <1>4, <1>6, <2>1 DEF Refused
  <2>3. Sober(s)'
    BY <2>1 DEF Sober
  <2> QED
    BY <1>1, <1>4, <1>6, <2>1, <2>2, <2>3 DEF WindowOK, Early, Serving
<1>7. pc'[s] = "product" \/ ~Active(row)
  BY DEF WInv, IInv, TypeOK, ReadInstallation, Goto
<1> QED
  BY <1>5, <1>6, <1>7 DEF WInv, IInv, TypeOK, ReadInstallation, Goto

LEMMA ReadAgentWindow ==
  ASSUME WInv, Observe, NEW s \in Servers, ReadAgent(s)
  PROVE  WindowOK(s)'
<1> DEFINE row == agents[ctx[s].product]
<1>1. /\ pc[s] = "product" /\ Found(s) /\ answer[s] = None
      /\ UNCHANGED <<agents, installations, req>> /\ ctx[s].agent = None
      /\ ctx[s].product \in Agents
  BY DEF WInv, IInv, CallOK, WindowOK, Early, Ended, ReadAgent
<1>2. Entry' = Entry /\ Look(s)'.prod = row
  BY <1>1, EntryIs DEF Look, Entry, Contract!Entry, Found
<1>3. pc'[s] \in {"lookup", "audit file"}
  BY DEF WInv, IInv, TypeOK, ReadAgent, Deny, End, Goto
<1>4. seen[s] \subseteq seen'[s] /\ Look(s)' \in seen'[s]
  BY <1>1, <1>3, Grown DEF Serving
<1>5. PICK v \in seen'[s] : Active(v.inst) /\ v.inst.agent = ctx[s].product
  BY <1>1, <1>4 DEF Found
<1>6. CASE /\ Enabled(row)
           /\ Local(s, [ctx[s] EXCEPT !.agent = ctx[s].product,
                                      !.attrs = Contribution(s, row)])
           /\ \/ pc'[s] = "lookup" /\ UNCHANGED answer
              \/ req[s].tool # "read_document" /\ End(s, "ok", "none", {})
  <2>1. /\ ctx'[s].agent = ctx[s].product /\ ctx'[s].claims = ctx[s].claims
        /\ ctx'[s].attrs = Contribution(s, row)
    BY <1>6 DEF WInv, IInv, TypeOK, Local, Contexts
  <2>2. Granted(s)'
    BY <1>2, <1>4, <1>5, <1>6, <2>1 DEF Granted, Contribution, RolesOf
  <2>3. Refused(s)' /\ Sober(s)'
    <3>1. CASE UNCHANGED answer
      BY <1>1, <3>1 DEF Refused, Sober
    <3>2. CASE req[s].tool # "read_document" /\ End(s, "ok", "none", {})
      <4>1. /\ answer'[s].cause = "none"
            /\ answer'[s].result = "ok" /\ answer'[s].readable = {}
        BY <3>2, Ending DEF WInv, IInv
      <4> QED
        BY <1>1, <2>1, <3>2, <4>1, WindowAssumption DEF Refused, Sober
    <3> QED BY <1>6, <3>1, <3>2
  <2> QED
    BY <1>3, <1>4, <2>2, <2>3 DEF WindowOK, Early, Serving
<1>7. CASE ~Enabled(row) /\ Deny(s, "product") /\ UNCHANGED ctx
  <2>1. /\ pc'[s] = "audit file" /\ answer'[s].cause = "product"
        /\ answer'[s].result = "denied" /\ answer'[s].readable = {}
    BY <1>7, Ending DEF WInv, IInv, Deny
  <2>2. Refused(s)'
    BY <1>2, <1>4, <1>5, <1>7, <2>1 DEF Refused
  <2>3. Sober(s)'
    BY <2>1 DEF Sober
  <2> QED
    BY <1>1, <1>4, <1>7, <2>1, <2>2, <2>3 DEF WindowOK, Early, Serving
<1>8. (Goto(s, "lookup") => pc'[s] = "lookup")
  BY DEF WInv, IInv, TypeOK, Goto
<1> QED
  BY <1>6, <1>7, <1>8 DEF ReadAgent

LEMMA KeyWindow ==
  ASSUME WInv, Observe, NEW s \in Servers, LookupKey(s) \/ Keygen(s) \/ StoreKey(s)
  PROVE  WindowOK(s)'
<1>1. /\ pc[s] \in {"lookup", "keygen", "store"} /\ req' = req /\ answer[s] = None
      /\ pc[s] # "lookup" => ctx[s].claims.attrs # <<>>
  BY DEF WInv, IInv, CallOK, WindowOK, Ended, LookupKey, Keygen, StoreKey
<1>2. \/ /\ pc'[s] \in {"keygen", "store", "decrypt"} /\ answer' = answer
         /\ ctx[s].claims.attrs # <<>>
         /\ ctx'[s].agent = ctx[s].agent /\ ctx'[s].attrs = ctx[s].attrs
         /\ ctx'[s].claims = ctx[s].claims
      \/ Deny(s, "no attributes") /\ ctx' = ctx
  <2> USE DEF WInv, IInv, TypeOK, Goto, Local, Contexts
  <2>1. CASE LookupKey(s)
    <3>1. CASE Deny(s, "no attributes") /\ UNCHANGED ctx
      BY <3>1
    <3>2. CASE Goto(s, "decrypt") /\ UNCHANGED answer
      BY <1>1, <2>1, <3>2 DEF LookupKey, Deny, End
    <3>3. CASE Goto(s, "keygen") /\ UNCHANGED <<ctx, answer>>
      BY <1>1, <2>1, <3>3 DEF LookupKey, Deny, End
    <3> QED
      BY <2>1, <3>1, <3>2, <3>3 DEF LookupKey
  <2>2. CASE Keygen(s)
    BY <1>1, <2>2 DEF Keygen
  <2>3. CASE StoreKey(s)
    BY <1>1, <2>3 DEF StoreKey
  <2> QED
    BY <2>1, <2>2, <2>3
<1>3. CASE Deny(s, "no attributes") /\ ctx' = ctx
  BY <1>1, <1>3, FailedEnd DEF Deny, Causes, Serving
<1> QED
  BY <1>1, <1>2, <1>3, Onward DEF Serving, Early

LEMMA DecryptWindow ==
  ASSUME WInv, Observe, NEW s \in Servers, Decrypt(s)
  PROVE  WindowOK(s)'
<1>1. PICK readable : End(s, "ok", "none", readable)
  BY DEF Decrypt
<1>2. /\ pc[s] = "decrypt" /\ UNCHANGED <<req, ctx>>
      /\ ctx[s].claims \in Claims /\ ctx[s].agent \in Agents
      /\ ctx[s].claims.attrs # <<>>
  BY DEF WInv, IInv, CallOK, WindowOK, Decrypt
<1>3. /\ pc'[s] = "audit file" /\ answer'[s].result = "ok" /\ answer'[s].cause = "none"
  BY <1>1, Ending DEF WInv, IInv
<1>4. Sober(s)'
  BY <1>2, <1>3, WindowAssumption DEF Sober
<1> QED
  BY <1>2, <1>3, <1>4, Onward DEF Serving, Early

LEMMA EndsWindow ==
  ASSUME WInv, Observe, NEW s \in Servers, Fail(s) \/ AuditFile(s) \/ AuditTable(s)
  PROVE  WindowOK(s)'
<1>1. CASE Fail(s)
  <2>1. pc[s] \in Serving /\ End(s, "error", "exception", {}) /\ UNCHANGED <<req, ctx>>
    BY <1>1 DEF Fail, Serving
  <2> QED
    BY <2>1, FailedEnd DEF Causes
<1>2. CASE AuditFile(s)
  <2>1. /\ pc[s] = "audit file" /\ pc'[s] = "audit table" /\ UNCHANGED <<req, ctx, answer>>
    BY <1>2 DEF WInv, IInv, TypeOK, AuditFile, Goto
  <2> QED
    BY <2>1, Onward DEF Serving, Early
<1>3. CASE AuditTable(s)
  <2>1. pc'[s] = "done"
    BY <1>3 DEF WInv, IInv, TypeOK, AuditTable, Goto
  <2> QED
    BY <2>1, Watched DEF WindowOK, Serving, Early
<1> QED
  BY <1>1, <1>2, <1>3

LEMMA EdgesWindow ==
  ASSUME WInv, Observe, NEW s \in Servers, Begin(s) \/ Reject(s) \/ Crash(s)
  PROVE  WindowOK(s)'
<1>1. /\ pc'[s] \in {"identity", "rejected", "idle"}
      /\ ctx'[s] = NoContext /\ answer'[s] = None
  BY DEF WInv, IInv, TypeOK, Begin, Reject, Crash, Goto, Local
<1>2. ctx'[s].agent = None
  BY <1>1 DEF NoContext
<1> QED
  BY <1>1, <1>2, Watched DEF WindowOK, Serving, Early, Refused, Sober

----------------------------------------------------------------------------

\* A step of one process leaves the calls of all others alone.
LEMMA OthersAlone ==
  ASSUME TypeOK, NEW s \in Servers, Begin(s) \/ Reject(s) \/ ServeStep(s) \/ Crash(s),
         NEW x \in Servers \ {s}
  PROVE  /\ pc'[x] = pc[x] /\ req'[x] = req[x]
         /\ ctx'[x] = ctx[x] /\ answer'[x] = answer[x]
<1> USE DEF TypeOK, Goto, Local, End, Deny
<1>1. CASE Begin(s) \/ Reject(s) \/ Crash(s)
  BY <1>1 DEF Begin, Reject, Crash
<1>2. CASE Identify(s) \/ Unidentified(s) \/ VerifyAgentToken(s) \/ ReadInstallation(s)
  BY <1>2 DEF Identify, Unidentified, VerifyAgentToken, ReadInstallation
<1>3. CASE ReadAgent(s)
  BY <1>3 DEF ReadAgent
<1>4. CASE LookupKey(s) \/ Keygen(s) \/ StoreKey(s) \/ Decrypt(s) \/ Fail(s)
  BY <1>4 DEF LookupKey, Keygen, StoreKey, Decrypt, Fail
<1>5. CASE AuditFile(s) \/ AuditTable(s)
  BY <1>5 DEF AuditFile, AuditTable
<1> QED
  BY <1>1, <1>2, <1>3, <1>4, <1>5 DEF ServeStep

LEMMA ProcessRegistry ==
  ASSUME NEW s \in Servers, Begin(s) \/ Reject(s) \/ ServeStep(s) \/ Crash(s)
  PROVE  UNCHANGED <<agents, installations>>
BY DEF Begin, Reject, Crash, ServeStep, Identify, Unidentified, VerifyAgentToken,
   ReadInstallation, ReadAgent, LookupKey, Keygen, StoreKey, Decrypt, Fail,
   AuditFile, AuditTable

LEMMA AdminCalls ==
  ASSUME AdminStep PROVE UNCHANGED <<pc, req, ctx, answer>>
BY DEF AdminStep, AddAgent, SetAgentEnabled, AddInstallation, SetInstallationRevoked

LEMMA NextKeepsWindows == WInv /\ [WindowNext]_<<vars, seen>> => WInv'
<1> SUFFICES ASSUME WInv, [WindowNext]_<<vars, seen>> PROVE WInv'
  OBVIOUS
<1>1. IInv'
  BY NextKeepsIInv DEF WInv, WindowNext, vars
<1>2. CASE UNCHANGED <<vars, seen>>
  BY <1>1, <1>2 DEF vars, WInv, WindowTypeOK, WindowOK, Look, Entry, Contract!Entry,
     Granted, Contribution, RolesOf, Found, Refused, Sober
<1>3. CASE Next /\ Observe
  <2>1. WindowTypeOK'
    BY <1>1, <1>3, WatchedType
  <2>2. ASSUME NEW s \in Servers, Begin(s) \/ Reject(s) \/ ServeStep(s) \/ Crash(s),
               NEW x \in Servers
        PROVE  WindowOK(x)'
    <3>1. RowsKept
      BY <1>1, <2>2, ProcessRegistry, AdminRows DEF WInv, IInv
    <3>2. CASE x = s
      BY <1>3, <2>2, <3>2, EdgesWindow, IdentifyWindow, TokensWindow,
         ReadInstallationWindow, ReadAgentWindow, KeyWindow, DecryptWindow, EndsWindow
         DEF ServeStep
    <3>3. CASE x # s
      BY <1>3, <2>2, <3>1, <3>3, OthersAlone, Untouched DEF WInv, IInv
    <3> QED BY <3>2, <3>3
  <2>3. ASSUME AdminStep, NEW x \in Servers PROVE WindowOK(x)'
    <3>1. RowsKept
      BY <1>1, <2>3, AdminRows DEF WInv, IInv
    <3> QED
      BY <1>3, <2>3, <3>1, AdminCalls, Untouched
  <2> QED
    BY <1>1, <1>3, <2>1, <2>2, <2>3 DEF WInv, Next
<1> QED
  BY <1>2, <1>3 DEF WindowNext

LEMMA InitWindows == WindowInit => WInv
<1> SUFFICES ASSUME WindowInit PROVE WInv
  OBVIOUS
<1>1. IInv
  BY InitIInv DEF WindowInit
<1>2. WindowTypeOK
  BY DEF WindowInit, Init, WindowTypeOK, Serving
<1>3. ASSUME NEW s \in Servers PROVE WindowOK(s)
  BY DEF WindowInit, Init, WindowOK, Serving, Early
<1> QED
  BY <1>1, <1>2, <1>3 DEF WInv

\* AccessWindows only observes: with the history of the registry beside it the
\* server keeps every promise it keeps without, for the same reasons.
THEOREM WindowKeepsServer ==
  WindowSpec => [](/\ TypeOK /\ CachedKeysMatchHashes /\ KeyIsForThisCall
                   /\ ReadableIsEntitled /\ AnswersAreAudited)
<1>1. WindowInit => Init
  BY DEF WindowInit
<1>2. [WindowNext]_<<vars, seen>> => [Next]_vars
  BY DEF WindowNext
<1>3. IInv => TypeOK /\ CachedKeysMatchHashes /\ KeyIsForThisCall /\ ReadableIsEntitled
  BY DEF IInv, CallOK, KeyIsForThisCall, ReadableIsEntitled
<1> QED BY <1>1, <1>2, <1>3, SafelyInvariant, SafelyAudited, PTL DEF WindowSpec

LEMMA WindowsKept == WindowSpec => []WInv
BY InitWindows, NextKeepsWindows, PTL DEF WindowSpec

\* The history of every call holds entries the two tables could have produced,
\* for any number of processes and any registry.
THEOREM WindowTypes == WindowSpec => []WindowTypeOK
<1>1. WInv => WindowTypeOK
  BY DEF WInv
<1> QED BY <1>1, WindowsKept, PTL

\* An agent counts, and contributes, only what the registry offered during that
\* very call: a revocation or a disabling that was over before is obeyed.
THEOREM GrantsAlwaysOffered == WindowSpec => []GrantsWereOffered
<1>1. ASSUME WInv PROVE GrantsWereOffered
  <2> SUFFICES ASSUME NEW s \in Servers, pc[s] \in Serving, ctx[s].agent # None
               PROVE  \E v, w \in seen[s] :
                        /\ Contract!Active(v.inst) /\ v.inst.agent = ctx[s].agent
                        /\ Contract!Enabled(w.prod)
                        /\ ctx[s].attrs # <<>> =>
                             w.prod.role \in RolesOf(s) /\ w.prod.attrs = ctx[s].attrs
    BY DEF GrantsWereOffered
  <2>1. PICK v, w \in seen[s] :
          /\ Active(v.inst) /\ v.inst.agent = ctx[s].agent
          /\ Enabled(w.prod) /\ ctx[s].attrs = Contribution(s, w.prod)
    BY <1>1 DEF WInv, WindowOK, Granted
  <2> QED
    BY <2>1 DEF Active, Enabled, Contract!Active, Contract!Enabled, Contribution
<1> QED BY <1>1, WindowsKept, PTL

\* Nobody is refused for a state of the registry that was over before the call.
THEOREM RefusalsAlwaysHaveCause == WindowSpec => []RefusalsHadCause
<1>1. ASSUME WInv PROVE RefusalsHadCause
  <2>1. ASSUME NEW s \in Servers, pc[s] \in Serving PROVE Refused(s)
    BY <1>1, <2>1 DEF WInv, WindowOK
  <2> QED
    BY <2>1 DEF RefusalsHadCause, Refused, Active, Enabled, Contract!Active, Contract!Enabled
<1> QED BY <1>1, WindowsKept, PTL

----------------------------------------------------------------------------
(* The refinement: which step of AccessContract each step is, if any.      *)

OpenNow == [s \in Servers |-> IF pc[s] \in Serving THEN req[s] ELSE None]
ReplyNow == [s \in Servers |-> Reply(s)]
Outside == <<agents, installations, OpenNow, seen, ReplyNow>>

LEMMA AsRequest ==
  ASSUME NEW s \in Servers, NEW r \in Requests,
         OpenNow' = [OpenNow EXCEPT ![s] = r],
         seen' = [seen EXCEPT ![s] = {Entry[r.azp]}],
         ReplyNow' = [ReplyNow EXCEPT ![s] = None], UNCHANGED <<agents, installations>>
  PROVE  Contract!Next
BY DEF Contract!Next, Contract!Request, OpenNow, ReplyNow, Entry

LEMMA AsDrop ==
  ASSUME NEW s \in Servers, OpenNow' = [OpenNow EXCEPT ![s] = None],
         seen' = [seen EXCEPT ![s] = {}],
         ReplyNow' = [ReplyNow EXCEPT ![s] = None], UNCHANGED <<agents, installations>>
  PROVE  Contract!Next
BY DEF Contract!Next, Contract!Drop, OpenNow, ReplyNow

LEMMA AsReply ==
  ASSUME NEW s \in Servers, OpenNow[s] # None,
         ReplyNow'[s] \in Contract!Replies, Contract!Allowed(s, ReplyNow'[s]),
         OpenNow' = [OpenNow EXCEPT ![s] = None],
         seen' = [seen EXCEPT ![s] = {}],
         ReplyNow' = [ReplyNow EXCEPT ![s] = ReplyNow'[s]],
         UNCHANGED <<agents, installations>>
  PROVE  Contract!Next
BY DEF Contract!Next, Contract!Reply, OpenNow, ReplyNow

\* What is visible of a process that takes no step.
LEMMA Unseen ==
  ASSUME WInv, WInv', Observe, UNCHANGED <<agents, installations>>, NEW x \in Servers,
         pc'[x] = pc[x], req'[x] = req[x], ctx'[x] = ctx[x], answer'[x] = answer[x]
  PROVE  OpenNow'[x] = OpenNow[x] /\ seen'[x] = seen[x] /\ ReplyNow'[x] = ReplyNow[x]
<1>1. Look(x)' = Look(x)
  BY DEF Look, Entry, Contract!Entry
<1>2. seen'[x] = seen[x]
  BY <1>1, Watched DEF WInv, WindowOK
<1> QED
  BY <1>2 DEF OpenNow, ReplyNow, Reply, Record

\* Only the process that steps is seen to do anything.
LEMMA OneSeen ==
  ASSUME WInv, WInv', Observe, NEW s \in Servers,
         Begin(s) \/ Reject(s) \/ ServeStep(s) \/ Crash(s)
  PROVE  /\ OpenNow' = [OpenNow EXCEPT ![s] = OpenNow'[s]]
         /\ seen' = [seen EXCEPT ![s] = seen'[s]]
         /\ ReplyNow' = [ReplyNow EXCEPT ![s] = ReplyNow'[s]]
         /\ UNCHANGED <<agents, installations>>
<1>1. UNCHANGED <<agents, installations>>
  BY ProcessRegistry
<1>2. \A x \in Servers \ {s} :
        OpenNow'[x] = OpenNow[x] /\ seen'[x] = seen[x] /\ ReplyNow'[x] = ReplyNow[x]
  BY <1>1, OthersAlone, Unseen DEF WInv, IInv
<1>3. /\ OpenNow = [x \in Servers |-> OpenNow[x]] /\ OpenNow' = [x \in Servers |-> OpenNow'[x]]
      /\ ReplyNow = [x \in Servers |-> ReplyNow[x]] /\ ReplyNow' = [x \in Servers |-> ReplyNow'[x]]
  BY DEF OpenNow, ReplyNow
<1>4. seen = [x \in Servers |-> seen[x]] /\ seen' = [x \in Servers |-> seen'[x]]
  BY DEF WInv, WindowTypeOK
<1> QED
  BY <1>1, <1>2, <1>3, <1>4

\* What it takes for a reply to be allowed while its process serves.
LEMMA AllowedAnswer ==
  ASSUME NEW s \in Servers, pc[s] \in Serving, NEW rep, rep.result = "ok",
         NEW v \in seen[s], NEW w \in seen[s],
         Contract!Active(v.inst), rep.agent = v.inst.agent, Contract!Enabled(w.prod),
         \/ rep.readable = {} /\ req[s].tool # "read_document"
         \/ \E c \in Claims :
              /\ c.attrs # <<>> /\ rep.user = c.user
              /\ rep.readable \subseteq Contract!Entitled(req[s].doc, Contract!Together(c, w.prod))
  PROVE  Contract!Allowed(s, rep)
<1>1. [x \in Servers |-> IF pc[x] \in Serving THEN req[x] ELSE None][s] = req[s]
  OBVIOUS
<1> QED
  BY <1>1 DEF Contract!Allowed

\* An answered call's reply is one the contract allows.
LEMMA ReplyAllowed ==
  ASSUME WInv, NEW s \in Servers, pc[s] = "audit table",
         NEW rep, rep = [result |-> answer[s].result, user |-> Record(s).user,
                         agent |-> ctx[s].agent, readable |-> answer[s].readable]
  PROVE  rep \in Contract!Replies /\ Contract!Allowed(s, rep)
<1>1. /\ answer[s] \in Answers /\ answer[s] # None /\ req[s] \in Requests
      /\ ctx[s] \in Contexts /\ Sober(s) /\ pc[s] \in Serving
      /\ ctx[s].agent # None => Granted(s)
  BY ConstantsAssumption DEF WInv, IInv, TypeOK, CallOK, Ended, WindowOK, Serving
<1>2. Record(s) \in Records
  BY <1>1, RecordType DEF WInv, IInv
<1>3. rep \in Contract!Replies
  BY <1>1, <1>2 DEF Answers, Contexts, Records, Contract!Replies
<1>4. CASE answer[s].result # "ok"
  <2>1. rep.result \in {"denied", "error"} /\ rep.readable = {}
    BY <1>1, <1>4 DEF Sober, Answers
  <2>2. Contract!Allowed(s, rep)
    BY <2>1 DEF Contract!Allowed
  <2> QED BY <1>3, <2>2
<1>5. CASE answer[s].result = "ok"
  <2>1. /\ ctx[s].agent # None
        /\ \/ answer[s].readable = {} /\ req[s].tool # "read_document"
           \/ ctx[s].claims \in Claims /\ ctx[s].claims.attrs # <<>>
    BY <1>1, <1>5 DEF Sober
  <2>2. PICK v, w \in seen[s] :
          /\ Active(v.inst) /\ v.inst.agent = ctx[s].agent
          /\ Enabled(w.prod) /\ ctx[s].attrs = Contribution(s, w.prod)
    BY <1>1, <2>1 DEF Granted
  <2>3. /\ Contract!Active(v.inst) /\ rep.agent = v.inst.agent /\ Contract!Enabled(w.prod)
        /\ rep.result = "ok" /\ rep.readable = answer[s].readable
    BY <1>5, <2>2 DEF Active, Enabled, Contract!Active, Contract!Enabled
  <2>4. CASE answer[s].readable = {} /\ req[s].tool # "read_document"
    BY <1>1, <1>3, <2>3, <2>4, AllowedAnswer
  <2>5. CASE ctx[s].claims \in Claims /\ ctx[s].claims.attrs # <<>>
    <3>1. rep.user = ctx[s].claims.user
      BY <2>5, WindowAssumption DEF Record
    <3>2. Combined(s) = Contract!Together(ctx[s].claims, w.prod)
      <4>1. RolesOf(s) = ctx[s].claims.roles
        BY <2>5, WindowAssumption DEF RolesOf
      <4> QED BY <2>2, <4>1 DEF Combined, Contract!Together, Contribution
    <3>3. answer[s].readable \subseteq Contract!Entitled(req[s].doc, Contract!Together(ctx[s].claims, w.prod))
      <4>1. answer[s].readable \subseteq Entitled(req[s].doc, Combined(s))
        BY <1>1 DEF WInv, IInv, CallOK, Ended
      <4> QED
        BY <3>2, <4>1 DEF Entitled, Contract!Entitled, TokensOf, Contract!TokensOf
    <3> QED
      BY <1>1, <1>3, <2>3, <2>5, <3>1, <3>3, AllowedAnswer
  <2> QED BY <2>1, <2>4, <2>5
<1> QED BY <1>3, <1>4, <1>5

\* A step inside a call is invisible.
LEMMA InsideUnseen ==
  ASSUME WInv, WInv', Observe, NEW s \in Servers,
         Begin(s) \/ Reject(s) \/ ServeStep(s) \/ Crash(s),
         pc[s] \in Serving, pc'[s] \in Serving, req'[s] = req[s]
  PROVE  UNCHANGED Outside
<1>1. UNCHANGED <<agents, installations>>
  BY OneSeen
<1>2. Look(s)' = Look(s)
  BY <1>1 DEF Look, Entry, Contract!Entry
<1>3. seen'[s] = seen[s]
  BY <1>2, Watched DEF WInv, WindowOK
<1>4. OpenNow'[s] = OpenNow[s]
  BY DEF OpenNow
<1>5. ReplyNow'[s] = ReplyNow[s]
  BY DEF ReplyNow, Reply, Serving
<1>6. /\ OpenNow = [x \in Servers |-> OpenNow[x]] /\ ReplyNow = [x \in Servers |-> ReplyNow[x]]
      /\ seen = [x \in Servers |-> seen[x]]
  BY DEF OpenNow, ReplyNow, WInv, WindowTypeOK
<1>7. /\ OpenNow' = [OpenNow EXCEPT ![s] = OpenNow'[s]]
      /\ seen' = [seen EXCEPT ![s] = seen'[s]]
      /\ ReplyNow' = [ReplyNow EXCEPT ![s] = ReplyNow'[s]]
  BY OneSeen
<1> QED
  BY <1>1, <1>3, <1>4, <1>5, <1>6, <1>7 DEF Outside

LEMMA CallStepsKeepContract ==
  ASSUME WInv, WInv', Observe, NEW s \in Servers,
         Begin(s) \/ Reject(s) \/ ServeStep(s) \/ Crash(s)
  PROVE  Contract!Next \/ UNCHANGED Outside
<1>1. /\ OpenNow' = [OpenNow EXCEPT ![s] = OpenNow'[s]]
      /\ seen' = [seen EXCEPT ![s] = seen'[s]]
      /\ ReplyNow' = [ReplyNow EXCEPT ![s] = ReplyNow'[s]]
      /\ UNCHANGED <<agents, installations>>
  BY OneSeen
<1>2. /\ pc \in [Servers -> Serving \cup Resting] /\ req \in [Servers -> Requests \cup {None}]
      /\ ctx \in [Servers -> Contexts] /\ answer \in [Servers -> Answers \cup {None}]
  BY DEF WInv, IInv, TypeOK
<1>3. CASE Begin(s)
  <2>1. PICK r \in Requests : req' = [req EXCEPT ![s] = r]
    BY <1>3 DEF Begin
  <2>2. pc[s] \notin Serving /\ pc'[s] \in Serving /\ pc'[s] # "done" /\ req'[s] = r
    BY <1>2, <1>3, <2>1 DEF Begin, Goto, Serving, Resting
  <2>3. Look(s)' = Entry[r.azp]
    BY <1>1, <2>2 DEF Look, Entry, Contract!Entry
  <2>4. seen'[s] = {Entry[r.azp]}
    BY <2>2, <2>3, Watched
  <2>5. OpenNow'[s] = r /\ ReplyNow'[s] = None
    BY <2>2 DEF OpenNow, ReplyNow, Reply
  <2> QED BY <1>1, <2>4, <2>5, AsRequest
<1>4. CASE Reject(s) \/ Crash(s)
  <2>1. pc'[s] \notin Serving /\ pc'[s] # "done"
    BY <1>2, <1>4 DEF Reject, Crash, Goto, Serving
  <2>2. OpenNow'[s] = None /\ ReplyNow'[s] = None /\ seen'[s] = {}
    BY <2>1, Watched DEF OpenNow, ReplyNow, Reply
  <2> QED BY <1>1, <2>2, AsDrop
<1>5. CASE AuditTable(s)
  <2>1. /\ pc[s] = "audit table" /\ pc'[s] = "done"
        /\ answer'[s] = answer[s] /\ ctx'[s] = ctx[s] /\ pc[s] \in Serving
    BY <1>2, <1>5 DEF AuditTable, Goto, Serving
  <2>2. OpenNow'[s] = None /\ seen'[s] = {}
    BY <2>1, Watched DEF OpenNow, Serving
  <2>3. ReplyNow'[s] = [result |-> answer[s].result, user |-> Record(s).user,
                        agent |-> ctx[s].agent, readable |-> answer[s].readable]
    BY <2>1 DEF ReplyNow, Reply, Record
  <2>4. ReplyNow'[s] \in Contract!Replies /\ Contract!Allowed(s, ReplyNow'[s])
    BY <2>1, <2>3, ReplyAllowed
  <2>5. OpenNow[s] # None
    <3>1. req[s] \in Requests
      BY <2>1 DEF WInv, IInv, CallOK
    <3> QED BY <2>1, <3>1, WindowAssumption DEF OpenNow
  <2> QED BY <1>1, <2>2, <2>4, <2>5, AsReply
<1>6. CASE ServeStep(s) /\ ~AuditTable(s)
  <2>1. pc[s] \in Serving /\ pc'[s] \in Serving /\ req'[s] = req[s]
    BY <1>2, <1>6 DEF ServeStep, Identify, Unidentified, VerifyAgentToken, ReadInstallation,
       ReadAgent, LookupKey, Keygen, StoreKey, Decrypt, Fail, AuditFile, Goto, Deny, End, Serving
  <2> QED BY <1>6, <2>1, InsideUnseen
<1> QED
  BY <1>3, <1>4, <1>5, <1>6

\* An administrator's statement is one of the contract's.
LEMMA AdminKeepsContract ==
  ASSUME WInv, WInv', Observe, AdminStep
  PROVE  Contract!Next
<1>1. UNCHANGED <<pc, req, ctx, answer>>
  BY DEF AdminStep, AddAgent, SetAgentEnabled, AddInstallation, SetInstallationRevoked
<1>2. OpenNow' = OpenNow /\ ReplyNow' = ReplyNow
  BY <1>1 DEF OpenNow, ReplyNow, Reply, Record
<1>3. \A s \in Servers : OpenNow[s] = None <=> pc[s] \notin Serving
  BY WindowAssumption DEF OpenNow, WInv, IInv, CallOK
<1>4. seen' = [s \in Servers |-> IF OpenNow[s] = None THEN seen[s]
                                 ELSE seen[s] \cup {Entry'[OpenNow[s].azp]}]
  <2>1. ASSUME NEW s \in Servers
        PROVE  (IF pc'[s] \notin Serving THEN {}
                ELSE (IF pc[s] \in Serving THEN seen[s] ELSE {}) \cup {Entry'[req'[s].azp]})
               = IF OpenNow[s] = None THEN seen[s]
                 ELSE seen[s] \cup {Entry'[OpenNow[s].azp]}
    <3>1. CASE pc[s] \in Serving
      <4>1. OpenNow[s] = req[s] /\ OpenNow[s] # None /\ req'[s] = req[s] /\ pc'[s] = pc[s]
        BY <1>1, <1>3, <3>1 DEF OpenNow
      <4> QED BY <3>1, <4>1
    <3>2. CASE pc[s] \notin Serving
      BY <1>1, <1>3, <3>2 DEF WInv, WindowOK
    <3> QED BY <3>1, <3>2
  <2> QED BY <2>1 DEF Observe
<1>5. \/ \E a \in Agents : /\ agents'[a] # None
                           /\ agents' = [agents EXCEPT ![a] = agents'[a]]
                           /\ UNCHANGED installations
      \/ \E c \in Clients : /\ installations'[c] # None
                            /\ installations[c] # None =>
                                 installations'[c].agent = installations[c].agent
                            /\ installations' = [installations EXCEPT ![c] = installations'[c]]
                            /\ UNCHANGED agents
  <2>1. /\ agents \in [Agents -> AgentRows \cup {None}]
        /\ installations \in [Clients -> InstallationRows \cup {None}]
        /\ agents' \in [Agents -> AgentRows \cup {None}]
        /\ installations' \in [Clients -> InstallationRows \cup {None}]
    BY DEF WInv, IInv, TypeOK
  <2>3. CASE \E a \in Agents : AddAgent(a)
    <3>1. PICK a \in Agents : AddAgent(a)
      BY <2>3
    <3>2. PICK p \in Products :
            agents' = [agents EXCEPT ![a] =
              [attrs |-> p.attrs, role |-> p.role,
               enabled |-> IF agents[a] = None THEN TRUE ELSE agents[a].enabled]]
      BY <3>1 DEF AddAgent
    <3>3. agents'[a] = [attrs |-> p.attrs, role |-> p.role,
               enabled |-> IF agents[a] = None THEN TRUE ELSE agents[a].enabled]
      BY <2>1, <3>2
    <3>4. agents'[a] \in AgentRows
      <4>1. p.attrs \in Seq(Tokens) /\ p.role \in Roles
        BY ConstantsAssumption
      <4>2. agents[a] = None \/ agents[a].enabled \in BOOLEAN
        BY <2>1 DEF AgentRows
      <4>3. (IF agents[a] = None THEN TRUE ELSE agents[a].enabled) \in BOOLEAN
        BY <4>2
      <4> DEFINE on == IF agents[a] = None THEN TRUE ELSE agents[a].enabled
      <4>4. on \in BOOLEAN /\ agents'[a] = [attrs |-> p.attrs, role |-> p.role, enabled |-> on]
        BY <3>3, <4>3
      <4> HIDE DEF on
      <4> QED BY <4>1, <4>4 DEF AgentRows
    <3> QED BY <3>1, <3>2, <3>3, <3>4, WindowAssumption DEF AddAgent
  <2>4. CASE \E a \in Agents, b \in BOOLEAN : SetAgentEnabled(a, b)
    <3>1. PICK a \in Agents, b \in BOOLEAN : SetAgentEnabled(a, b)
      BY <2>4
    <3>2. agents[a] \in AgentRows /\ agents' = [agents EXCEPT ![a].enabled = b]
          /\ UNCHANGED installations
      BY <2>1, <3>1 DEF SetAgentEnabled
    <3>3. agents'[a] = [agents[a] EXCEPT !.enabled = b] /\ agents'[a] \in AgentRows
      BY <2>1, <3>2 DEF AgentRows
    <3>4. agents' = [agents EXCEPT ![a] = agents'[a]]
      BY <2>1, <3>2
    <3> QED BY <3>2, <3>3, <3>4, WindowAssumption
  <2>5. CASE \E c \in Clients, a \in Agents : AddInstallation(c, a)
    <3>1. PICK c \in Clients, a \in Agents : AddInstallation(c, a)
      BY <2>5
    <3>2. /\ installations[c] = None /\ UNCHANGED agents
          /\ installations' = [installations EXCEPT ![c] = [agent |-> a, revoked |-> FALSE]]
      BY <3>1 DEF AddInstallation
    <3>3. installations'[c] = [agent |-> a, revoked |-> FALSE]
      BY <2>1, <3>2
    <3>4. installations'[c] \in InstallationRows
      BY <3>3 DEF InstallationRows
    <3> QED BY <3>2, <3>3, <3>4, WindowAssumption
  <2>6. CASE \E c \in Clients, b \in BOOLEAN : SetInstallationRevoked(c, b)
    <3>1. PICK c \in Clients, b \in BOOLEAN : SetInstallationRevoked(c, b)
      BY <2>6
    <3>2. /\ installations[c] \in InstallationRows /\ UNCHANGED agents
          /\ installations' = [installations EXCEPT ![c].revoked = b]
      BY <2>1, <3>1 DEF SetInstallationRevoked
    <3>3. /\ installations'[c] = [installations[c] EXCEPT !.revoked = b]
          /\ installations'[c] \in InstallationRows
          /\ installations'[c].agent = installations[c].agent
      BY <2>1, <3>2 DEF InstallationRows
    <3>4. installations' = [installations EXCEPT ![c] = installations'[c]]
      BY <2>1, <3>2
    <3> QED BY <3>2, <3>3, <3>4, WindowAssumption
  <2> QED BY <2>3, <2>4, <2>5, <2>6 DEF AdminStep
<1>6. seen' = [s \in Servers |->
                 IF [x \in Servers |-> IF pc[x] \in Serving THEN req[x] ELSE None][s] = None
                 THEN seen[s]
                 ELSE seen[s] \cup {(Contract!Entry')[
                   [x \in Servers |-> IF pc[x] \in Serving THEN req[x] ELSE None][s].azp]}]
  BY <1>4 DEF OpenNow, Entry
<1>7. Contract!Administer
  BY <1>2, <1>5, <1>6 DEF Contract!Administer, OpenNow, ReplyNow
<1> QED
  BY <1>7 DEF Contract!Next

LEMMA NextKeepsContract ==
  ASSUME WInv, WInv', [WindowNext]_<<vars, seen>>
  PROVE  [Contract!Next]_(Contract!vars)
<1>1. Contract!vars = Outside
  BY DEF Contract!vars, Outside, OpenNow, ReplyNow
<1>2. CASE UNCHANGED <<vars, seen>>
  BY <1>2 DEF vars, Contract!vars, Reply, Record
<1>3. CASE Next /\ Observe
  <2>1. CASE AdminStep
    BY <1>3, <2>1, AdminKeepsContract
  <2>2. CASE \E s \in Servers : Begin(s) \/ Reject(s) \/ ServeStep(s) \/ Crash(s)
    <3>1. PICK s \in Servers : Begin(s) \/ Reject(s) \/ ServeStep(s) \/ Crash(s)
      BY <2>2
    <3>2. Contract!Next \/ UNCHANGED Outside
      BY <1>3, <3>1, CallStepsKeepContract
    <3> QED
      BY <1>1, <3>2 DEF Contract!vars, Outside, OpenNow, ReplyNow
  <2>3. AdminStep \/ \E s \in Servers : Begin(s) \/ Reject(s) \/ ServeStep(s) \/ Crash(s)
    BY <1>3 DEF Next
  <2> QED
    BY <2>1, <2>2, <2>3
<1> QED
  BY <1>2, <1>3 DEF WindowNext

\* The server implements AccessContract: whatever its processes, cache, audit
\* stores, crashes and administrators do, from outside a call is a request and
\* an allowed reply, or is dropped.
THEOREM ServerKeepsContract == WindowSpec => KeepsContract
<1>1. WindowInit => Contract!Init
  <2> SUFFICES ASSUME WindowInit PROVE Contract!Init
    OBVIOUS
  <2>1. \A s \in Servers : pc[s] = "idle"
    BY DEF WindowInit, Init
  <2> QED
    BY <2>1 DEF WindowInit, Init, Contract!Init, Reply, Serving
<1>2. WInv /\ WInv' /\ [WindowNext]_<<vars, seen>> => [Contract!Next]_(Contract!vars)
  BY NextKeepsContract
<1> QED
  BY <1>1, <1>2, WindowsKept, PTL DEF WindowSpec, KeepsContract, Contract!Spec
=============================================================================
