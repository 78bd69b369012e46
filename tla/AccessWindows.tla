--------------------------- MODULE AccessWindows ---------------------------
(***************************************************************************)
(* PabelServer with a history variable: what the registry said of a call's *)
(* installation and product at each moment of the call.  It only observes, *)
(* and lets the timing promises of server/core.py be stated: the registry  *)
(* is read twice, on two connections, while an administrator changes it.   *)
(***************************************************************************)
EXTENDS PabelServer

\* A NULL is not one of the values it stands beside.
ASSUME WindowAssumption ==
  /\ None \notin Clients /\ None \notin Agents /\ None \notin Requests
  /\ None \notin AgentRows /\ None \notin InstallationRows /\ None \notin Claims

VARIABLE seen    \* seen[s]: the registry entries during the call s serves

Reply(s) ==
  IF pc[s] = "done"
  THEN [result |-> answer[s].result, user |-> Record(s).user,
        agent |-> ctx[s].agent, readable |-> answer[s].readable]
  ELSE None

Contract == INSTANCE AccessContract WITH
  open  <- [s \in Servers |-> IF pc[s] \in Serving THEN req[s] ELSE None],
  reply <- [s \in Servers |-> Reply(s)]

Entry == Contract!Entry

Observe ==
  seen' = [s \in Servers |->
    IF pc'[s] \notin Serving THEN {}
    ELSE (IF pc[s] \in Serving THEN seen[s] ELSE {})
         \cup {Entry'[req'[s].azp]}]

WindowInit == Init /\ seen = [s \in Servers |-> {}]
WindowNext == Next /\ Observe
WindowSpec ==
  /\ WindowInit /\ [][WindowNext]_<<vars, seen>>
  /\ \A s \in Servers : WF_<<vars, seen>>(ServeStep(s) /\ Observe)

----------------------------------------------------------------------------

\* The history only ever holds entries the two tables could have produced,
\* and is empty between calls.
WindowTypeOK ==
  /\ seen \in [Servers -> SUBSET [inst : InstallationRows \cup {None},
                                  prod : AgentRows \cup {None}]]
  /\ \A s \in Servers : seen[s] = {} <=> pc[s] \notin Serving

\* An agent is only counted, and its attributes only contributed, when during
\* this very call its installation was active, and its product was enabled
\* with those attributes for a role the user's token carries.  A revocation or
\* a disabling that was over before the call began is always obeyed
\* (agents_admin.do_set_installation_revoked: "takes effect on this
\* installation's very next request").
GrantsWereOffered ==
  \A s \in Servers :
    pc[s] \in Serving /\ ctx[s].agent # None =>
      \E v, w \in seen[s] :
        /\ Contract!Active(v.inst) /\ v.inst.agent = ctx[s].agent
        /\ Contract!Enabled(w.prod)
        /\ ctx[s].attrs # <<>> =>
             w.prod.role \in RolesOf(s) /\ w.prod.attrs = ctx[s].attrs

\* A refusal blamed on the registry is never a leftover of an earlier state:
\* during the call the installation really was missing or revoked, or the
\* product really was disabled.
RefusalsHadCause ==
  \A s \in Servers :
    pc[s] \in Serving /\ answer[s] # None =>
      /\ answer[s].cause = "installation" =>
           \E v \in seen[s] : ~Contract!Active(v.inst)
      /\ answer[s].cause = "product" =>
           \E v, w \in seen[s] : Contract!Active(v.inst) /\ ~Contract!Enabled(w.prod)

\* The server keeps the contract of AccessContract: its steps, cache and audit
\* are invisible from outside.
KeepsContract == Contract!Spec
=============================================================================
