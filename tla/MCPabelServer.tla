--------------------------- MODULE MCPabelServer ---------------------------
(***************************************************************************)
(* Small instances of PabelServer for TLC.                                 *)
(***************************************************************************)
EXTENDS PabelServer

CONSTANTS alice, t, g, r    \* a user, a user token, an agent token, a role

\* The same user with and without the role, and without attributes: what
\* successive tokens of hers say while an administrator edits her in Keycloak.
MCClaims ==
  {[user |-> alice, attrs |-> <<t>>, roles |-> {r}],
   [user |-> alice, attrs |-> <<t>>, roles |-> {}],
   [user |-> alice, attrs |-> <<>>,  roles |-> {r}]}

MCProducts == {[attrs |-> <<g>>, role |-> r]}

\* A section for the user alone and one for the user through the agent.
MCDocument == << {t}, {t, g} >>

MCRequests == [tool : Tools, azp : Clients \cup {None}, doc : {MCDocument}]

\* What the connector asks for, for the instances with several processes.
MCReadsAndReports ==
  [tool : {"read_document", "report_denial"}, azp : Clients, doc : {MCDocument}]
=============================================================================
