-------------------------- MODULE MCAccessWindows --------------------------
(***************************************************************************)
(* Small instances of AccessWindows for TLC.                               *)
(***************************************************************************)
EXTENDS AccessWindows

CONSTANTS alice, t, g, h, r, q

\* Successive tokens of one user: the role comes and goes.
MCClaims == {[user |-> alice, attrs |-> <<t>>, roles |-> {r}],
             [user |-> alice, attrs |-> <<t>>, roles |-> {}]}

\* A product re-registered with another attribute and another role.
MCProducts == {[attrs |-> <<g>>, role |-> r], [attrs |-> <<h>>, role |-> q]}

MCDocument == << {t}, {t, g}, {t, h} >>

MCRequests == [tool : Tools, azp : Clients \cup {None}, doc : {MCDocument}]
=============================================================================
