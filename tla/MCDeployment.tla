---------------------------- MODULE MCDeployment ----------------------------
(***************************************************************************)
(* A small instance of Deployment for TLC.                                 *)
(***************************************************************************)
EXTENDS Deployment, TLC

\* No step tells one installation from another, and no property here is a liveness
\* property.
InstallationSymmetry == Permutations(Clients)

Group(gate, texts) == [gate |-> gate, texts |-> texts]

\* Two groups that alternate, with an ungated one counted from the end; a
\* payload that is too short; and a section of no group.
MCShapes ==
  {[groups |-> <<Group("entitled", <<1, 3>>), Group("barred", <<2>>), Group("none", <<4>>)>>,
    sections |-> <<0, 1, 0, -1>>],
   [groups |-> <<Group("entitled", <<1>>)>>, sections |-> <<0, 0>>],
   [groups |-> <<Group("none", <<1>>)>>, sections |-> <<1>>]}
=============================================================================
