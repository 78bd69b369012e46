----------------------------- MODULE MCHookWire -----------------------------
(***************************************************************************)
(* A small instance of HookWire for TLC.                                   *)
(***************************************************************************)
EXTENDS HookWire

CONSTANTS f1, f2

Op(act, input) == [act |-> act, server |-> "foreign", prefix |-> TRUE,
                   tool |-> "another", input |-> input]

\* One value of each kind, two files in either order, and a second value
\* that only a check on the whole input can notice.
MCInputs == {<<v>> : v \in Things \cup {f1}}
            \cup {<<f1, f2>>, <<f2, f1>>, <<"missing abe", f1>>, <<"plain", "secret">>,
                  <<"oabe", f1>>, <<"plain", "config">>}

MCOps == {Op(act, in) : act \in {"read", "write", "run"}, in \in MCInputs}
         \cup {o \in [act : {"mcp"}, server : {"pabel", "pabel-connector", "foreign"},
                      prefix : BOOLEAN, tool : Tools,
                      input : {<<"plain">>, <<f1>>}] : TRUE}

\* One call of each way through decide(), at three agents, for two hooks.
MCTogether == {<< <<"claude-code", "any">>, Op("read", <<f1>>)>>,
               << <<"windsurf", "write">>, Op("write", <<"config">>)>>,
               << <<"opencode", "any">>, [Op("mcp", <<"plain">>) EXCEPT !.server = "pabel"]>>}

MCCalls == {c \in CallType : (c.execute => c.write = "none") /\ (c.files # {} => c.mentions)}
=============================================================================
