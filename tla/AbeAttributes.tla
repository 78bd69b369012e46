--------------------------- MODULE AbeAttributes ---------------------------
(***************************************************************************)
(* Attribute strings and policies, as far as the access decisions tell     *)
(* them apart.  An attribute string "a|b|c" is the sequence of its tokens, *)
(* a policy is the set of tokens it asks for, and a document is the        *)
(* sequence of its sections' policies.  OpenABE itself is outside the      *)
(* repository: a key opens what the tokens it was made for satisfy.        *)
(***************************************************************************)
EXTENDS Naturals, Sequences

TokensOf(string) == {string[i] : i \in DOMAIN string}

\* The sections a key made for this attribute string opens.
Entitled(doc, string) == {i \in DOMAIN doc : doc[i] \subseteq TokensOf(string)}
=============================================================================
