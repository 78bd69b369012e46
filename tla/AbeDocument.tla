---------------------------- MODULE AbeDocument ----------------------------
(***************************************************************************)
(* An encrypted document: groups of sections that share one policy, each   *)
(* with one payload.  A group that can be opened gives its texts to its    *)
(* sections in order.  A text is reduced to the number of the section it   *)
(* was written for, and a policy to whether the reader satisfies it.       *)
(***************************************************************************)
EXTENDS Integers, Sequences, FiniteSets

CONSTANT Denied

Gates == {"none", "entitled", "barred"}
GroupType == [gate : Gates, texts : Seq(Nat)]
DocType == [groups : Seq(GroupType), sections : Seq(Int)]

\* groups[entry["group"]]: Python counts from 0, and negative ones from the end.
GroupOf(doc, i) ==
  LET index == doc.sections[i]
  IN  IF index < 0 THEN Len(doc.groups) + index + 1 ELSE index + 1

\* load_abe: a section of a group that is not there is a ValueError.
Loads(doc) == \A i \in DOMAIN doc.sections : GroupOf(doc, i) \in DOMAIN doc.groups

\* Group.decrypt_with: an ungated group needs no key; None otherwise, if the
\* key does not fit the ciphertext or does not satisfy the policy - or if
\* oabe_dec left no output for any other reason.
Opens(doc, g, fits, failed) ==
  \/ doc.groups[g].gate = "none"
  \/ doc.groups[g].gate = "entitled" /\ fits /\ g \notin failed

\* The place of section i among the sections of its group.
Rank_Global(doc, i) == i        \* mutant: its place in the document
Rank(doc, i) == Cardinality({x \in 1..i : GroupOf(doc, x) = GroupOf(doc, i)})

\* decrypt_document: texts and sections are zipped, so sections beyond the end
\* of a short payload stay without a text.
Decrypted(doc, fits, failed) ==
  [i \in DOMAIN doc.sections |->
     LET texts == doc.groups[GroupOf(doc, i)].texts IN
     IF Opens(doc, GroupOf(doc, i), fits, failed) /\ Rank(doc, i) \in DOMAIN texts
     THEN texts[Rank(doc, i)] ELSE Denied]

----------------------------------------------------------------------------
(* What an author means, for comparison.                                   *)

\* Every section has a group, and every payload holds the texts of its group's
\* sections, in their order.
WellFormed(doc) ==
  /\ Loads(doc)
  /\ \A g \in DOMAIN doc.groups :
       LET texts == doc.groups[g].texts IN
       /\ {texts[n] : n \in DOMAIN texts} = {i \in DOMAIN doc.sections : GroupOf(doc, i) = g}
       /\ \A m, n \in DOMAIN texts : m < n => texts[m] < texts[n]

\* Every section its own text, unless the reader is barred from it.
AsWritten(doc) ==
  [i \in DOMAIN doc.sections |->
     IF doc.groups[GroupOf(doc, i)].gate = "barred" THEN Denied ELSE i]
=============================================================================
