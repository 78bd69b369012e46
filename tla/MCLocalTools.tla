---------------------------- MODULE MCLocalTools ----------------------------
(***************************************************************************)
(* A small instance of LocalTools for TLC.                                 *)
(***************************************************************************)
EXTENDS LocalTools

CONSTANTS s1, s2, s3, claude, opencode

\* Two sessions of the product with the SessionEnd hook, and one without it.
MCProduct == [s \in Sessions |-> IF s = s3 THEN opencode ELSE claude]
=============================================================================
