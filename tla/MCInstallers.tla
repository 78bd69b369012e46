---------------------------- MODULE MCInstallers ----------------------------
(***************************************************************************)
(* A small instance of Installers for TLC: one agent of each kind.         *)
(***************************************************************************)
EXTENDS Installers

CONSTANTS claude, vscode, opencode, codex, chatgpt

\* Claude Code has two hook points, VS Code no machine-wide place.
MCKeys == [a \in Agents |->
  CASE a = claude -> {"claude-code", "session-end"}
    [] a \in {vscode, opencode} -> {"hook"}
    [] OTHER -> {}]
MCBatches == {{a} : a \in Agents} \cup {{vscode, codex}}
=============================================================================
