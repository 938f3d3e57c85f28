----------------------------- MODULE MCAnswers -----------------------------
(***************************************************************************)
(* One shell, a command that fails and one that does not: a second case of *)
(* the same command comes after the other one ran.                         *)
(***************************************************************************)
EXTENDS Answers, TLC

CONSTANTS sh, make, ls
=============================================================================
