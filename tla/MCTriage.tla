----------------------------- MODULE MCTriage -----------------------------
(***************************************************************************)
(* Three failures: a rule is sure enough of the fix of gti to pre-type it, *)
(* less sure of that of gut, and only models have one for make.            *)
(*                                                                         *)
(* Troubled: one shell, a store that fails, a daemon that may be late.     *)
(* Sharing: two shells that make the same mistake and take the same fix,   *)
(* which one book is taught by both, beside each other.                    *)
(***************************************************************************)
EXTENDS Triage, TLC

CONSTANTS s1, s2, gti, gut, make, git

MCCure == [what \in Ruled |-> git]
Troubled == [open |-> {s1}, typed |-> {gti, make, git},
             storeFails |-> TRUE, late |-> TRUE, silent |-> FALSE]
Sharing == [open |-> {s1, s2}, typed |-> {gut, git},
            storeFails |-> FALSE, late |-> FALSE, silent |-> TRUE]
MCScenes == {Troubled, Sharing}
=============================================================================
