------------------------------ MODULE MCHooks ------------------------------
(***************************************************************************)
(* The three shells, with a prompt of two rows.                            *)
(***************************************************************************)
EXTENDS Hooks
=============================================================================
