------------------------------ MODULE MCPanel ------------------------------
(***************************************************************************)
(* Two models, two agents, two threads and a few keys, on a low and on a   *)
(* high terminal.                                                          *)
(***************************************************************************)
EXTENDS Panel

\* One panel opens on the last row and scrolls, one grows into the last row.
Terminals == {[rows |-> 9, top |-> 8], [rows |-> 11, top |-> 3]}

TwoModels == <<"fast", "deep">>
=============================================================================
