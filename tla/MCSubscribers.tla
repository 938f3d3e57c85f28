--------------------------- MODULE MCSubscribers ---------------------------
(* Ticks of ten seconds: a ping every 2, a read timeout of 3. *)
EXTENDS Subscribers, TLC

CONSTANTS zsh1, zsh2
=============================================================================
