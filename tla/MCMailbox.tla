----------------------------- MODULE MCMailbox -----------------------------
(***************************************************************************)
(* One shell that both listens and can be poked, two connections: enough   *)
(* for a second request, or a second subscriber, to meet the first one.    *)
(***************************************************************************)
EXTENDS Mailbox, TLC

CONSTANTS fish, c1, c2
=============================================================================
