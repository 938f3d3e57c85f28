----------------------------- MODULE MCStartup -----------------------------
(* Three daemons: one that lost its socket, one that serves, and a third.  *)
EXTENDS Startup, TLC

CONSTANTS c1, c2, d1, d2, d3
=============================================================================
