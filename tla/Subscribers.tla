---------------------------- MODULE Subscribers ----------------------------
(***************************************************************************)
(* Who notices that somebody is gone, and when.  The daemon writes a ping  *)
(* to every subscriber at a fixed interval, drops the ones it cannot write *)
(* to, and forgets the sessions whose shell is gone and that nobody        *)
(* listens for.  A subscriber reads with a timeout; when the timeout runs  *)
(* out it looks whether its shell is still its parent.                     *)
(*                                                                         *)
(* Time passes in ticks.  Nothing that is due waits for the next tick,     *)
(* except the pinger, which may wake late.                                 *)
(***************************************************************************)
EXTENDS Naturals

CONSTANTS
  Shells,
  PingEvery,     \* SUBSCRIBER_PING, in ticks
  Slack,         \* bound: how late the pinger may wake
  ReadTimeout    \* the timeout follow() sets, in ticks

ASSUME SubscribersAssumption ==
  /\ PingEvery \in Nat \ {0}
  /\ Slack \in Nat
  /\ ReadTimeout \in Nat \ {0}

VARIABLES
  known,      \* sessions of the registry
  subscribed, \* those the registry has a subscriber of
  following,  \* those whose subscriber process runs
  alive,      \* those whose shell runs
  slept,      \* ticks since the pinger woke
  quiet,      \* quiet[s]: ticks since the subscriber read a line
  owed,       \* those that an answer may still come for once they are gone
  lingers     \* lingers[s]: ticks a session is known that nobody has a use for

sweepVars == <<known, subscribed, following, alive, slept, quiet, owed, lingers>>

SweepInit ==
  /\ known = {} /\ subscribed = {} /\ following = {}
  /\ alive = Shells /\ owed = Shells
  /\ slept = 0
  /\ quiet   = [s \in Shells |-> 0]
  /\ lingers = [s \in Shells |-> 0]

\* A shell that is gone and that no subscriber process listens for.
Useless(s) == s \notin alive /\ s \notin following

Tick ==
  /\ slept < PingEvery + Slack
  /\ \A s \in following : quiet[s] < ReadTimeout
  /\ slept'   = slept + 1
  /\ quiet'   = [s \in Shells |-> IF s \in following THEN quiet[s] + 1 ELSE 0]
  /\ lingers' = [s \in Shells |-> IF s \in known /\ Useless(s) THEN lingers[s] + 1 ELSE 0]
  /\ UNCHANGED <<known, subscribed, following, alive, owed>>

\* The hook of a new shell registers and starts `kintsu subscribe`, which
\* starts again when the old one ended.
Subscribe(s) ==
  /\ s \in alive \ following
  /\ known'      = known \union {s}
  /\ subscribed' = subscribed \union {s}
  /\ following'  = following \union {s}
  /\ quiet'      = [quiet EXCEPT ![s] = 0]
  /\ UNCHANGED <<alive, slept, owed, lingers>>

\* A message for s: to the subscriber, or kept, which makes s known again.
\* What the subscriber cannot print any more it drops.  Bound: one answer
\* comes after the shell is gone.
Deliver(s) ==
  /\ s \in alive \union owed
  /\ owed'       = owed \intersect (alive \union (owed \ {s}))
  /\ known'      = known \union {s}
  /\ subscribed' = subscribed \ ({s} \ following)
  /\ quiet'      = [quiet EXCEPT ![s] = 0]
  /\ lingers'    = [lingers EXCEPT ![s] = IF s \in known THEN @ ELSE 0]
  /\ UNCHANGED <<following, alive, slept>>

NoneDropped(S) == S
Pinged(S) == S \intersect following

ForgetsUnheard(K, S) == K \intersect S
StillNeeded(K, S) == K \intersect (alive \union S)

\* The pinger: every subscriber that can be written to reads a line, the
\* others are dropped; then the sessions of shells that are gone.
Wake ==
  /\ slept >= PingEvery
  /\ slept'      = 0
  /\ subscribed' = Pinged(subscribed)
  /\ known'      = StillNeeded(known, subscribed')
  /\ quiet'      = [s \in Shells |-> IF s \in subscribed THEN 0 ELSE quiet[s]]
  /\ UNCHANGED <<following, alive, owed, lingers>>

\* The read timed out: a subscriber whose shell is gone ends.
TimesOut(s) ==
  /\ s \in following /\ quiet[s] = ReadTimeout
  /\ following' = IF s \in alive THEN following ELSE following \ {s}
  /\ quiet'     = [quiet EXCEPT ![s] = 0]
  /\ UNCHANGED <<known, subscribed, alive, slept, owed, lingers>>

ShellExits(s) ==
  /\ s \in alive
  /\ alive' = alive \ {s}
  /\ UNCHANGED <<known, subscribed, following, slept, quiet, owed, lingers>>

\* The subscriber is killed, with its terminal or by hand.
Killed(s) ==
  /\ s \in following
  /\ following' = following \ {s}
  /\ UNCHANGED <<known, subscribed, alive, slept, quiet, owed, lingers>>

SweepNext ==
  \/ Tick \/ Wake
  \/ \E s \in Shells :
       \/ Subscribe(s) \/ Deliver(s) \/ TimesOut(s) \/ ShellExits(s) \/ Killed(s)

SweepSpec == SweepInit /\ [][SweepNext]_sweepVars
-----------------------------------------------------------------------------
SweepTypes ==
  /\ subscribed \subseteq known /\ known \subseteq Shells
  /\ following \subseteq Shells /\ alive \subseteq Shells /\ owed \subseteq Shells
  /\ slept \in 0 .. PingEvery + Slack
  /\ quiet \in [Shells -> 0 .. ReadTimeout]
  /\ lingers \in [Shells -> Nat]

(***************************************************************************)
(* One sweep is enough: a session that nobody has a use for is forgotten   *)
(* by the next ping, its dead subscriber noticed by the same one.          *)
(***************************************************************************)
OneSweep == \A s \in Shells : lingers[s] <= PingEvery + Slack

(***************************************************************************)
(* A sweep never takes a session from a living shell, nor the subscriber   *)
(* from the registry while it reads.                                       *)
(***************************************************************************)
LivingKept ==
  [][\A s \in alive : /\ s \in known => s \in known'
                      /\ s \in subscribed \intersect following => s \in subscribed']_sweepVars
=============================================================================
