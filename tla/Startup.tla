------------------------------- MODULE Startup -------------------------------
(***************************************************************************)
(* How a daemon comes and goes.  A client that cannot connect starts one,  *)
(* at most once per backoff, which a marker file beside the socket tells.  *)
(* The daemon takes the socket unless somebody answers on it, and leaves   *)
(* when it is told to or when a client of another version calls.           *)
(*                                                                         *)
(* bind, handle and quit in src/daemon.rs with connect_or_spawn, may_spawn *)
(* and the calls of src/adapters/gateways/daemon_client.rs.  Every system  *)
(* call on the socket's path is a step.                                    *)
(***************************************************************************)
EXTENDS Naturals, FiniteSets

CONSTANTS
  Clients,   \* processes that call the daemon, one call after the other
  Daemons,   \* bound: daemon processes at once
  Newest,    \* bound: the last version installed, from 1
  MaxCrashes, MaxRaces, \* bounds
  None, Stale \* nothing at the socket's path; a file nobody listens behind

ASSUME StartupAssumption ==
  /\ IsFiniteSet(Daemons)
  /\ None # Stale /\ {None, Stale} \intersect Daemons = {}
  /\ Newest \in Nat \ {0} /\ MaxCrashes \in Nat /\ MaxRaces \in Nat

VARIABLES
  installed,  \* the version of the binary
  socket,     \* whose socket is at the path
  recent,     \* the spawn marker is there, younger than SPAWN_BACKOFF
  phase,      \* phase[d]: how far the daemon is
  version,    \* version[d]: of its binary
  inbox,      \* inbox[d]: the frames sent to it and not handled yet
  step,       \* step[c]: how far the client's call is
  call,       \* call[c]: which call, and the client's version
  crashes,    \* how many so far
  races       \* how often a daemon began to start or to quit beside another that did

daemon == <<phase, version, inbox>>
client == <<step, call>>
vars   == <<installed, socket, recent, daemon, client, crashes, races>>

Version == 1 .. Newest
\* command_finished and subscribe; session_new; shutdown.  The calls that
\* never start a daemon are a registration that finds the marker.
Kind     == {"report", "register", "stop"}
Call     == [kind : Kind, version : Version]
NoCall   == [kind |-> "report", version |-> 1]
Starting == {"looks", "probes", "removes", "binds", "bound"}
Serving  == {"listens", "serves"}
Leaving  == {"quits", "leaves"}
Phase    == {"ended"} \union Starting \union Serving \union Leaving
Stage    == {"idle", "connects", "checks", "marks", "spawns", "waits", "unmarks"}
Frame    == [version : Version, stop : BOOLEAN]

Init ==
  /\ installed = 1
  /\ socket = None /\ recent = FALSE
  /\ phase   = [d \in Daemons |-> "ended"]
  /\ version = [d \in Daemons |-> 1]
  /\ inbox   = [d \in Daemons |-> {}]
  /\ step    = [c \in Clients |-> "idle"]
  /\ call    = [c \in Clients |-> NoCall]
  /\ crashes = 0 /\ races = 0

\* A connection to the path succeeds: the kernel queues it for a socket
\* that listens, until its process ends.
Reachable == socket \in Daemons /\ phase[socket] \in Serving \union Leaving
-----------------------------------------------------------------------------
(***************************************************************************)
(* The client.                                                             *)
(***************************************************************************)
On(c, here, next) ==
  /\ step[c] = here /\ step' = [step EXCEPT ![c] = next]
  /\ call' = IF next = "idle" THEN [call EXCEPT ![c] = NoCall] ELSE call

Begin(c, kind) ==
  /\ step[c] = "idle" /\ step' = [step EXCEPT ![c] = "connects"]
  /\ call' = [call EXCEPT ![c] = [kind |-> kind, version |-> installed]]
  /\ UNCHANGED <<installed, socket, recent, daemon, crashes>>

\* Whether it reads the answer or times out, it is done with the daemon;
\* a stop then takes the marker away.
Send(c) ==
  /\ \E from \in {"connects", "waits"} :
       On(c, from, IF call[c].kind = "stop" THEN "unmarks" ELSE "idle")
  /\ Reachable
  /\ inbox' = [inbox EXCEPT ![socket] =
                 @ \union {[version |-> call[c].version, stop |-> call[c].kind = "stop"]}]
  /\ UNCHANGED <<installed, socket, recent, phase, version, crashes>>

\* What a client does without reaching anybody.
ByItself == UNCHANGED <<installed, socket, daemon, crashes>>

\* Nobody answers: a report or a registration may start a daemon.
Refused(c) ==
  /\ On(c, "connects", IF call[c].kind = "stop" THEN "idle" ELSE "checks")
  /\ ~Reachable
  /\ ByItself /\ UNCHANGED recent

\* may_spawn: not within the backoff.
MaySpawn(c) ==
  /\ On(c, "checks", IF recent THEN "idle" ELSE "marks")
  /\ ByItself /\ UNCHANGED recent

Mark(c)   == On(c, "marks", "spawns") /\ recent' = TRUE /\ ByItself
Unmark(c) == On(c, "unmarks", "idle") /\ recent' = FALSE /\ ByItself

Ended == {d \in Daemons : phase[d] = "ended"}

\* A report waits for the new daemon, a registration does not.
Spawn(c) ==
  /\ On(c, "spawns", IF call[c].kind = "report" THEN "waits" ELSE "idle")
  /\ Ended # {}
  /\ LET d == CHOOSE d \in Ended : TRUE IN
       /\ phase'   = [phase EXCEPT ![d] = "looks"]
       /\ version' = [version EXCEPT ![d] = installed]
  /\ UNCHANGED <<installed, socket, recent, inbox, crashes>>

\* SPAWN_WAIT is over; the hook decides itself.
WaitEnds(c) == On(c, "waits", "idle") /\ ByItself /\ UNCHANGED recent
-----------------------------------------------------------------------------
(***************************************************************************)
(* The daemon: bind, then one thread per connection.                       *)
(***************************************************************************)
In(d, here, next) == phase[d] = here /\ phase' = [phase EXCEPT ![d] = next]
Alone == UNCHANGED <<installed, recent, version, inbox, client, crashes>>

LooksForSocket(d) ==
  /\ In(d, "looks", IF socket = None THEN "binds" ELSE "probes")
  /\ Alone /\ UNCHANGED socket

TakesItAnyway(d) == In(d, "probes", "removes") /\ Alone /\ UNCHANGED socket
Probe(d) ==
  /\ In(d, "probes", IF Reachable THEN "ended" ELSE "removes")
  /\ Alone /\ UNCHANGED socket

\* Whatever is at the path goes; nothing there is an error.
LeavesStale(d) == In(d, "removes", "binds") /\ Alone /\ UNCHANGED socket
RemoveStale(d) ==
  /\ In(d, "removes", IF socket = None THEN "ended" ELSE "binds")
  /\ socket' = None
  /\ Alone

\* The path must be free.
BindSocket(d) ==
  /\ In(d, "binds", IF socket = None THEN "bound" ELSE "ended")
  /\ socket' = IF socket = None THEN d ELSE socket
  /\ Alone

Listen(d) == In(d, "bound", "listens") /\ Alone /\ UNCHANGED socket

\* The permissions are set by path, on whatever is there; the frames that
\* came meanwhile are lost with the process when nothing is.
Without(d) == [inbox EXCEPT ![d] = {}]

SetPermissions(d) ==
  /\ In(d, "listens", IF socket = None THEN "ended" ELSE "serves")
  /\ inbox' = IF socket = None THEN Without(d) ELSE inbox
  /\ UNCHANGED <<installed, socket, recent, version, client, crashes>>

\* Another version in the frame: the answer is "outdated" and the daemon
\* quits; so does it when it is told to.  Its other threads go on until
\* the process has ended.
Outdated(d, f) == FALSE
Mismatch(d, f) == f.version # version[d]

Handle(d) ==
  \E f \in inbox[d] :
    /\ phase[d] \in {"serves"} \union Leaving
    /\ inbox' = [inbox EXCEPT ![d] = @ \ {f}]
    /\ phase' = IF f.stop \/ Mismatch(d, f) THEN [phase EXCEPT ![d] = "quits"] ELSE phase
    /\ UNCHANGED <<installed, socket, recent, version, client, crashes>>

\* quit: whatever is at the path is removed, then the process ends.
Quit(d) == In(d, "quits", "leaves") /\ socket' = None /\ Alone

Exit(d) ==
  /\ In(d, "leaves", "ended")
  /\ inbox' = Without(d)
  /\ UNCHANGED <<installed, socket, recent, version, client, crashes>>

\* Killed, or the machine went down: the file stays.
Crash(d) ==
  /\ phase[d] # "ended" /\ crashes < MaxCrashes
  /\ phase' = [phase EXCEPT ![d] = "ended"]
  /\ inbox' = Without(d)
  /\ socket' = IF socket = d THEN Stale ELSE socket
  /\ crashes' = crashes + 1
  /\ UNCHANGED <<installed, recent, version, client>>
-----------------------------------------------------------------------------
\* SPAWN_BACKOFF went by.
Age ==
  /\ recent /\ recent' = FALSE
  /\ UNCHANGED <<installed, socket, daemon, client, crashes>>

Upgrade ==
  /\ installed < Newest /\ installed' = installed + 1
  /\ UNCHANGED <<socket, recent, daemon, client, crashes>>

ClientStep(c) ==
  Send(c) \/ Refused(c) \/ MaySpawn(c) \/ Mark(c) \/ Spawn(c) \/ WaitEnds(c) \/ Unmark(c)

DaemonStep(d) ==
  \/ LooksForSocket(d) \/ Probe(d) \/ RemoveStale(d) \/ BindSocket(d)
  \/ Listen(d) \/ SetPermissions(d) \/ Handle(d) \/ Quit(d) \/ Exit(d)

\* Every step with its count of races.
Unsettled(of) == Cardinality({d \in Daemons : of[d] \in Starting \union Leaving})

Counted(A) ==
  /\ A
  /\ races' = IF Unsettled(phase') > Unsettled(phase) /\ Unsettled(phase') > 1
              THEN races + 1 ELSE races
  /\ races' <= MaxRaces

Next ==
  \/ \E c \in Clients : \/ Counted(ClientStep(c))
                        \/ \E kind \in Kind : Counted(Begin(c, kind))
  \/ \E d \in Daemons : Counted(DaemonStep(d)) \/ Counted(Crash(d))
  \/ Counted(Age) \/ Counted(Upgrade)

Spec == Init /\ [][Next]_vars

(***************************************************************************)
(* Processes run on, and so does the thread that quits among the others;   *)
(* time passes, and commands go on failing in the shells, whose hooks      *)
(* report them.                                                            *)
(***************************************************************************)
FairSpec ==
  /\ Spec /\ WF_vars(Counted(Age))
  /\ \A d \in Daemons : WF_vars(Counted(DaemonStep(d))) /\ WF_vars(Counted(Quit(d) \/ Exit(d)))
  /\ \A c \in Clients : WF_vars(Counted(ClientStep(c))) /\ SF_vars(Counted(Begin(c, "report")))
-----------------------------------------------------------------------------
(***************************************************************************)
(* Properties.                                                             *)
(***************************************************************************)
\* Types; only a process that listens, or is ending, has frames in its
\* queue, and the socket at the path is that of a process that bound it and
\* neither ended nor removed it.
Types ==
  /\ installed \in Version
  /\ socket \in Daemons \union {None, Stale} /\ recent \in BOOLEAN
  /\ phase \in [Daemons -> Phase] /\ version \in [Daemons -> Version]
  /\ inbox \in [Daemons -> SUBSET Frame]
  /\ step \in [Clients -> Stage] /\ call \in [Clients -> Call]
  /\ crashes \in 0 .. MaxCrashes /\ races \in 0 .. MaxRaces

Queues == \A d \in Daemons : phase[d] \in {"ended"} \union Starting => inbox[d] = {}
Owns   == \A d \in Daemons : socket = d => phase[d] \in {"bound", "quits"} \union Serving

TypeOK == Types /\ Queues /\ Owns

(***************************************************************************)
(* Every daemon that serves beside another is owed to a race of its own:   *)
(* two that started together, or one that started while another quit.      *)
(* Otherwise a second daemon finds that the first answers, and one that    *)
(* crashed or quit has one successor.                                      *)
(***************************************************************************)
OneButForRaces == Cardinality({d \in Daemons : phase[d] \in Serving}) <= 1 + races

(***************************************************************************)
(* Whatever crashes, stops and races there were, a daemon answers on the   *)
(* socket again: a stale file, a socket another daemon removed or a marker *)
(* never lock everybody out.                                               *)
(***************************************************************************)
ComesBack == ~Reachable ~> Reachable

(***************************************************************************)
(* DAEMON.md: "Upgrading Kintsu never leaves a stale daemon around".  In   *)
(* the end whoever answers on the socket is of the installed version.      *)
(***************************************************************************)
UpgradeArrives == <>[](Reachable => version[socket] = installed)
=============================================================================
