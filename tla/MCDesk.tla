------------------------------- MODULE MCDesk -------------------------------
(***************************************************************************)
(* Two shells that left a failure each in JSON files, of which the older   *)
(* one was explained last; one of two `make` commands fails on, below the  *)
(* home directory.  Three kept saves, so that the fourth prunes.           *)
(***************************************************************************)
EXTENDS Desk, TLC

CONSTANTS sh, zsh, daemon, client, build, test, make, home, work, t1, t2

MCProcs   == {daemon, client}
MCCommands == sh :> {build} @@ zsh :> {test}
MCDir     == sh :> home @@ zsh :> work
MCProgram == [c \in {build, test} |-> make]
MCAbove   == home :> {home} @@ work :> {home, work}
MCOld     == <<[shell |-> sh, what |-> build], [shell |-> zsh, what |-> test]>>
MCOldIgnores == <<Entry("command", build, "session", zsh)>>
Request(target, named, scope, dir) ==
  [target |-> target, named |-> named, scope |-> scope, dir |-> dir]
MCRequests ==
  {Request("everything", None, "until", None),
   Request("command", None, "everywhere", None),
   Request("program", None, "directory", home)}
\* Where an import was cut short, what opens the store is looked at, not what
\* users do then.
MCBound == cut => \A s \in Shells : frame[s] = Quiet
MCSymmetry == Permutations(Tools)
=============================================================================
