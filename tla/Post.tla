------------------------------- MODULE Post -------------------------------
(***************************************************************************)
(* What the daemon promises about the messages it sends to shells, said   *)
(* without connections, locks or signals.  A message is posted to one     *)
(* shell.  It either waits its turn or, when nothing waits before it, is   *)
(* carried at once; what waits is taken oldest first; what is carried is   *)
(* shown once or is lost with its carrier; nothing comes back.             *)
(*                                                                         *)
(* Module Mailbox, the registry of sessions of the daemon, implements      *)
(* this: see PostSpec there.                                               *)
(***************************************************************************)
EXTENDS Naturals, Sequences, SequencesExt

CONSTANT Shells

VARIABLES
  posted,    \* posted[s]: messages are numbered 1, 2, ... per shell
  waiting,   \* waiting[s]: nobody has taken these yet, oldest first
  carried,   \* carried[s]: on their way to the shell
  seen,      \* seen[s]: printed in the shell
  gone       \* gone[s]: nobody will ever see these

vars == <<posted, waiting, carried, seen, gone>>

Init ==
  /\ posted  = [s \in Shells |-> 0]
  /\ waiting = [s \in Shells |-> << >>]
  /\ carried = [s \in Shells |-> {}]
  /\ seen    = [s \in Shells |-> {}]
  /\ gone    = [s \in Shells |-> {}]

\* The next message of s, once it is posted.
Fresh(s) == posted[s] + 1

(***************************************************************************)
(* A new message waits, or overtakes nothing, or is refused outright.      *)
(***************************************************************************)
Wait(s) ==
  /\ posted'  = [posted EXCEPT ![s] = Fresh(s)]
  /\ waiting' = [waiting EXCEPT ![s] = Append(@, Fresh(s))]
  /\ UNCHANGED <<carried, seen, gone>>

CarryAtOnce(s) ==
  /\ waiting[s] = << >>
  /\ posted'  = [posted EXCEPT ![s] = Fresh(s)]
  /\ carried' = [carried EXCEPT ![s] = @ \union {Fresh(s)}]
  /\ UNCHANGED <<waiting, seen, gone>>

Refuse(s) ==
  /\ posted' = [posted EXCEPT ![s] = Fresh(s)]
  /\ gone'   = [gone EXCEPT ![s] = @ \union {Fresh(s)}]
  /\ UNCHANGED <<waiting, carried, seen>>

\* The oldest messages leave the queue, one or several together.
Take(s) ==
  \E n \in 1 .. Len(waiting[s]) :
    /\ carried' = [carried EXCEPT ![s] = @ \union ToSet(SubSeq(waiting[s], 1, n))]
    /\ waiting' = [waiting EXCEPT ![s] = SubSeq(@, n + 1, Len(@))]
    /\ UNCHANGED <<posted, seen, gone>>

\* Messages arrive, one or several together.
Show(s) ==
  \E M \in SUBSET carried[s] :
    /\ carried' = [carried EXCEPT ![s] = @ \ M]
    /\ seen'    = [seen EXCEPT ![s] = @ \union M]
    /\ UNCHANGED <<posted, waiting, gone>>

\* A carrier breaks down with what it carried.
Lose(s) ==
  \E M \in SUBSET carried[s] :
    /\ carried' = [carried EXCEPT ![s] = @ \ M]
    /\ gone'    = [gone EXCEPT ![s] = @ \union M]
    /\ UNCHANGED <<posted, waiting, seen>>

\* Shells are gone, and what waited for them with them: one sweep finds
\* all that have gone since the last one.
Forget ==
  \E S \in SUBSET Shells :
    /\ waiting' = [s \in Shells |-> IF s \in S THEN << >> ELSE waiting[s]]
    /\ gone'    = [s \in Shells |-> IF s \in S THEN gone[s] \union ToSet(waiting[s])
                                               ELSE gone[s]]
    /\ UNCHANGED <<posted, carried, seen>>

\* The daemon stops: all that waits is gone, and so is what it still held.
Stop ==
  \E held \in [Shells -> SUBSET UNION {carried[s] : s \in Shells}] :
    /\ waiting' = [s \in Shells |-> << >>]
    /\ carried' = [s \in Shells |-> carried[s] \ held[s]]
    /\ gone'    = [s \in Shells |-> gone[s] \union ToSet(waiting[s])
                                            \union (carried[s] \intersect held[s])]
    /\ UNCHANGED <<posted, seen>>

Step(s) ==
  \/ Wait(s) \/ CarryAtOnce(s) \/ Refuse(s) \/ Take(s)
  \/ Show(s) \/ Lose(s)

Next == Stop \/ Forget \/ \E s \in Shells : Step(s)

Spec == Init /\ [][Next]_vars
=============================================================================
