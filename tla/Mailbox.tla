------------------------------ MODULE Mailbox ------------------------------
(***************************************************************************)
(* The daemon's registry of shells and the connections that empty it:     *)
(* src/adapters/gateways/sessions.rs with the handlers of src/daemon.rs    *)
(* that subscribe, poll, and flush what waited with a decision.            *)
(*                                                                         *)
(* Every connection has a thread of its own in the daemon.  The registry's *)
(* map is behind one mutex; a write to a connection happens outside of it, *)
(* except while a subscriber is attached.  The two ends of a connection    *)
(* are apart: what the daemon wrote sits in the socket until the client    *)
(* reads it, and is lost when the client goes away first.                  *)
(***************************************************************************)
EXTENDS Naturals, Sequences, SequencesExt

CONSTANTS
  Shells,       \* the interactive shells; a session's id is its shell's pid
  Listening,    \* those whose hook keeps a subscriber in the background (zsh)
  Signalled,    \* those whose frames carry a pid to poke (fish)
  Conns,        \* connections; one is used again once both ends dropped it
  None,         \* no connection, no shell
  MaxMessages,  \* bound: messages posted to one shell
  MaxRestarts   \* bound: times the daemon stops and another one starts

ASSUME MailboxAssumption ==
  /\ Listening \subseteq Shells
  /\ Signalled \subseteq Shells
  /\ None \notin Conns
  /\ MaxMessages \in Nat
  /\ MaxRestarts \in Nat

VARIABLES
  (* the registry *)
  known,       \* the keys of the map
  pending,     \* pending[s]: the messages not taken yet, oldest first
  subscriber,  \* subscriber[s]: the connection that gets messages live
  signal,      \* signal[s]: a pid to poke is recorded
  silent,      \* the configuration asks for no message
  lock,        \* the connection being attached under the mutex, else None
  (* the daemon's end of a connection *)
  phase,       \* phase[c]: how far its thread is
  hand,        \* hand[c]: drained from the registry, not written yet
  (* the client's end *)
  owner,       \* owner[c]: the shell it speaks for
  asked,       \* asked[c]: what it asked for
  open,        \* open[c]: the client has not gone away
  buf,         \* buf[c]: written by the daemon, not read by the client
  (* the shells *)
  alive,       \* alive[s]: the shell runs
  poked,       \* poked[s]: SIGUSR1 raised and not handled yet
  heard,       \* heard[s]: a command of s came in since the daemon started
  (* what happened *)
  posted,      \* posted[s]: messages posted to s; they are 1 .. posted[s]
  shown,       \* shown[s]: messages printed in s, in that order
  lost,        \* lost[s]: messages nobody will see
  restarts     \* times the daemon was replaced

registry == <<known, pending, subscriber, signal>>
server   == <<silent, lock, phase, hand>>
client   == <<owner, asked, open, buf>>
shell    == <<alive, poked, heard>>
history  == <<posted, shown, lost, restarts>>
vars     == <<registry, server, client, shell, history>>

\* The requests that concern the registry, and how far their threads are.
Request == {"subscribe", "pending", "finished"}
Phase   == Request \union {"idle", "acked", "live", "answering", "triaged", "deciding"}

Init ==
  /\ known      = {}
  /\ pending    = [s \in Shells |-> << >>]
  /\ subscriber = [s \in Shells |-> None]
  /\ signal     = [s \in Shells |-> FALSE]
  /\ silent     = FALSE
  /\ lock       = None
  /\ phase      = [c \in Conns |-> "idle"]
  /\ hand       = [c \in Conns |-> << >>]
  /\ owner      = [c \in Conns |-> None]
  /\ asked      = [c \in Conns |-> "pending"]
  /\ open       = [c \in Conns |-> FALSE]
  /\ buf        = [c \in Conns |-> << >>]
  /\ alive      = [s \in Shells |-> TRUE]
  /\ poked      = [s \in Shells |-> FALSE]
  /\ heard      = [s \in Shells |-> FALSE]
  /\ posted     = [s \in Shells |-> 0]
  /\ shown      = [s \in Shells |-> << >>]
  /\ lost       = [s \in Shells |-> {}]
  /\ restarts   = 0
-----------------------------------------------------------------------------
(***************************************************************************)
(* Helpers.                                                                *)
(***************************************************************************)
Free == lock = None

\* A write to the subscriber of s would succeed.
Reached(s) == subscriber[s] # None /\ open[subscriber[s]]

\* The phases once the daemon let go of a connection, if there was one.
LetGo(c) == [d \in Conns |-> IF d = c THEN "idle" ELSE phase[d]]

\* The subscriber that could not be written to is dropped.
StaysSubscribed(s) == subscriber
Unsubscribed(s) == [subscriber EXCEPT ![s] = None]

\* pending.push_front: what was taken and could not be written goes back.
NotPutBack(q, m) == q
PushFront(q, m) == <<m>> \o q

\* pending.drain(..)
Emptied(s) == [pending EXCEPT ![s] = << >>]

\* SIGUSR1 reaches the recorded pid.
PokesOnlyUnsubscribed(s) == signal[s] /\ alive[s] /\ subscriber[s] = None
Pokes(s) == signal[s] /\ alive[s]

\* entry().or_insert_with(): an operation creates the session it names.
Know(s) == known' = known \union {s}

Loses(s, M) == lost' = [lost EXCEPT ![s] = @ \union M]
-----------------------------------------------------------------------------
(***************************************************************************)
(* The clients.  A connection carries one request.  A hook, a signal       *)
(* handler and a command the user types all run in the foreground of the   *)
(* shell, one at a time; a subscriber runs in its background.              *)
(***************************************************************************)
Foreground(s) ==
  \E c \in Conns : open[c] /\ owner[c] = s /\ asked[c] # "subscribe"

Connect(c, s, request) ==
  /\ phase[c] = "idle" /\ ~open[c] /\ alive[s]
  /\ request # "subscribe" => ~Foreground(s)
  /\ phase' = [phase EXCEPT ![c] = request]
  /\ owner' = [owner EXCEPT ![c] = s]
  /\ asked' = [asked EXCEPT ![c] = request]
  /\ open'  = [open EXCEPT ![c] = TRUE]
  /\ UNCHANGED <<registry, silent, lock, hand, buf, alive, heard, history>>

\* `kintsu subscribe`, `kintsu pending` or `kintsu triage` starts.
Ask(c, s) ==
  /\ \E request \in Request :
       /\ request = "subscribe" => s \in Listening
       /\ Connect(c, s, request)
  /\ UNCHANGED poked

\* fish's handler of SIGUSR1 runs `kintsu pending`.
AnswerPoke(c, s) ==
  /\ poked[s]
  /\ poked' = [poked EXCEPT ![s] = FALSE]
  /\ Connect(c, s, "pending")

\* A subscriber prints every bubble as it comes.
ReadBubble(c) ==
  /\ asked[c] = "subscribe" /\ open[c] /\ buf[c] # << >>
  /\ buf'   = [buf EXCEPT ![c] = Tail(@)]
  /\ shown' = [shown EXCEPT ![owner[c]] = Append(@, Head(buf[c]))]
  /\ UNCHANGED <<registry, server, owner, asked, open, shell, posted, lost, restarts>>

\* The others print once the whole answer is there.
ReadAnswer(c) ==
  /\ asked[c] # "subscribe" /\ open[c] /\ phase[c] = "idle" /\ buf[c] # << >>
  /\ buf'   = [buf EXCEPT ![c] = << >>]
  /\ shown' = [shown EXCEPT ![owner[c]] = @ \o buf[c]]
  /\ UNCHANGED <<registry, server, owner, asked, open, shell, posted, lost, restarts>>

\* The end of the stream, a budget that ran out, a killed client: what it
\* has not read is lost.
HangUp(c) ==
  /\ open[c]
  /\ open' = [open EXCEPT ![c] = FALSE]
  /\ buf'  = [buf EXCEPT ![c] = << >>]
  /\ Loses(owner[c], ToSet(buf[c]))
  /\ UNCHANGED <<registry, server, owner, asked, shell, posted, shown, restarts>>

ShellExits(s) ==
  /\ alive[s]
  /\ alive' = [alive EXCEPT ![s] = FALSE]
  /\ poked' = [poked EXCEPT ![s] = FALSE]
  /\ UNCHANGED <<registry, server, client, heard, history>>
-----------------------------------------------------------------------------
(***************************************************************************)
(* Subscribe: the ack goes out before the mutex is taken; then what waits  *)
(* is written under the mutex, message by message, while the client may    *)
(* still go away.                                                          *)
(***************************************************************************)
Ack(c) ==
  /\ phase[c] = "subscribe"
  /\ phase' = [phase EXCEPT ![c] = IF open[c] THEN "acked" ELSE "idle"]
  /\ UNCHANGED <<registry, silent, lock, hand, client, shell, history>>

BeginAttach(c) ==
  /\ phase[c] = "acked" /\ Free
  /\ lock' = c
  /\ Know(owner[c])
  /\ UNCHANGED <<pending, subscriber, signal, silent, phase, hand, client, shell, history>>

AttachSend(c) ==
  LET s == owner[c] IN
  /\ lock = c /\ pending[s] # << >> /\ open[c]
  /\ buf'     = [buf EXCEPT ![c] = Append(@, Head(pending[s]))]
  /\ pending' = [pending EXCEPT ![s] = Tail(@)]
  /\ UNCHANGED <<known, subscriber, signal, server, owner, asked, open, shell, history>>

AttachFail(c) ==
  LET s == owner[c] IN
  /\ lock = c /\ pending[s] # << >> /\ ~open[c]
  /\ pending' = [pending EXCEPT ![s] = PushFront(Tail(@), Head(@))]
  /\ lock'    = None
  /\ phase'   = LetGo(c)
  /\ UNCHANGED <<known, subscriber, signal, silent, hand, client, shell, history>>

AttachDone(c) ==
  LET s == owner[c] IN
  /\ lock = c /\ pending[s] = << >>
  /\ subscriber' = [subscriber EXCEPT ![s] = c]
  /\ phase'      = [LetGo(subscriber[s]) EXCEPT ![c] = "live"]
  /\ lock'       = None
  /\ UNCHANGED <<known, pending, signal, silent, hand, client, shell, history>>
-----------------------------------------------------------------------------
(***************************************************************************)
(* Deliver: called by the background workers, only for shells that had a   *)
(* command triaged.                                                        *)
(***************************************************************************)
Post(s) ==
  /\ heard[s] /\ posted[s] < MaxMessages
  /\ posted' = [posted EXCEPT ![s] = @ + 1]
  /\ UNCHANGED <<silent, lock, hand, owner, asked, open, alive, heard, shown, restarts>>

DeliverSilent(s) ==
  /\ Post(s) /\ silent
  /\ Loses(s, {posted[s] + 1})
  /\ UNCHANGED <<registry, phase, buf, poked>>

DeliverLive(s) ==
  /\ Post(s) /\ ~silent /\ Free /\ Reached(s)
  /\ buf' = [buf EXCEPT ![subscriber[s]] = Append(@, posted[s] + 1)]
  /\ UNCHANGED <<registry, phase, poked, lost>>

DeliverLater(s) ==
  /\ Post(s) /\ ~silent /\ Free /\ ~Reached(s)
  /\ Know(s)
  /\ subscriber' = Unsubscribed(s)
  /\ phase'      = LetGo(subscriber[s])
  /\ pending'    = [pending EXCEPT ![s] = Append(@, posted[s] + 1)]
  /\ signal'     = [signal EXCEPT ![s] = @ /\ alive[s]]
  /\ poked'      = [poked EXCEPT ![s] = @ \/ Pokes(s)]
  /\ UNCHANGED <<buf, lost>>

Deliver(s) == DeliverSilent(s) \/ DeliverLive(s) \/ DeliverLater(s)
-----------------------------------------------------------------------------
(***************************************************************************)
(* Pending: what waits is taken under the mutex, then written bubble by    *)
(* bubble; a write that fails is not noticed.                              *)
(***************************************************************************)
Drain(c, next) ==
  LET s == owner[c] IN
  /\ Free
  /\ Know(s)
  /\ hand'    = [hand EXCEPT ![c] = pending[s]]
  /\ pending' = Emptied(s)
  /\ phase'   = [phase EXCEPT ![c] = next]
  /\ UNCHANGED <<subscriber, signal, silent, lock, client, shell, history>>

DrainForPoll(c) == phase[c] = "pending" /\ Drain(c, "answering")

\* The frame reaches the client, or nobody: send_line's error is dropped.
Write(c, frame) ==
  IF open[c]
  THEN buf' = [buf EXCEPT ![c] = @ \o frame] /\ UNCHANGED lost
  ELSE Loses(owner[c], ToSet(frame)) /\ UNCHANGED buf

SendBubble(c) ==
  /\ phase[c] = "answering" /\ hand[c] # << >>
  /\ Write(c, <<Head(hand[c])>>)
  /\ hand' = [hand EXCEPT ![c] = Tail(@)]
  /\ UNCHANGED <<registry, silent, lock, phase, owner, asked, open, shell,
                 posted, shown, restarts>>

SendDone(c) ==
  /\ phase[c] = "answering" /\ hand[c] = << >>
  /\ phase' = LetGo(c)
  /\ UNCHANGED <<registry, silent, lock, hand, client, shell, history>>
-----------------------------------------------------------------------------
(***************************************************************************)
(* CommandFinished, as far as messages go: the pid to poke is recorded,    *)
(* the command is triaged, what waits is drained and sent along with the   *)
(* decision in one frame.  A triage that fails answers an error instead.   *)
(***************************************************************************)
RegisterSignal(c) ==
  LET s == owner[c] IN
  /\ phase[c] = "finished" /\ Free
  /\ phase' = [phase EXCEPT ![c] = "triaged"]
  /\ heard' = [heard EXCEPT ![s] = TRUE]
  /\ Know(s)
  /\ signal' = [signal EXCEPT ![s] = @ \/ s \in Signalled]
  /\ UNCHANGED <<pending, subscriber, silent, lock, hand, client, alive, poked, history>>

TriageFails(c) ==
  /\ phase[c] = "triaged"
  /\ phase' = LetGo(c)
  /\ UNCHANGED <<registry, silent, lock, hand, client, shell, history>>

DrainForDecision(c) == phase[c] = "triaged" /\ Drain(c, "deciding")

SendDecision(c) ==
  /\ phase[c] = "deciding"
  /\ Write(c, hand[c])
  /\ hand'  = [hand EXCEPT ![c] = << >>]
  /\ phase' = LetGo(c)
  /\ UNCHANGED <<registry, silent, lock, owner, asked, open, shell, posted, shown, restarts>>
-----------------------------------------------------------------------------
(***************************************************************************)
(* The pinger, the settings, and the end of the daemon.                    *)
(***************************************************************************)
Dead(s) == subscriber[s] # None /\ ~open[subscriber[s]]

Ping ==
  /\ Free /\ \E s \in Shells : Dead(s)
  /\ subscriber' = [s \in Shells |-> IF Dead(s) THEN None ELSE subscriber[s]]
  /\ phase' = [c \in Conns |-> IF \E s \in Shells : Dead(s) /\ subscriber[s] = c
                               THEN "idle" ELSE phase[c]]
  /\ UNCHANGED <<known, pending, signal, silent, lock, hand, client, shell, history>>

\* The pid of a session is its id's, whatever else it said.
Gone(s) == s \in known /\ subscriber[s] = None /\ ~alive[s]

ForgetGone ==
  /\ Free /\ \E s \in Shells : Gone(s)
  /\ known'   = {s \in known : ~Gone(s)}
  /\ pending' = [s \in Shells |-> IF Gone(s) THEN << >> ELSE pending[s]]
  /\ signal'  = [s \in Shells |-> signal[s] /\ ~Gone(s)]
  /\ lost'    = [s \in Shells |-> IF Gone(s) THEN lost[s] \union ToSet(pending[s])
                                             ELSE lost[s]]
  /\ UNCHANGED <<subscriber, server, client, shell, posted, shown, restarts>>

SetSilent ==
  /\ silent' = ~silent
  /\ UNCHANGED <<registry, lock, phase, hand, client, shell, history>>

(***************************************************************************)
(* Shutdown, or a client of another version: the process exits at once,    *)
(* threads and all; the next one starts from nothing.  What a client has   *)
(* in its socket it can still read.                                        *)
(***************************************************************************)
HeldFor(s) == UNION {ToSet(hand[c]) : c \in {d \in Conns : owner[d] = s}}

Quit ==
  /\ restarts < MaxRestarts
  /\ restarts'   = restarts + 1
  /\ known'      = {}
  /\ pending'    = [s \in Shells |-> << >>]
  /\ subscriber' = [s \in Shells |-> None]
  /\ signal'     = [s \in Shells |-> FALSE]
  /\ lock'       = None
  /\ phase'      = [c \in Conns |-> "idle"]
  /\ hand'       = [c \in Conns |-> << >>]
  /\ heard'      = [s \in Shells |-> FALSE]
  /\ lost'       = [s \in Shells |-> lost[s] \union ToSet(pending[s]) \union HeldFor(s)]
  /\ UNCHANGED <<silent, client, alive, poked, posted, shown>>
-----------------------------------------------------------------------------
Thread(c) ==
  \/ Ack(c) \/ BeginAttach(c) \/ AttachSend(c) \/ AttachFail(c) \/ AttachDone(c)
  \/ DrainForPoll(c) \/ SendBubble(c) \/ SendDone(c)
  \/ RegisterSignal(c) \/ TriageFails(c) \/ DrainForDecision(c) \/ SendDecision(c)

Client(c) ==
  \/ ReadBubble(c) \/ ReadAnswer(c) \/ HangUp(c)
  \/ \E s \in Shells : Ask(c, s) \/ AnswerPoke(c, s)

Daemon == Ping \/ ForgetGone \/ SetSilent \/ Quit

Next ==
  \/ \E c \in Conns : Thread(c) \/ Client(c)
  \/ \E s \in Shells : Deliver(s) \/ ShellExits(s)
  \/ Daemon

Spec == Init /\ [][Next]_vars
-----------------------------------------------------------------------------
(***************************************************************************)
(* Fairness.  Every thread of the daemon runs on: the standard mutex lets  *)
(* each one in eventually however often others take it, hence strong       *)
(* fairness where it is taken.  A client reads what is there and ends at   *)
(* the end of its stream.  Nobody is obliged to type, to subscribe, to     *)
(* exit or to hang up early.                                               *)
(***************************************************************************)
Ended(c) == phase[c] = "idle" /\ buf[c] = << >> /\ HangUp(c)

Fairness ==
  /\ \A c \in Conns :
       /\ SF_vars(Thread(c))
       /\ WF_vars(ReadBubble(c) \/ ReadAnswer(c) \/ Ended(c))
  /\ \A s \in Signalled : SF_vars(\E c \in Conns : AnswerPoke(c, s))

FairSpec == Spec /\ Fairness
-----------------------------------------------------------------------------
(***************************************************************************)
(* Properties.                                                             *)
(***************************************************************************)
Messages == 1 .. MaxMessages

Types ==
  /\ known \subseteq Shells
  /\ pending \in [Shells -> Seq(Nat)]
  /\ subscriber \in [Shells -> Conns \union {None}]
  /\ signal \in [Shells -> BOOLEAN]
  /\ silent \in BOOLEAN
  /\ lock \in Conns \union {None}
  /\ phase \in [Conns -> Phase]
  /\ hand \in [Conns -> Seq(Nat)]
  /\ owner \in [Conns -> Shells \union {None}]
  /\ asked \in [Conns -> Request]
  /\ open \in [Conns -> BOOLEAN]
  /\ buf \in [Conns -> Seq(Nat)]
  /\ alive \in [Shells -> BOOLEAN]
  /\ poked \in [Shells -> BOOLEAN]
  /\ heard \in [Shells -> BOOLEAN]
  /\ posted \in [Shells -> Nat]
  /\ shown \in [Shells -> Seq(Nat)]
  /\ lost \in [Shells -> SUBSET Nat]
  /\ restarts \in Nat

Ends ==
  /\ lock # None => phase[lock] = "acked"
  /\ \A c \in Conns : phase[c] # "idle" \/ open[c] => owner[c] \in Shells
  /\ \A c \in Conns : phase[c] = "live" <=> \E s \in Shells : subscriber[s] = c
  /\ \A s \in Shells : subscriber[s] # None => owner[subscriber[s]] = s

(***************************************************************************)
(* Types, and that the daemon's ends are where the registry says they are: *)
(* a connection is live exactly while it is its own shell's subscriber,    *)
(* and only the thread that holds the mutex is in the middle of attaching. *)
(***************************************************************************)
TypeOK == Types /\ Ends

(***************************************************************************)
(* A message that arrives never overtakes one that waits: while a shell    *)
(* has a subscriber, which gets messages at once, nothing waits for it.    *)
(* (deliver drops a subscriber it cannot reach before it queues, attach    *)
(* makes one only once the queue is empty.)                                *)
(***************************************************************************)
NothingOvertakes ==
  \A s \in Shells : subscriber[s] # None => pending[s] = << >>

\* The connections that speak for s.
ConnsOf(s)  == {c \in Conns : owner[c] = s}

Settled(s, m) == m \in ToSet(shown[s]) \union lost[s]

(***************************************************************************)
(* Every message posted to a living fish is printed, or its daemon or the  *)
(* stream that carried it ended: no poke is coalesced into one that comes  *)
(* too early (deliver pokes, the shell polls on SIGUSR1).                  *)
(***************************************************************************)
EveryMessageEnds ==
  \A s \in Signalled : \A m \in Messages :
    (posted[s] >= m) ~> (Settled(s, m) \/ ~alive[s])

\* What is on its way to s: taken from the queue and not written, or written
\* and not read.
InFlight(s) == HeldFor(s) \union UNION {ToSet(buf[c]) : c \in ConnsOf(s)}

\* The registry keeps the promise of Post.
Promise == INSTANCE Post WITH
  waiting <- pending,
  carried <- [s \in Shells |-> InFlight(s)],
  seen    <- [s \in Shells |-> ToSet(shown[s])],
  gone    <- lost

PostSpec == Promise!Spec
=============================================================================
